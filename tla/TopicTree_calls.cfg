CONSTANTS
  s1 = s1
  s2 = s2
  s3 = s3
  t1 = t1
  t2 = t2
  Nil = Nil
  Sockets = {s1, s2}
  Topics = {t1, t2}
  MaxIndices = 1
  PaletteMax = 2
  MaxMessages = 3
  Garbage = {Nil}
SPECIFICATION FairSpec
INVARIANTS TypeOK IndexSound TopicsConsistent
PROPERTIES RefinesPubSub DrainsEventually
