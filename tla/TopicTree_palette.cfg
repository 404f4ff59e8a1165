CONSTANTS
  s1 = s1
  s2 = s2
  s3 = s3
  t1 = t1
  t2 = t2
  Nil = Nil
  Sockets = {s1, s2}
  Topics = {t1}
  MaxIndices = 2
  PaletteMax = 2
  MaxMessages = 4
  Garbage = {Nil}
SPECIFICATION Spec
INVARIANTS PaletteFitsIndex
