CONSTANTS
  s1 = s1
  s2 = s2
  s3 = s3
  t1 = t1
  t2 = t2
  Nil = Nil
  Sockets = {s1, s2, s3}
  Topics = {t1}
  MaxIndices = 2
  PaletteMax = 3
  MaxMessages = 2
  Garbage = {s1, s2, s3}
SYMMETRY Symmetry
SPECIFICATION Spec
INVARIANTS DrainListExact LinksAgree
