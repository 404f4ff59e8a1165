CONSTANTS
  s1 = s1
  s2 = s2
  Nil = Nil
  Sockets = {s1}
  CorkSize = 12
  EraseDivisor = 2
  Bodies = {0, 2}
  Rooms = {0, 1, 12}
  Throughput = 2
  MaxRequests = 2
  MaxDepth = 3
  MaxTokens = 12
  Usage = {"closing"}
SPECIFICATION Spec
PROPERTIES NothingAfterClose
CHECK_DEADLOCK FALSE
