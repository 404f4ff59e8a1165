CONSTANTS
  s1 = s1
  s2 = s2
  Nil = Nil
  Sockets = {s1}
  CorkSize = 12
  EraseDivisor = 2
  Bodies = {0, 2}
  Rooms = {1, 6}
  Throughput = 2
  MaxRequests = 2
  MaxDepth = 3
  MaxTokens = 6
  Usage = {}
SPECIFICATION Spec
INVARIANTS LastResponseSent IdleTimesOut ClosesWhenDrained HandlersInTurn
PROPERTIES NothingAfterClose
CHECK_DEADLOCK FALSE
