CONSTANTS
  s1 = s1
  s2 = s2
  Nil = Nil
  Sockets = {s1}
  CorkSize = 12
  EraseDivisor = 2
  Bodies = {0, 2}
  Rooms = {1, 5}
  Throughput = 1
  MaxRequests = 2
  MaxDepth = 2
  MaxTokens = 5
  Usage = {"pipeline", "malformed", "head", "closing"}
SPECIFICATION Spec
INVARIANTS ResponseIntact ResponsesNotMixed OneOutcome CorkReleased
CHECK_DEADLOCK FALSE
