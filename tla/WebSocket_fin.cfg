CONSTANTS
  s1 = s1
  s2 = s2
  Sockets = {s1, s2}
  Nil = Nil
  CorkSize = 2
  EraseDivisor = 2
  MaxBackpressure = 0
  ResetOnSend = FALSE
  SendPings = {s2}
  IdleTimeout <- MCIdleNever
  Sizes = {2}
  Usage = {}
  MaxBytes = 3
  MaxDepth = 2
SPECIFICATION FairSpec
INVARIANTS FinAfterEverything FinNotForgotten
PROPERTIES EndedIsClosed
CHECK_DEADLOCK FALSE
