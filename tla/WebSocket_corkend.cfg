\* end() inside a block that corks its own socket: FIN is forgotten.
\* Others to see, with the same constants but for Usage:
\*   {"upgrade"}  FinNotForgotten, and CorkReleased as INVARIANT
\*   {"publish"}  FinAfterEverything
CONSTANTS
  s1 = s1
  s2 = s2
  Sockets = {s1, s2}
  Nil = Nil
  CorkSize = 2
  EraseDivisor = 2
  MaxBackpressure = 0
  ResetOnSend = FALSE
  SendPings = {s2}
  IdleTimeout <- MCIdleNever
  Sizes = {2}
  Usage = {"end"}
  MaxBytes = 3
  MaxDepth = 2
SPECIFICATION Spec
INVARIANTS FinNotForgotten
CHECK_DEADLOCK FALSE
