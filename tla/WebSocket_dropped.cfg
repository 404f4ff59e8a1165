\* A close frame refused by the limit is followed by FIN without it.
\* Others to see:
\*   Usage = {"dropped"}, Sizes = {1, 2}, MaxBytes = 4, MaxDepth = 1:
\*     CorkReleased
\*   Usage = {"long"}, MaxBackpressure = 0, Sockets = {s1}, SendPings = {},
\*     Sizes = {1, 2}, MaxBytes = 5: FinAfterEverything
CONSTANTS
  s1 = s1
  s2 = s2
  Sockets = {s1, s2}
  Nil = Nil
  CorkSize = 2
  EraseDivisor = 2
  MaxBackpressure = 1
  ResetOnSend = FALSE
  SendPings = {s2}
  IdleTimeout <- MCIdleNever
  Sizes = {2}
  Usage = {}
  MaxBytes = 3
  MaxDepth = 2
SPECIFICATION Spec
INVARIANTS FinAfterEverything
CHECK_DEADLOCK FALSE
