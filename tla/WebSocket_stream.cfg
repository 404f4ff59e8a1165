CONSTANTS
  s1 = s1
  s2 = s2
  Sockets = {s1, s2}
  Nil = Nil
  CorkSize = 2
  EraseDivisor = 2
  MaxBackpressure = 1
  ResetOnSend = TRUE
  SendPings = {s1, s2}
  IdleTimeout <- MCIdle
  Sizes = {1, 2}
  Usage = {"long", "publish", "end"}
  MaxBytes = 3
  MaxDepth = 2
SYMMETRY Symmetry
SPECIFICATION Spec
INVARIANTS TypeOK BackpressureExact StreamIntact CorkReleased CloseOnce
CHECK_DEADLOCK FALSE
