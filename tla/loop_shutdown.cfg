CONSTANTS
  Conns = {c1, c2}
  MaxClients = 2
  AcceptMayFail = FALSE
  MayStop = TRUE
SPECIFICATION LoopSpec
INVARIANTS
  ShutdownWaits
CHECK_DEADLOCK FALSE
