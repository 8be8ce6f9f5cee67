CONSTANTS
  Conns = {c1, c2}
  MaxClients = 1
  AcceptMayFail = FALSE
  MayStop = TRUE
SPECIFICATION LoopSpec
INVARIANTS
  LoopsUntilSignalled
CHECK_DEADLOCK FALSE
