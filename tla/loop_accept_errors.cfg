CONSTANTS
  Conns = {c1, c2}
  MaxClients = 1
  AcceptMayFail = TRUE
  MayStop = FALSE
SPECIFICATION FairLoopSpec
PROPERTIES
  AcceptErrorsReturned
CHECK_DEADLOCK FALSE
