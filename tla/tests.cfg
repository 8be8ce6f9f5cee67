CONSTANTS
  Conns = {1, 2, 3, 4}
  Names = {"Foo", "Bar", "Baz", "Qux"}
  NoName = NoName
  NoConn = NoConn
  MaxClients = 3
  AcceptMayFail = FALSE
  MayStop = TRUE
  Requests <- Scripted
  MaxSends = 3
  InFlight = 2
  OutCap = 2
  MayVanish = TRUE
  WriteMayYield = FALSE
SPECIFICATION TestSpec
INVARIANTS
  TestsPass
PROPERTIES
  TestsEnd
CHECK_DEADLOCK FALSE
