CONSTANTS
  Conns = {c1, c2, c3}
  Names = {n1, n2, n3}
  NoName = NoName
  NoConn = NoConn
  Third = NoConn
  Fourth = NoConn
  Spare = NoName
  MaxClients = 3
  AcceptMayFail = FALSE
  MayStop = FALSE
  Requests <- JoinAndCry
  MaxSends = 2
  InFlight = 1
  OutCap = 2
  MayVanish = TRUE
  WriteMayYield = FALSE
  Attentive = {}
SPECIFICATION Spec
SYMMETRY Symmetry
PROPERTIES
  BroadcastReachesAll
CHECK_DEADLOCK FALSE
