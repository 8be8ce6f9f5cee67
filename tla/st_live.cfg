CONSTANTS
  Conns = {c1, c2}
  Names = {n1, n2}
  NoName = NoName
  NoConn = NoConn
  Third = NoConn
  Fourth = NoConn
  Spare = NoName
  MaxClients = 2
  AcceptMayFail = FALSE
  MayStop = TRUE
  Requests <- JoinsAndCries
  MaxSends = 2
  InFlight = 1
  OutCap = 1
  MayVanish = FALSE
  WriteMayYield = TRUE
  Attentive = {c1}
SPECIFICATION ServingSpec
PROPERTIES
  SilentClientsExpire
  RequestsServed
  ChannelsDrain
  ShutdownCloses
CHECK_DEADLOCK FALSE
