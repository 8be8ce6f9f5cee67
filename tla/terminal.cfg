CONSTANTS
  Conns = {c1, c2}
  Names = {n1, n2}
  NoName = NoName
  NoConn = NoConn
  MaxClients = 2
  AcceptMayFail = FALSE
  MayStop = TRUE
  Requests <- ChatLines
  MaxSends = 2
  InFlight = 1
  OutCap = 1
  MayVanish = FALSE
  WriteMayYield = FALSE
SPECIFICATION ProcessSpec
INVARIANTS
  FollowsProtocol
PROPERTIES
  MessagesShown
  QuitLeaves
CHECK_DEADLOCK FALSE
