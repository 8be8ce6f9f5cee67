CONSTANTS
  Conns = {c1, c2}
  Names = {n1, n2}
  NoName = NoName
  NoConn = NoConn
  Third = NoConn
  Fourth = NoConn
  Spare = NoName
  MaxClients = 2
  AcceptMayFail = FALSE
  MayStop = FALSE
  Requests <- JoinAndCry
  MaxSends = 2
  InFlight = 1
  OutCap = 1
  MayVanish = FALSE
  WriteMayYield = FALSE
SPECIFICATION Spec
SYMMETRY Symmetry
INVARIANTS
  UniqueNames
CHECK_DEADLOCK FALSE
