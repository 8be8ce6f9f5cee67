CONSTANTS
  Conns = {c1, c2, c3, c4}
  Names = {n1, n2, n3}
  NoName = NoName
  NoConn = NoConn
  Third = c3
  Fourth = c4
  Spare = n3
  MaxClients = 3
  AcceptMayFail = TRUE
  MayStop = FALSE
  Requests <- Everything
  MaxSends = 3
  InFlight = 1
  OutCap = 1
  MayVanish = TRUE
  WriteMayYield = TRUE
  Attentive = {}
SPECIFICATION Spec
SYMMETRY Symmetry
CONSTRAINT Bound
INVARIANTS
  TypeOK
  Admission
  PairwiseFifo
  RepliesInOrder
  GhostsWereBroken
  UniqueNames
  DroppedForCause
  WithinCapacity
PROPERTIES
  NothingLost
  ImplementsRoom
  BroadcastReachesHealthy
CHECK_DEADLOCK FALSE
