CONSTANTS
  Conns = {c1, c2, c3, c4}
  Names = {n1, n2, n3}
  NoName = NoName
  NoConn = NoConn
  Third = c3
  Fourth = c4
  Spare = n3
  MaxClients = 3
  AcceptMayFail = FALSE
  MayStop = FALSE
  Requests <- Everything
  MaxSends = 3
  InFlight = 1
  OutCap = 1
  MayVanish = TRUE
  WriteMayYield = TRUE
SPECIFICATION Spec
SYMMETRY Symmetry
CONSTRAINT BoundTame
INVARIANTS
  TargetsStay
  OnlyPanicsLeaveEntries
  Admission
  PairwiseFifo
  RepliesInOrder
  NobodyStuck
PROPERTIES
  DroppedForCause
  ImplementsForum
CHECK_DEADLOCK FALSE
