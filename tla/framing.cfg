CONSTANTS
  Byte = {"a", "b", "lf"}
  Newline = "lf"
  Bodies <- AllBodies
  Valid <- ParsingBodies
  BufSize = 4
  PipeCap = 4
  MaxLines = 3
SPECIFICATION FairSpec
INVARIANTS
  TypeOK
  LinesIntact
PROPERTIES
  ImplementsStream
  ErrorSticks
  LinesArrive
CHECK_DEADLOCK FALSE
