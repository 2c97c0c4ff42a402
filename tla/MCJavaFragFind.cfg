CONSTANTS
  Bytes = {0, 1}
  SectorSize = 2
  TopBit = 3
  val3char <- MCVal3char
  sha1 <- MCSha1
  Images <- MCImages
  TargetLists <- MCTargets
SPECIFICATION Spec
INVARIANTS
  ReportIsComplete
PROPERTIES
  ImplementsBlockSearch
CHECK_DEADLOCK FALSE
