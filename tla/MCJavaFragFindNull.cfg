CONSTANTS
  Bytes = {0, 1}
  SectorSize = 2
  TopBit = 3
  val3char <- MCVal3char
  sha1 <- MCSha1
  Images <- MCImages
  TargetLists <- MCTargets
SPECIFICATION Spec
INVARIANT EveryTargetIsReported
CHECK_DEADLOCK FALSE
