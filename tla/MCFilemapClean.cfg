CONSTANTS
  LastImageBlock = 3
  Sizes <- MCSizes
  Lists <- MCLists
SPECIFICATION FairSpec
INVARIANTS
  TypeOK
  OnlyNarrows
  NarrowedIsAligned
  NothingLeftToClean
  ComputesClean
PROPERTY Returns
CHECK_DEADLOCK FALSE
