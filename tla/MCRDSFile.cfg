CONSTANTS
  BufSize = 8
  MaxLines = 4
  LineLengths = {1, 2, 3, 4, 6, 9}
  NextLines = 6
  Files <- MCFiles
SPECIFICATION RDSSpec
INVARIANTS
  LinesAreWholeAndInOrder
  NoLineIsSkipped
CHECK_DEADLOCK FALSE
