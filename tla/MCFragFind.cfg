CONSTANTS
  Hashes <- MCHashes
  Bits <- MCBits
  k = 2
  slice <- MCslice
  BitsPerByte = 8
  Bytes = {0, 1}
  Runs <- MCRuns
  MinBlocksize = 1
  Ms = {32}
  SectorSize = 2
  BlockNumbers = 16
  Word = 64
  md5 <- MCmd5
  Garbage <- MCGarbage
SPECIFICATION FairSpec
INVARIANTS
  FilemapExact
  LocationsWereScanned
  HitsAccountForMatches
  RunsAreGenuine
  ReportCoversFound
  FileReassembles
  CopyIsReported
PROPERTIES
  ImplementsBlockSearch
  Terminates
CHECK_DEADLOCK FALSE
