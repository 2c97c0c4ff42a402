CONSTANTS
  a = a
  b = b
  c = c
  d = d
  Hashes = {a, b, c, d}
  Bits <- MCBits
  k = 2
  slice <- MCSlice
  BitsPerByte = 2
  Threads = {t1, t2}
  NoThread = NoThread
  multithreaded = TRUE
  MaxCalls = 2
SPECIFICATION FairSpec
INVARIANTS
  TypeOK
  MutualExclusion
  NoFalseNegative
  CountersBoundVector
  FirstIsToldOncePerThread
PROPERTIES
  ImplementsBloomSet
  CallsReturn
CHECK_DEADLOCK FALSE
