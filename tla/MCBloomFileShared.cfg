CONSTANTS
  x = x
  y = y
  z = z
  b = b
  c = c
  n = n
  m = m
  p = p
  q = q
  Procs = {p, q}
  Filters = {b, c}
  Names = {n, m}
  Items <- MCItems
  byteOf <- MCbyteOf
  chunkOf <- MCchunkOf
  Chunks = 2
  InfoEvery = 2
  Setups <- MCSetups
  MaxFd = 2
  MaxFiles = 2
SPECIFICATION Spec
INVARIANTS
  AddsSurvive
  NoPartialFile
  HeaderLags
  DescriptorsAreOwned
PROPERTIES
  WholeFileStays
CHECK_DEADLOCK FALSE
