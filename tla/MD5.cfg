CONSTANTS
  BlockLen = 8
  LengthLen = 4
  ByteBits = 2
  WordSize = 16
  MaxBytes = 132
SPECIFICATION Spec
INVARIANTS
  DigestIsOfMessage
  ContextIsOfMessage
CHECK_DEADLOCK FALSE
