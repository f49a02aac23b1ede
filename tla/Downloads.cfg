CONSTANTS
  None = None
  Junk = Junk
  BLOCKSIZE = 2
  IntRange = 16
  LongRange = 64
  FileSizes <- Sizes
  Asks <- AnyNumbers
SPECIFICATION Spec
INVARIANT BlocksAreRight
INVARIANT NeverOtherBytes
CHECK_DEADLOCK FALSE
