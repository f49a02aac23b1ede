CONSTANTS
  None = None
  Junk = Junk
  BLOCKSIZE = 2
  IntRange = 16
  LongRange = 64
  FileSizes <- Sizes
  Asks <- AnyNumbers
SPECIFICATION FairSpec
PROPERTY SilentClientIsDropped
CHECK_DEADLOCK FALSE
