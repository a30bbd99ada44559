SPECIFICATION FairSpec
CONSTANTS
  MemoryDescriptors <- MapFromZero
  FRAME_SZ = 32
  PageFrameSz = 1
  Stack = 1
INVARIANTS
  NullMeansExhausted
