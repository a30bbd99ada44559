SPECIFICATION FairSpec
CONSTANTS
  MemoryDescriptors <- MapWithHoles
  FRAME_SZ = 16
  PageFrameSz = 1
  Stack = 6
INVARIANTS
  TypeOK
  CountersMatch
  HeldFramesLocked
  NoProtectedFrameGranted
  NullMeansExhausted
PROPERTIES
  ImplementsPool
  InitializationEnds
