SPECIFICATION BootFairSpec
CONSTANTS
  Machines <- Variants
  MemoryDescriptors <- MapOfBoot
  FRAME_SZ = 64
  PageFrameSz = 1
  Stack = 14
  K = 8
  LastFrame = 15
  Root = 2
  Garbage <- MostlyPresent
  EntryFrames = 256
  PointerFrames = 16
  PAGE_SZ = 2
  FramebufferBase = 32
  FramebufferSz = 3
  ApicBase = 40
  HpetBase = 38
  HpetSz = 1
  TestPage = 600
  TestEntry = 3
INVARIANTS
  BootTypeOK
  LostForCause
  ProtectedIntact
PROPERTY
  BootCompletes
CHECK_DEADLOCK FALSE
