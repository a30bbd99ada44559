SPECIFICATION FairSpec
CONSTANTS
  K = 4
  LastFrame = 15
  FrameArray <- Ascending
  Root = 5
  Garbage <- MostlyPresent
  EntryFrames = 256
  PointerFrames = 16
  MaxInUse = 3
  PAGE_SZ = 2
  FramebufferBase = 32
  FramebufferSz = 8
  ApicBase = 40
  HpetBase = 38
  HpetSz = 1
  TestPage = 153
  TestEntry = 3
INVARIANTS
  DevicesStayMapped
CHECK_DEADLOCK FALSE
