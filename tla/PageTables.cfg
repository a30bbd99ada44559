SPECIFICATION FairSpec
CONSTANTS
  K = 2
  LastFrame = 8
  FrameArray <- Ascending
  Root = 3
  Garbage <- PresentGarbage
  EntryFrames = 16
  PointerFrames = 16
  MaxInUse = 2
  VPages = {0, 1, 2, 8}
  PPages = {0, 5}
INVARIANTS
  TypeOK
  TablesDistinct
  PresentAgrees
  EnoughFrames
PROPERTIES
  ImplementsAddressSpace
  OnlyTablesWritten
  CallsReturn
