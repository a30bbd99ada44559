SPECIFICATION FairSpec
CONSTANTS
  BufSz = 7
  TempSz = 8
  StrSz = 4
  IndexRange = 16
  Char <- Characters
  Formats <- ShortFormats
  ArgLists <- Arguments
  Bases = {2, 8, 10, 16}
INVARIANTS
  TypeOK
  PrintsExpansion
  OverrunsIffTooLong
PROPERTY
  CallEnds
CHECK_DEADLOCK FALSE
