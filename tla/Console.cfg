SPECIFICATION ConsoleSpec
CONSTANTS
  Width = 4
  Height = 5
  PixelsPerScanline = 4
  BufferSz = 20
  Margin = 6
  GlyphWidth = 2
  GlyphHeight = 2
  CURSOR_MAX_LINES = 2
  CURSOR_MAX_COLUMNS = 2
  Glyphs <- SmallFont
  Foregrounds = {"white"}
  Backgrounds = {"blue"}
  PanicMessage <- Message
INVARIANTS
  ConsoleTypeOK
  TextShown
PROPERTIES
  StaysInBuffer
