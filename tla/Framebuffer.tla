---------------------------- MODULE Framebuffer ----------------------------
(***************************************************************************)
(* The framebuffer driver, src/src/framebuffer/framebuffer.c: functions    *)
(* from a framebuffer's contents to its contents.  The unit of memory is a *)
(* pixel of four bytes.  set_pixel stores eight: the pixel, and the upper  *)
(* half of :color, which is 0 (black), into the pixel after it.            *)
(***************************************************************************)
EXTENDS Naturals, Sequences

CONSTANTS Width, Height,      \* the pixels that are seen
          PixelsPerScanline,
          BufferSz,           \* pixels of the buffer ...
          Margin,             \* ... and of the memory after it that we watch
          GlyphWidth, GlyphHeight

ASSUME FramebufferAssumption ==
  /\ {Width, Height, PixelsPerScanline, BufferSz, Margin, GlyphWidth, GlyphHeight} \subseteq Nat
  /\ Width <= PixelsPerScanline /\ Height * PixelsPerScanline <= BufferSz

BLACK == "black"
WHITE == "white"
BLUE  == "blue"
Foreign == "foreign"          \* what lies after the buffer

Color == {BLACK, WHITE, BLUE}

Contents == [0 .. BufferSz + Margin - 1 -> Color \cup {Foreign}]

Address(x, y) == y * PixelsPerScanline + x

Store(mem, p, v) == IF p \in DOMAIN mem THEN [mem EXCEPT ![p] = v] ELSE mem

Framebuffer__set_pixel(mem, x, y, color) ==
  Store(Store(mem, Address(x, y), color), Address(x, y) + 1, BLACK)

(* The contents after the pixels of :dots, each <<x, y, color>>, are set one by *)
(* one: the order of the loops decides what survives.                           *)
AfterDots(mem, dots) ==
  LET after[k \in 0 .. Len(dots)] ==
        IF k = 0 THEN mem
                 ELSE Framebuffer__set_pixel(after[k-1], dots[k][1], dots[k][2], dots[k][3])
  IN  after[Len(dots)]

(* All pixels, column by column. *)
Framebuffer__set_all_pixels(mem, color) ==
  AfterDots(mem, [k \in 1 .. Width * Height |->
                    <<(k - 1) \div Height, (k - 1) % Height, color>>])

(* Mutant: the rows are drawn from right to left. *)
GlyphDots_RightToLeft(lit, x_off, y_off, fg_color, bg_color) ==
  [k \in 1 .. GlyphWidth * GlyphHeight |->
     LET x == GlyphWidth - 1 - ((k - 1) % GlyphWidth)
         y == (k - 1) \div GlyphWidth
     IN  <<x + x_off, y + y_off, IF <<x, y>> \in lit THEN fg_color ELSE bg_color>>]

(* A glyph, the set of its lit pixels, row by row. *)
GlyphDots(lit, x_off, y_off, fg_color, bg_color) ==
  [k \in 1 .. GlyphWidth * GlyphHeight |->
     LET x == (k - 1) % GlyphWidth
         y == (k - 1) \div GlyphWidth
     IN  <<x + x_off, y + y_off, IF <<x, y>> \in lit THEN fg_color ELSE bg_color>>]

Framebuffer__print_glyph(mem, lit, x_off, y_off, fg_color, bg_color) ==
  AfterDots(mem, GlyphDots(lit, x_off, y_off, fg_color, bg_color))
=============================================================================
