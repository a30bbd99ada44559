------------------------------ MODULE Console ------------------------------
(***************************************************************************)
(* The console, src/src/console/console.c, over the framebuffer, and the   *)
(* panic screen of src/src/kutils.c.  Console__print_str and printf come   *)
(* down to a sequence of Console__print_char.                              *)
(***************************************************************************)
EXTENDS Framebuffer, Integers

CONSTANTS CURSOR_MAX_LINES, CURSOR_MAX_COLUMNS,
          Glyphs,             \* the font: the lit pixels of each character
          Foregrounds, Backgrounds, \* the colours callers choose
          PanicMessage        \* what kpanic prints

ASSUME ConsoleAssumption ==
  /\ {CURSOR_MAX_LINES, CURSOR_MAX_COLUMNS} \subseteq Nat \ {0}
  /\ CURSOR_MAX_COLUMNS * GlyphWidth <= Width
  /\ CURSOR_MAX_LINES * GlyphHeight < Height
  /\ Foregrounds \cup Backgrounds \subseteq Color

Newline == "\n"
Tab     == "\t"
Blank   == " "

(* The font is one whose glyphs leave their leftmost column dark, as those of *)
(* the printable characters of fonts/zap-light16.psf do.                      *)
ASSUME FontAssumption ==
  /\ Blank \in DOMAIN Glyphs /\ {Newline, Tab} \cap DOMAIN Glyphs = {}
  /\ Glyphs[Blank] = {}
  /\ \A c \in DOMAIN Glyphs :
       Glyphs[c] \subseteq (1 .. GlyphWidth - 1) \X (0 .. GlyphHeight - 1)

VARIABLES cursor,             \* line, column and colours
          pixels,             \* the framebuffer and the memory after it
          text                \* history: what was printed last at each position

consolevars == <<cursor, pixels, text>>

Positions == (0 .. CURSOR_MAX_LINES - 1) \X (0 .. CURSOR_MAX_COLUMNS - 1)
Characters == DOMAIN Glyphs \cup {Newline, Tab}

ConsoleCursor__new_line(c) == [c EXCEPT !.column = 0, !.line = @ + 1]

ConsoleCursor__next(c) ==
  IF c.column + 1 = CURSOR_MAX_COLUMNS THEN ConsoleCursor__new_line(c)
                                       ELSE [c EXCEPT !.column = @ + 1]

(* Mutant: the first line is not looked at. *)
ConsoleCursor__back_Unchecked(c) ==
  IF c.column > 0 THEN [c EXCEPT !.column = @ - 1]
                  ELSE [c EXCEPT !.column = CURSOR_MAX_COLUMNS, !.line = @ - 1]

(* To the end of the line above: the column after the last one. *)
ConsoleCursor__back(c) ==
  CASE c.column > 0                -> [c EXCEPT !.column = @ - 1]
    [] c.column = 0 /\ c.line > 0 -> [c EXCEPT !.column = CURSOR_MAX_COLUMNS, !.line = @ - 1]
    [] OTHER                       -> c

ConsoleCursor__gotoxy(c, x, y) == [c EXCEPT !.column = x, !.line = y]

(* The console as one value, so that an operation can be a sequence of others. *)
Console == [cursor |-> cursor, pixels |-> pixels, text |-> text]

Becomes(console) ==
  cursor' = console.cursor /\ pixels' = console.pixels /\ text' = console.text

-----------------------------------------------------------------------------
(* Mutant: the glyph is drawn one line below. *)
DrawChar_LineBelow(k, chr) ==
  LET at == <<k.cursor.line, k.cursor.column>> IN
  [cursor |-> ConsoleCursor__next(k.cursor),
   pixels |-> Framebuffer__print_glyph(k.pixels, Glyphs[chr],
                k.cursor.column * GlyphWidth, (k.cursor.line + 1) * GlyphHeight,
                k.cursor.fg_color, k.cursor.bg_color),
   text   |-> [q \in Positions |->
                IF q = at THEN <<chr, k.cursor.fg_color, k.cursor.bg_color>> ELSE k.text[q]]]

(* Console__print_char, for a character the font draws. *)
DrawChar(k, chr) ==
  LET at == <<k.cursor.line, k.cursor.column>> IN
  [cursor |-> ConsoleCursor__next(k.cursor),
   pixels |-> Framebuffer__print_glyph(k.pixels, Glyphs[chr],
                k.cursor.column * GlyphWidth, k.cursor.line * GlyphHeight,
                k.cursor.fg_color, k.cursor.bg_color),
   text   |-> [q \in Positions |->
                IF q = at THEN <<chr, k.cursor.fg_color, k.cursor.bg_color>> ELSE k.text[q]]]

Console__print_char(k, chr) ==
  CASE chr = Newline -> [k EXCEPT !.cursor = ConsoleCursor__new_line(@)]
    [] chr = Tab     -> [k EXCEPT !.cursor =
                          ConsoleCursor__next(ConsoleCursor__next(ConsoleCursor__next(@)))]
    [] OTHER         -> DrawChar(k, chr)

Console__print_str(k, str) ==
  LET printed[n \in 0 .. Len(str)] ==
        IF n = 0 THEN k ELSE Console__print_char(printed[n-1], str[n])
  IN  printed[Len(str)]

Reset(k) == [k EXCEPT !.cursor = ConsoleCursor__gotoxy(@, 0, 0)]

Console__clear_screen(k) ==
  Reset(Console__print_str(Reset(k),
    [j \in 1 .. CURSOR_MAX_LINES * CURSOR_MAX_COLUMNS |-> Blank]))

(* The screen after Framebuffer__set_all_pixels: no text is left. *)
Filled(k, color) ==
  [k EXCEPT !.pixels = Framebuffer__set_all_pixels(@, color),
            !.text = [at \in Positions |-> << >>]]

Panicked(k) ==
  LET f == Reset(Filled(k, BLUE))
  IN  Console__print_str([f EXCEPT !.cursor.bg_color = BLUE, !.cursor.fg_color = WHITE],
                         PanicMessage)

-----------------------------------------------------------------------------
(* The console before it is used, on a screen the firmware leaves in color c. *)
Fresh(c) ==
  [cursor |-> [line |-> 0, column |-> 0, fg_color |-> WHITE, bg_color |-> BLACK],
   pixels |-> [p \in 0 .. BufferSz + Margin - 1 |-> IF p < BufferSz THEN c ELSE Foreign],
   text   |-> [at \in Positions |-> << >>]]

(* What a panic says consists of characters, and ends on the screen. *)
ASSUME MessageAssumption ==
  /\ PanicMessage \in Seq(Characters)
  /\ \A c \in Color : Panicked(Fresh(c)).cursor.line < CURSOR_MAX_LINES

(* _start clears the screen. *)
ConsoleInit ==
  \E c \in Color :
    LET k == Console__clear_screen(Fresh(c))
    IN  cursor = k.cursor /\ pixels = k.pixels /\ text = k.text

(* Bound: nothing is printed from outside the screen.  The console would go on *)
(* there: it does not scroll, and draws over what lies below.                  *)
OnScreen == <<cursor.line, cursor.column>> \in Positions

PrintChar(chr) == OnScreen /\ Becomes(Console__print_char(Console, chr))
ClearScreen    == Becomes(Console__clear_screen(Console))
Fill(color)    == Becomes(Filled(Console, color))
Kpanic         == Becomes(Panicked(Console))

MoveCursor ==
  /\ \/ cursor' = ConsoleCursor__back(cursor)
     \/ \E at \in Positions : cursor' = ConsoleCursor__gotoxy(cursor, at[2], at[1])
     \/ \E c \in Foregrounds : cursor' = [cursor EXCEPT !.fg_color = c]
     \/ \E c \in Backgrounds : cursor' = [cursor EXCEPT !.bg_color = c]
  /\ UNCHANGED <<pixels, text>>

ConsoleNext ==
  \/ \E chr \in Characters : PrintChar(chr)
  \/ ClearScreen \/ Kpanic \/ MoveCursor
  \/ \E c \in Backgrounds : Fill(c)

ConsoleSpec == ConsoleInit /\ [][ConsoleNext]_consolevars

-----------------------------------------------------------------------------
(* The framebuffer and the history are well formed, and the cursor is never  *)
(* more than one column to the right of the screen (a tab may leave it below). *)
ConsoleTypeOK ==
  /\ cursor \in [line : 0 .. CURSOR_MAX_LINES + 2, column : 0 .. CURSOR_MAX_COLUMNS,
                 fg_color : Color, bg_color : Color]
  /\ pixels \in Contents
  /\ text \in [Positions -> {<< >>} \cup ((DOMAIN Glyphs) \X Color \X Color)]

(* What the pixel <<x, y>> of a position with text t may show. *)
Shows(t, x, y) ==
  CASE <<x, y>> \in Glyphs[t[1]]             -> {t[2]}
    [] <<x, y>> \notin Glyphs[t[1]] /\ x > 0 -> {t[3]}
    [] OTHER                                 -> {t[3], BLACK}

(* The screen shows at each position the character printed there last, in its *)
(* colours, whatever was printed next to it, before or after: what set_pixel  *)
(* writes too much, and the order of the writes, never spoil a glyph.  (The   *)
(* leftmost, dark column may turn black.)                                     *)
TextShown ==
  \A at \in Positions : text[at] # << >> =>
    \A x \in 0 .. GlyphWidth - 1, y \in 0 .. GlyphHeight - 1 :
      pixels[Address(at[2] * GlyphWidth + x, at[1] * GlyphHeight + y)] \in Shows(text[at], x, y)

(* Printing on the screen, and clearing it, leave the memory after the buffer *)
(* alone, although every pixel written spills into the next one (a fill of    *)
(* the whole framebuffer is excepted).                                        *)
StaysInBuffer ==
  [][\/ Kpanic \/ \E c \in Backgrounds : Fill(c)
     \/ \A p \in BufferSz .. BufferSz + Margin - 1 : pixels'[p] = pixels[p]]_consolevars
=============================================================================
