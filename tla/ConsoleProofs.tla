---------------------------- MODULE ConsoleProofs ----------------------------
(***************************************************************************)
(* Theorems about the framebuffer and the console, for every size of the   *)
(* screen, of the glyphs and of the scanlines, and every font whose glyphs *)
(* leave their leftmost column dark; and about printf and print_int, for   *)
(* every size of their buffers, every format and every number.             *)
(***************************************************************************)
EXTENDS Console, Printf, SequenceTheorems, FiniteSetTheorems, TLAPS, WellFoundedInduction

(* Every non-empty set of natural numbers has a least element. *)
LEMMA LeastElement ==
  ASSUME NEW T, T \subseteq Nat, T # {}
  PROVE  \E x \in T : \A y \in T : x <= y
<1>1. PICK x \in T : \A y \in T : ~ (<<y, x>> \in OpToRel(<, Nat))
  BY NatLessThanWellFounded, WFMin
<1>2. \A y \in T : ~ (y < x)
  BY <1>1 DEF OpToRel
<1>3. QED
  BY <1>2

-----------------------------------------------------------------------------
(* Arithmetic. *)

LEMMA ProductGrows ==
  ASSUME NEW a \in Nat, NEW b \in Nat, NEW n \in Nat, a < b
  PROVE  a * n + n <= b * n
<1>1. PICK d \in Nat : b = a + 1 + d
  BY b - a - 1 \in Nat
<1>2. b * n = a * n + n + d * n /\ d * n \in Nat
  BY <1>1
<1>3. QED
  BY <1>2

(* A number has one quotient and one rest. *)
LEMMA OneQuotient ==
  ASSUME NEW a \in Nat, NEW b \in Nat, NEW r \in Nat, NEW s \in Nat, NEW n \in Nat,
         r < n, s < n, a * n + r = b * n + s
  PROVE  a = b /\ r = s
<1>1. a * n \in Nat /\ b * n \in Nat
  OBVIOUS
<1>2. ~ (a < b)
  BY <1>1, ProductGrows
<1>3. ~ (b < a)
  BY <1>1, ProductGrows
<1>4. a = b
  BY <1>2, <1>3
<1>5. QED
  BY <1>1, <1>4

LEMMA Division ==
  ASSUME NEW a \in Nat, NEW n \in Nat, n # 0
  PROVE  /\ a \div n \in Nat /\ a % n \in Nat /\ a % n < n
         /\ a = (a \div n) * n + (a % n)
OBVIOUS

(* The product of two numbers as the places of an area, row by row. *)
LEMMA Area ==
  ASSUME NEW w \in Nat, NEW h \in Nat, NEW k \in 1 .. w * h
  PROVE  /\ w # 0 /\ k - 1 \in Nat
         /\ (k - 1) % w \in 0 .. w - 1 /\ (k - 1) \div w \in 0 .. h - 1
<1>1. w # 0 /\ k - 1 \in Nat /\ k - 1 < w * h /\ w * h = h * w
  OBVIOUS
<1> DEFINE q == (k - 1) \div w
           r == (k - 1) % w
<1>2. q \in Nat /\ r \in Nat /\ r < w /\ k - 1 = q * w + r
  BY <1>1, Division
<1> HIDE DEF q, r
<1>3. q < h
  <2>1. SUFFICES ASSUME ~ (q < h) PROVE FALSE
    OBVIOUS
  <2>2. h * w <= q * w
    <3>1. CASE q = h
      BY <3>1
    <3>2. CASE h < q
      <4>1. h * w + w <= q * w /\ h * w \in Nat /\ q * w \in Nat
        BY <3>2, <1>2, ProductGrows
      <4>2. QED
        BY <4>1
    <3>3. QED
      BY <3>1, <3>2, <2>1, <1>2
  <2>3. QED
    BY <1>1, <1>2, <2>2
<1>4. QED
  BY <1>1, <1>2, <1>3 DEF q, r

(* Each place of the area is one of them. *)
LEMMA PlaceInArea ==
  ASSUME NEW w \in Nat, NEW h \in Nat, NEW x \in 0 .. w - 1, NEW y \in 0 .. h - 1
  PROVE  /\ y * w + x + 1 \in 1 .. w * h
         /\ (y * w + x + 1 - 1) % w = x /\ (y * w + x + 1 - 1) \div w = y
<1>1. w # 0 /\ x \in Nat /\ y \in Nat /\ y * w \in Nat /\ w * h = h * w /\ y < h /\ x < w
  OBVIOUS
<1>2. y * w + w <= h * w
  BY <1>1, ProductGrows
<1> DEFINE k == y * w + x
<1>3. k \in Nat
  BY <1>1
<1>4. k + 1 \in 1 .. w * h
  BY <1>1, <1>2
<1>5. k \div w = y /\ k % w = x
  <2> DEFINE q == k \div w
             r == k % w
  <2>1. q \in Nat /\ r \in Nat /\ r < w /\ k = q * w + r
    BY <1>1, <1>3, Division
  <2>2. q * w + r = y * w + x
    BY <2>1
  <2> HIDE DEF k, q, r
  <2>3. q = y /\ r = x
    BY <1>1, <2>1, <2>2, OneQuotient
  <2>4. QED
    BY <2>3 DEF q, r
<1>6. y * w + x + 1 - 1 = k
  BY <1>1
<1>7. QED
  BY <1>4, <1>5, <1>6

-----------------------------------------------------------------------------
(* Setting pixels one by one. *)

Dots == Seq(Nat \X Nat \X Color)

DotAddress(d) == Address(d[1], d[2])

(* The recursive definition of AfterDots defines a function. *)
LEMMA AfterDotsDef ==
  ASSUME NEW mem, NEW dots \in Dots
  PROVE  \E f : /\ f[0] = mem /\ f[Len(dots)] = AfterDots(mem, dots)
                /\ \A k \in 1 .. Len(dots) :
                     f[k] = Framebuffer__set_pixel(f[k-1], dots[k][1], dots[k][2], dots[k][3])
<1> DEFINE Set(m, k) == Framebuffer__set_pixel(m, dots[k][1], dots[k][2], dots[k][3])
           Solves(f, m) == f = [k \in 0 .. m |-> IF k = 0 THEN mem ELSE Set(f[k-1], k)]
           T == {m \in Nat : ~ \E f : Solves(f, m)}
<1> HIDE DEF Set
<1>1. T = {}
  <2>1. SUFFICES ASSUME T # {} PROVE FALSE
    OBVIOUS
  <2>2. PICK m \in T : \A y \in T : m <= y
    <3> HIDE DEF Solves
    <3> QED BY <2>1, LeastElement
  <2>3. CASE m = 0
    <3>1. Solves([k \in 0 .. 0 |-> mem], 0)
      OBVIOUS
    <3>2. QED BY <2>3, <3>1
  <2>4. CASE m # 0
    <3>1. m-1 \in Nat /\ m-1 \notin T
      <4> HIDE DEF Solves
      <4> QED BY <2>4, <2>2
    <3>2. PICK f : Solves(f, m-1)
      BY <3>1
    <3> DEFINE g == [k \in 0 .. m |-> IF k = 0 THEN mem ELSE Set(f[k-1], k)]
    <3>3. \A k \in 0 .. m-1 : g[k] = f[k]
      BY <3>1, <3>2
    <3>4. \A k \in 0 .. m : k # 0 => k-1 \in 0 .. m-1
      BY <3>1
    <3>5. Solves(g, m)
      BY <3>1, <3>3, <3>4
    <3>6. QED BY <3>5
  <2>5. QED BY <2>3, <2>4
<1>2. Len(dots) \in Nat
  BY DEF Dots
<1>3. PICK h : Solves(h, Len(dots))
  BY <1>1, <1>2
<1> DEFINE f == CHOOSE f : Solves(f, Len(dots))
<1>4. Solves(f, Len(dots))
  <2> HIDE DEF Solves
  <2> QED BY <1>3
<1>5. AfterDots(mem, dots) = f[Len(dots)]
  BY DEF AfterDots, Set
<1> HIDE DEF f
<1>6. f[0] = mem /\ \A k \in 1 .. Len(dots) : f[k] = Set(f[k-1], k)
  BY <1>2, <1>4
<1>7. QED
  BY <1>5, <1>6 DEF Set

Cells == 0 .. BufferSz + Margin - 1

LEMMA AddressType ==
  /\ PixelsPerScanline \in Nat
  /\ \A x, y \in Nat : Address(x, y) \in Nat
<1>1. PixelsPerScanline \in Nat
  BY FramebufferAssumption
<1>2. \A x, y \in Nat : y * PixelsPerScanline \in Nat
  BY <1>1
<1>3. QED
  BY <1>1, <1>2 DEF Address

LEMMA StoreOne ==
  ASSUME NEW mem \in Contents, NEW p \in Nat, NEW v \in Color
  PROVE  /\ Store(mem, p, v) \in Contents
         /\ \A q \in Cells : Store(mem, p, v)[q] = IF q = p THEN v ELSE mem[q]
BY DEF Store, Contents, Cells

LEMMA SetPixel ==
  ASSUME NEW mem \in Contents, NEW x \in Nat, NEW y \in Nat, NEW color \in Color,
         NEW a \in Nat, a = Address(x, y)
  PROVE  /\ Framebuffer__set_pixel(mem, x, y, color) \in Contents
         /\ \A p \in Cells :
              Framebuffer__set_pixel(mem, x, y, color)[p] =
                IF p = a + 1 THEN BLACK ELSE IF p = a THEN color ELSE mem[p]
<1>1. PICK m \in Contents :
        /\ m = Store(mem, a, color)
        /\ \A q \in Cells : m[q] = IF q = a THEN color ELSE mem[q]
  BY StoreOne
<1>2. a + 1 \in Nat /\ BLACK \in Color
  BY DEF Color
<1>3. PICK b \in Nat : b = a + 1
  BY <1>2
<1>4. Store(m, b, BLACK) \in Contents
  BY <1>2, StoreOne
<1>5. ASSUME NEW q \in Cells
      PROVE  Store(m, b, BLACK)[q] = IF q = b THEN BLACK ELSE m[q]
  BY <1>2, StoreOne
<1>6. QED
  BY <1>1, <1>3, <1>4, <1>5 DEF Framebuffer__set_pixel

LEMMA SetDot ==
  ASSUME NEW mem \in Contents, NEW d \in Nat \X Nat \X Color
  PROVE  /\ DotAddress(d) \in Nat /\ d[3] \in Color
         /\ Framebuffer__set_pixel(mem, d[1], d[2], d[3]) \in Contents
         /\ \A p \in Cells :
              Framebuffer__set_pixel(mem, d[1], d[2], d[3])[p] =
                IF p = DotAddress(d) + 1 THEN BLACK
                ELSE IF p = DotAddress(d) THEN d[3] ELSE mem[p]
<1>1. PICK x \in Nat, y \in Nat, c \in Color : x = d[1] /\ y = d[2] /\ c = d[3]
  OBVIOUS
<1>2. PICK a \in Nat : a = Address(x, y)
  BY AddressType
<1>3. DotAddress(d) = a
  BY <1>1, <1>2 DEF DotAddress
<1>4. /\ Framebuffer__set_pixel(mem, x, y, c) \in Contents
      /\ \A p \in Cells :
           Framebuffer__set_pixel(mem, x, y, c)[p] =
             IF p = a + 1 THEN BLACK ELSE IF p = a THEN c ELSE mem[p]
  BY <1>2, SetPixel
<1>5. QED
  BY <1>1, <1>3, <1>4

(* Whatever the dots, what they leave is the contents of a framebuffer. *)
LEMMA AfterDotsType ==
  ASSUME NEW mem \in Contents, NEW dots \in Dots
  PROVE  AfterDots(mem, dots) \in Contents
<1>1. PICK f : /\ f[0] = mem /\ f[Len(dots)] = AfterDots(mem, dots)
               /\ \A k \in 1 .. Len(dots) :
                    f[k] = Framebuffer__set_pixel(f[k-1], dots[k][1], dots[k][2], dots[k][3])
  BY AfterDotsDef
<1>2. Len(dots) \in Nat /\ \A k \in 1 .. Len(dots) : dots[k] \in Nat \X Nat \X Color
  BY DEF Dots
<1> DEFINE T == {k \in 0 .. Len(dots) : f[k] \notin Contents}
<1>3. T = {}
  <2>1. SUFFICES ASSUME T # {} PROVE FALSE
    OBVIOUS
  <2>2. PICK k \in T : \A y \in T : k <= y
    <3>1. T \subseteq Nat
      BY <1>2
    <3> HIDE DEF T
    <3>2. QED
      BY <2>1, <3>1, LeastElement
  <2>3. k # 0 /\ k \in 1 .. Len(dots) /\ k-1 \in 0 .. Len(dots) /\ k-1 \notin T
    BY <1>1, <1>2, <2>2
  <2>4. f[k-1] \in Contents
    BY <2>3
  <2>5. f[k] \in Contents
    <3>1. /\ dots[k] \in Nat \X Nat \X Color
          /\ f[k] = Framebuffer__set_pixel(f[k-1], dots[k][1], dots[k][2], dots[k][3])
      BY <1>1, <1>2, <2>3
    <3>2. QED
      BY <2>4, <3>1, SetDot
  <2>6. QED
    BY <2>2, <2>5
<1>4. QED
  BY <1>1, <1>2, <1>3

(* Dots in the order of their addresses: each keeps its color, and only the *)
(* pixel after a dot may turn black.                                        *)
LEMMA AfterDotsInOrder ==
  ASSUME NEW mem \in Contents, NEW dots \in Dots,
         \A k, l \in 1 .. Len(dots) : k < l => DotAddress(dots[k]) < DotAddress(dots[l])
  PROVE  \A p \in Cells :
           \/ \E k \in 1 .. Len(dots) :
                p = DotAddress(dots[k]) /\ AfterDots(mem, dots)[p] = dots[k][3]
           \/ /\ \A k \in 1 .. Len(dots) : p # DotAddress(dots[k])
              /\ \/ AfterDots(mem, dots)[p] = mem[p]
                 \/ /\ AfterDots(mem, dots)[p] = BLACK
                    /\ \E k \in 1 .. Len(dots) : p = DotAddress(dots[k]) + 1
<1>1. PICK f : /\ f[0] = mem /\ f[Len(dots)] = AfterDots(mem, dots)
               /\ \A k \in 1 .. Len(dots) :
                    f[k] = Framebuffer__set_pixel(f[k-1], dots[k][1], dots[k][2], dots[k][3])
  BY AfterDotsDef
<1> DEFINE n == Len(dots)
           A(k) == DotAddress(dots[k])
           C(k) == dots[k][3]
<1>2. n \in Nat /\ \A k \in 1 .. n : /\ dots[k] \in Nat \X Nat \X Color
                                     /\ A(k) \in Nat /\ C(k) \in Color
  <2>1. n \in Nat /\ \A k \in 1 .. n : dots[k] \in Nat \X Nat \X Color
    BY DEF Dots
  <2>2. ASSUME NEW d \in Nat \X Nat \X Color PROVE DotAddress(d) \in Nat /\ d[3] \in Color
    BY AddressType DEF DotAddress
  <2>3. QED
    BY <2>1, <2>2
<1>3. ASSUME NEW k \in 1 .. n, f[k-1] \in Contents
      PROVE  /\ f[k] \in Contents
             /\ \A p \in Cells : f[k][p] = IF p = A(k) + 1 THEN BLACK
                                           ELSE IF p = A(k) THEN C(k) ELSE f[k-1][p]
  <2>1. /\ dots[k] \in Nat \X Nat \X Color
        /\ f[k] = Framebuffer__set_pixel(f[k-1], dots[k][1], dots[k][2], dots[k][3])
    BY <1>1, <1>2
  <2>2. QED
    BY <1>3, <2>1, SetDot
<1>4. \A k, l \in 1 .. n : k < l => A(k) < A(l)
  OBVIOUS
<1> DEFINE Drawn(m, p) ==
             \/ \E k \in 1 .. m : p = A(k) /\ f[m][p] = C(k)
             \/ /\ \A k \in 1 .. m : p # A(k)
                /\ \/ f[m][p] = mem[p]
                   \/ /\ f[m][p] = BLACK
                      /\ \E k \in 1 .. m : p = A(k) + 1
           Good(m) == f[m] \in Contents /\ \A p \in Cells : Drawn(m, p)
           T == {m \in 0 .. n : ~ Good(m)}
<1> HIDE DEF A, C, n
<1>5. T = {}
  <2>1. SUFFICES ASSUME T # {} PROVE FALSE
    OBVIOUS
  <2>2. PICK m \in T : \A y \in T : m <= y
    <3>1. T \subseteq Nat
      BY <1>2
    <3> HIDE DEF T
    <3>2. QED
      BY <2>1, <3>1, LeastElement
  <2>3. Good(0)
    BY <1>1
  <2>4. m # 0 /\ m \in 1 .. n /\ m-1 \in 0 .. n /\ m-1 \notin T
    <3> HIDE DEF Good
    <3> QED BY <1>2, <2>2, <2>3
  <2>5. Good(m-1)
    <3> HIDE DEF Good
    <3> QED BY <2>4
  <2>6. /\ f[m] \in Contents
        /\ \A p \in Cells : f[m][p] = IF p = A(m) + 1 THEN BLACK
                                      ELSE IF p = A(m) THEN C(m) ELSE f[m-1][p]
    BY <1>3, <2>4, <2>5
  <2>7. ASSUME NEW p \in Cells PROVE Drawn(m, p)
    <3>1. Drawn(m-1, p)
      BY <2>5, <2>7
    <3>2. \A k \in 1 .. m-1 : k \in 1 .. n /\ A(k) < A(m) /\ A(k) \in Nat
      BY <1>2, <1>4, <2>4
    <3>3. \A k \in 1 .. m : k \in 1 .. m-1 \/ k = m
      BY <1>2, <2>4
    <3>4. 1 .. m-1 \subseteq 1 .. m /\ m \in 1 .. m /\ A(m) \in Nat
      BY <1>2, <2>4
    <3>5. CASE p = A(m)
      BY <2>6, <3>4, <3>5
    <3>6. CASE p = A(m) + 1
      <4>1. \A k \in 1 .. m : p # A(k)
        BY <3>2, <3>3, <3>4, <3>6
      <4>2. f[m][p] = BLACK
        BY <2>6, <3>6
      <4>3. QED
        BY <3>4, <3>6, <4>1, <4>2
    <3>7. CASE p # A(m) /\ p # A(m) + 1
      <4>1. f[m][p] = f[m-1][p]
        BY <2>6, <3>7
      <4>2. QED
        BY <3>1, <3>3, <3>4, <3>7, <4>1
    <3>8. QED
      BY <3>5, <3>6, <3>7
  <2>8. QED
    BY <2>2, <2>6, <2>7
<1>6. n \in 0 .. n
  BY <1>2
<1>7. Good(n)
  <2> HIDE DEF Good
  <2> QED BY <1>5, <1>6
<1>8. QED
  BY <1>1, <1>7 DEF A, C, n

-----------------------------------------------------------------------------
(* The dots of a glyph, and of the whole screen. *)

GlyphColumns == 0 .. GlyphWidth - 1
GlyphRows    == 0 .. GlyphHeight - 1

LEMMA ScreenTypes ==
  /\ GlyphWidth \in Nat /\ GlyphHeight \in Nat /\ Width \in Nat /\ Height \in Nat
  /\ PixelsPerScanline \in Nat /\ BufferSz \in Nat /\ Margin \in Nat
  /\ CURSOR_MAX_LINES \in Nat /\ CURSOR_MAX_LINES # 0
  /\ CURSOR_MAX_COLUMNS \in Nat /\ CURSOR_MAX_COLUMNS # 0
BY FramebufferAssumption, ConsoleAssumption

(* A row of glyphs, and so one glyph, is no wider than a scanline. *)
LEMMA GlyphFits ==
  /\ CURSOR_MAX_COLUMNS * GlyphWidth <= PixelsPerScanline
  /\ GlyphWidth <= PixelsPerScanline
<1>1. CURSOR_MAX_COLUMNS * GlyphWidth \in Nat /\ 0 * GlyphWidth = 0
  BY ScreenTypes
<1>2. 0 * GlyphWidth + GlyphWidth <= CURSOR_MAX_COLUMNS * GlyphWidth
  BY ScreenTypes, ProductGrows
<1>3. QED
  BY <1>1, <1>2, ScreenTypes, FramebufferAssumption, ConsoleAssumption

LEMMA FunctionIsSequence ==
  ASSUME NEW S, NEW n \in Nat, NEW f \in [1 .. n -> S]
  PROVE  f \in Seq(S) /\ Len(f) = n
<1>1. f \in Seq(S)
  BY SeqDef
<1>2. DOMAIN f = 1 .. Len(f) /\ Len(f) \in Nat
  BY <1>1, LenProperties
<1>3. QED
  BY <1>1, <1>2

LEMMA GlyphDotsType ==
  ASSUME NEW lit, NEW x_off \in Nat, NEW y_off \in Nat, NEW fg \in Color, NEW bg \in Color
  PROVE  /\ GlyphDots(lit, x_off, y_off, fg, bg) \in Dots
         /\ Len(GlyphDots(lit, x_off, y_off, fg, bg)) = GlyphWidth * GlyphHeight
<1> DEFINE dots == GlyphDots(lit, x_off, y_off, fg, bg)
           n == GlyphWidth * GlyphHeight
<1>1. n \in Nat
  BY ScreenTypes
<1>2. ASSUME NEW k \in 1 .. n
      PROVE  dots[k] \in Nat \X Nat \X Color
  <2> DEFINE x == (k - 1) % GlyphWidth
             y == (k - 1) \div GlyphWidth
  <2>1. x \in Nat /\ y \in Nat
    BY ScreenTypes, Area
  <2> HIDE DEF x, y
  <2>2. <<x + x_off, y + y_off, IF <<x, y>> \in lit THEN fg ELSE bg>> \in Nat \X Nat \X Color
    BY <2>1
  <2>3. QED
    BY <2>2 DEF GlyphDots, x, y
<1>3. dots \in [1 .. n -> Nat \X Nat \X Color]
  <2>1. dots = [k \in 1 .. n |-> dots[k]]
    BY DEF GlyphDots
  <2> HIDE DEF dots, n
  <2>2. QED
    BY <1>2, <2>1
<1> HIDE DEF dots, n
<1>4. dots \in Dots /\ Len(dots) = n
  BY <1>1, <1>3, FunctionIsSequence DEF Dots
<1>5. QED
  BY <1>4 DEF dots, n

(* The dots of a glyph are drawn in the order of their addresses, and they are *)
(* the places of the glyph.                                                    *)
PlacesInOrder(dots, lit, x_off, y_off, fg, bg) ==
  LET n == GlyphWidth * GlyphHeight
  IN  /\ \A k, l \in 1 .. n : k < l => DotAddress(dots[k]) < DotAddress(dots[l])
      /\ \A k \in 1 .. n : \E x \in GlyphColumns, y \in GlyphRows :
           /\ DotAddress(dots[k]) = Address(x + x_off, y + y_off)
           /\ dots[k][3] = IF <<x, y>> \in lit THEN fg ELSE bg
      /\ \A x \in GlyphColumns, y \in GlyphRows : \E k \in 1 .. n :
           DotAddress(dots[k]) = Address(x + x_off, y + y_off)

LEMMA GlyphDotsPlaces ==
  ASSUME NEW lit, NEW x_off \in Nat, NEW y_off \in Nat, NEW fg \in Color, NEW bg \in Color
  PROVE  PlacesInOrder(GlyphDots(lit, x_off, y_off, fg, bg), lit, x_off, y_off, fg, bg)
<1> DEFINE dots == GlyphDots(lit, x_off, y_off, fg, bg)
           n == GlyphWidth * GlyphHeight
           X(k) == (k - 1) % GlyphWidth
           Y(k) == (k - 1) \div GlyphWidth
<1>1. ASSUME NEW k \in 1 .. n
      PROVE  /\ X(k) \in GlyphColumns /\ Y(k) \in GlyphRows
             /\ dots[k][3] = IF <<X(k), Y(k)>> \in lit THEN fg ELSE bg
             /\ DotAddress(dots[k]) = Address(X(k) + x_off, Y(k) + y_off)
  <2>1. X(k) \in GlyphColumns /\ Y(k) \in GlyphRows
    BY ScreenTypes, Area DEF GlyphColumns, GlyphRows
  <2>2. dots[k] = <<X(k) + x_off, Y(k) + y_off, IF <<X(k), Y(k)>> \in lit THEN fg ELSE bg>>
    BY DEF GlyphDots
  <2> HIDE DEF X, Y, dots, n
  <2>3. QED
    BY <2>1, <2>2 DEF DotAddress
<1>2. ASSUME NEW k \in 1 .. n, NEW l \in 1 .. n, k < l
      PROVE  DotAddress(dots[k]) < DotAddress(dots[l])
  <2>1. PICK w \in Nat, r \in Nat, o \in Nat, q \in Nat :
          w = GlyphWidth /\ r = PixelsPerScanline /\ o = x_off /\ q = y_off
    BY ScreenTypes
  <2>2. k - 1 \in Nat /\ l - 1 \in Nat /\ w # 0
    BY <2>1, ScreenTypes, Area
  <2>11. ASSUME NEW m \in Nat
         PROVE  \E x \in Nat, y \in Nat :
                  x = m % w /\ y = m \div w /\ x < w /\ m = y * w + x
    BY <2>2, Division
  <2>3. PICK x1 \in Nat, y1 \in Nat : x1 = X(k) /\ y1 = Y(k) /\ x1 < w /\ k - 1 = y1 * w + x1
    BY <2>1, <2>2, <2>11
  <2>4. PICK x2 \in Nat, y2 \in Nat : x2 = X(l) /\ y2 = Y(l) /\ x2 < w /\ l - 1 = y2 * w + x2
    BY <2>1, <2>2, <2>11
  <2>5. DotAddress(dots[k]) = (y1 + q) * r + (x1 + o)
        /\ DotAddress(dots[l]) = (y2 + q) * r + (x2 + o)
    BY <1>1, <2>1, <2>3, <2>4 DEF Address
  <2> HIDE DEF X, Y, dots, n
  <2>6. w <= r
    BY <2>1, GlyphFits
  <2>7. CASE y1 = y2
    <3>1. x1 < x2
      BY <1>2, <2>2, <2>3, <2>4, <2>7
    <3>2. (y1 + q) * r \in Nat
      OBVIOUS
    <3>3. QED
      BY <2>5, <2>7, <3>1, <3>2
  <2>8. CASE y1 < y2
    <3>1. (y1 + q) * r + r <= (y2 + q) * r
      BY <2>8, ProductGrows
    <3>2. (y1 + q) * r \in Nat /\ (y2 + q) * r \in Nat
      OBVIOUS
    <3>3. QED
      BY <2>3, <2>5, <2>6, <3>1, <3>2
  <2>9. ~ (y2 < y1)
    <3>1. SUFFICES ASSUME y2 < y1 PROVE FALSE
      OBVIOUS
    <3>2. y2 * w + w <= y1 * w /\ y2 * w \in Nat /\ y1 * w \in Nat
      BY <3>1, ProductGrows
    <3>3. k - 1 < l - 1
      BY <1>2, <2>2
    <3>4. y1 * w + x1 < y2 * w + x2
      BY <2>3, <2>4, <3>3
    <3>5. QED
      BY <2>4, <3>2, <3>4
  <2>10. QED
    BY <2>7, <2>8, <2>9
<1>3. ASSUME NEW x \in GlyphColumns, NEW y \in GlyphRows
      PROVE  \E k \in 1 .. n : DotAddress(dots[k]) = Address(x + x_off, y + y_off)
  <2> DEFINE k == y * GlyphWidth + x + 1
  <2>1. k \in 1 .. n /\ X(k) = x /\ Y(k) = y
    BY ScreenTypes, PlaceInArea DEF GlyphColumns, GlyphRows
  <2> HIDE DEF k
  <2>2. QED
    BY <1>1, <2>1
<1> HIDE DEF X, Y, dots, n
<1>4. ASSUME NEW k \in 1 .. n
      PROVE  \E x \in GlyphColumns, y \in GlyphRows :
               /\ DotAddress(dots[k]) = Address(x + x_off, y + y_off)
               /\ dots[k][3] = IF <<x, y>> \in lit THEN fg ELSE bg
  <2> HIDE DEF X, Y, dots, n
  <2> QED BY <1>1
<1> HIDE DEF X, Y, dots
<1>5. PlacesInOrder(dots, lit, x_off, y_off, fg, bg)
  <2>1. \A k, l \in 1 .. n : k < l => DotAddress(dots[k]) < DotAddress(dots[l])
    BY <1>2
  <2> HIDE DEF n
  <2>2. QED
    BY <1>3, <1>4, <2>1, Zenon DEF PlacesInOrder, n
<1>6. QED
  BY <1>5 DEF dots

(* A fill leaves the contents of a framebuffer. *)
LEMMA FillType ==
  ASSUME NEW mem \in Contents, NEW color \in Color
  PROVE  Framebuffer__set_all_pixels(mem, color) \in Contents
<1> DEFINE dots == [k \in 1 .. Width * Height |->
                      <<(k - 1) \div Height, (k - 1) % Height, color>>]
<1>1. Width * Height \in Nat /\ Width * Height = Height * Width
  BY ScreenTypes
<1>2. ASSUME NEW k \in 1 .. Width * Height
      PROVE  (k - 1) \div Height \in Nat /\ (k - 1) % Height \in Nat
  BY <1>1, ScreenTypes, Area
<1>3. dots \in [1 .. Width * Height -> Nat \X Nat \X Color]
  BY <1>2
<1>4. dots \in Dots
  BY <1>1, <1>3, FunctionIsSequence DEF Dots
<1>5. QED
  BY <1>4, AfterDotsType DEF Framebuffer__set_all_pixels

-----------------------------------------------------------------------------
(* Where the glyphs of the positions lie.  A line may be below the screen. *)

Columns == 0 .. CURSOR_MAX_COLUMNS - 1

PixelAt(line, column, x, y) == Address(column * GlyphWidth + x, line * GlyphHeight + y)

LEMMA PixelInScanline ==
  ASSUME NEW column \in Columns, NEW x \in GlyphColumns
  PROVE  /\ column * GlyphWidth + x \in Nat
         /\ column * GlyphWidth + x < PixelsPerScanline
<1>1. /\ column \in Nat /\ column < CURSOR_MAX_COLUMNS /\ column * GlyphWidth \in Nat
      /\ x \in Nat /\ x < GlyphWidth /\ CURSOR_MAX_COLUMNS * GlyphWidth \in Nat
  BY ScreenTypes DEF Columns, GlyphColumns
<1>2. column * GlyphWidth + GlyphWidth <= CURSOR_MAX_COLUMNS * GlyphWidth
  BY <1>1, ScreenTypes, ProductGrows
<1>3. QED
  BY <1>1, <1>2, ScreenTypes, GlyphFits

LEMMA PixelType ==
  ASSUME NEW line \in Nat, NEW column \in Columns, NEW x \in GlyphColumns, NEW y \in GlyphRows
  PROVE  /\ PixelAt(line, column, x, y) \in Nat
         /\ column * GlyphWidth \in Nat /\ line * GlyphHeight \in Nat
         /\ PixelAt(line, column, x, y) = Address(x + column * GlyphWidth, y + line * GlyphHeight)
<1>1. /\ column \in Nat /\ column * GlyphWidth \in Nat /\ line * GlyphHeight \in Nat
      /\ x \in Nat /\ y \in Nat
  BY ScreenTypes DEF Columns, GlyphColumns, GlyphRows
<1>2. /\ column * GlyphWidth + x = x + column * GlyphWidth
      /\ line * GlyphHeight + y = y + line * GlyphHeight
      /\ column * GlyphWidth + x \in Nat /\ line * GlyphHeight + y \in Nat
  BY <1>1
<1>3. QED
  BY <1>1, <1>2, AddressType DEF PixelAt

(* No pixel belongs to two positions, or to two places of a glyph. *)
LEMMA PixelsDiffer ==
  ASSUME NEW l \in Nat, NEW c \in Columns, NEW x \in GlyphColumns, NEW y \in GlyphRows,
         NEW m \in Nat, NEW d \in Columns, NEW u \in GlyphColumns, NEW v \in GlyphRows,
         PixelAt(l, c, x, y) = PixelAt(m, d, u, v)
  PROVE  l = m /\ c = d /\ x = u /\ y = v
<1>1. PICK X \in Nat, Y \in Nat, U \in Nat, V \in Nat :
        /\ X = c * GlyphWidth + x /\ Y = l * GlyphHeight + y
        /\ U = d * GlyphWidth + u /\ V = m * GlyphHeight + v
  BY ScreenTypes DEF Columns, GlyphColumns, GlyphRows
<1>2. X < PixelsPerScanline /\ U < PixelsPerScanline
  BY <1>1, PixelInScanline
<1>3. Y * PixelsPerScanline + X = V * PixelsPerScanline + U
  BY <1>1 DEF PixelAt, Address
<1>4. Y = V /\ X = U
  BY <1>1, <1>2, <1>3, ScreenTypes, OneQuotient
<1>5. c = d /\ x = u
  <2>1. c \in Nat /\ d \in Nat /\ x \in Nat /\ u \in Nat /\ x < GlyphWidth /\ u < GlyphWidth
    BY ScreenTypes DEF Columns, GlyphColumns
  <2>2. c * GlyphWidth + x = d * GlyphWidth + u
    BY <1>1, <1>4
  <2>3. QED
    BY <2>1, <2>2, ScreenTypes, OneQuotient
<1>6. l = m /\ y = v
  <2>1. y \in Nat /\ v \in Nat /\ y < GlyphHeight /\ v < GlyphHeight
    BY ScreenTypes DEF GlyphRows
  <2>2. l * GlyphHeight + y = m * GlyphHeight + v
    BY <1>1, <1>4
  <2>3. QED
    BY <2>1, <2>2, ScreenTypes, OneQuotient
<1>7. QED
  BY <1>5, <1>6

(* The pixel after one of a glyph is in that glyph, or in the leftmost column *)
(* of another one, if it is in any.                                           *)
LEMMA PixelAfter ==
  ASSUME NEW l \in Nat, NEW c \in Columns, NEW x \in GlyphColumns, NEW y \in GlyphRows,
         NEW m \in Nat, NEW d \in Columns, NEW u \in GlyphColumns, NEW v \in GlyphRows,
         PixelAt(m, d, u, v) = PixelAt(l, c, x, y) + 1
  PROVE  u = 0 \/ (l = m /\ c = d)
<1>1. PICK X \in Nat, Y \in Nat, U \in Nat, V \in Nat :
        /\ X = c * GlyphWidth + x /\ Y = l * GlyphHeight + y
        /\ U = d * GlyphWidth + u /\ V = m * GlyphHeight + v
  BY ScreenTypes DEF Columns, GlyphColumns, GlyphRows
<1>2. PICK r \in Nat, w \in Nat, h \in Nat :
        r = PixelsPerScanline /\ w = GlyphWidth /\ h = GlyphHeight
  BY ScreenTypes
<1>3. X < r /\ U < r
  BY <1>1, <1>2, PixelInScanline
<1>4. V * r + U = Y * r + X + 1 /\ Y * r \in Nat /\ V * r \in Nat
  BY <1>1, <1>2, AddressType DEF PixelAt, Address
<1>5. /\ c \in Nat /\ d \in Nat /\ x \in Nat /\ u \in Nat /\ y \in Nat /\ v \in Nat
      /\ x < w /\ u < w /\ y < h /\ v < h
  BY <1>2 DEF Columns, GlyphColumns, GlyphRows
<1>6. CASE X + 1 = r
  <2>1. (Y + 1) * r + 0 = V * r + U
    BY <1>2, <1>4, <1>6
  <2>2. U = 0
    BY <1>2, <1>3, <2>1, OneQuotient
  <2>3. d * w \in Nat /\ d * w + u = 0
    BY <1>1, <1>2, <1>5, <2>2
  <2>4. QED
    BY <1>5, <2>3
<1>7. CASE X + 1 < r
  <2>1. Y * r + (X + 1) = V * r + U
    BY <1>4
  <2>2. Y = V /\ X + 1 = U
    BY <1>2, <1>3, <1>7, <2>1, OneQuotient
  <2>3. l = m
    <3>1. l * h + y = m * h + v
      BY <1>1, <1>2, <2>2
    <3>2. QED
      BY <1>5, <3>1, OneQuotient
  <2>4. CASE x + 1 = w
    <3>1. (c + 1) * w + 0 = d * w + u
      <4>1. c * w + x + 1 = d * w + u /\ c * w \in Nat
        BY <1>1, <1>2, <1>5, <2>2
      <4>2. QED
        BY <1>5, <2>4, <4>1
    <3>2. QED
      BY <1>5, <3>1, OneQuotient
  <2>5. CASE x + 1 < w
    <3>1. c * w + (x + 1) = d * w + u
      BY <1>1, <1>2, <1>5, <2>2
    <3>2. c = d
      BY <1>5, <2>5, <3>1, OneQuotient
    <3>3. QED
      BY <2>3, <3>2
  <2>6. QED
    BY <1>5, <2>4, <2>5
<1>8. QED
  BY <1>2, <1>3, <1>6, <1>7

(* A glyph on the screen, and what it spills, lie in the buffer. *)
LEMMA PixelInBuffer ==
  ASSUME NEW l \in 0 .. CURSOR_MAX_LINES - 1, NEW c \in Columns,
         NEW x \in GlyphColumns, NEW y \in GlyphRows
  PROVE  PixelAt(l, c, x, y) + 1 < BufferSz
<1>1. PICK X \in Nat, Y \in Nat : X = c * GlyphWidth + x /\ Y = l * GlyphHeight + y
  BY ScreenTypes DEF Columns, GlyphColumns, GlyphRows
<1>2. PICK r \in Nat, h \in Nat, H \in Nat :
        r = PixelsPerScanline /\ h = GlyphHeight /\ H = Height
  BY ScreenTypes
<1>3. X < r
  BY <1>1, <1>2, PixelInScanline
<1>4. Y + 1 < H
  <2>1. l \in Nat /\ l < CURSOR_MAX_LINES /\ y \in Nat /\ y < h /\ l * h \in Nat
        /\ CURSOR_MAX_LINES * h \in Nat
    BY <1>2, ScreenTypes DEF GlyphRows
  <2>2. l * h + h <= CURSOR_MAX_LINES * h
    BY <2>1, ScreenTypes, ProductGrows
  <2>3. CURSOR_MAX_LINES * h < H
    BY <1>2, ConsoleAssumption
  <2>4. QED
    BY <1>1, <1>2, <2>1, <2>2, <2>3
<1>5. H - 1 \in Nat /\ Y < H - 1 /\ H - 1 < H
  BY <1>4
<1>6. Y * r + r <= (H - 1) * r /\ (H - 1) * r + r <= H * r
  BY <1>5, ProductGrows
<1>7. H * r <= BufferSz
  BY <1>2, FramebufferAssumption
<1>8. PixelAt(l, c, x, y) = Y * r + X
  BY <1>1, <1>2 DEF PixelAt, Address
<1>9. Y * r \in Nat /\ (H - 1) * r \in Nat /\ H * r \in Nat
  BY <1>5
<1>10. QED
  BY <1>3, <1>6, <1>7, <1>8, <1>9, ScreenTypes

-----------------------------------------------------------------------------
(* What the glyph of a position looks like, and what drawing it does to the *)
(* other pixels.                                                            *)

GlyphIn(new, mem, lit, line, column, fg, bg) ==
  \A p \in Cells :
    \/ \E x \in GlyphColumns, y \in GlyphRows :
         /\ p = PixelAt(line, column, x, y)
         /\ new[p] = IF <<x, y>> \in lit THEN fg ELSE bg
    \/ /\ \A x \in GlyphColumns, y \in GlyphRows : p # PixelAt(line, column, x, y)
       /\ \/ new[p] = mem[p]
          \/ /\ new[p] = BLACK
             /\ \E x \in GlyphColumns, y \in GlyphRows : p = PixelAt(line, column, x, y) + 1

LEMMA GlyphDrawn ==
  ASSUME NEW mem \in Contents, NEW lit, NEW line \in Nat, NEW column \in Columns,
         NEW fg \in Color, NEW bg \in Color,
         NEW new, new = Framebuffer__print_glyph(mem, lit, column * GlyphWidth,
                                                 line * GlyphHeight, fg, bg)
  PROVE  new \in Contents /\ GlyphIn(new, mem, lit, line, column, fg, bg)
<1>1. PICK x_off \in Nat, y_off \in Nat :
        x_off = column * GlyphWidth /\ y_off = line * GlyphHeight
  BY ScreenTypes DEF Columns
<1>2. PICK dots, n : /\ dots = GlyphDots(lit, x_off, y_off, fg, bg)
                     /\ n = GlyphWidth * GlyphHeight
  OBVIOUS
<1>3. dots \in Dots /\ Len(dots) = n /\ PlacesInOrder(dots, lit, x_off, y_off, fg, bg)
  BY <1>2, GlyphDotsType, GlyphDotsPlaces
<1>4. ASSUME NEW x \in GlyphColumns, NEW y \in GlyphRows
      PROVE  /\ PixelAt(line, column, x, y) \in Nat
             /\ Address(x + x_off, y + y_off) = PixelAt(line, column, x, y)
  BY <1>1, PixelType
<1>5. \A k, l \in 1 .. n : k < l => DotAddress(dots[k]) < DotAddress(dots[l])
  BY <1>2, <1>3 DEF PlacesInOrder
<1>6. ASSUME NEW k \in 1 .. n
      PROVE  \E x \in GlyphColumns, y \in GlyphRows :
               /\ DotAddress(dots[k]) = PixelAt(line, column, x, y)
               /\ dots[k][3] = IF <<x, y>> \in lit THEN fg ELSE bg
  <2>1. PICK x \in GlyphColumns, y \in GlyphRows :
          /\ DotAddress(dots[k]) = Address(x + x_off, y + y_off)
          /\ dots[k][3] = IF <<x, y>> \in lit THEN fg ELSE bg
    BY <1>2, <1>3 DEF PlacesInOrder
  <2>2. DotAddress(dots[k]) = PixelAt(line, column, x, y)
    BY <1>4, <2>1
  <2>3. QED
    BY <2>1, <2>2
<1>7. ASSUME NEW x \in GlyphColumns, NEW y \in GlyphRows
      PROVE  \E k \in 1 .. n : DotAddress(dots[k]) = PixelAt(line, column, x, y)
  <2>1. PICK k \in 1 .. n : DotAddress(dots[k]) = Address(x + x_off, y + y_off)
    BY <1>2, <1>3 DEF PlacesInOrder
  <2>2. QED
    BY <1>4, <2>1
<1>8. new = AfterDots(mem, dots)
  BY <1>1, <1>2 DEF Framebuffer__print_glyph
<1>9. new \in Contents
  BY <1>3, <1>8, AfterDotsType
<1>10. \A p \in Cells :
         \/ \E k \in 1 .. n : p = DotAddress(dots[k]) /\ new[p] = dots[k][3]
         \/ /\ \A k \in 1 .. n : p # DotAddress(dots[k])
            /\ \/ new[p] = mem[p]
               \/ new[p] = BLACK /\ \E k \in 1 .. n : p = DotAddress(dots[k]) + 1
  BY <1>3, <1>5, <1>8, AfterDotsInOrder
<1>11. ASSUME NEW p \in Cells
       PROVE  \/ \E x \in GlyphColumns, y \in GlyphRows :
                   /\ p = PixelAt(line, column, x, y)
                   /\ new[p] = IF <<x, y>> \in lit THEN fg ELSE bg
              \/ /\ \A x \in GlyphColumns, y \in GlyphRows : p # PixelAt(line, column, x, y)
                 /\ \/ new[p] = mem[p]
                    \/ /\ new[p] = BLACK
                       /\ \E x \in GlyphColumns, y \in GlyphRows :
                            p = PixelAt(line, column, x, y) + 1
  <2>1. CASE \E k \in 1 .. n : p = DotAddress(dots[k]) /\ new[p] = dots[k][3]
    BY <1>6, <2>1
  <2>2. CASE /\ \A k \in 1 .. n : p # DotAddress(dots[k])
             /\ new[p] = mem[p]
    BY <1>7, <2>2
  <2>3. CASE /\ \A k \in 1 .. n : p # DotAddress(dots[k])
             /\ new[p] = BLACK /\ \E k \in 1 .. n : p = DotAddress(dots[k]) + 1
    BY <1>6, <1>7, <2>3
  <2>4. QED
    BY <1>10, <2>1, <2>2, <2>3
<1>12. QED
  BY <1>9, <1>11 DEF GlyphIn

-----------------------------------------------------------------------------
(* Printing one character. *)

Cursors  == [line : Nat, column : 0 .. CURSOR_MAX_COLUMNS, fg_color : Color, bg_color : Color]
TextValues   == {<< >>} \cup ((DOMAIN Glyphs) \X Color \X Color)
Consoles == [cursor : Cursors, pixels : Contents, text : [Positions -> TextValues]]

(* TextShown and the memory after the buffer, of a console that is a value. *)
Shown(k) ==
  \A at \in Positions : k.text[at] # << >> =>
    \A x \in GlyphColumns, y \in GlyphRows :
      k.pixels[PixelAt(at[1], at[2], x, y)] \in Shows(k.text[at], x, y)

Ready(k) == k \in Consoles /\ k.cursor.column \in Columns /\ Shown(k)

Outside == BufferSz .. BufferSz + Margin - 1

CursorAfter(c, chr) ==
  CASE chr = Newline -> ConsoleCursor__new_line(c)
    [] chr = Tab     -> ConsoleCursor__next(ConsoleCursor__next(ConsoleCursor__next(c)))
    [] OTHER         -> ConsoleCursor__next(c)

LEMMA CursorNext ==
  ASSUME NEW c \in Cursors, c.column \in Columns
  PROVE  /\ ConsoleCursor__new_line(c) \in Cursors
         /\ ConsoleCursor__new_line(c).column \in Columns
         /\ ConsoleCursor__new_line(c).line = c.line + 1
         /\ ConsoleCursor__next(c) \in Cursors
         /\ ConsoleCursor__next(c).column \in Columns
         /\ ConsoleCursor__next(c).line \in c.line .. c.line + 1
<1>1. c.line \in Nat /\ c.column \in Nat /\ c.column < CURSOR_MAX_COLUMNS
  BY ScreenTypes DEF Cursors, Columns
<1>2. /\ ConsoleCursor__new_line(c) \in Cursors
      /\ ConsoleCursor__new_line(c).column \in Columns
      /\ ConsoleCursor__new_line(c).line = c.line + 1
  <2>1. 0 \in Columns /\ 0 \in 0 .. CURSOR_MAX_COLUMNS /\ c.line + 1 \in Nat
    BY <1>1, ScreenTypes DEF Columns
  <2>2. QED
    BY <2>1 DEF ConsoleCursor__new_line, Cursors
<1>3. CASE c.column + 1 = CURSOR_MAX_COLUMNS
  BY <1>1, <1>2, <1>3 DEF ConsoleCursor__next
<1>4. CASE c.column + 1 # CURSOR_MAX_COLUMNS
  <2>1. ConsoleCursor__next(c) = [c EXCEPT !.column = @ + 1]
    BY <1>4 DEF ConsoleCursor__next
  <2>2. c.column + 1 \in Columns /\ c.column + 1 \in 0 .. CURSOR_MAX_COLUMNS
    BY <1>1, <1>4, ScreenTypes DEF Columns
  <2>3. QED
    BY <1>1, <1>2, <2>1, <2>2 DEF Cursors
<1>5. QED
  BY <1>3, <1>4

LEMMA CursorAfterType ==
  ASSUME NEW c \in Cursors, c.column \in Columns, NEW chr
  PROVE  /\ CursorAfter(c, chr) \in Cursors
         /\ CursorAfter(c, chr).column \in Columns
         /\ CursorAfter(c, chr).line \in c.line .. c.line + 3
<1>1. c.line \in Nat
  BY DEF Cursors
<1>2. CASE chr = Newline
  BY <1>1, <1>2, CursorNext DEF CursorAfter
<1>3. CASE chr # Newline /\ chr = Tab
  <2>1. PICK d \in Cursors : d = ConsoleCursor__next(c) /\ d.column \in Columns
                             /\ d.line \in c.line .. c.line + 1
    BY CursorNext
  <2>2. PICK e \in Cursors : e = ConsoleCursor__next(d) /\ e.column \in Columns
                             /\ e.line \in d.line .. d.line + 1
    BY <2>1, CursorNext
  <2>3. PICK f \in Cursors : f = ConsoleCursor__next(e) /\ f.column \in Columns
                             /\ f.line \in e.line .. e.line + 1
    BY <2>2, CursorNext
  <2>4. CursorAfter(c, chr) = f
    BY <1>3, <2>1, <2>2, <2>3 DEF CursorAfter
  <2>5. f.line \in c.line .. c.line + 3
    BY <1>1, <2>1, <2>2, <2>3
  <2>6. QED
    BY <2>3, <2>4, <2>5
<1>4. CASE chr # Newline /\ chr # Tab
  BY <1>1, <1>4, CursorNext DEF CursorAfter
<1>5. QED
  BY <1>2, <1>3, <1>4

(* Where a cursor goes does not depend on its colors. *)
SamePlace(c, d) == c.line = d.line /\ c.column = d.column

LEMMA CursorAfterSame ==
  ASSUME NEW c \in Cursors, NEW d \in Cursors, SamePlace(c, d), c.column \in Columns, NEW chr
  PROVE  SamePlace(CursorAfter(c, chr), CursorAfter(d, chr))
<1>1. ASSUME NEW a \in Cursors, NEW b \in Cursors, SamePlace(a, b)
      PROVE  /\ SamePlace(ConsoleCursor__new_line(a), ConsoleCursor__new_line(b))
             /\ SamePlace(ConsoleCursor__next(a), ConsoleCursor__next(b))
  BY <1>1 DEF SamePlace, Cursors, ConsoleCursor__new_line, ConsoleCursor__next
<1>2. CASE chr = Newline
  <2>1. /\ CursorAfter(c, chr) = ConsoleCursor__new_line(c)
        /\ CursorAfter(d, chr) = ConsoleCursor__new_line(d)
    BY <1>2, Zenon DEF CursorAfter, Newline, Tab
  <2>2. QED
    BY <1>1, <2>1
<1>3. CASE chr # Newline /\ chr = Tab
  <2>1. PICK a \in Cursors, b \in Cursors :
          /\ a = ConsoleCursor__next(c) /\ b = ConsoleCursor__next(d)
          /\ SamePlace(a, b) /\ a.column \in Columns
    BY <1>1, CursorNext DEF SamePlace
  <2>2. PICK e \in Cursors, f \in Cursors :
          /\ e = ConsoleCursor__next(a) /\ f = ConsoleCursor__next(b)
          /\ SamePlace(e, f) /\ e.column \in Columns
    BY <1>1, <2>1, CursorNext DEF SamePlace
  <2>3. SamePlace(ConsoleCursor__next(e), ConsoleCursor__next(f))
    BY <1>1, <2>2
  <2>4. /\ CursorAfter(c, chr) = ConsoleCursor__next(e)
        /\ CursorAfter(d, chr) = ConsoleCursor__next(f)
    BY <1>3, <2>1, <2>2 DEF CursorAfter
  <2>5. QED
    BY <2>3, <2>4
<1>4. CASE chr # Newline /\ chr # Tab
  <2>1. /\ CursorAfter(c, chr) = ConsoleCursor__next(c)
        /\ CursorAfter(d, chr) = ConsoleCursor__next(d)
    BY <1>4 DEF CursorAfter
  <2>2. QED
    BY <1>1, <2>1
<1>5. QED
  BY <1>2, <1>3, <1>4

(* Drawing a character keeps what every other position shows. *)
LEMMA CharDrawn ==
  ASSUME NEW k, Ready(k), NEW chr \in DOMAIN Glyphs
  PROVE  /\ Ready(DrawChar(k, chr))
         /\ DrawChar(k, chr).cursor = ConsoleCursor__next(k.cursor)
         /\ k.cursor.line < CURSOR_MAX_LINES =>
              \A p \in Outside : DrawChar(k, chr).pixels[p] = k.pixels[p]
<1>1. PICK line \in Nat, column \in Columns, fg \in Color, bg \in Color :
        /\ line = k.cursor.line /\ column = k.cursor.column
        /\ fg = k.cursor.fg_color /\ bg = k.cursor.bg_color
  BY DEF Ready, Consoles, Cursors
<1>2. k.cursor \in Cursors /\ k.pixels \in Contents /\ k.text \in [Positions -> TextValues]
  BY DEF Ready, Consoles
<1> DEFINE at == <<line, column>>
           lit == Glyphs[chr]
           new == Framebuffer__print_glyph(k.pixels, lit, column * GlyphWidth,
                                           line * GlyphHeight, fg, bg)
           texts == [q \in Positions |-> IF q = at THEN <<chr, fg, bg>> ELSE k.text[q]]
<1>3. DrawChar(k, chr) = [cursor |-> ConsoleCursor__next(k.cursor), pixels |-> new, text |-> texts]
  BY <1>1 DEF DrawChar
<1>4. column * GlyphWidth \in Nat /\ line * GlyphHeight \in Nat /\ column \in Nat
  BY ScreenTypes DEF Columns
<1>5. ASSUME NEW x \in GlyphColumns, NEW y \in GlyphRows
      PROVE  PixelAt(line, column, x, y) \in Nat
  BY <1>1, PixelType
<1>6. new \in Contents /\ GlyphIn(new, k.pixels, lit, line, column, fg, bg)
  <2> HIDE DEF lit
  <2> QED BY <1>1, <1>2, GlyphDrawn
<1> HIDE DEF new
<1>7. texts \in [Positions -> TextValues]
  BY <1>2 DEF TextValues
<1>8. ASSUME NEW q \in Positions, texts[q] # << >>, NEW x \in GlyphColumns, NEW y \in GlyphRows
      PROVE  new[PixelAt(q[1], q[2], x, y)] \in Shows(texts[q], x, y)
  <2>1. PICK l \in 0 .. CURSOR_MAX_LINES - 1, c \in Columns : q = <<l, c>>
    BY DEF Positions, Columns
  <2>2. l \in Nat
    BY ScreenTypes
  <2>3. PICK p \in Nat : p = PixelAt(l, c, x, y)
    BY <2>2, PixelType
  <2>4. p \in Cells
    BY <2>1, <2>3, PixelInBuffer, ScreenTypes DEF Cells
  <2>5. CASE q = at
    <3>1. l = line /\ c = column
      BY <2>1, <2>5
    <3>2. PICK u \in GlyphColumns, v \in GlyphRows :
            p = PixelAt(line, column, u, v) /\ new[p] = IF <<u, v>> \in lit THEN fg ELSE bg
      BY <1>6, <2>3, <2>4, <3>1 DEF GlyphIn
    <3>3. u = x /\ v = y
      BY <1>1, <1>8, <2>3, <3>1, <3>2, PixelsDiffer
    <3>4. texts[q] = <<chr, fg, bg>>
      BY <2>5
    <3> HIDE DEF texts
    <3>5. x > 0 \/ <<x, y>> \notin lit => new[p] \in Shows(texts[q], x, y)
      BY <3>2, <3>3, <3>4, ScreenTypes DEF Shows, GlyphColumns
    <3>6. <<x, y>> \in lit => new[p] \in Shows(texts[q], x, y)
      BY <3>2, <3>3, <3>4 DEF Shows
    <3>7. QED
      BY <2>1, <2>3, <3>5, <3>6
  <2>6. CASE q # at
    <3>1. ~ (l = line /\ c = column)
      BY <2>1, <2>6
    <3>2. texts[q] = k.text[q]
      BY <2>6
    <3>3. k.pixels[p] \in Shows(texts[q], x, y)
      BY <1>8, <2>1, <2>3, <3>2 DEF Ready, Shown
    <3>4. \A u \in GlyphColumns, v \in GlyphRows : p # PixelAt(line, column, u, v)
      BY <2>2, <2>3, <3>1, PixelsDiffer
    <3>5. CASE new[p] = k.pixels[p]
      BY <2>1, <2>3, <3>3, <3>5
    <3>6. CASE /\ new[p] = BLACK
               /\ \E u \in GlyphColumns, v \in GlyphRows : p = PixelAt(line, column, u, v) + 1
      <4>1. x = 0
        BY <2>2, <2>3, <3>1, <3>6, PixelAfter
      <4>2. texts[q] \in (DOMAIN Glyphs) \X Color \X Color
        BY <1>7, <1>8 DEF TextValues
      <4>3. texts[q][1] \in DOMAIN Glyphs
        BY <4>2
      <4>4. <<x, y>> \notin Glyphs[texts[q][1]]
        BY <4>1, <4>3, FontAssumption
      <4>5. new[p] \in Shows(texts[q], x, y)
        <5> HIDE DEF texts
        <5> QED BY <3>6, <4>1, <4>4 DEF Shows
      <4>6. QED
        BY <2>1, <2>3, <4>5
    <3>7. QED
      BY <1>6, <2>4, <3>4, <3>5, <3>6 DEF GlyphIn
  <2>7. QED
    BY <2>5, <2>6
<1>9. ASSUME line < CURSOR_MAX_LINES, NEW p \in Outside
      PROVE  new[p] = k.pixels[p]
  <2>1. line \in 0 .. CURSOR_MAX_LINES - 1
    BY <1>9, ScreenTypes
  <2>2. p \in Cells /\ p \in Nat /\ p >= BufferSz
    BY ScreenTypes DEF Outside, Cells
  <2>3. ASSUME NEW x \in GlyphColumns, NEW y \in GlyphRows
        PROVE  p # PixelAt(line, column, x, y) /\ p # PixelAt(line, column, x, y) + 1
    BY <1>5, <2>1, <2>2, PixelInBuffer, ScreenTypes
  <2>4. QED
    BY <1>6, <2>2, <2>3 DEF GlyphIn
<1>10. /\ ConsoleCursor__next(k.cursor) \in Cursors
       /\ ConsoleCursor__next(k.cursor).column \in Columns
  BY <1>2, CursorNext DEF Ready
<1> HIDE DEF texts
<1> DEFINE K == [cursor |-> ConsoleCursor__next(k.cursor), pixels |-> new, text |-> texts]
<1>11. K \in Consoles /\ K.cursor.column \in Columns
  BY <1>6, <1>7, <1>10 DEF Consoles
<1>12. Shown(K)
  BY <1>8 DEF Shown
<1>13. QED
  BY <1>1, <1>3, <1>9, <1>11, <1>12 DEF Ready

LEMMA CharPrinted ==
  ASSUME NEW k, Ready(k), NEW chr \in Characters
  PROVE  /\ Ready(Console__print_char(k, chr))
         /\ Console__print_char(k, chr).cursor = CursorAfter(k.cursor, chr)
         /\ k.cursor.line < CURSOR_MAX_LINES =>
              \A p \in Outside : Console__print_char(k, chr).pixels[p] = k.pixels[p]
<1>1. CASE chr # Newline /\ chr # Tab
  <2>1. chr \in DOMAIN Glyphs
    BY <1>1 DEF Characters
  <2>2. /\ Console__print_char(k, chr) = DrawChar(k, chr)
        /\ CursorAfter(k.cursor, chr) = ConsoleCursor__next(k.cursor)
    BY <1>1 DEF Console__print_char, CursorAfter
  <2>3. QED
    BY <2>1, <2>2, CharDrawn
<1>2. CASE chr = Newline \/ chr = Tab
  <2>1. k.cursor \in Cursors /\ k \in Consoles /\ Shown(k)
    BY DEF Ready, Consoles
  <2>2. PICK c \in Cursors : c = CursorAfter(k.cursor, chr) /\ c.column \in Columns
    BY <2>1, CursorAfterType DEF Ready
  <2>3. Console__print_char(k, chr) = [k EXCEPT !.cursor = CursorAfter(k.cursor, chr)]
    BY <1>2 DEF Console__print_char, CursorAfter, Newline, Tab
  <2> DEFINE K == [k EXCEPT !.cursor = c]
  <2>4. K \in Consoles /\ K.cursor = c /\ K.pixels = k.pixels /\ K.text = k.text
    BY <2>1 DEF Consoles
  <2> HIDE DEF K
  <2>5. Shown(K)
    BY <2>1, <2>4 DEF Shown
  <2>6. Console__print_char(k, chr) = K
    BY <2>2, <2>3 DEF K
  <2>7. QED
    BY <2>2, <2>4, <2>5, <2>6 DEF Ready
<1>3. QED
  BY <1>1, <1>2

-----------------------------------------------------------------------------
(* Printing a string. *)

(* The recursive definition of Console__print_str defines a function. *)
LEMMA PrintStrDef ==
  ASSUME NEW k, NEW chars \in Seq(Characters)
  PROVE  \E f : /\ f[0] = k /\ f[Len(chars)] = Console__print_str(k, chars)
                /\ \A n \in 1 .. Len(chars) : f[n] = Console__print_char(f[n-1], chars[n])
<1> DEFINE Put(m, n) == Console__print_char(m, chars[n])
           Solves(f, m) == f = [n \in 0 .. m |-> IF n = 0 THEN k ELSE Put(f[n-1], n)]
           T == {m \in Nat : ~ \E f : Solves(f, m)}
<1> HIDE DEF Put
<1>1. T = {}
  <2>1. SUFFICES ASSUME T # {} PROVE FALSE
    OBVIOUS
  <2>2. PICK m \in T : \A y \in T : m <= y
    <3> HIDE DEF Solves
    <3> QED BY <2>1, LeastElement
  <2>3. CASE m = 0
    <3>1. Solves([n \in 0 .. 0 |-> k], 0)
      OBVIOUS
    <3>2. QED BY <2>3, <3>1
  <2>4. CASE m # 0
    <3>1. m-1 \in Nat /\ m-1 \notin T
      <4> HIDE DEF Solves
      <4> QED BY <2>4, <2>2
    <3>2. PICK f : Solves(f, m-1)
      BY <3>1
    <3> DEFINE g == [n \in 0 .. m |-> IF n = 0 THEN k ELSE Put(f[n-1], n)]
    <3>3. \A n \in 0 .. m-1 : g[n] = f[n]
      BY <3>1, <3>2
    <3>4. \A n \in 0 .. m : n # 0 => n-1 \in 0 .. m-1
      BY <3>1
    <3>5. Solves(g, m)
      BY <3>1, <3>3, <3>4
    <3>6. QED BY <3>5
  <2>5. QED BY <2>3, <2>4
<1>2. Len(chars) \in Nat
  OBVIOUS
<1>3. PICK h : Solves(h, Len(chars))
  BY <1>1, <1>2
<1> DEFINE f == CHOOSE f : Solves(f, Len(chars))
<1>4. Solves(f, Len(chars))
  <2> HIDE DEF Solves
  <2> QED BY <1>3
<1>5. Console__print_str(k, chars) = f[Len(chars)]
  BY DEF Console__print_str, Put
<1> HIDE DEF f
<1>6. f[0] = k /\ \A n \in 1 .. Len(chars) : f[n] = Put(f[n-1], n)
  BY <1>2, <1>4
<1>7. QED
  BY <1>5, <1>6 DEF Put

(* A string leaves the console ready for the next one, and where the cursor *)
(* gets depends only on where it was.                                       *)
LEMMA StringPrinted ==
  ASSUME NEW k, Ready(k), NEW l, Ready(l), SamePlace(k.cursor, l.cursor),
         NEW chars \in Seq(Characters)
  PROVE  /\ Ready(Console__print_str(k, chars)) /\ Ready(Console__print_str(l, chars))
         /\ SamePlace(Console__print_str(k, chars).cursor, Console__print_str(l, chars).cursor)
<1>1. PICK f : /\ f[0] = k /\ f[Len(chars)] = Console__print_str(k, chars)
               /\ \A n \in 1 .. Len(chars) : f[n] = Console__print_char(f[n-1], chars[n])
  BY PrintStrDef
<1>2. PICK g : /\ g[0] = l /\ g[Len(chars)] = Console__print_str(l, chars)
               /\ \A n \in 1 .. Len(chars) : g[n] = Console__print_char(g[n-1], chars[n])
  BY PrintStrDef
<1>3. Len(chars) \in Nat /\ \A n \in 1 .. Len(chars) : chars[n] \in Characters
  OBVIOUS
<1> DEFINE Alike(n) == Ready(f[n]) /\ Ready(g[n]) /\ SamePlace(f[n].cursor, g[n].cursor)
           T == {n \in 0 .. Len(chars) : ~ Alike(n)}
<1>4. T = {}
  <2>1. SUFFICES ASSUME T # {} PROVE FALSE
    OBVIOUS
  <2>2. T \subseteq Nat
    BY <1>3
  <2>3. PICK n \in T : \A m \in T : n <= m
    <3> HIDE DEF T
    <3> QED BY <2>1, <2>2, LeastElement
  <2>4. n # 0
    BY <1>1, <1>2, <2>3
  <2>5. n \in 1 .. Len(chars) /\ n-1 \in 0 .. Len(chars) /\ n-1 \notin T
    BY <1>3, <2>3, <2>4
  <2>6. Alike(n-1)
    BY <2>5
  <2>7. PICK a, b, chr : a = f[n-1] /\ b = g[n-1] /\ chr = chars[n] /\ chr \in Characters
    BY <1>3, <2>5
  <2>8. /\ Ready(Console__print_char(a, chr)) /\ Ready(Console__print_char(b, chr))
        /\ Console__print_char(a, chr).cursor = CursorAfter(a.cursor, chr)
        /\ Console__print_char(b, chr).cursor = CursorAfter(b.cursor, chr)
    BY <2>6, <2>7, CharPrinted
  <2>9. SamePlace(CursorAfter(a.cursor, chr), CursorAfter(b.cursor, chr))
    <3>1. a.cursor \in Cursors /\ b.cursor \in Cursors /\ a.cursor.column \in Columns
          /\ SamePlace(a.cursor, b.cursor)
      BY <2>6, <2>7 DEF Ready, Consoles
    <3>2. QED
      BY <3>1, CursorAfterSame
  <2>10. Alike(n)
    BY <1>1, <1>2, <2>5, <2>7, <2>8, <2>9
  <2>11. QED
    BY <2>3, <2>10
<1>5. Alike(Len(chars))
  BY <1>3, <1>4
<1>6. QED
  BY <1>1, <1>2, <1>5

-----------------------------------------------------------------------------
(* Clearing the screen, filling it, and panicking. *)

LEMMA ResetReady ==
  ASSUME NEW k \in Consoles, Shown(k)
  PROVE  /\ Ready(Reset(k)) /\ Reset(k).pixels = k.pixels
         /\ Reset(k).cursor.line = 0 /\ Reset(k).cursor.column = 0
<1>1. k.cursor \in Cursors /\ 0 \in Columns /\ 0 \in 0 .. CURSOR_MAX_COLUMNS
  BY ScreenTypes DEF Consoles, Columns
<1>2. PICK c \in Cursors : c = ConsoleCursor__gotoxy(k.cursor, 0, 0) /\ c.line = 0 /\ c.column = 0
  <2>1. ConsoleCursor__gotoxy(k.cursor, 0, 0) \in Cursors
    BY <1>1 DEF ConsoleCursor__gotoxy, Cursors
  <2>2. /\ ConsoleCursor__gotoxy(k.cursor, 0, 0).line = 0
        /\ ConsoleCursor__gotoxy(k.cursor, 0, 0).column = 0
    BY <1>1 DEF ConsoleCursor__gotoxy, Cursors
  <2>3. QED
    BY <2>1, <2>2
<1> DEFINE K == [k EXCEPT !.cursor = c]
<1>3. K \in Consoles /\ K.cursor = c /\ K.pixels = k.pixels /\ K.text = k.text
  BY DEF Consoles
<1>4. Reset(k) = K
  BY <1>2 DEF Reset
<1> HIDE DEF K
<1>5. Shown(K)
  BY <1>3 DEF Shown
<1>6. QED
  BY <1>1, <1>2, <1>3, <1>4, <1>5 DEF Ready

LEMMA BlankIsCharacter ==
  /\ Blank \in Characters /\ Blank \in DOMAIN Glyphs
  /\ Blank # Newline /\ Blank # Tab
BY FontAssumption DEF Characters, Blank, Newline, Tab

(* A cursor that steps from 0 on is on the screen for as many steps as the  *)
(* screen has positions.                                                    *)
LEMMA NextPlace ==
  ASSUME NEW c \in Cursors, c.column \in Columns
  PROVE  ConsoleCursor__next(c).line * CURSOR_MAX_COLUMNS + ConsoleCursor__next(c).column
           = c.line * CURSOR_MAX_COLUMNS + c.column + 1
<1>1. c.line \in Nat /\ c.column \in Nat /\ CURSOR_MAX_COLUMNS \in Nat
  BY ScreenTypes DEF Cursors, Columns
<1>2. CASE c.column + 1 = CURSOR_MAX_COLUMNS
  <2>1. ConsoleCursor__next(c).line = c.line + 1 /\ ConsoleCursor__next(c).column = 0
    BY <1>2 DEF ConsoleCursor__next, ConsoleCursor__new_line, Cursors
  <2>2. PICK y \in Nat, x \in Nat, w \in Nat :
          y = c.line /\ x = c.column /\ w = CURSOR_MAX_COLUMNS
    BY <1>1
  <2>3. (y + 1) * w + 0 = y * w + w
    OBVIOUS
  <2>4. (y + 1) * w + 0 = y * w + (x + 1)
    BY <1>2, <2>2, <2>3
  <2>5. y * w \in Nat
    OBVIOUS
  <2>6. QED
    BY <2>1, <2>2, <2>4, <2>5
<1>3. CASE c.column + 1 # CURSOR_MAX_COLUMNS
  <2>1. ConsoleCursor__next(c).line = c.line /\ ConsoleCursor__next(c).column = c.column + 1
    BY <1>3 DEF ConsoleCursor__next, Cursors
  <2>2. c.line * CURSOR_MAX_COLUMNS \in Nat
    BY <1>1
  <2>3. QED
    BY <1>1, <2>1, <2>2
<1>4. QED
  BY <1>2, <1>3

LEMMA ScreenCleared ==
  ASSUME NEW k \in Consoles, Shown(k)
  PROVE  /\ Ready(Console__clear_screen(k)) /\ Console__clear_screen(k).cursor.line = 0
         /\ \A p \in Outside : Console__clear_screen(k).pixels[p] = k.pixels[p]
<1> DEFINE size == CURSOR_MAX_LINES * CURSOR_MAX_COLUMNS
           blanks == [m \in 1 .. size |-> Blank]
<1>1. size \in Nat
  BY ScreenTypes
<1>2. blanks \in Seq(Characters) /\ Len(blanks) = size
  <2>1. blanks \in [1 .. size -> Characters]
    BY BlankIsCharacter
  <2> HIDE DEF blanks, size
  <2>2. QED
    BY <1>1, <2>1, FunctionIsSequence
<1>3. \A n \in 1 .. size : blanks[n] = Blank
  OBVIOUS
<1>4. Console__clear_screen(k) = Reset(Console__print_str(Reset(k), blanks))
  BY DEF Console__clear_screen
<1> HIDE DEF blanks
<1>5. PICK r : r = Reset(k)
  OBVIOUS
<1>6. Ready(r) /\ r.pixels = k.pixels /\ r.cursor.line = 0 /\ r.cursor.column = 0
  BY <1>5, ResetReady
<1>7. PICK f : /\ f[0] = r /\ f[size] = Console__print_str(r, blanks)
               /\ \A n \in 1 .. size : f[n] = Console__print_char(f[n-1], blanks[n])
  BY <1>2, PrintStrDef
<1> DEFINE Cleared(n) == /\ Ready(f[n])
                         /\ f[n].cursor.line * CURSOR_MAX_COLUMNS + f[n].cursor.column = n
                         /\ \A p \in Outside : f[n].pixels[p] = k.pixels[p]
           T == {n \in 0 .. size : ~ Cleared(n)}
<1>8. T = {}
  <2>1. SUFFICES ASSUME T # {} PROVE FALSE
    OBVIOUS
  <2>2. T \subseteq Nat
    BY <1>1
  <2>3. PICK n \in T : \A m \in T : n <= m
    <3> HIDE DEF T
    <3> QED BY <2>1, <2>2, LeastElement
  <2>4. Cleared(0)
    BY <1>6, <1>7, ScreenTypes
  <2>5. n \in 1 .. size /\ n-1 \in 0 .. size /\ n-1 \notin T
    <3> HIDE DEF Cleared
    <3> QED BY <1>1, <2>3, <2>4
  <2>6. Cleared(n-1)
    BY <2>5
  <2>7. PICK a : a = f[n-1]
    OBVIOUS
  <2>8. f[n] = Console__print_char(a, Blank)
    BY <1>3, <1>7, <2>5, <2>7
  <2>9. Ready(a) /\ a.cursor \in Cursors /\ a.cursor.column \in Columns
    BY <2>6, <2>7 DEF Ready, Consoles
  <2>10. a.cursor.line < CURSOR_MAX_LINES
    <3>1. PICK y \in Nat, x \in Nat : y = a.cursor.line /\ x = a.cursor.column
      BY <2>9 DEF Cursors, Columns
    <3>2. y * CURSOR_MAX_COLUMNS + x = n-1 /\ n-1 \in Nat /\ n-1 < CURSOR_MAX_LINES * CURSOR_MAX_COLUMNS
      BY <1>1, <2>5, <2>6, <2>7, <3>1
    <3>3. ~ (CURSOR_MAX_LINES < y)
      <4>1. SUFFICES ASSUME CURSOR_MAX_LINES < y PROVE FALSE
        OBVIOUS
      <4>2. CURSOR_MAX_LINES * CURSOR_MAX_COLUMNS + CURSOR_MAX_COLUMNS <= y * CURSOR_MAX_COLUMNS
        BY <4>1, ScreenTypes, ProductGrows
      <4>3. y * CURSOR_MAX_COLUMNS \in Nat
        BY ScreenTypes
      <4>4. QED
        BY <1>1, <3>2, <4>2, <4>3, ScreenTypes
    <3>4. y # CURSOR_MAX_LINES
      BY <1>1, <3>2
    <3>5. QED
      BY <3>1, <3>3, <3>4, ScreenTypes
  <2>11. /\ Ready(f[n]) /\ f[n].cursor = ConsoleCursor__next(a.cursor)
         /\ \A p \in Outside : f[n].pixels[p] = a.pixels[p]
    <3>1. CursorAfter(a.cursor, Blank) = ConsoleCursor__next(a.cursor)
      BY BlankIsCharacter DEF CursorAfter
    <3>2. QED
      BY <2>8, <2>9, <2>10, <3>1, BlankIsCharacter, CharPrinted
  <2>12. f[n].cursor.line * CURSOR_MAX_COLUMNS + f[n].cursor.column = n
    <3>1. a.cursor.line * CURSOR_MAX_COLUMNS + a.cursor.column + 1 = n
      BY <1>1, <2>5, <2>6, <2>7
    <3>2. QED
      BY <2>9, <2>11, <3>1, NextPlace
  <2>13. Cleared(n)
    BY <2>6, <2>7, <2>11, <2>12
  <2>14. QED
    BY <2>3, <2>13
<1>9. Cleared(size)
  BY <1>1, <1>8
<1>10. PICK a : a = Console__print_str(r, blanks)
  OBVIOUS
<1>11. Ready(a) /\ \A p \in Outside : a.pixels[p] = k.pixels[p]
  BY <1>7, <1>9, <1>10
<1>12. a \in Consoles /\ Shown(a)
  BY <1>11 DEF Ready
<1>13. Ready(Reset(a)) /\ Reset(a).pixels = a.pixels /\ Reset(a).cursor.line = 0
  BY <1>12, ResetReady
<1>14. QED
  BY <1>4, <1>5, <1>10, <1>11, <1>13

(* A filled screen shows no text. *)
LEMMA ScreenFilled ==
  ASSUME NEW k \in Consoles, NEW color \in Color
  PROVE  Filled(k, color) \in Consoles /\ Shown(Filled(k, color))
         /\ Filled(k, color).cursor = k.cursor
<1>1. Framebuffer__set_all_pixels(k.pixels, color) \in Contents
  BY FillType DEF Consoles
<1>2. [at \in Positions |-> << >>] \in [Positions -> TextValues]
  BY DEF TextValues
<1>3. Filled(k, color) \in Consoles /\ Filled(k, color).cursor = k.cursor
      /\ Filled(k, color).text = [at \in Positions |-> << >>]
  BY <1>1, <1>2 DEF Filled, Consoles
<1>4. QED
  BY <1>3 DEF Shown

LEMMA FreshConsole ==
  ASSUME NEW c \in Color
  PROVE  Fresh(c) \in Consoles /\ Shown(Fresh(c))
<1>1. BLACK \in Color /\ WHITE \in Color
  BY DEF Color
<1>2. [p \in 0 .. BufferSz + Margin - 1 |-> IF p < BufferSz THEN c ELSE Foreign] \in Contents
  BY <1>1 DEF Contents
<1>3. [at \in Positions |-> << >>] \in [Positions -> TextValues]
  BY DEF TextValues
<1>4. [line |-> 0, column |-> 0, fg_color |-> WHITE, bg_color |-> BLACK] \in Cursors
  BY <1>1, ScreenTypes DEF Cursors
<1>5. QED
  BY <1>2, <1>3, <1>4 DEF Fresh, Consoles, Shown

(* Wherever the cursor was, the message of a panic ends on the screen. *)
LEMMA PanicReady ==
  ASSUME NEW k \in Consoles
  PROVE  Ready(Panicked(k)) /\ Panicked(k).cursor.line < CURSOR_MAX_LINES
<1> DEFINE Start(l) == [Reset(Filled(l, BLUE)) EXCEPT !.cursor.bg_color = BLUE,
                                                       !.cursor.fg_color = WHITE]
<1>1. ASSUME NEW l \in Consoles
      PROVE  /\ Ready(Start(l)) /\ Start(l).cursor.line = 0 /\ Start(l).cursor.column = 0
             /\ Panicked(l) = Console__print_str(Start(l), PanicMessage)
  <2>1. PICK a : a = Reset(Filled(l, BLUE))
    OBVIOUS
  <2>2. Ready(a) /\ a.cursor.line = 0 /\ a.cursor.column = 0
    <3>1. Filled(l, BLUE) \in Consoles /\ Shown(Filled(l, BLUE))
      BY ScreenFilled DEF Color
    <3>2. QED
      BY <2>1, <3>1, ResetReady
  <2>3. a \in Consoles /\ a.cursor \in Cursors /\ Shown(a) /\ a.cursor.column \in Columns
    BY <2>2 DEF Ready, Consoles
  <2>4. PICK b : b = [a EXCEPT !.cursor.bg_color = BLUE, !.cursor.fg_color = WHITE]
    OBVIOUS
  <2>5. /\ b \in Consoles /\ b.pixels = a.pixels /\ b.text = a.text
        /\ b.cursor.line = 0 /\ b.cursor.column = a.cursor.column
    BY <2>2, <2>3, <2>4 DEF Consoles, Cursors, Color
  <2>6. Ready(b)
    BY <2>3, <2>5 DEF Ready, Shown
  <2>7. b = Start(l)
    BY <2>1, <2>4
  <2>8. QED
    BY <2>2, <2>5, <2>6, <2>7 DEF Panicked
<1> HIDE DEF Start
<1>2. PanicMessage \in Seq(Characters)
  BY MessageAssumption
<1>3. Fresh(BLACK) \in Consoles
  BY FreshConsole DEF Color
<1>4. SamePlace(Start(k).cursor, Start(Fresh(BLACK)).cursor)
  BY <1>1, <1>3 DEF SamePlace
<1>5. /\ Ready(Panicked(k)) /\ SamePlace(Panicked(k).cursor, Panicked(Fresh(BLACK)).cursor)
  BY <1>1, <1>2, <1>3, <1>4, StringPrinted
<1>6. QED
  BY <1>5, MessageAssumption DEF SamePlace, Color

-----------------------------------------------------------------------------
(* The invariant: the console is well formed, at most two lines below the   *)
(* screen, and every position shows its character.                          *)
CInv == Console \in Consoles /\ Shown(Console) /\ cursor.line \in 0 .. CURSOR_MAX_LINES + 2

LEMMA ReadyIsInv ==
  ASSUME NEW k, Ready(k), k.cursor.line <= CURSOR_MAX_LINES + 2
  PROVE  Becomes(k) => CInv'
<1>1. SUFFICES ASSUME Becomes(k) PROVE CInv'
  OBVIOUS
<1>2. k = [cursor |-> cursor', pixels |-> pixels', text |-> text']
  BY <1>1 DEF Ready, Consoles, Becomes
<1>3. k = Console'
  BY <1>2 DEF Console
<1>4. cursor' \in Cursors
  BY <1>1 DEF Ready, Consoles, Becomes
<1>5. cursor'.line \in 0 .. CURSOR_MAX_LINES + 2
  BY <1>1, <1>4, ScreenTypes DEF Becomes, Cursors
<1>6. Console' \in Consoles /\ Shown(Console)'
  BY <1>3 DEF Ready, Shown
<1>7. QED
  BY <1>5, <1>6 DEF CInv

THEOREM ConsoleInitially == ConsoleInit => CInv
<1>1. SUFFICES ASSUME ConsoleInit PROVE CInv
  OBVIOUS
<1>2. PICK c \in Color :
        LET k == Console__clear_screen(Fresh(c))
        IN  cursor = k.cursor /\ pixels = k.pixels /\ text = k.text
  BY <1>1 DEF ConsoleInit
<1>3. PICK k : k = Console__clear_screen(Fresh(c))
  OBVIOUS
<1>4. Ready(k) /\ k.cursor.line = 0
  BY <1>3, FreshConsole, ScreenCleared
<1>5. cursor = k.cursor /\ pixels = k.pixels /\ text = k.text
  BY <1>2, <1>3
<1>6. k = Console
  BY <1>4, <1>5 DEF Ready, Consoles, Console
<1>7. Console \in Consoles /\ Shown(Console)
  BY <1>4, <1>6 DEF Ready
<1>8. QED
  BY <1>4, <1>5, <1>7, ScreenTypes DEF CInv

(* The actions that print, clear and fill, and what they leave outside. *)
LEMMA Draws ==
  ASSUME CInv
  PROVE  /\ \A chr \in Characters : PrintChar(chr) =>
              CInv' /\ \A p \in Outside : pixels'[p] = pixels[p]
         /\ ClearScreen => CInv' /\ \A p \in Outside : pixels'[p] = pixels[p]
         /\ Kpanic => CInv'
         /\ \A c \in Backgrounds : Fill(c) => CInv'
<1>1. PICK k : k = Console
  OBVIOUS
<1>2. k \in Consoles /\ Shown(k) /\ k.pixels = pixels /\ k.cursor = cursor /\ k.text = text
  BY <1>1 DEF CInv, Console
<1>3. ASSUME NEW chr \in Characters, PrintChar(chr)
      PROVE  CInv' /\ \A p \in Outside : pixels'[p] = pixels[p]
  <2>1. cursor.line \in 0 .. CURSOR_MAX_LINES - 1 /\ cursor.column \in Columns
    BY <1>3 DEF PrintChar, OnScreen, Positions, Columns
  <2>2. k.cursor \in Cursors /\ cursor.line \in Nat /\ cursor.line < CURSOR_MAX_LINES
    BY <1>2, <2>1, ScreenTypes DEF Consoles
  <2>3. Ready(k)
    BY <1>2, <2>1 DEF Ready
  <2>4. PICK a : a = Console__print_char(k, chr)
    OBVIOUS
  <2>5. /\ Ready(a) /\ a.cursor = CursorAfter(k.cursor, chr)
        /\ \A p \in Outside : a.pixels[p] = k.pixels[p]
    BY <1>2, <2>2, <2>3, <2>4, CharPrinted
  <2>6. a.cursor.line \in cursor.line .. cursor.line + 3
    BY <1>2, <2>1, <2>2, <2>5, CursorAfterType
  <2>7. a.cursor.line <= CURSOR_MAX_LINES + 2
    BY <2>2, <2>6, ScreenTypes
  <2>8. Becomes(a)
    BY <1>1, <1>3, <2>4 DEF PrintChar
  <2>9. QED
    BY <1>2, <2>5, <2>7, <2>8, ReadyIsInv DEF Becomes
<1>4. ASSUME ClearScreen
      PROVE  CInv' /\ \A p \in Outside : pixels'[p] = pixels[p]
  <2>1. PICK a : a = Console__clear_screen(k)
    OBVIOUS
  <2>2. Ready(a) /\ a.cursor.line = 0 /\ \A p \in Outside : a.pixels[p] = k.pixels[p]
    BY <1>2, <2>1, ScreenCleared
  <2>3. Becomes(a)
    BY <1>1, <1>4, <2>1 DEF ClearScreen
  <2>4. QED
    BY <1>2, <2>2, <2>3, ReadyIsInv, ScreenTypes DEF Becomes
<1>5. ASSUME Kpanic PROVE CInv'
  <2>1. PICK a : a = Panicked(k)
    OBVIOUS
  <2>2. Ready(a) /\ a.cursor.line < CURSOR_MAX_LINES
    BY <1>2, <2>1, PanicReady
  <2>3. a.cursor.line \in Nat
    BY <2>2 DEF Ready, Consoles, Cursors
  <2>4. Becomes(a)
    BY <1>1, <1>5, <2>1 DEF Kpanic
  <2>5. QED
    BY <2>2, <2>3, <2>4, ReadyIsInv, ScreenTypes
<1>6. ASSUME NEW c \in Backgrounds, Fill(c) PROVE CInv'
  <2>1. PICK a : a = Filled(k, c)
    OBVIOUS
  <2>2. c \in Color
    BY ConsoleAssumption
  <2>3. a \in Consoles /\ Shown(a) /\ a.cursor = k.cursor
    BY <1>2, <2>1, <2>2, ScreenFilled
  <2>4. Becomes(a)
    BY <1>1, <1>6, <2>1 DEF Fill
  <2>5. a = Console' /\ cursor' = cursor
    BY <1>2, <2>3, <2>4 DEF Becomes, Consoles, Console
  <2>6. Console' \in Consoles /\ Shown(Console)'
    BY <2>3, <2>5 DEF Shown
  <2>7. QED
    BY <2>5, <2>6 DEF CInv
<1>7. QED
  BY <1>3, <1>4, <1>5, <1>6

LEMMA CursorMoves ==
  ASSUME CInv, MoveCursor
  PROVE  CInv'
<1>1. cursor \in Cursors /\ pixels \in Contents /\ text \in [Positions -> TextValues]
  BY DEF CInv, Console, Consoles
<1>2. PICK line \in 0 .. CURSOR_MAX_LINES + 2, column \in 0 .. CURSOR_MAX_COLUMNS :
        line = cursor.line /\ column = cursor.column
  BY <1>1 DEF CInv, Cursors
<1>3. cursor' \in Cursors /\ cursor'.line \in 0 .. CURSOR_MAX_LINES + 2
  <2>1. CASE cursor' = ConsoleCursor__back(cursor)
    <3>1. CASE column > 0
      <4>1. cursor' = [cursor EXCEPT !.column = @ - 1]
        BY <1>2, <2>1, <3>1 DEF ConsoleCursor__back
      <4>2. column - 1 \in 0 .. CURSOR_MAX_COLUMNS
        BY <1>2, <3>1, ScreenTypes
      <4>3. QED
        BY <1>1, <1>2, <4>1, <4>2 DEF Cursors
    <3>2. CASE column = 0 /\ line > 0
      <4>1. cursor' = [cursor EXCEPT !.column = CURSOR_MAX_COLUMNS, !.line = @ - 1]
        BY <1>2, <2>1, <3>2 DEF ConsoleCursor__back
      <4>2. /\ line - 1 \in 0 .. CURSOR_MAX_LINES + 2 /\ line - 1 \in Nat
            /\ CURSOR_MAX_COLUMNS \in 0 .. CURSOR_MAX_COLUMNS
        BY <1>2, <3>2, ScreenTypes
      <4>3. QED
        BY <1>1, <1>2, <4>1, <4>2 DEF Cursors
    <3>3. CASE column = 0 /\ line = 0
      <4>1. cursor' = cursor
        BY <1>2, <2>1, <3>3 DEF ConsoleCursor__back
      <4>2. QED
        BY <1>1, <1>2, <4>1
    <3>4. QED
      BY <1>2, <3>1, <3>2, <3>3, ScreenTypes
  <2>2. CASE \E at \in Positions : cursor' = ConsoleCursor__gotoxy(cursor, at[2], at[1])
    <3>1. PICK at \in Positions : cursor' = ConsoleCursor__gotoxy(cursor, at[2], at[1])
      BY <2>2
    <3>2. /\ at[1] \in 0 .. CURSOR_MAX_LINES + 2 /\ at[1] \in Nat
          /\ at[2] \in 0 .. CURSOR_MAX_COLUMNS
      BY <3>1, ScreenTypes DEF Positions
    <3>3. QED
      BY <1>1, <3>1, <3>2 DEF ConsoleCursor__gotoxy, Cursors
  <2>3. CASE \/ \E c \in Foregrounds : cursor' = [cursor EXCEPT !.fg_color = c]
             \/ \E c \in Backgrounds : cursor' = [cursor EXCEPT !.bg_color = c]
    <3>1. Foregrounds \subseteq Color /\ Backgrounds \subseteq Color
      BY ConsoleAssumption
    <3>2. QED
      BY <1>1, <1>2, <2>3, <3>1 DEF Cursors
  <2>4. QED
    BY <2>1, <2>2, <2>3 DEF MoveCursor
<1>4. pixels' = pixels /\ text' = text
  BY DEF MoveCursor
<1>5. Console' \in Consoles
  BY <1>1, <1>3, <1>4 DEF Console, Consoles
<1>6. Shown(Console)'
  BY <1>4 DEF CInv, Shown, Console
<1>7. QED
  BY <1>3, <1>5, <1>6 DEF CInv

(* Every step keeps the invariant, and all but a panic and a fill leave the *)
(* memory after the buffer alone.                                           *)
THEOREM ConsoleStep ==
  CInv /\ [ConsoleNext]_consolevars =>
    /\ CInv'
    /\ \/ Kpanic \/ \E c \in Backgrounds : Fill(c)
       \/ \A p \in Outside : pixels'[p] = pixels[p]
<1>1. SUFFICES ASSUME CInv, [ConsoleNext]_consolevars
               PROVE  /\ CInv'
                      /\ \/ Kpanic \/ \E c \in Backgrounds : Fill(c)
                         \/ \A p \in Outside : pixels'[p] = pixels[p]
  OBVIOUS
<1>2. CASE \E chr \in Characters : PrintChar(chr)
  BY <1>1, <1>2, Draws
<1>3. CASE ClearScreen
  BY <1>1, <1>3, Draws
<1>4. CASE Kpanic
  BY <1>1, <1>4, Draws
<1>5. CASE MoveCursor
  BY <1>1, <1>5, CursorMoves DEF MoveCursor
<1>6. CASE \E c \in Backgrounds : Fill(c)
  BY <1>1, <1>6, Draws
<1>7. CASE UNCHANGED consolevars
  <2>1. Console' = Console /\ cursor' = cursor /\ pixels' = pixels
    BY <1>7 DEF consolevars, Console
  <2>2. Shown(Console)'
    BY <1>1, <2>1 DEF CInv, Shown
  <2>3. QED
    BY <1>1, <2>1, <2>2 DEF CInv
<1>8. QED
  BY <1>1, <1>2, <1>3, <1>4, <1>5, <1>6, <1>7 DEF ConsoleNext

LEMMA ConsoleInvariant == ConsoleSpec => []CInv
<1>1. QED
  BY ConsoleInitially, ConsoleStep, PTL DEF ConsoleSpec

-----------------------------------------------------------------------------
(* The console and the framebuffer are well formed, and the cursor is never  *)
(* more than one column right of the screen or three lines further than the  *)
(* last one it printed in.                                                   *)
THEOREM ConsoleTypeCorrect == ConsoleSpec => []ConsoleTypeOK
<1>1. CInv => ConsoleTypeOK
  <2>1. SUFFICES ASSUME CInv PROVE ConsoleTypeOK
    OBVIOUS
  <2>2. cursor \in Cursors /\ pixels \in Contents /\ text \in [Positions -> TextValues]
    BY <2>1 DEF CInv, Console, Consoles
  <2>3. cursor \in [line : 0 .. CURSOR_MAX_LINES + 2, column : 0 .. CURSOR_MAX_COLUMNS,
                    fg_color : Color, bg_color : Color]
    BY <2>1, <2>2 DEF CInv, Cursors
  <2>4. QED
    BY <2>2, <2>3 DEF ConsoleTypeOK, TextValues
<1>2. QED
  BY <1>1, ConsoleInvariant, PTL

(* The screen shows at each position what was printed there last, whatever   *)
(* was printed next to it: the pixel that set_pixel writes too much is either *)
(* drawn over by the next one of the glyph or falls on a dark column.        *)
THEOREM TextIsShown == ConsoleSpec => []TextShown
<1>1. CInv => TextShown
  BY DEF CInv, Shown, Console, TextShown, PixelAt, GlyphColumns, GlyphRows
<1>2. QED
  BY <1>1, ConsoleInvariant, PTL

(* Printing on the screen and clearing it leave the memory after the buffer  *)
(* alone.                                                                    *)
THEOREM PrintingStaysInBuffer == ConsoleSpec => StaysInBuffer
<1>1. CInv /\ [ConsoleNext]_consolevars =>
        [\/ Kpanic \/ \E c \in Backgrounds : Fill(c)
         \/ \A p \in BufferSz .. BufferSz + Margin - 1 : pixels'[p] = pixels[p]]_consolevars
  BY ConsoleStep DEF Outside
<1>2. QED
  BY <1>1, ConsoleInvariant, PTL DEF ConsoleSpec, StaysInBuffer

-----------------------------------------------------------------------------
(***************************************************************************)
(* The formatting of text (Printf).  Numbers and their digits first.       *)
(***************************************************************************)

(* p[k] is the power k of b, up to the power n. *)
Powers(p, b, n) == p[0] = 1 /\ \A k \in 1 .. n : p[k] = b * p[k-1]

(* A power of b is larger than its exponent. *)
LEMMA PowersGrow ==
  ASSUME NEW p, NEW b \in Nat, b >= 2, NEW n \in Nat, Powers(p, b, n)
  PROVE  \A k \in 0 .. n : p[k] \in Nat /\ p[k] > k
<1> DEFINE T == {k \in 0 .. n : ~ (p[k] \in Nat /\ p[k] > k)}
<1>1. T \subseteq Nat
  OBVIOUS
<1>2. T = {}
  <2>1. SUFFICES ASSUME T # {} PROVE FALSE
    OBVIOUS
  <2>2. PICK k \in T : \A y \in T : k <= y
    <3> HIDE DEF T
    <3> QED BY <1>1, <2>1, LeastElement
  <2>3. k # 0 /\ k \in 1 .. n /\ k-1 \in 0 .. n /\ k-1 \notin T
    BY <2>2 DEF Powers
  <2>4. PICK q \in Nat : q = p[k-1] /\ q > k-1
    BY <2>3
  <2>5. p[k] = b * q
    BY <2>3, <2>4 DEF Powers
  <2>6. PICK c \in Nat : b = c + 2
    BY b - 2 \in Nat
  <2>7. b * q = c * q + 2 * q /\ c * q \in Nat
    BY <2>6
  <2>8. p[k] \in Nat /\ p[k] > k
    BY <2>3, <2>4, <2>5, <2>7
  <2>9. QED
    BY <2>2, <2>8
<1>3. QED
  BY <1>2

(* The powers of b grow. *)
LEMMA PowersMonotone ==
  ASSUME NEW p, NEW b \in Nat, b >= 2, NEW n \in Nat, Powers(p, b, n),
         NEW l \in 0 .. n, NEW m \in l .. n
  PROVE  p[l] <= p[m]
<1> DEFINE T == {k \in l .. n : ~ (p[l] <= p[k])}
<1>1. T \subseteq Nat /\ \A k \in 0 .. n : p[k] \in Nat
  BY PowersGrow
<1>2. T = {}
  <2>1. SUFFICES ASSUME T # {} PROVE FALSE
    OBVIOUS
  <2>2. PICK k \in T : \A y \in T : k <= y
    <3> HIDE DEF T
    <3> QED BY <1>1, <2>1, LeastElement
  <2>3. k # l
    BY <1>1, <2>2
  <2>4. k-1 \in l .. n /\ k-1 \notin T /\ k \in 1 .. n /\ k-1 \in 0 .. n
    BY <2>2, <2>3
  <2>5. PICK q \in Nat : q = p[k-1] /\ p[l] <= q
    BY <1>1, <2>4
  <2>6. PICK c \in Nat : b = c + 2
    BY b - 2 \in Nat
  <2>7. p[k] = b * q /\ b * q = c * q + 2 * q /\ c * q \in Nat
    BY <2>4, <2>5, <2>6 DEF Powers
  <2>8. p[l] <= p[k]
    BY <1>1, <2>5, <2>7
  <2>9. QED
    BY <2>2, <2>8
<1>3. QED
  BY <1>2

(* Dividing twice is dividing by the product. *)
DividedTwice(a, b, c) == (a \div b) \div c = a \div (b * c)

LEMMA DivTwice ==
  ASSUME NEW a \in Nat, NEW b \in Nat, b # 0, NEW c \in Nat, c # 0
  PROVE  DividedTwice(a, b, c)
<1>1. PICK q \in Nat, r \in Nat : q = a \div b /\ r < b /\ a = q * b + r
  BY Division
<1>2. PICK u \in Nat, v \in Nat : u = q \div c /\ v < c /\ q = u * c + v
  BY Division
<1>3. b * c \in Nat /\ b * c # 0
  <2>1. PICK d \in Nat : c = d + 1
    BY c - 1 \in Nat
  <2>2. b * c = b * d + b /\ b * d \in Nat
    BY <2>1
  <2>3. QED
    BY <2>2
<1>4. v * b + r \in Nat /\ v * b + r < b * c
  <2>1. v * b + b <= c * b /\ c * b = b * c
    BY <1>2, ProductGrows
  <2>2. v * b \in Nat
    OBVIOUS
  <2>3. QED
    BY <1>1, <1>3, <2>1, <2>2
<1>5. a = u * (b * c) + (v * b + r)
  <2>1. q * b = u * (b * c) + v * b
    <3>1. PICK w \in Nat : w = u * c
      OBVIOUS
    <3>2. (w + v) * b = w * b + v * b
      OBVIOUS
    <3>3. (u * c) * b = u * (b * c)
      OBVIOUS
    <3>4. QED
      BY <1>2, <3>1, <3>2, <3>3
  <2>2. u * (b * c) \in Nat /\ v * b \in Nat
    BY <1>3
  <2>3. QED
    BY <1>1, <2>1, <2>2
<1>6. PICK x \in Nat, y \in Nat : /\ x = a \div (b * c) /\ y < b * c /\ a = x * (b * c) + y
  BY <1>3, Division
<1>7. PICK n \in Nat, s \in Nat : n = b * c /\ s = v * b + r
  BY <1>3, <1>4
<1>8. u = x
  <2>1. s < n /\ y < n /\ u * n + s = x * n + y
    BY <1>4, <1>5, <1>6, <1>7
  <2>2. QED
    BY <2>1, OneQuotient
<1>9. QED
  BY <1>1, <1>2, <1>6, <1>8 DEF DividedTwice

(* The digits are characters. *)
LEMMA DigitIsChar ==
  ASSUME NEW b \in 2 .. 16, NEW a \in Nat
  PROVE  Digit[(a % b) + 1] \in Char
<1>1. a % b \in Nat /\ a % b < b
  BY Division
<1>2. (a % b) + 1 \in 1 .. 16
  BY <1>1
<1>3. QED
  BY <1>2, PrintfAssumption DEF Digit

(* The recursive definition of LowDigits defines a function. *)
LEMMA LowDigitsDef ==
  ASSUME NEW num \in Nat, NEW b \in 2 .. 16
  PROVE  \E f : /\ f[num] = LowDigits(num, b) /\ f[0] = << >>
                /\ \A m \in 1 .. num : f[m] = <<Digit[(m % b) + 1]>> \o f[m \div b]
<1> DEFINE First(s, m) == <<Digit[(m % b) + 1]>> \o s
           Solves(f, n) == f = [m \in 0 .. n |-> IF m = 0 THEN << >> ELSE First(f[m \div b], m)]
           T == {n \in Nat : ~ \E f : Solves(f, n)}
<1> HIDE DEF First
<1>1. ASSUME NEW m \in Nat, m # 0 PROVE m \div b \in 0 .. m-1
  <2>1. PICK q \in Nat, r \in Nat : q = m \div b /\ r < b /\ m = q * b + r
    BY Division
  <2>2. PICK c \in Nat : b = c + 2
    BY b - 2 \in Nat
  <2>3. q * b = q * c + 2 * q /\ q * c \in Nat
    BY <2>2
  <2>4. q < m
    BY <1>1, <2>1, <2>3
  <2>5. QED
    BY <2>1, <2>4
<1>2. T = {}
  <2>1. SUFFICES ASSUME T # {} PROVE FALSE
    OBVIOUS
  <2>2. PICK n \in T : \A y \in T : n <= y
    <3> HIDE DEF Solves
    <3> QED BY <2>1, LeastElement
  <2>3. CASE n = 0
    <3>1. Solves([m \in 0 .. 0 |-> << >>], 0)
      OBVIOUS
    <3>2. QED BY <2>3, <3>1
  <2>4. CASE n # 0
    <3>1. n-1 \in Nat /\ n-1 \notin T
      <4> HIDE DEF Solves
      <4> QED BY <2>4, <2>2
    <3>2. PICK f : Solves(f, n-1)
      <4> HIDE DEF Solves
      <4> QED BY <3>1
    <3> DEFINE g == [m \in 0 .. n |-> IF m = 0 THEN << >> ELSE First(f[m \div b], m)]
    <3>3. ASSUME NEW m \in 0 .. n-1 PROVE g[m] = f[m]
      <4>1. m \in 0 .. n
        BY <3>1
      <4>2. f[m] = IF m = 0 THEN << >> ELSE First(f[m \div b], m)
        BY <3>2
      <4>3. g[m] = IF m = 0 THEN << >> ELSE First(f[m \div b], m)
        BY <4>1
      <4>4. QED
        BY <4>2, <4>3
    <3>4. \A m \in 0 .. n : m # 0 => m \div b \in 0 .. n-1
      BY <1>1, <3>1
    <3>5. Solves(g, n)
      BY <3>1, <3>3, <3>4
    <3>6. QED BY <3>5
  <2>5. QED BY <2>3, <2>4
<1>3. PICK h : Solves(h, num)
  BY <1>2
<1> DEFINE f == CHOOSE f : Solves(f, num)
<1>4. Solves(f, num)
  <2> HIDE DEF Solves
  <2> QED BY <1>3
<1>5. LowDigits(num, b) = f[num]
  BY DEF LowDigits, First
<1> HIDE DEF f
<1>6. f[0] = << >> /\ \A m \in 1 .. num : f[m] = First(f[m \div b], m)
  BY <1>4
<1>7. QED
  BY <1>5, <1>6 DEF First

(* s is the digits of m from the lowest to the highest, none of them in vain. *)
AreDigits(s, m, b, p) ==
  /\ s \in Text /\ Len(s) <= m
  /\ m < p[Len(s)]
  /\ m = 0 => s = << >>
  /\ m # 0 => Len(s) # 0 /\ p[Len(s) - 1] <= m
  /\ \A k \in 1 .. Len(s) : s[k] = Digit[((m \div p[k-1]) % b) + 1]

(* s is t with d before it. *)
Prepends(s, d, t) ==
  /\ s = <<d>> \o t /\ Len(s) = Len(t) + 1 /\ s[1] = d
  /\ \A k \in 2 .. Len(t) + 1 : s[k] = t[k-1]

LEMMA Prepended ==
  ASSUME NEW S, NEW d \in S, NEW t \in Seq(S)
  PROVE  \E s \in Seq(S) : Prepends(s, d, t)
<1> DEFINE s == <<d>> \o t
<1>1. <<d>> \in Seq(S) /\ Len(<<d>>) = 1 /\ <<d>>[1] = d
  OBVIOUS
<1>2. s \in Seq(S) /\ Len(s) = Len(t) + 1
  OBVIOUS
<1>3. s[1] = d
  OBVIOUS
<1>4. ASSUME NEW k \in 2 .. Len(t) + 1 PROVE s[k] = t[k-1]
  OBVIOUS
<1>5. Prepends(s, d, t)
  <2>1. s = <<d>> \o t
    OBVIOUS
  <2> HIDE DEF s
  <2>2. QED
    BY <1>2, <1>3, <1>4, <2>1 DEF Prepends
<1>6. QED
  BY <1>2, <1>5

(* itoa's digits are those of the number, the lowest one first. *)
LEMMA LowDigitsAre ==
  ASSUME NEW num \in Nat, NEW b \in 2 .. 16, NEW p, Powers(p, b, num)
  PROVE  AreDigits(LowDigits(num, b), num, b, p)
<1>1. PICK f : /\ f[num] = LowDigits(num, b) /\ f[0] = << >>
               /\ \A m \in 1 .. num : f[m] = <<Digit[(m % b) + 1]>> \o f[m \div b]
  BY LowDigitsDef
<1>2. \A k \in 0 .. num : p[k] \in Nat /\ p[k] > k
  BY PowersGrow
<1>3. AreDigits(f[0], 0, b, p)
  <2>1. << >> \in Text /\ Len(<< >>) = 0
    BY DEF Text
  <2>2. p[0] = 1
    BY DEF Powers
  <2>3. QED
    BY <1>1, <2>1, <2>2 DEF AreDigits
<1>4. ASSUME NEW m \in 1 .. num, \A l \in 0 .. m-1 : AreDigits(f[l], l, b, p)
      PROVE  AreDigits(f[m], m, b, p)
  <2>1. PICK q \in Nat, r \in Nat : q = m \div b /\ r = m % b /\ r < b /\ m = q * b + r
    BY Division
  <2>2. q < m
    <3>1. PICK c \in Nat : b = c + 2
      BY b - 2 \in Nat
    <3>2. q * b = q * c + 2 * q /\ q * c \in Nat
      BY <3>1
    <3>3. QED
      BY <2>1, <3>2
  <2>3. PICK t : t = f[q]
    OBVIOUS
  <2>4. AreDigits(t, q, b, p)
    BY <1>4, <2>2, <2>3
  <2>5. PICK d \in Char : d = Digit[(m % b) + 1]
    BY DigitIsChar
  <2>6. f[m] = <<d>> \o t
    BY <1>1, <2>1, <2>3, <2>5
  <2>7. t \in Seq(Char) /\ Len(t) \in Nat /\ Len(t) <= q
    BY <2>4 DEF AreDigits, Text
  <2>8. PICK n \in Nat : n = Len(t)
    BY <2>7
  <2>9. PICK s \in Seq(Char) : /\ s = f[m] /\ Len(s) = n + 1 /\ s[1] = d
                               /\ \A k \in 2 .. n + 1 : s[k] = t[k-1]
    <3>1. PICK s \in Seq(Char) : Prepends(s, d, t)
      BY <2>5, <2>7, Prepended
    <3>2. s = f[m] /\ Len(s) = n + 1 /\ \A k \in 2 .. n + 1 : s[k] = t[k-1]
      BY <2>6, <2>8, <3>1 DEF Prepends
    <3>3. QED
      BY <3>1, <3>2 DEF Prepends
  <2>10. n + 1 <= m /\ n \in 0 .. num /\ n + 1 \in 1 .. num
    BY <2>2, <2>7, <2>8
  <2>11. PICK P \in Nat : P = p[n]
    BY <1>2, <2>10
  <2>12. p[n+1] = b * P
    BY <2>10, <2>11 DEF Powers
  <2>13. m < p[n+1]
    <3>1. q < P
      BY <2>4, <2>8, <2>11 DEF AreDigits
    <3>2. q * b + b <= P * b /\ P * b = b * P /\ q * b \in Nat /\ P * b \in Nat
      BY <3>1, ProductGrows
    <3>3. QED
      BY <2>1, <2>12, <3>2
  <2>14. p[n] <= m
    <3>1. CASE q = 0
      BY <2>4, <2>8, <3>1 DEF AreDigits, Powers
    <3>2. CASE q # 0
      <4>1. n # 0 /\ p[n-1] <= q
        BY <2>4, <2>8, <3>2 DEF AreDigits
      <4>2. n - 1 \in 0 .. num /\ n \in 1 .. num
        BY <2>10, <4>1
      <4>3. PICK Q \in Nat : Q = p[n-1] /\ Q <= q
        BY <1>2, <4>1, <4>2
      <4>4. P = b * Q
        BY <2>11, <4>2, <4>3 DEF Powers
      <4>5. PICK e \in Nat : q = Q + e
        BY <4>3, q - Q \in Nat
      <4>6. q * b = b * Q + e * b /\ e * b \in Nat /\ b * Q \in Nat
        BY <4>5
      <4>7. QED
        BY <2>1, <2>11, <4>4, <4>6
    <3>3. QED
      BY <3>1, <3>2
  <2>15. ASSUME NEW k \in 1 .. n + 1 PROVE s[k] = Digit[((m \div p[k-1]) % b) + 1]
    <3>1. CASE k = 1
      <4>1. m \div p[k-1] = m
        BY <3>1 DEF Powers
      <4>2. QED
        BY <2>5, <2>9, <3>1, <4>1
    <3>2. CASE k # 1
      <4>1. PICK l \in 1 .. n : k = l + 1
        BY <3>2, k - 1 \in 1 .. n
      <4>2. s[k] = t[l]
        BY <2>9, <3>2, <4>1
      <4>3. t[l] = Digit[((q \div p[l-1]) % b) + 1]
        BY <2>4, <2>8 DEF AreDigits
      <4>4. l \in 1 .. num /\ l-1 \in 0 .. num
        BY <2>10
      <4>5. PICK L \in Nat : L = p[l-1] /\ L # 0
        BY <1>2, <4>4
      <4>6. p[l] = b * L
        BY <4>4, <4>5 DEF Powers
      <4>7. q \div L = m \div (b * L)
        <5>1. b \in Nat /\ b # 0 /\ m \in Nat
          OBVIOUS
        <5>2. q = m \div b
          BY <2>1
        <5>3. DividedTwice(m, b, L)
          BY <4>5, <5>1, DivTwice
        <5>4. QED
          BY <5>2, <5>3 DEF DividedTwice
      <4>8. k - 1 = l
        BY <4>1
      <4>9. QED
        BY <4>2, <4>3, <4>5, <4>6, <4>7, <4>8
    <3>3. QED
      BY <3>1, <3>2
  <2>16. Len(s) - 1 = n /\ Len(s) # 0
    <3>1. (n + 1) - 1 = n /\ n + 1 # 0
      OBVIOUS
    <3>2. Len(s) = n + 1
      BY <2>9
    <3>3. QED
      BY <3>1, <3>2
  <2>17. QED
    BY <2>9, <2>10, <2>13, <2>14, <2>15, <2>16 DEF AreDigits, Text
<1> DEFINE T == {m \in 0 .. num : ~ AreDigits(f[m], m, b, p)}
<1>5. T = {}
  <2>1. SUFFICES ASSUME T # {} PROVE FALSE
    OBVIOUS
  <2>2. T \subseteq Nat
    OBVIOUS
  <2>3. PICK m \in T : \A y \in T : m <= y
    <3> HIDE DEF T
    <3> QED BY <2>1, <2>2, LeastElement
  <2>4. m \in 1 .. num
    BY <1>3, <2>3
  <2>5. ASSUME NEW l \in 0 .. m-1 PROVE AreDigits(f[l], l, b, p)
    <3>1. l \in 0 .. num /\ ~ (m <= l)
      BY <2>4
    <3>2. QED
      BY <2>3, <3>1
  <2>6. QED
    BY <1>4, <2>3, <2>4, <2>5
<1>6. QED
  BY <1>1, <1>5

(* The recursive definition of StrReverse defines a function. *)
LEMMA StrReverseDef ==
  ASSUME NEW s \in Text
  PROVE  \E f : /\ f[Len(s) \div 2] = StrReverse(s) /\ f[0] = s
                /\ \A k \in 1 .. Len(s) \div 2 :
                     f[k] = [f[k-1] EXCEPT ![k] = f[k-1][Len(s) - k + 1],
                                           ![Len(s) - k + 1] = f[k-1][k]]
<1> DEFINE Exchange(r, k) == [r EXCEPT ![k] = r[Len(s) - k + 1], ![Len(s) - k + 1] = r[k]]
           half == Len(s) \div 2
           Solves(f, n) == f = [k \in 0 .. n |-> IF k = 0 THEN s ELSE Exchange(f[k-1], k)]
           T == {n \in Nat : ~ \E f : Solves(f, n)}
<1> HIDE DEF Exchange
<1>1. T = {}
  <2>1. SUFFICES ASSUME T # {} PROVE FALSE
    OBVIOUS
  <2>2. PICK n \in T : \A y \in T : n <= y
    <3> HIDE DEF Solves
    <3> QED BY <2>1, LeastElement
  <2>3. CASE n = 0
    <3>1. Solves([k \in 0 .. 0 |-> s], 0)
      OBVIOUS
    <3>2. QED BY <2>3, <3>1
  <2>4. CASE n # 0
    <3>1. n-1 \in Nat /\ n-1 \notin T
      <4> HIDE DEF Solves
      <4> QED BY <2>4, <2>2
    <3>2. PICK f : Solves(f, n-1)
      BY <3>1
    <3> DEFINE g == [k \in 0 .. n |-> IF k = 0 THEN s ELSE Exchange(f[k-1], k)]
    <3>3. \A k \in 0 .. n-1 : g[k] = f[k]
      BY <3>1, <3>2
    <3>4. \A k \in 0 .. n : k # 0 => k-1 \in 0 .. n-1
      BY <3>1
    <3>5. Solves(g, n)
      BY <3>1, <3>3, <3>4
    <3>6. QED BY <3>5
  <2>5. QED BY <2>3, <2>4
<1>2. half \in Nat
  BY DEF Text
<1>3. PICK h : Solves(h, half)
  BY <1>1, <1>2
<1> DEFINE f == CHOOSE f : Solves(f, half)
<1>4. Solves(f, half)
  <2> HIDE DEF Solves, half
  <2> QED BY <1>3
<1>5. StrReverse(s) = f[half]
  BY DEF StrReverse, Exchange
<1> HIDE DEF f
<1>6. f[0] = s /\ \A k \in 1 .. half : f[k] = Exchange(f[k-1], k)
  <2> HIDE DEF half
  <2> QED BY <1>2, <1>4
<1>7. QED
  BY <1>5, <1>6 DEF Exchange

(* After k exchanges the k characters at each end are reversed. *)
ReversedUpTo(r, s, k) ==
  /\ r \in [1 .. Len(s) -> Char]
  /\ \A q \in 1 .. Len(s) :
       r[q] = IF q <= k \/ q > Len(s) - k THEN s[Len(s) + 1 - q] ELSE s[q]

(* The exchanges from both ends reverse a text. *)
LEMMA Reversed ==
  ASSUME NEW s \in Text
  PROVE  /\ StrReverse(s) \in [1 .. Len(s) -> Char]
         /\ \A q \in 1 .. Len(s) : StrReverse(s)[q] = s[Len(s) + 1 - q]
<1>1. PICK n \in Nat : n = Len(s)
  BY DEF Text
<1>2. PICK h \in Nat : h = n \div 2 /\ 2 * h <= n /\ n <= 2 * h + 1
  OBVIOUS
<1>3. PICK f : /\ f[Len(s) \div 2] = StrReverse(s) /\ f[0] = s
               /\ \A k \in 1 .. Len(s) \div 2 :
                    f[k] = [f[k-1] EXCEPT ![k] = f[k-1][Len(s) - k + 1],
                                          ![Len(s) - k + 1] = f[k-1][k]]
  BY StrReverseDef
<1>4. s \in [1 .. n -> Char]
  BY <1>1 DEF Text
<1>5. ReversedUpTo(f[0], s, 0)
  BY <1>1, <1>3, <1>4 DEF ReversedUpTo
<1>6. ASSUME NEW k \in 1 .. h, ReversedUpTo(f[k-1], s, k-1)
      PROVE  ReversedUpTo(f[k], s, k)
  <2>1. PICK r : r = f[k-1]
    OBVIOUS
  <2>2. PICK l \in 1 .. n : l = n - k + 1 /\ k < l /\ k \in 1 .. n
    BY <1>2
  <2>3. f[k] = [r EXCEPT ![k] = r[l], ![l] = r[k]]
    BY <1>1, <1>2, <1>3, <2>1, <2>2
  <2>4. /\ r \in [1 .. n -> Char]
        /\ \A q \in 1 .. n : r[q] = IF q <= k-1 \/ q > n - (k-1) THEN s[n + 1 - q] ELSE s[q]
    BY <1>1, <1>6, <2>1 DEF ReversedUpTo
  <2>5. r[l] = s[l] /\ r[k] = s[k] /\ n + 1 - l = k /\ n + 1 - k = l
    BY <2>2, <2>4
  <2>6. f[k] \in [1 .. n -> Char]
    BY <2>2, <2>3, <2>4
  <2>7. ASSUME NEW q \in 1 .. n
        PROVE  f[k][q] = IF q <= k \/ q > n - k THEN s[n + 1 - q] ELSE s[q]
    <3>1. CASE q = k
      BY <2>2, <2>3, <2>4, <2>5, <3>1
    <3>2. CASE q = l
      BY <2>2, <2>3, <2>4, <2>5, <3>2
    <3>3. CASE q # k /\ q # l
      <4>1. f[k][q] = r[q]
        BY <2>3, <2>4, <3>3
      <4>2. q <= k \/ q > n - k <=> q <= k-1 \/ q > n - (k-1)
        BY <2>2, <3>3
      <4>3. QED
        BY <2>4, <4>1, <4>2
    <3>4. QED
      BY <3>1, <3>2, <3>3
  <2>8. QED
    BY <1>1, <2>6, <2>7 DEF ReversedUpTo
<1> DEFINE T == {k \in 0 .. h : ~ ReversedUpTo(f[k], s, k)}
<1>7. T = {}
  <2>1. SUFFICES ASSUME T # {} PROVE FALSE
    OBVIOUS
  <2>2. T \subseteq Nat
    OBVIOUS
  <2>3. PICK k \in T : \A y \in T : k <= y
    <3> HIDE DEF T
    <3> QED BY <2>1, <2>2, LeastElement
  <2>4. k \in 1 .. h /\ k-1 \in 0 .. h /\ k-1 \notin T
    BY <1>5, <2>3
  <2>5. QED
    BY <1>6, <2>3, <2>4
<1>8. ReversedUpTo(f[h], s, h)
  BY <1>7
<1>9. ASSUME NEW q \in 1 .. n PROVE f[h][q] = s[n + 1 - q]
  <2>1. CASE q <= h \/ q > n - h
    BY <1>1, <1>8, <2>1 DEF ReversedUpTo
  <2>2. CASE ~ (q <= h \/ q > n - h)
    <3>1. f[h][q] = s[q]
      BY <1>1, <1>8, <2>2 DEF ReversedUpTo
    <3>2. n + 1 - q = q
      BY <1>2, <2>2
    <3>3. QED
      BY <3>1, <3>2
  <2>3. QED
    BY <2>1, <2>2
<1>10. StrReverse(s) = f[h]
  BY <1>1, <1>2, <1>3
<1>11. QED
  BY <1>1, <1>8, <1>9, <1>10 DEF ReversedUpTo

(* The numeral of the reference, with its powers. *)
LEMMA NumeralDef ==
  ASSUME NEW num \in Nat, NEW b \in 2 .. 16
  PROVE  \E p : /\ Powers(p, b, num + 1)
                /\ Numeral(num, b) =
                     LET length == CHOOSE n \in 1 .. num + 1 :
                                     p[n] > num /\ (n = 1 \/ p[n-1] <= num)
                     IN  [k \in 1 .. length |-> Digit[((num \div p[length - k]) % b) + 1]]
<1> DEFINE Solves(f, n) == f = [k \in 0 .. n |-> IF k = 0 THEN 1 ELSE b * f[k-1]]
           T == {n \in Nat : ~ \E f : Solves(f, n)}
<1>1. T = {}
  <2>1. SUFFICES ASSUME T # {} PROVE FALSE
    OBVIOUS
  <2>2. PICK n \in T : \A y \in T : n <= y
    <3> HIDE DEF Solves
    <3> QED BY <2>1, LeastElement
  <2>3. CASE n = 0
    <3>1. Solves([k \in 0 .. 0 |-> 1], 0)
      OBVIOUS
    <3>2. QED BY <2>3, <3>1
  <2>4. CASE n # 0
    <3>1. n-1 \in Nat /\ n-1 \notin T
      <4> HIDE DEF Solves
      <4> QED BY <2>4, <2>2
    <3>2. PICK f : Solves(f, n-1)
      BY <3>1
    <3> DEFINE g == [k \in 0 .. n |-> IF k = 0 THEN 1 ELSE b * f[k-1]]
    <3>3. \A k \in 0 .. n-1 : g[k] = f[k]
      BY <3>1, <3>2
    <3>4. \A k \in 0 .. n : k # 0 => k-1 \in 0 .. n-1
      BY <3>1
    <3>5. Solves(g, n)
      BY <3>1, <3>3, <3>4
    <3>6. QED BY <3>5
  <2>5. QED BY <2>3, <2>4
<1>2. PICK h : Solves(h, num + 1)
  <2> HIDE DEF Solves
  <2>1. num + 1 \in Nat
    OBVIOUS
  <2>2. QED
    BY <1>1, <2>1
<1> DEFINE p == CHOOSE f : Solves(f, num + 1)
<1>3. Solves(p, num + 1)
  <2> HIDE DEF Solves
  <2> QED BY <1>2
<1>4. Numeral(num, b) =
        LET length == CHOOSE n \in 1 .. num + 1 : p[n] > num /\ (n = 1 \/ p[n-1] <= num)
        IN  [k \in 1 .. length |-> Digit[((num \div p[length - k]) % b) + 1]]
  BY DEF Numeral
<1> HIDE DEF p
<1>5. Powers(p, b, num + 1)
  BY <1>3 DEF Powers
<1>6. QED
  BY <1>4, <1>5

(* What itoa writes is the numeral of the reference, and a NUL. *)
LEMMA NumeralIs ==
  ASSUME NEW num \in Nat, NEW b \in 2 .. 16
  PROVE  /\ Numeral(num, b) \in Text
         /\ Itoa(num, b) = Numeral(num, b) \o <<NUL>>
<1> DEFINE Length(p, n) == p[n] > num /\ (n = 1 \/ p[n-1] <= num)
<1>1. PICK p : /\ Powers(p, b, num + 1)
               /\ Numeral(num, b) =
                    LET length == CHOOSE n \in 1 .. num + 1 : Length(p, n)
                    IN  [k \in 1 .. length |-> Digit[((num \div p[length - k]) % b) + 1]]
  BY NumeralDef
<1>2. \A k \in 0 .. num + 1 : p[k] \in Nat /\ p[k] > k
  BY <1>1, PowersGrow
<1>3. Powers(p, b, num)
  BY <1>1 DEF Powers
<1>4. PICK s : s = LowDigits(num, b) /\ AreDigits(s, num, b, p)
  BY <1>3, LowDigitsAre
<1>5. PICK d : d = IF num = 0 THEN <<"0">> ELSE StrReverse(s)
  OBVIOUS
<1>6. Itoa(num, b) = d \o <<NUL>>
  BY <1>4, <1>5 DEF Itoa
<1>7. PICK l \in 1 .. num + 1 :
        /\ Length(p, l) /\ d \in [1 .. l -> Char]
        /\ \A k \in 1 .. l : d[k] = Digit[((num \div p[l - k]) % b) + 1]
  <2>1. CASE num = 0
    <3>1. p[0] = 1 /\ p[1] > 0
      BY <1>1, <1>2, <2>1 DEF Powers
    <3>2. "0" \in Char
      BY PrintfAssumption DEF Digit
    <3>3. d = <<"0">> /\ d \in [1 .. 1 -> Char]
      BY <1>5, <2>1, <3>2
    <3>4. ASSUME NEW k \in 1 .. 1 PROVE d[k] = Digit[((num \div p[1 - k]) % b) + 1]
      <4>1. k = 1 /\ d[k] = "0" /\ p[1 - k] = 1
        BY <3>1, <3>3
      <4>2. ((num \div p[1 - k]) % b) + 1 = 1
        BY <2>1, <4>1
      <4>3. Digit[1] = "0"
        BY DEF Digit
      <4>4. QED
        BY <4>1, <4>2, <4>3
    <3>5. Length(p, 1) /\ 1 \in 1 .. num + 1
      BY <2>1, <3>1
    <3>6. QED
      BY <3>3, <3>4, <3>5
  <2>2. CASE num # 0
    <3>1. PICK l \in 1 .. num : l = Len(s)
      BY <1>4, <2>2 DEF AreDigits, Text
    <3>2. s \in Text /\ \A k \in 1 .. l : s[k] = Digit[((num \div p[k-1]) % b) + 1]
      BY <1>4, <3>1 DEF AreDigits
    <3>3. d = StrReverse(s) /\ d \in [1 .. l -> Char] /\ \A q \in 1 .. l : d[q] = s[l + 1 - q]
      BY <1>5, <2>2, <3>1, <3>2, Reversed
    <3>4. p[l] > num /\ p[l-1] <= num
      BY <1>2, <1>4, <2>2, <3>1 DEF AreDigits
    <3>5. ASSUME NEW k \in 1 .. l PROVE d[k] = Digit[((num \div p[l - k]) % b) + 1]
      <4>1. l + 1 - k \in 1 .. l /\ (l + 1 - k) - 1 = l - k
        OBVIOUS
      <4>2. QED
        BY <3>2, <3>3, <4>1
    <3>6. l \in 1 .. num + 1 /\ Length(p, l)
      BY <3>1, <3>4
    <3> HIDE DEF Length
    <3>7. QED
      BY <3>3, <3>5, <3>6
  <2>3. QED
    BY <2>1, <2>2
<1>8. ASSUME NEW n \in 1 .. num + 1, Length(p, n) PROVE n = l
  <2>1. ASSUME NEW x \in 1 .. num + 1, NEW y \in 1 .. num + 1, Length(p, x), Length(p, y), x < y
        PROVE  FALSE
    <3>1. p[y-1] <= num /\ p[x] > num
      BY <2>1
    <3>2. x \in 0 .. num + 1 /\ y-1 \in x .. num + 1 /\ y-1 \in 0 .. num + 1
      BY <2>1
    <3>3. p[x] <= p[y-1]
      BY <1>1, <3>2, PowersMonotone
    <3>4. p[x] \in Nat /\ p[y-1] \in Nat
      BY <1>2, <3>2
    <3>5. QED
      BY <3>1, <3>3, <3>4
  <2>2. ~ (n < l) /\ ~ (l < n)
    BY <1>7, <1>8, <2>1
  <2>3. QED
    BY <2>2
<1>9. (CHOOSE n \in 1 .. num + 1 : Length(p, n)) = l
  <2> HIDE DEF Length
  <2> QED BY <1>7, <1>8
<1>10. Numeral(num, b) = [k \in 1 .. l |-> Digit[((num \div p[l - k]) % b) + 1]]
  <2> HIDE DEF Length
  <2> QED BY <1>1, <1>9
<1>11. d = Numeral(num, b)
  BY <1>7, <1>10
<1>12. d \in Text
  BY <1>7, FunctionIsSequence DEF Text
<1>13. QED
  BY <1>6, <1>11, <1>12

-----------------------------------------------------------------------------
(* Flattening: f[k] is the first k sequences one after the other. *)

Prefixed(f, seqs) ==
  /\ f[0] = << >> /\ f[Len(seqs)] = FlattenSeq(seqs)
  /\ \A k \in 1 .. Len(seqs) : f[k] = f[k-1] \o seqs[k]

(* Flattening satisfies the equations it is defined by. *)
LEMMA FlattenDef ==
  ASSUME NEW seqs \in Seq(Text)
  PROVE  \E f : Prefixed(f, seqs)
<1> DEFINE Solves(f, n) == f = [k \in 1 .. n |-> IF k = 1 THEN seqs[k] ELSE f[k-1] \o seqs[k]]
           T == {n \in Nat : ~ \E f : Solves(f, n)}
<1>1. T = {}
  <2>1. SUFFICES ASSUME T # {} PROVE FALSE
    OBVIOUS
  <2>2. PICK n \in T : \A y \in T : n <= y
    <3> HIDE DEF Solves
    <3> QED BY <2>1, LeastElement
  <2>3. CASE n = 0
    <3>1. Solves([k \in 1 .. 0 |-> << >>], 0)
      OBVIOUS
    <3>2. QED BY <2>3, <3>1
  <2>4. CASE n # 0
    <3>1. n-1 \in Nat /\ n-1 \notin T
      <4> HIDE DEF Solves
      <4> QED BY <2>4, <2>2
    <3>2. PICK f : Solves(f, n-1)
      <4> HIDE DEF Solves
      <4> QED BY <3>1
    <3> DEFINE g == [k \in 1 .. n |-> IF k = 1 THEN seqs[k] ELSE f[k-1] \o seqs[k]]
    <3>3. ASSUME NEW k \in 1 .. n-1 PROVE g[k] = f[k]
      <4>1. k \in 1 .. n
        BY <3>1
      <4>2. f[k] = IF k = 1 THEN seqs[k] ELSE f[k-1] \o seqs[k]
        BY <3>2
      <4>3. g[k] = IF k = 1 THEN seqs[k] ELSE f[k-1] \o seqs[k]
        BY <4>1
      <4>4. QED
        BY <4>2, <4>3
    <3>4. \A k \in 1 .. n : k # 1 => k-1 \in 1 .. n-1
      BY <3>1
    <3>5. Solves(g, n)
      BY <3>1, <3>3, <3>4
    <3>6. QED BY <3>5
  <2>5. QED BY <2>3, <2>4
<1>2. PICK n \in Nat : n = Len(seqs)
  OBVIOUS
<1>3. CASE n = 0
  <2> DEFINE f == [k \in 0 .. 0 |-> << >>]
  <2>1. FlattenSeq(seqs) = seqs
    BY <1>2, <1>3 DEF FlattenSeq
  <2>2. seqs = << >>
    BY <1>2, <1>3, EmptySeq
  <2>3. f[0] = << >> /\ f[Len(seqs)] = FlattenSeq(seqs)
    BY <1>2, <1>3, <2>1, <2>2
  <2>4. Prefixed(f, seqs)
    BY <1>2, <1>3, <2>3 DEF Prefixed
  <2>5. QED
    BY <2>4
<1>4. CASE n # 0
  <2>1. PICK h : Solves(h, n)
    <3> HIDE DEF Solves
    <3> QED BY <1>1, <1>2
  <2> DEFINE g == CHOOSE g : Solves(g, Len(seqs))
  <2>2. Solves(g, Len(seqs))
    <3> HIDE DEF Solves
    <3> QED BY <1>2, <2>1
  <2>3. FlattenSeq(seqs) = g[Len(seqs)]
    BY <1>2, <1>4 DEF FlattenSeq
  <2> HIDE DEF g
  <2>4. \A k \in 1 .. n : g[k] = IF k = 1 THEN seqs[k] ELSE g[k-1] \o seqs[k]
    BY <1>2, <2>2
  <2> DEFINE f == [k \in 0 .. n |-> IF k = 0 THEN << >> ELSE g[k]]
  <2>5. ASSUME NEW k \in 1 .. n PROVE f[k] = f[k-1] \o seqs[k]
    <3>1. CASE k = 1
      <4>1. seqs[k] \in Seq(Char)
        BY <1>2 DEF Text
      <4>2. << >> \o seqs[k] = seqs[k]
        BY <4>1
      <4>3. f[k] = g[k] /\ f[k-1] = << >>
        BY <1>2, <3>1
      <4>4. QED
        BY <2>4, <3>1, <4>2, <4>3
    <3>2. CASE k # 1
      <4>1. k-1 \in 1 .. n /\ k-1 # 0 /\ k-1 \in 0 .. n /\ k \in 0 .. n /\ k # 0
        BY <1>2, <3>2
      <4>2. f[k] = g[k] /\ f[k-1] = g[k-1]
        BY <4>1
      <4>3. QED
        BY <2>4, <3>2, <4>2
    <3>3. QED
      BY <3>1, <3>2
  <2>6. f[0] = << >> /\ f[n] = g[n]
    BY <1>4
  <2> HIDE DEF f
  <2>7. Prefixed(f, seqs)
    BY <1>2, <2>3, <2>5, <2>6 DEF Prefixed
  <2>8. QED
    BY <2>7
<1>5. QED
  BY <1>3, <1>4

(* s begins with r. *)
Begins(s, r) == Len(r) <= Len(s) /\ \A q \in 1 .. Len(r) : s[q] = r[q]

(* What the part k adds, and where it is found in the whole. *)
Adds(f, seqs, k) ==
  /\ f[k] \in Text /\ Len(f[k]) = Len(f[k-1]) + Len(seqs[k])
  /\ Begins(f[k], f[k-1])
  /\ \A q \in 1 .. Len(seqs[k]) : f[k][Len(f[k-1]) + q] = seqs[k][q]

LEMMA PrefixStep ==
  ASSUME NEW seqs \in Seq(Text), NEW f, Prefixed(f, seqs), NEW k \in 1 .. Len(seqs),
         f[k-1] \in Text
  PROVE  Adds(f, seqs, k)
<1>1. PICK r, s, t : r = f[k-1] /\ s = seqs[k] /\ t = f[k]
  OBVIOUS
<1>2. t = r \o s
  BY <1>1 DEF Prefixed
<1>3. r \in Seq(Char) /\ s \in Seq(Char)
  BY <1>1 DEF Text
<1>4. t \in Seq(Char) /\ Len(t) = Len(r) + Len(s)
  BY <1>2, <1>3
<1>5. \A q \in 1 .. Len(r) : t[q] = r[q]
  BY <1>2, <1>3
<1>6. \A q \in 1 .. Len(s) : t[Len(r) + q] = s[q]
  BY <1>2, <1>3
<1>7. Len(r) <= Len(t)
  BY <1>3, <1>4
<1>8. QED
  BY <1>1, <1>4, <1>5, <1>6, <1>7 DEF Text, Begins, Adds

(* Every prefix is a text. *)
LEMMA PrefixType ==
  ASSUME NEW seqs \in Seq(Text), NEW f, Prefixed(f, seqs), NEW k \in 0 .. Len(seqs)
  PROVE  f[k] \in Text
<1> DEFINE T == {m \in 0 .. Len(seqs) : f[m] \notin Text}
<1>1. SUFFICES ASSUME T # {} PROVE FALSE
  OBVIOUS
<1>2. T \subseteq Nat
  OBVIOUS
<1>3. PICK m \in T : \A y \in T : m <= y
  <2> HIDE DEF T
  <2> QED BY <1>1, <1>2, LeastElement
<1>4. m # 0
  <2>1. << >> \in Text
    BY DEF Text
  <2>2. QED
    BY <1>3, <2>1 DEF Prefixed
<1>5. m \in 1 .. Len(seqs) /\ m-1 \in 0 .. Len(seqs) /\ m-1 \notin T
  BY <1>3, <1>4
<1>6. f[m-1] \in Text
  BY <1>5
<1>7. f[m] \in Text
  BY <1>5, <1>6, PrefixStep DEF Adds
<1>8. QED
  BY <1>3, <1>7

(* A prefix is the beginning of every longer one. *)
LEMMA PrefixBegins ==
  ASSUME NEW seqs \in Seq(Text), NEW f, Prefixed(f, seqs),
         NEW k \in 0 .. Len(seqs), NEW l \in k .. Len(seqs)
  PROVE  Begins(f[l], f[k])
<1> DEFINE T == {m \in k .. Len(seqs) : ~ Begins(f[m], f[k])}
<1>1. SUFFICES ASSUME T # {} PROVE FALSE
  OBVIOUS
<1>2. T \subseteq Nat
  OBVIOUS
<1>3. PICK m \in T : \A y \in T : m <= y
  <2> HIDE DEF T
  <2> QED BY <1>1, <1>2, LeastElement
<1>4. f[k] \in Text
  BY PrefixType
<1>5. m # k
  BY <1>3, <1>4 DEF Begins, Text
<1>6. /\ m \in 1 .. Len(seqs) /\ m-1 \in k .. Len(seqs) /\ m-1 \in 0 .. Len(seqs)
      /\ m-1 \notin T /\ m \in 0 .. Len(seqs)
  BY <1>3, <1>5
<1>7. PICK r, s, t : r = f[k] /\ s = f[m-1] /\ t = f[m]
  OBVIOUS
<1>8. s \in Text /\ t \in Text /\ Begins(s, r)
  BY <1>6, <1>7, PrefixType
<1>9. Begins(t, s)
  <2>1. Adds(f, seqs, m)
    BY <1>6, <1>7, <1>8, PrefixStep
  <2>2. QED
    BY <1>7, <2>1 DEF Adds
<1>10. Begins(t, r)
  <2>1. PICK x \in Nat, y \in Nat, z \in Nat : x = Len(r) /\ y = Len(s) /\ z = Len(t)
    BY <1>4, <1>7, <1>8 DEF Text
  <2>2. x <= y /\ y <= z
    BY <1>8, <1>9, <2>1 DEF Begins
  <2>3. \A q \in 1 .. x : q \in 1 .. y
    BY <2>2
  <2>4. \A q \in 1 .. x : t[q] = r[q]
    BY <1>8, <1>9, <2>1, <2>3 DEF Begins
  <2>5. x <= z
    BY <2>2
  <2>6. QED
    BY <2>1, <2>4, <2>5 DEF Begins
<1>11. QED
  BY <1>3, <1>7, <1>10

-----------------------------------------------------------------------------
(* Buffers. *)

Buffer(size) == [1 .. size -> Char \cup {NUL}]

(* The buffer b holds the text s and nothing else. *)
Holds(b, size, s) ==
  /\ b \in Buffer(size) /\ s \in Text /\ Len(s) <= size
  /\ \A k \in 1 .. size : b[k] = IF k <= Len(s) THEN s[k] ELSE NUL

(* A buffer has its size. *)
LEMMA BufferLength ==
  ASSUME NEW size \in Nat, NEW b \in Buffer(size)
  PROVE  Len(b) = size
BY FunctionIsSequence DEF Buffer

(* c is the buffer b with the n characters of s from position at on. *)
Overlaid(c, b, size, at, s, n) ==
  /\ c \in Buffer(size)
  /\ \A k \in 1 .. size : c[k] = IF k \in at + 1 .. at + n THEN s[k - at] ELSE b[k]

(* memcpy leaves a buffer, with the copied text in it. *)
LEMMA CopiedType ==
  ASSUME NEW size \in Nat, NEW b \in Buffer(size), NEW at \in Nat, NEW s \in Seq(Char \cup {NUL})
  PROVE  Overlaid(Copied(b, at, s), b, size, at, s, Len(s))
<1>1. DOMAIN b = 1 .. size /\ \A k \in 1 .. size : b[k] \in Char \cup {NUL}
  BY DEF Buffer
<1>2. ASSUME NEW k \in at + 1 .. at + Len(s) PROVE s[k - at] \in Char \cup {NUL}
  <2>1. k - at \in 1 .. Len(s)
    OBVIOUS
  <2>2. QED
    BY <2>1
<1>3. QED
  BY <1>1, <1>2 DEF Copied, Buffer, Overlaid

(* Writing behind the text a buffer holds extends that text. *)
LEMMA Extended ==
  ASSUME NEW size \in Nat, NEW b, NEW s, Holds(b, size, s), NEW u \in Text,
         Len(s) + Len(u) <= size
  PROVE  Holds(Copied(b, Len(s), u), size, s \o u)
<1>1. s \in Seq(Char) /\ u \in Seq(Char) /\ Len(s) \in Nat /\ Len(u) \in Nat /\ b \in Buffer(size)
  BY DEF Holds, Text
<1>2. u \in Seq(Char \cup {NUL})
  BY <1>1
<1>3. PICK n \in Nat, l \in Nat : n = Len(s) /\ l = Len(u)
  BY <1>1
<1>4. PICK c, t : c = Copied(b, n, u) /\ t = s \o u
  OBVIOUS
<1>5. /\ c \in Buffer(size)
      /\ \A k \in 1 .. size : c[k] = IF k \in n + 1 .. n + l THEN u[k - n] ELSE b[k]
  <2>1. Overlaid(Copied(b, n, u), b, size, n, u, Len(u))
    BY <1>1, <1>2, <1>3, CopiedType
  <2>2. Overlaid(c, b, size, n, u, l)
    BY <1>3, <1>4, <2>1
  <2>3. QED
    BY <2>2 DEF Overlaid
<1>6. t \in Seq(Char) /\ Len(t) = n + l
  BY <1>1, <1>3, <1>4
<1>7. \A k \in 1 .. n + l : t[k] = IF k <= n THEN s[k] ELSE u[k - n]
  BY <1>1, <1>3, <1>4
<1>8. ASSUME NEW k \in 1 .. size PROVE c[k] = IF k <= n + l THEN t[k] ELSE NUL
  BY <1>3, <1>5, <1>7 DEF Holds
<1>9. QED
  BY <1>3, <1>4, <1>5, <1>6, <1>8 DEF Holds, Text

(* A text ends at the first NUL. *)
LEMMA Terminated ==
  ASSUME NEW size \in Nat, NEW b \in Buffer(size), NEW s \in Text, Len(s) < size,
         \A k \in 1 .. Len(s) : b[k] = s[k], b[Len(s) + 1] = NUL
  PROVE  StrLen(b) = Len(s) /\ SubSeq(b, 1, StrLen(b)) = s
<1>1. PICK n \in Nat : n = Len(s)
  BY DEF Text
<1>2. b \in Seq(Char \cup {NUL}) /\ Len(b) = size
  BY FunctionIsSequence DEF Buffer
<1> DEFINE I == {k \in 1 .. Len(b) : b[k] = NUL}
<1>3. SelectInSeq(b, LAMBDA c : c = NUL) = IF I # {} THEN Min(I) ELSE 0
  BY DEF SelectInSeq
<1>4. n + 1 \in I
  BY <1>1, <1>2
<1>5. \A k \in I : n + 1 <= k
  <2>1. \A k \in 1 .. n : s[k] \in Char
    BY <1>1 DEF Text
  <2>2. \A k \in 1 .. n : b[k] # NUL
    BY <1>1, <2>1, PrintfAssumption
  <2>3. QED
    BY <1>1, <2>2
<1>6. I \subseteq Nat
  OBVIOUS
<1> HIDE DEF I
<1>7. Min(I) = n + 1
  <2>1. \A x \in I : (\A y \in I : x =< y) => x = n + 1
    BY <1>4, <1>5, <1>6
  <2>2. QED
    BY <1>4, <1>5, <2>1 DEF Min
<1>8. StrLen(b) = n
  BY <1>3, <1>4, <1>7 DEF StrLen
<1>9. SubSeq(b, 1, n) = s
  <2>1. SubSeq(b, 1, n) = [k \in 1 .. n |-> b[k]]
    BY <1>1, <1>2
  <2>2. s = [k \in 1 .. n |-> s[k]]
    BY <1>1 DEF Text
  <2>3. QED
    BY <1>1, <2>1, <2>2
<1>10. QED
  BY <1>1, <1>8, <1>9

-----------------------------------------------------------------------------
(* Tokens and pieces. *)

(* A token adds to the number of conversions exactly if it is one. *)
LEMMA ConversionsGrow ==
  ASSUME NEW f, NEW n \in Nat
  PROVE  /\ ConversionsIn(f, n) \in Nat /\ ConversionsIn(f, 0) = 0
         /\ ConversionsIn(f, n + 1) =
              ConversionsIn(f, n) + (IF f[n+1] \in Conversions THEN 1 ELSE 0)
<1> DEFINE C(m) == {u \in 1 .. m : f[u] \in Conversions}
<1>1. ASSUME NEW m \in Nat PROVE IsFiniteSet(C(m)) /\ Cardinality(C(m)) \in Nat
  <2>1. IsFiniteSet(1 .. m)
    BY FS_Interval
  <2>2. C(m) \in SUBSET (1 .. m)
    OBVIOUS
  <2> HIDE DEF C
  <2>3. IsFiniteSet(C(m))
    BY <2>1, <2>2, FS_Subset
  <2>4. QED
    BY <2>3, FS_CardinalityType
<1>2. C(0) = {}
  OBVIOUS
<1>3. C(n+1) = IF f[n+1] \in Conversions THEN C(n) \cup {n+1} ELSE C(n)
  OBVIOUS
<1>4. n+1 \notin C(n)
  OBVIOUS
<1>5. \A m : ConversionsIn(f, m) = Cardinality(C(m))
  BY DEF ConversionsIn
<1> HIDE DEF C
<1>6. Cardinality(C(0)) = 0
  BY <1>2, FS_EmptySet
<1>7. Cardinality(C(n) \cup {n+1}) = Cardinality(C(n)) + 1
  BY <1>1, <1>4, FS_AddElement
<1>8. QED
  BY <1>1, <1>3, <1>5, <1>6, <1>7

(* The conversions of a part of a format are no more than those of all of it. *)
LEMMA ConversionsMonotone ==
  ASSUME NEW f, NEW m \in Nat, NEW n \in Nat, m <= n
  PROVE  ConversionsIn(f, m) <= ConversionsIn(f, n)
<1> DEFINE C(x) == {u \in 1 .. x : f[u] \in Conversions}
<1>1. IsFiniteSet(1 .. n)
  BY FS_Interval
<1>2. C(n) \in SUBSET (1 .. n) /\ C(m) \in SUBSET C(n)
  OBVIOUS
<1>3. ConversionsIn(f, m) = Cardinality(C(m)) /\ ConversionsIn(f, n) = Cardinality(C(n))
  BY DEF ConversionsIn
<1> HIDE DEF C
<1>4. IsFiniteSet(C(n))
  BY <1>1, <1>2, FS_Subset
<1>5. QED
  BY <1>2, <1>3, <1>4, FS_Subset

(* The call of printf that is running. *)
Formatting == fmt \in Formats /\ args \in ArgLists

(* The token t + 1 of the format. *)
LEMMA TokenShape ==
  ASSUME Formatting, NEW t \in 1 .. Len(fmt)
  PROVE  /\ fmt \in Seq(Text) /\ fmt[t] \in Text
         /\ \/ Len(fmt[t]) = 1 /\ (fmt[t][1] = "%" => t = Len(fmt)) /\ fmt[t] \notin Conversions
            \/ Len(fmt[t]) = 2 /\ fmt[t][1] = "%"
<1>1. fmt \in Seq(Text)
  BY CallsAssumption DEF Formatting
<1>2. t \in DOMAIN fmt /\ fmt[t] \in Text
  BY <1>1
<1>3. \/ Len(fmt[t]) = 1 /\ (fmt[t][1] = "%" => t = Len(fmt))
      \/ Len(fmt[t]) = 2 /\ fmt[t][1] = "%"
  BY <1>2, CallsAssumption DEF Formatting
<1>4. \A c \in Conversions : Len(c) = 2
  <2>1. Len(<<"%", "s">>) = 2 /\ Len(<<"%", "d">>) = 2 /\ Len(<<"%", "p">>) = 2
    OBVIOUS
  <2>2. QED
    BY <2>1 DEF Conversions
<1>5. Len(fmt[t]) = 1 => fmt[t] \notin Conversions
  BY <1>4
<1>6. QED
  BY <1>1, <1>2, <1>3, <1>5

(* An argument for each conversion. *)
LEMMA ArgumentExists ==
  ASSUME Formatting, NEW t \in 1 .. Len(fmt), fmt[t] \in Conversions
  PROVE  /\ ConversionsIn(fmt, t) \in 1 .. Len(args)
         /\ args[ConversionsIn(fmt, t)] \in [str : Text, num : Nat]
<1>1. fmt \in Seq(Text) /\ args \in Seq([str : Text, num : Nat])
  BY CallsAssumption DEF Formatting
<1>2. ConversionsIn(fmt, Len(fmt)) <= Len(args)
  <2>1. \A f \in Formats : ConversionsIn(f, Len(f)) <= Len(args)
    BY CallsAssumption DEF Formatting
  <2>2. QED
    BY <2>1 DEF Formatting
<1>3. t \in Nat /\ Len(fmt) \in Nat /\ t <= Len(fmt) /\ t-1 \in Nat /\ (t-1)+1 = t
  BY <1>1
<1>4. ConversionsIn(fmt, t) <= ConversionsIn(fmt, Len(fmt))
  BY <1>3, ConversionsMonotone
<1>5. ConversionsIn(fmt, t) \in Nat /\ ConversionsIn(fmt, Len(fmt)) \in Nat
  BY <1>3, ConversionsGrow
<1>6. ConversionsIn(fmt, (t-1)+1) = ConversionsIn(fmt, t-1) + 1 /\ ConversionsIn(fmt, t-1) \in Nat
  BY <1>3, ConversionsGrow
<1>7. ConversionsIn(fmt, t) \in 1 .. Len(args)
  BY <1>1, <1>2, <1>3, <1>4, <1>5, <1>6
<1>8. PICK k \in 1 .. Len(args) : k = ConversionsIn(fmt, t)
  BY <1>7
<1>9. args[k] \in [str : Text, num : Nat]
  <2>1. PICK R : R = [str : Text, num : Nat]
    OBVIOUS
  <2>2. args \in Seq(R)
    BY <1>1, <2>1
  <2>3. args[k] \in R
    BY <2>2, <1>8
  <2>4. QED
    BY <2>1, <2>3
<1>10. QED
  BY <1>7, <1>8, <1>9

(* What a token is replaced by. *)
LEMMA PieceIs ==
  ASSUME Formatting, NEW t \in 1 .. Len(fmt)
  PROVE  /\ Piece(t) \in Text
         /\ fmt[t] = <<"%", "s">> => Piece(t) = args[ConversionsIn(fmt, t)].str
         /\ fmt[t] = <<"%", "d">> => Piece(t) = Numeral(args[ConversionsIn(fmt, t)].num, 10)
         /\ fmt[t] = <<"%", "p">> => Piece(t) = Numeral(args[ConversionsIn(fmt, t)].num, 16)
         /\ fmt[t] \notin Conversions /\ fmt[t][1] = "%" => Piece(t) = << >>
         /\ fmt[t][1] # "%" => Piece(t) = fmt[t] /\ fmt[t] \notin Conversions
<1> DEFINE a == args[ConversionsIn(fmt, t)]
<1>1. << >> \in Text /\ fmt[t] \in Text
  BY TokenShape DEF Text
<1>2. fmt[t] \in Conversions => a.str \in Text /\ a.num \in Nat
  BY ArgumentExists
<1>3. \A c \in Conversions : c[1] = "%"
  BY DEF Conversions
<1>4. <<"%", "s">> # <<"%", "d">> /\ <<"%", "s">> # <<"%", "p">> /\ <<"%", "d">> # <<"%", "p">>
  OBVIOUS
<1>5. CASE fmt[t] = <<"%", "s">>
  <2>1. fmt[t] \in Conversions /\ fmt[t][1] = "%"
    BY <1>3, <1>5 DEF Conversions
  <2>2. Piece(t) = a.str
    BY <1>5, <1>4, <2>1 DEF Piece
  <2>3. QED
    BY <1>2, <1>4, <1>5, <2>1, <2>2
<1>6. CASE fmt[t] = <<"%", "d">>
  <2>1. fmt[t] \in Conversions /\ fmt[t][1] = "%"
    BY <1>3, <1>6 DEF Conversions
  <2>2. Piece(t) = Numeral(a.num, 10)
    BY <1>6, <1>4, <2>1 DEF Piece
  <2>3. Numeral(a.num, 10) \in Text
    <3>1. PICK num \in Nat : num = a.num
      BY <1>2, <2>1
    <3>2. Numeral(num, 10) \in Text
      BY NumeralIs
    <3>3. QED
      BY <3>1, <3>2
  <2>4. QED
    BY <1>4, <1>6, <2>1, <2>2, <2>3
<1>7. CASE fmt[t] = <<"%", "p">>
  <2>1. fmt[t] \in Conversions /\ fmt[t][1] = "%"
    BY <1>3, <1>7 DEF Conversions
  <2>2. Piece(t) = Numeral(a.num, 16)
    BY <1>7, <1>4, <2>1 DEF Piece
  <2>3. Numeral(a.num, 16) \in Text
    <3>1. PICK num \in Nat : num = a.num
      BY <1>2, <2>1
    <3>2. Numeral(num, 16) \in Text
      BY NumeralIs
    <3>3. QED
      BY <3>1, <3>2
  <2>4. QED
    BY <1>4, <1>7, <2>1, <2>2, <2>3
<1>8. CASE fmt[t] \notin Conversions /\ fmt[t][1] = "%"
  <2>1. fmt[t] # <<"%", "s">> /\ fmt[t] # <<"%", "d">> /\ fmt[t] # <<"%", "p">>
    BY <1>8 DEF Conversions
  <2>2. Piece(t) = << >>
    BY <1>8, <2>1 DEF Piece
  <2>3. QED
    BY <1>1, <1>8, <2>1, <2>2
<1>9. CASE fmt[t][1] # "%"
  <2>1. fmt[t] \notin Conversions
    BY <1>3, <1>9
  <2>2. fmt[t] # <<"%", "s">> /\ fmt[t] # <<"%", "d">> /\ fmt[t] # <<"%", "p">>
    BY <2>1 DEF Conversions
  <2>3. Piece(t) = fmt[t]
    BY <1>9, <2>2 DEF Piece
  <2>4. QED
    BY <1>1, <1>9, <2>1, <2>2, <2>3
<1>10. QED
  BY <1>5, <1>6, <1>7, <1>8, <1>9 DEF Conversions

-----------------------------------------------------------------------------
(* How far a call of printf is: the characters of the first t tokens, and  *)
(* the text that is to be printed for them.                                *)

Prefixing(seqs) == CHOOSE f : Prefixed(f, seqs)

FormatTo(t) == Prefixing(fmt)[t]
ExpansionTo(t) == Prefixing(Pieces)[t]

(* The prefixes of a sequence of texts exist. *)
LEMMA PrefixesAre ==
  ASSUME NEW seqs \in Seq(Text)
  PROVE  Prefixed(Prefixing(seqs), seqs)
<1>1. \E f : Prefixed(f, seqs)
  BY FlattenDef
<1>2. QED
  BY <1>1 DEF Prefixing

(* The pieces are texts, one for each token. *)
LEMMA PiecesType ==
  ASSUME Formatting
  PROVE  Pieces \in Seq(Text) /\ Len(Pieces) = Len(fmt)
<1>1. fmt \in Seq(Text)
  BY CallsAssumption DEF Formatting
<1>2. PICK n \in Nat : n = Len(fmt) /\ DOMAIN fmt = 1 .. n
  BY <1>1
<1>3. \A t \in 1 .. n : Piece(t) \in Text
  BY <1>2, PieceIs
<1>4. Pieces \in [1 .. n -> Text]
  BY <1>2, <1>3 DEF Pieces
<1>5. QED
  BY <1>2, <1>4, FunctionIsSequence

(* The loop's index after the first t tokens is inside of the format. *)
LEMMA FormatPosition ==
  ASSUME Formatting, NEW t \in 0 .. Len(fmt)
  PROVE  /\ str \in Text /\ Len(str) < IndexRange
         /\ FormatTo(0) = << >> /\ FormatTo(Len(fmt)) = str
         /\ FormatTo(t) \in Text /\ Len(FormatTo(t)) <= Len(str)
<1> DEFINE f == Prefixing(fmt)
<1>1. fmt \in Seq(Text)
  BY CallsAssumption DEF Formatting
<1>2. Prefixed(f, fmt)
  BY <1>1, PrefixesAre
<1>3. Len(fmt) \in Nat /\ Len(fmt) \in 0 .. Len(fmt) /\ Len(fmt) \in t .. Len(fmt)
  BY <1>1
<1> HIDE DEF f
<1>4. f[0] = << >> /\ f[Len(fmt)] = str
  BY <1>2 DEF Prefixed, str
<1>5. f[t] \in Text /\ f[Len(fmt)] \in Text
  BY <1>1, <1>2, <1>3, PrefixType
<1>6. Begins(f[Len(fmt)], f[t])
  BY <1>1, <1>2, <1>3, PrefixBegins
<1>7. Len(f[t]) <= Len(str)
  BY <1>4, <1>6 DEF Begins
<1>8. Len(str) < IndexRange
  BY CallsAssumption DEF Formatting, str
<1>9. QED
  BY <1>4, <1>5, <1>7, <1>8 DEF FormatTo, f

(* Where the characters of a token are. *)
LEMMA TokenPosition ==
  ASSUME Formatting, NEW t \in 1 .. Len(fmt)
  PROVE  /\ Len(FormatTo(t)) = Len(FormatTo(t-1)) + Len(fmt[t])
         /\ \A q \in 1 .. Len(fmt[t]) : str[Len(FormatTo(t-1)) + q] = fmt[t][q]
<1> DEFINE f == Prefixing(fmt)
<1>1. fmt \in Seq(Text)
  BY CallsAssumption DEF Formatting
<1>2. Prefixed(f, fmt)
  BY <1>1, PrefixesAre
<1>3. t \in 0 .. Len(fmt) /\ t-1 \in 0 .. Len(fmt) /\ Len(fmt) \in t .. Len(fmt)
  BY <1>1
<1>4. f[t-1] \in Text /\ f[t] \in Text /\ fmt[t] \in Text
  BY <1>3, FormatPosition, TokenShape DEF FormatTo
<1> HIDE DEF f
<1>5. /\ Len(f[t]) = Len(f[t-1]) + Len(fmt[t])
      /\ \A q \in 1 .. Len(fmt[t]) : f[t][Len(f[t-1]) + q] = fmt[t][q]
  <2>1. Adds(f, fmt, t)
    BY <1>1, <1>2, <1>4, PrefixStep
  <2>2. QED
    BY <2>1 DEF Adds
<1>6. Begins(str, f[t])
  <2>1. Begins(f[Len(fmt)], f[t])
    BY <1>1, <1>2, <1>3, PrefixBegins
  <2>2. QED
    BY <1>2, <2>1 DEF Prefixed, str
<1>7. ASSUME NEW q \in 1 .. Len(fmt[t]) PROVE str[Len(f[t-1]) + q] = fmt[t][q]
  <2>1. Len(f[t-1]) + q \in 1 .. Len(f[t])
    <3>1. Len(f[t-1]) \in Nat /\ Len(fmt[t]) \in Nat
      BY <1>4 DEF Text
    <3>2. PICK m \in Nat, n \in Nat, p \in Nat :
            m = Len(f[t-1]) /\ n = Len(fmt[t]) /\ p = q /\ 1 <= p /\ p <= n
      BY <3>1
    <3>3. 1 <= p /\ p <= n
      BY <3>2
    <3>4. m + p \in 1 .. m + n
      BY <3>3
    <3>5. QED
      BY <1>5, <3>2, <3>4
  <2>2. QED
    BY <1>5, <1>6, <2>1 DEF Begins
<1>8. QED
  BY <1>5, <1>7 DEF FormatTo, f

(* The text printed for the first t tokens is the beginning of the expansion. *)
LEMMA ExpansionPosition ==
  ASSUME Formatting, NEW t \in 0 .. Len(fmt)
  PROVE  /\ Expansion \in Text
         /\ ExpansionTo(0) = << >> /\ ExpansionTo(Len(fmt)) = Expansion
         /\ ExpansionTo(t) \in Text /\ Len(ExpansionTo(t)) <= Len(Expansion)
         /\ t # 0 => ExpansionTo(t) = ExpansionTo(t-1) \o Piece(t)
<1> DEFINE f == Prefixing(Pieces)
<1>1. fmt \in Seq(Text) /\ Pieces \in Seq(Text) /\ Len(Pieces) = Len(fmt)
  BY PiecesType, CallsAssumption DEF Formatting
<1>2. Prefixed(f, Pieces)
  BY <1>1, PrefixesAre
<1>3. Len(fmt) \in Nat /\ Len(fmt) \in 0 .. Len(fmt) /\ Len(fmt) \in t .. Len(fmt)
  BY <1>1
<1> HIDE DEF f
<1>4. f[0] = << >> /\ f[Len(fmt)] = Expansion
  BY <1>1, <1>2 DEF Prefixed, Expansion
<1>5. f[t] \in Text /\ f[Len(fmt)] \in Text
  BY <1>1, <1>2, <1>3, PrefixType
<1>6. Begins(f[Len(fmt)], f[t])
  BY <1>1, <1>2, <1>3, PrefixBegins
<1>7. Len(f[t]) <= Len(Expansion)
  BY <1>4, <1>6 DEF Begins
<1>8. t # 0 => f[t] = f[t-1] \o Piece(t)
  <2>1. SUFFICES ASSUME t # 0 PROVE f[t] = f[t-1] \o Piece(t)
    OBVIOUS
  <2>2. t \in 1 .. Len(Pieces) /\ t \in DOMAIN fmt
    BY <1>1, <2>1
  <2>3. Pieces[t] = Piece(t)
    BY <2>2 DEF Pieces
  <2>4. QED
    BY <1>2, <2>2, <2>3 DEF Prefixed
<1>9. QED
  BY <1>4, <1>5, <1>7, <1>8 DEF ExpansionTo, f

-----------------------------------------------------------------------------
(* The formatting of the first t tokens is done, and the percent sign of   *)
(* the next one may be read.                                               *)
AtToken(t) ==
  /\ arg = ConversionsIn(fmt, t) + 1
  /\ j = Len(ExpansionTo(t)) /\ Holds(buf, BufSz, ExpansionTo(t))
  /\ IF is_percent
       THEN t < Len(fmt) /\ fmt[t+1][1] = "%" /\ i = Len(FormatTo(t)) + 1
       ELSE i = Len(FormatTo(t))

(* The inductive invariant. *)
PrintfInv ==
  /\ args \in ArgLists
  /\ \/ base = 0 /\ fmt \in Formats /\ pc # "print_int"
     \/ base \in Bases /\ fmt = << >> /\ pc # "printf"
  /\ buf \in Buffer(BufSz) /\ temp_buf \in Buffer(TempSz)
  /\ TypeOK
  /\ pc = "printf" => \E t \in 0 .. Len(fmt) : AtToken(t)
  /\ PrintsExpansion /\ OverrunsIffTooLong

(* The index does not wrap while it is inside of a format. *)
LEMMA NextIndexIs ==
  ASSUME Formatting, i \in Nat, i < Len(str)
  PROVE  NextIndex(i) = i + 1
<1>1. str \in Text /\ Len(str) < IndexRange
  <2>1. fmt \in Seq(Text)
    BY CallsAssumption DEF Formatting
  <2>2. 0 \in 0 .. Len(fmt)
    BY <2>1
  <2>3. QED
    BY <2>2, FormatPosition
<1>2. PICK n \in Nat, r \in Nat : n = Len(str) /\ r = IndexRange
  BY <1>1, PrintfAssumption DEF Text
<1>3. i + 1 < r
  BY <1>1, <1>2
<1>4. (i + 1) % r = i + 1
  BY <1>3
<1>5. QED
  BY <1>2, <1>4 DEF NextIndex

(* The character the loop is at begins a token. *)
LEMMA AtStart ==
  ASSUME Formatting, NEW t \in 0 .. Len(fmt), AtToken(t), ~ is_percent, i < Len(str)
  PROVE  /\ t + 1 \in 1 .. Len(fmt) /\ char = fmt[t+1][1]
         /\ i + Len(fmt[t+1]) = Len(FormatTo(t+1)) /\ NextIndex(i) = i + 1
<1>1. fmt \in Seq(Text)
  BY CallsAssumption DEF Formatting
<1>2. FormatTo(t) \in Text /\ FormatTo(Len(fmt)) = str /\ i = Len(FormatTo(t))
  BY FormatPosition DEF AtToken
<1>3. i \in Nat
  BY <1>2 DEF Text
<1>4. t # Len(fmt)
  BY <1>2, <1>3
<1>5. t + 1 \in 1 .. Len(fmt) /\ (t+1) - 1 = t
  BY <1>1, <1>4
<1>6. Len(fmt[t+1]) >= 1
  BY <1>5, TokenShape
<1>7. fmt[t+1] \in Text
  BY <1>5, TokenShape
<1>8. 1 \in 1 .. Len(fmt[t+1])
  BY <1>6, <1>7 DEF Text
<1>9. /\ Len(FormatTo(t+1)) = Len(FormatTo((t+1) - 1)) + Len(fmt[t+1])
      /\ str[Len(FormatTo((t+1) - 1)) + 1] = fmt[t+1][1]
  BY <1>5, <1>8, TokenPosition
<1>10. QED
  BY <1>2, <1>3, <1>5, <1>9, NextIndexIs DEF char

(* The character the loop is at is the second one of a token. *)
LEMMA AtConversion ==
  ASSUME Formatting, NEW t \in 0 .. Len(fmt), AtToken(t), is_percent, i < Len(str)
  PROVE  /\ t + 1 \in 1 .. Len(fmt) /\ fmt[t+1] = <<"%", char>>
         /\ i + 1 = Len(FormatTo(t+1)) /\ NextIndex(i) = i + 1
<1>1. fmt \in Seq(Text)
  BY CallsAssumption DEF Formatting
<1>2. /\ FormatTo(t) \in Text /\ FormatTo(Len(fmt)) = str
      /\ i = Len(FormatTo(t)) + 1 /\ t < Len(fmt) /\ fmt[t+1][1] = "%"
  BY FormatPosition DEF AtToken
<1>3. i \in Nat /\ Len(FormatTo(t)) \in Nat
  BY <1>2 DEF Text
<1>4. t + 1 \in 1 .. Len(fmt) /\ (t+1) - 1 = t
  BY <1>1, <1>2
<1>5. /\ Len(FormatTo(t+1)) = Len(FormatTo((t+1) - 1)) + Len(fmt[t+1])
      /\ \A q \in 1 .. Len(fmt[t+1]) : str[Len(FormatTo((t+1) - 1)) + q] = fmt[t+1][q]
  BY <1>4, TokenPosition
<1>6. Len(fmt[t+1]) = 2
  <2>1. SUFFICES ASSUME Len(fmt[t+1]) = 1 PROVE FALSE
    BY <1>4, TokenShape
  <2>2. t + 1 = Len(fmt)
    <3>1. PICK m : m = t + 1
      OBVIOUS
    <3>2. m \in 1 .. Len(fmt)
      BY <1>4, <3>1
    <3>3. \/ Len(fmt[m]) = 1 /\ (fmt[m][1] = "%" => m = Len(fmt)) /\ fmt[m] \notin Conversions
          \/ Len(fmt[m]) = 2 /\ fmt[m][1] = "%"
      BY <3>2, TokenShape
    <3>4. QED
      BY <1>2, <2>1, <3>1, <3>3
  <2>3. Len(str) = Len(FormatTo(t)) + 1
    BY <1>2, <1>4, <1>5, <2>1, <2>2
  <2>4. QED
    BY <1>2, <1>3, <2>3
<1>7. str[i + 1] = fmt[t+1][2]
  <2>1. str[Len(FormatTo(t)) + 2] = fmt[t+1][2]
    BY <1>4, <1>5, <1>6
  <2>2. Len(FormatTo(t)) + 2 = i + 1
    BY <1>2, <1>3
  <2>3. QED
    BY <2>1, <2>2
<1>8. fmt[t+1] = <<"%", char>>
  <2>1. PICK s : s = fmt[t+1]
    OBVIOUS
  <2>2. s \in Seq(Char) /\ Len(s) = 2 /\ s[1] = "%" /\ s[2] = char
    BY <1>2, <1>4, <1>6, <1>7, <2>1, TokenShape DEF char, Text
  <2>3. s = <<s[1], s[2]>>
    BY <2>2
  <2>4. QED
    BY <2>1, <2>2, <2>3
<1>9. i + 1 = Len(FormatTo(t+1))
  BY <1>2, <1>3, <1>4, <1>5, <1>6
<1>10. QED
  BY <1>3, <1>4, <1>8, <1>9, NextIndexIs

(* The text of a token is added to the buffer. *)
LEMMA Added ==
  ASSUME Formatting, NEW t \in 0 .. Len(fmt), t + 1 \in 1 .. Len(fmt), pc = "printf",
         j = Len(ExpansionTo(t)), Holds(buf, BufSz, ExpansionTo(t)), AddToBuf(Piece(t+1))
  PROVE  \/ pc' = "overrun" /\ UNCHANGED <<buf, j>> /\ Len(Expansion) >= BufSz
         \/ pc' = "printf" /\ j' = Len(ExpansionTo(t+1)) /\ Holds(buf', BufSz, ExpansionTo(t+1))
<1> DEFINE s == ExpansionTo(t)
           u == Piece(t+1)
           e == ExpansionTo(t+1)
<1>1. fmt \in Seq(Text)
  BY CallsAssumption DEF Formatting
<1>2. t + 1 \in 0 .. Len(fmt) /\ t + 1 # 0 /\ (t+1) - 1 = t
  BY <1>1
<1>3. /\ Expansion \in Text /\ e \in Text /\ Len(e) <= Len(Expansion)
      /\ e = ExpansionTo((t+1) - 1) \o Piece(t+1)
  BY <1>2, ExpansionPosition
<1>4. s \in Text /\ u \in Text /\ e = s \o u
  BY <1>2, <1>3, ExpansionPosition, PieceIs
<1>5. Len(e) = Len(s) + Len(u) /\ Len(s) \in Nat /\ Len(u) \in Nat /\ Len(Expansion) \in Nat
  BY <1>3, <1>4 DEF Text
<1>6. j = Len(s) /\ BufSz \in Nat /\ IndexRange \in Nat /\ BufSz < IndexRange
  BY PrintfAssumption
<1> HIDE DEF s, u, e
<1>7. Holds(buf, BufSz, s)
  BY DEF s
<1>8. AddToBuf(u)
  BY DEF u
<1>9. CASE j + Len(u) > BufSz
  <2>1. pc' = "overrun" /\ UNCHANGED <<buf, j>>
    BY <1>8, <1>9 DEF AddToBuf, Overrun
  <2>2. Len(Expansion) >= BufSz
    BY <1>3, <1>5, <1>6, <1>9
  <2>3. QED
    BY <2>1, <2>2
<1>10. CASE ~ (j + Len(u) > BufSz)
  <2>1. buf' = Copied(buf, j, u) /\ j' = (j + Len(u)) % IndexRange /\ pc' = "printf"
    BY <1>8, <1>10 DEF AddToBuf
  <2>2. PICK m \in Nat, r \in Nat : m = j + Len(u) /\ r = IndexRange /\ m < r
    BY <1>5, <1>6, <1>10
  <2>3. m % r = m
    BY <2>2
  <2>4. j' = Len(e)
    BY <1>5, <1>6, <2>1, <2>2, <2>3
  <2>5. Holds(Copied(buf, Len(s), u), BufSz, s \o u)
    BY <1>4, <1>5, <1>6, <1>7, <1>10, Extended
  <2>6. Holds(buf', BufSz, e)
    BY <1>4, <1>6, <2>1, <2>5
  <2>7. QED
    BY <2>1, <2>4, <2>6 DEF e
<1>11. QED
  BY <1>9, <1>10

-----------------------------------------------------------------------------
(* What a step of the loop has to establish. *)

(* What is to be printed does not change during a call. *)
LEMMA CallIsKept ==
  ASSUME UNCHANGED <<fmt, args, base>>
  PROVE  Expected' = Expected /\ Expansion' = Expansion /\ str' = str
<1>1. Pieces' = Pieces
  BY DEF Pieces, Piece
<1>2. Expansion' = Expansion
  BY <1>1 DEF Expansion
<1>3. str' = str
  BY DEF str
<1>4. Expected' = Expected
  BY <1>2 DEF Expected
<1>5. QED
  BY <1>2, <1>3, <1>4

(* Nor does how far the call is after t tokens. *)
LEMMA TokenIsKept ==
  ASSUME UNCHANGED <<fmt, args, base>>, NEW t
  PROVE  FormatTo(t)' = FormatTo(t) /\ ExpansionTo(t)' = ExpansionTo(t)
<1>1. Pieces' = Pieces
  BY DEF Pieces, Piece
<1>2. QED
  BY <1>1 DEF FormatTo, ExpansionTo

(* AtToken(t)', in terms of the call. *)
Reaches(t) ==
  /\ arg' = ConversionsIn(fmt, t) + 1
  /\ j' = Len(ExpansionTo(t)) /\ Holds(buf', BufSz, ExpansionTo(t))
  /\ IF is_percent'
       THEN t < Len(fmt) /\ fmt[t+1][1] = "%" /\ i' = Len(FormatTo(t)) + 1
       ELSE i' = Len(FormatTo(t))

(* A step that is done with t tokens keeps the invariant. *)
LEMMA Reached ==
  ASSUME PrintfInv, Formatting, base = 0, UNCHANGED <<fmt, args, base>>, pc' = "printf",
         temp_buf' \in Buffer(TempSz), is_percent' \in BOOLEAN,
         NEW t \in 0 .. Len(fmt), Reaches(t)
  PROVE  PrintfInv'
<1>1. fmt \in Seq(Text)
  BY CallsAssumption DEF Formatting
<1>2. AtToken(t)'
  BY TokenIsKept DEF AtToken, Reaches
<1>3. /\ ExpansionTo(t) \in Text /\ FormatTo(t) \in Text
      /\ Len(FormatTo(t)) <= Len(str) /\ str \in Text
  BY FormatPosition, ExpansionPosition
<1>4. i' \in 0 .. Len(str)
  <2>1. CASE is_percent'
    <3>1. t + 1 \in 1 .. Len(fmt) /\ t + 1 \in 0 .. Len(fmt) /\ (t+1) - 1 = t
      BY <1>1, <2>1 DEF Reaches
    <3>2. PICK m : m = t + 1
      OBVIOUS
    <3>3. Len(FormatTo(m)) = Len(FormatTo(m-1)) + Len(fmt[m]) /\ m - 1 = t
      BY <3>1, <3>2, TokenPosition
    <3>4. Len(fmt[m]) >= 1
      BY <3>1, <3>2, TokenShape
    <3>5. Len(FormatTo(m)) <= Len(str) /\ fmt[m] \in Text
      BY <3>1, <3>2, FormatPosition, TokenShape
    <3>6. Len(FormatTo(t)) \in Nat /\ Len(fmt[m]) \in Nat /\ Len(str) \in Nat
      BY <1>3, <3>5 DEF Text
    <3>7. Len(FormatTo(t)) + 1 <= Len(str)
      <4>1. PICK x \in Nat, y \in Nat, z \in Nat :
              x = Len(FormatTo(t)) /\ y = Len(fmt[m]) /\ z = Len(str)
        BY <3>6
      <4>2. Len(FormatTo(m)) = x + y
        BY <3>3, <4>1
      <4>3. x + y <= z /\ y >= 1
        BY <3>4, <3>5, <4>1, <4>2
      <4>4. x + 1 <= z
        BY <4>3
      <4>5. QED
        BY <4>1, <4>4
    <3>8. i' = Len(FormatTo(t)) + 1
      BY <2>1 DEF Reaches
    <3>9. QED
      BY <3>6, <3>7, <3>8
  <2>2. CASE ~ is_percent'
    BY <1>3, <2>2 DEF Reaches, Text
  <2>3. QED
    BY <2>1, <2>2
<1>5. /\ buf' \in Buffer(BufSz) /\ Len(buf') = BufSz /\ j' \in 0 .. BufSz
      /\ \A k \in j' + 1 .. BufSz : buf'[k] = NUL
  <2>1. PICK s : s = ExpansionTo(t)
    OBVIOUS
  <2>2. Holds(buf', BufSz, s) /\ j' = Len(s)
    BY <2>1 DEF Reaches
  <2>3. BufSz \in Nat
    BY PrintfAssumption
  <2>4. /\ buf' \in Buffer(BufSz) /\ Len(s) \in Nat /\ Len(s) <= BufSz
        /\ \A k \in 1 .. BufSz : buf'[k] = IF k <= Len(s) THEN s[k] ELSE NUL
    BY <2>2 DEF Holds, Text
  <2>5. Len(buf') = BufSz
    BY <2>3, <2>4, BufferLength
  <2>6. \A k \in j' + 1 .. BufSz : k \in 1 .. BufSz /\ ~ (k <= Len(s))
    BY <2>2, <2>3, <2>4
  <2>7. \A k \in j' + 1 .. BufSz : buf'[k] = NUL
    BY <2>4, <2>6
  <2>8. QED
    BY <2>2, <2>3, <2>4, <2>5, <2>7
<1>6. arg' \in 1 .. Len(args) + 1
  <2> t \in Nat /\ Len(fmt) \in Nat /\ t <= Len(fmt)
    BY <1>1
  <2>1. ConversionsIn(fmt, t) <= ConversionsIn(fmt, Len(fmt))
    BY ConversionsMonotone
  <2>2. ConversionsIn(fmt, t) \in Nat /\ ConversionsIn(fmt, Len(fmt)) \in Nat
    BY ConversionsGrow
  <2>3. \A f \in Formats : ConversionsIn(f, Len(f)) <= Len(args)
    BY CallsAssumption DEF Formatting
  <2>4. ConversionsIn(fmt, Len(fmt)) <= Len(args) /\ Len(args) \in Nat
    BY <2>3, CallsAssumption DEF Formatting
  <2>5. QED
    BY <2>1, <2>2, <2>4 DEF Reaches
<1>7. Len(temp_buf') = TempSz
  BY BufferLength, PrintfAssumption
<1>8. TypeOK'
  BY <1>4, <1>5, <1>6, <1>7, CallIsKept DEF TypeOK
<1>9. PrintsExpansion' /\ OverrunsIffTooLong'
  BY DEF PrintsExpansion, OverrunsIffTooLong
<1>10. t \in 0 .. Len(fmt')
  OBVIOUS
<1>11. (pc = "printf" => \E m \in 0 .. Len(fmt) : AtToken(m))'
  BY <1>2, <1>10
<1>12. QED
  BY <1>5, <1>8, <1>9, <1>11 DEF PrintfInv, Formatting

(* A step that overruns a buffer with a text that is too long for it keeps it, too. *)
LEMMA Overran ==
  ASSUME PrintfInv, Formatting, base = 0, UNCHANGED <<fmt, args, base>>, pc' = "overrun",
         UNCHANGED <<buf, j>>, temp_buf' \in Buffer(TempSz), is_percent' \in BOOLEAN,
         i' \in 0 .. Len(str), arg' \in 1 .. Len(args) + 1, Len(Expansion) >= BufSz
  PROVE  PrintfInv'
<1>1. Len(temp_buf') = TempSz
  BY BufferLength, PrintfAssumption
<1>2. TypeOK'
  BY <1>1, CallIsKept DEF TypeOK, PrintfInv
<1>3. Len(Expected') >= BufSz
  BY CallIsKept DEF Expected
<1>4. OverrunsIffTooLong' /\ PrintsExpansion'
  BY <1>3 DEF OverrunsIffTooLong, PrintsExpansion
<1>5. QED
  BY <1>2, <1>4 DEF PrintfInv, Formatting

-----------------------------------------------------------------------------
(* A sequence with one element after it. *)
LEMMA OneAppended ==
  ASSUME NEW S, NEW s \in Seq(S), NEW e \in Seq(S), Len(e) = 1
  PROVE  /\ Len(s \o e) = Len(s) + Len(e) /\ \A q \in 1 .. Len(s) : (s \o e)[q] = s[q]
         /\ (s \o e)[Len(s) + 1] = e[1]
<1>1. PICK n \in Nat : n = Len(s)
  OBVIOUS
<1>2. /\ Len(s \o e) = n + 1
      /\ \A q \in 1 .. n + 1 : (s \o e)[q] = IF q <= n THEN s[q] ELSE e[q - n]
  <2>1. /\ Len(s \o e) = Len(s) + Len(e)
        /\ \A q \in 1 .. Len(s) + Len(e) :
             (s \o e)[q] = IF q <= Len(s) THEN s[q] ELSE e[q - Len(s)]
    BY ConcatProperties
  <2>2. QED
    BY <1>1, <2>1
<1>3. ~ (n + 1 <= n) /\ n + 1 \in 1 .. n + 1 /\ (n + 1) - n = 1
  OBVIOUS
<1>4. (s \o e)[n + 1] = e[1]
  BY <1>2, <1>3
<1>5. ASSUME NEW q \in 1 .. n PROVE (s \o e)[q] = s[q]
  <2>1. q \in 1 .. n + 1 /\ q <= n
    OBVIOUS
  <2>2. QED
    BY <1>2, <2>1
<1>6. QED
  BY <1>1, <1>2, <1>4, <1>5

(* d is the text s with a NUL after it. *)
EndsText(d, s) ==
  /\ s \in Text /\ d \in Seq(Char \cup {NUL}) /\ Len(d) = Len(s) + 1
  /\ \A q \in 1 .. Len(s) : d[q] = s[q]
  /\ d[Len(s) + 1] = NUL

(* What itoa writes. *)
LEMMA ItoaWrites ==
  ASSUME NEW num \in Nat, NEW b \in 2 .. 16
  PROVE  EndsText(Itoa(num, b), Numeral(num, b))
<1> DEFINE d == Itoa(num, b)
           s == Numeral(num, b)
<1>1. s \in Seq(Char) /\ d = s \o <<NUL>>
  BY NumeralIs DEF Text
<1> HIDE DEF d, s
<1>2. PICK C : C = Char \cup {NUL}
  OBVIOUS
<1>3. s \in Seq(C) /\ <<NUL>> \in Seq(C)
  BY <1>1, <1>2
<1>4. Len(<<NUL>>) = 1 /\ <<NUL>>[1] = NUL
  OBVIOUS
<1>5. PICK e : e = <<NUL>>
  OBVIOUS
<1>6. e \in Seq(C) /\ Len(e) = 1 /\ e[1] = NUL /\ d = s \o e
  BY <1>1, <1>3, <1>4, <1>5
<1>7. d \in Seq(C)
  BY <1>3, <1>6
<1>8. /\ Len(s \o e) = Len(s) + Len(e) /\ \A q \in 1 .. Len(s) : (s \o e)[q] = s[q]
      /\ (s \o e)[Len(s) + 1] = e[1]
  <2>1. s \in Seq(C) /\ e \in Seq(C) /\ Len(e) = 1
    BY <1>3, <1>6
  <2>2. QED
    BY <2>1, OneAppended
<1>9. EndsText(d, s)
  BY <1>1, <1>2, <1>6, <1>7, <1>8 DEF EndsText, Text
<1>10. QED
  BY <1>9 DEF d, s

(* There is a digit for each base up to 16. *)
LEMMA SixteenDigits == Len(Digit) = 16
BY DEF Digit

(* A buffer of zeros holds the empty text. *)
LEMMA ZeroedIs ==
  ASSUME NEW size \in Nat
  PROVE  Holds(Zeroed(size), size, << >>)
<1>1. << >> \in Text /\ Len(<< >>) = 0
  BY DEF Text
<1>2. QED
  BY <1>1 DEF Holds, Zeroed, Buffer

(* A call begins with the invariant. *)
LEMMA PrintfInit == Init => PrintfInv
<1>1. SUFFICES ASSUME Init PROVE PrintfInv
  OBVIOUS
<1>2. BufSz \in Nat /\ TempSz \in Nat
  BY PrintfAssumption
<1>3. /\ buf \in Buffer(BufSz) /\ temp_buf \in Buffer(TempSz)
      /\ Holds(buf, BufSz, << >>) /\ \A k \in 1 .. BufSz : buf[k] = NUL
  BY <1>1, <1>2, ZeroedIs DEF Init, Holds, Zeroed
<1>4. Len(buf) = BufSz /\ Len(temp_buf) = TempSz
  BY <1>2, <1>3, BufferLength
<1>5. args \in ArgLists /\ Len(args) \in Nat
  BY <1>1, CallsAssumption DEF Init
<1>6. str \in Seq(Char)
  <2>1. CASE fmt \in Formats
    <3>1. Formatting /\ fmt \in Seq(Text)
      BY <1>5, <2>1, CallsAssumption DEF Formatting
    <3>2. 0 \in 0 .. Len(fmt)
      BY <3>1
    <3>3. QED
      BY <3>1, <3>2, FormatPosition DEF Text
  <2>2. CASE fmt = << >>
    BY <2>2 DEF str, FlattenSeq
  <2>3. QED
    BY <1>1, <2>1, <2>2 DEF Init
<1>7. TypeOK
  <2>1. i \in 0 .. Len(str) /\ j \in 0 .. BufSz /\ arg \in 1 .. Len(args) + 1
    BY <1>1, <1>2, <1>5, <1>6 DEF Init
  <2>2. \A k \in j + 1 .. BufSz : buf[k] = NUL
    BY <1>1, <1>2, <1>3 DEF Init
  <2>3. is_percent \in BOOLEAN /\ pc \in {"printf", "print_int", "returned", "overrun"}
    BY <1>1 DEF Init
  <2>4. QED
    BY <1>4, <2>1, <2>2, <2>3 DEF TypeOK
<1>8. pc = "printf" => \E t \in 0 .. Len(fmt) : AtToken(t)
  <2>1. SUFFICES ASSUME pc = "printf" PROVE \E t \in 0 .. Len(fmt) : AtToken(t)
    OBVIOUS
  <2>2. Formatting /\ fmt \in Seq(Text)
    BY <1>1, <1>5, <2>1, CallsAssumption DEF Init, Formatting
  <2>3. 0 \in 0 .. Len(fmt)
    BY <2>2
  <2>4. FormatTo(0) = << >> /\ ExpansionTo(0) = << >> /\ Len(<< >>) = 0
    BY <2>2, <2>3, FormatPosition, ExpansionPosition
  <2>5. ConversionsIn(fmt, 0) = 0
    BY ConversionsGrow
  <2>6. AtToken(0)
    BY <1>1, <1>3, <2>4, <2>5 DEF Init, AtToken
  <2>7. QED
    BY <2>3, <2>6
<1>9. PrintsExpansion /\ OverrunsIffTooLong
  BY <1>1 DEF Init, PrintsExpansion, OverrunsIffTooLong
<1>10. QED
  BY <1>1, <1>3, <1>7, <1>8, <1>9 DEF Init, PrintfInv

-----------------------------------------------------------------------------
(* The steps of the loop. *)

(* What the invariant says of a running printf. *)
LEMMA InLoopAt ==
  ASSUME PrintfInv, pc = "printf"
  PROVE  /\ Formatting /\ base = 0 /\ temp_buf \in Buffer(TempSz)
         /\ fmt \in Seq(Text) /\ i \in Nat /\ is_percent \in BOOLEAN
         /\ \E t \in 0 .. Len(fmt) : AtToken(t)
<1>1. Formatting /\ base = 0 /\ temp_buf \in Buffer(TempSz)
  BY DEF PrintfInv, Formatting
<1>2. i \in Nat /\ is_percent \in BOOLEAN
  BY DEF PrintfInv, TypeOK
<1>3. fmt \in Seq(Text)
  BY <1>1, CallsAssumption DEF Formatting
<1>4. QED
  BY <1>1, <1>2, <1>3 DEF PrintfInv

(* A step that adds the text of a token to the buffer and goes to the next. *)
LEMMA TokenAdded ==
  ASSUME PrintfInv, pc = "printf", i < Len(str), NEW t \in 0 .. Len(fmt), AtToken(t),
         UNCHANGED <<fmt, args, base>>, temp_buf' \in Buffer(TempSz),
         t + 1 \in 1 .. Len(fmt), AddToBuf(Piece(t+1)),
         is_percent' = FALSE, i' = i + 1, i + 1 = Len(FormatTo(t+1)),
         arg' = ConversionsIn(fmt, t+1) + 1, arg' \in 1 .. Len(args) + 1
  PROVE  PrintfInv'
<1>1. Formatting /\ base = 0 /\ fmt \in Seq(Text) /\ i \in Nat
  BY InLoopAt
<1>2. j = Len(ExpansionTo(t)) /\ Holds(buf, BufSz, ExpansionTo(t))
  BY DEF AtToken
<1>3. t + 1 \in 0 .. Len(fmt)
  BY <1>1
<1>4. str \in Text
  BY <1>1, FormatPosition
<1>5. i' \in 0 .. Len(str)
  BY <1>1, <1>4 DEF Text
<1>6. CASE pc' = "overrun" /\ UNCHANGED <<buf, j>> /\ Len(Expansion) >= BufSz
  BY <1>1, <1>5, <1>6, Overran
<1>7. CASE /\ pc' = "printf" /\ j' = Len(ExpansionTo(t+1))
           /\ Holds(buf', BufSz, ExpansionTo(t+1))
  <2>1. Reaches(t+1)
    BY <1>7 DEF Reaches
  <2>2. QED
    BY <1>1, <1>3, <1>7, <2>1, Reached
<1>8. QED
  BY <1>1, <1>2, <1>6, <1>7, Added

(* A character that is no percent sign is its own piece. *)
LEMMA LiteralKeeps ==
  ASSUME PrintfInv, Literal PROVE PrintfInv'
<1>1. /\ pc = "printf" /\ i < Len(str) /\ ~ is_percent /\ char # "%" /\ AddToBuf(<<char>>)
      /\ i' = NextIndex(i)
      /\ UNCHANGED <<fmt, args, base, temp_buf, is_percent, arg, printed>>
  BY DEF Literal, InLoop
<1>2. /\ Formatting /\ base = 0 /\ temp_buf \in Buffer(TempSz)
      /\ fmt \in Seq(Text) /\ i \in Nat /\ is_percent \in BOOLEAN
  BY <1>1, InLoopAt
<1>3. PICK t \in 0 .. Len(fmt) : AtToken(t)
  BY <1>1, InLoopAt
<1>4. /\ t + 1 \in 1 .. Len(fmt) /\ char = fmt[t+1][1]
      /\ i + Len(fmt[t+1]) = Len(FormatTo(t+1)) /\ NextIndex(i) = i + 1
  BY <1>1, <1>2, <1>3, AtStart
<1>5. fmt[t+1] \in Text /\ Len(fmt[t+1]) = 1
  BY <1>1, <1>2, <1>4, TokenShape
<1>6. fmt[t+1] = <<char>>
  <2>1. PICK s : s = fmt[t+1]
    OBVIOUS
  <2>2. s \in Seq(Char) /\ Len(s) = 1 /\ s[1] = char
    BY <1>4, <1>5, <2>1 DEF Text
  <2>3. s = <<s[1]>>
    BY <2>2
  <2>4. QED
    BY <2>1, <2>2, <2>3
<1>7. Piece(t+1) = <<char>> /\ fmt[t+1] \notin Conversions
  BY <1>1, <1>2, <1>4, <1>6, PieceIs
<1>8. ConversionsIn(fmt, t+1) = ConversionsIn(fmt, t)
  <2>1. t \in Nat /\ fmt[t+1] \notin Conversions
    BY <1>2, <1>7
  <2>2. ConversionsIn(fmt, t) \in Nat /\ ConversionsIn(fmt, t+1) = ConversionsIn(fmt, t) + 0
    BY <2>1, ConversionsGrow
  <2>3. QED
    BY <2>2
<1>9. arg' = ConversionsIn(fmt, t+1) + 1 /\ arg' \in 1 .. Len(args) + 1
  BY <1>1, <1>3, <1>8 DEF AtToken, PrintfInv, TypeOK
<1>10. QED
  BY <1>1, <1>2, <1>3, <1>4, <1>5, <1>7, <1>9, TokenAdded

(* A percent sign is read, and nothing is written for it yet. *)
LEMMA PercentKeeps ==
  ASSUME PrintfInv, Percent PROVE PrintfInv'
<1>1. /\ pc = "printf" /\ i < Len(str) /\ ~ is_percent /\ char = "%"
      /\ is_percent' = TRUE /\ i' = NextIndex(i)
      /\ UNCHANGED <<fmt, args, base, buf, temp_buf, j, arg, pc, printed>>
  BY DEF Percent, InLoop
<1>2. /\ Formatting /\ base = 0 /\ temp_buf \in Buffer(TempSz) /\ fmt \in Seq(Text)
  BY <1>1, InLoopAt
<1>3. PICK t \in 0 .. Len(fmt) : AtToken(t)
  BY <1>1, InLoopAt
<1>4. t + 1 \in 1 .. Len(fmt) /\ char = fmt[t+1][1] /\ NextIndex(i) = i + 1
  BY <1>1, <1>2, <1>3, AtStart
<1>5. t < Len(fmt)
  BY <1>2, <1>4
<1>6. Reaches(t)
  BY <1>1, <1>3, <1>4, <1>5 DEF AtToken, Reaches
<1>7. QED
  BY <1>1, <1>2, <1>6, Reached

(* %s writes the string of its argument. *)
LEMMA ConvertStringKeeps ==
  ASSUME PrintfInv, ConvertString PROVE PrintfInv'
<1>1. /\ pc = "printf" /\ i < Len(str) /\ is_percent /\ char = "s"
      /\ AddToBuf(args[arg].str) /\ arg' = arg + 1
      /\ is_percent' = FALSE /\ i' = NextIndex(i)
      /\ UNCHANGED <<fmt, args, base, temp_buf, printed>>
  BY DEF ConvertString, InLoop, TakeArg
<1>2. /\ Formatting /\ base = 0 /\ temp_buf \in Buffer(TempSz)
      /\ fmt \in Seq(Text) /\ i \in Nat
  BY <1>1, InLoopAt
<1>3. PICK t \in 0 .. Len(fmt) : AtToken(t)
  BY <1>1, InLoopAt
<1>4. /\ t + 1 \in 1 .. Len(fmt) /\ fmt[t+1] = <<"%", "s">>
      /\ i + 1 = Len(FormatTo(t+1)) /\ NextIndex(i) = i + 1
  BY <1>1, <1>2, <1>3, AtConversion
<1>5. fmt[t+1] \in Conversions
  BY <1>4 DEF Conversions
<1>6. /\ ConversionsIn(fmt, t+1) = ConversionsIn(fmt, t) + 1
      /\ ConversionsIn(fmt, t+1) \in 1 .. Len(args)
  <2>1. t \in Nat
    BY <1>2
  <2>2. ConversionsIn(fmt, t+1) = ConversionsIn(fmt, t) + 1
    BY <1>5, <2>1, ConversionsGrow
  <2>3. ConversionsIn(fmt, t+1) \in 1 .. Len(args)
    BY <1>2, <1>4, <1>5, ArgumentExists
  <2>4. QED
    BY <2>2, <2>3
<1>7. arg = ConversionsIn(fmt, t+1)
  BY <1>3, <1>6 DEF AtToken
<1>8. Piece(t+1) = args[arg].str
  BY <1>2, <1>4, <1>7, PieceIs
<1>9. arg' = ConversionsIn(fmt, t+1) + 1 /\ arg' \in 1 .. Len(args) + 1
  BY <1>1, <1>6, <1>7
<1>10. AddToBuf(Piece(t+1))
  BY <1>1, <1>8
<1>11. QED
  BY <1>1, <1>2, <1>3, <1>4, <1>9, <1>10, TokenAdded

(* An unknown conversion is dropped, and takes no argument. *)
LEMMA ConvertUnknownKeeps ==
  ASSUME PrintfInv, ConvertUnknown PROVE PrintfInv'
<1>1. /\ pc = "printf" /\ i < Len(str) /\ is_percent /\ char \notin {"s", "d", "p"}
      /\ is_percent' = FALSE /\ i' = NextIndex(i)
      /\ UNCHANGED <<fmt, args, base, buf, temp_buf, j, arg, pc, printed>>
  BY DEF ConvertUnknown, InLoop
<1>2. /\ Formatting /\ base = 0 /\ temp_buf \in Buffer(TempSz)
      /\ fmt \in Seq(Text) /\ i \in Nat
  BY <1>1, InLoopAt
<1>3. PICK t \in 0 .. Len(fmt) : AtToken(t)
  BY <1>1, InLoopAt
<1>4. /\ t + 1 \in 1 .. Len(fmt) /\ fmt[t+1] = <<"%", char>>
      /\ i + 1 = Len(FormatTo(t+1)) /\ NextIndex(i) = i + 1
  BY <1>1, <1>2, <1>3, AtConversion
<1>5. fmt[t+1] \notin Conversions /\ fmt[t+1][1] = "%"
  BY <1>1, <1>4 DEF Conversions
<1>6. Piece(t+1) = << >>
  BY <1>2, <1>4, <1>5, PieceIs
<1>7. ConversionsIn(fmt, t+1) = ConversionsIn(fmt, t)
  <2>1. ConversionsIn(fmt, t) \in Nat /\ ConversionsIn(fmt, t+1) = ConversionsIn(fmt, t) + 0
    BY <1>5, ConversionsGrow
  <2>2. QED
    BY <2>1
<1>8. t + 1 \in 0 .. Len(fmt) /\ t + 1 # 0 /\ (t+1) - 1 = t
  BY <1>2, <1>4
<1>9. ExpansionTo(t+1) = ExpansionTo(t)
  <2>1. ExpansionTo(t+1) = ExpansionTo(t) \o << >> /\ ExpansionTo(t) \in Text
    BY <1>2, <1>6, <1>8, ExpansionPosition
  <2>2. PICK s \in Seq(Char) : s = ExpansionTo(t)
    BY <2>1 DEF Text
  <2>3. s \o << >> = s
    OBVIOUS
  <2>4. QED
    BY <2>1, <2>2, <2>3
<1>10. Reaches(t+1)
  BY <1>1, <1>3, <1>4, <1>7, <1>9 DEF AtToken, Reaches
<1>11. QED
  BY <1>1, <1>2, <1>8, <1>10, Reached

(* %d and %p write the numeral of their argument, whatever temp_buf still holds. *)
LEMMA ConvertIntKeeps ==
  ASSUME PrintfInv, ConvertInt PROVE PrintfInv'
<1> DEFINE b == IF char = "d" THEN 10 ELSE 16
           d == Itoa(args[arg].num, b)
           s == Numeral(args[arg].num, b)
<1>1. /\ pc = "printf" /\ i < Len(str) /\ is_percent /\ char \in {"d", "p"}
      /\ arg' = arg + 1 /\ is_percent' = FALSE /\ i' = NextIndex(i)
      /\ UNCHANGED <<fmt, args, base, printed>>
      /\ IF Len(d) > TempSz
           THEN Overrun /\ UNCHANGED temp_buf
           ELSE /\ temp_buf' = Copied(temp_buf, 0, d)
                /\ AddToBuf(SubSeq(temp_buf', 1, StrLen(temp_buf')))
  BY DEF ConvertInt, InLoop, TakeArg
<1>2. /\ Formatting /\ base = 0 /\ temp_buf \in Buffer(TempSz)
      /\ fmt \in Seq(Text) /\ i \in Nat
  BY <1>1, InLoopAt
<1>3. PICK t \in 0 .. Len(fmt) : AtToken(t)
  BY <1>1, InLoopAt
<1>4. /\ t + 1 \in 1 .. Len(fmt) /\ fmt[t+1] = <<"%", char>>
      /\ i + 1 = Len(FormatTo(t+1)) /\ NextIndex(i) = i + 1
  BY <1>1, <1>2, <1>3, AtConversion
<1>5. fmt[t+1] \in Conversions
  BY <1>1, <1>4 DEF Conversions
<1>6. /\ ConversionsIn(fmt, t+1) = ConversionsIn(fmt, t) + 1
      /\ ConversionsIn(fmt, t+1) \in 1 .. Len(args)
      /\ args[ConversionsIn(fmt, t+1)] \in [str : Text, num : Nat]
  <2>1. t \in Nat
    BY <1>2
  <2>2. ConversionsIn(fmt, t+1) = ConversionsIn(fmt, t) + 1
    BY <1>5, <2>1, ConversionsGrow
  <2>3. /\ ConversionsIn(fmt, t+1) \in 1 .. Len(args)
        /\ args[ConversionsIn(fmt, t+1)] \in [str : Text, num : Nat]
    BY <1>2, <1>4, <1>5, ArgumentExists
  <2>4. QED
    BY <2>2, <2>3
<1>7. arg = ConversionsIn(fmt, t+1)
  BY <1>3, <1>6 DEF AtToken
<1>8. args[arg].num \in Nat /\ b \in {10, 16} /\ b \in 2 .. 16
  BY <1>6, <1>7
<1>9. Piece(t+1) = s
  BY <1>1, <1>2, <1>4, <1>7, PieceIs
<1>10. arg' = ConversionsIn(fmt, t+1) + 1 /\ arg' \in 1 .. Len(args) + 1
  BY <1>1, <1>6, <1>7
<1>11. Len(d) <= TempSz
  <2>1. args \in ArgLists /\ arg \in DOMAIN args
    <3>1. args \in Seq([str : Text, num : Nat])
      BY <1>2, CallsAssumption DEF Formatting
    <3>2. QED
      BY <1>2, <1>6, <1>7, <3>1 DEF Formatting
  <2>2. QED
    BY <1>8, <2>1, CallsAssumption
<1>12. /\ s \in Text /\ d \in Seq(Char \cup {NUL}) /\ Len(d) = Len(s) + 1
       /\ \A q \in 1 .. Len(s) : d[q] = s[q]
       /\ d[Len(s) + 1] = NUL
  <2>1. PICK num \in Nat, c \in 2 .. 16 : num = args[arg].num /\ c = b
    BY <1>8
  <2>2. d = Itoa(num, c) /\ s = Numeral(num, c)
    BY <2>1
  <2> HIDE DEF d, s
  <2>3. EndsText(d, s)
    BY <2>1, <2>2, ItoaWrites
  <2>4. QED
    BY <2>3 DEF EndsText
<1> HIDE DEF d, s
<1>13. PICK n \in Nat : n = Len(s)
  BY <1>12 DEF Text
<1>14. Len(d) = n + 1 /\ TempSz \in Nat /\ n < TempSz
  BY <1>11, <1>12, <1>13, PrintfAssumption
<1>15. temp_buf' = Copied(temp_buf, 0, d) /\ AddToBuf(SubSeq(temp_buf', 1, StrLen(temp_buf')))
  BY <1>1, <1>13, <1>14
<1>16. Overlaid(temp_buf', temp_buf, TempSz, 0, d, n + 1)
  <2>1. Overlaid(Copied(temp_buf, 0, d), temp_buf, TempSz, 0, d, Len(d))
    BY <1>2, <1>12, <1>14, CopiedType
  <2>2. QED
    BY <1>14, <1>15, <2>1
<1>17. temp_buf' \in Buffer(TempSz)
  BY <1>16 DEF Overlaid
<1>18. \A q \in 1 .. n + 1 : temp_buf'[q] = d[q]
  <2>1. ASSUME NEW q \in 1 .. n + 1 PROVE temp_buf'[q] = d[q]
    <3>1. q \in 1 .. TempSz /\ q \in 0 + 1 .. 0 + (n + 1) /\ q - 0 = q
      BY <1>14
    <3>2. QED
      BY <1>16, <3>1 DEF Overlaid
  <2>2. QED
    BY <2>1
<1>19. SubSeq(temp_buf', 1, StrLen(temp_buf')) = s
  <2>1. PICK tb \in Buffer(TempSz) : tb = temp_buf'
    BY <1>17
  <2>2. \A q \in 1 .. Len(s) : tb[q] = s[q]
    <3>1. ASSUME NEW q \in 1 .. n PROVE tb[q] = s[q]
      <4>1. q \in 1 .. n + 1
        OBVIOUS
      <4>2. QED
        BY <1>12, <1>13, <1>18, <2>1, <4>1
    <3>2. QED
      BY <1>13, <3>1
  <2>3. tb[Len(s) + 1] = NUL
    <3>1. n + 1 \in 1 .. n + 1
      OBVIOUS
    <3>2. QED
      BY <1>12, <1>13, <1>18, <2>1, <3>1
  <2>4. SubSeq(tb, 1, StrLen(tb)) = s
    BY <1>12, <1>13, <1>14, <2>2, <2>3, Terminated
  <2>5. QED
    BY <2>1, <2>4
<1>20. AddToBuf(Piece(t+1))
  BY <1>9, <1>15, <1>19
<1>21. is_percent' = FALSE /\ i' = i + 1 /\ UNCHANGED <<fmt, args, base>>
  BY <1>1, <1>4
<1>22. QED
  BY <1>1, <1>3, <1>4, <1>10, <1>17, <1>20, <1>21, TokenAdded

-----------------------------------------------------------------------------
(* The ends of the two calls. *)

(* At the end of the format the buffer holds the whole expansion. *)
LEMMA AtEnd ==
  ASSUME Formatting, NEW t \in 0 .. Len(fmt), AtToken(t), is_percent \in BOOLEAN, i >= Len(str)
  PROVE  ExpansionTo(t) = Expansion
<1>1. fmt \in Seq(Text)
  BY CallsAssumption DEF Formatting
<1>2. str \in Text /\ FormatTo(t) \in Text /\ FormatTo(Len(fmt)) = str
  BY FormatPosition
<1>3. ExpansionTo(Len(fmt)) = Expansion
  BY ExpansionPosition
<1>4. CASE t = Len(fmt)
  BY <1>3, <1>4
<1>5. CASE t # Len(fmt)
  <2>1. t + 1 \in 1 .. Len(fmt) /\ t + 1 \in 0 .. Len(fmt) /\ (t+1) - 1 = t /\ t + 1 # 0
    BY <1>1, <1>5
  <2>2. PICK m : m = t + 1
    OBVIOUS
  <2>3. /\ Len(FormatTo(m)) = Len(FormatTo(t)) + Len(fmt[m])
        /\ FormatTo(m) \in Text /\ Len(FormatTo(m)) <= Len(str) /\ fmt[m] \in Text
    BY <2>1, <2>2, TokenPosition, FormatPosition, TokenShape
  <2>4. \/ Len(fmt[m]) = 1 /\ (fmt[m][1] = "%" => m = Len(fmt)) /\ fmt[m] \notin Conversions
        \/ Len(fmt[m]) = 2 /\ fmt[m][1] = "%"
    BY <2>1, <2>2, TokenShape
  <2>5. PICK x \in Nat, y \in Nat, z \in Nat :
          x = Len(FormatTo(t)) /\ y = Len(fmt[m]) /\ z = Len(str)
    BY <1>2, <2>3 DEF Text
  <2>6. x + y <= z /\ y >= 1 /\ i >= z
    BY <2>3, <2>4, <2>5
  <2>7. CASE ~ is_percent
    <3>1. i = x
      BY <2>5, <2>7 DEF AtToken
    <3>2. QED
      BY <2>6, <3>1
  <2>8. CASE is_percent
    <3>1. i = x + 1 /\ fmt[m][1] = "%"
      BY <2>2, <2>5, <2>8 DEF AtToken
    <3>2. y = 1
      BY <2>4, <2>5, <2>6, <3>1
    <3>3. m = Len(fmt) /\ fmt[m] \notin Conversions
      BY <2>4, <2>5, <3>1, <3>2
    <3>4. Piece(m) = << >>
      BY <2>1, <2>2, <3>1, <3>3, PieceIs
    <3>5. ExpansionTo(m) = ExpansionTo(t) \o << >> /\ ExpansionTo(t) \in Text
      BY <2>1, <2>2, <3>4, ExpansionPosition
    <3>6. PICK s \in Seq(Char) : s = ExpansionTo(t)
      BY <3>5 DEF Text
    <3>7. s \o << >> = s
      OBVIOUS
    <3>8. QED
      BY <1>3, <3>3, <3>5, <3>6, <3>7
  <2>9. QED
    BY <2>7, <2>8
<1>6. QED
  BY <1>4, <1>5

(* printf ends the text in its buffer with a NUL and shows it. *)
LEMMA FinishKeeps ==
  ASSUME PrintfInv, Finish PROVE PrintfInv'
<1>1. /\ pc = "printf" /\ i >= Len(str)
      /\ IF j >= BufSz
           THEN Overrun /\ UNCHANGED printed
           ELSE /\ buf' = Copied(buf, j, <<NUL>>)
                /\ printed' = SubSeq(buf', 1, StrLen(buf'))
                /\ pc' = "returned" /\ UNCHANGED j
      /\ UNCHANGED <<fmt, args, base, temp_buf, i, is_percent, arg>>
  BY DEF Finish
<1>2. /\ Formatting /\ base = 0 /\ temp_buf \in Buffer(TempSz)
      /\ fmt \in Seq(Text) /\ is_percent \in BOOLEAN
  BY <1>1, InLoopAt
<1>3. PICK t \in 0 .. Len(fmt) : AtToken(t)
  BY <1>1, InLoopAt
<1>4. PICK s : s = Expansion
  OBVIOUS
<1>5. j = Len(s) /\ Holds(buf, BufSz, s)
  BY <1>1, <1>2, <1>3, <1>4, AtEnd DEF AtToken
<1>6. s \in Text /\ buf \in Buffer(BufSz) /\ BufSz \in Nat
  BY <1>5, PrintfAssumption DEF Holds
<1>7. PICK n \in Nat : n = Len(s) /\ n = j
  BY <1>5, <1>6 DEF Text
<1>8. CASE j >= BufSz
  <2>1. pc' = "overrun" /\ UNCHANGED <<buf, j>>
    BY <1>1, <1>8 DEF Overrun
  <2>2. Len(Expansion) >= BufSz
    BY <1>4, <1>7, <1>8
  <2>3. i' \in 0 .. Len(str) /\ arg' \in 1 .. Len(args) + 1
    BY <1>1 DEF PrintfInv, TypeOK
  <2>4. QED
    BY <1>1, <1>2, <2>1, <2>2, <2>3, Overran
<1>9. CASE ~ (j >= BufSz)
  <2>1. /\ buf' = Copied(buf, j, <<NUL>>) /\ printed' = SubSeq(buf', 1, StrLen(buf'))
        /\ pc' = "returned" /\ j' = j
    BY <1>1, <1>9
  <2>2. n < BufSz
    BY <1>6, <1>7, <1>9
  <2>3. PICK e : e = <<NUL>>
    OBVIOUS
  <2>4. e \in Seq(Char \cup {NUL}) /\ Len(e) = 1 /\ e[1] = NUL
    BY <2>3
  <2>5. Overlaid(buf', buf, BufSz, n, e, 1)
    <3>1. Overlaid(Copied(buf, n, e), buf, BufSz, n, e, Len(e))
      BY <1>6, <2>4, CopiedType
    <3>2. QED
      BY <1>7, <2>1, <2>3, <2>4, <3>1
  <2>6. buf' \in Buffer(BufSz) /\ Len(buf') = BufSz
    BY <1>6, <2>5, BufferLength DEF Overlaid
  <2>7. ASSUME NEW q \in 1 .. n PROVE buf'[q] = s[q]
    <3>1. q \in 1 .. BufSz /\ q \notin n + 1 .. n + 1 /\ q <= Len(s)
      BY <1>6, <1>7, <2>2
    <3>2. QED
      BY <1>5, <2>5, <3>1 DEF Overlaid, Holds
  <2>8. ASSUME NEW q \in n + 1 .. BufSz PROVE buf'[q] = NUL
    <3>1. q \in 1 .. BufSz /\ ~ (q <= Len(s))
      BY <1>6, <1>7, <2>2
    <3>2. buf[q] = NUL
      BY <1>5, <3>1 DEF Holds
    <3>3. q \in n + 1 .. n + 1 => e[q - n] = NUL
      BY <2>4
    <3>4. QED
      BY <2>5, <3>1, <3>2, <3>3 DEF Overlaid
  <2>9. SubSeq(buf', 1, StrLen(buf')) = s
    <3>1. PICK b \in Buffer(BufSz) : b = buf'
      BY <2>6
    <3>2. b[n + 1] = NUL
      BY <1>6, <2>2, <2>8, <3>1
    <3>3. SubSeq(b, 1, StrLen(b)) = s
      BY <1>6, <1>7, <2>2, <2>7, <3>1, <3>2, Terminated
    <3>4. QED
      BY <3>1, <3>3
  <2>10. Expected' = s /\ str' = str
    BY <1>1, <1>2, <1>4, CallIsKept DEF Expected
  <2>11. PrintsExpansion' /\ OverrunsIffTooLong'
    <3>1. printed' = Expected'
      BY <2>1, <2>9, <2>10
    <3>2. Len(Expected') < BufSz /\ base' = 0
      BY <1>1, <1>2, <1>7, <2>2, <2>10
    <3>3. QED
      BY <2>1, <3>1, <3>2 DEF PrintsExpansion, OverrunsIffTooLong
  <2>12. TypeOK'
    <3>1. Len(temp_buf') = TempSz /\ i' \in 0 .. Len(str') /\ j' \in 0 .. BufSz
      BY <1>1, <2>1, <2>10 DEF PrintfInv, TypeOK
    <3>2. \A q \in j' + 1 .. BufSz : buf'[q] = NUL
      BY <1>7, <2>1, <2>8
    <3>3. is_percent' \in BOOLEAN /\ arg' \in 1 .. Len(args') + 1
      BY <1>1 DEF PrintfInv, TypeOK
    <3>4. QED
      BY <2>1, <2>6, <3>1, <3>2, <3>3 DEF TypeOK
  <2>13. QED
    BY <1>1, <1>2, <2>1, <2>6, <2>11, <2>12 DEF PrintfInv, Formatting
<1>10. QED
  BY <1>8, <1>9

(* print_int shows the numeral, if it fits. *)
LEMMA PrintIntKeeps ==
  ASSUME PrintfInv, PrintInt PROVE PrintfInv'
<1> DEFINE d == Itoa(args[1].num, base)
           s == Numeral(args[1].num, base)
<1>1. /\ pc = "print_int"
      /\ IF Len(d) > StrSz
           THEN pc' = "overrun" /\ UNCHANGED printed
           ELSE pc' = "returned" /\ printed' = SubSeq(d, 1, StrLen(d))
      /\ UNCHANGED <<fmt, args, base, buf, temp_buf, i, j, is_percent, arg>>
  BY DEF PrintInt
<1>2. base \in Bases /\ fmt = << >> /\ args \in ArgLists
  BY <1>1 DEF PrintfInv
<1>3. base \in 2 .. 16 /\ base # 0
  BY <1>2, SixteenDigits, PrintfAssumption
<1>4. args[1].num \in Nat
  <2>1. PICK R : R = [str : Text, num : Nat]
    OBVIOUS
  <2>2. args \in Seq(R) /\ args # << >>
    BY <1>2, <2>1, CallsAssumption
  <2>3. args[1] \in R
    BY <2>2
  <2>4. QED
    BY <2>1, <2>3
<1>5. /\ s \in Text /\ d \in Seq(Char \cup {NUL}) /\ Len(d) = Len(s) + 1
      /\ \A q \in 1 .. Len(s) : d[q] = s[q]
      /\ d[Len(s) + 1] = NUL
  <2>1. PICK num \in Nat, c \in 2 .. 16 : num = args[1].num /\ c = base
    BY <1>3, <1>4
  <2>2. d = Itoa(num, c) /\ s = Numeral(num, c)
    BY <2>1
  <2> HIDE DEF d, s
  <2>3. EndsText(d, s)
    BY <2>1, <2>2, ItoaWrites
  <2>4. QED
    BY <2>3 DEF EndsText
<1>6. Expected' = s
  BY <1>1, <1>3, CallIsKept DEF Expected
<1> HIDE DEF d, s
<1>7. PICK n \in Nat : n = Len(s)
  BY <1>5 DEF Text
<1>8. SubSeq(d, 1, StrLen(d)) = s
  <2>1. d \in Buffer(n + 1)
    BY <1>5, <1>7 DEF Buffer
  <2>2. QED
    BY <1>5, <1>7, <2>1, Terminated
<1>9. PrintsExpansion' /\ OverrunsIffTooLong'
  <2>1. StrSz \in Nat /\ Len(d) = n + 1 /\ base' # 0
    BY <1>1, <1>3, <1>5, <1>7, PrintfAssumption
  <2>2. CASE Len(d) > StrSz
    <3>1. pc' = "overrun" /\ Len(Expected') >= StrSz
      BY <1>1, <1>6, <1>7, <2>1, <2>2
    <3>2. QED
      BY <2>1, <3>1 DEF PrintsExpansion, OverrunsIffTooLong
  <2>3. CASE ~ (Len(d) > StrSz)
    <3>1. pc' = "returned" /\ printed' = SubSeq(d, 1, StrLen(d))
      BY <1>1, <2>3
    <3>2. printed' = Expected'
      BY <1>6, <1>8, <3>1
    <3>3. n < StrSz
      BY <2>1, <2>3
    <3>4. Len(Expected') < StrSz
      BY <1>6, <1>7, <3>3
    <3>5. QED
      BY <2>1, <3>1, <3>2, <3>4 DEF PrintsExpansion, OverrunsIffTooLong
  <2>4. QED
    BY <2>2, <2>3
<1>10. pc' \in {"returned", "overrun"}
  BY <1>1
<1>11. TypeOK'
  BY <1>1, <1>10, CallIsKept DEF PrintfInv, TypeOK
<1>12. QED
  BY <1>1, <1>2, <1>9, <1>10, <1>11 DEF PrintfInv

(* Every step keeps the invariant. *)
LEMMA PrintfStep ==
  ASSUME PrintfInv, [Next]_vars PROVE PrintfInv'
<1>1. CASE Literal
  BY <1>1, LiteralKeeps
<1>2. CASE Percent
  BY <1>2, PercentKeeps
<1>3. CASE ConvertString
  BY <1>3, ConvertStringKeeps
<1>4. CASE ConvertInt
  BY <1>4, ConvertIntKeeps
<1>5. CASE ConvertUnknown
  BY <1>5, ConvertUnknownKeeps
<1>6. CASE Finish
  BY <1>6, FinishKeeps
<1>7. CASE PrintInt
  BY <1>7, PrintIntKeeps
<1>8. CASE UNCHANGED vars
  <2>1. UNCHANGED <<fmt, args, base, buf, temp_buf, i, j, is_percent, arg, pc, printed>>
    BY <1>8 DEF vars
  <2>2. TypeOK' /\ PrintsExpansion' /\ OverrunsIffTooLong'
    BY <2>1, CallIsKept DEF PrintfInv, TypeOK, PrintsExpansion, OverrunsIffTooLong
  <2>3. \A t : AtToken(t) => AtToken(t)'
    BY <2>1, TokenIsKept DEF AtToken
  <2>4. QED
    BY <2>1, <2>2, <2>3 DEF PrintfInv
<1>9. QED
  BY <1>1, <1>2, <1>3, <1>4, <1>5, <1>6, <1>7, <1>8 DEF Next

(* The inductive invariant holds throughout a call. *)
THEOREM PrintfInvariant == Spec => []PrintfInv
<1>1. PrintfInv /\ [Next]_vars => PrintfInv'
  BY PrintfStep
<1>2. QED
  BY <1>1, PrintfInit, PTL DEF Spec

(* The variables of printf have their types, and the buffer is empty from j on. *)
THEOREM PrintfTypeCorrect == Spec => []TypeOK
<1>1. PrintfInv => TypeOK
  BY DEF PrintfInv
<1>2. QED
  BY <1>1, PrintfInvariant, PTL

(* A call that returns has printed its format with every conversion replaced by *)
(* its own argument, for every format, every argument and every number.         *)
THEOREM PrintfExpands == Spec => []PrintsExpansion
<1>1. PrintfInv => PrintsExpansion
  BY DEF PrintfInv
<1>2. QED
  BY <1>1, PrintfInvariant, PTL

(* A call overruns a buffer only if its text with the NUL does not fit, and      *)
(* returns only if it does.                                                      *)
THEOREM PrintfOverruns == Spec => []OverrunsIffTooLong
<1>1. PrintfInv => OverrunsIffTooLong
  BY DEF PrintfInv
<1>2. QED
  BY <1>1, PrintfInvariant, PTL
=============================================================================
