-------------------------- MODULE FramebufferProofs -------------------------
(***************************************************************************)
(* Proofs about Framebuffer for every size of the framebuffer, its lines,  *)
(* the font and the scale.                                                 *)
(*                                                                         *)
(* The pixels of the cells have addresses of their own, so that a          *)
(* character that is drawn fills its cell and leaves the others; the fold  *)
(* over the pixels, in whatever order, is followed set by set.             *)
(***************************************************************************)
EXTENDS Framebuffer, ConsoleProofs, FiniteSetTheorems, WellFoundedInduction

-----------------------------------------------------------------------------
(* Digits in a base, by which cells and their pixels are addressed.        *)

LEMMA DigitsFit ==
  ASSUME NEW n \in Nat, NEW m \in Nat, NEW a \in 0 .. n - 1, NEW r \in 0 .. m - 1
  PROVE  a * m + r \in 0 .. n * m - 1
<1>1. a * m \in Nat /\ n * m \in Nat
  OBVIOUS
<1>2. (n - 1 - a) * m \in Nat
  OBVIOUS
<1>3. n * m = a * m + m + (n - 1 - a) * m
  OBVIOUS
<1> QED
  BY <1>1, <1>2, <1>3

LEMMA DigitsUnique ==
  ASSUME NEW m \in Nat, NEW a \in Nat, NEW b \in Nat, NEW r \in 0 .. m - 1, NEW s \in 0 .. m - 1,
         a * m + r = b * m + s
  PROVE  a = b /\ r = s
<1>1. ASSUME NEW c \in Nat, NEW d \in Nat, NEW t \in 0 .. m - 1, NEW u \in 0 .. m - 1,
             c * m + t = d * m + u, c < d
      PROVE  FALSE
  <2>1. d - c - 1 \in Nat
    BY <1>1
  <2>2. (d - c - 1) * m \in Nat /\ c * m \in Int /\ d * m \in Int
    BY <2>1
  <2>3. d * m = c * m + m + (d - c - 1) * m
    OBVIOUS
  <2> QED
    BY <1>1, <2>2, <2>3
<1>2. a = b
  BY <1>1
<1>3. a * m \in Int
  OBVIOUS
<1> QED
  BY <1>2, <1>3

LEMMA QuotientFits ==
  ASSUME NEW n \in Nat, NEW m \in Nat \ {0}
  PROVE  (n \div m) * m <= n
BY ModLaws

-----------------------------------------------------------------------------
(* The addresses of pixels.                                                *)

CellWidth == FontWidth * Scale
CellHeight == FontHeight * Scale

LEMMA Sizes ==
  /\ CellWidth \in Nat \ {0} /\ CellHeight \in Nat \ {0}
  /\ Width * CellWidth <= FbWidth /\ Height * CellHeight <= FbHeight
  /\ FontWidth \in Nat /\ FontHeight \in Nat /\ Scale \in Nat
  /\ FbWidth \in Nat /\ FbHeight \in Nat /\ Pitch \in Nat \ {0} /\ FbWidth <= Pitch
<1>1. CellWidth \in Nat \ {0} /\ CellHeight \in Nat \ {0}
  BY FramebufferAssumption DEF CellWidth, CellHeight
<1>2. Width = FbWidth \div CellWidth /\ Height = FbHeight \div CellHeight
  BY FramebufferAssumption DEF CellWidth, CellHeight
<1>3. FbWidth \in Nat /\ FbHeight \in Nat
  BY FramebufferAssumption
<1> QED
  BY <1>1, <1>2, <1>3, QuotientFits, FramebufferAssumption

(* Columns and rows of a pixel inside its cell.                            *)
InnerX(p) == p.col * Scale + p.scale_x
InnerY(p) == p.row * Scale + p.scale_y

LEMMA InnerFits ==
  ASSUME NEW p \in Pixels
  PROVE  InnerX(p) \in 0 .. CellWidth - 1 /\ InnerY(p) \in 0 .. CellHeight - 1
BY Sizes, DigitsFit DEF InnerX, InnerY, Pixels, CellWidth, CellHeight

LEMMA InnerUnique ==
  ASSUME NEW p \in Pixels, NEW q \in Pixels, InnerX(p) = InnerX(q), InnerY(p) = InnerY(q)
  PROVE  p = q
<1>1. /\ p.col \in Nat /\ q.col \in Nat /\ p.row \in Nat /\ q.row \in Nat
      /\ p.scale_x \in 0 .. Scale - 1 /\ q.scale_x \in 0 .. Scale - 1
      /\ p.scale_y \in 0 .. Scale - 1 /\ q.scale_y \in 0 .. Scale - 1
  BY DEF Pixels
<1>2. p.col = q.col /\ p.scale_x = q.scale_x
  BY <1>1, Sizes, DigitsUnique DEF InnerX
<1>3. p.row = q.row /\ p.scale_y = q.scale_y
  BY <1>1, Sizes, DigitsUnique DEF InnerY
<1> QED
  BY <1>2, <1>3 DEF Pixels

LEMMA PixelOfCell ==
  ASSUME NEW x \in Nat, NEW y \in Nat, NEW p \in Pixels
  PROVE  PixelX(x, p) = x * CellWidth + InnerX(p) /\ PixelY(y, p) = y * CellHeight + InnerY(p)
<1>1. x * FontWidth * Scale = x * CellWidth /\ y * FontHeight * Scale = y * CellHeight
  BY Sizes DEF CellWidth, CellHeight
<1>2. /\ x * CellWidth \in Nat /\ y * CellHeight \in Nat
      /\ p.col * Scale \in Nat /\ p.row * Scale \in Nat
      /\ p.scale_x \in Nat /\ p.scale_y \in Nat
  BY Sizes DEF Pixels
<1> QED
  BY <1>1, <1>2 DEF PixelX, PixelY, InnerX, InnerY

(* Every pixel of a cell is on the screen.                                 *)
LEMMA PixelsOnScreen ==
  ASSUME NEW x \in 0 .. Width - 1, NEW y \in 0 .. Height - 1, NEW p \in Pixels
  PROVE  /\ PixelX(x, p) \in 0 .. FbWidth - 1
         /\ PixelY(y, p) \in 0 .. FbHeight - 1
         /\ Address(x, y, p) \in 0 .. FbHeight * Pitch - 1
         /\ Address(x, y, p) % Pitch = PixelX(x, p)
<1>1. Width \in Nat /\ Height \in Nat /\ x \in Nat /\ y \in Nat
  BY ConsoleAssumption
<1>2. /\ x * CellWidth + InnerX(p) \in 0 .. Width * CellWidth - 1
      /\ y * CellHeight + InnerY(p) \in 0 .. Height * CellHeight - 1
  BY <1>1, Sizes, InnerFits, DigitsFit
<1>3. Width * CellWidth \in Nat /\ Height * CellHeight \in Nat
  BY <1>1, Sizes
<1>4. PixelX(x, p) \in 0 .. FbWidth - 1 /\ PixelY(y, p) \in 0 .. FbHeight - 1
  BY <1>1, <1>2, <1>3, Sizes, PixelOfCell
<1>5. PixelX(x, p) \in 0 .. Pitch - 1
  BY <1>4, Sizes
<1>6. PixelY(y, p) * Pitch + PixelX(x, p) \in 0 .. FbHeight * Pitch - 1
  BY <1>4, <1>5, Sizes, DigitsFit
<1>7. (PixelY(y, p) * Pitch + PixelX(x, p)) % Pitch = PixelX(x, p)
  BY <1>4, <1>5, Sizes, ModUnique
<1> QED
  BY <1>4, <1>6, <1>7 DEF Address

(* Two pixels of the console, of one cell or of two, share no address.     *)
LEMMA AddressUnique ==
  ASSUME NEW x \in 0 .. Width - 1, NEW y \in 0 .. Height - 1, NEW p \in Pixels,
         NEW u \in 0 .. Width - 1, NEW v \in 0 .. Height - 1, NEW q \in Pixels,
         Address(x, y, p) = Address(u, v, q)
  PROVE  x = u /\ y = v /\ p = q
<1>1. x \in Nat /\ y \in Nat /\ u \in Nat /\ v \in Nat
  BY ConsoleAssumption
<1>2. /\ PixelX(x, p) \in 0 .. Pitch - 1 /\ PixelX(u, q) \in 0 .. Pitch - 1
      /\ PixelY(y, p) \in Nat /\ PixelY(v, q) \in Nat
  BY PixelsOnScreen, Sizes
<1>3. PixelX(x, p) = PixelX(u, q) /\ PixelY(y, p) = PixelY(v, q)
  <2> DEFINE a == PixelY(y, p)
             b == PixelY(v, q)
             r == PixelX(x, p)
             t == PixelX(u, q)
  <2>1. a * Pitch + r = b * Pitch + t
    BY DEF Address
  <2>2. Pitch \in Nat /\ a \in Nat /\ b \in Nat /\ r \in 0 .. Pitch - 1 /\ t \in 0 .. Pitch - 1
    BY <1>2, Sizes
  <2> HIDE DEF a, b, r, t
  <2>3. a = b /\ r = t
    BY <2>1, <2>2, DigitsUnique
  <2> QED
    BY <2>3 DEF a, b, r, t
<1>4. x = u /\ InnerX(p) = InnerX(q)
  <2>1. x * CellWidth + InnerX(p) = u * CellWidth + InnerX(q)
    BY <1>1, <1>3, PixelOfCell
  <2>2. /\ CellWidth \in Nat
        /\ InnerX(p) \in 0 .. CellWidth - 1 /\ InnerX(q) \in 0 .. CellWidth - 1
    BY Sizes, InnerFits
  <2> QED
    BY <1>1, <2>1, <2>2, DigitsUnique
<1>5. y = v /\ InnerY(p) = InnerY(q)
  <2>1. y * CellHeight + InnerY(p) = v * CellHeight + InnerY(q)
    BY <1>1, <1>3, PixelOfCell
  <2>2. /\ CellHeight \in Nat
        /\ InnerY(p) \in 0 .. CellHeight - 1 /\ InnerY(q) \in 0 .. CellHeight - 1
    BY Sizes, InnerFits
  <2> QED
    BY <1>1, <2>1, <2>2, DigitsUnique
<1> QED
  BY <1>4, <1>5, InnerUnique

-----------------------------------------------------------------------------
(* The fold over the pixels of a cell.                                     *)

(* What the writes for the pixels in s make of f.                          *)
Painted(f, ch, x, y, s) ==
  [address \in DOMAIN f |->
     IF \E p \in s : Address(x, y, p) = address
       THEN Color(ch, CHOOSE p \in s : Address(x, y, p) = address)
       ELSE f[address]]

PaintOne(f, ch, x, y, p) == [f EXCEPT ![Address(x, y, p)] = Color(ch, p)]

(* One more pixel.                                                         *)
LEMMA PaintOneMore ==
  ASSUME NEW f, NEW ch, NEW x \in 0 .. Width - 1, NEW y \in 0 .. Height - 1,
         NEW s \in SUBSET Pixels, NEW q \in s
  PROVE  Painted(f, ch, x, y, s) = PaintOne(Painted(f, ch, x, y, s \ {q}), ch, x, y, q)
<1> DEFINE A(p) == Address(x, y, p)
           less == Painted(f, ch, x, y, s \ {q})
           on(a, t) == CHOOSE p \in t : A(p) = a
<1>1. \A p, r \in s : A(p) = A(r) => p = r
  BY AddressUnique
<1>2. DOMAIN less = DOMAIN f
  BY DEF Painted
<1>3. PaintOne(less, ch, x, y, q)
        = [a \in DOMAIN f |-> IF a = A(q) THEN Color(ch, q) ELSE less[a]]
  BY <1>2 DEF PaintOne
<1>4. ASSUME NEW a \in DOMAIN f
      PROVE  (IF \E p \in s : A(p) = a THEN Color(ch, on(a, s)) ELSE f[a])
               = IF a = A(q) THEN Color(ch, q) ELSE less[a]
  <2>1. less[a] = IF \E p \in s \ {q} : A(p) = a THEN Color(ch, on(a, s \ {q})) ELSE f[a]
    BY DEF Painted
  <2> HIDE DEF A, less
  <2>2. CASE a = A(q)
    <3>1. on(a, s) \in s /\ A(on(a, s)) = a
      BY <2>2
    <3>2. on(a, s) = q
      BY <1>1, <2>2, <3>1
    <3> HIDE DEF on
    <3> QED
      BY <2>2, <3>2
  <2>3. CASE a # A(q) /\ \E p \in s : A(p) = a
    <3>1. \E p \in s \ {q} : A(p) = a
      BY <2>3
    <3>2. on(a, s) \in s /\ A(on(a, s)) = a
      BY <2>3
    <3>3. on(a, s \ {q}) \in s \ {q} /\ A(on(a, s \ {q})) = a
      BY <3>1
    <3> HIDE DEF on
    <3>4. on(a, s) = on(a, s \ {q})
      BY <1>1, <3>2, <3>3
    <3> QED
      BY <2>1, <2>3, <3>1, <3>4
  <2>4. CASE a # A(q) /\ ~\E p \in s : A(p) = a
    BY <2>1, <2>4
  <2> QED
    BY <2>2, <2>3, <2>4
<1>5. Painted(f, ch, x, y, s)
        = [a \in DOMAIN f |-> IF \E p \in s : A(p) = a THEN Color(ch, on(a, s)) ELSE f[a]]
  BY DEF Painted
<1>6. PaintOne(Painted(f, ch, x, y, s \ {q}), ch, x, y, q)
        = [a \in DOMAIN f |-> IF a = A(q) THEN Color(ch, q) ELSE less[a]]
  BY <1>3
<1> DEFINE before(a) == IF \E p \in s : A(p) = a THEN Color(ch, on(a, s)) ELSE f[a]
           after(a) == IF a = A(q) THEN Color(ch, q) ELSE less[a]
<1>7. \A a \in DOMAIN f : before(a) = after(a)
  BY <1>4
<1>8. /\ Painted(f, ch, x, y, s) = [a \in DOMAIN f |-> before(a)]
      /\ PaintOne(Painted(f, ch, x, y, s \ {q}), ch, x, y, q) = [a \in DOMAIN f |-> after(a)]
  BY <1>5, <1>6
<1> HIDE DEF before, after
<1> QED
  BY <1>7, <1>8

Chosen(s) == CHOOSE p \in s : TRUE

(* g has, for each subset of S, what the fold over it makes of f.          *)
Folds(g, f, ch, x, y, S) ==
  g = [s \in SUBSET S |->
         IF s = {} THEN f ELSE PaintOne(g[s \ {Chosen(s)}], ch, x, y, Chosen(s))]

LEMMA FoldOfDraw ==
  ASSUME NEW f, NEW ch, NEW x \in 0 .. Width - 1, NEW y \in 0 .. Height - 1
  PROVE  DrawPixels(f, ch, x, y) = (CHOOSE g : Folds(g, f, ch, x, y, Pixels))[Pixels]
<1>1. {p \in Pixels : PixelX(x, p) < FbWidth /\ PixelY(y, p) < FbHeight} = Pixels
  BY PixelsOnScreen, Sizes
<1> QED
  BY <1>1, Zenon DEF DrawPixels, FoldSet, MapThenFoldSet, Folds, PaintOne, Chosen

LEMMA PaintedFolds ==
  ASSUME NEW f, f = [address \in DOMAIN f |-> f[address]],
         NEW ch, NEW x \in 0 .. Width - 1, NEW y \in 0 .. Height - 1
  PROVE  \E g : Folds(g, f, ch, x, y, Pixels)
<1> DEFINE g == [s \in SUBSET Pixels |-> Painted(f, ch, x, y, s)]
           next(s) == IF s = {} THEN f ELSE PaintOne(g[s \ {Chosen(s)}], ch, x, y, Chosen(s))
<1>1. ASSUME NEW s \in SUBSET Pixels
      PROVE  Painted(f, ch, x, y, s) = next(s)
  <2>1. CASE s = {}
    <3>1. Painted(f, ch, x, y, {}) = [address \in DOMAIN f |-> f[address]]
      BY DEF Painted
    <3> QED
      BY <2>1, <3>1
  <2>2. CASE s # {}
    <3>1. Chosen(s) \in s
      BY <2>2 DEF Chosen
    <3>2. g[s \ {Chosen(s)}] = Painted(f, ch, x, y, s \ {Chosen(s)})
      OBVIOUS
    <3> HIDE DEF g
    <3> QED
      BY <2>2, <3>1, <3>2, PaintOneMore
  <2> QED
    BY <2>1, <2>2
<1> HIDE DEF next
<1>2. g = [s \in SUBSET Pixels |-> next(s)]
  BY <1>1
<1> QED
  BY <1>2 DEF Folds, next

LEMMA FoldsUnique ==
  ASSUME NEW f, f = [address \in DOMAIN f |-> f[address]],
         NEW ch, NEW x \in 0 .. Width - 1, NEW y \in 0 .. Height - 1,
         NEW g, Folds(g, f, ch, x, y, Pixels), IsFiniteSet(Pixels)
  PROVE  g[Pixels] = Painted(f, ch, x, y, Pixels)
<1> DEFINE wrong == {s \in SUBSET Pixels : g[s] # Painted(f, ch, x, y, s)}
<1>1. SUFFICES ASSUME wrong # {} PROVE FALSE
  OBVIOUS
<1>2. PICK s \in wrong : \A t \in wrong : <<t, s>> \notin StrictSubsetOrdering(Pixels)
  <2>1. wrong \subseteq FiniteSubsetsOf(Pixels)
    BY FS_FiniteSubsetsOfFinite
  <2> HIDE DEF wrong
  <2> QED
    BY <1>1, <2>1, FS_StrictSubsetOrderingWellFounded, WFMin
<1>3. s \in SUBSET Pixels /\ g[s] # Painted(f, ch, x, y, s)
  OBVIOUS
<1>4. g[s] = IF s = {} THEN f ELSE PaintOne(g[s \ {Chosen(s)}], ch, x, y, Chosen(s))
  BY <1>3, Zenon DEF Folds
<1>5. CASE s = {}
  <2>1. Painted(f, ch, x, y, {}) = [address \in DOMAIN f |-> f[address]]
    BY DEF Painted
  <2> QED
    BY <1>3, <1>4, <1>5, <2>1
<1>6. CASE s # {}
  <2>1. Chosen(s) \in s
    BY <1>6 DEF Chosen
  <2> DEFINE t == s \ {Chosen(s)}
  <2>2. <<t, s>> \in StrictSubsetOrdering(Pixels)
    BY <1>3, <2>1 DEF StrictSubsetOrdering
  <2>3. t \in SUBSET Pixels /\ t \notin wrong
    BY <1>2, <1>3, <2>2
  <2>4. g[t] = Painted(f, ch, x, y, t)
    BY <2>3
  <2>5. Painted(f, ch, x, y, s) = PaintOne(Painted(f, ch, x, y, t), ch, x, y, Chosen(s))
    BY <1>3, <2>1, PaintOneMore
  <2> QED
    BY <1>3, <1>4, <1>6, <2>4, <2>5
<1> QED
  BY <1>5, <1>6

LEMMA PixelsFinite == IsFiniteSet(Pixels)
<1> DEFINE Corners == (0 .. FontHeight - 1) \X (0 .. FontWidth - 1)
           Inside == (0 .. Scale - 1) \X (0 .. Scale - 1)
           pixel == [c \in Corners \X Inside |->
                       [row |-> c[1][1], col |-> c[1][2], scale_y |-> c[2][1], scale_x |-> c[2][2]]]
<1>1. IsFiniteSet(Corners \X Inside)
  <2>1. /\ IsFiniteSet(0 .. FontHeight - 1) /\ IsFiniteSet(0 .. FontWidth - 1)
        /\ IsFiniteSet(0 .. Scale - 1)
    BY Sizes, FS_Interval
  <2>2. IsFiniteSet(Corners) /\ IsFiniteSet(Inside)
    BY <2>1, FS_Product
  <2> HIDE DEF Corners, Inside
  <2> QED
    BY <2>2, FS_Product
<1>2. \A c \in Corners \X Inside : pixel[c] \in Pixels
  BY DEF Pixels
<1>3. \A p \in Pixels : \E c \in Corners \X Inside : pixel[c] = p
  <2> SUFFICES ASSUME NEW p \in Pixels
               PROVE  \E c \in Corners \X Inside : pixel[c] = p
    OBVIOUS
  <2> DEFINE c == << <<p.row, p.col>>, <<p.scale_y, p.scale_x>> >>
  <2>1. c \in Corners \X Inside
    BY DEF Pixels
  <2>2. pixel[c] = p
    BY <2>1 DEF Pixels
  <2> QED
    BY <2>1, <2>2
<1> DEFINE S == Corners \X Inside
<1>4. pixel \in [S -> Pixels]
  BY <1>2
<1> HIDE DEF pixel, S
<1>5. pixel \in Surjection(S, Pixels)
  BY <1>3, <1>4 DEF Surjection, S
<1> QED
  BY <1>1, <1>5, FS_Surjection DEF S

IsScreen(f) == f = [address \in 0 .. FbHeight * Pitch - 1 |-> f[address]]

(* draw_char writes the pixels of its cell, each with its color, and no    *)
(* other address.                                                          *)
LEMMA DrawPaintsCell ==
  ASSUME NEW f, IsScreen(f),
         NEW ch, NEW x \in 0 .. Width - 1, NEW y \in 0 .. Height - 1,
         NEW drawn, drawn = DrawPixels(f, ch, x, y)
  PROVE  /\ IsScreen(drawn)
         /\ \A p \in Pixels : drawn[Address(x, y, p)] = Color(ch, p)
         /\ \A a \in DOMAIN f : (\A p \in Pixels : Address(x, y, p) # a) => drawn[a] = f[a]
<1> DEFINE N == FbHeight * Pitch - 1
<1>0. f = [address \in 0 .. N |-> f[address]] /\ DOMAIN f = 0 .. N
  BY DEF IsScreen
<1>1. drawn = Painted(f, ch, x, y, Pixels)
  <2> DEFINE g == CHOOSE h : Folds(h, f, ch, x, y, Pixels)
  <2>1. Folds(g, f, ch, x, y, Pixels)
    BY <1>0, PaintedFolds
  <2>2. drawn = g[Pixels]
    BY FoldOfDraw
  <2> HIDE DEF g
  <2> QED
    BY <1>0, <2>1, <2>2, FoldsUnique, PixelsFinite
<1>2. IsScreen(drawn)
  BY <1>0, <1>1 DEF Painted, IsScreen
<1>3. ASSUME NEW p \in Pixels PROVE drawn[Address(x, y, p)] = Color(ch, p)
  <2> DEFINE a == Address(x, y, p)
             q == CHOOSE r \in Pixels : Address(x, y, r) = a
  <2>1. a \in DOMAIN f
    BY <1>0, PixelsOnScreen
  <2>2. q \in Pixels /\ Address(x, y, q) = a
    OBVIOUS
  <2>3. q = p
    <3> HIDE DEF q
    <3> QED
      BY <2>2, AddressUnique
  <2>4. drawn[a] = Color(ch, q)
    BY <1>1, <2>1 DEF Painted
  <2> HIDE DEF q
  <2> QED
    BY <2>3, <2>4
<1>4. ASSUME NEW a \in DOMAIN f, \A p \in Pixels : Address(x, y, p) # a
      PROVE  drawn[a] = f[a]
  BY <1>1, <1>4 DEF Painted
<1> QED
  BY <1>2, <1>3, <1>4

-----------------------------------------------------------------------------
(* The screen.                                                             *)

Padded(f) == \A address \in DOMAIN f : address % Pitch >= FbWidth => f[address] = "residue"

Shows(f, cell) ==
  \A c \in Cells, p \in Pixels :
    f[Address(c[1], c[2], p)] = IF cell[c] = Residue THEN "residue" ELSE Color(cell[c], p)

(* The pixels are those of the cells, and the padding is what it was.      *)
FramebufferInv ==
  /\ TypeOK
  /\ IsScreen(fb) /\ Padded(fb)
  /\ Shows(fb, console.cell)

LEMMA CellOnConsole ==
  ASSUME NEW c \in Cells
  PROVE  c[1] \in 0 .. Width - 1 /\ c[2] \in 0 .. Height - 1 /\ c = <<c[1], c[2]>>
BY DEF Cells

LEMMA ClearShows ==
  ASSUME NEW f, IsScreen(f), Padded(f)
  PROVE  /\ IsScreen(ClearPixels(f)) /\ Padded(ClearPixels(f))
         /\ Shows(ClearPixels(f), Cleared.cell)
<1> DEFINE g == ClearPixels(f)
<1>1. DOMAIN f = 0 .. FbHeight * Pitch - 1
  BY DEF IsScreen
<1>2. g = [address \in DOMAIN f |-> IF address % Pitch < FbWidth THEN "paper" ELSE f[address]]
  BY DEF ClearPixels
<1> HIDE DEF g
<1>3. IsScreen(g)
  BY <1>1, <1>2 DEF IsScreen
<1>4. Padded(g)
  <2>1. \A address \in DOMAIN f : address % Pitch \in Int
    BY <1>1, Sizes
  <2> QED
    BY <1>2, <2>1, Sizes DEF Padded
<1>5. ASSUME NEW c \in Cells, NEW p \in Pixels
      PROVE  g[Address(c[1], c[2], p)] = Color(BLANK, p)
  <2> DEFINE a == Address(c[1], c[2], p)
  <2>1. a \in DOMAIN f /\ a % Pitch = PixelX(c[1], p) /\ PixelX(c[1], p) < FbWidth
    <3>1. PixelX(c[1], p) < FbWidth
      BY CellOnConsole, PixelsOnScreen, Sizes
    <3> QED
      BY <1>1, <3>1, CellOnConsole, PixelsOnScreen
  <2> HIDE DEF a
  <2>2. g[a] = "paper"
    BY <1>2, <2>1
  <2>3. GlyphRow[BLANK][p.row] = {}
    BY FramebufferAssumption DEF Pixels
  <2>4. Color(BLANK, p) = "paper"
    BY <2>3 DEF Color
  <2> QED
    BY <2>2, <2>4 DEF a
<1>6. BLANK # Residue /\ \A c \in Cells : Cleared.cell[c] = BLANK
  BY FramebufferAssumption DEF Printable, Cleared
<1>7. Shows(g, Cleared.cell)
  BY <1>5, <1>6 DEF Shows
<1> QED
  BY <1>3, <1>4, <1>7 DEF g

LEMMA DrawShows ==
  ASSUME NEW f, IsScreen(f), Padded(f), NEW con \in ConsoleState, Shows(f, con.cell),
         NEW ch \in Printable
  PROVE  LET drawn == DrawPixels(f, ch, con.cursor_x, con.cursor_y)
         IN  IsScreen(drawn) /\ Padded(drawn) /\ Shows(drawn, draw_char(con, ch).cell)
<1> DEFINE x == con.cursor_x
           y == con.cursor_y
           drawn == DrawPixels(f, ch, x, y)
<1>1. x \in 0 .. Width - 1 /\ y \in 0 .. Height - 1
  BY DEF ConsoleState
<1>2. DOMAIN f = 0 .. FbHeight * Pitch - 1
  BY DEF IsScreen
<1>3. draw_char(con, ch).cell = [con.cell EXCEPT ![<<x, y>>] = ch] /\ con.cell \in Screens
  BY DEF draw_char, ConsoleState
<1> HIDE DEF x, y
<1>4. /\ IsScreen(drawn)
      /\ \A p \in Pixels : drawn[Address(x, y, p)] = Color(ch, p)
      /\ \A a \in DOMAIN f : (\A p \in Pixels : Address(x, y, p) # a) => drawn[a] = f[a]
  <2>1. drawn = DrawPixels(f, ch, x, y)
    OBVIOUS
  <2> HIDE DEF drawn
  <2>2. IsScreen(drawn)
    BY <1>1, <2>1, DrawPaintsCell
  <2>3. \A p \in Pixels : drawn[Address(x, y, p)] = Color(ch, p)
    BY <1>1, <2>1, DrawPaintsCell
  <2>4. \A a \in DOMAIN f : (\A p \in Pixels : Address(x, y, p) # a) => drawn[a] = f[a]
    BY <1>1, <2>1, DrawPaintsCell
  <2> QED
    BY <2>2, <2>3, <2>4
<1> HIDE DEF drawn
<1>5. IsScreen(drawn) /\ DOMAIN drawn = DOMAIN f
  BY <1>2, <1>4 DEF IsScreen
<1>6. Padded(drawn)
  <2> SUFFICES ASSUME NEW a \in DOMAIN f, a % Pitch >= FbWidth
               PROVE  drawn[a] = "residue"
    BY <1>5 DEF Padded
  <2>1. ASSUME NEW p \in Pixels PROVE Address(x, y, p) # a
    <3>1. /\ Address(x, y, p) % Pitch = PixelX(x, p)
          /\ PixelX(x, p) \in 0 .. FbWidth - 1
      BY <1>1, PixelsOnScreen
    <3>2. CASE Address(x, y, p) = a
      BY <3>1, <3>2, Sizes
    <3> QED
      BY <3>2
  <2> QED
    BY <1>4, <2>1 DEF Padded
<1>7. ASSUME NEW c \in Cells, NEW q \in Pixels
      PROVE  drawn[Address(c[1], c[2], q)]
               = IF draw_char(con, ch).cell[c] = Residue THEN "residue"
                 ELSE Color(draw_char(con, ch).cell[c], q)
  <2>1. CASE c = <<x, y>>
    <3>1. draw_char(con, ch).cell[c] = ch
      BY <1>3, <2>1 DEF Screens
    <3>2. ch # Residue
      BY FramebufferAssumption
    <3>3. drawn[Address(c[1], c[2], q)] = Color(ch, q)
      BY <1>4, <2>1
    <3> QED
      BY <3>1, <3>2, <3>3
  <2>2. CASE c # <<x, y>>
    <3>1. draw_char(con, ch).cell[c] = con.cell[c]
      BY <1>3, <2>2 DEF Screens
    <3> DEFINE a == Address(c[1], c[2], q)
    <3>2. a \in DOMAIN f
      BY <1>2, CellOnConsole, PixelsOnScreen
    <3>3. \A p \in Pixels : Address(x, y, p) # a
      BY <1>1, <2>2, CellOnConsole, AddressUnique
    <3>4. drawn[a] = f[a]
      BY <1>4, <3>2, <3>3
    <3>5. f[a] = IF con.cell[c] = Residue THEN "residue" ELSE Color(con.cell[c], q)
      BY DEF Shows
    <3> QED
      BY <3>1, <3>4, <3>5
  <2> QED
    BY <2>1, <2>2
<1>8. Shows(drawn, draw_char(con, ch).cell)
  BY <1>7 DEF Shows
<1> QED
  BY <1>5, <1>6, <1>8 DEF drawn, x, y

(* What putChar leaves in the cells.                                       *)
LEMMA PutCells ==
  ASSUME NEW con \in ConsoleState, NEW ch \in Output
  PROVE  Put(con, ch).cell =
           IF Wrap(Perform(con, ch)).cursor_y >= Height THEN Cleared.cell
           ELSE IF ch \in Printable THEN draw_char(con, ch).cell
           ELSE con.cell
<1>1. Perform(con, ch).cell = IF ch \in Printable THEN draw_char(con, ch).cell ELSE con.cell
  <2>1. CASE ch \in Printable
    <3>1. ch \notin {NEWLINE, RETURN, BACKSPACE}
      BY <2>1, ConsoleAssumption DEF Printable, BLANK, NEWLINE, RETURN, BACKSPACE
    <3> QED
      BY <2>1, <3>1 DEF Perform, At
  <2>2. CASE ch \notin Printable
    BY <2>2 DEF Output, Perform, StepBack, At
  <2> QED
    BY <2>1, <2>2
<1>2. Wrap(Perform(con, ch)).cell = Perform(con, ch).cell
  BY DEF Wrap, At
<1> QED
  BY <1>1, <1>2 DEF Put, Scroll

LEMMA FramebufferInvariant == FramebufferSpec => []FramebufferInv
<1>1. ASSUME FramebufferInit PROVE FramebufferInv
  <2>1. TypeOK /\ console.cell = [p \in Cells |-> Residue]
    <3>1. [p \in Cells |-> Residue] \in Screens
      BY DEF Screens
    <3> QED
      BY <1>1, <3>1, ConsoleAssumption DEF FramebufferInit, Init, TypeOK, Boot, ConsoleState
  <2>2. fb = [address \in 0 .. FbHeight * Pitch - 1 |-> "residue"]
    BY <1>1 DEF FramebufferInit
  <2>3. IsScreen(fb) /\ Padded(fb)
    BY <2>2 DEF IsScreen, Padded
  <2>4. Shows(fb, console.cell)
    BY <2>1, <2>2, CellOnConsole, PixelsOnScreen DEF Shows
  <2> QED
    BY <2>1, <2>3, <2>4 DEF FramebufferInv
<1>2. ASSUME FramebufferInv, [FramebufferNext]_fb_vars PROVE FramebufferInv'
  <2>1. console \in ConsoleState /\ IsScreen(fb) /\ Padded(fb) /\ Shows(fb, console.cell)
    BY <1>2 DEF FramebufferInv, TypeOK
  <2>2. SUFFICES /\ console' \in ConsoleState
                 /\ IsScreen(fb') /\ Padded(fb') /\ Shows(fb', console'.cell)
    BY DEF FramebufferInv, TypeOK, IsScreen, Padded, Shows
  <2>3. CASE console_clear /\ fb' = ClearPixels(fb)
    BY <2>1, <2>3, ClearShows, ClearedOnScreen DEF console_clear
  <2>4. CASE \E ch \in Output : putChar(ch) /\ fb' = PutPixels(ch)
    <3>1. PICK ch \in Output : console' = Put(console, ch) /\ fb' = PutPixels(ch)
      BY <2>4 DEF putChar
    <3>2. console' \in ConsoleState
      BY <2>1, <3>1, PutStaysOn
    <3> DEFINE drawn == IF ch \in Printable
                        THEN DrawPixels(fb, ch, console.cursor_x, console.cursor_y)
                        ELSE fb
               cell == IF ch \in Printable THEN draw_char(console, ch).cell ELSE console.cell
               bottom == Wrap(Perform(console, ch)).cursor_y >= Height
    <3>3. IsScreen(drawn) /\ Padded(drawn) /\ Shows(drawn, cell)
      BY <2>1, DrawShows
    <3>4. fb' = IF bottom THEN ClearPixels(drawn) ELSE drawn
      BY <3>1 DEF PutPixels
    <3>5. console'.cell = IF bottom THEN Cleared.cell ELSE cell
      BY <2>1, <3>1, PutCells
    <3> HIDE DEF drawn, cell, bottom
    <3> QED
      BY <3>2, <3>3, <3>4, <3>5, ClearShows
  <2>5. CASE UNCHANGED fb_vars
    BY <2>1, <2>5 DEF fb_vars
  <2> QED
    BY <1>2, <2>3, <2>4, <2>5 DEF FramebufferNext
<1> QED
  BY <1>1, <1>2, PTL DEF FramebufferSpec

(* Every cell shows its character in the pixels of the framebuffer, for    *)
(* every size of framebuffer, font and scale: the addresses that draw_char *)
(* computes (console.c:68-95) are those of the cell at the cursor, and a   *)
(* screen that is cleared is blank.                                        *)
THEOREM CellsAreShown == FramebufferSpec => []ScreenShowsCells
<1>1. FramebufferInv => ScreenShowsCells
  BY DEF FramebufferInv, Shows, ScreenShowsCells
<1> QED
  BY <1>1, FramebufferInvariant, PTL

(* However much longer than their visible part the lines of the            *)
(* framebuffer are, neither drawing nor clearing writes the rest           *)
(* (console.c:57-63, 86-92).                                                    *)
THEOREM PaddingKept == FramebufferSpec => []PaddingUntouched
<1>1. FramebufferInv => PaddingUntouched
  BY DEF FramebufferInv, Padded, PaddingUntouched
<1> QED
  BY <1>1, FramebufferInvariant, PTL

=============================================================================
