--------------------------- MODULE ConsoleProofs ----------------------------
(***************************************************************************)
(* Proofs about Console for every size of the console and every set of     *)
(* characters.                                                             *)
(***************************************************************************)
EXTENDS Console, TLAPS

(* The cursor may leave the console by one column or one row while a       *)
(* character is performed, and comes back to it in two steps.              *)
Loose == [cursor_x : 0 .. Width, cursor_y : 0 .. Height, cell : Screens]

LEMMA ClearedOnScreen == Cleared \in ConsoleState
<1>1. [p \in Cells |-> BLANK] \in Screens
  BY DEF Screens, Printable
<1> QED
  BY <1>1, ConsoleAssumption DEF Cleared, ConsoleState

LEMMA DrawStaysOn ==
  ASSUME NEW con \in ConsoleState, NEW ch \in Printable
  PROVE  /\ draw_char(con, ch) \in ConsoleState
         /\ draw_char(con, ch).cursor_x = con.cursor_x
         /\ draw_char(con, ch).cursor_y = con.cursor_y
<1>1. <<con.cursor_x, con.cursor_y>> \in Cells
  BY DEF ConsoleState, Cells
<1>2. [con.cell EXCEPT ![<<con.cursor_x, con.cursor_y>>] = ch] \in Screens
  BY <1>1 DEF ConsoleState, Screens
<1>3. draw_char(con, ch) =
        [con EXCEPT !.cell = [con.cell EXCEPT ![<<con.cursor_x, con.cursor_y>>] = ch]]
  BY DEF draw_char, ConsoleState
<1> QED
  BY <1>2, <1>3 DEF ConsoleState

LEMMA PerformIsLoose ==
  ASSUME NEW con \in ConsoleState, NEW ch \in Output
  PROVE  /\ Perform(con, ch) \in Loose
         /\ \/ Perform(con, ch).cursor_x < Width
            \/ Perform(con, ch).cursor_y < Height
<1> USE ConsoleAssumption
<1>1. CASE ch = NEWLINE
  BY <1>1 DEF Perform, At, ConsoleState, Loose
<1>2. CASE ch = RETURN
  <2>1. Perform(con, ch) = At(con, 0, con.cursor_y)
    BY <1>2 DEF Perform, NEWLINE, RETURN
  <2> QED
    BY <2>1 DEF At, ConsoleState, Loose
<1>3. CASE ch = BACKSPACE
  <2>1. Perform(con, ch) = StepBack(con)
    BY <1>3 DEF Perform, NEWLINE, RETURN, BACKSPACE
  <2>2. StepBack(con) \in ConsoleState
    BY DEF StepBack, At, ConsoleState
  <2> QED
    BY <2>1, <2>2 DEF ConsoleState, Loose
<1>4. CASE ch \notin {NEWLINE, RETURN, BACKSPACE}
  <2>1. ch \in Printable
    BY <1>4 DEF Output
  <2>2. draw_char(con, ch) \in ConsoleState
    BY <2>1, DrawStaysOn
  <2>3. Perform(con, ch) = At(draw_char(con, ch), con.cursor_x + 1, con.cursor_y)
    BY <1>4 DEF Perform
  <2> QED
    BY <2>2, <2>3 DEF ConsoleState, Loose, At
<1> QED
  BY <1>1, <1>2, <1>3, <1>4

(* A character leaves the cursor on the console.                           *)
LEMMA PutStaysOn ==
  ASSUME NEW con \in ConsoleState, NEW ch \in Output
  PROVE  Put(con, ch) \in ConsoleState
<1> USE ConsoleAssumption
<1> DEFINE loose == Perform(con, ch)
<1>1. loose \in Loose /\ (loose.cursor_x < Width \/ loose.cursor_y < Height)
  BY PerformIsLoose
<1> HIDE DEF loose
<1>2. Wrap(loose) \in [cursor_x : 0 .. Width - 1, cursor_y : 0 .. Height, cell : Screens]
  BY <1>1 DEF Wrap, At, Loose
<1>3. Scroll(Wrap(loose)) \in ConsoleState
  BY <1>2, ClearedOnScreen DEF Scroll, ConsoleState
<1> QED
  BY <1>3 DEF Put, loose

(* The cursor stays inside the console, whatever is printed.               *)
THEOREM CursorOnScreen == Spec => []TypeOK
<1>1. Init => TypeOK
  <2>1. [p \in Cells |-> Residue] \in Screens
    BY DEF Screens
  <2> QED
    BY <2>1, ConsoleAssumption DEF Init, TypeOK, Boot, ConsoleState
<1>2. TypeOK /\ [Next]_console => TypeOK'
  BY ClearedOnScreen, PutStaysOn DEF TypeOK, Next, putChar, console_clear
<1> QED
  BY <1>1, <1>2, PTL DEF Spec

-----------------------------------------------------------------------------
(* What a printable character and a backspace do.                          *)

LEMMA PutPrintable ==
  ASSUME NEW con \in ConsoleState, NEW ch \in Printable
  PROVE  Put(con, ch) =
           LET drawn == draw_char(con, ch)
           IN  IF con.cursor_x < Width - 1 THEN At(drawn, con.cursor_x + 1, con.cursor_y)
               ELSE IF con.cursor_y < Height - 1 THEN At(drawn, 0, con.cursor_y + 1)
               ELSE Cleared
<1> USE ConsoleAssumption
<1> DEFINE drawn == draw_char(con, ch)
<1>1. /\ drawn \in ConsoleState
      /\ drawn.cursor_x = con.cursor_x /\ drawn.cursor_y = con.cursor_y
  BY DrawStaysOn
<1>2. Perform(con, ch) = At(drawn, con.cursor_x + 1, con.cursor_y)
  BY DEF Perform, Printable, BLANK, NEWLINE, RETURN, BACKSPACE
<1> HIDE DEF drawn
<1>3. Put(con, ch) = Scroll(Wrap(At(drawn, con.cursor_x + 1, con.cursor_y)))
  BY <1>2 DEF Put
<1>4. CASE con.cursor_x < Width - 1
  BY <1>1, <1>3, <1>4 DEF Scroll, Wrap, At, ConsoleState, drawn
<1>5. CASE con.cursor_x = Width - 1 /\ con.cursor_y < Height - 1
  BY <1>1, <1>3, <1>5 DEF Scroll, Wrap, At, ConsoleState, drawn
<1>6. CASE con.cursor_x = Width - 1 /\ con.cursor_y = Height - 1
  BY <1>1, <1>3, <1>6 DEF Scroll, Wrap, At, ConsoleState, drawn
<1> QED
  BY <1>4, <1>5, <1>6 DEF ConsoleState, drawn

LEMMA PutBackspace ==
  ASSUME NEW con \in ConsoleState
  PROVE  Put(con, BACKSPACE) =
           IF con.cursor_x > 0 THEN At(con, con.cursor_x - 1, con.cursor_y)
           ELSE IF con.cursor_y > 0 THEN At(con, Width - 1, con.cursor_y - 1)
           ELSE con
<1> USE ConsoleAssumption
<1>1. Perform(con, BACKSPACE) = StepBack(con)
  BY DEF Perform, NEWLINE, RETURN, BACKSPACE
<1>2. StepBack(con) \in ConsoleState
  BY DEF StepBack, At, ConsoleState
<1>3. Scroll(Wrap(StepBack(con))) = StepBack(con)
  BY <1>2 DEF Scroll, Wrap, ConsoleState
<1> QED
  BY <1>1, <1>3 DEF Put, StepBack

(* A character and a backspace: the character stays, the cursor does not.  *)
LEMMA EchoAndBack ==
  ASSUME NEW con \in ConsoleState, ~LastCell(con), NEW ch \in Printable
  PROVE  Put(Put(con, ch), BACKSPACE) = draw_char(con, ch)
<1> USE ConsoleAssumption
<1> DEFINE drawn == draw_char(con, ch)
<1>1. /\ drawn \in ConsoleState
      /\ drawn.cursor_x = con.cursor_x /\ drawn.cursor_y = con.cursor_y
  BY DrawStaysOn
<1>2. At(drawn, con.cursor_x, con.cursor_y) = drawn
  BY <1>1 DEF At, ConsoleState
<1>3. con.cursor_x \in 0 .. Width - 1 /\ con.cursor_y \in 0 .. Height - 1
  BY DEF ConsoleState
<1>4. ASSUME NEW x \in 0 .. Width - 1, NEW y \in 0 .. Height - 1
      PROVE  At(drawn, x, y) \in ConsoleState
  BY <1>1 DEF At, ConsoleState
<1> HIDE DEF drawn
<1>5. CASE con.cursor_x < Width - 1
  <2>1. Put(con, ch) = At(drawn, con.cursor_x + 1, con.cursor_y)
    BY <1>3, <1>5, PutPrintable DEF drawn
  <2>2. At(drawn, con.cursor_x + 1, con.cursor_y) \in ConsoleState
    BY <1>3, <1>4, <1>5
  <2>3. Put(Put(con, ch), BACKSPACE) = At(drawn, con.cursor_x, con.cursor_y)
    BY <1>3, <2>1, <2>2, PutBackspace DEF At
  <2> QED
    BY <1>2, <2>3 DEF drawn
<1>6. CASE con.cursor_x = Width - 1
  <2>1. con.cursor_y < Height - 1
    BY <1>3, <1>6 DEF LastCell
  <2>2. Put(con, ch) = At(drawn, 0, con.cursor_y + 1)
    BY <1>3, <1>6, <2>1, PutPrintable DEF drawn
  <2>3. At(drawn, 0, con.cursor_y + 1) \in ConsoleState
    BY <1>3, <1>4, <2>1
  <2>4. Put(Put(con, ch), BACKSPACE) = At(drawn, Width - 1, con.cursor_y)
    BY <1>3, <2>2, <2>3, PutBackspace DEF At
  <2> QED
    BY <1>2, <1>6, <2>4 DEF drawn
<1> QED
  BY <1>3, <1>5, <1>6

LEMMA EraseIsExact ==
  ASSUME NEW con \in ConsoleState, ~LastCell(con), NEW ch \in Printable
  PROVE  Put(Put(Put(Put(con, ch), BACKSPACE), BLANK), BACKSPACE) = draw_char(con, BLANK)
<1> DEFINE drawn == draw_char(con, ch)
<1>1. BLANK \in Printable
  BY DEF Printable
<1>2. drawn \in ConsoleState /\ ~LastCell(drawn)
  BY DrawStaysOn DEF LastCell
<1>3. Put(Put(con, ch), BACKSPACE) = drawn
  BY EchoAndBack
<1>4. Put(Put(drawn, BLANK), BACKSPACE) = draw_char(drawn, BLANK)
  BY <1>1, <1>2, EchoAndBack
<1>5. draw_char(drawn, BLANK) = draw_char(con, BLANK)
  BY DEF draw_char, ConsoleState, Screens
<1> QED
  BY <1>3, <1>4, <1>5

(* The shell's erase sequence is exact on every console: the only          *)
(* character it cannot take back is one that cleared the screen.           *)
THEOREM EraseCorrect == Spec => []EraseUndoesEcho
<1>1. TypeOK => EraseUndoesEcho
  BY EraseIsExact DEF TypeOK, EraseUndoesEcho
<1> QED
  BY <1>1, CursorOnScreen, PTL

LEMMA PutAdvances ==
  ASSUME NEW con \in ConsoleState, NEW ch \in Printable
  PROVE  Position(Put(con, ch)) =
           IF Position(con) + 1 < Width * Height THEN Position(con) + 1 ELSE 0
<1> USE ConsoleAssumption
<1>1. con.cursor_x \in 0 .. Width - 1 /\ con.cursor_y \in 0 .. Height - 1
  BY DEF ConsoleState
<1>2. CASE con.cursor_x < Width - 1
  <2>1. con.cursor_y * Width + Width <= Width * Height
    BY <1>1
  <2>2. Position(Put(con, ch)) = Position(con) + 1
    BY <1>1, <1>2, PutPrintable DEF Position, At
  <2> QED
    BY <1>1, <1>2, <2>1, <2>2 DEF Position
<1>3. CASE con.cursor_x = Width - 1 /\ con.cursor_y < Height - 1
  <2>1. con.cursor_y * Width + Width < Width * Height
    BY <1>1, <1>3
  <2>2. Position(Put(con, ch)) = Position(con) + 1
    BY <1>1, <1>3, PutPrintable DEF Position, At
  <2> QED
    BY <1>1, <1>3, <2>1, <2>2 DEF Position
<1>4. CASE con.cursor_x = Width - 1 /\ con.cursor_y = Height - 1
  <2>1. Position(con) + 1 = Width * Height
    BY <1>1, <1>4 DEF Position
  <2>2. Position(Put(con, ch)) = 0
    BY <1>1, <1>4, PutPrintable DEF Position, Cleared
  <2> QED
    BY <2>1, <2>2
<1> QED
  BY <1>1, <1>2, <1>3, <1>4

(* Characters fill the console in reading order, cell by cell.             *)
THEOREM ReadingOrder == Spec => []PutMovesOn
<1>1. TypeOK => PutMovesOn
  BY PutAdvances DEF TypeOK, PutMovesOn
<1> QED
  BY <1>1, CursorOnScreen, PTL

-----------------------------------------------------------------------------
(* What is in the cells of the console, counted in reading order.          *)

Screenful == 0 .. Width * Height - 1

LEMMA ModLaws ==
  ASSUME NEW N \in Nat \ {0}, NEW n \in Nat
  PROVE  n % N \in 0 .. N - 1 /\ n \div N \in Nat /\ n = (n \div N) * N + (n % N)
  BY SMT

LEMMA ModUnique ==
  ASSUME NEW N \in Nat \ {0}, NEW x \in 0 .. N - 1, NEW y \in Nat
  PROVE  (y * N + x) % N = x /\ (y * N + x) \div N = y
  BY SMT

(* The rows up to y are whole.                                             *)
LEMMA RowsFit ==
  ASSUME NEW x \in 0 .. Width - 1, NEW y \in 0 .. Height - 1
  PROVE  /\ y * Width + x \in Screenful
         /\ (y * Width + x = Width * Height - 1) <=> (x = Width - 1 /\ y = Height - 1)
<1> USE ConsoleAssumption
<1>1. y * Width \in Nat /\ Width * Height \in Nat
  OBVIOUS
<1>2. CASE y = Height - 1
  BY <1>1, <1>2 DEF Screenful
<1>3. CASE y < Height - 1
  <2>1. (y + 1) * Width + Width <= Width * Height
    BY <1>3
  <2> QED
    BY <1>1, <1>3, <2>1 DEF Screenful
<1> QED
  BY <1>2, <1>3

LEMMA CellsInOrder ==
  ASSUME NEW n \in Screenful
  PROVE  /\ n \in Nat
         /\ <<Column(n), Row(n)>> \in Cells
         /\ n = Row(n) * Width + Column(n)
<1> USE ConsoleAssumption
<1>1. n \in Nat /\ Width * Height \in Nat
  BY DEF Screenful
<1>2. /\ Column(n) \in 0 .. Width - 1 /\ Row(n) \in Nat
      /\ n = Row(n) * Width + Column(n)
  <2>1. n % Width \in 0 .. Width - 1 /\ n \div Width \in Nat /\ n = (n \div Width) * Width + (n % Width)
    BY <1>1, ModLaws
  <2> QED
    BY <2>1 DEF Column, Row
<1>3. ~(Row(n) >= Height)
  <2> SUFFICES ASSUME Row(n) >= Height PROVE FALSE
    OBVIOUS
  <2>1. Row(n) * Width >= Height * Width
    BY <1>2
  <2> QED
    BY <1>1, <1>2, <2>1 DEF Screenful
<1> QED
  BY <1>1, <1>2, <1>3 DEF Cells

LEMMA PositionOf ==
  ASSUME NEW con \in ConsoleState
  PROVE  /\ Position(con) \in Screenful /\ Position(con) \in Nat
         /\ Column(Position(con)) = con.cursor_x
         /\ Row(Position(con)) = con.cursor_y
         /\ Position(con) + 1 = Width * Height <=> LastCell(con)
<1> USE ConsoleAssumption
<1>1. con.cursor_x \in 0 .. Width - 1 /\ con.cursor_y \in 0 .. Height - 1
  BY DEF ConsoleState
<1>2. /\ Column(con.cursor_y * Width + con.cursor_x) = con.cursor_x
      /\ Row(con.cursor_y * Width + con.cursor_x) = con.cursor_y
  <2>1. con.cursor_y \in Nat
    BY <1>1
  <2> DEFINE x == con.cursor_x
             y == con.cursor_y
  <2>2. (y * Width + x) % Width = x /\ (y * Width + x) \div Width = y
    BY <1>1, <2>1, ModUnique
  <2> QED
    BY <2>2 DEF Column, Row
<1>3. /\ con.cursor_y * Width + con.cursor_x \in Screenful
      /\ (con.cursor_y * Width + con.cursor_x = Width * Height - 1) <=> LastCell(con)
  BY <1>1, RowsFit DEF LastCell
<1>4. Width * Height \in Nat /\ con.cursor_y * Width + con.cursor_x \in Nat
  BY <1>1
<1> QED
  BY <1>2, <1>3, <1>4 DEF Position

(* A character that is drawn fills the cell at the cursor and no other.    *)
LEMMA DrawnCell ==
  ASSUME NEW con \in ConsoleState, NEW ch \in Printable, NEW n \in Screenful
  PROVE  CellOf(draw_char(con, ch), n) = IF n = Position(con) THEN ch ELSE CellOf(con, n)
<1>1. <<Column(n), Row(n)>> \in Cells /\ n = Row(n) * Width + Column(n)
  BY CellsInOrder
<1>2. CASE n = Position(con)
  <2>1. <<Column(n), Row(n)>> = <<con.cursor_x, con.cursor_y>>
    BY <1>2, PositionOf
  <2> QED
    BY <1>1, <1>2, <2>1 DEF CellOf, draw_char, ConsoleState, Screens
<1>3. CASE n # Position(con)
  <2>1. <<Column(n), Row(n)>> # <<con.cursor_x, con.cursor_y>>
    BY <1>1, <1>3 DEF Position
  <2> QED
    BY <1>1, <1>3, <2>1 DEF CellOf, draw_char, ConsoleState, Screens
<1> QED
  BY <1>2, <1>3

LEMMA ClearedCells ==
  /\ Position(Cleared) = 0
  /\ \A n \in Screenful : CellOf(Cleared, n) = BLANK
<1>1. Position(Cleared) = 0
  BY ConsoleAssumption DEF Position, Cleared
<1>2. ASSUME NEW n \in Screenful PROVE CellOf(Cleared, n) = BLANK
  BY CellsInOrder DEF CellOf, Cleared
<1> QED
  BY <1>1, <1>2

LEMMA SameCells ==
  ASSUME NEW con, NEW x, NEW y, NEW n
  PROVE  CellOf(At(con, x, y), n) = CellOf(con, n)
  BY DEF CellOf, At

AtBottom(con, ch) == Wrap(Perform(con, ch)).cursor_y >= Height

LEMMA PrintableAdvances ==
  ASSUME NEW con \in ConsoleState, NEW ch \in Printable
  PROVE  IF Position(con) + 1 = Width * Height
           THEN AtBottom(con, ch) /\ Put(con, ch) = Cleared
           ELSE /\ ~AtBottom(con, ch)
                /\ Position(Put(con, ch)) = Position(con) + 1
                /\ \A n \in Screenful :
                     CellOf(Put(con, ch), n) = IF n = Position(con) THEN ch ELSE CellOf(con, n)
<1> USE ConsoleAssumption
<1> DEFINE drawn == draw_char(con, ch)
           moved == At(drawn, con.cursor_x + 1, con.cursor_y)
<1>1. /\ drawn \in ConsoleState
      /\ drawn.cursor_x = con.cursor_x /\ drawn.cursor_y = con.cursor_y
  BY DrawStaysOn
<1>2. con.cursor_x \in 0 .. Width - 1 /\ con.cursor_y \in 0 .. Height - 1
  BY DEF ConsoleState
<1>3. Perform(con, ch) = moved
  <2>1. ch \notin {NEWLINE, RETURN, BACKSPACE}
    BY DEF Printable, BLANK, NEWLINE, RETURN, BACKSPACE
  <2> QED
    BY <2>1 DEF Perform
<1>4. Wrap(moved).cursor_y = IF con.cursor_x = Width - 1 THEN con.cursor_y + 1 ELSE con.cursor_y
  BY <1>2 DEF Wrap, At
<1>5. AtBottom(con, ch) <=> LastCell(con)
  BY <1>2, <1>3, <1>4 DEF AtBottom, LastCell
<1> HIDE DEF drawn, moved
<1>6. CASE LastCell(con)
  <2>1. Put(con, ch) = Cleared
    BY <1>2, <1>6, PutPrintable DEF LastCell
  <2> QED
    BY <1>5, <1>6, <2>1, PositionOf
<1>7. CASE ~LastCell(con)
  <2>1. Position(con) + 1 # Width * Height
    BY <1>7, PositionOf
  <2>2. Put(con, ch) \in {At(drawn, con.cursor_x + 1, con.cursor_y), At(drawn, 0, con.cursor_y + 1)}
    BY <1>2, <1>7, PutPrintable DEF LastCell, drawn
  <2>3. \A n \in Screenful : CellOf(Put(con, ch), n) = CellOf(drawn, n)
    BY <2>2, SameCells
  <2>4. \A n \in Screenful : CellOf(drawn, n) = IF n = Position(con) THEN ch ELSE CellOf(con, n)
    BY DrawnCell DEF drawn
  <2>5. Position(con) + 1 < Width * Height
    BY <2>1, PositionOf DEF Screenful
  <2>6. Position(Put(con, ch)) = Position(con) + 1
    BY <2>5, PutAdvances
  <2> QED
    BY <1>5, <1>7, <2>1, <2>3, <2>4, <2>6
<1> QED
  BY <1>6, <1>7

LEMMA BackspaceRetreats ==
  ASSUME NEW con \in ConsoleState
  PROVE  /\ ~AtBottom(con, BACKSPACE)
         /\ Position(Put(con, BACKSPACE)) = IF Position(con) = 0 THEN 0 ELSE Position(con) - 1
         /\ \A n \in Screenful : CellOf(Put(con, BACKSPACE), n) = CellOf(con, n)
<1> USE ConsoleAssumption
<1>1. con.cursor_x \in 0 .. Width - 1 /\ con.cursor_y \in 0 .. Height - 1
  BY DEF ConsoleState
<1>2. ~AtBottom(con, BACKSPACE)
  <2>1. Perform(con, BACKSPACE) = StepBack(con)
    BY DEF Perform, NEWLINE, RETURN, BACKSPACE
  <2>2. StepBack(con).cursor_x < Width /\ StepBack(con).cursor_y < Height
    BY <1>1 DEF StepBack, At
  <2> QED
    BY <1>1, <2>1, <2>2 DEF AtBottom, Wrap, StepBack, At
<1>3. \A n \in Screenful : CellOf(Put(con, BACKSPACE), n) = CellOf(con, n)
  BY PutBackspace, SameCells
<1>4. CASE con.cursor_x > 0
  <2>1. Put(con, BACKSPACE) = At(con, con.cursor_x - 1, con.cursor_y)
    BY <1>4, PutBackspace
  <2>2. con.cursor_y * Width \in Nat
    BY <1>1
  <2> QED
    BY <1>1, <1>2, <1>3, <1>4, <2>1, <2>2 DEF Position, At
<1>5. CASE con.cursor_x = 0 /\ con.cursor_y > 0
  <2>1. Put(con, BACKSPACE) = At(con, Width - 1, con.cursor_y - 1)
    BY <1>5, PutBackspace
  <2>2. (con.cursor_y - 1) * Width + Width = con.cursor_y * Width /\ con.cursor_y * Width > 0
    BY <1>1, <1>5
  <2> QED
    BY <1>1, <1>2, <1>3, <1>5, <2>1, <2>2 DEF Position, At
<1>6. CASE con.cursor_x = 0 /\ con.cursor_y = 0
  <2>1. Put(con, BACKSPACE) = con
    BY <1>6, PutBackspace
  <2> QED
    BY <1>2, <1>3, <1>6, <2>1 DEF Position
<1> QED
  BY <1>1, <1>4, <1>5, <1>6

LEMMA NewlineAdvances ==
  ASSUME NEW con \in ConsoleState
  PROVE  \/ Put(con, NEWLINE) = Cleared
         \/ /\ Position(Put(con, NEWLINE)) >= Position(con)
            /\ \A n \in Screenful : CellOf(Put(con, NEWLINE), n) = CellOf(con, n)
<1> USE ConsoleAssumption
<1>1. con.cursor_x \in 0 .. Width - 1 /\ con.cursor_y \in 0 .. Height - 1
  BY DEF ConsoleState
<1> DEFINE below == At(con, 0, con.cursor_y + 1)
<1>2. Put(con, NEWLINE) = Scroll(below)
  <2>1. Perform(con, NEWLINE) = below
    BY DEF Perform
  <2>2. Wrap(below) = below
    BY DEF Wrap, At
  <2> QED
    BY <2>1, <2>2 DEF Put
<1>3. Put(con, NEWLINE) \in {Cleared, below}
  BY <1>2 DEF Scroll
<1>4. Position(below) >= Position(con)
  <2>1. (con.cursor_y + 1) * Width = con.cursor_y * Width + Width
    BY <1>1
  <2>2. con.cursor_y * Width \in Nat
    BY <1>1
  <2> QED
    BY <1>1, <2>1, <2>2 DEF Position, At
<1>5. \A n \in Screenful : CellOf(below, n) = CellOf(con, n)
  BY SameCells
<1> QED
  BY <1>3, <1>4, <1>5
=============================================================================
