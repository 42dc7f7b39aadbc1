------------------------------- MODULE Console ------------------------------
(***************************************************************************)
(* The text console of console.c: a grid of character cells on the         *)
(* framebuffer, a cursor, putChar with its control characters, and         *)
(* console_clear.  A cell is what draw_char leaves in its pixels; the      *)
(* framebuffer starts with whatever the boot loader left in it.            *)
(*                                                                         *)
(* putChar and console_clear are operators on the console's state, which   *)
(* is what their callers (Shell) compose.                                  *)
(***************************************************************************)
EXTENDS Integers

CONSTANTS
  Width, Height,  \* of the console in characters
  Glyph,          \* the characters that draw something
  Residue         \* what the boot loader left in a cell

BLANK == "space"   \* the character ' ', and the background
NEWLINE == "newline"
RETURN == "return"
BACKSPACE == "backspace"

ASSUME ConsoleAssumption ==
  /\ Width \in Nat \ {0}
  /\ Height \in Nat \ {0}
  /\ Glyph \cap {NEWLINE, RETURN, BACKSPACE} = {}

Printable == Glyph \cup {BLANK}
Output == Printable \cup {NEWLINE, RETURN, BACKSPACE}

Cells == (0 .. Width - 1) \X (0 .. Height - 1)

Screens == [Cells -> Printable \cup {Residue}]

(* struct console_state: the cursor, and the cells of its framebuffer.     *)
ConsoleState ==
  [cursor_x : 0 .. Width - 1, cursor_y : 0 .. Height - 1, cell : Screens]

VARIABLE console

(* init_shell sets the cursor and leaves the framebuffer as it is.         *)
Boot == [cursor_x |-> 0, cursor_y |-> 0, cell |-> [p \in Cells |-> Residue]]

Cleared == [cursor_x |-> 0, cursor_y |-> 0, cell |-> [p \in Cells |-> BLANK]]

console_clear == console' = Cleared

-----------------------------------------------------------------------------
(* putChar.                                                                *)

draw_char(con, ch) ==
  [con EXCEPT !.cell[<<con.cursor_x, con.cursor_y>>] = ch]

At(con, x, y) == [cursor_x |-> x, cursor_y |-> y, cell |-> con.cell]

(* Mutant: a backspace stops at the start of a line.                       *)
StepBackInLine(con) ==
  IF con.cursor_x > 0 THEN At(con, con.cursor_x - 1, con.cursor_y) ELSE con

StepBack(con) ==
  IF con.cursor_x > 0 THEN At(con, con.cursor_x - 1, con.cursor_y)
  ELSE IF con.cursor_y > 0 THEN At(con, Width - 1, con.cursor_y - 1)
  ELSE con

Perform(con, ch) ==
  IF ch = NEWLINE THEN At(con, 0, con.cursor_y + 1)
  ELSE IF ch = RETURN THEN At(con, 0, con.cursor_y)
  ELSE IF ch = BACKSPACE THEN StepBack(con)
  ELSE At(draw_char(con, ch), con.cursor_x + 1, con.cursor_y)

(* Mutant: a line wraps one character late.                                *)
WrapLate(con) == IF con.cursor_x > Width THEN At(con, 0, con.cursor_y + 1) ELSE con

(* Mutant: a line that wraps stays on its row.                             *)
WrapInPlace(con) == IF con.cursor_x >= Width THEN At(con, 0, con.cursor_y) ELSE con

Wrap(con) == IF con.cursor_x >= Width THEN At(con, 0, con.cursor_y + 1) ELSE con

Scroll(con) == IF con.cursor_y >= Height THEN Cleared ELSE con

Put(con, ch) == Scroll(Wrap(Perform(con, ch)))

putChar(ch) == console' = Put(console, ch)

-----------------------------------------------------------------------------
Init == console = Boot

Next == console_clear \/ \E ch \in Output : putChar(ch)

Spec == Init /\ [][Next]_console

-----------------------------------------------------------------------------
(* Properties.                                                             *)

(* The cursor stays inside the console.                                    *)
TypeOK == console \in ConsoleState

(* Cells before the cursor in reading order.                               *)
Position(con) == con.cursor_y * Width + con.cursor_x

Column(n) == n % Width
Row(n) == n \div Width
CellOf(con, n) == con.cell[<<Column(n), Row(n)>>]

LastCell(con) == con.cursor_x = Width - 1 /\ con.cursor_y = Height - 1

(* The shell's "\b \b" takes a character back: the cursor returns to the   *)
(* cell the character was drawn in, across the end of a line too, and the  *)
(* cell is blank again.  The one exception is a character in the last      *)
(* cell, which clears the screen.                                          *)
EraseUndoesEcho ==
  ~LastCell(console) =>
    \A ch \in Printable :
      LET echo == Put(console, ch)
      IN  Put(Put(Put(echo, BACKSPACE), BLANK), BACKSPACE) = draw_char(console, BLANK)

(* A character moves the cursor on by one cell, and only the step that     *)
(* leaves the bottom of the screen moves it back to the top.               *)
PutMovesOn ==
  \A ch \in Printable :
    LET p == Position(console) + 1
    IN  Position(Put(console, ch)) = IF p < Width * Height THEN p ELSE 0
=============================================================================
