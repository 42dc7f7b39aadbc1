----------------------------- MODULE Framebuffer ----------------------------
(***************************************************************************)
(* The pixels behind the cells of Console: draw_char and console_clear as  *)
(* they write the framebuffer.  Every step here is a step of Console, with *)
(* the pixels it writes; ScreenShowsCells is what relates the two.         *)
(*                                                                         *)
(* A pixel is "ink" or "paper" (every call of printf and putChar has the   *)
(* background of the console), or still what the boot loader left there.   *)
(***************************************************************************)
EXTENDS Console, FiniteSetsExt

CONSTANTS
  FbWidth, FbHeight,      \* of the framebuffer in pixels
  Pitch,                  \* pixels from one line to the next
  FontWidth, FontHeight,
  Scale,
  GlyphRow                \* of each character, the bits set in each row

ASSUME FramebufferAssumption ==
  /\ Pitch \in Nat /\ FbWidth \in 1 .. Pitch /\ FbHeight \in Nat \ {0}
  /\ FontWidth \in 1 .. 8 /\ FontHeight \in Nat \ {0} /\ Scale \in Nat \ {0}
  /\ GlyphRow \in [Printable -> [0 .. FontHeight - 1 -> SUBSET (0 .. 7)]]
  /\ \A row \in 0 .. FontHeight - 1 : GlyphRow[BLANK][row] = {}
  /\ Width = FbWidth \div (FontWidth * Scale)
  /\ Height = FbHeight \div (FontHeight * Scale)
  /\ Residue \notin Printable

VARIABLE fb

fb_vars == <<console, fb>>

FramebufferInit ==
  /\ Init
  /\ fb = [address \in 0 .. FbHeight * Pitch - 1 |-> "residue"]

(* What the four loops of draw_char run through.                           *)
Pixels ==
  [row : 0 .. FontHeight - 1, col : 0 .. FontWidth - 1,
   scale_y : 0 .. Scale - 1, scale_x : 0 .. Scale - 1]

PixelX(x, p) == x * FontWidth * Scale + p.col * Scale + p.scale_x
PixelY(y, p) == y * FontHeight * Scale + p.row * Scale + p.scale_y

(* Where the pixel p of the cell at x, y lies in the framebuffer.          *)
Address(x, y, p) == PixelY(y, p) * Pitch + PixelX(x, p)

Color(ch, p) == IF 7 - p.col \in GlyphRow[ch][p.row] THEN "ink" ELSE "paper"

(* Mutant: lines lie as close as they are wide.                            *)
DrawUnpadded(pixels, ch, x, y) ==
  LET OnScreen == {p \in Pixels : PixelX(x, p) < FbWidth /\ PixelY(y, p) < FbHeight}
      Write(p, f) == [f EXCEPT ![PixelY(y, p) * FbWidth + PixelX(x, p)] = Color(ch, p)]
  IN  FoldSet(Write, pixels, OnScreen)

(* draw_char without its early returns (console.c:69, 76), which do not     *)
(* occur: init_shell loads a font before the console is used, and a font   *)
(* here has a glyph for every character that is printed.                   *)
DrawPixels(pixels, ch, x, y) ==
  LET OnScreen == {p \in Pixels : PixelX(x, p) < FbWidth /\ PixelY(y, p) < FbHeight}
      Write(p, f) == [f EXCEPT ![Address(x, y, p)] = Color(ch, p)]
  IN  FoldSet(Write, pixels, OnScreen)

(* Mutant: the padding at the end of each line is cleared with it.         *)
ClearPadding(pixels) == [address \in DOMAIN pixels |-> "paper"]

(* The pixels at j < width of each line.                                   *)
ClearPixels(pixels) ==
  [address \in DOMAIN pixels |->
     IF address % Pitch < FbWidth THEN "paper" ELSE pixels[address]]

PutPixels(ch) ==
  LET drawn == IF ch \in Printable
               THEN DrawPixels(fb, ch, console.cursor_x, console.cursor_y)
               ELSE fb
  IN  IF Wrap(Perform(console, ch)).cursor_y >= Height THEN ClearPixels(drawn) ELSE drawn

FramebufferNext ==
  \/ console_clear /\ fb' = ClearPixels(fb)
  \/ \E ch \in Output : putChar(ch) /\ fb' = PutPixels(ch)

FramebufferSpec == FramebufferInit /\ [][FramebufferNext]_fb_vars

-----------------------------------------------------------------------------
(* Properties.                                                             *)

(* Every cell shows its character, as its font has it: draw_char writes    *)
(* the cell at the cursor and nothing of its neighbours, and the screen    *)
(* that console_clear leaves is one of blanks.                             *)
ScreenShowsCells ==
  \A c \in Cells, p \in Pixels :
    fb[Address(c[1], c[2], p)] =
      IF console.cell[c] = Residue THEN "residue" ELSE Color(console.cell[c], p)

(* The memory between the end of a line and the start of the next one is   *)
(* not the console's: neither function writes it.                          *)
PaddingUntouched ==
  \A address \in DOMAIN fb : address % Pitch >= FbWidth => fb[address] = "residue"
=============================================================================
