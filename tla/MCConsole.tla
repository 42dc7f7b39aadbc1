----------------------------- MODULE MCConsole ------------------------------
(* A console of three columns and two rows, so that lines wrap and the     *)
(* bottom is reached, on a framebuffer with a margin of one pixel at the   *)
(* right and at the bottom and a padding of two.  The glyphs are two by    *)
(* two pixels; "b" has bits beyond its width.                              *)
EXTENDS Framebuffer, TLC

MCGlyphRow ==
  [ch \in Printable |->
     [row \in 0 .. 1 |->
        IF ch = "a" THEN {7 - row}
        ELSE IF ch = "b" THEN (IF row = 0 THEN {7, 6, 0} ELSE {5})
        ELSE {}]]
=============================================================================
