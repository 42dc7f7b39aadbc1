--------------------------- MODULE MCKeyboardInit ---------------------------
(* The bring-up with a key or two typed meanwhile.                         *)
EXTENDS KeyboardInit, TLC
=============================================================================
