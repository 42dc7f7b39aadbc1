----------------------------- MODULE MCKeyboard -----------------------------
(* A small keyboard.                                                       *)
EXTENDS Keyboard, TLC

(* Both Shifts, Ctrl, Alt, CapsLock, the A key, and the right Ctrl, whose  *)
(* second byte is that of the left one.                                    *)
TypistKeys ==
  {Plain(code) : code \in {SC_LSHIFT, SC_RSHIFT, SC_LCTRL, SC_LALT, SC_CAPS_LOCK, 30}}
    \cup {[code |-> SC_LCTRL, ext |-> TRUE]}
=============================================================================
