------------------------------ MODULE KeyQueue ------------------------------
(***************************************************************************)
(* What the key buffer of keyboard.c promises: a first-in first-out queue  *)
(* of at most Size characters.  The keyboard interrupt adds a character    *)
(* and drops it when the queue is full; the kernel takes the oldest one,   *)
(* or is handed NUL (0) when there is none.                                *)
(***************************************************************************)
EXTENDS Naturals, Sequences

CONSTANTS
  Char,   \* the characters the keyboard can produce
  NUL,    \* the value 0, which keyboard_buffer_get returns for "no key"
  Size    \* KEY_BUFFER_SIZE

VARIABLES
  queue,  \* characters typed and not yet taken, oldest first
  retval  \* what the last get returned

vars == <<queue, retval>>

Init ==
  /\ queue = <<>>
  /\ retval = NUL

Add(ch) ==
  /\ Len(queue) < Size
  /\ queue' = Append(queue, ch)
  /\ UNCHANGED retval

Get ==
  /\ queue # <<>>
  /\ retval' = Head(queue)
  /\ queue' = Tail(queue)

GetNone ==
  /\ queue = <<>>
  /\ retval' = NUL
  /\ UNCHANGED queue

Next == (\E ch \in Char : Add(ch)) \/ Get \/ GetNone

Spec == Init /\ [][Next]_vars
=============================================================================
