----------------------------- MODULE LineEditor -----------------------------
(***************************************************************************)
(* What the shell promises the person who types: a line of at most MaxLine *)
(* characters, edited at its end, and handed over as a command by Enter.   *)
(***************************************************************************)
EXTENDS Naturals, Sequences

CONSTANTS
  Char,    \* the printable characters
  MaxLine  \* longest line

VARIABLES
  line,    \* the line being typed
  command  \* the line last handed over

vars == <<line, command>>

Init ==
  /\ line = <<>>
  /\ command = <<>>

Insert(ch) ==
  /\ Len(line) < MaxLine
  /\ line' = Append(line, ch)
  /\ UNCHANGED command

Erase ==
  /\ line # <<>>
  /\ line' = SubSeq(line, 1, Len(line) - 1)
  /\ UNCHANGED command

Abandon ==
  /\ line' = <<>>
  /\ UNCHANGED command

Enter ==
  /\ command' = line
  /\ line' = <<>>

(* The machine restarts after the reboot command.                          *)
Restart ==
  /\ line' = <<>>
  /\ command' = <<>>

Next == (\E ch \in Char : Insert(ch)) \/ Erase \/ Abandon \/ Enter \/ Restart

Spec == Init /\ [][Next]_vars
=============================================================================
