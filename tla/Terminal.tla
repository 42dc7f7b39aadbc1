------------------------------ MODULE Terminal ------------------------------
(***************************************************************************)
(* The shell as the client of the key buffer: keys come from keyboard      *)
(* interrupts at any time, also while the shell prints, wait in the buffer *)
(* and are taken by keyboard_getchar.  The buffer is the queue of KeyQueue,*)
(* which KeyBuffer shows the ring to implement.                            *)
(***************************************************************************)
EXTENDS Shell

CONSTANT BufferSize    \* KEY_BUFFER_SIZE

ASSUME TerminalAssumption == BufferSize \in Nat \ {0}

VARIABLE queue    \* keys typed and not yet taken, oldest first

terminal_vars == <<vars, queue>>

TerminalInit == ShellInit /\ queue = <<>>

(* The keyboard interrupt; a key that finds the buffer full is dropped.    *)
keyboard_buffer_add(key) ==
  /\ Len(queue) < BufferSize
  /\ queue' = Append(queue, key)
  /\ UNCHANGED vars

(* Mutant: the key that was typed last is taken first.                     *)
GetcharNewest ==
  queue # <<>> /\ HandleKey(queue[Len(queue)]) /\ queue' = SubSeq(queue, 1, Len(queue) - 1)

(* Mutant: a key that is ignored is looked at and not taken.               *)
GetcharPeeks ==
  /\ queue # <<>>
  /\ HandleKey(Head(queue))
  /\ queue' = IF pending' = <<>> THEN queue ELSE Tail(queue)

(* One turn of the loop of shell(): the key it waits for is handled.       *)
keyboard_getchar == queue # <<>> /\ HandleKey(Head(queue)) /\ queue' = Tail(queue)

(* The kernel that starts again empties the buffer in keyboard_init.       *)
Restart == Reset /\ queue' = <<>>

ShellStep == keyboard_getchar \/ (Emit /\ UNCHANGED queue)

TerminalNext == ShellStep \/ Restart \/ \E key \in Keys : keyboard_buffer_add(key)

TerminalSpec == TerminalInit /\ [][TerminalNext]_terminal_vars

(* The CPU runs the shell, which waits for nothing but keys.               *)
TerminalFairSpec == TerminalSpec /\ WF_terminal_vars(ShellStep)

-----------------------------------------------------------------------------
(* Properties.                                                             *)

(* What a key does to a line and the last command, for the person who      *)
(* types it.                                                               *)
Edit(state, key) ==
  IF key = KEY_ENTER THEN [line |-> <<>>, command |-> state.line]
  ELSE IF key = KEY_BACKSPACE /\ state.line # <<>>
  THEN [state EXCEPT !.line = SubSeq(state.line, 1, Len(state.line) - 1)]
  ELSE IF key = CTRL_C THEN [state EXCEPT !.line = <<>>]
  ELSE IF key \in KeyChars /\ Len(state.line) < LineSize - 1
  THEN [state EXCEPT !.line = Append(state.line, key)]
  ELSE state

EditAll(state, keys) ==
  LET after[n \in 0 .. Len(keys)] == IF n = 0 THEN state ELSE Edit(after[n - 1], keys[n])
  IN  after[Len(keys)]

Typed == EditAll([line |-> Line, command |-> command], queue)

(* Typing ahead is safe: each key that the buffer accepts edits the line   *)
(* as if it were handled at once, whatever the shell prints or runs at the *)
(* time; no line loses a key, takes one of another line, or is run twice.  *)
TypeAhead == INSTANCE LineEditor WITH Char <- KeyChars, MaxLine <- LineSize - 1,
                                      line <- Typed.line, command <- Typed.command
ImplementsTypeAhead == TypeAhead!Spec

(* A full buffer, which drops the keys that are typed, has room again      *)
(* after a time: no key, output or command keeps the shell from its loop.  *)
RoomAgain == Len(queue) = BufferSize ~> Len(queue) < BufferSize
=============================================================================
