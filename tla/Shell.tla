------------------------------- MODULE Shell --------------------------------
(***************************************************************************)
(* The shell of console.c: its loop on keyboard_getchar, the line in       *)
(* input_buffer, and process_command.  What a key makes the shell print is *)
(* put in pending and goes to the console one character at a time; the     *)
(* shell takes the next key when it is all printed.                        *)
(*                                                                         *)
(* input_buffer is a local array, so its elements are unspecified until    *)
(* they are written.                                                       *)
(***************************************************************************)
EXTENDS Console, Sequences

CONSTANTS
  KeyChars,       \* the printable characters that are typed (32 .. 126)
  LineSize,       \* sizeof(input_buffer)
  Prompt,         \* "valern> "
  Replies,        \* the commands that only print, and what they print
  ClearCommand,   \* "clear"
  RebootCommand,  \* "reboot"
  Rebooting,      \* what reboot prints
  Unknown, Hint   \* printed before and after a line that is no command

KEY_ENTER == NEWLINE
KEY_BACKSPACE == BACKSPACE
CTRL_C == "ctrl_c"
CTRL_L == "ctrl_l"
OTHER_KEY == "tab"   \* Tab, and the characters of the other Ctrl keys

NUL == "nul"
UNSPECIFIED == "unspecified"

(* Calls other than putChar that the output waits on.                      *)
CLEAR == "console_clear()"
REBOOT == "outb(0x64, 0xFE)"

(* The prompt is one line, and the only text with a backspace in it is the *)
(* erase sequence.                                                         *)
Text == Printable \cup {NEWLINE}

ASSUME ShellAssumption ==
  /\ KeyChars \subseteq Printable \ {NUL, UNSPECIFIED, CTRL_C, CTRL_L, OTHER_KEY}
  /\ {"^", "C"} \subseteq Glyph
  /\ {CLEAR, REBOOT} \cap Glyph = {}
  /\ LineSize \in Nat \ {0}
  /\ Prompt \in Seq(Printable)
  /\ {Rebooting, Unknown, Hint} \subseteq Seq(Text)
  /\ Replies \in [DOMAIN Replies -> Seq(Text)]

VARIABLES
  pending,       \* output of the key being handled that is still to come
  input_buffer, buffer_pos,
  command,       \* the last command given to process_command
  resetting,     \* the reset line has been pulsed
  scrolled       \* the screen was cleared at its bottom since the prompt began

line_vars == <<input_buffer, buffer_pos, command>>
vars == <<console, pending, line_vars, resetting, scrolled>>

Indices == 0 .. LineSize - 1

(* The kernel's messages end with a newline; the rows below them are as    *)
(* the boot loader left them, unless the messages filled the screen.       *)
BootConsoles ==
  {[cursor_x |-> 0, cursor_y |-> y,
    cell |-> [p \in Cells |-> IF p[2] < y THEN BLANK ELSE below]] :
     y \in 0 .. Height - 1, below \in {BLANK, Residue}}

Start ==
  /\ pending = Prompt
  /\ input_buffer = [i \in Indices |-> UNSPECIFIED]
  /\ buffer_pos = 0
  /\ command = <<>>
  /\ resetting = FALSE
  /\ scrolled = FALSE

ShellInit == console \in BootConsoles /\ Start

-----------------------------------------------------------------------------
(* process_command.                                                        *)

(* The string at the start of a buffer.                                    *)
CString(buffer) ==
  LET end == CHOOSE n \in DOMAIN buffer :
               buffer[n] = NUL /\ \A i \in 0 .. n - 1 : buffer[i] # NUL
  IN  [i \in 1 .. end |-> buffer[i - 1]]

process_command(cmd) ==
  IF cmd \in DOMAIN Replies   THEN Replies[cmd]
  ELSE IF cmd = ClearCommand  THEN <<CLEAR>>
  ELSE IF cmd = RebootCommand THEN Rebooting \o <<REBOOT>>
  ELSE IF cmd = <<>>          THEN <<>>
  ELSE Unknown \o cmd \o <<NEWLINE>> \o Hint

-----------------------------------------------------------------------------
(* The loop of shell(), one action per case of its switch.                 *)

Line == [i \in 1 .. buffer_pos |-> input_buffer[i - 1]]

(* Mutant: the line is kept after it is run.                               *)
HandleEnterKeep ==
  /\ input_buffer' = [input_buffer EXCEPT ![buffer_pos] = NUL]
  /\ command' = CString(input_buffer')
  /\ UNCHANGED buffer_pos
  /\ pending' = <<NEWLINE>> \o process_command(command') \o Prompt
  /\ scrolled' = FALSE

HandleEnter ==
  /\ input_buffer' = [input_buffer EXCEPT ![buffer_pos] = NUL]
  /\ command' = CString(input_buffer')
  /\ buffer_pos' = 0
  /\ pending' = <<NEWLINE>> \o process_command(command') \o Prompt
  /\ scrolled' = FALSE

(* Mutant: the character is erased from the line and not from the screen.  *)
HandleBackspaceUnseen ==
  /\ buffer_pos > 0
  /\ buffer_pos' = buffer_pos - 1
  /\ pending' = <<BACKSPACE>>
  /\ UNCHANGED <<input_buffer, command, scrolled>>

HandleBackspace ==
  /\ buffer_pos > 0
  /\ buffer_pos' = buffer_pos - 1
  /\ pending' = <<BACKSPACE, BLANK, BACKSPACE>>
  /\ UNCHANGED <<input_buffer, command, scrolled>>

HandleCtrlC ==
  /\ buffer_pos' = 0
  /\ pending' = <<"^", "C", NEWLINE>> \o Prompt
  /\ scrolled' = FALSE
  /\ UNCHANGED <<input_buffer, command>>

(* Mutant: the line is not printed again.                                  *)
HandleCtrlLPromptOnly ==
  /\ pending' = <<CLEAR>> \o Prompt
  /\ scrolled' = FALSE
  /\ UNCHANGED line_vars

HandleCtrlL ==
  /\ pending' = <<CLEAR>> \o Prompt \o Line
  /\ scrolled' = FALSE
  /\ UNCHANGED line_vars

(* Mutant: the last element of the buffer is not kept for the terminator.  *)
HandleCharFull(ch) ==
  /\ buffer_pos < LineSize
  /\ input_buffer' = [input_buffer EXCEPT ![buffer_pos] = ch]
  /\ buffer_pos' = buffer_pos + 1
  /\ pending' = <<ch>>
  /\ UNCHANGED <<command, scrolled>>

HandleChar(ch) ==
  /\ buffer_pos < LineSize - 1
  /\ input_buffer' = [input_buffer EXCEPT ![buffer_pos] = ch]
  /\ buffer_pos' = buffer_pos + 1
  /\ pending' = <<ch>>
  /\ UNCHANGED <<command, scrolled>>

(* Backspace on an empty line, a character when the line is full, a key    *)
(* that no case handles.                                                   *)
IgnoreKey(c) ==
  /\ \/ c = KEY_BACKSPACE /\ buffer_pos = 0
     \/ c \in KeyChars /\ buffer_pos = LineSize - 1
     \/ c = OTHER_KEY
  /\ UNCHANGED <<pending, line_vars, scrolled>>

HandleKey(c) ==
  /\ pending = <<>>
  /\ \/ c = KEY_ENTER /\ HandleEnter
     \/ c = KEY_BACKSPACE /\ HandleBackspace
     \/ c = CTRL_C /\ HandleCtrlC
     \/ c = CTRL_L /\ HandleCtrlL
     \/ c \in KeyChars /\ HandleChar(c)
     \/ IgnoreKey(c)
  /\ UNCHANGED <<console, resetting>>

(* The next step of the output.                                            *)
Emit ==
  /\ pending # <<>>
  /\ LET op == Head(pending)
     IN  \/ op = CLEAR /\ console_clear /\ UNCHANGED <<resetting, scrolled>>
         \/ op = REBOOT /\ resetting' = TRUE /\ UNCHANGED <<console, scrolled>>
         \/ /\ op \notin {CLEAR, REBOOT}
            /\ putChar(op)
            /\ scrolled' = (scrolled \/ Wrap(Perform(console, op)).cursor_y >= Height)
            /\ UNCHANGED resetting
  /\ pending' = Tail(pending)
  /\ UNCHANGED line_vars

(* The reset that outb(0x64, 0xFE) asks for takes effect some time after   *)
(* it; the shell goes on until then.                                       *)
Reset ==
  /\ resetting
  /\ console' \in BootConsoles
  /\ pending' = Prompt
  /\ input_buffer' = [i \in Indices |-> UNSPECIFIED]
  /\ buffer_pos' = 0
  /\ command' = <<>>
  /\ resetting' = FALSE
  /\ scrolled' = FALSE

Keys == KeyChars \cup {KEY_ENTER, KEY_BACKSPACE, CTRL_C, CTRL_L, OTHER_KEY}

ShellNext == Emit \/ Reset \/ \E c \in Keys : HandleKey(c)

ShellSpec == ShellInit /\ [][ShellNext]_vars

-----------------------------------------------------------------------------
(* Properties.                                                             *)

ShellTypeOK ==
  /\ console \in ConsoleState
  /\ pending \in Seq(Output \cup {CLEAR, REBOOT})
  /\ input_buffer \in [Indices -> KeyChars \cup {NUL, UNSPECIFIED}]
  /\ buffer_pos \in Indices
  /\ command \in Seq(KeyChars)
  /\ resetting \in BOOLEAN
  /\ scrolled \in BOOLEAN

CellAt(n) == CellOf(console, n)

(* While the shell waits for a key, the characters before the cursor are   *)
(* the end of the prompt and the line it holds, whatever was typed,        *)
(* erased, wrapped or redrawn: all of them, unless the screen was cleared  *)
(* at its bottom since.                                                    *)
LineOnScreen ==
  pending = <<>> =>
    LET text == Prompt \o Line
        p    == Position(console)
    IN  /\ ~scrolled => p >= Len(text)
        /\ \A i \in 1 .. Len(text) : i <= p => CellAt(p - i) = text[Len(text) - i + 1]

(* While the shell waits for a key, nothing it has printed is left at the  *)
(* cursor or after it.                                                     *)
NothingAhead ==
  pending = <<>> =>
    \A n \in Position(console) .. Width * Height - 1 : CellAt(n) \in {BLANK, Residue}

(* The commands that are run are the lines that were edited: the line is   *)
(* terminated inside the buffer, and no unspecified or stale character is  *)
(* read with it.                                                           *)
Editor == INSTANCE LineEditor WITH Char <- KeyChars, MaxLine <- LineSize - 1,
                                   line <- Line
ImplementsLineEditor == Editor!Spec
=============================================================================
