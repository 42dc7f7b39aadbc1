---------------------------- MODULE ShellProofs -----------------------------
(***************************************************************************)
(* Proofs about Shell for every size of the console and of the line        *)
(* buffer, every set of characters and every table of commands; then about *)
(* Terminal, the shell with the key buffer in front of it, which does      *)
(* nothing that Shell does not do with keys from anywhere.                 *)
(***************************************************************************)
EXTENDS Terminal, ConsoleProofs, SequenceTheorems, WellFoundedInduction

(* The elements of the buffer before buffer_pos have been written.         *)
LineTyped == \A i \in 0 .. buffer_pos - 1 : input_buffer[i] \in KeyChars

IInv == ShellTypeOK /\ LineTyped

OutputOps == Output \cup {CLEAR, REBOOT}

-----------------------------------------------------------------------------
(* What process_command prints.                                            *)

LEMMA OutputIsOps == \A s \in Seq(Output) : s \in Seq(OutputOps)
  BY DEF OutputOps

LEMMA ConcatOps ==
  ASSUME NEW s \in Seq(OutputOps), NEW t \in Seq(OutputOps)
  PROVE  s \o t \in Seq(OutputOps)
  OBVIOUS

LEMMA OneOp ==
  ASSUME NEW op \in OutputOps
  PROVE  <<op>> \in Seq(OutputOps)
  OBVIOUS

LEMMA KeyCharsOutput == KeyChars \subseteq Output
  BY ShellAssumption DEF Output

LEMMA LineIsOps == \A s \in Seq(KeyChars) : s \in Seq(OutputOps)
  BY KeyCharsOutput DEF OutputOps

LEMMA TextsAreOps ==
  /\ {Prompt, Rebooting, Unknown, Hint} \subseteq Seq(OutputOps)
  /\ \A cmd \in DOMAIN Replies : Replies[cmd] \in Seq(OutputOps)
  /\ {NEWLINE, BACKSPACE, BLANK, CLEAR, REBOOT} \subseteq OutputOps
<1> USE DEF Text, Output
<1>1. {Prompt, Rebooting, Unknown, Hint} \subseteq Seq(Output)
  <2>1. Prompt \in Seq(Printable) /\ {Rebooting, Unknown, Hint} \subseteq Seq(Text)
    BY ShellAssumption
  <2> QED
    BY <2>1
<1>2. \A cmd \in DOMAIN Replies : Replies[cmd] \in Seq(Output)
  <2>1. \A cmd \in DOMAIN Replies : Replies[cmd] \in Seq(Text)
    BY ShellAssumption
  <2> QED
    BY <2>1
<1>3. {NEWLINE, BACKSPACE, BLANK, CLEAR, REBOOT} \subseteq OutputOps
  BY DEF OutputOps, Output, Printable
<1> QED
  BY <1>1, <1>2, <1>3, OutputIsOps

LEMMA CommandOutput ==
  ASSUME NEW cmd \in Seq(KeyChars)
  PROVE  process_command(cmd) \in Seq(OutputOps)
<1>1. <<CLEAR>> \in Seq(OutputOps) /\ <<REBOOT>> \in Seq(OutputOps) /\ <<NEWLINE>> \in Seq(OutputOps)
  BY TextsAreOps, OneOp
<1>2. Rebooting \o <<REBOOT>> \in Seq(OutputOps)
  BY <1>1, TextsAreOps, ConcatOps
<1>3. cmd \in Seq(OutputOps)
  BY LineIsOps
<1>4. Unknown \o cmd \o <<NEWLINE>> \o Hint \in Seq(OutputOps)
  <2>1. Unknown \o cmd \in Seq(OutputOps)
    BY <1>3, TextsAreOps, ConcatOps
  <2>2. Unknown \o cmd \o <<NEWLINE>> \in Seq(OutputOps)
    BY <1>1, <2>1, ConcatOps
  <2> QED
    BY <2>2, TextsAreOps, ConcatOps
<1>5. <<>> \in Seq(OutputOps)
  OBVIOUS
<1> QED
  BY <1>1, <1>2, <1>4, <1>5, TextsAreOps DEF process_command

-----------------------------------------------------------------------------
(* The line, and the string that Enter makes of it.                        *)

LEMMA LineSeq ==
  ASSUME NEW n \in Nat, NEW b, \A i \in 0 .. n - 1 : b[i] \in KeyChars
  PROVE  /\ [i \in 1 .. n |-> b[i - 1]] \in Seq(KeyChars)
         /\ Len([i \in 1 .. n |-> b[i - 1]]) = n
<1> DEFINE text == [i \in 1 .. n |-> b[i - 1]]
<1>1. text \in [1 .. n -> KeyChars]
  <2>1. ASSUME NEW i \in 1 .. n PROVE b[i - 1] \in KeyChars
    <3>1. i - 1 \in 0 .. n - 1
      OBVIOUS
    <3> QED
      BY <3>1
  <2> QED
    BY <2>1
<1>2. text \in Seq(KeyChars)
  BY <1>1, SeqDef
<1>3. DOMAIN text = 1 .. n
  OBVIOUS
<1> HIDE DEF text
<1>4. Len(text) = n
  BY <1>2, <1>3, LenProperties
<1> QED
  BY <1>2, <1>4 DEF text

LEMMA LineOfBuffer ==
  ASSUME IInv
  PROVE  /\ buffer_pos \in Nat
         /\ Line \in Seq(KeyChars)
         /\ Len(Line) = buffer_pos
         /\ \A i \in 1 .. buffer_pos : Line[i] = input_buffer[i - 1]
<1>1. buffer_pos \in Nat
  BY ShellAssumption DEF IInv, ShellTypeOK, Indices
<1>2. \A i \in 0 .. buffer_pos - 1 : input_buffer[i] \in KeyChars
  BY DEF IInv, LineTyped
<1> QED
  BY <1>1, <1>2, LineSeq DEF Line

(* The terminator stored by Enter ends the string where the line ends,     *)
(* whatever the rest of the buffer holds.                                  *)
LEMMA EnteredString ==
  ASSUME IInv
  PROVE  CString([input_buffer EXCEPT ![buffer_pos] = NUL]) = Line
<1> DEFINE buffer == [input_buffer EXCEPT ![buffer_pos] = NUL]
           Ends(n) == buffer[n] = NUL /\ \A i \in 0 .. n - 1 : buffer[i] # NUL
<1>1. buffer_pos \in Indices /\ buffer_pos \in Nat /\ DOMAIN buffer = Indices
  BY ShellAssumption DEF IInv, ShellTypeOK, Indices
<1>2. \A i \in 0 .. buffer_pos - 1 : buffer[i] = input_buffer[i] /\ buffer[i] # NUL
  BY <1>1, ShellAssumption DEF IInv, ShellTypeOK, LineTyped, Indices
<1>3. Ends(buffer_pos)
  BY <1>1, <1>2 DEF IInv, ShellTypeOK
<1>4. \A n \in DOMAIN buffer : Ends(n) => n = buffer_pos
  BY <1>1, <1>2, <1>3 DEF Indices
<1>5. (CHOOSE n \in DOMAIN buffer : Ends(n)) = buffer_pos
  BY <1>1, <1>3, <1>4
<1>6. CString(buffer) = [i \in 1 .. buffer_pos |-> buffer[i - 1]]
  BY <1>5 DEF CString
<1>7. \A i \in 1 .. buffer_pos : buffer[i - 1] = input_buffer[i - 1]
  BY <1>1, <1>2
<1> QED
  BY <1>6, <1>7 DEF Line

-----------------------------------------------------------------------------
(* The invariant.                                                          *)

LEMMA BootOnScreen == BootConsoles \subseteq ConsoleState
<1>1. ASSUME NEW y \in 0 .. Height - 1, NEW below \in {BLANK, Residue}
      PROVE  [p \in Cells |-> IF p[2] < y THEN BLANK ELSE below] \in Screens
  BY DEF Screens, Printable
<1> SUFFICES ASSUME NEW con \in BootConsoles PROVE con \in ConsoleState
  OBVIOUS
<1>2. PICK y \in 0 .. Height - 1, below \in {BLANK, Residue} :
        con = [cursor_x |-> 0, cursor_y |-> y,
               cell |-> [p \in Cells |-> IF p[2] < y THEN BLANK ELSE below]]
  BY DEF BootConsoles
<1>3. [p \in Cells |-> IF p[2] < y THEN BLANK ELSE below] \in Screens
  BY <1>1
<1> QED
  BY <1>2, <1>3, ConsoleAssumption DEF ConsoleState

LEMMA StartIInv ==
  ASSUME console \in ConsoleState, Start
  PROVE  IInv
<1>1. pending \in Seq(OutputOps)
  BY TextsAreOps DEF Start
<1>2. input_buffer \in [Indices -> KeyChars \cup {NUL, UNSPECIFIED}]
  BY DEF Start
<1>3. buffer_pos \in Indices /\ command \in Seq(KeyChars) /\ LineTyped
  BY ShellAssumption DEF Start, Indices, LineTyped
<1>4. resetting \in BOOLEAN /\ scrolled \in BOOLEAN
  BY DEF Start
<1> QED
  BY <1>1, <1>2, <1>3, <1>4 DEF IInv, ShellTypeOK, OutputOps

(* What a key may change keeps its type; the console is not among it.      *)
LEMMA KeyIInv ==
  ASSUME IInv, NEW c \in Keys, HandleKey(c)
  PROVE  IInv'
<1>1. UNCHANGED <<console, resetting>>
  BY DEF HandleKey
<1>2. buffer_pos \in Nat /\ 0 \in Indices
  BY LineOfBuffer, ShellAssumption DEF Indices
<1>3. pending \in Seq(OutputOps)
  BY DEF IInv, ShellTypeOK, OutputOps
<1>4. SUFFICES /\ pending' \in Seq(OutputOps)
               /\ input_buffer' \in [Indices -> KeyChars \cup {NUL, UNSPECIFIED}]
               /\ buffer_pos' \in Indices
               /\ command' \in Seq(KeyChars)
               /\ scrolled' \in BOOLEAN
               /\ LineTyped'
  BY <1>1 DEF IInv, ShellTypeOK, OutputOps
<1> USE DEF IInv, ShellTypeOK
<1>5. CASE HandleEnter
  <2>1. command' = Line /\ Line \in Seq(KeyChars)
    BY <1>5, EnteredString, LineOfBuffer DEF HandleEnter
  <2>2. <<NEWLINE>> \in Seq(OutputOps) /\ Prompt \in Seq(OutputOps)
    BY TextsAreOps, OneOp
  <2>3. process_command(command') \in Seq(OutputOps)
    BY <2>1, CommandOutput
  <2>4. <<NEWLINE>> \o process_command(command') \in Seq(OutputOps)
    BY <2>2, <2>3, ConcatOps
  <2>5. pending' \in Seq(OutputOps)
    BY <1>5, <2>2, <2>4, ConcatOps DEF HandleEnter
  <2>6. scrolled' \in BOOLEAN
    BY <1>5 DEF HandleEnter
  <2>7. input_buffer' \in [Indices -> KeyChars \cup {NUL, UNSPECIFIED}]
    BY <1>5 DEF HandleEnter
  <2>8. buffer_pos' = 0 /\ LineTyped'
    BY <1>5 DEF HandleEnter, LineTyped
  <2> QED
    BY <1>2, <2>1, <2>5, <2>6, <2>7, <2>8
<1>6. CASE HandleBackspace
  <2>1. pending' \in Seq(OutputOps)
    BY <1>6, TextsAreOps DEF HandleBackspace
  <2>2. UNCHANGED <<input_buffer, command, scrolled>>
    BY <1>6 DEF HandleBackspace
  <2>3. buffer_pos' \in Indices /\ LineTyped'
    BY <1>2, <1>6, <2>2, ShellAssumption DEF HandleBackspace, LineTyped, Indices
  <2> QED
    BY <2>1, <2>2, <2>3
<1>7. CASE HandleCtrlC /\ c = CTRL_C
  <2>1. <<"^", "C", NEWLINE>> \in Seq(OutputOps)
    BY ShellAssumption, TextsAreOps DEF OutputOps, Output, Printable
  <2>2. pending' \in Seq(OutputOps)
    BY <1>7, <2>1, TextsAreOps, ConcatOps DEF HandleCtrlC
  <2>3. scrolled' \in BOOLEAN
    BY <1>7 DEF HandleCtrlC
  <2> QED
    BY <1>2, <1>7, <2>2, <2>3 DEF HandleCtrlC, LineTyped
<1>8. CASE HandleCtrlL
  <2>1. <<CLEAR>> \in Seq(OutputOps) /\ Prompt \in Seq(OutputOps) /\ Line \in Seq(OutputOps)
    BY TextsAreOps, OneOp, LineIsOps, LineOfBuffer
  <2>2. <<CLEAR>> \o Prompt \in Seq(OutputOps)
    BY <2>1, ConcatOps
  <2>3. pending' \in Seq(OutputOps)
    BY <1>8, <2>1, <2>2, ConcatOps DEF HandleCtrlL
  <2> QED
    BY <1>8, <2>3 DEF HandleCtrlL, LineTyped, line_vars
<1>9. CASE c \in KeyChars /\ HandleChar(c)
  <2>1. pending' \in Seq(OutputOps)
    BY <1>9, KeyCharsOutput, OneOp DEF HandleChar, OutputOps
  <2>2. buffer_pos' \in Indices /\ input_buffer' \in [Indices -> KeyChars \cup {NUL, UNSPECIFIED}]
    BY <1>2, <1>9, ShellAssumption DEF HandleChar, Indices
  <2>3. LineTyped'
    BY <1>2, <1>9, ShellAssumption DEF HandleChar, LineTyped, Indices
  <2> QED
    BY <1>9, <2>1, <2>2, <2>3 DEF HandleChar
<1>10. CASE IgnoreKey(c)
  BY <1>3, <1>10 DEF IgnoreKey, LineTyped, line_vars
<1> QED
  BY <1>5, <1>6, <1>7, <1>8, <1>9, <1>10 DEF HandleKey

LEMMA EmitIInv ==
  ASSUME IInv, Emit
  PROVE  IInv'
<1>1. pending \in Seq(OutputOps) /\ pending # <<>>
  BY DEF IInv, ShellTypeOK, OutputOps, Emit
<1>2. Head(pending) \in OutputOps /\ pending' \in Seq(OutputOps)
  BY <1>1, HeadTailProperties DEF Emit
<1>3. console' \in ConsoleState
  <2>1. CASE Head(pending) \in Output /\ putChar(Head(pending))
    BY <2>1, PutStaysOn DEF putChar, IInv, ShellTypeOK
  <2>2. CASE console_clear
    BY <2>2, ClearedOnScreen DEF console_clear
  <2>3. CASE UNCHANGED console
    BY <2>3 DEF IInv, ShellTypeOK
  <2> QED
    BY <1>2, <2>1, <2>2, <2>3 DEF Emit, OutputOps
<1>4. resetting' \in BOOLEAN /\ scrolled' \in BOOLEAN
  BY DEF Emit, IInv, ShellTypeOK
<1> QED
  BY <1>2, <1>3, <1>4 DEF IInv, ShellTypeOK, OutputOps, LineTyped, Emit, line_vars

LEMMA ResetIInv ==
  ASSUME Reset
  PROVE  IInv'
<1>1. console' \in ConsoleState
  BY BootOnScreen DEF Reset
<1>2. pending' \in Seq(OutputOps)
  BY TextsAreOps DEF Reset
<1>3. input_buffer' \in [Indices -> KeyChars \cup {NUL, UNSPECIFIED}]
  BY DEF Reset
<1>4. buffer_pos' \in Indices /\ command' \in Seq(KeyChars) /\ LineTyped'
  BY ShellAssumption DEF Reset, Indices, LineTyped
<1>5. resetting' \in BOOLEAN /\ scrolled' \in BOOLEAN
  BY DEF Reset
<1> QED
  BY <1>1, <1>2, <1>3, <1>4, <1>5 DEF IInv, ShellTypeOK, OutputOps

LEMMA NextIInv == IInv /\ [ShellNext]_vars => IInv'
<1> SUFFICES ASSUME IInv, [ShellNext]_vars PROVE IInv'
  OBVIOUS
<1>1. CASE UNCHANGED vars
  BY <1>1 DEF vars, line_vars, IInv, ShellTypeOK, LineTyped
<1> QED
  BY <1>1, KeyIInv, EmitIInv, ResetIInv DEF ShellNext

LEMMA InitIInv == ShellInit => IInv
  BY StartIInv, BootOnScreen DEF ShellInit

LEMMA ShellInvariant == ShellSpec => []IInv
  BY InitIInv, NextIInv, PTL DEF ShellSpec

(* buffer_pos stays inside input_buffer with room for the terminator       *)
(* (console.c:332, 360), the cursor stays on the screen, and no stale or   *)
(* unspecified element is part of a command.                               *)
THEOREM ShellTypeCorrect == ShellSpec => []ShellTypeOK
<1>1. IInv => ShellTypeOK
  BY DEF IInv
<1> QED
  BY InitIInv, NextIInv, <1>1, PTL DEF ShellSpec

-----------------------------------------------------------------------------
(* The shell as a line editor.                                             *)

LEMMA LineKept == UNCHANGED <<input_buffer, buffer_pos>> => UNCHANGED Line
  BY DEF Line

LEMMA EmptyLine == buffer_pos = 0 => Line = <<>>
<1>1. ASSUME buffer_pos = 0 PROVE Line = <<>>
  BY <1>1 DEF Line
<1> QED
  BY <1>1

(* The line after a step, whose buffer satisfies the invariant again.      *)
LEMMA LineAfter ==
  ASSUME IInv'
  PROVE  /\ buffer_pos' \in Nat
         /\ Line' \in Seq(KeyChars)
         /\ Len(Line') = buffer_pos'
         /\ \A i \in 1 .. buffer_pos' : Line'[i] = input_buffer'[i - 1]
<1>1. buffer_pos' \in Nat
  BY ShellAssumption DEF IInv, ShellTypeOK, Indices
<1>2. LineTyped'
  BY DEF IInv
<1>3. \A i \in 0 .. buffer_pos' - 1 : input_buffer'[i] \in KeyChars
  BY <1>2 DEF LineTyped
<1> QED
  BY <1>1, <1>3, LineSeq DEF Line

LEMMA BackspaceErases ==
  ASSUME IInv, IInv', HandleBackspace
  PROVE  Line # <<>> /\ Line' = SubSeq(Line, 1, Len(Line) - 1)
<1>1. /\ buffer_pos \in Nat /\ Line \in Seq(KeyChars) /\ Len(Line) = buffer_pos
      /\ \A i \in 1 .. buffer_pos : Line[i] = input_buffer[i - 1]
  BY LineOfBuffer
<1>2. /\ Line' \in Seq(KeyChars) /\ Len(Line') = buffer_pos'
      /\ \A i \in 1 .. buffer_pos' : Line'[i] = input_buffer'[i - 1]
  BY LineAfter
<1>3. buffer_pos > 0 /\ buffer_pos' = buffer_pos - 1 /\ input_buffer' = input_buffer
  BY DEF HandleBackspace
<1> DEFINE shorter == SubSeq(Line, 1, Len(Line) - 1)
<1>4. \A i \in 1 .. Len(Line) - 1 : Line[i] \in KeyChars
  BY <1>1, ElementOfSeq
<1>5. /\ shorter \in Seq(KeyChars) /\ Len(shorter) = buffer_pos - 1
      /\ \A i \in 1 .. buffer_pos - 1 : shorter[i] = Line[i]
  BY <1>1, <1>3, <1>4
<1> HIDE DEF shorter
<1>6. ASSUME NEW i \in 1 .. Len(Line') PROVE Line'[i] = shorter[i]
  <2>1. i \in 1 .. buffer_pos' /\ i \in 1 .. buffer_pos /\ i \in 1 .. buffer_pos - 1
    BY <1>1, <1>2, <1>3
  <2>2. Line'[i] = input_buffer'[i - 1] /\ Line[i] = input_buffer[i - 1]
    BY <1>1, <1>2, <2>1
  <2>3. shorter[i] = Line[i]
    BY <1>5, <2>1
  <2> QED
    BY <1>3, <2>2, <2>3
<1>7. Line' = shorter
  BY <1>2, <1>3, <1>5, <1>6, SeqEqual
<1>8. Line # <<>>
  BY <1>1, <1>3
<1> QED
  BY <1>7, <1>8 DEF shorter

LEMMA CharInserts ==
  ASSUME IInv, IInv', NEW ch \in KeyChars, HandleChar(ch)
  PROVE  Len(Line) < LineSize - 1 /\ Line' = Append(Line, ch)
<1>1. /\ buffer_pos \in Nat /\ Line \in Seq(KeyChars) /\ Len(Line) = buffer_pos
      /\ \A i \in 1 .. buffer_pos : Line[i] = input_buffer[i - 1]
  BY LineOfBuffer
<1>2. /\ Line' \in Seq(KeyChars) /\ Len(Line') = buffer_pos'
      /\ \A i \in 1 .. buffer_pos' : Line'[i] = input_buffer'[i - 1]
  BY LineAfter
<1>3. /\ buffer_pos < LineSize - 1 /\ buffer_pos' = buffer_pos + 1
      /\ input_buffer' = [input_buffer EXCEPT ![buffer_pos] = ch]
  BY DEF HandleChar
<1>4. /\ input_buffer'[buffer_pos] = ch
      /\ \A i \in 1 .. buffer_pos : input_buffer'[i - 1] = input_buffer[i - 1]
  BY <1>1, <1>3, ShellAssumption DEF IInv, ShellTypeOK, Indices
<1> DEFINE longer == Append(Line, ch)
<1>5. /\ longer \in Seq(KeyChars) /\ Len(longer) = buffer_pos + 1
      /\ \A i \in 1 .. buffer_pos : longer[i] = Line[i]
      /\ longer[buffer_pos + 1] = ch
  BY <1>1
<1> HIDE DEF longer
<1>6. \A i \in 1 .. Len(Line') : Line'[i] = longer[i]
  BY <1>1, <1>2, <1>3, <1>4, <1>5
<1>7. Line' = longer
  BY <1>2, <1>3, <1>5, <1>6, SeqEqual
<1> QED
  BY <1>1, <1>3, <1>7 DEF longer

LEMMA KeyEdits ==
  ASSUME IInv, IInv', NEW c \in Keys, HandleKey(c)
  PROVE  [Editor!Next]_(Editor!vars)
<1> USE DEF Editor!Next, Editor!vars
<1>1. CASE HandleEnter
  <2>1. command' = Line
    BY <1>1, EnteredString DEF HandleEnter
  <2>2. Line' = <<>>
    BY <1>1 DEF HandleEnter, Line
  <2> QED
    BY <2>1, <2>2 DEF Editor!Enter
<1>2. CASE HandleBackspace
  BY <1>2, BackspaceErases DEF Editor!Erase, HandleBackspace
<1>3. CASE HandleCtrlC
  <2>1. Line' = <<>>
    BY <1>3 DEF HandleCtrlC, Line
  <2> QED
    BY <1>3, <2>1 DEF Editor!Abandon, HandleCtrlC
<1>4. CASE HandleCtrlL
  BY <1>4, LineKept DEF HandleCtrlL, line_vars
<1>5. CASE c \in KeyChars /\ HandleChar(c)
  BY <1>5, CharInserts DEF Editor!Insert, HandleChar
<1>6. CASE IgnoreKey(c)
  BY <1>6, LineKept DEF IgnoreKey, line_vars
<1> QED
  BY <1>1, <1>2, <1>3, <1>4, <1>5, <1>6 DEF HandleKey

LEMMA NextEdits ==
  ASSUME IInv, IInv', [ShellNext]_vars
  PROVE  [Editor!Next]_(Editor!vars)
<1>1. ASSUME NEW c \in Keys, HandleKey(c)
      PROVE  [Editor!Next]_(Editor!vars)
  BY <1>1, KeyEdits
<1>2. CASE Emit \/ UNCHANGED vars
  BY <1>2, LineKept DEF Emit, vars, line_vars, Editor!vars
<1>3. CASE Reset
  <2>1. Line' = <<>> /\ command' = <<>>
    BY <1>3 DEF Reset, Line
  <2> QED
    BY <2>1 DEF Editor!Next, Editor!Restart
<1> QED
  BY <1>1, <1>2, <1>3 DEF ShellNext

(* The shell implements the line editor: the commands it runs are the      *)
(* lines that were edited, for every buffer size, every console and every  *)
(* table of commands (console.c:329-365).                                  *)
THEOREM EditsLines == ShellSpec => ImplementsLineEditor
<1>1. ShellInit => Editor!Init
  BY EmptyLine DEF ShellInit, Start, Editor!Init
<1>2. IInv /\ IInv' /\ [ShellNext]_vars => [Editor!Next]_(Editor!vars)
  BY NextEdits
<1> QED
  BY InitIInv, NextIInv, <1>1, <1>2, PTL
  DEF ShellSpec, ImplementsLineEditor, Editor!Spec

-----------------------------------------------------------------------------
(* What the screen shows while the shell prints.                           *)

PromptLine == Prompt \o Line

(* Nothing the shell printed is left from cell p on.                       *)
BlankFrom(con, p) ==
  \A n \in Screenful : n >= p => CellOf(con, n) \in {BLANK, Residue}

(* The first k characters of s are in front of cell p, as far as there is  *)
(* room.                                                                   *)
ShownBefore(con, p, s, k) ==
  \A i \in 1 .. k : i <= p => CellOf(con, p - i) = s[k - i + 1]

(* The output to come ends with the prompt and the line, or with the part  *)
(* of them that is not on the screen yet.                                  *)
Printing ==
  LET n == Len(pending)
      p == Position(console)
      k == Len(PromptLine) - n
  IN  /\ pending \in Seq(Text \cup {CLEAR, REBOOT})
      /\ BlankFrom(console, p)
      /\ \A i \in 1 .. n :
           i <= Len(PromptLine) => pending[n - i + 1] = PromptLine[Len(PromptLine) - i + 1]
      /\ ShownBefore(console, p, PromptLine, k)
      /\ ~scrolled => p >= k

(* The three steps of the erase sequence.  Prompt and line end in front of *)
(* the cell that is erased.                                                *)
EraseStep(ops, p, blank) ==
  /\ pending = ops
  /\ BlankFrom(console, blank)
  /\ ShownBefore(console, p, PromptLine, Len(PromptLine))
  /\ ~scrolled => p >= Len(PromptLine)

Erasing ==
  LET p == Position(console)
  IN  \/ EraseStep(<<BACKSPACE, BLANK, BACKSPACE>>, p - 1, p)
      \/ EraseStep(<<BLANK, BACKSPACE>>, p, p + 1)
      \/ EraseStep(<<BACKSPACE>>, p - 1, p - 1)

ScreenInv == IInv /\ (Printing \/ Erasing)

LEMMA PromptAndLine ==
  ASSUME NEW line \in Seq(KeyChars)
  PROVE  /\ Prompt \o line \in Seq(Printable)
         /\ Len(Prompt) \in Nat /\ Len(line) \in Nat
         /\ Len(Prompt \o line) = Len(Prompt) + Len(line)
         /\ \A i \in 1 .. Len(Prompt) : (Prompt \o line)[i] = Prompt[i]
         /\ \A i \in 1 .. Len(line) : (Prompt \o line)[Len(Prompt) + i] = line[i]
<1>1. line \in Seq(Printable) /\ Prompt \in Seq(Printable)
  BY ShellAssumption
<1>2. Len(Prompt) \in Nat /\ Len(line) \in Nat
  BY <1>1
<1> DEFINE text == Prompt \o line
<1>3. /\ text \in Seq(Printable) /\ Len(text) = Len(Prompt) + Len(line)
      /\ \A i \in 1 .. Len(Prompt) + Len(line) :
           text[i] = IF i <= Len(Prompt) THEN Prompt[i] ELSE line[i - Len(Prompt)]
  BY <1>1, ConcatProperties
<1> HIDE DEF text
<1>4. ASSUME NEW i \in 1 .. Len(line) PROVE text[Len(Prompt) + i] = line[i]
  <2>1. PICK j \in 1 .. Len(Prompt) + Len(line) :
          j = Len(Prompt) + i /\ ~(j <= Len(Prompt)) /\ j - Len(Prompt) = i
    BY <1>2
  <2> QED
    BY <1>3, <2>1
<1>5. \A i \in 1 .. Len(Prompt) : text[i] = Prompt[i]
  BY <1>2, <1>3
<1> QED
  BY <1>2, <1>3, <1>4, <1>5 DEF text

LEMMA PromptLineNow ==
  ASSUME IInv
  PROVE  /\ buffer_pos \in Nat /\ Len(Prompt) \in Nat
         /\ PromptLine \in Seq(Printable)
         /\ Len(PromptLine) = Len(Prompt) + buffer_pos /\ Len(PromptLine) \in Nat
         /\ \A i \in 1 .. Len(Prompt) : PromptLine[i] = Prompt[i]
         /\ \A i \in 1 .. buffer_pos : PromptLine[Len(Prompt) + i] = input_buffer[i - 1]
<1>1. /\ buffer_pos \in Nat /\ Line \in Seq(KeyChars) /\ Len(Line) = buffer_pos
      /\ \A i \in 1 .. buffer_pos : Line[i] = input_buffer[i - 1]
  BY LineOfBuffer
<1> HIDE DEF Line
<1>2. PromptLine = Prompt \o Line
  BY DEF PromptLine
<1>3. /\ PromptLine \in Seq(Printable)
      /\ Len(Prompt) \in Nat /\ Len(PromptLine) = Len(Prompt) + buffer_pos
      /\ \A i \in 1 .. Len(Prompt) : PromptLine[i] = Prompt[i]
      /\ \A i \in 1 .. buffer_pos : PromptLine[Len(Prompt) + i] = Line[i]
  BY <1>1, <1>2, PromptAndLine
<1>4. \A i \in 1 .. buffer_pos : PromptLine[Len(Prompt) + i] = input_buffer[i - 1]
  BY <1>1, <1>3
<1>5. Len(PromptLine) \in Nat
  BY <1>1, <1>3
<1> QED
  BY <1>1, <1>3, <1>4, <1>5, Zenon

LEMMA PromptLineThen ==
  ASSUME IInv'
  PROVE  /\ buffer_pos' \in Nat /\ Len(Prompt) \in Nat
         /\ PromptLine' \in Seq(Printable)
         /\ Len(PromptLine') = Len(Prompt) + buffer_pos' /\ Len(PromptLine') \in Nat
         /\ \A i \in 1 .. Len(Prompt) : PromptLine'[i] = Prompt[i]
         /\ \A i \in 1 .. buffer_pos' : PromptLine'[Len(Prompt) + i] = input_buffer'[i - 1]
<1>1. /\ buffer_pos' \in Nat /\ Line' \in Seq(KeyChars) /\ Len(Line') = buffer_pos'
      /\ \A i \in 1 .. buffer_pos' : Line'[i] = input_buffer'[i - 1]
  BY LineAfter
<1>2. PromptLine' = Prompt \o Line'
  BY DEF PromptLine
<1>3. /\ PromptLine' \in Seq(Printable)
      /\ Len(Prompt) \in Nat /\ Len(PromptLine') = Len(Prompt) + buffer_pos'
      /\ \A i \in 1 .. Len(Prompt) : PromptLine'[i] = Prompt[i]
      /\ \A i \in 1 .. buffer_pos' : PromptLine'[Len(Prompt) + i] = Line'[i]
  BY <1>1, <1>2, PromptAndLine
<1>4. \A i \in 1 .. buffer_pos' : PromptLine'[Len(Prompt) + i] = input_buffer'[i - 1]
  BY <1>1, <1>3
<1>5. Len(PromptLine') \in Nat
  BY <1>1, <1>3
<1> QED
  BY <1>1, <1>3, <1>4, <1>5, Zenon

(* The lines of two steps agree as far as their buffers do.                *)
LEMMA PromptLinesAgree ==
  ASSUME IInv, IInv', NEW k \in Nat, k <= buffer_pos, k <= buffer_pos',
         \A i \in 0 .. k - 1 : input_buffer'[i] = input_buffer[i]
  PROVE  \A i \in 1 .. Len(Prompt) + k : PromptLine'[i] = PromptLine[i]
<1>1. Len(Prompt) \in Nat /\ buffer_pos \in Nat /\ buffer_pos' \in Nat
  BY PromptLineNow, PromptLineThen
<1> SUFFICES ASSUME NEW i \in 1 .. Len(Prompt) + k
             PROVE  PromptLine'[i] = PromptLine[i]
  OBVIOUS
<1>2. CASE i <= Len(Prompt)
  BY <1>1, <1>2, PromptLineNow, PromptLineThen
<1>3. CASE i > Len(Prompt)
  <2> DEFINE m == Len(Prompt)
  <2> HIDE DEF m
  <2>0. m \in Nat /\ i \in 1 .. m + k /\ i > m
    BY <1>1, <1>3 DEF m
  <2>1. PICK j \in 1 .. k : i = Len(Prompt) + j
    <3>1. i - m \in 1 .. k /\ i = m + (i - m)
      BY <2>0
    <3> QED
      BY <3>1 DEF m
  <2>2. j - 1 \in 0 .. k - 1 /\ j \in 1 .. buffer_pos /\ j \in 1 .. buffer_pos'
    BY <1>1
  <2>3. PromptLine'[Len(Prompt) + j] = input_buffer'[j - 1]
    BY <2>2, PromptLineThen
  <2>4. PromptLine[Len(Prompt) + j] = input_buffer[j - 1]
    BY <2>2, PromptLineNow
  <2> QED
    BY <2>1, <2>2, <2>3, <2>4
<1> QED
  BY <1>1, <1>2, <1>3

(* Clearing the screen leaves nothing in it, and other characters of a     *)
(* text leave nothing ahead of them.                                       *)
LEMMA ClearedBlank == \A p : BlankFrom(Cleared, p)
  BY ClearedCells DEF BlankFrom

LEMMA TextBlank ==
  ASSUME NEW con \in ConsoleState, NEW ch \in Text, BlankFrom(con, Position(con))
  PROVE  BlankFrom(Put(con, ch), Position(Put(con, ch)))
<1>1. CASE Put(con, ch) = Cleared
  BY <1>1, ClearedBlank
<1>2. CASE ch = NEWLINE /\ Put(con, ch) # Cleared
  <2>1. /\ Position(Put(con, ch)) >= Position(con)
        /\ \A n \in Screenful : CellOf(Put(con, ch), n) = CellOf(con, n)
    BY <1>2, NewlineAdvances
  <2>2. Put(con, ch) \in ConsoleState
    BY PutStaysOn DEF Text, Output
  <2>3. Position(con) \in Nat /\ Position(Put(con, ch)) \in Nat
    BY <2>2, PositionOf
  <2> QED
    BY <2>1, <2>3 DEF BlankFrom, Screenful
<1>3. CASE ch \in Printable /\ Put(con, ch) # Cleared
  <2>1. /\ Position(Put(con, ch)) = Position(con) + 1
        /\ \A n \in Screenful :
             CellOf(Put(con, ch), n) = IF n = Position(con) THEN ch ELSE CellOf(con, n)
    BY <1>3, PrintableAdvances
  <2>2. Position(con) \in Nat
    BY PositionOf
  <2> QED
    BY <2>1, <2>2 DEF BlankFrom, Screenful
<1> QED
  BY <1>1, <1>2, <1>3 DEF Text

(* A character that is printed joins those in front of the cursor, unless  *)
(* it clears the screen.                                                   *)
LEMMA PrintedShown ==
  ASSUME NEW con \in ConsoleState, NEW s, NEW k \in Nat, s[k + 1] \in Printable,
         ShownBefore(con, Position(con), s, k), ~AtBottom(con, s[k + 1])
  PROVE  /\ ShownBefore(Put(con, s[k + 1]), Position(con) + 1, s, k + 1)
         /\ Position(Put(con, s[k + 1])) = Position(con) + 1
<1> DEFINE p == Position(con)
           new == Put(con, s[k + 1])
<1>1. /\ Position(new) = p + 1
      /\ \A n \in Screenful : CellOf(new, n) = IF n = p THEN s[k + 1] ELSE CellOf(con, n)
  BY PrintableAdvances
<1>2. p \in Nat /\ p \in Screenful /\ Width * Height \in Nat
  BY PositionOf, ConsoleAssumption
<1>3. \A i \in 1 .. k : i <= p => CellOf(con, p - i) = s[k - i + 1]
  BY DEF ShownBefore
<1> HIDE DEF new, p
<1>4. ASSUME NEW i \in 1 .. k + 1, i <= p + 1
      PROVE  CellOf(new, (p + 1) - i) = s[(k + 1) - i + 1]
  <2>1. (p + 1) - i \in Screenful
    BY <1>2, <1>4 DEF Screenful
  <2>2. CASE i = 1
    <3>1. (p + 1) - i = p /\ (k + 1) - i + 1 = k + 1
      BY <1>2, <2>2
    <3> QED
      BY <1>1, <1>2, <3>1
  <2>3. CASE i > 1
    <3>1. i - 1 \in 1 .. k /\ i - 1 <= p
      BY <1>2, <1>4, <2>3
    <3>2. p - (i - 1) = (p + 1) - i /\ k - (i - 1) + 1 = (k + 1) - i + 1
      BY <1>2
    <3>3. CellOf(con, p - (i - 1)) = s[k - (i - 1) + 1]
      BY <1>3, <3>1
    <3>4. CellOf(con, (p + 1) - i) = s[(k + 1) - i + 1]
      BY <3>2, <3>3
    <3>5. (p + 1) - i # p
      BY <1>2, <2>3
    <3> QED
      BY <1>1, <2>1, <3>4, <3>5
  <2> QED
    BY <2>2, <2>3
<1>5. ShownBefore(new, p + 1, s, k + 1)
  BY <1>4 DEF ShownBefore
<1> QED
  BY <1>1, <1>5 DEF new, p

(* The next character of the output, when it is part of prompt and line.   *)
LEMMA EmitPrinting ==
  ASSUME IInv, IInv', Printing, Emit
  PROVE  Printing'
<1> DEFINE ops == Text \cup {CLEAR, REBOOT}
           op == Head(pending)
           n == Len(pending)
           len == Len(PromptLine)
           p == Position(console)
<1>1. pending \in Seq(ops) /\ pending # <<>> /\ pending' = Tail(pending)
  BY DEF Printing, Emit
<1>2. /\ n \in Nat /\ n > 0 /\ op \in ops /\ op = pending[1]
      /\ pending' \in Seq(ops) /\ Len(pending') = n - 1
      /\ \A i \in 1 .. n - 1 : pending'[i] = pending[i + 1]
  BY <1>1
<1>3. len \in Nat /\ PromptLine \in Seq(Printable) /\ PromptLine' = PromptLine
  BY PromptLineNow, LineKept DEF Emit, line_vars, PromptLine
<1>4. /\ BlankFrom(console, p)
      /\ \A i \in 1 .. n : i <= len => pending[n - i + 1] = PromptLine[len - i + 1]
      /\ ShownBefore(console, p, PromptLine, len - n)
      /\ ~scrolled => p >= len - n
  BY DEF Printing
<1>5. console \in ConsoleState /\ console' \in ConsoleState
  BY DEF IInv, ShellTypeOK
<1>6. p \in Nat /\ p \in Screenful /\ Position(console') \in Nat
  BY <1>5, PositionOf
<1>7. \A i \in 1 .. n - 1 : i <= len => pending'[n - 1 - i + 1] = PromptLine'[len - i + 1]
  <2> SUFFICES ASSUME NEW i \in 1 .. n - 1, i <= len
               PROVE  pending'[n - 1 - i + 1] = PromptLine'[len - i + 1]
    OBVIOUS
  <2>1. pending'[n - i] = pending[n - i + 1]
    BY <1>2
  <2> QED
    BY <1>2, <1>3, <1>4, <2>1
<1>8. SUFFICES /\ BlankFrom(console', Position(console'))
               /\ ShownBefore(console', Position(console'), PromptLine, len - n + 1)
               /\ ~scrolled' => Position(console') >= len - n + 1
  <2>1. len - (n - 1) = len - n + 1
    BY <1>2, <1>3
  <2> QED
    BY <1>2, <1>3, <1>7, <2>1 DEF Printing, Position
<1> HIDE DEF op, n, len, p
<1>9. BlankFrom(console', Position(console'))
  <2>1. CASE op = CLEAR /\ console' = Cleared
    BY <2>1, ClearedBlank
  <2>2. CASE UNCHANGED console
    BY <1>4, <2>2 DEF p
  <2>3. CASE op \in Text /\ console' = Put(console, op)
    BY <1>4, <1>5, <2>3, TextBlank DEF p
  <2> QED
    BY <1>2, <2>1, <2>2, <2>3 DEF Emit, op, putChar, console_clear
<1>10. CASE n > len
  <2>1. len - n + 1 <= 0
    BY <1>2, <1>3, <1>10
  <2>2. ShownBefore(console', Position(console'), PromptLine, len - n + 1)
    BY <1>2, <1>3, <2>1 DEF ShownBefore
  <2> QED
    BY <1>2, <1>3, <1>6, <1>9, <2>1, <2>2
<1>11. CASE n <= len
  <2>1. n - n + 1 = 1 /\ len - n \in Nat /\ len - n + 1 \in 1 .. len /\ n \in 1 .. n
    BY <1>2, <1>3, <1>11
  <2>2. op = PromptLine[len - n + 1] /\ op \in Printable
    BY <1>2, <1>3, <1>4, <1>11, <2>1 DEF len
  <2>3. op \notin {CLEAR, REBOOT}
    BY <2>2, ShellAssumption DEF Printable, BLANK, CLEAR, REBOOT
  <2>4. console' = Put(console, op) /\ scrolled' = (scrolled \/ AtBottom(console, op))
    BY <2>3 DEF Emit, op, putChar, AtBottom
  <2>5. CASE AtBottom(console, op)
    <3>1. console' = Cleared /\ Position(console') = 0
      BY <1>5, <2>2, <2>4, <2>5, PrintableAdvances, ClearedCells
    <3>2. ShownBefore(console', Position(console'), PromptLine, len - n + 1)
      BY <2>1, <3>1 DEF ShownBefore
    <3> QED
      BY <1>9, <2>4, <2>5, <3>2
  <2>6. CASE ~AtBottom(console, op)
    <3>1. /\ ShownBefore(console', p + 1, PromptLine, len - n + 1)
          /\ Position(console') = p + 1
      BY <1>4, <1>5, <2>1, <2>2, <2>4, <2>6, PrintedShown DEF p
    <3>2. ~scrolled' => ~scrolled
      BY <2>4, Zenon
    <3>3. p >= len - n => Position(console') >= len - n + 1
      BY <1>2, <1>3, <1>6, <3>1
    <3> QED
      BY <1>4, <1>9, <3>1, <3>2, <3>3
  <2> QED
    BY <2>5, <2>6
<1> QED
  BY <1>2, <1>3, <1>10, <1>11

(* The prompt is still to be printed, and the line behind it.              *)
LEMMA PromptQueued ==
  ASSUME IInv', BlankFrom(console', Position(console')),
         NEW before \in Seq(Text \cup {CLEAR, REBOOT}), pending' = before \o PromptLine'
  PROVE  Printing'
<1> DEFINE ops == Text \cup {CLEAR, REBOOT}
           len == Len(PromptLine')
           n == Len(pending')
           b == Len(before)
<1>1. PromptLine' \in Seq(Printable) /\ len \in Nat
  BY PromptLineThen
<1>2. PromptLine' \in Seq(ops)
  BY <1>1 DEF Text
<1> HIDE DEF ops
<1>3. /\ pending' \in Seq(ops) /\ n = b + len /\ b \in Nat
      /\ \A i \in 1 .. n : pending'[i] = IF i <= b THEN before[i] ELSE PromptLine'[i - b]
  BY <1>2, ConcatProperties DEF ops
<1>4. console' \in ConsoleState
  BY DEF IInv, ShellTypeOK
<1>5. Position(console') \in Nat
  BY <1>4, PositionOf
<1> HIDE DEF len, n, b
<1>6. ASSUME NEW i \in 1 .. n, i <= len
      PROVE  pending'[n - i + 1] = PromptLine'[len - i + 1]
  <2>1. PICK j \in 1 .. n : j = n - i + 1 /\ ~(j <= b) /\ j - b = len - i + 1
    BY <1>1, <1>3, <1>6
  <2>2. pending'[j] = PromptLine'[j - b]
    BY <1>3, <2>1
  <2> QED
    BY <2>1, <2>2
<1>7. len - n <= 0
  BY <1>1, <1>3
<1>8. ShownBefore(console', Position(console'), PromptLine', len - n)
  BY <1>1, <1>3, <1>7 DEF ShownBefore
<1>9. Position(console') >= len - n
  BY <1>1, <1>3, <1>5, <1>7
<1> QED
  BY <1>3, <1>6, <1>8, <1>9 DEF Printing, ops, len, n, Position

LEMMA PromptIsAll == buffer_pos' = 0 => PromptLine' = Prompt
<1> SUFFICES ASSUME buffer_pos' = 0 PROVE PromptLine' = Prompt
  OBVIOUS
<1>1. Line' = <<>>
  BY DEF Line
<1> QED
  BY <1>1, ShellAssumption DEF PromptLine

LEMMA KeyScreen ==
  ASSUME ScreenInv, IInv', NEW c \in Keys, HandleKey(c)
  PROVE  Printing' \/ Erasing'
<1> DEFINE ops == Text \cup {CLEAR, REBOOT}
           len == Len(PromptLine)
           p == Position(console)
<1>1. pending = <<>> /\ console' = console
  BY DEF HandleKey
<1>2. Printing
  <2>1. ~Erasing
    BY <1>1 DEF Erasing, EraseStep
  <2> QED
    BY <2>1 DEF ScreenInv
<1>3. IInv
  BY DEF ScreenInv
<1>4. len \in Nat /\ buffer_pos \in Nat /\ PromptLine \in Seq(Printable)
  BY <1>3, PromptLineNow
<1>5. Len(pending) = 0 /\ len - 0 = len
  BY <1>1, <1>4
<1>6. /\ BlankFrom(console, p)
      /\ ShownBefore(console, p, PromptLine, len)
      /\ ~scrolled => p >= len
  BY <1>2, <1>5 DEF Printing
<1>7. BlankFrom(console', Position(console'))
  BY <1>1, <1>6
<1>8. console \in ConsoleState /\ p \in Nat
  BY <1>3, PositionOf DEF IInv, ShellTypeOK
<1>9. Prompt \in Seq(ops) /\ <<NEWLINE>> \in Seq(ops) /\ <<CLEAR>> \in Seq(ops)
  BY ShellAssumption DEF Text
<1>10. CASE HandleEnter
  <2>1. command' = Line /\ Line \in Seq(KeyChars)
    BY <1>3, <1>10, EnteredString, LineOfBuffer DEF HandleEnter
  <2>2. process_command(command') \in Seq(ops)
    <3>1. /\ <<CLEAR>> \in Seq(ops) /\ <<REBOOT>> \in Seq(ops) /\ <<>> \in Seq(ops)
          /\ Rebooting \in Seq(ops) /\ Unknown \in Seq(ops) /\ Hint \in Seq(ops)
      BY ShellAssumption
    <3>2. command' \in Seq(ops)
      BY <2>1, ShellAssumption DEF Text
    <3>3. Unknown \o command' \in Seq(ops) /\ Rebooting \o <<REBOOT>> \in Seq(ops)
      BY <3>1, <3>2, ConcatProperties
    <3>4. Unknown \o command' \o <<NEWLINE>> \in Seq(ops)
      BY <1>9, <3>3, ConcatProperties
    <3>5. Unknown \o command' \o <<NEWLINE>> \o Hint \in Seq(ops)
      BY <3>1, <3>4, ConcatProperties
    <3>6. \A cmd \in DOMAIN Replies : Replies[cmd] \in Seq(Text)
      BY ShellAssumption
    <3>7. \A cmd \in DOMAIN Replies : Replies[cmd] \in Seq(ops)
      BY <3>6
    <3> HIDE DEF ops
    <3> QED
      BY <3>1, <3>3, <3>5, <3>7 DEF process_command
  <2>3. <<NEWLINE>> \o process_command(command') \in Seq(ops)
    BY <1>9, <2>2, ConcatProperties
  <2>4. pending' = <<NEWLINE>> \o process_command(command') \o PromptLine'
    BY <1>10, PromptIsAll DEF HandleEnter
  <2> QED
    BY <1>7, <2>3, <2>4, PromptQueued
<1>11. CASE HandleBackspace
  <2>1. /\ buffer_pos > 0 /\ buffer_pos' = buffer_pos - 1 /\ UNCHANGED <<input_buffer, scrolled>>
        /\ pending' = <<BACKSPACE, BLANK, BACKSPACE>>
    BY <1>11 DEF HandleBackspace
  <2>2. /\ Len(PromptLine') = len - 1
        /\ \A i \in 1 .. len - 1 : PromptLine'[i] = PromptLine[i]
    <3>1. Len(PromptLine') = len - 1 /\ Len(Prompt) + buffer_pos' = len - 1
      BY <1>3, <1>4, <2>1, PromptLineNow, PromptLineThen
    <3>2. \A i \in 1 .. Len(Prompt) + buffer_pos' : PromptLine'[i] = PromptLine[i]
      <4>1. /\ buffer_pos' \in Nat /\ buffer_pos' <= buffer_pos /\ buffer_pos' <= buffer_pos'
            /\ \A i \in 0 .. buffer_pos' - 1 : input_buffer'[i] = input_buffer[i]
        BY <1>4, <2>1
      <4> QED
        BY <1>3, <4>1, PromptLinesAgree
    <3> QED
      BY <3>1, <3>2
  <2>3. ASSUME NEW i \in 1 .. len - 1, i <= p - 1
        PROVE  CellOf(console, (p - 1) - i) = PromptLine'[(len - 1) - i + 1]
    <3>1. i + 1 \in 1 .. len /\ i + 1 <= p /\ p - (i + 1) = (p - 1) - i
          /\ len - (i + 1) + 1 = (len - 1) - i + 1 /\ (len - 1) - i + 1 \in 1 .. len - 1
      BY <1>4, <1>8, <2>3
    <3>2. CellOf(console, p - (i + 1)) = PromptLine[len - (i + 1) + 1]
      BY <1>6, <3>1 DEF ShownBefore
    <3> HIDE DEF p, len
    <3> QED
      BY <2>2, <3>1, <3>2
  <2>4. ShownBefore(console, p - 1, PromptLine', len - 1)
    BY <2>3 DEF ShownBefore
  <2>5. ~scrolled => p - 1 >= len - 1
    BY <1>4, <1>6, <1>8
  <2>6. EraseStep(<<BACKSPACE, BLANK, BACKSPACE>>, p - 1, p)'
    BY <1>1, <1>6, <2>1, <2>2, <2>4, <2>5 DEF EraseStep, Position
  <2> QED
    BY <2>6 DEF Erasing, Position
<1>12. CASE HandleCtrlC
  <2>1. <<"^", "C", NEWLINE>> \in Seq(ops)
    BY ShellAssumption DEF Text, Printable
  <2>2. pending' = <<"^", "C", NEWLINE>> \o PromptLine'
    BY <1>12, PromptIsAll DEF HandleCtrlC
  <2> QED
    BY <1>7, <2>1, <2>2, PromptQueued
<1>13. CASE HandleCtrlL
  <2>1. PromptLine' = Prompt \o Line
    BY <1>13 DEF HandleCtrlL, line_vars, PromptLine, Line
  <2>2. Line \in Seq(ops)
    BY <1>3, LineOfBuffer, ShellAssumption DEF Text
  <2>3. pending' = <<CLEAR>> \o (Prompt \o Line)
    BY <1>9, <1>13, <2>2, ConcatAssociative DEF HandleCtrlL
  <2> QED
    BY <1>7, <1>9, <2>1, <2>3, PromptQueued
<1>14. CASE c \in KeyChars /\ HandleChar(c)
  <2>1. /\ buffer_pos < LineSize - 1 /\ buffer_pos' = buffer_pos + 1
        /\ input_buffer' = [input_buffer EXCEPT ![buffer_pos] = c]
        /\ pending' = <<c>> /\ UNCHANGED scrolled
    BY <1>14 DEF HandleChar
  <2>2. buffer_pos \in Indices /\ DOMAIN input_buffer = Indices /\ Len(Prompt) \in Nat
    BY <1>3, ShellAssumption DEF IInv, ShellTypeOK
  <2>3. input_buffer'[buffer_pos] = c /\ \A i \in Indices : i # buffer_pos => input_buffer'[i] = input_buffer[i]
    BY <1>3, <2>1, <2>2 DEF IInv, ShellTypeOK
  <2>4. /\ Len(PromptLine') = len + 1
        /\ PromptLine'[len + 1] = c
        /\ \A i \in 1 .. len : PromptLine'[i] = PromptLine[i]
    <3>1. Len(PromptLine') = len + 1 /\ Len(Prompt) + buffer_pos = len
      BY <1>3, <1>4, <2>1, PromptLineNow, PromptLineThen
    <3>2. \A i \in 0 .. buffer_pos - 1 : input_buffer'[i] = input_buffer[i]
      BY <1>4, <2>2, <2>3, ShellAssumption DEF Indices
    <3>3. \A i \in 1 .. Len(Prompt) + buffer_pos : PromptLine'[i] = PromptLine[i]
      <4>1. buffer_pos \in Nat /\ buffer_pos <= buffer_pos /\ buffer_pos <= buffer_pos'
        BY <1>4, <2>1
      <4> QED
        BY <1>3, <3>2, <4>1, PromptLinesAgree
    <3>4. PromptLine'[Len(Prompt) + (buffer_pos + 1)] = input_buffer'[(buffer_pos + 1) - 1]
      <4>1. buffer_pos + 1 \in 1 .. buffer_pos'
        BY <1>4, <2>1
      <4> QED
        BY <4>1, PromptLineThen
    <3>5. Len(Prompt) + (buffer_pos + 1) = len + 1 /\ (buffer_pos + 1) - 1 = buffer_pos
      BY <1>4, <2>2, <3>1
    <3>6. PromptLine'[len + 1] = c
      BY <2>3, <3>4, <3>5
    <3> HIDE DEF len
    <3> QED
      BY <3>1, <3>3, <3>6
  <2>5. ShownBefore(console, p, PromptLine', len)
    BY <1>4, <1>6, <2>4 DEF ShownBefore
  <2>6. pending' \in Seq(ops) /\ Len(pending') = 1 /\ pending'[1] = c
    BY <1>14, <2>1, ShellAssumption DEF Text
  <2>7. (len + 1) - 1 = len
    BY <1>4
  <2>8. \A i \in 1 .. 1 : i <= len + 1 => pending'[1 - i + 1] = PromptLine'[(len + 1) - i + 1]
    BY <1>4, <2>4, <2>6
  <2> HIDE DEF len, ops
  <2>9. Printing'
    BY <1>1, <1>6, <2>1, <2>4, <2>5, <2>6, <2>7, <2>8 DEF Printing, Position, ops
  <2> QED
    BY <2>9
<1>15. CASE IgnoreKey(c)
  BY <1>1, <1>2, <1>15, LineKept DEF IgnoreKey, line_vars, Printing, PromptLine, Position
<1> QED
  BY <1>10, <1>11, <1>12, <1>13, <1>14, <1>15 DEF HandleKey

(* A backspace changes no cell, so what is blank and what is shown stays.  *)
LEMMA CellsKept ==
  ASSUME NEW con, NEW new, \A n \in Screenful : CellOf(new, n) = CellOf(con, n)
  PROVE  /\ \A p : BlankFrom(con, p) => BlankFrom(new, p)
         /\ \A p \in Int : \A s, k : p < Width * Height /\ ShownBefore(con, p, s, k)
                                     => ShownBefore(new, p, s, k)
<1>1. \A p : BlankFrom(con, p) => BlankFrom(new, p)
  BY DEF BlankFrom
<1>2. ASSUME NEW p \in Int, NEW s, NEW k, p < Width * Height, ShownBefore(con, p, s, k),
             NEW i \in 1 .. k, i <= p
      PROVE  CellOf(new, p - i) = s[k - i + 1]
  <2>1. p - i \in Screenful
    BY <1>2, ConsoleAssumption DEF Screenful
  <2> QED
    BY <1>2, <2>1 DEF ShownBefore
<1>3. ASSUME NEW p \in Int, NEW s, NEW k, p < Width * Height, ShownBefore(con, p, s, k)
      PROVE  ShownBefore(new, p, s, k)
  BY <1>2, <1>3 DEF ShownBefore
<1> QED
  BY <1>1, <1>3

LEMMA BackspaceKeeps ==
  ASSUME IInv, Erasing, Emit, Head(pending) = BACKSPACE,
         NEW s, NEW len \in Nat, ShownBefore(console, Position(console) - 1, s, len),
         ~scrolled => Position(console) - 1 >= len
  PROVE  /\ console' = Put(console, BACKSPACE) /\ scrolled' = scrolled
         /\ Position(console') = IF Position(console) = 0 THEN 0 ELSE Position(console) - 1
         /\ \A p : BlankFrom(console, p) => BlankFrom(console', p)
         /\ ShownBefore(console', Position(console'), s, len)
         /\ ~scrolled' => Position(console') >= len
<1> DEFINE p == Position(console)
<1>1. console \in ConsoleState /\ p \in Nat /\ p < Width * Height /\ scrolled \in BOOLEAN
  <2>1. console \in ConsoleState /\ scrolled \in BOOLEAN
    BY DEF IInv, ShellTypeOK
  <2>2. p \in Nat /\ p \in Screenful
    BY <2>1, PositionOf
  <2>3. Width * Height \in Nat
    BY ConsoleAssumption
  <2> HIDE DEF p
  <2> QED
    BY <2>1, <2>2, <2>3 DEF Screenful
<1>2. /\ ~AtBottom(console, BACKSPACE)
      /\ Position(Put(console, BACKSPACE)) = IF p = 0 THEN 0 ELSE p - 1
      /\ \A n \in Screenful : CellOf(Put(console, BACKSPACE), n) = CellOf(console, n)
  BY <1>1, BackspaceRetreats
<1>3. console' = Put(console, BACKSPACE) /\ scrolled' = scrolled
  <2>1. BACKSPACE \notin {CLEAR, REBOOT}
    BY DEF BACKSPACE, CLEAR, REBOOT
  <2>2. /\ console' = Put(console, BACKSPACE)
        /\ scrolled' = (scrolled \/ AtBottom(console, BACKSPACE))
    BY <2>1 DEF Emit, putChar, AtBottom
  <2> QED
    BY <1>1, <1>2, <2>2
<1>4. /\ \A q : BlankFrom(console, q) => BlankFrom(console', q)
      /\ ShownBefore(console', p - 1, s, len)
  <2>1. p - 1 \in Int /\ p - 1 < Width * Height
    BY <1>1, ConsoleAssumption
  <2>2. \A n \in Screenful : CellOf(console', n) = CellOf(console, n)
    BY <1>2, <1>3
  <2> HIDE DEF p
  <2>3. ShownBefore(console, p - 1, s, len)
    BY DEF p
  <2> QED
    BY <2>1, <2>2, <2>3, CellsKept
<1>5. p' = IF p = 0 THEN 0 ELSE p - 1
  BY <1>2, <1>3
<1> HIDE DEF p
<1>6. ShownBefore(console', p', s, len)
  <2>1. CASE p = 0
    BY <1>5, <2>1 DEF ShownBefore
  <2>2. CASE p # 0
    BY <1>4, <1>5, <2>2
  <2> QED
    BY <2>1, <2>2
<1>7. ~scrolled' => p' >= len
  <2>1. ~scrolled => p - 1 >= len
    BY DEF p
  <2> QED
    BY <1>1, <1>3, <1>5, <2>1
<1> QED
  BY <1>3, <1>4, <1>5, <1>6, <1>7 DEF p, Position

LEMMA EmitErasing ==
  ASSUME IInv, IInv', Erasing, Emit
  PROVE  Printing' \/ Erasing'
<1> DEFINE p == Position(console)
           len == Len(PromptLine)
<1>1. len \in Nat /\ PromptLine' = PromptLine
  BY PromptLineNow, LineKept DEF Emit, line_vars, PromptLine
<1>2. console \in ConsoleState /\ scrolled \in BOOLEAN
  BY DEF IInv, ShellTypeOK
<1>3. p \in Nat /\ p \in Screenful
  BY <1>2, PositionOf
<1>4. pending' = Tail(pending)
  BY DEF Emit
<1>5. CASE EraseStep(<<BACKSPACE, BLANK, BACKSPACE>>, p - 1, p)
  <2>1. Head(pending) = BACKSPACE /\ pending' = <<BLANK, BACKSPACE>>
    BY <1>4, <1>5 DEF EraseStep
  <2>2. /\ BlankFrom(console, p) /\ ShownBefore(console, p - 1, PromptLine, len)
        /\ ~scrolled => p - 1 >= len
    BY <1>5 DEF EraseStep
  <2>3. /\ p' = IF p = 0 THEN 0 ELSE p - 1
        /\ BlankFrom(console', p)
        /\ ShownBefore(console', p', PromptLine, len)
        /\ ~scrolled' => p' >= len
    BY <1>1, <2>1, <2>2, BackspaceKeeps
  <2> HIDE DEF p
  <2>4. BlankFrom(console', p' + 1)
    BY <1>3, <2>3 DEF BlankFrom
  <2>5. EraseStep(<<BLANK, BACKSPACE>>, p, p + 1)'
    BY <1>1, <2>1, <2>3, <2>4 DEF EraseStep
  <2> QED
    BY <2>5 DEF Erasing, p
<1>6. CASE EraseStep(<<BLANK, BACKSPACE>>, p, p + 1)
  <2>1. Head(pending) = BLANK /\ pending' = <<BACKSPACE>>
    BY <1>4, <1>6 DEF EraseStep
  <2>2. /\ BlankFrom(console, p + 1) /\ ShownBefore(console, p, PromptLine, len)
        /\ ~scrolled => p >= len
    BY <1>6 DEF EraseStep
  <2>3. console' = Put(console, BLANK) /\ scrolled' = (scrolled \/ AtBottom(console, BLANK))
    <3>1. BLANK \notin {CLEAR, REBOOT}
      BY DEF BLANK, CLEAR, REBOOT
    <3> QED
      BY <2>1, <3>1 DEF Emit, putChar, AtBottom
  <2>4. BLANK \in Printable
    BY DEF Printable
  <2>5. CASE p + 1 = Width * Height
    <3>1. console' = Cleared /\ scrolled' = TRUE
      BY <1>2, <2>3, <2>4, <2>5, PrintableAdvances
    <3>2. p' = 0 /\ BlankFrom(console', p' - 1)
      BY <3>1, ClearedCells, ClearedBlank
    <3>3. ShownBefore(console', p' - 1, PromptLine, len)
      BY <3>2 DEF ShownBefore
    <3>4. EraseStep(<<BACKSPACE>>, p - 1, p - 1)'
      BY <1>1, <2>1, <3>1, <3>2, <3>3 DEF EraseStep
    <3> QED
      BY <3>4 DEF Erasing
  <2>6. CASE p + 1 # Width * Height
    <3>1. /\ ~AtBottom(console, BLANK) /\ p' = p + 1
          /\ \A n \in Screenful : CellOf(console', n) = IF n = p THEN BLANK ELSE CellOf(console, n)
      BY <1>2, <2>3, <2>4, <2>6, PrintableAdvances
    <3>2. scrolled' = scrolled
      BY <1>2, <2>3, <3>1
    <3> HIDE DEF p
    <3>3. p' - 1 = p
      BY <1>3, <3>1
    <3>4. BlankFrom(console', p)
      BY <1>3, <2>2, <3>1 DEF BlankFrom, Screenful
    <3>5. ShownBefore(console', p, PromptLine, len)
      <4> SUFFICES ASSUME NEW i \in 1 .. len, i <= p
                   PROVE  CellOf(console', p - i) = PromptLine[len - i + 1]
        BY DEF ShownBefore
      <4>1. p - i \in Screenful /\ p - i # p
        BY <1>3, ConsoleAssumption DEF Screenful
      <4> QED
        BY <2>2, <3>1, <4>1 DEF ShownBefore
    <3>6. EraseStep(<<BACKSPACE>>, p - 1, p - 1)'
      BY <1>1, <2>1, <2>2, <3>2, <3>3, <3>4, <3>5 DEF EraseStep
    <3> QED
      BY <3>6 DEF Erasing, p
  <2> QED
    BY <2>5, <2>6
<1>7. CASE EraseStep(<<BACKSPACE>>, p - 1, p - 1)
  <2>1. Head(pending) = BACKSPACE /\ pending' = <<>>
    BY <1>4, <1>7 DEF EraseStep
  <2>2. /\ BlankFrom(console, p - 1) /\ ShownBefore(console, p - 1, PromptLine, len)
        /\ ~scrolled => p - 1 >= len
    BY <1>7 DEF EraseStep
  <2>3. /\ p' = IF p = 0 THEN 0 ELSE p - 1
        /\ BlankFrom(console', p - 1)
        /\ ShownBefore(console', p', PromptLine, len)
        /\ ~scrolled' => p' >= len
    BY <1>1, <2>1, <2>2, BackspaceKeeps
  <2> HIDE DEF p, len
  <2>4. BlankFrom(console', p')
    BY <1>3, <2>3 DEF BlankFrom, Screenful
  <2>5. Len(<<>>) = 0 /\ len - 0 = len /\ <<>> \in Seq(Text \cup {CLEAR, REBOOT})
    BY <1>1
  <2>6. Printing'
    BY <1>1, <2>1, <2>3, <2>4, <2>5 DEF Printing, p, len
  <2> QED
    BY <2>6
<1> QED
  BY <1>5, <1>6, <1>7 DEF Erasing

(* At the prompt of a kernel that has just started.                        *)
LEMMA BootBlank ==
  ASSUME NEW con \in BootConsoles, NEW p
  PROVE  BlankFrom(con, p)
<1>1. \A c \in Cells : con.cell[c] \in {BLANK, Residue}
  BY DEF BootConsoles
<1> QED
  BY <1>1, CellsInOrder DEF BlankFrom, CellOf

LEMMA ResetScreen ==
  ASSUME IInv', Reset
  PROVE  Printing'
<1>1. PromptLine' = Prompt /\ pending' = Prompt
  BY PromptIsAll DEF Reset
<1>2. BlankFrom(console', Position(console'))
  BY BootBlank DEF Reset
<1>3. <<>> \in Seq(Text \cup {CLEAR, REBOOT}) /\ Prompt = <<>> \o Prompt
  BY ShellAssumption
<1> QED
  BY <1>1, <1>2, <1>3, PromptQueued

LEMMA InitScreen == ShellInit => ScreenInv
<1> SUFFICES ASSUME ShellInit PROVE ScreenInv
  OBVIOUS
<1>1. IInv /\ pending = Prompt /\ buffer_pos = 0
  BY InitIInv DEF ShellInit, Start
<1>2. Line = <<>>
  BY <1>1 DEF Line
<1>3. PromptLine = Prompt
  BY <1>2, ShellAssumption DEF PromptLine
<1>4. Prompt \in Seq(Text \cup {CLEAR, REBOOT}) /\ Len(Prompt) \in Nat
  BY ShellAssumption DEF Text
<1>5. BlankFrom(console, Position(console))
  BY BootBlank DEF ShellInit
<1>6. console \in ConsoleState
  BY <1>1 DEF IInv, ShellTypeOK
<1>7. Position(console) \in Nat
  BY <1>6, PositionOf
<1>8. Len(Prompt) - Len(Prompt) = 0
  BY <1>4
<1>9. ShownBefore(console, Position(console), Prompt, 0)
  BY DEF ShownBefore
<1>10. Printing
  BY <1>1, <1>3, <1>4, <1>5, <1>7, <1>8, <1>9 DEF Printing
<1> QED
  BY <1>1, <1>10 DEF ScreenInv

LEMMA NextScreen == ScreenInv /\ [ShellNext]_vars => ScreenInv'
<1> SUFFICES ASSUME ScreenInv, [ShellNext]_vars PROVE ScreenInv'
  OBVIOUS
<1>1. IInv /\ IInv'
  BY NextIInv DEF ScreenInv
<1>2. CASE UNCHANGED vars
  <2>1. UNCHANGED PromptLine
    BY <1>2, LineKept DEF vars, line_vars, PromptLine
  <2> QED
    BY <1>1, <1>2, <2>1 DEF vars, ScreenInv, Printing, Erasing, EraseStep, Position
<1>3. CASE Emit
  BY <1>1, <1>3, EmitPrinting, EmitErasing DEF ScreenInv
<1>4. CASE Reset
  BY <1>1, <1>4, ResetScreen DEF ScreenInv
<1>5. ASSUME NEW c \in Keys, HandleKey(c) PROVE ScreenInv'
  BY <1>1, <1>5, KeyScreen DEF ScreenInv
<1> QED
  BY <1>2, <1>3, <1>4, <1>5 DEF ShellNext

LEMMA AtRest ==
  ASSUME ScreenInv, pending = <<>>
  PROVE  LineOnScreen /\ NothingAhead
<1> DEFINE p == Position(console)
           len == Len(PromptLine)
<1>1. Printing
  BY DEF ScreenInv, Erasing, EraseStep
<1>2. IInv /\ len \in Nat
  BY PromptLineNow DEF ScreenInv
<1>3. Len(pending) = 0 /\ len - 0 = len
  BY <1>2
<1>4. /\ BlankFrom(console, p) /\ ShownBefore(console, p, PromptLine, len)
      /\ ~scrolled => p >= len
  BY <1>1, <1>3 DEF Printing
<1>5. p \in Nat /\ Width * Height \in Nat
  <2>1. console \in ConsoleState
    BY <1>2 DEF IInv, ShellTypeOK
  <2> QED
    BY <2>1, PositionOf, ConsoleAssumption
<1>6. LineOnScreen
  BY <1>2, <1>4 DEF LineOnScreen, ShownBefore, PromptLine, CellAt, CellOf
<1> HIDE DEF p
<1>7. ASSUME NEW n \in p .. Width * Height - 1 PROVE CellAt(n) \in {BLANK, Residue}
  <2>1. n \in Screenful /\ n >= p
    BY <1>5 DEF Screenful
  <2> QED
    BY <1>4, <2>1 DEF BlankFrom, CellAt, CellOf
<1>8. NothingAhead
  BY <1>7 DEF NothingAhead, p
<1> QED
  BY <1>6, <1>8

LEMMA ScreenAlways == ShellSpec => []ScreenInv
  BY InitScreen, NextScreen, PTL DEF ShellSpec

(* For every screen size, prompt and command, whenever the shell waits for *)
(* a key the end of the prompt and the line stand before the cursor, after *)
(* any typing, erasing across rows (console.c:68-74), Ctrl+C, Ctrl+L and   *)
(* wrapping; what is missing is what a clear at the bottom row wiped.      *)
THEOREM ScreenShowsLine == ShellSpec => []LineOnScreen
<1>1. ScreenInv => LineOnScreen
  BY AtRest DEF LineOnScreen
<1> QED
  BY <1>1, ScreenAlways, PTL

(* Nothing that the shell printed is left at the cursor or after it when   *)
(* it waits for a key: the erase sequence (console.c:341) and the clears   *)
(* blank every cell that the cursor retreats over.                         *)
THEOREM NothingStaleAhead == ShellSpec => []NothingAhead
<1>1. ScreenInv => NothingAhead
  BY AtRest DEF NothingAhead
<1> QED
  BY <1>1, ScreenAlways, PTL

-----------------------------------------------------------------------------
(* The key buffer in front of the shell.                                   *)

QueueInv == queue \in Seq(Keys)

LEMMA QueueOfKeys == TerminalSpec => []QueueInv
<1>1. TerminalInit => QueueInv
  BY DEF TerminalInit, QueueInv
<1>2. QueueInv /\ [TerminalNext]_terminal_vars => QueueInv'
  <2> SUFFICES ASSUME QueueInv, [TerminalNext]_terminal_vars
               PROVE  QueueInv'
    OBVIOUS
  <2>1. CASE \E key \in Keys : keyboard_buffer_add(key)
    BY <2>1 DEF QueueInv, keyboard_buffer_add
  <2>2. CASE keyboard_getchar
    BY <2>2 DEF QueueInv, keyboard_getchar
  <2>3. CASE Emit /\ UNCHANGED queue
    BY <2>3 DEF QueueInv
  <2>4. CASE Restart
    BY <2>4 DEF QueueInv, Restart
  <2>5. CASE UNCHANGED terminal_vars
    BY <2>5 DEF QueueInv, terminal_vars
  <2> QED
    BY <2>1, <2>2, <2>3, <2>4, <2>5 DEF TerminalNext, ShellStep
<1> QED
  BY <1>1, <1>2, PTL DEF TerminalSpec

LEMMA TerminalStepIsShellStep ==
  QueueInv /\ [TerminalNext]_terminal_vars => [ShellNext]_vars
<1> SUFFICES ASSUME QueueInv, [TerminalNext]_terminal_vars
             PROVE  [ShellNext]_vars
  OBVIOUS
<1>1. CASE \E key \in Keys : keyboard_buffer_add(key)
  BY <1>1 DEF keyboard_buffer_add
<1>2. CASE keyboard_getchar
  <2>1. Head(queue) \in Keys
    BY <1>2 DEF QueueInv, keyboard_getchar
  <2> QED
    BY <1>2, <2>1 DEF keyboard_getchar, ShellNext
<1>3. CASE Emit /\ UNCHANGED queue
  BY <1>3 DEF ShellNext
<1>4. CASE Restart
  BY <1>4 DEF Restart, ShellNext
<1>5. CASE UNCHANGED terminal_vars
  BY <1>5 DEF terminal_vars
<1> QED
  BY <1>1, <1>2, <1>3, <1>4, <1>5 DEF TerminalNext, ShellStep

(* Whenever keys are typed and whatever waits, the shell goes on as it     *)
(* does when keys come from outside; interrupts are stutters.              *)
THEOREM TerminalIsShell == TerminalSpec => ShellSpec
<1>1. TerminalInit => ShellInit
  BY DEF TerminalInit
<1> QED
  BY <1>1, QueueOfKeys, TerminalStepIsShellStep, PTL DEF TerminalSpec, ShellSpec

(* The line stays in its buffer and the commands that run are the lines    *)
(* that were edited, also when keys are typed ahead.                       *)
THEOREM TerminalEditsLines == TerminalSpec => []ShellTypeOK /\ ImplementsLineEditor
BY TerminalIsShell, ShellTypeCorrect, EditsLines, PTL

-----------------------------------------------------------------------------
(* Induction on the natural numbers, for a set in the place of a           *)
(* predicate.                                                              *)

LEMMA LeastNat ==
  ASSUME NEW T, T \subseteq Nat, T # {}
  PROVE  \E x \in T : \A y \in T : x <= y
<1>1. PICK x \in T : \A y \in T : <<y, x>> \notin OpToRel(<, Nat)
  BY NatLessThanWellFounded, WFMin
<1>2. \A y \in T : <<y, x>> \in Nat \X Nat
  OBVIOUS
<1>3. \A y \in T : ~(y < x)
  BY <1>1, <1>2 DEF OpToRel
<1> QED
  BY <1>3

LEMMA SetInduction ==
  ASSUME NEW S, 0 \in S, \A n \in Nat : n \in S => n + 1 \in S
  PROVE  Nat \subseteq S
<1> SUFFICES ASSUME Nat \ S # {} PROVE FALSE
  OBVIOUS
<1>1. PICK x \in Nat \ S : \A y \in Nat \ S : x <= y
  BY LeastNat
<1>2. x - 1 \in Nat /\ x - 1 \in S
  BY <1>1
<1> QED
  BY <1>1, <1>2

-----------------------------------------------------------------------------
(* Keys that edit a line one after the other.                              *)

(* f is the course of the states when the first m of the keys edit s.      *)
Course(f, s, keys, m) ==
  f = [n \in 0 .. m |-> IF n = 0 THEN s ELSE Edit(f[n - 1], keys[n])]

LEMMA CourseSteps ==
  ASSUME NEW f, NEW s, NEW keys, NEW m \in Nat, Course(f, s, keys, m)
  PROVE  f[0] = s /\ \A n \in 1 .. m : f[n] = Edit(f[n - 1], keys[n])
<1>1. \A n \in 0 .. m : f[n] = IF n = 0 THEN s ELSE Edit(f[n - 1], keys[n])
  BY DEF Course
<1> QED
  BY <1>1

LEMMA CourseExists ==
  ASSUME NEW s, NEW keys, NEW m \in Nat
  PROVE  \E f : Course(f, s, keys, m)
<1> DEFINE S == {k \in Nat : \E f : Course(f, s, keys, k)}
<1>1. 0 \in S
  <2>1. Course([n \in 0 .. 0 |-> s], s, keys, 0)
    BY DEF Course
  <2> QED
    BY <2>1
<1>2. ASSUME NEW k \in Nat, k \in S PROVE k + 1 \in S
  <2>1. PICK f : Course(f, s, keys, k)
    BY <1>2
  <2>2. f[0] = s /\ \A n \in 1 .. k : f[n] = Edit(f[n - 1], keys[n])
    BY <2>1, CourseSteps
  <2> DEFINE g == [n \in 0 .. k + 1 |-> IF n <= k THEN f[n] ELSE Edit(f[k], keys[k + 1])]
  <2>3. \A n \in 0 .. k + 1 : g[n] = IF n = 0 THEN s ELSE Edit(g[n - 1], keys[n])
    <3> SUFFICES ASSUME NEW n \in 0 .. k + 1
                 PROVE  g[n] = IF n = 0 THEN s ELSE Edit(g[n - 1], keys[n])
      OBVIOUS
    <3>1. CASE n = 0
      BY <2>2, <3>1
    <3>2. CASE n \in 1 .. k
      <4>1. g[n] = f[n] /\ g[n - 1] = f[n - 1]
        BY <3>2
      <4> QED
        BY <2>2, <3>2, <4>1
    <3>3. CASE n = k + 1
      <4>1. g[n] = Edit(f[k], keys[n]) /\ g[n - 1] = f[k] /\ n # 0
        BY <3>3
      <4> QED
        BY <4>1
    <3> QED
      BY <3>1, <3>2, <3>3
  <2>4. Course(g, s, keys, k + 1)
    BY <2>3 DEF Course
  <2> QED
    BY <2>4
<1> HIDE DEF S
<1>3. Nat \subseteq S
  BY <1>1, <1>2, SetInduction
<1> QED
  BY <1>3 DEF S

LEMMA CourseUnique ==
  ASSUME NEW s, NEW keys, NEW m \in Nat, NEW f, NEW g,
         Course(f, s, keys, m), Course(g, s, keys, m)
  PROVE  \A n \in 0 .. m : f[n] = g[n]
<1> DEFINE S == {k \in Nat : k <= m => f[k] = g[k]}
<1>1. 0 \in S
  BY CourseSteps
<1>2. ASSUME NEW k \in Nat, k \in S PROVE k + 1 \in S
  <2>1. CASE k + 1 <= m
    <3>1. k + 1 \in 1 .. m /\ (k + 1) - 1 = k
      BY <2>1
    <3>2. f[k + 1] = Edit(f[k], keys[k + 1]) /\ g[k + 1] = Edit(g[k], keys[k + 1])
      BY <3>1, CourseSteps
    <3> QED
      BY <1>2, <2>1, <3>2
  <2> QED
    BY <2>1
<1> HIDE DEF S
<1>3. Nat \subseteq S
  BY <1>1, <1>2, SetInduction
<1> QED
  BY <1>3 DEF S

LEMMA EditAllIs ==
  ASSUME NEW s, NEW keys, Len(keys) \in Nat, NEW f, Course(f, s, keys, Len(keys))
  PROVE  EditAll(s, keys) = f[Len(keys)]
<1> DEFINE g == CHOOSE h : Course(h, s, keys, Len(keys))
<1>1. EditAll(s, keys) = g[Len(keys)]
  BY DEF EditAll, Course
<1>2. Course(g, s, keys, Len(keys))
  OBVIOUS
<1> HIDE DEF g
<1> QED
  BY <1>1, <1>2, CourseUnique

LEMMA EditNone ==
  ASSUME NEW s
  PROVE  EditAll(s, <<>>) = s
<1>1. Len(<<>>) = 0
  OBVIOUS
<1>2. Course([n \in 0 .. 0 |-> s], s, <<>>, 0)
  BY DEF Course
<1> QED
  BY <1>1, <1>2, EditAllIs

(* One more key, at the end of the queue.                                  *)
LEMMA EditOneMore ==
  ASSUME NEW s, NEW keys \in Seq(Keys), NEW key \in Keys
  PROVE  EditAll(s, Append(keys, key)) = Edit(EditAll(s, keys), key)
<1> DEFINE more == Append(keys, key)
           m == Len(keys)
<1>1. m \in Nat /\ Len(more) = m + 1 /\ more[m + 1] = key /\ \A n \in 1 .. m : more[n] = keys[n]
  OBVIOUS
<1> HIDE DEF more, m
<1>2. PICK f : Course(f, s, more, m + 1)
  <2>1. m + 1 \in Nat
    BY <1>1
  <2> QED
    BY <2>1, CourseExists
<1>3. f[0] = s /\ \A n \in 1 .. m + 1 : f[n] = Edit(f[n - 1], more[n])
  BY <1>1, <1>2, CourseSteps
<1> DEFINE g == [n \in 0 .. m |-> f[n]]
<1>4. Course(g, s, keys, m)
  <2>1. \A n \in 0 .. m : f[n] = IF n = 0 THEN s ELSE Edit(g[n - 1], keys[n])
    <3> SUFFICES ASSUME NEW n \in 0 .. m, n # 0 PROVE f[n] = Edit(g[n - 1], keys[n])
      BY <1>3
    <3>1. n \in 1 .. m /\ n \in 1 .. m + 1 /\ n - 1 \in 0 .. m
      BY <1>1
    <3>2. g[n - 1] = f[n - 1]
      BY <3>1
    <3> HIDE DEF g
    <3> QED
      BY <1>1, <1>3, <3>1, <3>2
  <2> QED
    BY <2>1 DEF Course
<1>5. g[m] = f[m]
  BY <1>1
<1> HIDE DEF g
<1>6. EditAll(s, keys) = f[m]
  BY <1>1, <1>4, <1>5, EditAllIs DEF m
<1>7. EditAll(s, more) = f[m + 1]
  BY <1>1, <1>2, EditAllIs
<1>8. m + 1 \in 1 .. m + 1 /\ (m + 1) - 1 = m
  BY <1>1
<1>9. f[m + 1] = Edit(f[m], more[m + 1])
  BY <1>3, <1>8
<1> QED
  BY <1>1, <1>6, <1>7, <1>9 DEF more, m

(* The first key edits the line before the others do.                      *)
LEMMA EditFirst ==
  ASSUME NEW s, NEW keys \in Seq(Keys), keys # <<>>
  PROVE  EditAll(s, keys) = EditAll(Edit(s, Head(keys)), Tail(keys))
<1> DEFINE rest == Tail(keys)
           m == Len(rest)
<1>1. /\ m \in Nat /\ Len(keys) = m + 1 /\ Head(keys) = keys[1]
      /\ \A n \in 1 .. m : rest[n] = keys[n + 1]
  OBVIOUS
<1> HIDE DEF rest, m
<1>2. PICK f : Course(f, s, keys, m + 1)
  <2>1. m + 1 \in Nat
    BY <1>1
  <2> QED
    BY <2>1, CourseExists
<1>3. f[0] = s /\ \A n \in 1 .. m + 1 : f[n] = Edit(f[n - 1], keys[n])
  BY <1>1, <1>2, CourseSteps
<1> DEFINE s1 == Edit(s, keys[1])
           g == [n \in 0 .. m |-> f[n + 1]]
<1>4. f[1] = s1
  <2>1. 1 \in 1 .. m + 1 /\ 1 - 1 = 0
    BY <1>1
  <2>2. f[1] = Edit(f[1 - 1], keys[1])
    BY <1>3, <2>1
  <2> QED
    BY <1>3, <2>1, <2>2
<1> HIDE DEF s1
<1>5. Course(g, s1, rest, m)
  <2>1. \A n \in 0 .. m : f[n + 1] = IF n = 0 THEN s1 ELSE Edit(g[n - 1], rest[n])
    <3> SUFFICES ASSUME NEW n \in 0 .. m, n # 0 PROVE f[n + 1] = Edit(g[n - 1], rest[n])
      BY <1>4
    <3>1. n \in 1 .. m /\ n + 1 \in 1 .. m + 1 /\ n - 1 \in 0 .. m /\ (n + 1) - 1 = n /\ (n - 1) + 1 = n
      BY <1>1
    <3>2. g[n - 1] = f[n]
      BY <3>1
    <3> HIDE DEF g
    <3>3. f[n + 1] = Edit(f[(n + 1) - 1], keys[n + 1])
      BY <1>3, <3>1
    <3> QED
      BY <1>1, <3>1, <3>2, <3>3
  <2> QED
    BY <2>1 DEF Course
<1>6. g[m] = f[m + 1]
  BY <1>1
<1> HIDE DEF g
<1>7. EditAll(s1, rest) = f[m + 1]
  BY <1>1, <1>5, <1>6, EditAllIs DEF m
<1>8. EditAll(s, keys) = f[m + 1]
  BY <1>1, <1>2, EditAllIs
<1> QED
  BY <1>1, <1>7, <1>8 DEF rest, s1

-----------------------------------------------------------------------------
(* Typing ahead.                                                           *)

EditState == [line : Seq(KeyChars), command : Seq(KeyChars)]

LEMMA EditType ==
  ASSUME NEW s \in EditState, NEW key
  PROVE  Edit(s, key) \in EditState
<1>1. s.line \in Seq(KeyChars) /\ s.command \in Seq(KeyChars) /\ <<>> \in Seq(KeyChars)
  BY DEF EditState
<1>2. s.line # <<>> => SubSeq(s.line, 1, Len(s.line) - 1) \in Seq(KeyChars)
  <2> SUFFICES ASSUME s.line # <<>> PROVE SubSeq(s.line, 1, Len(s.line) - 1) \in Seq(KeyChars)
    OBVIOUS
  <2>1. \A i \in 1 .. Len(s.line) - 1 : s.line[i] \in KeyChars
    BY <1>1, ElementOfSeq
  <2> QED
    BY <1>1, <2>1
<1>3. key \in KeyChars => Append(s.line, key) \in Seq(KeyChars)
  BY <1>1
<1> QED
  BY <1>1, <1>2, <1>3 DEF Edit, EditState

LEMMA EditAllType ==
  ASSUME NEW s \in EditState, NEW keys \in Seq(Keys)
  PROVE  EditAll(s, keys) \in EditState
<1> DEFINE m == Len(keys)
<1>1. m \in Nat
  OBVIOUS
<1>2. PICK f : Course(f, s, keys, m)
  BY <1>1, CourseExists
<1>3. f[0] = s /\ \A n \in 1 .. m : f[n] = Edit(f[n - 1], keys[n])
  BY <1>1, <1>2, CourseSteps
<1> DEFINE S == {k \in Nat : k <= m => f[k] \in EditState}
<1> HIDE DEF m
<1>4. 0 \in S
  BY <1>3
<1>5. ASSUME NEW k \in Nat, k \in S PROVE k + 1 \in S
  <2>1. CASE k + 1 <= m
    <3>1. k + 1 \in 1 .. m /\ (k + 1) - 1 = k /\ k <= m
      BY <1>1, <2>1
    <3>2. f[k + 1] = Edit(f[k], keys[k + 1])
      BY <1>3, <3>1
    <3> QED
      BY <1>5, <3>1, <3>2, EditType
  <2> QED
    BY <2>1
<1> HIDE DEF S
<1>6. Nat \subseteq S
  BY <1>4, <1>5, SetInduction
<1> QED
  BY <1>1, <1>2, <1>6, EditAllIs DEF S, m

(* What a key does to the line and the last command is what Edit says.     *)
LEMMA KeyIsEdit ==
  ASSUME IInv, IInv', NEW c \in Keys, HandleKey(c)
  PROVE  [line |-> Line', command |-> command'] = Edit([line |-> Line, command |-> command], c)
<1> DEFINE now == [line |-> Line, command |-> command]
<1>1. now.line = Line /\ now.command = command
  OBVIOUS
<1>2. Len(Line) = buffer_pos /\ buffer_pos \in Nat
  BY LineOfBuffer
<1>3. KeyChars \cap {KEY_ENTER, KEY_BACKSPACE, CTRL_C, CTRL_L, OTHER_KEY} = {}
  <2>1. KeyChars \cap {CTRL_C, CTRL_L, OTHER_KEY} = {}
    BY ShellAssumption
  <2>2. KeyChars \cap {KEY_ENTER, KEY_BACKSPACE} = {}
    BY ShellAssumption, ConsoleAssumption
    DEF Printable, BLANK, KEY_ENTER, KEY_BACKSPACE, NEWLINE, BACKSPACE
  <2> QED
    BY <2>1, <2>2
<1>4. /\ KEY_ENTER # KEY_BACKSPACE /\ KEY_ENTER # CTRL_C /\ KEY_ENTER # CTRL_L /\ KEY_ENTER # OTHER_KEY
      /\ KEY_BACKSPACE # CTRL_C /\ KEY_BACKSPACE # CTRL_L /\ KEY_BACKSPACE # OTHER_KEY
      /\ CTRL_C # CTRL_L /\ CTRL_C # OTHER_KEY /\ CTRL_L # OTHER_KEY
  BY DEF KEY_ENTER, KEY_BACKSPACE, NEWLINE, BACKSPACE, CTRL_C, CTRL_L, OTHER_KEY
<1> HIDE DEF now
<1>5. CASE c = KEY_ENTER /\ HandleEnter
  <2>1. command' = Line
    BY <1>5, EnteredString DEF HandleEnter
  <2>2. Line' = <<>>
    BY <1>5 DEF HandleEnter, Line
  <2> QED
    BY <1>1, <1>5, <2>1, <2>2 DEF Edit, now
<1>6. CASE c = KEY_BACKSPACE /\ HandleBackspace
  <2>1. Line # <<>> /\ Line' = SubSeq(Line, 1, Len(Line) - 1) /\ command' = command
    BY <1>6, BackspaceErases DEF HandleBackspace
  <2> QED
    BY <1>1, <1>4, <1>6, <2>1 DEF Edit, now
<1>7. CASE c = CTRL_C /\ HandleCtrlC
  <2>1. Line' = <<>>
    BY <1>7 DEF HandleCtrlC, Line
  <2> QED
    BY <1>1, <1>4, <1>7, <2>1 DEF Edit, now, HandleCtrlC
<1>8. CASE c = CTRL_L /\ HandleCtrlL
  BY <1>1, <1>3, <1>4, <1>8, LineKept DEF Edit, now, HandleCtrlL, line_vars
<1>9. CASE c \in KeyChars /\ HandleChar(c)
  <2>1. Len(Line) < LineSize - 1 /\ Line' = Append(Line, c) /\ command' = command
    BY <1>9, CharInserts DEF HandleChar
  <2> QED
    BY <1>1, <1>3, <1>9, <2>1 DEF Edit, now
<1>10. CASE IgnoreKey(c)
  <2>1. Line' = Line /\ command' = command
    BY <1>10, LineKept DEF IgnoreKey, line_vars
  <2>2. CASE c = KEY_BACKSPACE /\ buffer_pos = 0
    <3>1. Line = <<>>
      BY <2>2, EmptyLine
    <3> QED
      BY <1>1, <1>3, <1>4, <2>1, <2>2, <3>1 DEF Edit, now
  <2>3. CASE c \in KeyChars /\ buffer_pos = LineSize - 1
    BY <1>1, <1>2, <1>3, <2>1, <2>3, ShellAssumption DEF Edit, now
  <2>4. CASE c = OTHER_KEY
    BY <1>1, <1>3, <1>4, <2>1, <2>4 DEF Edit, now
  <2> QED
    BY <1>10, <2>2, <2>3, <2>4 DEF IgnoreKey
<1> QED
  BY <1>5, <1>6, <1>7, <1>8, <1>9, <1>10 DEF HandleKey

-----------------------------------------------------------------------------
(* Every step of the terminal is a step of the editor on Typed, or none.   *)

Now == [line |-> Line, command |-> command]

LEMMA NowIsEditState ==
  ASSUME IInv
  PROVE  Now \in EditState
<1>1. Line \in Seq(KeyChars)
  BY LineOfBuffer
<1>2. command \in Seq(KeyChars)
  BY DEF IInv, ShellTypeOK
<1> QED
  BY <1>1, <1>2 DEF Now, EditState

LEMMA EditIsEditorStep ==
  ASSUME QueueInv, IInv, NEW key \in Keys, Typed' = Edit(Typed, key)
  PROVE  [TypeAhead!Next]_(TypeAhead!vars)
<1>1. Typed \in EditState
  BY NowIsEditState, EditAllType DEF Typed, QueueInv, Now
<1> DEFINE t == Typed
<1>2. /\ t = [line |-> t.line, command |-> t.command]
      /\ t.line \in Seq(KeyChars)
  BY <1>1 DEF EditState
<1> HIDE DEF t
<1>3. Typed.line' = Edit(t, key).line /\ Typed.command' = Edit(t, key).command
  BY DEF t
<1>4. CASE key = KEY_ENTER
  BY <1>3, <1>4 DEF Edit, TypeAhead!Next, TypeAhead!Enter, t
<1>5. CASE key # KEY_ENTER /\ key = KEY_BACKSPACE /\ t.line # <<>>
  <2>1. Edit(t, key).line = SubSeq(t.line, 1, Len(t.line) - 1) /\ Edit(t, key).command = t.command
    BY <1>2, <1>5 DEF Edit
  <2> QED
    BY <1>3, <1>5, <2>1 DEF TypeAhead!Next, TypeAhead!Erase, t
<1>6. CASE key # KEY_ENTER /\ ~(key = KEY_BACKSPACE /\ t.line # <<>>) /\ key = CTRL_C
  <2>1. Edit(t, key).line = <<>> /\ Edit(t, key).command = t.command
    BY <1>2, <1>6 DEF Edit
  <2> QED
    BY <1>3, <2>1 DEF TypeAhead!Next, TypeAhead!Abandon, t
<1>7. CASE /\ key # KEY_ENTER /\ ~(key = KEY_BACKSPACE /\ t.line # <<>>) /\ key # CTRL_C
           /\ key \in KeyChars /\ Len(t.line) < LineSize - 1
  <2>1. Edit(t, key).line = Append(t.line, key) /\ Edit(t, key).command = t.command
    BY <1>2, <1>7 DEF Edit
  <2> QED
    BY <1>3, <1>7, <2>1 DEF TypeAhead!Next, TypeAhead!Insert, t
<1>8. CASE /\ key # KEY_ENTER /\ ~(key = KEY_BACKSPACE /\ t.line # <<>>) /\ key # CTRL_C
           /\ ~(key \in KeyChars /\ Len(t.line) < LineSize - 1)
  <2>1. Edit(t, key) = t
    BY <1>8 DEF Edit
  <2> QED
    BY <1>3, <2>1 DEF TypeAhead!vars, t
<1> QED
  BY <1>4, <1>5, <1>6, <1>7, <1>8

LEMMA TypeAheadStep ==
  ASSUME QueueInv, IInv, IInv', [TerminalNext]_terminal_vars
  PROVE  [TypeAhead!Next]_(TypeAhead!vars)
<1>0. Typed = EditAll(Now, queue) /\ Typed' = EditAll(Now', queue')
  BY DEF Typed, Now
<1>1. CASE \E key \in Keys : keyboard_buffer_add(key)
  <2>1. PICK key \in Keys : keyboard_buffer_add(key)
    BY <1>1
  <2>2. Now' = Now
    BY <2>1 DEF keyboard_buffer_add, vars, line_vars, Now, Line
  <2>3. Typed' = Edit(Typed, key)
    BY <1>0, <2>1, <2>2, EditOneMore DEF keyboard_buffer_add, QueueInv
  <2> QED
    BY <2>3, EditIsEditorStep
<1>2. CASE keyboard_getchar
  <2>1. queue # <<>> /\ queue \in Seq(Keys) /\ Head(queue) \in Keys /\ HandleKey(Head(queue))
    BY <1>2 DEF keyboard_getchar, QueueInv
  <2>2. Now' = Edit(Now, Head(queue))
    BY <2>1, KeyIsEdit DEF Now
  <2>3. EditAll(Now, queue) = EditAll(Edit(Now, Head(queue)), Tail(queue))
    BY <2>1, EditFirst
  <2>4. Typed' = Typed
    BY <1>0, <1>2, <2>2, <2>3 DEF keyboard_getchar
  <2> QED
    BY <2>4 DEF TypeAhead!vars
<1>3. CASE Emit /\ UNCHANGED queue
  <2>1. Now' = Now
    BY <1>3 DEF Emit, line_vars, Now, Line
  <2>2. Typed' = Typed
    BY <1>0, <1>3, <2>1
  <2> QED
    BY <2>2 DEF TypeAhead!vars
<1>4. CASE Restart
  <2>1. Line' = <<>> /\ command' = <<>> /\ queue' = <<>>
    BY <1>4 DEF Restart, Reset, Line
  <2>2. Typed' = [line |-> <<>>, command |-> <<>>]
    BY <1>0, <2>1, EditNone DEF Now
  <2>3. Typed.line' = <<>> /\ Typed.command' = <<>>
    BY <2>2
  <2> QED
    BY <2>3 DEF TypeAhead!Next, TypeAhead!Restart
<1>5. CASE UNCHANGED terminal_vars
  <2>1. Typed' = Typed
    BY <1>5, <1>0 DEF terminal_vars, vars, line_vars, Now, Line
  <2> QED
    BY <2>1 DEF TypeAhead!vars
<1> QED
  BY <1>1, <1>2, <1>3, <1>4, <1>5 DEF TerminalNext, ShellStep

(* Typing ahead is safe for every screen, line and buffer size: each key   *)
(* that the interrupt handler puts in the buffer edits the line as if the  *)
(* shell had handled it there and then, and a key that the shell takes     *)
(* later changes nothing more; no line loses a key, takes one of another   *)
(* line, or is run twice.                                                  *)
THEOREM TypesAhead == TerminalSpec => ImplementsTypeAhead
<1>1. TerminalInit => TypeAhead!Init
  <2> SUFFICES ASSUME TerminalInit PROVE TypeAhead!Init
    OBVIOUS
  <2>1. Line = <<>> /\ command = <<>> /\ queue = <<>>
    BY DEF TerminalInit, ShellInit, Start, Line
  <2>2. Typed = [line |-> <<>>, command |-> <<>>]
    BY <2>1, EditNone DEF Typed
  <2> QED
    BY <2>2 DEF TypeAhead!Init
<1>2. QueueInv /\ IInv /\ IInv' /\ [TerminalNext]_terminal_vars => [TypeAhead!Next]_(TypeAhead!vars)
  BY TypeAheadStep
<1> QED
  BY <1>1, <1>2, QueueOfKeys, TerminalIsShell, ShellInvariant, PTL
  DEF TerminalSpec, ImplementsTypeAhead, TypeAhead!Spec

(* While the shell waits for a key, what it has printed ends with the      *)
(* prompt and the line, and nothing stale is ahead of the cursor, also     *)
(* when keys are typed while it prints.                                    *)
THEOREM TerminalShowsLine == TerminalSpec => [](LineOnScreen /\ NothingAhead)
BY TerminalIsShell, ScreenShowsLine, NothingStaleAhead, PTL
=============================================================================
