--------------------------- MODULE KeyboardProofs ---------------------------
(***************************************************************************)
(* Proofs about Keyboard.                                                  *)
(*                                                                         *)
(* What the driver knows lags behind the keys by the bytes on the wire.    *)
(* The invariant is that the driver, once it has read those bytes, knows   *)
(* of the keys what is true of them now, and has called for the characters *)
(* that the keystrokes call for.                                           *)
(***************************************************************************)
EXTENDS Keyboard, SequenceTheorems, TLAPS

(* The two tables agree on which keys are letters.                         *)
LEMMA Tables ==
  ASSUME NEW key \in 0 .. 57
  PROVE  LET lower == scancode_to_ascii[key + 1]
             upper == scancode_to_ascii_shifted[key + 1]
         IN  /\ lower \in 0 .. 127 /\ upper \in 0 .. 127
             /\ \/ lower \in Lower /\ upper = lower - 32
                \/ lower \notin Lower \cup Upper /\ upper \notin Lower \cup Upper
BY SMTT(60) DEF scancode_to_ascii, scancode_to_ascii_shifted, Lower, Upper

LEMMA TableLength == Len(scancode_to_ascii) = 58
BY DEF scancode_to_ascii

(* What is engraved on a key is what the tables have for it.               *)
LEMMA LetterKeys ==
  ASSUME NEW n \in 1 .. 26
  PROVE  /\ LetterKey[n] \in 0 .. 57
         /\ scancode_to_ascii[LetterKey[n] + 1] = 96 + n
         /\ scancode_to_ascii_shifted[LetterKey[n] + 1] = 64 + n
BY SMTT(60) DEF LetterKey, scancode_to_ascii, scancode_to_ascii_shifted

LEMMA CapsInTables ==
  ASSUME NEW cap \in Keycaps
  PROVE  /\ cap[1] \in 0 .. 57
         /\ cap[2] = scancode_to_ascii[cap[1] + 1]
         /\ cap[3] = scancode_to_ascii_shifted[cap[1] + 1]
<1>1. CASE \E n \in 1 .. 26 : cap = <<LetterKey[n], 96 + n, 64 + n>>
  BY <1>1, LetterKeys
<1>2. CASE ~\E n \in 1 .. 26 : cap = <<LetterKey[n], 96 + n, 64 + n>>
  BY <1>2, SMTT(60) DEF Keycaps, scancode_to_ascii, scancode_to_ascii_shifted
<1> QED
  BY <1>1, <1>2

(* A key without a character has none in the tables.                       *)
LEMMA TablesInCaps ==
  ASSUME NEW code \in 0 .. 57, \A cap \in Keycaps : cap[1] # code
  PROVE  scancode_to_ascii[code + 1] = NUL /\ scancode_to_ascii_shifted[code + 1] = NUL
<1>1. ASSUME NEW n \in 1 .. 26 PROVE LetterKey[n] # code
  <2>1. <<LetterKey[n], 96 + n, 64 + n>> \in Keycaps
    BY DEF Keycaps
  <2>2. (<<LetterKey[n], 96 + n, 64 + n>>)[1] = LetterKey[n]
    OBVIOUS
  <2> QED
    BY <2>1, <2>2
<1>2. code \notin (2 .. 15) \cup (26 .. 28) \cup (39 .. 41) \cup {43, 51, 52, 53, 55, 57}
  <2> DEFINE cap == <<code, scancode_to_ascii[code + 1], scancode_to_ascii_shifted[code + 1]>>
  <2> SUFFICES ASSUME code \in (2 .. 15) \cup (26 .. 28) \cup (39 .. 41)
                                \cup {43, 51, 52, 53, 55, 57}
               PROVE  cap \in Keycaps
    <3>1. cap[1] = code
      OBVIOUS
    <3> QED
      BY <3>1
  <2> QED
    BY SMTT(60) DEF Keycaps, scancode_to_ascii, scancode_to_ascii_shifted
<1> QED
  BY <1>1, <1>2, SMTT(60) DEF LetterKey, scancode_to_ascii, scancode_to_ascii_shifted, NUL

LEMMA KeycapIsTable ==
  ASSUME NEW code \in 0 .. 127
  PROVE  /\ code <= 57 => /\ Keycap[code][2] = scancode_to_ascii[code + 1]
                          /\ Keycap[code][3] = scancode_to_ascii_shifted[code + 1]
         /\ code > 57 => Keycap[code][2] = NUL /\ Keycap[code][3] = NUL
<1>1. CASE \E cap \in Keycaps : cap[1] = code
  <2>1. Keycap[code] = CHOOSE cap \in Keycaps : cap[1] = code
    BY <1>1 DEF Keycap
  <2>2. Keycap[code] \in Keycaps /\ Keycap[code][1] = code
    BY <1>1, <2>1
  <2> QED
    BY <2>2, CapsInTables
<1>2. CASE ~\E cap \in Keycaps : cap[1] = code
  <2>1. Keycap[code][2] = NUL /\ Keycap[code][3] = NUL
    BY <1>2 DEF Keycap
  <2> QED
    BY <1>2, <2>1, TablesInCaps
<1> QED
  BY <1>1, <1>2

LEMMA AsciiRange ==
  ASSUME NEW key \in 0 .. 127, NEW state \in [Modifiers -> BOOLEAN]
  PROVE  Ascii(key, state) \in 0 .. 127
<1> DEFINE shift == shift_pressed(state)
           ctrl  == ctrl_pressed(state)
           caps  == state["caps_lock"]
           ch    == Layout(shift)[key + 1]
<1>1. CASE key < 58
  <2> HIDE DEF shift, ctrl, caps
  <2>1. ch \in 0 .. 127
    <3>1. key \in 0 .. 57
      BY <1>1
    <3>2. scancode_to_ascii[key + 1] \in 0 .. 127 /\ scancode_to_ascii_shifted[key + 1] \in 0 .. 127
      BY <3>1, Tables, Zenon
    <3> QED
      BY <3>2, Zenon DEF Layout
  <2> HIDE DEF ch
  <2>2. CapsLocked(ch, caps, shift) \in 0 .. 127
    BY <2>1 DEF CapsLocked, Lower, Upper
  <2>3. Controlled(CapsLocked(ch, caps, shift), ctrl) \in 0 .. 127
    BY <2>2 DEF Controlled, Lower, Upper
  <2> QED
    BY <1>1, <2>3, TableLength DEF Ascii, ch, shift, ctrl, caps
<1>2. CASE ~(key < 58)
  BY <1>2, TableLength DEF Ascii, NUL
<1> QED
  BY <1>1, <1>2

(* No character for the keys beyond the tables.                            *)
LEMMA NoAscii ==
  ASSUME NEW key \in 58 .. 127, NEW state
  PROVE  Ascii(key, state) = NUL
BY TableLength DEF Ascii, NUL

(* What the modifiers say is on; the lock keys that type nothing are left  *)
(* out, and the driver never sets the right Ctrl.                          *)
Agrees(state) ==
  /\ state \in [Modifiers -> BOOLEAN]
  /\ state["shift_left"] = Down(SC_LSHIFT)
  /\ state["shift_right"] = Down(SC_RSHIFT)
  /\ state["ctrl_left"] = Down(SC_LCTRL)
  /\ state["ctrl_right"] = FALSE
  /\ state["alt_left"] = Down(SC_LALT)
  /\ state["caps_lock"] = caps_light

(* The rules of process_scancode for caps lock and Ctrl, which look at the *)
(* character, call for what the keys do.                                   *)
LEMMA TableIsEngraved ==
  ASSUME NEW key \in 0 .. 57, NEW state, Agrees(state), caps_light \in BOOLEAN
  PROVE  Ascii(key, state) = Engraved(key)
<1> DEFINE lower == scancode_to_ascii[key + 1]
           upper == scancode_to_ascii_shifted[key + 1]
           shift == shift_pressed(state)
           ctrl  == ctrl_pressed(state)
           caps  == state["caps_lock"]
           ch    == IF shift THEN upper ELSE lower
<1>1. /\ lower \in 0 .. 127 /\ upper \in 0 .. 127
      /\ \/ lower \in Lower /\ upper = lower - 32
         \/ lower \notin Lower \cup Upper /\ upper \notin Lower \cup Upper
  BY Tables, Zenon
<1>2. Ascii(key, state) = Controlled(CapsLocked(ch, caps, shift), ctrl)
  BY TableLength DEF Ascii, Layout
<1>3. shift = ShiftDown /\ ctrl = CtrlDown /\ caps = caps_light
  <2>1. ctrl <=> CtrlDown
    BY Zenon DEF Agrees, ctrl_pressed, CtrlDown
  <2>2. shift = ShiftDown
    BY Zenon DEF Agrees, shift_pressed, ShiftDown
  <2>3. ctrl \in BOOLEAN /\ CtrlDown \in BOOLEAN
    BY DEF ctrl_pressed, CtrlDown, Down
  <2>4. ctrl = CtrlDown
    BY <2>1, <2>3
  <2>5. caps = caps_light
    BY DEF Agrees
  <2> QED
    BY <2>2, <2>4, <2>5
<1>4. shift \in BOOLEAN /\ ctrl \in BOOLEAN /\ caps \in BOOLEAN
  BY DEF Agrees, Modifiers, shift_pressed, ctrl_pressed
<1>5. Engraved(key) = IF lower \in Lower /\ ctrl THEN lower - 96
                      ELSE IF (lower \in Lower /\ shift # caps) \/ (lower \notin Lower /\ shift) THEN upper
                      ELSE lower
  <2>1. Keycap[key][2] = lower /\ Keycap[key][3] = upper
    <3>1. key \in 0 .. 127 /\ key <= 57
      OBVIOUS
    <3> QED
      BY <3>1, KeycapIsTable
  <2> QED
    BY <1>3, <2>1, Zenon DEF Engraved
<1> HIDE DEF lower, upper, shift, ctrl, caps
<1>6. CASE lower \in Lower /\ upper = lower - 32
  <2>1. lower \in 97 .. 122 /\ upper = lower - 32
    BY <1>6 DEF Lower
  <2> QED
    BY <1>2, <1>4, <1>5, <2>1 DEF Controlled, CapsLocked, Lower, Upper
<1>7. CASE lower \notin Lower \cup Upper /\ upper \notin Lower \cup Upper
  BY <1>1, <1>2, <1>4, <1>5, <1>7 DEF Controlled, CapsLocked, Lower, Upper
<1> QED
  BY <1>1, <1>6, <1>7

(* A key without a character calls for nothing, whatever is held with it.  *)
LEMMA NothingEngraved ==
  ASSUME NEW code \in 0 .. 127, Keycap[code][2] = NUL, Keycap[code][3] = NUL
  PROVE  Engraved(code) = NUL
<1>1. NUL \notin Lower
  BY DEF NUL, Lower
<1> QED
  BY <1>1, Zenon DEF Engraved

LEMMA AsciiIsEngraved ==
  ASSUME NEW key \in 0 .. 127, NEW state, Agrees(state), caps_light \in BOOLEAN
  PROVE  Ascii(key, state) = Engraved(key)
<1>1. CASE key <= 57
  <2>1. key \in 0 .. 57
    BY <1>1
  <2> QED
    BY <2>1, TableIsEngraved
<1>2. CASE key > 57
  <2>1. key \in 58 .. 127
    BY <1>2
  <2> QED
    BY <1>2, <2>1, NoAscii, KeycapIsTable, NothingEngraved
<1> QED
  BY <1>1, <1>2

-----------------------------------------------------------------------------
(* The driver as a machine that reads bytes, with the characters it calls  *)
(* for instead of those the buffer has room for.                           *)

DriverState == [key_state : [Modifiers -> BOOLEAN], extended : BOOLEAN, typed : Seq(1 .. 127)]

Driver(state, ext, typed) == [key_state |-> state, extended |-> ext, typed |-> typed]

SetTo(state, m, on) == [state EXCEPT ![m] = on]
Flip(state, m) == [state EXCEPT ![m] = ~state[m]]

Step(d, byte) ==
  LET key          == byte % KEY_RELEASED_MASK
      key_released == byte >= KEY_RELEASED_MASK
      ch           == Ascii(key, d.key_state)
  IN  IF byte = EXTENDED_SCANCODE THEN Driver(d.key_state, TRUE, d.typed)
      ELSE IF d.extended THEN Driver(d.key_state, FALSE, d.typed)
      ELSE IF Pressed(key) # "none"
      THEN Driver(SetTo(d.key_state, Pressed(key), ~key_released), FALSE, d.typed)
      ELSE IF Toggled(key) # "none"
      THEN Driver(IF key_released THEN d.key_state
                  ELSE Flip(d.key_state, Toggled(key)),
                  FALSE, d.typed)
      ELSE Driver(d.key_state, FALSE,
                  IF key_released \/ ch = NUL THEN d.typed ELSE Append(d.typed, ch))

Prefix(s, t) == Len(s) <= Len(t) /\ \A i \in 1 .. Len(s) : s[i] = t[i]

LEMMA KeyOfByte ==
  ASSUME NEW byte \in 0 .. 255
  PROVE  byte % KEY_RELEASED_MASK = IF byte >= 128 THEN byte - 128 ELSE byte
BY DEF KEY_RELEASED_MASK

LEMMA KeyRange ==
  ASSUME NEW byte \in 0 .. 255
  PROVE  byte % KEY_RELEASED_MASK \in 0 .. 127
BY KeyOfByte

LEMMA StepType ==
  ASSUME NEW d \in DriverState, NEW byte \in 0 .. 255
  PROVE  Step(d, byte) \in DriverState /\ Prefix(d.typed, Step(d, byte).typed)
<1> DEFINE key == byte % KEY_RELEASED_MASK
           ch  == Ascii(key, d.key_state)
<1>1. /\ d.key_state \in [Modifiers -> BOOLEAN]
      /\ d.extended \in BOOLEAN
      /\ d.typed \in Seq(1 .. 127)
  BY DEF DriverState
<1>2. key \in 0 .. 127
  BY KeyOfByte
<1>3. ch \in 0 .. 127
  BY <1>1, <1>2, AsciiRange
<1>4. Step(d, byte).key_state \in [Modifiers -> BOOLEAN]
  BY <1>1 DEF Step, Driver, SetTo, Flip
<1>5. Step(d, byte).extended \in BOOLEAN
  BY DEF Step, Driver
<1>6. Step(d, byte).typed = d.typed \/ (ch # NUL /\ Step(d, byte).typed = Append(d.typed, ch))
  BY DEF Step, Driver
<1>7. Step(d, byte) = Driver(Step(d, byte).key_state, Step(d, byte).extended, Step(d, byte).typed)
  BY DEF Step, Driver
<1> HIDE DEF ch
<1>8. Step(d, byte).typed \in Seq(1 .. 127) /\ Prefix(d.typed, Step(d, byte).typed)
  <2>1. CASE Step(d, byte).typed = d.typed
    BY <1>1, <2>1 DEF Prefix
  <2>2. CASE ch # NUL /\ Step(d, byte).typed = Append(d.typed, ch)
    <3>1. ch \in 1 .. 127
      BY <1>3, <2>2 DEF NUL
    <3> QED
      BY <1>1, <2>2, <3>1 DEF Prefix
  <2> QED
    BY <1>6, <2>1, <2>2
<1> QED
  BY <1>4, <1>5, <1>7, <1>8 DEF Driver, DriverState

(* The driver goes from d to e when it reads the bytes.                    *)
Leads(d, bytes, e) ==
  \E trace \in [0 .. Len(bytes) -> DriverState] :
    /\ trace[0] = d /\ trace[Len(bytes)] = e
    /\ \A i \in 1 .. Len(bytes) : trace[i] = Step(trace[i - 1], bytes[i])
    /\ \A i \in 0 .. Len(bytes) : Prefix(trace[i].typed, e.typed)

LEMMA PrefixOrder ==
  /\ \A s \in Seq(1 .. 127) : Prefix(s, s)
  /\ \A s, t, u \in Seq(1 .. 127) : Prefix(s, t) /\ Prefix(t, u) => Prefix(s, u)
<1>1. \A s \in Seq(1 .. 127) : Prefix(s, s)
  BY DEF Prefix
<1>2. ASSUME NEW s \in Seq(1 .. 127), NEW t \in Seq(1 .. 127), NEW u \in Seq(1 .. 127),
             Prefix(s, t), Prefix(t, u)
      PROVE  Prefix(s, u)
  BY <1>2 DEF Prefix
<1> QED
  BY <1>1, <1>2

LEMMA LeadsNowhere ==
  ASSUME NEW d \in DriverState
  PROVE  Leads(d, <<>>, d) /\ \A e : Leads(d, <<>>, e) => e = d
<1>1. Len(<<>>) = 0
  OBVIOUS
<1> DEFINE trace == [i \in 0 .. 0 |-> d]
<1>2. trace[0] = d /\ trace \in [0 .. 0 -> DriverState]
  OBVIOUS
<1>3. Prefix(d.typed, d.typed)
  BY PrefixOrder DEF DriverState
<1>4. /\ \A i \in 1 .. 0 : trace[i] = Step(trace[i - 1], (<<>>)[i])
      /\ \A i \in 0 .. 0 : Prefix(trace[i].typed, d.typed)
  BY <1>2, <1>3
<1> HIDE DEF trace
<1>5. Leads(d, <<>>, d)
  BY <1>1, <1>2, <1>4 DEF Leads
<1> QED
  BY <1>1, <1>5 DEF Leads

LEMMA LeadsPrefix ==
  ASSUME NEW d, NEW bytes \in Seq(0 .. 255), NEW e, Leads(d, bytes, e)
  PROVE  d \in DriverState /\ e \in DriverState /\ Prefix(d.typed, e.typed)
<1>1. 0 \in 0 .. Len(bytes) /\ Len(bytes) \in 0 .. Len(bytes)
  OBVIOUS
<1> QED
  BY <1>1 DEF Leads

(* One more byte is sent.                                                  *)
LEMMA LeadsOneMore ==
  ASSUME NEW d, NEW bytes \in Seq(0 .. 255), NEW e, Leads(d, bytes, e), NEW byte \in 0 .. 255
  PROVE  /\ Append(bytes, byte) \in Seq(0 .. 255)
         /\ Leads(d, Append(bytes, byte), Step(e, byte))
<1> DEFINE more == Append(bytes, byte)
           n    == Len(bytes)
           next == Step(e, byte)
<1>1. /\ n \in Nat /\ more \in Seq(0 .. 255) /\ Len(more) = n + 1 /\ more[n + 1] = byte
      /\ \A i \in 1 .. n : more[i] = bytes[i]
  OBVIOUS
<1>2. e \in DriverState /\ next \in DriverState /\ Prefix(e.typed, next.typed)
  BY LeadsPrefix, StepType
<1> HIDE DEF next, more
<1>3. PICK trace \in [0 .. n -> DriverState] :
        /\ trace[0] = d /\ trace[n] = e
        /\ \A i \in 1 .. n : trace[i] = Step(trace[i - 1], bytes[i])
        /\ \A i \in 0 .. n : Prefix(trace[i].typed, e.typed)
  BY DEF Leads
<1> HIDE DEF n
<1> DEFINE longer == [i \in 0 .. n + 1 |-> IF i <= n THEN trace[i] ELSE next]
<1>4. /\ longer \in [0 .. n + 1 -> DriverState]
      /\ longer[0] = d /\ longer[n] = e /\ longer[n + 1] = next
      /\ \A i \in 0 .. n : longer[i] = trace[i]
  BY <1>1, <1>2, <1>3
<1> HIDE DEF longer
<1>5. ASSUME NEW i \in 1 .. n + 1 PROVE longer[i] = Step(longer[i - 1], more[i])
  <2>1. CASE i \in 1 .. n
    <3>1. i \in 0 .. n /\ i - 1 \in 0 .. n
      BY <1>1, <2>1
    <3> QED
      BY <1>1, <1>3, <1>4, <2>1, <3>1
  <2>2. CASE i = n + 1
    <3>1. i - 1 = n
      BY <1>1, <2>2
    <3> QED
      BY <1>1, <1>4, <2>2, <3>1 DEF next
  <2> QED
    BY <1>1, <2>1, <2>2
<1>6. ASSUME NEW i \in 0 .. n + 1 PROVE Prefix(longer[i].typed, next.typed)
  <2>1. longer[i] \in DriverState
    BY <1>4
  <2>2. longer[i].typed \in Seq(1 .. 127) /\ e.typed \in Seq(1 .. 127) /\ next.typed \in Seq(1 .. 127)
    BY <1>2, <2>1 DEF DriverState
  <2>3. CASE i \in 0 .. n
    BY <1>2, <1>3, <1>4, <2>2, <2>3, PrefixOrder
  <2>4. CASE i = n + 1
    BY <1>4, <2>2, <2>4, PrefixOrder
  <2> QED
    BY <1>1, <2>3, <2>4
<1>7. Leads(d, more, next)
  BY <1>1, <1>4, <1>5, <1>6 DEF Leads
<1> QED
  BY <1>1, <1>7 DEF more, next

(* The first byte is read.                                                 *)
LEMMA LeadsFirst ==
  ASSUME NEW d, NEW bytes \in Seq(0 .. 255), NEW e, Leads(d, bytes, e), bytes # <<>>
  PROVE  Leads(Step(d, Head(bytes)), Tail(bytes), e)
<1> DEFINE rest == Tail(bytes)
           n    == Len(rest)
           s1   == Step(d, bytes[1])
<1>1. /\ n \in Nat /\ Len(bytes) = n + 1 /\ Head(bytes) = bytes[1]
      /\ \A i \in 1 .. n : rest[i] = bytes[i + 1]
  OBVIOUS
<1> HIDE DEF rest
<1>2. PICK trace \in [0 .. n + 1 -> DriverState] :
        /\ trace[0] = d /\ trace[n + 1] = e
        /\ \A i \in 1 .. n + 1 : trace[i] = Step(trace[i - 1], bytes[i])
        /\ \A i \in 0 .. n + 1 : Prefix(trace[i].typed, e.typed)
  BY <1>1 DEF Leads
<1>3. trace[1] = s1
  <2>1. 1 \in 1 .. n + 1 /\ 1 - 1 = 0
    BY <1>1
  <2>2. trace[1] = Step(trace[1 - 1], bytes[1])
    BY <1>2, <2>1
  <2> QED
    BY <1>2, <2>1, <2>2
<1> HIDE DEF n, s1
<1> DEFINE short == [i \in 0 .. n |-> trace[i + 1]]
<1>4. /\ short \in [0 .. n -> DriverState]
      /\ short[0] = s1 /\ short[n] = e
      /\ \A i \in 0 .. n : short[i] = trace[i + 1]
  BY <1>1, <1>2, <1>3
<1> HIDE DEF short
<1>5. ASSUME NEW i \in 1 .. n PROVE short[i] = Step(short[i - 1], rest[i])
  <2>1. i \in 0 .. n /\ i - 1 \in 0 .. n /\ i + 1 \in 1 .. n + 1 /\ (i - 1) + 1 = i /\ (i + 1) - 1 = i
    BY <1>1
  <2>2. trace[i + 1] = Step(trace[(i + 1) - 1], bytes[i + 1])
    BY <1>2, <2>1
  <2>3. short[i] = trace[i + 1] /\ short[i - 1] = trace[i]
    BY <1>4, <2>1
  <2> QED
    BY <1>1, <2>1, <2>2, <2>3
<1>6. ASSUME NEW i \in 0 .. n PROVE Prefix(short[i].typed, e.typed)
  BY <1>1, <1>2, <1>4
<1>7. Leads(s1, rest, e)
  BY <1>1, <1>4, <1>5, <1>6 DEF Leads, n
<1> QED
  BY <1>1, <1>7 DEF rest, s1

-----------------------------------------------------------------------------
(* Characters of which some are left out.                                  *)

LEMMA ThinnedPrefix ==
  ASSUME NEW s \in Seq(1 .. 127), NEW t \in Seq(1 .. 127), NEW u \in Seq(1 .. 127),
         Thinned(s, t), Prefix(t, u)
  PROVE  Thinned(s, u)
<1>1. DOMAIN s = 1 .. Len(s) /\ DOMAIN t = 1 .. Len(t) /\ DOMAIN u = 1 .. Len(u)
  OBVIOUS
<1>2. PICK kept \in [DOMAIN s -> DOMAIN t] :
        /\ \A i \in DOMAIN s : s[i] = t[kept[i]]
        /\ \A i, j \in DOMAIN s : i < j => kept[i] < kept[j]
  BY DEF Thinned
<1>3. DOMAIN t \subseteq DOMAIN u /\ \A i \in DOMAIN t : t[i] = u[i]
  BY <1>1 DEF Prefix
<1>4. kept \in [DOMAIN s -> DOMAIN u] /\ \A i \in DOMAIN s : s[i] = u[kept[i]]
  BY <1>2, <1>3
<1> QED
  BY <1>2, <1>4 DEF Thinned

LEMMA ThinnedDrop ==
  ASSUME NEW s \in Seq(1 .. 127), NEW t \in Seq(1 .. 127), NEW ch \in 1 .. 127, Thinned(s, t)
  PROVE  Thinned(s, Append(t, ch))
<1>1. Append(t, ch) \in Seq(1 .. 127) /\ Prefix(t, Append(t, ch))
  BY DEF Prefix
<1> QED
  BY <1>1, ThinnedPrefix

LEMMA ThinnedKeep ==
  ASSUME NEW s \in Seq(1 .. 127), NEW t \in Seq(1 .. 127), NEW ch \in 1 .. 127, Thinned(s, t)
  PROVE  Thinned(Append(s, ch), Append(t, ch))
<1> DEFINE s1 == Append(s, ch)
           t1 == Append(t, ch)
           m  == Len(s)
           n  == Len(t)
<1>1. /\ m \in Nat /\ n \in Nat
      /\ DOMAIN s = 1 .. m /\ DOMAIN t = 1 .. n /\ DOMAIN s1 = 1 .. m + 1 /\ DOMAIN t1 = 1 .. n + 1
      /\ s1[m + 1] = ch /\ t1[n + 1] = ch
      /\ \A i \in 1 .. m : s1[i] = s[i]
      /\ \A i \in 1 .. n : t1[i] = t[i]
  OBVIOUS
<1> HIDE DEF s1, t1, m, n
<1>2. PICK kept \in [1 .. m -> 1 .. n] :
        /\ \A i \in 1 .. m : s[i] = t[kept[i]]
        /\ \A i, j \in 1 .. m : i < j => kept[i] < kept[j]
  BY <1>1 DEF Thinned
<1> DEFINE longer == [i \in 1 .. m + 1 |-> IF i <= m THEN kept[i] ELSE n + 1]
<1>3. /\ longer \in [1 .. m + 1 -> 1 .. n + 1]
      /\ longer[m + 1] = n + 1
      /\ \A i \in 1 .. m : longer[i] = kept[i] /\ longer[i] \in 1 .. n
  BY <1>1, <1>2
<1> HIDE DEF longer
<1>4. \A i \in 1 .. m + 1 : s1[i] = t1[longer[i]]
  BY <1>1, <1>2, <1>3, SMTT(20)
<1>5. ASSUME NEW i \in 1 .. m + 1, NEW j \in 1 .. m + 1, i < j PROVE longer[i] < longer[j]
  <2>1. i \in 1 .. m
    BY <1>1, <1>5
  <2>2. CASE j \in 1 .. m
    BY <1>2, <1>3, <1>5, <2>1, <2>2
  <2>3. CASE j = m + 1
    BY <1>1, <1>3, <2>1, <2>3
  <2> QED
    BY <1>1, <2>2, <2>3
<1>6. Thinned(s1, t1)
  BY <1>1, <1>3, <1>4, <1>5 DEF Thinned
<1> QED
  BY <1>6 DEF s1, t1

-----------------------------------------------------------------------------
(* The invariant.                                                          *)

Typed == delivered \o queue

(* The driver knows the keys and has called for what they call for.        *)
Settled(d) == Agrees(d.key_state) /\ ~d.extended /\ d.typed = intended

(* base is what the driver has called for, with what the full buffer lost. *)
Accounted(base) == Thinned(Typed, base) /\ Len(Typed) + lost = Len(base)

(* Once it has read what is on the wire, the driver is in state d.         *)
CatchesUp(base, d) == Leads(Driver(key_state, extended_scancode, base), wire, d)

KTypeOK ==
  /\ TypeOK
  /\ intended \in Seq(1 .. 127)
  /\ delivered \in Seq(1 .. 127)
  /\ lost \in Nat
  /\ caps_light \in BOOLEAN

KInv ==
  /\ KTypeOK
  /\ \E base \in Seq(1 .. 127), d \in DriverState :
       CatchesUp(base, d) /\ Settled(d) /\ Accounted(base)

LEMMA InitKInv == Init => KInv
<1> SUFFICES ASSUME Init PROVE KInv
  OBVIOUS
<1>1. /\ key_state = [m \in Modifiers |-> FALSE] /\ extended_scancode = FALSE
      /\ queue = <<>> /\ retval = 0 /\ wire = <<>> /\ unseen = held
      /\ caps_light = FALSE /\ intended = <<>> /\ delivered = <<>> /\ lost = 0
  BY DEF Init, Buffer!Init, NUL
<1>2. held \subseteq Keys
  BY DEF Init
<1>3. key_state \in [Modifiers -> BOOLEAN] /\ \A m \in Modifiers : key_state[m] = FALSE
  BY <1>1
<1>4. KTypeOK
  <2>1. <<>> \in Seq(1 .. 127) /\ <<>> \in Seq(0 .. 255) /\ Len(<<>>) = 0
    OBVIOUS
  <2>2. extended_scancode \in BOOLEAN /\ caps_light \in BOOLEAN
    BY <1>1
  <2>3. queue \in Seq(1 .. 127) /\ Len(queue) <= Size /\ retval \in 0 .. 127 /\ wire \in Seq(0 .. 255)
    <3>1. Size \in Nat \ {0}
      BY KeyboardAssumption
    <3> QED
      BY <1>1, <2>1, <3>1
  <2>4. intended \in Seq(1 .. 127) /\ delivered \in Seq(1 .. 127) /\ lost \in Nat
    BY <1>1, <2>1
  <2> QED
    BY <1>1, <1>2, <1>3, <2>2, <2>3, <2>4 DEF KTypeOK, TypeOK
<1> DEFINE d == Driver(key_state, extended_scancode, <<>>)
<1>5. d \in DriverState
  <2>1. extended_scancode \in BOOLEAN
    BY <1>1
  <2>2. <<>> \in Seq(1 .. 127)
    OBVIOUS
  <2> QED
    BY <1>3, <2>1, <2>2 DEF Driver, DriverState
<1>6. d.key_state = key_state /\ d.extended = FALSE /\ d.typed = <<>>
  BY <1>1 DEF Driver
<1>7. CatchesUp(<<>>, d)
  BY <1>1, <1>5, LeadsNowhere DEF CatchesUp
<1>8. \A code : Down(code) = FALSE
  BY <1>1 DEF Down
<1>9. Settled(d)
  BY <1>1, <1>3, <1>6, <1>8 DEF Agrees, Modifiers, Settled
<1>10. Accounted(<<>>)
  <2>1. Typed = <<>>
    BY <1>1 DEF Typed
  <2>2. DOMAIN <<>> = {}
    OBVIOUS
  <2>3. \E kept \in [{} -> {}] : TRUE
    <3>1. [i \in {} |-> i] \in [{} -> {}]
      OBVIOUS
    <3> QED
      BY <3>1
  <2>4. Thinned(<<>>, <<>>)
    BY <2>2, <2>3 DEF Thinned
  <2> QED
    BY <1>1, <2>1, <2>4 DEF Accounted
<1> HIDE DEF d
<1>11. <<>> \in Seq(1 .. 127)
  OBVIOUS
<1> QED
  BY <1>4, <1>5, <1>7, <1>9, <1>10, <1>11 DEF KInv

-----------------------------------------------------------------------------
(* The handler reads a byte.                                               *)

LEMMA Unmoved ==
  ASSUME UNCHANGED device_vars, NEW d, Settled(d)
  PROVE  Settled(d)'
BY DEF device_vars, Settled, Agrees, Down

(* The handler does to the driver's state what Step says, for the base     *)
(* that grows with what it calls for.                                      *)
LEMMA HeadAndTail ==
  ASSUME NEW bytes \in Seq(0 .. 255), bytes # <<>>
  PROVE  Head(bytes) \in 0 .. 255 /\ Tail(bytes) \in Seq(0 .. 255)
<1>1. Head(bytes) = bytes[1] /\ 1 \in 1 .. Len(bytes)
  OBVIOUS
<1>2. Tail(bytes) \in Seq(0 .. 255)
  OBVIOUS
<1> QED
  BY <1>1, <1>2, ElementOfSeq

LEMMA HandlerReads ==
  ASSUME KTypeOK, keyboard_interrupt_handler
  PROVE  /\ wire \in Seq(0 .. 255) /\ wire # <<>> /\ Head(wire) \in 0 .. 255
         /\ wire' = Tail(wire) /\ Tail(wire) \in Seq(0 .. 255)
         /\ UNCHANGED <<held, unseen, caps_light, intended, delivered>>
<1>1. wire \in Seq(0 .. 255)
  BY DEF KTypeOK, TypeOK
<1>2. wire # <<>> /\ wire' = Tail(wire)
  BY DEF keyboard_interrupt_handler
<1>3. UNCHANGED <<held, unseen, caps_light, intended, delivered>>
  BY DEF keyboard_interrupt_handler, device_vars
<1>4. Head(wire) \in 0 .. 255 /\ Tail(wire) \in Seq(0 .. 255)
  BY <1>1, <1>2, HeadAndTail
<1> QED
  BY <1>1, <1>2, <1>3, <1>4

LEMMA HandlerSteps ==
  ASSUME KTypeOK, NEW base \in Seq(1 .. 127), keyboard_interrupt_handler,
         NEW next, next = Step(Driver(key_state, extended_scancode, base), Head(wire))
  PROVE  Driver(key_state', extended_scancode', next.typed) = next
<1> DEFINE d   == Driver(key_state, extended_scancode, base)
           key == Head(wire) % KEY_RELEASED_MASK
<1>1. /\ d.key_state = key_state /\ d.extended = extended_scancode /\ d.typed = base
      /\ next = Step(d, Head(wire))
  BY DEF Driver
<1> HIDE DEF d
<1>2. CASE Head(wire) = EXTENDED_SCANCODE
  <2>1. extended_scancode' = TRUE /\ key_state' = key_state
    BY <1>2 DEF keyboard_interrupt_handler
  <2>2. next = Driver(key_state, TRUE, base)
    BY <1>1, <1>2 DEF Step
  <2>3. next.typed = base
    BY <2>2 DEF Driver
  <2> QED
    BY <2>1, <2>2, <2>3, Zenon
<1>3. CASE Head(wire) # EXTENDED_SCANCODE /\ extended_scancode
  <2>1. extended_scancode' = FALSE /\ key_state' = key_state
    BY <1>3 DEF keyboard_interrupt_handler
  <2>2. next = Driver(key_state, FALSE, base)
    BY <1>1, <1>3 DEF Step
  <2>3. next.typed = base
    BY <2>2 DEF Driver
  <2> QED
    BY <2>1, <2>2, <2>3, Zenon
<1>4. CASE Head(wire) # EXTENDED_SCANCODE /\ ~extended_scancode
  <2>1. process_scancode(Head(wire)) /\ extended_scancode' = FALSE
    BY <1>4 DEF keyboard_interrupt_handler, KTypeOK, TypeOK
  <2>2. CASE SetModifier(key, Head(wire) >= KEY_RELEASED_MASK)
    <3>1. next = Driver(key_state', FALSE, base)
      BY <1>1, <1>4, <2>2 DEF Step, SetTo, SetModifier
    <3>2. next.typed = base
      BY <3>1 DEF Driver
    <3> QED
      BY <2>1, <3>1, <3>2, Zenon
  <2>3. CASE ToggleLock(key, Head(wire) >= KEY_RELEASED_MASK)
    <3>1. Pressed(key) = "none"
      BY <2>3 DEF ToggleLock, Toggled, Pressed, SC_LSHIFT, SC_RSHIFT, SC_LCTRL, SC_LALT,
                  SC_CAPS_LOCK, SC_NUM_LOCK, SC_SCROLL_LOCK
    <3>2. next = Driver(key_state', FALSE, base)
      BY <1>1, <1>4, <2>3, <3>1 DEF Step, Flip, ToggleLock
    <3>3. next.typed = base
      BY <3>2 DEF Driver
    <3> QED
      BY <2>1, <3>2, <3>3, Zenon
  <2>4. CASE RegularKey(key, Head(wire) >= KEY_RELEASED_MASK)
    <3>1. Pressed(key) = "none" /\ Toggled(key) = "none" /\ key_state' = key_state
      BY <2>4 DEF RegularKey
    <3>2. next = Driver(key_state', FALSE, next.typed)
      BY <1>1, <1>4, <3>1 DEF Step, Driver
    <3> QED
      BY <2>1, <3>2
  <2> QED
    BY <2>1, <2>2, <2>3, <2>4 DEF process_scancode
<1> QED
  BY <1>2, <1>3, <1>4 DEF KTypeOK, TypeOK

(* Each character it calls for is put in the queue or counted as lost.     *)
LEMMA HandlerAccounts ==
  ASSUME KTypeOK, NEW base \in Seq(1 .. 127), keyboard_interrupt_handler, Accounted(base),
         NEW next, next = Step(Driver(key_state, extended_scancode, base), Head(wire)).typed
  PROVE  Accounted(next)'
<1> DEFINE d    == Driver(key_state, extended_scancode, base)
           key  == Head(wire) % KEY_RELEASED_MASK
           ch   == Ascii(key, key_state)
<1>1. d.key_state = key_state /\ d.extended = extended_scancode /\ d.typed = base
  BY DEF Driver
<1> HIDE DEF d
<1>2. /\ queue \in Seq(1 .. 127) /\ delivered \in Seq(1 .. 127) /\ lost \in Nat
      /\ key_state \in [Modifiers -> BOOLEAN]
      /\ delivered' = delivered
  BY HandlerReads DEF KTypeOK, TypeOK
<1>3. Head(wire) \in 0 .. 255 /\ next = Step(d, Head(wire)).typed
  BY HandlerReads DEF d
<1>4. key \in 0 .. 127
  BY <1>3, KeyRange
<1> HIDE DEF key
<1>8. ch \in 0 .. 127
  BY <1>2, <1>4, AsciiRange
<1>5. CASE next = base /\ UNCHANGED <<queue, lost>>
  <2>1. Typed' = Typed
    BY <1>2, <1>5 DEF Typed
  <2> QED
    BY <1>5, <2>1 DEF Accounted, Thinned
<1>6. CASE ch # NUL /\ next = Append(base, ch) /\ keyboard_buffer_add(ch)
  <2>1. ch \in 1 .. 127
    BY <1>8, <1>6 DEF NUL
  <2>2. Typed \in Seq(1 .. 127) /\ Append(base, ch) \in Seq(1 .. 127)
    BY <1>2, <2>1 DEF Typed
  <2>3. Len(Append(base, ch)) = Len(base) + 1 /\ Len(base) \in Nat /\ Len(Typed) \in Nat
    BY <2>1, <2>2
  <2> HIDE DEF ch
  <2>4. CASE Len(queue) < Size
    <3>1. queue' = Append(queue, ch) /\ lost' = lost
      BY <1>6, <2>4 DEF keyboard_buffer_add, Buffer!Add
    <3>2. Typed' = Append(Typed, ch)
      BY <1>2, <2>1, <3>1 DEF Typed
    <3>3. Thinned(Append(Typed, ch), Append(base, ch))
      BY <2>1, <2>2, ThinnedKeep DEF Accounted
    <3>4. Len(Append(Typed, ch)) + lost = Len(base) + 1
      <4>1. Len(Append(Typed, ch)) = Len(Typed) + 1
        BY <2>1, <2>2
      <4>2. Len(Typed) + lost = Len(base)
        BY DEF Accounted
      <4>3. Len(Typed) \in Nat /\ lost \in Nat
        BY <1>2, <2>3
      <4> QED
        BY <4>1, <4>2, <4>3
    <3> QED
      BY <1>6, <2>3, <3>1, <3>2, <3>3, <3>4 DEF Accounted
  <2>5. CASE ~(Len(queue) < Size)
    <3>1. queue' = queue /\ lost' = lost + 1
      BY <1>6, <2>5 DEF keyboard_buffer_add
    <3>2. Typed' = Typed
      BY <1>2, <3>1 DEF Typed
    <3>3. Thinned(Typed, Append(base, ch))
      BY <2>1, <2>2, ThinnedDrop DEF Accounted
    <3>4. Len(Typed) + (lost + 1) = Len(base) + 1
      <4>1. Len(Typed) + lost = Len(base)
        BY DEF Accounted
      <4>2. Len(Typed) \in Nat /\ lost \in Nat
        BY <1>2, <2>3
      <4> QED
        BY <4>1, <4>2
    <3> QED
      BY <1>6, <2>3, <3>1, <3>2, <3>3, <3>4 DEF Accounted
  <2> QED
    BY <2>4, <2>5
<1>7. (next = base /\ UNCHANGED <<queue, lost>>) \/ (ch # NUL /\ next = Append(base, ch) /\ keyboard_buffer_add(ch))
  <2>1. CASE Head(wire) = EXTENDED_SCANCODE \/ extended_scancode
    BY <1>1, <1>3, <2>1 DEF Step, Driver, keyboard_interrupt_handler
  <2>2. CASE ~(Head(wire) = EXTENDED_SCANCODE \/ extended_scancode)
    <3>1. process_scancode(Head(wire))
      BY <2>2 DEF keyboard_interrupt_handler
    <3>2. CASE SetModifier(key, Head(wire) >= KEY_RELEASED_MASK)
      BY <1>1, <1>3, <2>2, <3>2 DEF Step, Driver, SetModifier, key
    <3>3. CASE ToggleLock(key, Head(wire) >= KEY_RELEASED_MASK)
      BY <1>1, <1>3, <2>2, <3>3 DEF Step, Driver, ToggleLock, key
    <3>4. CASE RegularKey(key, Head(wire) >= KEY_RELEASED_MASK)
      BY <1>1, <1>3, <2>2, <3>4 DEF Step, Driver, RegularKey, key
    <3> QED
      BY <3>1, <3>2, <3>3, <3>4 DEF process_scancode, key
  <2> QED
    BY <2>1, <2>2
<1> QED
  BY <1>5, <1>6, <1>7

LEMMA HandlerQueue ==
  ASSUME KTypeOK, keyboard_interrupt_handler
  PROVE  queue' \in Seq(1 .. 127) /\ Len(queue') <= Size /\ UNCHANGED retval /\ lost' \in Nat
<1> DEFINE key == Head(wire) % KEY_RELEASED_MASK
           ch  == Ascii(key, key_state)
<1>1. /\ queue \in Seq(1 .. 127) /\ Len(queue) <= Size /\ lost \in Nat
      /\ key_state \in [Modifiers -> BOOLEAN] /\ Head(wire) \in 0 .. 255
  BY HandlerReads DEF KTypeOK, TypeOK
<1>2. ch \in 0 .. 127
  <2>1. key \in 0 .. 127
    BY <1>1, KeyRange
  <2> QED
    BY <1>1, <2>1, AsciiRange
<1>3. UNCHANGED <<queue, retval, lost>> \/ (ch # NUL /\ keyboard_buffer_add(ch))
  BY DEF keyboard_interrupt_handler, process_scancode, SetModifier, ToggleLock, RegularKey
<1> HIDE DEF ch
<1>4. CASE UNCHANGED <<queue, retval, lost>>
  BY <1>1, <1>4
<1>5. CASE ch # NUL /\ keyboard_buffer_add(ch)
  <2>1. ch \in 1 .. 127
    BY <1>2, <1>5 DEF NUL
  <2>2. CASE Len(queue) < Size
    <3>1. queue' = Append(queue, ch) /\ UNCHANGED <<retval, lost>>
      BY <1>5, <2>2 DEF keyboard_buffer_add, Buffer!Add
    <3>2. Append(queue, ch) \in Seq(1 .. 127) /\ Len(Append(queue, ch)) = Len(queue) + 1
      BY <1>1, <2>1
    <3> QED
      BY <1>1, <2>2, <3>1, <3>2, KeyboardAssumption
  <2>3. CASE ~(Len(queue) < Size)
    BY <1>1, <1>5, <2>3 DEF keyboard_buffer_add
  <2> QED
    BY <2>2, <2>3
<1> QED
  BY <1>3, <1>4, <1>5

LEMMA HandlerKInv ==
  ASSUME KInv, keyboard_interrupt_handler
  PROVE  KInv'
<1>1. KTypeOK
  BY DEF KInv
<1>2. PICK base \in Seq(1 .. 127), d \in DriverState :
        CatchesUp(base, d) /\ Settled(d) /\ Accounted(base)
  BY DEF KInv
<1> DEFINE now == Driver(key_state, extended_scancode, base)
<1>3. wire \in Seq(0 .. 255) /\ wire # <<>> /\ Head(wire) \in 0 .. 255 /\ wire' = Tail(wire)
  BY <1>1, HandlerReads
<1>4. Leads(now, wire, d) /\ now \in DriverState
  BY <1>2, <1>3, LeadsPrefix DEF CatchesUp
<1>5. PICK next \in DriverState : next = Step(now, Head(wire))
  BY <1>3, <1>4, StepType
<1>6. /\ next.typed \in Seq(1 .. 127) /\ next.key_state \in [Modifiers -> BOOLEAN]
      /\ next.extended \in BOOLEAN
  BY DEF DriverState
<1>7. Driver(key_state', extended_scancode', next.typed) = next
  BY <1>1, <1>5, HandlerSteps
<1>8. key_state' = next.key_state /\ extended_scancode' = next.extended
  BY <1>7 DEF Driver
<1>9. Leads(next, Tail(wire), d)
  BY <1>3, <1>4, <1>5, LeadsFirst
<1>10. CatchesUp(next.typed, d)'
  BY <1>3, <1>7, <1>9 DEF CatchesUp
<1>11. Settled(d)'
  BY <1>2, Unmoved DEF keyboard_interrupt_handler
<1>12. Accounted(next.typed)'
  BY <1>1, <1>2, <1>5, HandlerAccounts
<1>13. KTypeOK'
  <2>1. queue' \in Seq(1 .. 127) /\ Len(queue') <= Size /\ UNCHANGED retval /\ lost' \in Nat
    BY <1>1, HandlerQueue
  <2>2. wire' \in Seq(0 .. 255) /\ UNCHANGED <<held, unseen, caps_light, intended, delivered>>
    BY <1>1, HandlerReads
  <2> QED
    BY <1>1, <1>6, <1>8, <2>1, <2>2 DEF KTypeOK, TypeOK
<1> QED
  BY <1>6, <1>10, <1>11, <1>12, <1>13 DEF KInv

-----------------------------------------------------------------------------
(* The kernel takes a character.                                           *)

LEMMA TakeKInv ==
  ASSUME KInv, TakeKey
  PROVE  KInv'
<1>1. KTypeOK
  BY DEF KInv
<1>2. PICK base \in Seq(1 .. 127), d \in DriverState :
        CatchesUp(base, d) /\ Settled(d) /\ Accounted(base)
  BY DEF KInv
<1>3. /\ queue \in Seq(1 .. 127) /\ delivered \in Seq(1 .. 127) /\ Len(queue) <= Size
      /\ queue # <<>> /\ retval' = Head(queue) /\ queue' = Tail(queue)
      /\ delivered' = Append(delivered, Head(queue))
  BY <1>1 DEF KTypeOK, TypeOK, TakeKey, Buffer!Get
<1>4. /\ UNCHANGED <<key_state, extended_scancode, wire, lost>>
      /\ UNCHANGED device_vars
  BY DEF TakeKey, code_vars
<1>5. Head(queue) \in 1 .. 127 /\ Tail(queue) \in Seq(1 .. 127) /\ Len(Tail(queue)) <= Len(queue)
  <2>1. Head(queue) = queue[1] /\ 1 \in 1 .. Len(queue)
    BY <1>3
  <2>2. Tail(queue) \in Seq(1 .. 127) /\ Len(Tail(queue)) <= Len(queue)
    BY <1>3
  <2> QED
    BY <1>3, <2>1, <2>2, ElementOfSeq, SMTT(20), ZenonT(30)
<1>6. Append(delivered, Head(queue)) \o Tail(queue) = delivered \o queue
  BY <1>3, <1>5
<1>7. Typed' = Typed
  BY <1>3, <1>6 DEF Typed
<1>8. Accounted(base)'
  BY <1>2, <1>4, <1>7 DEF Accounted
<1>9. CatchesUp(base, d)' /\ Settled(d)'
  BY <1>2, <1>4, Unmoved DEF CatchesUp
<1>10. KTypeOK'
  <2>1. queue' \in Seq(1 .. 127) /\ Len(queue') <= Size /\ retval' \in 0 .. 127
    <3>1. Size \in Nat /\ Len(queue) \in Nat /\ Len(Tail(queue)) \in Nat
      BY <1>3, <1>5, KeyboardAssumption
    <3> QED
      BY <1>3, <1>5, <3>1
  <2>2. delivered' \in Seq(1 .. 127)
    BY <1>3, <1>5
  <2> QED
    BY <1>1, <1>4, <2>1, <2>2 DEF KTypeOK, TypeOK, device_vars
<1> QED
  BY <1>8, <1>9, <1>10 DEF KInv

-----------------------------------------------------------------------------
(* The keyboard sends bytes.                                               *)

LEMMA LeadsTwoMore ==
  ASSUME NEW d, NEW bytes \in Seq(0 .. 255), NEW e, Leads(d, bytes, e),
         NEW b1 \in 0 .. 255, NEW b2 \in 0 .. 255
  PROVE  /\ bytes \o <<b1, b2>> \in Seq(0 .. 255)
         /\ Leads(d, bytes \o <<b1, b2>>, Step(Step(e, b1), b2))
<1>1. bytes \o <<b1, b2>> = Append(Append(bytes, b1), b2)
  OBVIOUS
<1>2. Append(bytes, b1) \in Seq(0 .. 255) /\ Leads(d, Append(bytes, b1), Step(e, b1))
  BY LeadsOneMore
<1>3. /\ Append(Append(bytes, b1), b2) \in Seq(0 .. 255)
      /\ Leads(d, Append(Append(bytes, b1), b2), Step(Step(e, b1), b2))
  BY <1>2, LeadsOneMore
<1> QED
  BY <1>1, <1>3

(* An extended scancode leaves the driver as it was, whatever it is.       *)
LEMMA PrefixedIgnored ==
  ASSUME NEW d, NEW bytes \in Seq(0 .. 255), NEW e, Leads(d, bytes, e), ~e.extended,
         NEW byte \in (0 .. 255) \ {EXTENDED_SCANCODE}
  PROVE  bytes \o Prefixed(byte) \in Seq(0 .. 255) /\ Leads(d, bytes \o Prefixed(byte), e)
<1>1. e \in DriverState
  BY LeadsPrefix
<1>2. e = Driver(e.key_state, FALSE, e.typed)
  BY <1>1 DEF DriverState, Driver
<1>3. Step(e, EXTENDED_SCANCODE) = Driver(e.key_state, TRUE, e.typed)
  BY DEF Step
<1>4. Step(Driver(e.key_state, TRUE, e.typed), byte) = Driver(e.key_state, FALSE, e.typed)
  BY DEF Step, Driver
<1>5. EXTENDED_SCANCODE \in 0 .. 255
  BY DEF EXTENDED_SCANCODE
<1>6. Step(Step(e, EXTENDED_SCANCODE), byte) = e
  BY <1>2, <1>3, <1>4
<1>7. /\ bytes \o <<EXTENDED_SCANCODE, byte>> \in Seq(0 .. 255)
      /\ Leads(d, bytes \o <<EXTENDED_SCANCODE, byte>>, Step(Step(e, EXTENDED_SCANCODE), byte))
  BY <1>5, LeadsTwoMore, ZenonT(30)
<1> QED
  BY <1>6, <1>7, Zenon DEF Prefixed

LEMMA FakeShiftIgnored ==
  ASSUME NEW d, NEW bytes \in Seq(0 .. 255), NEW e, Leads(d, bytes, e), ~e.extended,
         NEW f \in FakeShifts
  PROVE  bytes \o f \in Seq(0 .. 255) /\ Leads(d, bytes \o f, e)
<1>1. {SC_LSHIFT, SC_LSHIFT + KEY_RELEASED_MASK} \subseteq (0 .. 255) \ {EXTENDED_SCANCODE}
  BY DEF SC_LSHIFT, KEY_RELEASED_MASK, EXTENDED_SCANCODE
<1>2. CASE f = <<>>
  <2>1. bytes \o f = bytes
    BY <1>2
  <2> QED
    BY <2>1
<1>3. CASE f # <<>>
  <2>1. PICK byte \in (0 .. 255) \ {EXTENDED_SCANCODE} : f = Prefixed(byte)
    BY <1>1, <1>3, Zenon DEF FakeShifts
  <2>2. /\ bytes \o Prefixed(byte) \in Seq(0 .. 255)
        /\ Leads(d, bytes \o Prefixed(byte), e)
    BY <2>1, PrefixedIgnored
  <2> QED
    BY <2>1, <2>2, Zenon
<1> QED
  BY <1>2, <1>3

LEMMA KeyBytes ==
  ASSUME NEW k \in Keys
  PROVE  /\ k.code \in 1 .. 127 /\ k.ext \in BOOLEAN
         /\ k.code \in (0 .. 255) \ {EXTENDED_SCANCODE}
         /\ k.code + KEY_RELEASED_MASK \in (0 .. 255) \ {EXTENDED_SCANCODE}
         /\ ~k.ext => k = Plain(k.code)
<1>1. /\ k \in [code : (1 .. 127) \ {EXTENDED_SCANCODE - KEY_RELEASED_MASK}, ext : BOOLEAN]
  BY KeyboardAssumption
<1>2. k.code \in 1 .. 127 /\ k.code # 96 /\ k.ext \in BOOLEAN
  BY <1>1 DEF EXTENDED_SCANCODE, KEY_RELEASED_MASK
<1>3. ~k.ext => k = Plain(k.code)
  BY <1>1 DEF Plain
<1> QED
  BY <1>2, <1>3 DEF EXTENDED_SCANCODE, KEY_RELEASED_MASK

(* Neither do the scancodes of a key that 0xE0 precedes change anything.   *)
LEMMA ExtendedKeyIgnored ==
  ASSUME NEW d, NEW bytes \in Seq(0 .. 255), NEW e, Leads(d, bytes, e), ~e.extended,
         NEW k \in Keys, k.ext, NEW sent \in MakeCodes(k) \cup BreakCodes(k)
  PROVE  bytes \o sent \in Seq(0 .. 255) /\ Leads(d, bytes \o sent, e)
<1> DEFINE up == k.code + KEY_RELEASED_MASK
<1>1. k.code \in (0 .. 255) \ {EXTENDED_SCANCODE} /\ up \in (0 .. 255) \ {EXTENDED_SCANCODE}
  BY KeyBytes
<1>2. FakeShifts \cup {Prefixed(k.code), Prefixed(up)} \subseteq Seq(0 .. 255)
  <2>1. \A b \in 0 .. 255 : Prefixed(b) \in Seq(0 .. 255)
    BY DEF Prefixed, EXTENDED_SCANCODE
  <2>2. SC_LSHIFT \in 0 .. 255 /\ SC_LSHIFT + KEY_RELEASED_MASK \in 0 .. 255
    BY DEF SC_LSHIFT, KEY_RELEASED_MASK
  <2>3. <<>> \in Seq(0 .. 255)
    OBVIOUS
  <2>4. Prefixed(k.code) \in Seq(0 .. 255) /\ Prefixed(up) \in Seq(0 .. 255)
    BY <1>1, <2>1
  <2>5. FakeShifts \subseteq Seq(0 .. 255)
    BY <2>1, <2>2, <2>3, Zenon DEF FakeShifts
  <2> QED
    BY <2>4, <2>5
<1> HIDE DEF up
<1>3. CASE sent \in MakeCodes(k)
  <2>1. PICK f \in FakeShifts : sent = f \o Prefixed(k.code)
    BY <1>3 DEF MakeCodes
  <2>2. bytes \o sent = (bytes \o f) \o Prefixed(k.code)
    BY <1>2, <2>1
  <2>3. bytes \o f \in Seq(0 .. 255) /\ Leads(d, bytes \o f, e)
    BY FakeShiftIgnored
  <2> QED
    BY <1>1, <2>2, <2>3, PrefixedIgnored, SMTT(20), ZenonT(30)
<1>4. CASE sent \in BreakCodes(k)
  <2>1. PICK f \in FakeShifts : sent = Prefixed(up) \o f
    BY <1>4 DEF BreakCodes, up
  <2>2. bytes \o sent = (bytes \o Prefixed(up)) \o f
    BY <1>2, <2>1
  <2>3. bytes \o Prefixed(up) \in Seq(0 .. 255) /\ Leads(d, bytes \o Prefixed(up), e)
    BY <1>1, PrefixedIgnored
  <2> QED
    BY <2>2, <2>3, FakeShiftIgnored, ZenonT(30)
<1> QED
  BY <1>3, <1>4

-----------------------------------------------------------------------------
(* What a key that no 0xE0 precedes tells the driver.                      *)

ModifierCodes == {SC_LSHIFT, SC_RSHIFT, SC_LCTRL, SC_LALT}
LockCodes == {SC_CAPS_LOCK, SC_NUM_LOCK, SC_SCROLL_LOCK}

LEMMA NothingOnModifiers ==
  ASSUME NEW code \in ModifierCodes
  PROVE  Engraved(code) = NUL
<1>1. scancode_to_ascii[code + 1] = NUL /\ scancode_to_ascii_shifted[code + 1] = NUL
  BY DEF scancode_to_ascii, scancode_to_ascii_shifted, ModifierCodes,
         SC_LSHIFT, SC_RSHIFT, SC_LCTRL, SC_LALT, NUL
<1>2. code \in 0 .. 127 /\ code <= 57
  BY DEF ModifierCodes, SC_LSHIFT, SC_RSHIFT, SC_LCTRL, SC_LALT
<1> QED
  BY <1>1, <1>2, KeycapIsTable, NothingEngraved

LEMMA NothingCalled ==
  ASSUME NEW code \in ModifierCodes \cup (58 .. 127)
  PROVE  Called(Plain(code)) = <<>>
<1>1. Plain(code).code = code
  BY DEF Plain
<1>2. Engraved(code) = NUL
  <2>1. CASE code \in ModifierCodes
    BY <2>1, NothingOnModifiers
  <2>2. CASE code \in 58 .. 127
    <3>1. code \in 0 .. 127 /\ code > 57
      BY <2>2
    <3> QED
      BY <3>1, KeycapIsTable, NothingEngraved
  <2> QED
    BY <2>1, <2>2
<1> QED
  BY <1>1, <1>2 DEF Called

(* Which field of the state a code is for.                                 *)
LEMMA Fields ==
  /\ Pressed(SC_LSHIFT) = "shift_left" /\ Pressed(SC_RSHIFT) = "shift_right"
  /\ Pressed(SC_LCTRL) = "ctrl_left" /\ Pressed(SC_LALT) = "alt_left"
  /\ Toggled(SC_CAPS_LOCK) = "caps_lock" /\ Toggled(SC_NUM_LOCK) = "num_lock"
  /\ Toggled(SC_SCROLL_LOCK) = "scroll_lock"
  /\ \A code \in LockCodes : Pressed(code) = "none"
  /\ \A code \in (0 .. 127) \ ModifierCodes : Pressed(code) = "none"
  /\ \A code \in (0 .. 127) \ LockCodes : Toggled(code) = "none"
BY DEF Pressed, Toggled, ModifierCodes, LockCodes, SC_LSHIFT, SC_RSHIFT, SC_LCTRL, SC_LALT,
       SC_CAPS_LOCK, SC_NUM_LOCK, SC_SCROLL_LOCK

LEMMA CodesDiffer ==
  /\ SC_LSHIFT = 42 /\ SC_RSHIFT = 54 /\ SC_LCTRL = 29 /\ SC_LALT = 56
  /\ SC_CAPS_LOCK = 58 /\ SC_NUM_LOCK = 69 /\ SC_SCROLL_LOCK = 70
BY DEF SC_LSHIFT, SC_RSHIFT, SC_LCTRL, SC_LALT, SC_CAPS_LOCK, SC_NUM_LOCK, SC_SCROLL_LOCK

OthersStay(code) == \A c \in 1 .. 127 : c # code => (Down(c)' = Down(c))

(* A modifier key goes down or up.                                         *)
LEMMA ModifierStep ==
  ASSUME NEW d \in DriverState, Settled(d), NEW code \in ModifierCodes, NEW byte \in 0 .. 255,
         byte % KEY_RELEASED_MASK = code, byte # EXTENDED_SCANCODE,
         NEW down \in BOOLEAN, down = ~(byte >= KEY_RELEASED_MASK), Down(code)' = down,
         OthersStay(code), caps_light' = caps_light, intended' = intended
  PROVE  Settled(Step(d, byte))'
<1> DEFINE field == Pressed(code)
           state == SetTo(d.key_state, field, down)
<1>1. field # "none" /\ field \in {"shift_left", "shift_right", "ctrl_left", "alt_left"}
  BY Fields DEF ModifierCodes
<1>2. Step(d, byte) = Driver(state, FALSE, d.typed)
  BY <1>1 DEF Step, Settled
<1>3. Agrees(d.key_state) /\ d.typed = intended
  BY DEF Settled
<1>4. /\ state \in [Modifiers -> BOOLEAN]
      /\ state[field] = down
      /\ \A m \in Modifiers : m # field => state[m] = d.key_state[m]
  BY <1>1, <1>3 DEF Agrees, Modifiers, SetTo
<1> HIDE DEF state, field
<1>5. Agrees(state)'
  <2>1. CASE code = SC_LSHIFT
    BY <1>3, <1>4, <2>1, Fields, CodesDiffer DEF Agrees, Modifiers, OthersStay, field
  <2>2. CASE code = SC_RSHIFT
    BY <1>3, <1>4, <2>2, Fields, CodesDiffer DEF Agrees, Modifiers, OthersStay, field
  <2>3. CASE code = SC_LCTRL
    BY <1>3, <1>4, <2>3, Fields, CodesDiffer DEF Agrees, Modifiers, OthersStay, field
  <2>4. CASE code = SC_LALT
    BY <1>3, <1>4, <2>4, Fields, CodesDiffer DEF Agrees, Modifiers, OthersStay, field
  <2> QED
    BY <2>1, <2>2, <2>3, <2>4 DEF ModifierCodes
<1> QED
  BY <1>2, <1>3, <1>5 DEF Settled, Driver

(* A lock key goes down, and a lock key or an ordinary one goes up.        *)
LEMMA ModifiersStay ==
  ASSUME NEW state, Agrees(state), NEW code \in (1 .. 127) \ ModifierCodes, OthersStay(code),
         caps_light' = caps_light
  PROVE  Agrees(state)'
BY CodesDiffer DEF Agrees, OthersStay, ModifierCodes

LEMMA LockStep ==
  ASSUME NEW d \in DriverState, Settled(d), NEW code \in LockCodes,
         OthersStay(code), caps_light \in BOOLEAN,
         caps_light' = (caps_light # (code = SC_CAPS_LOCK)), intended' = intended
  PROVE  Settled(Step(d, code))'
<1> DEFINE field == Toggled(code)
           state == Flip(d.key_state, field)
<1>1. /\ field # "none" /\ field \in {"caps_lock", "num_lock", "scroll_lock"}
      /\ Pressed(code) = "none"
  BY Fields DEF LockCodes
<1>2. code % KEY_RELEASED_MASK = code /\ ~(code >= KEY_RELEASED_MASK) /\ code # EXTENDED_SCANCODE
  BY CodesDiffer DEF LockCodes, KEY_RELEASED_MASK, EXTENDED_SCANCODE
<1>3. Step(d, code) = Driver(state, FALSE, d.typed)
  BY <1>1, <1>2 DEF Step, Settled
<1>4. Agrees(d.key_state) /\ d.typed = intended
  BY DEF Settled
<1>5. /\ state \in [Modifiers -> BOOLEAN]
      /\ state[field] = ~d.key_state[field]
      /\ \A m \in Modifiers : m # field => state[m] = d.key_state[m]
  BY <1>1, <1>4 DEF Agrees, Modifiers, Flip
<1> HIDE DEF state
<1>6. field = "caps_lock" <=> code = SC_CAPS_LOCK
  BY Fields, CodesDiffer DEF LockCodes
<1>7. state["caps_lock"] = caps_light'
  <2>1. d.key_state["caps_lock"] = caps_light
    BY <1>4 DEF Agrees
  <2>2. CASE code = SC_CAPS_LOCK
    BY <1>5, <1>6, <2>1, <2>2
  <2>3. CASE code # SC_CAPS_LOCK
    <3>1. state["caps_lock"] = d.key_state["caps_lock"]
      BY <1>5, <1>6, <2>3 DEF Modifiers
    <3> QED
      BY <2>1, <2>3, <3>1
  <2> QED
    BY <2>2, <2>3
<1> HIDE DEF field
<1>8. Agrees(state)'
  BY <1>1, <1>4, <1>5, <1>7, CodesDiffer DEF Agrees, Modifiers, OthersStay, LockCodes
<1> QED
  BY <1>3, <1>4, <1>8 DEF Settled, Driver

LEMMA UpStep ==
  ASSUME NEW d \in DriverState, Settled(d), NEW code \in (1 .. 127) \ ModifierCodes,
         code + KEY_RELEASED_MASK # EXTENDED_SCANCODE,
         OthersStay(code), caps_light' = caps_light, intended' = intended
  PROVE  Settled(Step(d, code + KEY_RELEASED_MASK))'
<1> DEFINE byte == code + KEY_RELEASED_MASK
<1>1. byte \in 0 .. 255 /\ byte % KEY_RELEASED_MASK = code /\ byte >= KEY_RELEASED_MASK
  BY KeyOfByte DEF KEY_RELEASED_MASK
<1>2. Pressed(code) = "none"
  BY Fields
<1> HIDE DEF byte
<1>3. Step(d, byte) = Driver(d.key_state, FALSE, d.typed)
  BY <1>1, <1>2 DEF Step, Settled, byte
<1>4. Agrees(d.key_state)'
  BY ModifiersStay DEF Settled
<1> QED
  BY <1>3, <1>4 DEF Settled, Driver, byte

(* Any other key goes down: the driver calls for what is engraved on it.   *)
LEMMA OrdinaryStep ==
  ASSUME NEW d \in DriverState, Settled(d), caps_light \in BOOLEAN,
         NEW code \in (1 .. 127) \ (ModifierCodes \cup LockCodes),
         OthersStay(code), caps_light' = caps_light,
         intended' = intended \o Called(Plain(code))
  PROVE  Settled(Step(d, code))'
<1> DEFINE ch == Ascii(code, d.key_state)
<1>1. code % KEY_RELEASED_MASK = code /\ ~(code >= KEY_RELEASED_MASK) /\ code # EXTENDED_SCANCODE
  BY DEF KEY_RELEASED_MASK, EXTENDED_SCANCODE
<1>2. Pressed(code) = "none" /\ Toggled(code) = "none"
  BY Fields
<1>3. Step(d, code) = Driver(d.key_state, FALSE, IF ch = NUL THEN d.typed ELSE Append(d.typed, ch))
  BY <1>1, <1>2 DEF Step, Settled
<1>4. d.typed = intended /\ d.typed \in Seq(1 .. 127) /\ Agrees(d.key_state)
  BY DEF Settled, DriverState
<1>5. Called(Plain(code)) = IF ch = NUL THEN <<>> ELSE <<ch>>
  <2>1. Plain(code).code = code /\ Plain(code).ext = FALSE
    BY DEF Plain
  <2>2. Engraved(code) = ch
    <3>1. code \in 0 .. 127
      OBVIOUS
    <3> QED
      BY <1>4, <3>1, AsciiIsEngraved
  <2> QED
    BY <2>1, <2>2 DEF Called
<1> HIDE DEF ch
<1>6. intended' = IF ch = NUL THEN d.typed ELSE Append(d.typed, ch)
  BY <1>4, <1>5
<1>7. Agrees(d.key_state)'
  BY <1>4, ModifiersStay
<1> QED
  BY <1>3, <1>6, <1>7 DEF Settled, Driver

(* Step, for a driver that is not in the middle of an extended scancode.   *)
LEMMA StepPressed ==
  ASSUME NEW k, NEW t, NEW byte, byte # EXTENDED_SCANCODE,
         Pressed(byte % KEY_RELEASED_MASK) # "none", ~(byte >= KEY_RELEASED_MASK)
  PROVE  Step(Driver(k, FALSE, t), byte) = Driver(SetTo(k, Pressed(byte % KEY_RELEASED_MASK), TRUE), FALSE, t)
<1> DEFINE d == Driver(k, FALSE, t)
<1>1. d.key_state = k /\ d.extended = FALSE /\ d.typed = t
  BY DEF Driver
<1> HIDE DEF d
<1>2. Step(d, byte) = Driver(SetTo(k, Pressed(byte % KEY_RELEASED_MASK), TRUE), FALSE, t)
  BY <1>1 DEF Step
<1> QED
  BY <1>2 DEF d

LEMMA StepReleased ==
  ASSUME NEW k, NEW t, NEW byte, byte # EXTENDED_SCANCODE,
         Pressed(byte % KEY_RELEASED_MASK) # "none", byte >= KEY_RELEASED_MASK
  PROVE  Step(Driver(k, FALSE, t), byte) = Driver(SetTo(k, Pressed(byte % KEY_RELEASED_MASK), FALSE), FALSE, t)
<1> DEFINE d == Driver(k, FALSE, t)
<1>1. d.key_state = k /\ d.extended = FALSE /\ d.typed = t
  BY DEF Driver
<1> HIDE DEF d
<1>2. Step(d, byte) = Driver(SetTo(k, Pressed(byte % KEY_RELEASED_MASK), FALSE), FALSE, t)
  BY <1>1 DEF Step
<1> QED
  BY <1>2 DEF d

LEMMA StepToggled ==
  ASSUME NEW k, NEW t, NEW byte, byte # EXTENDED_SCANCODE,
         Pressed(byte % KEY_RELEASED_MASK) = "none", Toggled(byte % KEY_RELEASED_MASK) # "none",
         ~(byte >= KEY_RELEASED_MASK)
  PROVE  Step(Driver(k, FALSE, t), byte) = Driver(Flip(k, Toggled(byte % KEY_RELEASED_MASK)), FALSE, t)
<1> DEFINE d == Driver(k, FALSE, t)
<1>1. d.key_state = k /\ d.extended = FALSE /\ d.typed = t
  BY DEF Driver
<1> HIDE DEF d
<1>2. Step(d, byte) = Driver(Flip(k, Toggled(byte % KEY_RELEASED_MASK)), FALSE, t)
  BY <1>1 DEF Step
<1> QED
  BY <1>2 DEF d

LEMMA StepUnheeded ==
  ASSUME NEW k, NEW t, NEW byte, byte # EXTENDED_SCANCODE,
         Pressed(byte % KEY_RELEASED_MASK) = "none", byte >= KEY_RELEASED_MASK
  PROVE  Step(Driver(k, FALSE, t), byte) = Driver(k, FALSE, t)
<1> DEFINE d == Driver(k, FALSE, t)
<1>1. d.key_state = k /\ d.extended = FALSE /\ d.typed = t
  BY DEF Driver
<1> HIDE DEF d
<1>2. Step(d, byte) = Driver(k, FALSE, t)
  BY <1>1 DEF Step
<1> QED
  BY <1>2 DEF d

(* The bytes of Pause press and release Ctrl, which was up, and NumLock.   *)
LEMMA PauseStep ==
  ASSUME NEW d \in DriverState, Settled(d), ~Down(SC_LCTRL)
  PROVE  Settled(Step(Step(Step(Step(Step(Step(d, 225), SC_LCTRL), SC_NUM_LOCK),
                                     225), SC_LCTRL + KEY_RELEASED_MASK),
                           SC_NUM_LOCK + KEY_RELEASED_MASK))
<1> DEFINE k0 == d.key_state
           t  == d.typed
<1>1. d = Driver(k0, FALSE, t)
  BY DEF DriverState, Driver, Settled
<1> DEFINE M == KEY_RELEASED_MASK
           ctrl_up == SC_LCTRL + M
           num_up  == SC_NUM_LOCK + M
<1>2. /\ 225 >= M /\ 225 # EXTENDED_SCANCODE
      /\ ~(SC_LCTRL >= M) /\ SC_LCTRL # EXTENDED_SCANCODE
      /\ ~(SC_NUM_LOCK >= M) /\ SC_NUM_LOCK # EXTENDED_SCANCODE
      /\ ctrl_up >= M /\ ctrl_up # EXTENDED_SCANCODE
      /\ num_up >= M /\ num_up # EXTENDED_SCANCODE
  BY CodesDiffer DEF KEY_RELEASED_MASK, EXTENDED_SCANCODE
<1>3. /\ Pressed(225 % M) = "none"
      /\ Pressed(SC_LCTRL % M) = "ctrl_left"
      /\ Pressed(SC_NUM_LOCK % M) = "none" /\ Toggled(SC_NUM_LOCK % M) = "num_lock"
      /\ Pressed(ctrl_up % M) = "ctrl_left"
      /\ Pressed(num_up % M) = "none"
  <2>1. /\ 225 % M = 97 /\ SC_LCTRL % M = SC_LCTRL /\ SC_NUM_LOCK % M = SC_NUM_LOCK
        /\ ctrl_up % M = SC_LCTRL /\ num_up % M = SC_NUM_LOCK
    BY CodesDiffer DEF KEY_RELEASED_MASK
  <2>2. 97 \in (0 .. 127) \ ModifierCodes
    BY CodesDiffer DEF ModifierCodes
  <2> HIDE DEF M, ctrl_up, num_up
  <2> QED
    BY <2>1, <2>2, Fields DEF LockCodes
<1>4. k0["ctrl_left"] = FALSE /\ Agrees(k0) /\ t = intended
  <2>1. Agrees(k0) /\ t = intended
    BY DEF Settled
  <2>2. Down(SC_LCTRL) = FALSE
    BY DEF Down
  <2> QED
    BY <2>1, <2>2 DEF Agrees
<1> HIDE DEF k0, t, ctrl_up, num_up
<1>5. /\ k0 \in [Modifiers -> BOOLEAN]
      /\ {"ctrl_left", "num_lock"} \subseteq Modifiers
  BY <1>4 DEF Agrees, Modifiers
<1>6. PICK k2 \in [Modifiers -> BOOLEAN] : k2 = SetTo(k0, "ctrl_left", TRUE)
  BY <1>5 DEF SetTo
<1>7. PICK k3 \in [Modifiers -> BOOLEAN] : k3 = Flip(k2, "num_lock")
  BY <1>5 DEF Flip
<1>8. PICK k5 \in [Modifiers -> BOOLEAN] : k5 = SetTo(k3, "ctrl_left", FALSE)
  BY <1>5 DEF SetTo
<1>9. \A m \in Modifiers : m # "num_lock" => k5[m] = k0[m]
  <2> SUFFICES ASSUME NEW m \in Modifiers, m # "num_lock" PROVE k5[m] = k0[m]
    OBVIOUS
  <2>1. CASE m = "ctrl_left"
    BY <1>4, <1>8, <2>1 DEF SetTo
  <2>2. CASE m # "ctrl_left"
    <3>1. k5[m] = k3[m] /\ k3[m] = k2[m] /\ k2[m] = k0[m]
      BY <1>5, <1>6, <1>7, <1>8, <2>2 DEF SetTo, Flip
    <3> QED
      BY <3>1
  <2> QED
    BY <2>1, <2>2
<1>10. /\ Step(Driver(k0, FALSE, t), 225) = Driver(k0, FALSE, t)
       /\ Step(Driver(k3, FALSE, t), 225) = Driver(k3, FALSE, t)
  BY <1>2, <1>3, StepUnheeded
<1>13. Step(Driver(k0, FALSE, t), SC_LCTRL) = Driver(k2, FALSE, t)
  BY <1>2, <1>3, <1>6, StepPressed
<1>14. Step(Driver(k2, FALSE, t), SC_NUM_LOCK) = Driver(k3, FALSE, t)
  BY <1>2, <1>3, <1>7, StepToggled
<1>15. Step(Driver(k3, FALSE, t), ctrl_up) = Driver(k5, FALSE, t)
  BY <1>2, <1>3, <1>8, StepReleased
<1>16. Step(Driver(k5, FALSE, t), num_up) = Driver(k5, FALSE, t)
  BY <1>2, <1>3, StepUnheeded
<1>11. Agrees(k5)
  BY <1>4, <1>5, <1>9 DEF Agrees, Modifiers
<1>12. Settled(Driver(k5, FALSE, t))
  BY <1>4, <1>11 DEF Settled, Driver
<1> QED
  BY <1>1, <1>10, <1>12, <1>13, <1>14, <1>15, <1>16, SMTT(20), ZenonT(30) DEF ctrl_up, num_up

-----------------------------------------------------------------------------
(* The keys.                                                               *)

(* Once the driver has caught up with the bytes that are sent, it knows    *)
(* what they tell.                                                         *)
LEMMA SendKInv ==
  ASSUME KTypeOK, NEW base \in Seq(1 .. 127), NEW d \in DriverState, NEW bytes,
         Accounted(base), Send(bytes),
         Leads(Driver(key_state, extended_scancode, base), wire \o bytes, d),
         wire \o bytes \in Seq(0 .. 255), Settled(d)',
         held' \subseteq Keys, unseen' \subseteq held', caps_light' \in BOOLEAN
  PROVE  KInv'
<1>1. /\ UNCHANGED <<key_state, extended_scancode, queue, retval, delivered, lost>>
      /\ wire' = wire \o bytes
  BY DEF Send, code_vars
<1>2. intended' \in Seq(1 .. 127)
  <2>1. d.typed = intended'
    BY DEF Settled
  <2> QED
    BY <2>1 DEF DriverState
<1>3. KTypeOK'
  BY <1>1, <1>2 DEF KTypeOK, TypeOK
<1>4. CatchesUp(base, d)'
  BY <1>1 DEF CatchesUp
<1>5. Typed' = Typed
  BY <1>1 DEF Typed
<1>6. Accounted(base)'
  BY <1>1, <1>5 DEF Accounted
<1> QED
  BY <1>3, <1>4, <1>6 DEF KInv

LEMMA AppendInside ==
  ASSUME NEW s \in Seq(0 .. 255), NEW t \in Seq(0 .. 255), NEW x \in 0 .. 255
  PROVE  s \o Append(t, x) = Append(s \o t, x)
OBVIOUS

LEMMA PauseKInv ==
  ASSUME KInv, PressPause
  PROVE  KInv'
<1>1. KTypeOK /\ wire \in Seq(0 .. 255)
  BY DEF KInv, KTypeOK, TypeOK
<1>2. PICK base \in Seq(1 .. 127), d \in DriverState :
        CatchesUp(base, d) /\ Settled(d) /\ Accounted(base)
  BY DEF KInv
<1>3. ~Down(SC_LCTRL)
  <2>1. Plain(SC_LCTRL).code = SC_LCTRL
    BY DEF Plain
  <2> QED
    BY <2>1 DEF PressPause, Down
<1> DEFINE now  == Driver(key_state, extended_scancode, base)
           up   == SC_LCTRL + KEY_RELEASED_MASK
           up2  == SC_NUM_LOCK + KEY_RELEASED_MASK
           last == Step(Step(Step(Step(Step(Step(d, 225), SC_LCTRL), SC_NUM_LOCK), 225), up), up2)
<1>4. 225 \in 0 .. 255 /\ SC_LCTRL \in 0 .. 255 /\ SC_NUM_LOCK \in 0 .. 255 /\ up \in 0 .. 255 /\ up2 \in 0 .. 255
  BY CodesDiffer DEF KEY_RELEASED_MASK
<1>5. Settled(last)
  BY <1>2, <1>3, PauseStep
<1>6. Leads(now, wire, d)
  BY <1>2 DEF CatchesUp
<1>7. wire \o PauseCodes \in Seq(0 .. 255) /\ Leads(now, wire \o PauseCodes, last)
  <2>1. PauseCodes = <<225, SC_LCTRL, SC_NUM_LOCK, 225, up, up2>>
    BY DEF PauseCodes
  <2> HIDE DEF up, up2
  <2> DEFINE w1 == Append(wire, 225)
             w2 == Append(w1, SC_LCTRL)
             w3 == Append(w2, SC_NUM_LOCK)
             w4 == Append(w3, 225)
             w5 == Append(w4, up)
             w6 == Append(w5, up2)
  <2>2. wire \o PauseCodes = w6
    <3> DEFINE s1 == <<225>>
               s2 == <<225, SC_LCTRL>>
               s3 == <<225, SC_LCTRL, SC_NUM_LOCK>>
               s4 == <<225, SC_LCTRL, SC_NUM_LOCK, 225>>
               s5 == <<225, SC_LCTRL, SC_NUM_LOCK, 225, up>>
               s6 == <<225, SC_LCTRL, SC_NUM_LOCK, 225, up, up2>>
    <3>1. /\ s1 \in Seq(0 .. 255) /\ s2 \in Seq(0 .. 255) /\ s3 \in Seq(0 .. 255)
          /\ s4 \in Seq(0 .. 255) /\ s5 \in Seq(0 .. 255)
      BY <1>4
    <3>2. /\ s2 = Append(s1, SC_LCTRL) /\ s3 = Append(s2, SC_NUM_LOCK) /\ s4 = Append(s3, 225)
          /\ s5 = Append(s4, up) /\ s6 = Append(s5, up2)
      OBVIOUS
    <3>3. wire \o s1 = w1
      BY <1>1, <1>4
    <3>9. \A t \in Seq(0 .. 255), x \in 0 .. 255 : wire \o Append(t, x) = Append(wire \o t, x)
      BY <1>1, AppendInside
    <3> HIDE DEF s1, s2, s3, s4, s5, s6, w1, w2, w3, w4, w5, w6
    <3>4. wire \o s2 = w2
      <4>1. wire \o Append(s1, SC_LCTRL) = Append(wire \o s1, SC_LCTRL)
        BY <1>4, <3>1, <3>9, Zenon
      <4> QED
        BY <3>2, <3>3, <4>1, Zenon DEF w2
    <3>5. wire \o s3 = w3
      <4>1. wire \o Append(s2, SC_NUM_LOCK) = Append(wire \o s2, SC_NUM_LOCK)
        BY <1>4, <3>1, <3>9, Zenon
      <4> QED
        BY <3>2, <3>4, <4>1, Zenon DEF w3
    <3>6. wire \o s4 = w4
      <4>1. wire \o Append(s3, 225) = Append(wire \o s3, 225)
        BY <1>4, <3>1, <3>9, Zenon
      <4> QED
        BY <3>2, <3>5, <4>1, Zenon DEF w4
    <3>7. wire \o s5 = w5
      <4>1. wire \o Append(s4, up) = Append(wire \o s4, up)
        BY <1>4, <3>1, <3>9, Zenon
      <4> QED
        BY <3>2, <3>6, <4>1, Zenon DEF w5
    <3>8. wire \o s6 = w6
      <4>1. wire \o Append(s5, up2) = Append(wire \o s5, up2)
        BY <1>4, <3>1, <3>9, Zenon
      <4> QED
        BY <3>2, <3>7, <4>1, Zenon DEF w6
    <3> QED
      BY <2>1, <3>8, Zenon DEF s6
  <2>3. w1 \in Seq(0 .. 255) /\ Leads(now, w1, Step(d, 225))
    BY <1>1, <1>4, <1>6, LeadsOneMore
  <2> HIDE DEF w1
  <2>4. w2 \in Seq(0 .. 255) /\ Leads(now, w2, Step(Step(d, 225), SC_LCTRL))
    BY <1>4, <2>3, LeadsOneMore, ZenonT(30)
  <2> HIDE DEF w2
  <2>5. w3 \in Seq(0 .. 255) /\ Leads(now, w3, Step(Step(Step(d, 225), SC_LCTRL), SC_NUM_LOCK))
    BY <1>4, <2>4, LeadsOneMore, ZenonT(30)
  <2> HIDE DEF w3
  <2>6. w4 \in Seq(0 .. 255) /\ Leads(now, w4, Step(Step(Step(Step(d, 225), SC_LCTRL), SC_NUM_LOCK), 225))
    BY <1>4, <2>5, LeadsOneMore, ZenonT(30)
  <2> HIDE DEF w4
  <2>7. w5 \in Seq(0 .. 255) /\ Leads(now, w5, Step(Step(Step(Step(Step(d, 225), SC_LCTRL), SC_NUM_LOCK), 225), up))
    BY <1>4, <2>6, LeadsOneMore, ZenonT(30)
  <2> HIDE DEF w5
  <2>8. w6 \in Seq(0 .. 255) /\ Leads(now, w6, last)
    BY <1>4, <2>7, LeadsOneMore, ZenonT(30)
  <2> QED
    BY <2>2, <2>8
<1> HIDE DEF last
<1>8. last \in DriverState
  BY <1>7, LeadsPrefix
<1>9. Send(PauseCodes) /\ UNCHANGED device_vars
  BY DEF PressPause
<1>10. PICK after \in DriverState : after = last
  BY <1>8
<1>11. Settled(after)'
  BY <1>5, <1>9, <1>10, Unmoved
<1>12. held' \subseteq Keys /\ unseen' \subseteq held' /\ caps_light' \in BOOLEAN
  BY <1>1, <1>9 DEF KTypeOK, TypeOK, device_vars
<1> QED
  BY <1>1, <1>2, <1>7, <1>9, <1>10, <1>11, <1>12, SendKInv

LEMMA KeyDown ==
  ASSUME KTypeOK, NEW d \in DriverState, Settled(d), NEW k \in Keys, ~k.ext,
         Down(k.code)' = TRUE, OthersStay(k.code), intended' = intended \o Called(k),
         caps_light' = (caps_light # (k = Plain(SC_CAPS_LOCK)))
  PROVE  Settled(Step(d, k.code))'
<1> DEFINE code == k.code
<1>1. code \in 1 .. 127 /\ k = Plain(code)
  BY KeyBytes
<1>2. caps_light \in BOOLEAN /\ intended \in Seq(1 .. 127)
  BY DEF KTypeOK
<1>3. k = Plain(SC_CAPS_LOCK) <=> code = SC_CAPS_LOCK
  BY <1>1 DEF Plain
<1>4. code # SC_CAPS_LOCK => caps_light' = caps_light
  BY <1>2, <1>3
<1>5. code \in ModifierCodes \cup (58 .. 127) => intended' = intended
  <2> SUFFICES ASSUME code \in ModifierCodes \cup (58 .. 127) PROVE intended' = intended
    OBVIOUS
  <2> HIDE DEF code
  <2>1. Called(Plain(code)) = <<>>
    BY NothingCalled
  <2>2. intended' = intended \o <<>>
    BY <1>1, <2>1
  <2> QED
    BY <1>2, <2>2
<1> HIDE DEF code
<1>6. code % KEY_RELEASED_MASK = code /\ ~(code >= KEY_RELEASED_MASK) /\ code # EXTENDED_SCANCODE
  BY <1>1 DEF KEY_RELEASED_MASK, EXTENDED_SCANCODE
<1>7. CASE code \in ModifierCodes
  <2>1. caps_light' = caps_light /\ intended' = intended
    BY <1>4, <1>5, <1>7, CodesDiffer DEF ModifierCodes
  <2>2. code \in 0 .. 255 /\ TRUE = ~(code >= KEY_RELEASED_MASK)
    BY <1>1, <1>6
  <2> QED
    BY <1>6, <1>7, <2>1, <2>2, ModifierStep DEF code
<1>8. CASE code \in LockCodes
  <2>1. caps_light' = (caps_light # (code = SC_CAPS_LOCK))
    BY <1>3, Zenon
  <2>2. intended' = intended
    BY <1>1, <1>5, <1>8, CodesDiffer DEF LockCodes
  <2> QED
    BY <1>2, <1>8, <2>1, <2>2, LockStep DEF code
<1>9. CASE code \in (1 .. 127) \ (ModifierCodes \cup LockCodes)
  <2>1. caps_light' = caps_light
    BY <1>4, <1>9 DEF LockCodes
  <2> QED
    BY <1>1, <1>2, <1>9, <2>1, OrdinaryStep DEF code
<1> QED
  BY <1>1, <1>7, <1>8, <1>9 DEF code

LEMMA KeyUp ==
  ASSUME NEW d \in DriverState, Settled(d), NEW k \in Keys, ~k.ext,
         Down(k.code)' = FALSE, OthersStay(k.code), UNCHANGED <<caps_light, intended>>
  PROVE  Settled(Step(d, k.code + KEY_RELEASED_MASK))'
<1> DEFINE code == k.code
           byte == k.code + KEY_RELEASED_MASK
<1>1. code \in 1 .. 127 /\ byte \in 0 .. 255 /\ byte # EXTENDED_SCANCODE
  BY KeyBytes
<1>2. byte % KEY_RELEASED_MASK = code /\ byte >= KEY_RELEASED_MASK
  BY <1>1 DEF KEY_RELEASED_MASK
<1> HIDE DEF byte
<1>3. CASE code \in ModifierCodes
  <2>1. FALSE = ~(byte >= KEY_RELEASED_MASK)
    BY <1>2
  <2> HIDE DEF code
  <2>2. Settled(Step(d, byte))'
    BY <1>1, <1>2, <1>3, <2>1, ModifierStep DEF code
  <2> QED
    BY <2>2 DEF byte
<1>4. CASE code \in (1 .. 127) \ ModifierCodes
  BY <1>1, <1>4, UpStep DEF byte
<1> QED
  BY <1>1, <1>3, <1>4

(* Which keys are down after a key goes down or up.                        *)
LEMMA DownAfter ==
  ASSUME NEW k \in Keys, held' \ unseen' \in {(held \ unseen) \cup {k}, (held \ unseen) \ {k}}
  PROVE  /\ k.ext => \A c : Down(c)' = Down(c)
         /\ ~k.ext => OthersStay(k.code) /\ Down(k.code)' = (k \in held' \ unseen')
<1>1. k.ext \in BOOLEAN /\ (~k.ext => k = Plain(k.code))
  BY KeyBytes
<1>2. \A c : Plain(c).code = c /\ ~Plain(c).ext
  BY DEF Plain
<1>3. \A c : Plain(c) # k => (Down(c)' = Down(c))
  BY DEF Down
<1>4. k.ext => \A c : Plain(c) # k
  BY <1>2
<1>5. ~k.ext => \A c : c # k.code => Plain(c) # k
  BY <1>2
<1>6. ~k.ext => Down(k.code)' = (k \in held' \ unseen')
  BY <1>1 DEF Down
<1> QED
  BY <1>3, <1>4, <1>5, <1>6 DEF OthersStay

LEMMA StrokeKInv ==
  ASSUME KInv, NEW k \in Keys, Stroke(k), held' \ unseen' = (held \ unseen) \cup {k},
         held' \subseteq Keys, unseen' \subseteq held'
  PROVE  KInv'
<1>1. KTypeOK /\ wire \in Seq(0 .. 255) /\ caps_light \in BOOLEAN /\ intended \in Seq(1 .. 127)
  BY DEF KInv, KTypeOK, TypeOK
<1>2. PICK base \in Seq(1 .. 127), d \in DriverState :
        CatchesUp(base, d) /\ Settled(d) /\ Accounted(base)
  BY DEF KInv
<1> DEFINE now == Driver(key_state, extended_scancode, base)
<1>3. Leads(now, wire, d) /\ ~d.extended
  BY <1>2 DEF CatchesUp, Settled
<1>4. PICK bytes \in MakeCodes(k) : Send(bytes)
  BY DEF Stroke
<1>5. /\ intended' = intended \o Called(k)
      /\ caps_light' = (caps_light # (k = Plain(SC_CAPS_LOCK)))
  BY DEF Stroke
<1>6. caps_light' \in BOOLEAN
  BY <1>5
<1>7. CASE k.ext
  <2>1. wire \o bytes \in Seq(0 .. 255) /\ Leads(now, wire \o bytes, d)
    BY <1>1, <1>3, <1>4, <1>7, ExtendedKeyIgnored
  <2>2. intended' = intended
    BY <1>1, <1>5, <1>7 DEF Called
  <2>3. caps_light' = caps_light
    <3>1. ~Plain(SC_CAPS_LOCK).ext
      BY DEF Plain
    <3>2. k # Plain(SC_CAPS_LOCK)
      BY <1>7, <3>1
    <3> QED
      BY <1>1, <1>5, <3>2
  <2>4. \A c : Down(c)' = Down(c)
    BY <1>7, DownAfter
  <2>5. Settled(d)'
    BY <1>2, <2>2, <2>3, <2>4 DEF Settled, Agrees
  <2> QED
    BY <1>1, <1>2, <1>4, <1>6, <2>1, <2>5, SendKInv
<1>8. CASE ~k.ext
  <2>1. PICK next \in DriverState : next = Step(d, k.code)
    BY <1>2, KeyBytes, StepType, SMTT(20), ZenonT(30)
  <2>2. bytes = <<k.code>> /\ k.code \in 0 .. 255
    BY <1>4, <1>8, KeyBytes DEF MakeCodes
  <2>3. wire \o bytes = Append(wire, k.code)
    BY <1>1, <2>2
  <2>4. wire \o bytes \in Seq(0 .. 255) /\ Leads(now, wire \o bytes, next)
    <3>1. /\ Append(wire, k.code) \in Seq(0 .. 255)
          /\ Leads(now, Append(wire, k.code), Step(d, k.code))
      BY <1>1, <1>3, <2>2, LeadsOneMore
    <3> QED
      BY <2>1, <2>3, <3>1, Zenon
  <2>5. OthersStay(k.code) /\ Down(k.code)' = TRUE
    BY <1>8, DownAfter
  <2>6. Settled(next)'
    BY <1>1, <1>2, <1>5, <1>8, <2>1, <2>5, KeyDown
  <2> QED
    BY <1>1, <1>2, <1>4, <1>6, <2>1, <2>4, <2>6, SendKInv
<1> QED
  BY <1>7, <1>8

LEMMA ReleaseKInv ==
  ASSUME KInv, NEW k \in Keys, Release(k)
  PROVE  KInv'
<1>1. /\ KTypeOK /\ wire \in Seq(0 .. 255) /\ caps_light \in BOOLEAN
      /\ held \subseteq Keys /\ unseen \subseteq held
  BY DEF KInv, KTypeOK, TypeOK
<1>2. PICK base \in Seq(1 .. 127), d \in DriverState :
        CatchesUp(base, d) /\ Settled(d) /\ Accounted(base)
  BY DEF KInv
<1> DEFINE now == Driver(key_state, extended_scancode, base)
           up  == k.code + KEY_RELEASED_MASK
<1>3. Leads(now, wire, d) /\ ~d.extended
  BY <1>2 DEF CatchesUp, Settled
<1>4. PICK bytes \in BreakCodes(k) : Send(bytes)
  BY DEF Release
<1>5. /\ UNCHANGED <<caps_light, intended>>
      /\ held' = held \ {k} /\ unseen' = unseen \ {k}
  BY DEF Release
<1>6. /\ held' \subseteq Keys /\ unseen' \subseteq held' /\ caps_light' \in BOOLEAN
      /\ held' \ unseen' = (held \ unseen) \ {k}
  BY <1>1, <1>5
<1>7. CASE k.ext
  <2>1. wire \o bytes \in Seq(0 .. 255) /\ Leads(now, wire \o bytes, d)
    BY <1>1, <1>3, <1>4, <1>7, ExtendedKeyIgnored
  <2>2. \A c : Down(c)' = Down(c)
    BY <1>6, <1>7, DownAfter
  <2>3. Settled(d)'
    BY <1>2, <1>5, <2>2 DEF Settled, Agrees
  <2> QED
    BY <1>1, <1>2, <1>4, <1>6, <2>1, <2>3, SendKInv
<1>8. CASE ~k.ext
  <2>1. PICK next \in DriverState : next = Step(d, up)
    BY <1>2, KeyBytes, StepType
  <2>2. bytes = <<up>> /\ up \in 0 .. 255
    BY <1>4, <1>8, KeyBytes DEF BreakCodes
  <2>3. wire \o bytes = Append(wire, up)
    BY <1>1, <2>2
  <2>4. wire \o bytes \in Seq(0 .. 255) /\ Leads(now, wire \o bytes, next)
    <3>1. /\ Append(wire, up) \in Seq(0 .. 255)
          /\ Leads(now, Append(wire, up), Step(d, up))
      BY <1>1, <1>3, <2>2, LeadsOneMore
    <3> QED
      BY <2>1, <2>3, <3>1, Zenon
  <2>5. OthersStay(k.code) /\ Down(k.code)' = FALSE
    <3>1. (k \in held' \ unseen') = FALSE
      BY <1>6
    <3> QED
      BY <1>6, <1>8, <3>1, DownAfter
  <2>6. Settled(next)'
    BY <1>2, <1>5, <1>8, <2>1, <2>5, KeyUp
  <2> QED
    BY <1>1, <1>2, <1>4, <1>6, <2>1, <2>4, <2>6, SendKInv
<1> QED
  BY <1>7, <1>8

LEMMA NextKInv == KInv /\ [Next]_vars => KInv'
<1> SUFFICES ASSUME KInv, [Next]_vars PROVE KInv'
  OBVIOUS
<1>1. KTypeOK /\ held \subseteq Keys /\ unseen \subseteq held
  BY DEF KInv, KTypeOK, TypeOK
<1>2. CASE keyboard_interrupt_handler
  BY <1>2, HandlerKInv
<1>3. CASE TakeKey
  BY <1>3, TakeKInv
<1>4. CASE PressPause
  BY <1>4, PauseKInv
<1>5. ASSUME NEW k \in Keys, Press(k) PROVE KInv'
  <2>1. k \notin held /\ held' = held \cup {k} /\ unseen' = unseen /\ Stroke(k)
    BY <1>5 DEF Press
  <2>2. held' \ unseen' = (held \ unseen) \cup {k} /\ held' \subseteq Keys /\ unseen' \subseteq held'
    BY <1>1, <2>1
  <2> QED
    BY <2>1, <2>2, StrokeKInv
<1>6. ASSUME NEW k \in Keys, Repeat(k) PROVE KInv'
  <2>1. k \in held /\ held' = held /\ unseen' = unseen \ {k} /\ Stroke(k)
    BY <1>6 DEF Repeat
  <2>2. held' \ unseen' = (held \ unseen) \cup {k} /\ held' \subseteq Keys /\ unseen' \subseteq held'
    BY <1>1, <2>1
  <2> QED
    BY <2>1, <2>2, StrokeKInv
<1>7. ASSUME NEW k \in Keys, Release(k) PROVE KInv'
  BY <1>7, ReleaseKInv
<1>8. CASE UNCHANGED vars
  <2>1. UNCHANGED <<key_state, extended_scancode, queue, retval, wire, held, unseen,
                    caps_light, intended, delivered, lost>>
    BY <1>8 DEF vars, code_vars, device_vars
  <2>2. \A base, d : CatchesUp(base, d)' = CatchesUp(base, d)
    BY <2>1 DEF CatchesUp
  <2>3. Typed' = Typed
    BY <2>1 DEF Typed
  <2>4. \A base : Accounted(base) => Accounted(base)'
    BY <2>1, <2>3 DEF Accounted
  <2>5. \A d : Settled(d) => Settled(d)'
    BY <2>1, Unmoved DEF device_vars
  <2>6. KTypeOK'
    BY <1>1, <2>1 DEF KTypeOK, TypeOK
  <2> QED
    BY <2>2, <2>4, <2>5, <2>6 DEF KInv
<1> QED
  BY <1>2, <1>3, <1>4, <1>5, <1>6, <1>7, <1>8 DEF Next, Device

LEMMA KeyboardInvariant == Spec => []KInv
  BY InitKInv, NextKInv, PTL DEF Spec

-----------------------------------------------------------------------------
(* What follows.                                                           *)

(* With no byte on the wire the driver is where it was to get.             *)
LEMMA AllRead ==
  ASSUME KInv, wire = <<>>
  PROVE  Agrees(key_state) /\ ~extended_scancode /\ Len(Typed) + lost = Len(intended)
<1>1. PICK base \in Seq(1 .. 127), d \in DriverState :
        CatchesUp(base, d) /\ Settled(d) /\ Accounted(base)
  BY DEF KInv
<1> DEFINE now == Driver(key_state, extended_scancode, base)
<1>2. now.key_state = key_state /\ now.extended = extended_scancode /\ now.typed = base
  BY DEF Driver
<1>3. Leads(now, <<>>, d)
  BY <1>1 DEF CatchesUp
<1>4. now \in DriverState
  <2>1. <<>> \in Seq(0 .. 255)
    OBVIOUS
  <2> QED
    BY <1>3, <2>1, LeadsPrefix
<1>5. d = now
  BY <1>3, <1>4, LeadsNowhere
<1> HIDE DEF now
<1> QED
  BY <1>1, <1>2, <1>5 DEF Settled, Accounted

(* Types, and the buffer within its size.                                  *)
THEOREM KeyboardTypeCorrect == Spec => []TypeOK
<1>1. KInv => TypeOK
  BY DEF KInv, KTypeOK
<1> QED
  BY <1>1, KeyboardInvariant, PTL

(* For every keyboard, whatever keys are held together, repeated, released *)
(* or were down at keyboard_init, and however late the handler runs: when  *)
(* it has read every byte, the modifiers it reports are the keys that are  *)
(* down (keyboard.c:102-135, 190-199).                                     *)
THEOREM ModifiersAreTheKeys == Spec => []ModifiersTrackKeys
<1>1. KInv => ModifiersTrackKeys
  <2> SUFFICES ASSUME KInv, wire = <<>> PROVE ModifiersTrackKeys
    BY DEF ModifiersTrackKeys
  <2>1. Agrees(key_state) /\ ~extended_scancode
    BY AllRead
  <2>2. shift_pressed(key_state) = ShiftDown
    BY <2>1, Zenon DEF Agrees, shift_pressed, ShiftDown
  <2>3. ctrl_pressed(key_state) = CtrlDown
    <3>1. ctrl_pressed(key_state) <=> CtrlDown
      BY <2>1, Zenon DEF Agrees, ctrl_pressed, CtrlDown
    <3>2. ctrl_pressed(key_state) \in BOOLEAN /\ CtrlDown \in BOOLEAN
      BY DEF ctrl_pressed, CtrlDown, Down
    <3> QED
      BY <3>1, <3>2
  <2>4. key_state["alt_left"] = Down(SC_LALT) /\ key_state["caps_lock"] = caps_light
    BY <2>1 DEF Agrees
  <2> QED
    BY <2>1, <2>2, <2>3, <2>4 DEF ModifiersTrackKeys
<1> QED
  BY <1>1, KeyboardInvariant, PTL

(* When every byte is read, the two tables, their ends, and the rules for  *)
(* caps lock and Ctrl (keyboard.c:33-49, 138-167) give each key the        *)
(* character engraved on it on a US keyboard, and none to the others.      *)
THEOREM LayoutIsEngraved == Spec => []LayoutFollowsKeys
<1>1. KInv => LayoutFollowsKeys
  <2> SUFFICES ASSUME KInv, wire = <<>>, NEW code \in (0 .. 127) \ {SC_ESCAPE}
               PROVE  Ascii(code, key_state) = Engraved(code)
    BY DEF LayoutFollowsKeys
  <2>1. Agrees(key_state) /\ caps_light \in BOOLEAN
    BY AllRead DEF KInv, KTypeOK
  <2> QED
    BY <2>1, AsciiIsEngraved
<1> QED
  BY <1>1, KeyboardInvariant, PTL

(* The kernel gets the characters the keystrokes call for, in their order; *)
(* one is missing only because the buffer was full when it came            *)
(* (keyboard.c:80-86), and nothing else loses, doubles or reorders one.    *)
THEOREM TypesWhatIsEngraved == Spec => []TypedAsEngraved
<1>1. KInv => TypedAsEngraved
  <2> SUFFICES ASSUME KInv PROVE TypedAsEngraved
    OBVIOUS
  <2>1. PICK base \in Seq(1 .. 127), d \in DriverState :
          CatchesUp(base, d) /\ Settled(d) /\ Accounted(base)
    BY DEF KInv
  <2>2. wire \in Seq(0 .. 255) /\ Typed \in Seq(1 .. 127)
    BY DEF KInv, KTypeOK, TypeOK, Typed
  <2>3. Prefix(base, intended) /\ intended \in Seq(1 .. 127)
    <3> DEFINE now == Driver(key_state, extended_scancode, base)
    <3>1. now.typed = base
      BY DEF Driver
    <3>2. Leads(now, wire, d)
      BY <2>1 DEF CatchesUp
    <3>3. Prefix(now.typed, d.typed)
      BY <2>2, <3>2, LeadsPrefix
    <3>4. d.typed = intended /\ d.typed \in Seq(1 .. 127)
      BY <2>1 DEF Settled, DriverState
    <3> QED
      BY <3>1, <3>3, <3>4
  <2>4. Thinned(Typed, intended)
    BY <2>1, <2>2, <2>3, ThinnedPrefix DEF Accounted
  <2>5. wire = <<>> => Len(Typed) + lost = Len(intended)
    BY AllRead
  <2> QED
    BY <2>4, <2>5 DEF TypedAsEngraved, Typed
<1> QED
  BY <1>1, KeyboardInvariant, PTL

-----------------------------------------------------------------------------
(* Every character that is to be typed is engraved on a key.               *)
LEMMA EngravedSomewhere ==
  ASSUME NEW ch \in (32 .. 126) \cup {8, 9, 10}
  PROVE  \E key \in 0 .. 57 : \/ scancode_to_ascii[key + 1] = ch
                               \/ scancode_to_ascii_shifted[key + 1] = ch
<1> SUFFICES ASSUME \A key \in 0 .. 57 : /\ scancode_to_ascii[key + 1] # ch
                                         /\ scancode_to_ascii_shifted[key + 1] # ch
             PROVE  FALSE
  OBVIOUS
<1> QED
  BY SMTT(60) DEF scancode_to_ascii, scancode_to_ascii_shifted

(* The three modifiers as a key would find them, Ctrl being up.            *)
Shifted(state, shift) ==
  [state EXCEPT !["shift_left"] = shift, !["shift_right"] = shift, !["ctrl_left"] = FALSE]

LEMMA ShiftedFields ==
  ASSUME NEW state \in [Modifiers -> BOOLEAN], NEW shift \in BOOLEAN, ~state["ctrl_right"]
  PROVE  /\ shift_pressed(Shifted(state, shift)) = shift
         /\ ctrl_pressed(Shifted(state, shift)) = FALSE
         /\ Shifted(state, shift)["caps_lock"] = state["caps_lock"]
BY DEF Shifted, shift_pressed, ctrl_pressed, Modifiers

(* Whether caps lock is on or off, a character engraved on a key is typed  *)
(* with it: a letter with the other shift when caps lock is on.            *)
LEMMA EngravedIsTyped ==
  ASSUME NEW state \in [Modifiers -> BOOLEAN], ~state["ctrl_right"], NEW key \in 0 .. 57,
         NEW ch \in 0 .. 127,
         \/ scancode_to_ascii[key + 1] = ch
         \/ scancode_to_ascii_shifted[key + 1] = ch
  PROVE  \E shift \in BOOLEAN : Ascii(key, Shifted(state, shift)) = ch
<1> DEFINE lower == scancode_to_ascii[key + 1]
           upper == scancode_to_ascii_shifted[key + 1]
           caps  == state["caps_lock"]
<1>1. /\ lower \in 0 .. 127 /\ upper \in 0 .. 127
      /\ \/ lower \in Lower /\ upper = lower - 32
         \/ lower \notin Lower \cup Upper /\ upper \notin Lower \cup Upper
  BY Tables
<1>2. caps \in BOOLEAN
  BY DEF Modifiers
<1>3. ASSUME NEW shift \in BOOLEAN
      PROVE  Ascii(key, Shifted(state, shift))
               = CapsLocked(IF shift THEN upper ELSE lower, caps, shift)
  <2>1. /\ shift_pressed(Shifted(state, shift)) = shift
        /\ ctrl_pressed(Shifted(state, shift)) = FALSE
        /\ Shifted(state, shift)["caps_lock"] = caps
    BY ShiftedFields
  <2> QED
    BY <2>1, TableLength DEF Ascii, Layout, Controlled
<1>4. lower = ch \/ upper = ch
  OBVIOUS
<1> HIDE DEF lower, upper, caps
<1>5. CASE lower \in Lower /\ upper = lower - 32
  <2>1. CapsLocked(IF caps THEN upper ELSE lower, caps, caps) = lower
    BY <1>2, <1>5 DEF CapsLocked, Lower, Upper
  <2>2. CapsLocked(IF ~caps THEN upper ELSE lower, caps, ~caps) = upper
    BY <1>2, <1>5 DEF CapsLocked, Lower, Upper
  <2> QED
    BY <1>2, <1>3, <1>4, <2>1, <2>2
<1>6. CASE lower \notin Lower \cup Upper /\ upper \notin Lower \cup Upper
  <2>1. CapsLocked(lower, caps, FALSE) = lower /\ CapsLocked(upper, caps, TRUE) = upper
    BY <1>6 DEF CapsLocked
  <2> QED
    BY <1>3, <1>4, <2>1
<1> QED
  BY <1>1, <1>5, <1>6

(* No scancode is taken for the right Ctrl: its bytes begin with 0xE0.     *)
CtrlRightUp == ~key_state["ctrl_right"]

LEMMA CtrlRightStays ==
  ASSUME TypeOK, CtrlRightUp, [Next]_vars
  PROVE  CtrlRightUp'
<1>1. CASE key_state' = key_state
  BY <1>1 DEF CtrlRightUp
<1>2. ASSUME NEW key, NEW on,
             \/ Pressed(key) # "none" /\ key_state' = [key_state EXCEPT ![Pressed(key)] = on]
             \/ Toggled(key) # "none" /\ key_state' = [key_state EXCEPT ![Toggled(key)] = on]
      PROVE  CtrlRightUp'
  BY <1>2 DEF CtrlRightUp, TypeOK, Modifiers, Pressed, Toggled
<1>3. CASE keyboard_interrupt_handler
  <2>1. SUFFICES ASSUME NEW scancode, process_scancode(scancode) PROVE CtrlRightUp'
    BY <1>1, <1>3 DEF keyboard_interrupt_handler
  <2> DEFINE key == scancode % KEY_RELEASED_MASK
             released == scancode >= KEY_RELEASED_MASK
  <2> HIDE DEF key, released
  <2>2. SetModifier(key, released) \/ ToggleLock(key, released) \/ RegularKey(key, released)
    BY <2>1 DEF process_scancode, key, released
  <2> QED
    BY <1>1, <1>2, <2>2 DEF SetModifier, ToggleLock, RegularKey
<1>4. CASE TakeKey \/ Device \/ UNCHANGED vars
  <2>1. key_state' = key_state
    BY <1>4 DEF TakeKey, Device, PressPause, Press, Repeat, Release, Stroke, Send, code_vars, vars
  <2> QED
    BY <1>1, <2>1
<1> QED
  BY <1>3, <1>4 DEF Next

(* Whatever was pressed and whatever lock is on, every printable           *)
(* character, Tab, Backspace and Enter can be typed                        *)
(* (keyboard.c:16-47, 143-176).                                            *)
THEOREM AllTypeable == Spec => []EveryCharacterTypeable
<1>1. Init => CtrlRightUp
  BY DEF Init, CtrlRightUp, Modifiers
<1>2. TypeOK /\ CtrlRightUp /\ [Next]_vars => CtrlRightUp'
  BY CtrlRightStays
<1>3. TypeOK /\ CtrlRightUp => EveryCharacterTypeable
  <2> DEFINE typed(shift) == {Ascii(key, Shifted(key_state, shift)) : key \in 0 .. 57}
  <2> SUFFICES ASSUME TypeOK, CtrlRightUp, NEW ch \in (32 .. 126) \cup {8, 9, 10}
               PROVE  ch \in typed(TRUE) \cup typed(FALSE)
    BY Zenon DEF EveryCharacterTypeable, Shifted
  <2>1. PICK key \in 0 .. 57 : \/ scancode_to_ascii[key + 1] = ch
                               \/ scancode_to_ascii_shifted[key + 1] = ch
    BY EngravedSomewhere
  <2>2. key_state \in [Modifiers -> BOOLEAN] /\ ~key_state["ctrl_right"] /\ ch \in 0 .. 127
    BY DEF TypeOK, CtrlRightUp
  <2>3. \E shift \in BOOLEAN : Ascii(key, Shifted(key_state, shift)) = ch
    BY <2>1, <2>2, EngravedIsTyped
  <2> QED
    BY <2>3
<1> QED
  BY <1>1, <1>2, <1>3, KeyboardTypeCorrect, PTL DEF Spec
=============================================================================
