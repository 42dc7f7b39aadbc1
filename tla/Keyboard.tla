------------------------------ MODULE Keyboard ------------------------------
(***************************************************************************)
(* The translation of scancodes in keyboard.c: the interrupt handler with  *)
(* its extended-scancode flag, process_scancode with the modifier state    *)
(* and the two US layouts, and the buffer that receives the characters     *)
(* (KeyQueue).  The other actors are the PS/2 keyboard, which sends the    *)
(* bytes of scancode set 1 for the keys that go down and up, and the       *)
(* kernel, which takes characters.                                         *)
(*                                                                         *)
(* Characters are their ASCII codes.  A physical key is the scancode it    *)
(* sends when it goes down and whether 0xE0 precedes it.                   *)
(***************************************************************************)
EXTENDS Integers, FiniteSets, Sequences

CONSTANTS
  Keys,      \* the keys of the keyboard, a set of [code, ext]
  Size,      \* KEY_BUFFER_SIZE
  Rollover,  \* bound: keys held down together
  MaxHeld,   \* bound: keys that are down at keyboard_init
  MaxWire,   \* bound: bytes waiting when a key adds its own to them
  MaxTyped   \* bound: characters typed in a behaviour

EXTENDED_SCANCODE == 224
KEY_RELEASED_MASK == 128

(* No key of a keyboard has 0x60 for its scancode: it would go up with a   *)
(* byte that is EXTENDED_SCANCODE.                                         *)
ASSUME KeyboardAssumption ==
  /\ Keys \subseteq [code : (1 .. 127) \ {EXTENDED_SCANCODE - KEY_RELEASED_MASK}, ext : BOOLEAN]
  /\ Size \in Nat \ {0}

SC_LSHIFT == 42
SC_RSHIFT == 54
SC_LCTRL == 29
SC_LALT == 56
SC_CAPS_LOCK == 58
SC_NUM_LOCK == 69
SC_SCROLL_LOCK == 70

VARIABLES
  key_state,          \* the modifiers, as the handler knows them
  extended_scancode,  \* the last byte was 0xE0
  queue, retval,      \* the key buffer, and what the kernel last took
  wire,               \* bytes the keyboard has sent, oldest first
  held,               \* keys that are down
  unseen,             \* those of them that have sent nothing since keyboard_init
  caps_light,         \* parity of the CapsLock presses sent
  intended,           \* characters the keystrokes call for, oldest first
  delivered,          \* characters the kernel has taken
  lost                \* characters the handler dropped, the buffer being full

code_vars == <<key_state, extended_scancode>>
device_vars == <<held, unseen, caps_light, intended>>
vars == <<code_vars, queue, retval, wire, device_vars, delivered, lost>>

NUL == 0
Buffer == INSTANCE KeyQueue WITH Char <- 1 .. 127

Modifiers == {"shift_left", "shift_right", "ctrl_left", "ctrl_right", "alt_left",
              "alt_right", "caps_lock", "num_lock", "scroll_lock"}

(* What keyboard_init leaves: it clears the modifiers, and the keys that   *)
(* are down then stay down.                                                *)
Init ==
  /\ key_state = [m \in Modifiers |-> FALSE]
  /\ extended_scancode = FALSE
  /\ Buffer!Init
  /\ wire = <<>>
  /\ held \in {keys \in SUBSET Keys : Cardinality(keys) <= MaxHeld}
  /\ unseen = held
  /\ caps_light = FALSE
  /\ intended = <<>>
  /\ delivered = <<>>
  /\ lost = 0

-----------------------------------------------------------------------------
(* Characters.                                                             *)

Lower == 97 .. 122
Upper == 65 .. 90

(* Characters of the keys with scancodes 0, 1, 2, ...: 0 for none.         *)
scancode_to_ascii ==
  << 0, 0, 49, 50, 51, 52, 53, 54, 55, 56, 57, 48, 45, 61, 8,
     9, 113, 119, 101, 114, 116, 121, 117, 105, 111, 112, 91, 93, 10,
     0, 97, 115, 100, 102, 103, 104, 106, 107, 108, 59, 39, 96,
     0, 92, 122, 120, 99, 118, 98, 110, 109, 44, 46, 47, 0,
     42, 0, 32 >>

scancode_to_ascii_shifted ==
  << 0, 0, 33, 64, 35, 36, 37, 94, 38, 42, 40, 41, 95, 43, 8,
     9, 81, 87, 69, 82, 84, 89, 85, 73, 79, 80, 123, 125, 10,
     0, 65, 83, 68, 70, 71, 72, 74, 75, 76, 58, 34, 126,
     0, 124, 90, 88, 67, 86, 66, 78, 77, 60, 62, 63, 0,
     42, 0, 32 >>

shift_pressed(state) == state["shift_left"] \/ state["shift_right"]
ctrl_pressed(state) == state["ctrl_left"] \/ state["ctrl_right"]

(* Mutant: two entries of the shifted table are those of a British one.    *)
LayoutBritish(shift) ==
  IF shift THEN [scancode_to_ascii_shifted EXCEPT ![4] = 34, ![41] = 64] ELSE scancode_to_ascii

Layout(shift) == IF shift THEN scancode_to_ascii_shifted ELSE scancode_to_ascii

(* Mutant: shift and caps lock together type a capital.                    *)
CapsLockedOnly(ch, caps, shift) == IF ch \in Lower /\ caps THEN ch - 32 ELSE ch

(* Caps lock exchanges the case of a letter.                               *)
CapsLocked(ch, caps, shift) ==
  IF ch \in Lower /\ caps /\ ~shift     THEN ch - 32
  ELSE IF ch \in Upper /\ caps /\ shift THEN ch + 32
  ELSE ch

(* Ctrl turns a letter of either case into its number.                     *)
Controlled(ch, ctrl) ==
  IF ctrl /\ ch \in Lower      THEN ch - 96
  ELSE IF ctrl /\ ch \in Upper THEN ch - 64
  ELSE ch

(* Mutant: caps lock is not looked at.                                     *)
AsciiNoCaps(key, state) ==
  LET ch == Layout(shift_pressed(state))[key + 1]
  IN  IF key < Len(scancode_to_ascii) THEN Controlled(ch, ctrl_pressed(state)) ELSE NUL

Ascii(key, state) ==
  LET shift == shift_pressed(state)
      ch    == Layout(shift)[key + 1]
  IN  IF key < Len(scancode_to_ascii)
        THEN Controlled(CapsLocked(ch, state["caps_lock"], shift), ctrl_pressed(state))
        ELSE NUL

-----------------------------------------------------------------------------
(* The interrupt handler.                                                  *)

(* Mutant: the buffer takes one character too many.                        *)
BufferAddOverfull(ch) ==
  IF Len(queue) <= Size
    THEN queue' = Append(queue, ch) /\ UNCHANGED <<retval, lost>>
    ELSE lost' = lost + 1 /\ UNCHANGED <<queue, retval>>

keyboard_buffer_add(ch) ==
  IF Len(queue) < Size
    THEN Buffer!Add(ch) /\ UNCHANGED lost
    ELSE lost' = lost + 1 /\ UNCHANGED <<queue, retval>>

Pressed(key) ==
  IF key = SC_LSHIFT      THEN "shift_left"
  ELSE IF key = SC_RSHIFT THEN "shift_right"
  ELSE IF key = SC_LCTRL  THEN "ctrl_left"
  ELSE IF key = SC_LALT   THEN "alt_left"
  ELSE "none"

Toggled(key) ==
  IF key = SC_CAPS_LOCK        THEN "caps_lock"
  ELSE IF key = SC_NUM_LOCK    THEN "num_lock"
  ELSE IF key = SC_SCROLL_LOCK THEN "scroll_lock"
  ELSE "none"

SetModifier(key, key_released) ==
  /\ Pressed(key) # "none"
  /\ key_state' = [key_state EXCEPT ![Pressed(key)] = ~key_released]
  /\ UNCHANGED <<queue, retval, lost>>

ToggleLock(key, key_released) ==
  /\ Toggled(key) # "none"
  /\ key_state' = IF key_released THEN key_state
                  ELSE [key_state EXCEPT ![Toggled(key)] = ~@]
  /\ UNCHANGED <<queue, retval, lost>>

RegularKey(key, key_released) ==
  /\ Pressed(key) = "none" /\ Toggled(key) = "none"
  /\ UNCHANGED key_state
  /\ IF key_released \/ Ascii(key, key_state) = NUL
       THEN UNCHANGED <<queue, retval, lost>>
       ELSE keyboard_buffer_add(Ascii(key, key_state))

process_scancode(scancode) ==
  LET key          == scancode % KEY_RELEASED_MASK
      key_released == scancode >= KEY_RELEASED_MASK
  IN  \/ SetModifier(key, key_released)
      \/ ToggleLock(key, key_released)
      \/ RegularKey(key, key_released)

(* An interrupt that finds the output buffer empty changes nothing.        *)
(* Mutant: an extended scancode is not ignored.                            *)
HandlerWithoutExtended ==
  /\ wire # <<>>
  /\ wire' = Tail(wire)
  /\ process_scancode(Head(wire))
  /\ UNCHANGED <<extended_scancode, device_vars, delivered>>

keyboard_interrupt_handler ==
  /\ wire # <<>>
  /\ wire' = Tail(wire)
  /\ \/ /\ Head(wire) = EXTENDED_SCANCODE
        /\ extended_scancode' = TRUE
        /\ UNCHANGED <<key_state, queue, retval, lost>>
     \/ /\ Head(wire) # EXTENDED_SCANCODE
        /\ extended_scancode
        /\ extended_scancode' = FALSE
        /\ UNCHANGED <<key_state, queue, retval, lost>>
     \/ /\ Head(wire) # EXTENDED_SCANCODE
        /\ ~extended_scancode
        /\ process_scancode(Head(wire))
        /\ UNCHANGED extended_scancode
  /\ UNCHANGED <<device_vars, delivered>>

(* keyboard_getchar and keyboard_getchar_nonblock, when there is a key.    *)
TakeKey ==
  /\ Buffer!Get
  /\ delivered' = Append(delivered, retval')
  /\ UNCHANGED <<code_vars, wire, device_vars, lost>>

-----------------------------------------------------------------------------
(* The keyboard.  The bytes of a key that 0xE0 precedes may come with      *)
(* 0xE0 0x2A or 0xE0 0xAA before or after them, which undo or fake a       *)
(* shift.                                                                  *)

Prefixed(byte) == <<EXTENDED_SCANCODE, byte>>
FakeShifts == {<<>>, Prefixed(SC_LSHIFT), Prefixed(SC_LSHIFT + KEY_RELEASED_MASK)}

MakeCodes(k) ==
  IF k.ext THEN {f \o Prefixed(k.code) : f \in FakeShifts} ELSE {<<k.code>>}

BreakCodes(k) ==
  LET byte == k.code + KEY_RELEASED_MASK
  IN  IF k.ext THEN {Prefixed(byte) \o f : f \in FakeShifts} ELSE {<<byte>>}

PauseCodes == <<225, SC_LCTRL, SC_NUM_LOCK,
                225, SC_LCTRL + KEY_RELEASED_MASK, SC_NUM_LOCK + KEY_RELEASED_MASK>>

Send(bytes) ==
  /\ wire = <<>> \/ Len(wire) + Len(bytes) <= MaxWire
  /\ wire' = wire \o bytes
  /\ UNCHANGED <<code_vars, queue, retval, delivered, lost>>

Plain(code) == [code |-> code, ext |-> FALSE]

(* A key counts as down from its first press or repetition on.             *)
Down(code) == Plain(code) \in held \ unseen
ShiftDown == Down(SC_LSHIFT) \/ Down(SC_RSHIFT)
CtrlDown == Down(SC_LCTRL)

(* The keys of a US keyboard that have characters engraved on them: the    *)
(* scancode, the character, and the one that Shift calls for.  First the   *)
(* letters, then the rows from the top, then Backspace, Tab, Enter and     *)
(* Space, and the asterisk of the keypad.                                  *)
LetterKey ==
  << 30, 48, 46, 32, 18, 33, 34, 35, 23, 36, 37, 38, 50,
     49, 24, 25, 16, 19, 31, 20, 22, 47, 17, 45, 21, 44 >>

Keycaps ==
  {<<LetterKey[n], 96 + n, 64 + n>> : n \in 1 .. 26}
    \cup {<<41, 96, 126>>, <<2, 49, 33>>, <<3, 50, 64>>, <<4, 51, 35>>, <<5, 52, 36>>,
          <<6, 53, 37>>, <<7, 54, 94>>, <<8, 55, 38>>, <<9, 56, 42>>, <<10, 57, 40>>,
          <<11, 48, 41>>, <<12, 45, 95>>, <<13, 61, 43>>}
    \cup {<<26, 91, 123>>, <<27, 93, 125>>, <<43, 92, 124>>, <<39, 59, 58>>, <<40, 39, 34>>,
          <<51, 44, 60>>, <<52, 46, 62>>, <<53, 47, 63>>}
    \cup {<<14, 8, 8>>, <<15, 9, 9>>, <<28, 10, 10>>, <<57, 32, 32>>, <<55, 42, 42>>}

Keycap ==
  [code \in 0 .. 127 |-> IF \E cap \in Keycaps : cap[1] = code
                         THEN CHOOSE cap \in Keycaps : cap[1] = code
                         ELSE <<code, NUL, NUL>>]

(* What the keys that are down call for: a letter is a capital when        *)
(* exactly one of shift and caps lock is on, Ctrl and a letter is the      *)
(* letter's number, and any other key has two characters engraved on it.   *)
Engraved(code) ==
  LET lower == Keycap[code][2]
      upper == Keycap[code][3]
      letter == lower \in Lower
  IN  IF letter /\ CtrlDown THEN lower - 96
      ELSE IF (letter /\ ShiftDown # caps_light) \/ (~letter /\ ShiftDown) THEN upper
      ELSE lower

(* The character of a keystroke.  0xE0 keys are to be ignored.             *)
Called(k) == IF k.ext \/ Engraved(k.code) = NUL THEN <<>> ELSE <<Engraved(k.code)>>

Stroke(k) ==
  /\ intended' = intended \o Called(k)
  /\ Len(intended') <= MaxTyped
  /\ caps_light' = (caps_light # (k = Plain(SC_CAPS_LOCK)))
  /\ \E bytes \in MakeCodes(k) : Send(bytes)

Press(k) ==
  /\ k \notin held
  /\ held' = held \cup {k}
  /\ Cardinality(held') <= Rollover
  /\ Stroke(k)
  /\ UNCHANGED unseen

Repeat(k) ==
  /\ k \in held
  /\ unseen' = unseen \ {k}
  /\ Stroke(k)
  /\ UNCHANGED held

Release(k) ==
  /\ k \in held
  /\ held' = held \ {k}
  /\ unseen' = unseen \ {k}
  /\ \E bytes \in BreakCodes(k) : Send(bytes)
  /\ UNCHANGED <<caps_light, intended>>

(* With a Ctrl key down, the Pause key is Break and sends other bytes.     *)
PressPause ==
  /\ \A k \in held : k.code # SC_LCTRL
  /\ Send(PauseCodes)
  /\ UNCHANGED device_vars

Device == PressPause \/ \E k \in Keys : Press(k) \/ Repeat(k) \/ Release(k)

Next == keyboard_interrupt_handler \/ TakeKey \/ Device

Spec == Init /\ [][Next]_vars

-----------------------------------------------------------------------------
(* Properties.                                                             *)

TypeOK ==
  /\ key_state \in [Modifiers -> BOOLEAN]
  /\ extended_scancode \in BOOLEAN
  /\ queue \in Seq(1 .. 127) /\ Len(queue) <= Size
  /\ retval \in 0 .. 127
  /\ wire \in Seq(0 .. 255)
  /\ held \subseteq Keys /\ unseen \subseteq held

(* Once every byte is read, the modifiers the driver reports are the keys  *)
(* that are down: no 0xE0 key, fake shift or Pause sequence is taken for a *)
(* shift, Ctrl or Alt key, and the handler is not left waiting for the     *)
(* second byte of an extended scancode.  A key that was down already when  *)
(* keyboard_init cleared the modifiers counts from its next byte on, and   *)
(* its release does no harm.                                               *)
ModifiersTrackKeys ==
  wire = <<>> =>
    /\ ~extended_scancode
    /\ shift_pressed(key_state) = ShiftDown
    /\ ctrl_pressed(key_state) = CtrlDown
    /\ key_state["alt_left"] = Down(SC_LALT)
    /\ key_state["caps_lock"] = caps_light

(* s is t with some of its elements left out.                              *)
Thinned(s, t) ==
  \E kept \in [DOMAIN s -> DOMAIN t] :
    /\ \A i \in DOMAIN s : s[i] = t[kept[i]]
    /\ \A i, j \in DOMAIN s : i < j => kept[i] < kept[j]

(* The kernel receives the characters the keystrokes call for, in order;   *)
(* a character is missing only because the handler found the buffer full.  *)
TypedAsEngraved ==
  LET typed == delivered \o queue
  IN  /\ Thinned(typed, intended)
      /\ wire = <<>> => Len(typed) + lost = Len(intended)

SC_ESCAPE == 1

(* Once every byte is read, each of the 128 codes would type what is       *)
(* engraved on its key under the keys that are down, and nothing where the *)
(* key has no character or the tables end.  Esc is left out: it types      *)
(* nothing either, although keyboard.h:11 has a character for it.  The     *)
(* keypad but for its asterisk, which the driver does not support, counts  *)
(* as keys without a character.                                            *)
LayoutFollowsKeys ==
  wire = <<>> =>
    \A code \in (0 .. 127) \ {SC_ESCAPE} : Ascii(code, key_state) = Engraved(code)

(* In every state the driver can be in, each printable character, Tab,     *)
(* Backspace and Enter can be typed with some key, with or without shift,  *)
(* once Ctrl is up.                                                        *)
EveryCharacterTypeable ==
  LET typed(shift) == {Ascii(key, [key_state EXCEPT !["shift_left"] = shift,
                                                    !["shift_right"] = shift,
                                                    !["ctrl_left"] = FALSE])
                         : key \in 0 .. 57}
  IN  (32 .. 126) \cup {8, 9, 10} \subseteq typed(TRUE) \cup typed(FALSE)
=============================================================================
