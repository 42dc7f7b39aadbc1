----------------------------- MODULE KeyBuffer ------------------------------
(***************************************************************************)
(* The key buffer of keyboard.c: a ring of Size characters with a head, a  *)
(* tail and a count, filled by the keyboard interrupt (keyboard_buffer_add)*)
(* and emptied by the kernel thread (keyboard_getchar, _getchar_nonblock,  *)
(* keyboard_clear_buffer).  There is one CPU, and the gate of IRQ 1 is an  *)
(* interrupt gate: the handler runs to its end before the thread goes on,  *)
(* but it may start between any two memory accesses of the thread.         *)
(*                                                                         *)
(* "buffer_count--" on a volatile int is a data race with the handler.     *)
(* What it does depends on the build: a compiler may emit one              *)
(* read-modify-write instruction, or a load, a subtraction and a store     *)
(* (gcc does, with the flags of GNUmakefile).  SplitDecrement names the    *)
(* build.                                                                  *)
(***************************************************************************)
EXTENDS Integers, Sequences

CONSTANTS
  Char,            \* the characters the keyboard can produce
  NUL,             \* the value 0
  Size,            \* KEY_BUFFER_SIZE
  SplitDecrement,  \* TRUE: buffer_count-- is a load and, later, a store
  Calls            \* the operations the kernel thread performs

Operations == {"getchar", "nonblock", "clear"}

ASSUME BufferAssumption ==
  /\ Size \in Nat \ {0}
  /\ NUL \notin Char
  /\ SplitDecrement \in BOOLEAN
  /\ Calls \subseteq Operations

VARIABLES
  key_buffer, buffer_head, buffer_tail, buffer_count,
  pc,         \* where the kernel thread is
  c,          \* local c of keyboard_buffer_get
  count_reg,  \* register that holds buffer_count between load and store
  retval      \* what the last get returned

shared == <<key_buffer, buffer_head, buffer_tail, buffer_count>>
vars == <<shared, pc, c, count_reg, retval>>

Slots == 0 .. Size - 1

Labels == {"caller", "has_key", "hlt", "halted", "get", "nonblock", "read",
           "advance", "dec", "store", "clear_tail", "clear_count"}

Init ==
  /\ key_buffer = [i \in Slots |-> NUL]
  /\ buffer_head = 0
  /\ buffer_tail = 0
  /\ buffer_count = 0
  /\ pc = "caller"
  /\ c = NUL
  /\ count_reg = 0
  /\ retval = NUL

-----------------------------------------------------------------------------
(* The keyboard interrupt.  An interrupt that adds a character and one     *)
(* that does not (a key release, a modifier, a full buffer) both end hlt.  *)

WakeUp == pc' = IF pc = "halted" THEN "has_key" ELSE pc

(* Mutant: the count of a key is forgotten.                                *)
BufferAddUncounted(ch) ==
  /\ buffer_count < Size
  /\ key_buffer' = [key_buffer EXCEPT ![buffer_head] = ch]
  /\ buffer_head' = (buffer_head + 1) % Size
  /\ WakeUp
  /\ UNCHANGED <<buffer_tail, buffer_count, c, count_reg, retval>>

(* Mutant: the test for a full buffer is off by one.                       *)
BufferAddOverfull(ch) ==
  /\ buffer_count <= Size
  /\ key_buffer' = [key_buffer EXCEPT ![buffer_head] = ch]
  /\ buffer_head' = (buffer_head + 1) % Size
  /\ buffer_count' = buffer_count + 1
  /\ WakeUp
  /\ UNCHANGED <<buffer_tail, c, count_reg, retval>>

(* Mutant: the head moves on before the character is stored.               *)
BufferAddAhead(ch) ==
  /\ buffer_count < Size
  /\ buffer_head' = (buffer_head + 1) % Size
  /\ key_buffer' = [key_buffer EXCEPT ![buffer_head'] = ch]
  /\ buffer_count' = buffer_count + 1
  /\ WakeUp
  /\ UNCHANGED <<buffer_tail, c, count_reg, retval>>

keyboard_buffer_add(ch) ==
  /\ buffer_count < Size
  /\ key_buffer' = [key_buffer EXCEPT ![buffer_head] = ch]
  /\ buffer_head' = (buffer_head + 1) % Size
  /\ buffer_count' = buffer_count + 1
  /\ WakeUp
  /\ UNCHANGED <<buffer_tail, c, count_reg, retval>>

SilentInterrupt ==
  /\ WakeUp
  /\ UNCHANGED <<shared, c, count_reg, retval>>

Interrupt == SilentInterrupt \/ \E ch \in Char : keyboard_buffer_add(ch)

-----------------------------------------------------------------------------
(* The kernel thread, one action per access to a shared variable.          *)

Goto(from, to) == pc = from /\ pc' = to

Return(value) == retval' = value /\ c' = NUL /\ count_reg' = 0

Call ==
  /\ \/ "getchar" \in Calls /\ Goto("caller", "has_key")
     \/ "nonblock" \in Calls /\ Goto("caller", "nonblock")
  /\ UNCHANGED <<shared, c, count_reg, retval>>

(* Mutant: the loop is left when there is no key.                          *)
HasKeyInverted ==
  /\ \/ buffer_count = 0 /\ Goto("has_key", "get")
     \/ buffer_count > 0 /\ Goto("has_key", "hlt")
  /\ UNCHANGED <<shared, c, count_reg, retval>>

(* Mutant: the loop sleeps once more after it has seen a key.              *)
HasKeyAsleep ==
  /\ Goto("has_key", "hlt")
  /\ UNCHANGED <<shared, c, count_reg, retval>>

HasKey ==
  /\ \/ buffer_count > 0 /\ Goto("has_key", "get")
     \/ buffer_count = 0 /\ Goto("has_key", "hlt")
  /\ UNCHANGED <<shared, c, count_reg, retval>>

Hlt ==
  /\ Goto("hlt", "halted")
  /\ UNCHANGED <<shared, c, count_reg, retval>>

TestCount ==
  /\ pc \in {"get", "nonblock"}
  /\ buffer_count > 0
  /\ pc' = "read"
  /\ UNCHANGED <<shared, c, count_reg, retval>>

GetNone ==
  /\ pc \in {"get", "nonblock"}
  /\ buffer_count = 0
  /\ pc' = "caller"
  /\ Return(NUL)
  /\ UNCHANGED shared

ReadSlot ==
  /\ Goto("read", "advance")
  /\ c' = key_buffer[buffer_tail]
  /\ UNCHANGED <<shared, count_reg, retval>>

(* Mutant: the tail stays on the slot that was read.                       *)
AdvanceTailNot ==
  /\ Goto("advance", "dec")
  /\ UNCHANGED <<shared, c, count_reg, retval>>

AdvanceTail ==
  /\ Goto("advance", "dec")
  /\ buffer_tail' = (buffer_tail + 1) % Size
  /\ UNCHANGED <<key_buffer, buffer_head, buffer_count, c, count_reg, retval>>

(* Mutant: the character is not returned.                                  *)
DecrementNoReturn ==
  /\ ~SplitDecrement
  /\ Goto("dec", "caller")
  /\ buffer_count' = buffer_count - 1
  /\ Return(NUL)
  /\ UNCHANGED <<key_buffer, buffer_head, buffer_tail>>

Decrement ==
  /\ ~SplitDecrement
  /\ Goto("dec", "caller")
  /\ buffer_count' = buffer_count - 1
  /\ Return(c)
  /\ UNCHANGED <<key_buffer, buffer_head, buffer_tail>>

LoadCount ==
  /\ SplitDecrement
  /\ Goto("dec", "store")
  /\ count_reg' = buffer_count
  /\ UNCHANGED <<shared, c, retval>>

StoreCount ==
  /\ Goto("store", "caller")
  /\ buffer_count' = count_reg - 1
  /\ Return(c)
  /\ UNCHANGED <<key_buffer, buffer_head, buffer_tail>>

ClearHead ==
  /\ "clear" \in Calls
  /\ Goto("caller", "clear_tail")
  /\ buffer_head' = 0
  /\ UNCHANGED <<key_buffer, buffer_tail, buffer_count, c, count_reg, retval>>

ClearTail ==
  /\ Goto("clear_tail", "clear_count")
  /\ buffer_tail' = 0
  /\ UNCHANGED <<key_buffer, buffer_head, buffer_count, c, count_reg, retval>>

ClearCount ==
  /\ Goto("clear_count", "caller")
  /\ buffer_count' = 0
  /\ UNCHANGED <<key_buffer, buffer_head, buffer_tail, c, count_reg, retval>>

Thread ==
  \/ Call \/ HasKey \/ Hlt
  \/ TestCount \/ GetNone \/ ReadSlot \/ AdvanceTail
  \/ Decrement \/ LoadCount \/ StoreCount
  \/ ClearHead \/ ClearTail \/ ClearCount

Next == Interrupt \/ Thread

Spec == Init /\ [][Next]_vars

(* The CPU runs the kernel thread whenever it is not halted.               *)
FairThread == Spec /\ WF_vars(Thread)

(* Moreover the keyboard interrupts a halted CPU again: keys are pressed,   *)
(* repeated and released for as long as somebody types.                    *)
FairTyping == FairThread /\ WF_vars(pc = "halted" /\ Interrupt)

-----------------------------------------------------------------------------
(* Properties.                                                             *)

TypeOK ==
  /\ key_buffer \in [Slots -> Char \cup {NUL}]
  /\ buffer_head \in Slots
  /\ buffer_tail \in Slots
  /\ buffer_count \in 0 .. Size
  /\ pc \in Labels
  /\ c \in Char \cup {NUL}
  /\ count_reg \in 0 .. Size
  /\ retval \in Char \cup {NUL}

(* The count is positive from the moment the thread has seen a key until   *)
(* it has taken it, and what it loads is a lower bound of the count: the   *)
(* handler only ever adds.                                                 *)
CountHeld ==
  /\ pc \in {"get", "read", "advance", "dec"} => buffer_count > 0
  /\ pc = "store" => count_reg \in 1 .. buffer_count

(* keyboard_getchar is blocking: once its wait loop has seen a key, the    *)
(* get that follows (keyboard.c:247) finds one, whatever the handler did   *)
(* in between and however buffer_count-- is compiled.                      *)
GetcharFindsKey == pc = "get" => buffer_count > 0

(* The thread never takes a slot that no interrupt has written.            *)
ReadsWrittenSlot == pc = "read" => key_buffer[buffer_tail] # NUL

(* keyboard_has_key tells "if a key is available in buffer": when the      *)
(* thread is between two gets and the count is 0, the head has caught up   *)
(* with the tail, so no key is left behind in the ring.                    *)
NoStrandedKey ==
  pc \in {"caller", "has_key", "hlt", "halted"} /\ buffer_count = 0
    => buffer_head = buffer_tail

-----------------------------------------------------------------------------
(* The ring as a queue.                                                    *)

(* The build and the client for which the ring is sound.                   *)
AtomicDecrement == ~SplitDecrement /\ "clear" \notin Calls

(* The buffered characters, oldest first, read back from the head.         *)
Buffered ==
  [i \in 1 .. buffer_count |->
     key_buffer[(buffer_head + Size - buffer_count + i - 1) % Size]]

(* Keys the tail has not passed yet: all that are counted, except the one  *)
(* the thread has taken and not uncounted yet.                             *)
Waiting == buffer_count - (IF pc = "dec" THEN 1 ELSE 0)

(* Head, tail and count agree, every counted slot holds a character, and   *)
(* the character the thread is taking is the oldest one.                   *)
RingAgrees ==
  /\ buffer_head = (buffer_tail + Waiting) % Size
  /\ \A i \in 1 .. buffer_count : Buffered[i] \in Char
  /\ pc \in {"advance", "dec"} => c = Buffered[1]

(* In a build whose decrement is one instruction, and with no clear, the   *)
(* ring implements the bounded queue: an accepted key is never lost,       *)
(* duplicated or reordered, whatever the handler interrupts.               *)
Fifo == INSTANCE KeyQueue WITH queue <- Buffered
ImplementsQueue == Fifo!Spec

(* A key in the buffer is eventually taken by the thread, or cleared.      *)
KeyDelivered == buffer_count > 0 ~> pc \in {"dec", "store"} \/ buffer_count = 0
=============================================================================
