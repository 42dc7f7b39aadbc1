-------------------------- MODULE KeyBufferProofs ---------------------------
(***************************************************************************)
(* Proofs about KeyBuffer for every ring size, character set, build and    *)
(* client.                                                                 *)
(***************************************************************************)
EXTENDS KeyBuffer, SequenceTheorems, TLAPS

(* A value below 2 * N is reduced modulo N by at most one subtraction.     *)
LEMMA ModWrap ==
  ASSUME NEW N \in Nat \ {0}, NEW x \in 0 .. 2 * N - 1
  PROVE  x % N = IF x < N THEN x ELSE x - N
  BY SMT

-----------------------------------------------------------------------------
(* The type invariant, strengthened by what the thread knows of the count. *)

IInv == TypeOK /\ CountHeld

LEMMA InitIInv == Init => IInv
  BY BufferAssumption DEF Init, IInv, TypeOK, CountHeld, Slots, Labels

LEMMA InterruptIInv ==
  ASSUME IInv, Interrupt
  PROVE  IInv'
<1> USE BufferAssumption DEF IInv, TypeOK, CountHeld, Slots, Labels, WakeUp, shared
<1>1. CASE SilentInterrupt
  BY <1>1 DEF SilentInterrupt
<1>2. ASSUME NEW ch \in Char, keyboard_buffer_add(ch)
      PROVE  IInv'
  <2>1. (buffer_head + 1) % Size \in Slots
    OBVIOUS
  <2> QED
    BY <1>2, <2>1 DEF keyboard_buffer_add
<1> QED
  BY <1>1, <1>2 DEF Interrupt

LEMMA ThreadIInv ==
  ASSUME IInv, Thread
  PROVE  IInv'
<1> USE BufferAssumption
    DEF IInv, TypeOK, CountHeld, Slots, Labels, Goto, Return, shared
<1>1. CASE Call \/ HasKey \/ Hlt \/ TestCount
  BY <1>1 DEF Call, HasKey, Hlt, TestCount
<1>2. CASE GetNone
  BY <1>2 DEF GetNone
<1>3. CASE ReadSlot
  BY <1>3 DEF ReadSlot
<1>4. CASE AdvanceTail
  <2>1. (buffer_tail + 1) % Size \in Slots
    OBVIOUS
  <2> QED
    BY <1>4, <2>1 DEF AdvanceTail
<1>5. CASE Decrement
  BY <1>5 DEF Decrement
<1>6. CASE LoadCount
  BY <1>6 DEF LoadCount
<1>7. CASE StoreCount
  BY <1>7 DEF StoreCount
<1>8. CASE ClearHead \/ ClearTail \/ ClearCount
  BY <1>8 DEF ClearHead, ClearTail, ClearCount
<1> QED
  BY <1>1, <1>2, <1>3, <1>4, <1>5, <1>6, <1>7, <1>8 DEF Thread

LEMMA NextIInv == IInv /\ [Next]_vars => IInv'
<1> SUFFICES ASSUME IInv, [Next]_vars PROVE IInv'
  OBVIOUS
<1>1. CASE UNCHANGED vars
  BY <1>1 DEF IInv, TypeOK, CountHeld, vars, shared
<1> QED
  BY <1>1, InterruptIInv, ThreadIInv DEF Next

(* The count, the head and the tail stay in range in every build and for   *)
(* every client: the race on buffer_count-- never makes the count negative *)
(* or larger than the buffer.                                              *)
THEOREM TypeCorrect == Spec => []TypeOK
<1>1. IInv => TypeOK
  BY DEF IInv
<1> QED
  BY InitIInv, NextIInv, <1>1, PTL DEF Spec

(* The get of a blocking keyboard_getchar always finds a key, in every     *)
(* build and for every client.                                             *)
THEOREM GetcharNeverEmpty == Spec => []GetcharFindsKey
<1>1. IInv => GetcharFindsKey
  BY DEF IInv, CountHeld, GetcharFindsKey
<1> QED
  BY InitIInv, NextIInv, <1>1, PTL DEF Spec

-----------------------------------------------------------------------------
(* The ring as a queue: what one step of an index does to the slots.       *)

LEMMA AddSlots ==
  ASSUME NEW h \in Slots, NEW k \in 0 .. Size - 1
  PROVE  /\ (((h + 1) % Size) + Size - (k + 1) + (k + 1) - 1) % Size = h
         /\ \A i \in 1 .. k :
              /\ (((h + 1) % Size) + Size - (k + 1) + i - 1) % Size
                   = (h + Size - k + i - 1) % Size
              /\ (h + Size - k + i - 1) % Size # h
  BY BufferAssumption, SMT DEF Slots

LEMMA HeadFollows ==
  ASSUME NEW t \in Slots, NEW k \in 0 .. Size - 1
  PROVE  (((t + k) % Size) + 1) % Size = (t + (k + 1)) % Size
  BY BufferAssumption, SMT DEF Slots

LEMMA TailFollows ==
  ASSUME NEW t \in Slots, NEW k \in 1 .. Size
  PROVE  (t + k) % Size = (((t + 1) % Size) + (k - 1)) % Size
  BY BufferAssumption, SMT DEF Slots

LEMMA OldestSlot ==
  ASSUME NEW t \in Slots, NEW k \in 1 .. Size
  PROVE  (((t + k) % Size) + Size - k + 1 - 1) % Size = t
  BY BufferAssumption, SMT DEF Slots

-----------------------------------------------------------------------------
(* The slots that are read were written, in every build and for every      *)
(* client.  Head, tail and count need not agree there; what holds is that  *)
(* the slots from Base on to the head are written, and that they are at    *)
(* least as many as the keys the thread may still take (Owed), unless all  *)
(* slots are written already.                                              *)

Base == IF pc = "clear_tail" THEN 0 ELSE buffer_tail

Owed ==
  IF pc \in {"clear_tail", "clear_count"} THEN 0
  ELSE IF pc \in {"dec", "store"} THEN buffer_count - 1
  ELSE buffer_count

Written == {slot \in Slots : key_buffer[slot] # NUL}
AllWritten == Slots \subseteq Written
WrittenFor(d) ==
  /\ d >= Owed
  /\ buffer_head = (Base + d) % Size
  /\ \A i \in 0 .. d - 1 : (Base + i) % Size \in Written

WInv == IInv /\ (AllWritten \/ \E d \in 0 .. Size - 1 : WrittenFor(d))

LEMMA SlotReached ==
  ASSUME NEW b \in Slots, NEW slot \in Slots
  PROVE  \E i \in 0 .. Size - 1 : (b + i) % Size = slot
<1>1. CASE slot >= b
  <2>1. slot - b \in 0 .. Size - 1 /\ (b + (slot - b)) % Size = slot
    BY <1>1, BufferAssumption, SMT DEF Slots
  <2> QED
    BY <2>1
<1>2. CASE slot < b
  <2>1. slot - b + Size \in 0 .. Size - 1 /\ (b + (slot - b + Size)) % Size = slot
    BY <1>2, BufferAssumption, SMT DEF Slots
  <2> QED
    BY <2>1
<1> QED
  BY <1>1, <1>2, BufferAssumption DEF Slots

LEMMA AddWInv ==
  ASSUME WInv, NEW ch \in Char, keyboard_buffer_add(ch)
  PROVE  WInv'
<1>1. IInv'
  BY InterruptIInv DEF Interrupt, WInv
<1>2. /\ buffer_head \in Slots /\ Base \in Slots /\ Base' = Base
      /\ buffer_count \in 0 .. Size - 1 /\ Owed' <= Owed + 1
  BY BufferAssumption
     DEF WInv, IInv, TypeOK, Slots, Base, Owed, keyboard_buffer_add, WakeUp
<1>3. \A slot \in Slots : slot \in Written \/ slot = buffer_head => slot \in Written'
  BY BufferAssumption DEF WInv, IInv, TypeOK, Written, keyboard_buffer_add
<1>4. CASE AllWritten
  BY <1>1, <1>3, <1>4 DEF WInv, AllWritten
<1>5. ASSUME NEW d \in 0 .. Size - 1, WrittenFor(d)
      PROVE  WInv'
  <2>1. \A i \in 0 .. d : (Base + i) % Size \in Written'
    <3> SUFFICES ASSUME NEW i \in 0 .. d
                 PROVE  (Base + i) % Size \in Written'
      OBVIOUS
    <3>1. (Base + i) % Size \in Slots
      BY <1>2, BufferAssumption DEF Slots
    <3>2. i \in 0 .. d - 1 \/ i = d
      OBVIOUS
    <3>3. (Base + i) % Size \in Written \/ (Base + i) % Size = buffer_head
      BY <1>5, <3>2 DEF WrittenFor
    <3> QED
      BY <1>3, <3>1, <3>3
  <2>2. CASE d = Size - 1
    <3>1. AllWritten'
      <4> SUFFICES ASSUME NEW slot \in Slots PROVE slot \in Written'
        BY DEF AllWritten, Slots
      <4>1. PICK i \in 0 .. Size - 1 : (Base + i) % Size = slot
        BY <1>2, SlotReached
      <4> QED
        BY <2>1, <2>2, <4>1
    <3> QED
      BY <1>1, <3>1 DEF WInv
  <2>3. CASE d # Size - 1
    <3>1. d + 1 \in 0 .. Size - 1
      BY <2>3, BufferAssumption
    <3>2. buffer_head' = (Base' + (d + 1)) % Size
      BY <1>2, <1>5, HeadFollows DEF WrittenFor, keyboard_buffer_add
    <3>3. Owed \in Int /\ Owed' \in Int
      BY <1>1 DEF WInv, IInv, TypeOK, Owed
    <3>4. WrittenFor(d + 1)'
      BY <1>2, <1>5, <2>1, <3>2, <3>3 DEF WrittenFor
    <3> QED
      BY <1>1, <3>1, <3>4 DEF WInv
  <2> QED
    BY <2>2, <2>3
<1> QED
  BY <1>4, <1>5 DEF WInv

LEMMA NextWInv == WInv /\ [Next]_vars => WInv'
<1> SUFFICES ASSUME WInv, [Next]_vars PROVE WInv'
  OBVIOUS
<1> USE BufferAssumption DEF Goto, shared
<1>1. IInv'
  BY NextIInv DEF WInv
<1>2. CASE AllWritten /\ UNCHANGED key_buffer
  BY <1>1, <1>2 DEF WInv, AllWritten, Written
<1>3. ASSUME UNCHANGED <<key_buffer, buffer_head>>, Base' = Base, Owed' <= Owed
      PROVE  WInv'
  <2>1. Owed \in Int /\ Owed' \in Int
    BY <1>1 DEF WInv, IInv, TypeOK, Owed
  <2> QED
    BY <1>1, <1>3, <2>1 DEF WInv, AllWritten, Written, WrittenFor
<1>4. CASE UNCHANGED vars
  BY <1>3, <1>4 DEF vars, Base, Owed, WInv, IInv, TypeOK
<1>5. CASE SilentInterrupt
  BY <1>3, <1>5 DEF SilentInterrupt, WakeUp, Base, Owed, WInv, IInv, TypeOK
<1>6. ASSUME NEW ch \in Char, keyboard_buffer_add(ch) PROVE WInv'
  BY <1>6, AddWInv
<1>7. CASE Call \/ HasKey \/ Hlt \/ TestCount \/ GetNone \/ ReadSlot
  BY <1>3, <1>7 DEF Call, HasKey, Hlt, TestCount, GetNone, ReadSlot, Base, Owed,
                    WInv, IInv, TypeOK
<1>8. CASE AdvanceTail
  <2>1. buffer_count \in 1 .. Size /\ buffer_tail \in Slots
    BY <1>8 DEF AdvanceTail, WInv, IInv, TypeOK, CountHeld
  <2>2. Base = buffer_tail /\ Base' = (buffer_tail + 1) % Size
        /\ Owed = buffer_count /\ Owed' = buffer_count - 1
    BY <1>8 DEF AdvanceTail, Base, Owed
  <2>3. ASSUME NEW d \in 0 .. Size - 1, WrittenFor(d)
        PROVE  WInv'
    <3>1. d \in 1 .. Size - 1
      BY <2>1, <2>2, <2>3 DEF WrittenFor
    <3>2. buffer_head' = (Base' + (d - 1)) % Size
      BY <1>8, <2>1, <2>2, <2>3, <3>1, TailFollows DEF WrittenFor, AdvanceTail
    <3>3. ASSUME NEW i \in 0 .. d - 2
          PROVE  (Base' + i) % Size = (Base + (i + 1)) % Size
      <4>1. i + 1 \in 1 .. Size
        BY <3>1
      <4>2. (buffer_tail + (i + 1)) % Size = (((buffer_tail + 1) % Size) + (i + 1 - 1)) % Size
        BY <2>1, <4>1, TailFollows
      <4>3. i + 1 - 1 = i
        OBVIOUS
      <4> QED
        BY <2>2, <4>2, <4>3
    <3>4. \A i \in 0 .. d - 2 : (Base' + i) % Size \in Written'
      <4> SUFFICES ASSUME NEW i \in 0 .. d - 2
                   PROVE  (Base' + i) % Size \in Written'
        OBVIOUS
      <4>1. (Base + (i + 1)) % Size \in Written
        BY <2>3, <3>1 DEF WrittenFor
      <4> QED
        BY <1>8, <3>3, <4>1 DEF Written, AdvanceTail
    <3>5. WrittenFor(d - 1)'
      BY <2>1, <2>2, <2>3, <3>1, <3>2, <3>4 DEF WrittenFor
    <3> QED
      BY <1>1, <3>1, <3>5 DEF WInv
  <2> QED
    BY <1>2, <1>8, <2>3 DEF WInv, AdvanceTail
<1>9. CASE Decrement \/ LoadCount \/ StoreCount
  BY <1>3, <1>9 DEF Decrement, LoadCount, StoreCount, Base, Owed, WInv, IInv, TypeOK,
                    CountHeld
<1>10. CASE ClearHead
  <2>1. WrittenFor(0)'
    BY <1>10 DEF ClearHead, WrittenFor, Base, Owed
  <2> QED
    BY <1>1, <2>1 DEF WInv
<1>11. CASE ClearTail \/ ClearCount
  BY <1>3, <1>11 DEF ClearTail, ClearCount, Base, Owed, WInv, IInv, TypeOK
<1> QED
  BY <1>4, <1>5, <1>6, <1>7, <1>8, <1>9, <1>10, <1>11 DEF Next, Interrupt, Thread

(* The thread never takes a slot that was not written, in every build and  *)
(* for every client, although clear and the split decrement make head,     *)
(* tail and count disagree.                                                *)
THEOREM ReadsOnlyWritten == Spec => []ReadsWrittenSlot
<1>1. Init => WInv
  <2> SUFFICES ASSUME Init PROVE WInv
    OBVIOUS
  <2>1. WrittenFor(0)
    BY BufferAssumption DEF Init, WrittenFor, Base, Owed
  <2> QED
    BY <2>1, InitIInv, BufferAssumption DEF WInv
<1>2. WInv => ReadsWrittenSlot
  <2> SUFFICES ASSUME WInv, pc = "read" PROVE key_buffer[buffer_tail] # NUL
    BY DEF ReadsWrittenSlot
  <2>1. buffer_tail \in Slots /\ Owed >= 1 /\ Owed \in Int /\ Base = buffer_tail
    BY DEF WInv, IInv, TypeOK, CountHeld, Owed, Base
  <2>2. (Base + 0) % Size = buffer_tail
    BY <2>1, BufferAssumption DEF Slots
  <2>3. ASSUME NEW d \in 0 .. Size - 1, WrittenFor(d)
        PROVE  buffer_tail \in Written
    <3>1. 0 \in 0 .. d - 1
      BY <2>1, <2>3 DEF WrittenFor
    <3> QED
      BY <2>2, <2>3, <3>1 DEF WrittenFor
  <2> QED
    BY <2>1, <2>3 DEF WInv, AllWritten, Written
<1> QED
  BY <1>1, <1>2, NextWInv, PTL DEF Spec

-----------------------------------------------------------------------------
(* The agreement of head, tail and count, in a build whose decrement is    *)
(* one instruction and for a client that does not clear the buffer.        *)

RInv == IInv /\ RingAgrees /\ pc \notin {"store", "clear_tail", "clear_count"}

LEMMA InitRInv == Init => RInv
  BY InitIInv, BufferAssumption DEF Init, RInv, RingAgrees, Waiting, Buffered

LEMMA AddToBuffered ==
  ASSUME RInv, NEW ch \in Char, keyboard_buffer_add(ch)
  PROVE  /\ buffer_count \in 0 .. Size - 1 /\ buffer_count' = buffer_count + 1
         /\ \A i \in 1 .. buffer_count : Buffered'[i] = Buffered[i]
         /\ Buffered'[buffer_count + 1] = ch
<1> USE BufferAssumption DEF RInv, IInv, TypeOK, keyboard_buffer_add
<1>1. /\ buffer_head \in Slots
      /\ buffer_count \in 0 .. Size - 1 /\ buffer_count' = buffer_count + 1
  BY DEF Slots
<1>2. ASSUME NEW i \in 1 .. buffer_count
      PROVE  Buffered'[i] = Buffered[i]
  <2>1. (buffer_head' + Size - buffer_count' + i - 1) % Size
          = (buffer_head + Size - buffer_count + i - 1) % Size
    BY <1>1, <1>2, AddSlots
  <2>2. (buffer_head + Size - buffer_count + i - 1) % Size
          \in Slots \ {buffer_head}
    BY <1>1, <1>2, AddSlots DEF Slots
  <2> QED
    BY <1>1, <1>2, <2>1, <2>2 DEF Buffered
<1>3. Buffered'[buffer_count + 1] = ch
  BY <1>1, AddSlots DEF Buffered
<1> QED
  BY <1>1, <1>2, <1>3

LEMMA AddRingAgrees ==
  ASSUME RInv, NEW ch \in Char, keyboard_buffer_add(ch)
  PROVE  RingAgrees'
<1>1. /\ buffer_tail \in Slots
      /\ Waiting \in 0 .. Size - 1
      /\ Waiting' = Waiting + 1
  BY AddToBuffered, BufferAssumption
     DEF RInv, IInv, TypeOK, CountHeld, keyboard_buffer_add, Waiting, WakeUp
<1>2. buffer_head' = (buffer_tail' + Waiting') % Size
  BY <1>1, HeadFollows DEF RInv, RingAgrees, keyboard_buffer_add
<1>3. \A i \in 1 .. buffer_count' : Buffered'[i] \in Char
  <2>1. \A i \in 1 .. buffer_count : Buffered[i] \in Char
    BY DEF RInv, RingAgrees
  <2> QED
    BY AddToBuffered, <2>1
<1>4. pc' \in {"advance", "dec"} => c' = Buffered'[1]
  <2>1. SUFFICES ASSUME pc \in {"advance", "dec"} PROVE c = Buffered'[1]
    BY DEF keyboard_buffer_add, WakeUp
  <2>2. buffer_count > 0 /\ c = Buffered[1]
    BY <2>1 DEF RInv, IInv, CountHeld, RingAgrees
  <2> QED
    BY AddToBuffered, <2>2
<1> QED
  BY <1>2, <1>3, <1>4 DEF RingAgrees

LEMMA NextRInv ==
  ASSUME AtomicDecrement, RInv, [Next]_vars
  PROVE  RInv'
<1> USE BufferAssumption DEF AtomicDecrement, Goto, shared
<1>1. IInv'
  BY NextIInv DEF RInv
<1>2. pc' \notin {"store", "clear_tail", "clear_count"}
  BY DEF RInv, Next, vars, Interrupt, SilentInterrupt, keyboard_buffer_add,
         WakeUp, Thread, Call, HasKey, Hlt, TestCount, GetNone, ReadSlot,
         AdvanceTail, Decrement, LoadCount, StoreCount, ClearHead, ClearTail,
         ClearCount
<1>3. RingAgrees'
  <2>1. ASSUME UNCHANGED shared, c' = c, Waiting' = Waiting,
               pc' \notin {"advance", "dec"} \/ pc' = pc
        PROVE  RingAgrees'
    BY <2>1 DEF RInv, RingAgrees, Buffered
  <2>2. CASE UNCHANGED vars
    BY <2>1, <2>2 DEF vars, Waiting
  <2>3. CASE SilentInterrupt
    BY <2>1, <2>3 DEF SilentInterrupt, WakeUp, Waiting
  <2>4. ASSUME NEW ch \in Char, keyboard_buffer_add(ch) PROVE RingAgrees'
    BY <2>4, AddRingAgrees
  <2>5. CASE Call \/ HasKey \/ Hlt \/ TestCount
    BY <2>1, <2>5 DEF Call, HasKey, Hlt, TestCount, Waiting
  <2>6. CASE GetNone
    BY <2>6 DEF GetNone, Return, RInv, RingAgrees, Buffered, Waiting
  <2>7. CASE ReadSlot
    <3>1. buffer_count \in 1 .. Size /\ buffer_tail \in Slots
      BY <2>7 DEF ReadSlot, RInv, IInv, TypeOK, CountHeld
    <3>2. (buffer_head + Size - buffer_count + 1 - 1) % Size = buffer_tail
      BY <2>7, <3>1, OldestSlot DEF ReadSlot, RInv, RingAgrees, Waiting
    <3>3. Buffered[1] = key_buffer[buffer_tail]
      BY <3>1, <3>2 DEF Buffered
    <3> QED
      BY <2>7, <3>3 DEF ReadSlot, RInv, RingAgrees, Buffered, Waiting
  <2>8. CASE AdvanceTail
    <3>1. buffer_count \in 1 .. Size /\ buffer_tail \in Slots
      BY <2>8 DEF AdvanceTail, RInv, IInv, TypeOK, CountHeld
    <3>2. buffer_head = (buffer_tail' + (buffer_count - 1)) % Size
      BY <2>8, <3>1, TailFollows DEF AdvanceTail, RInv, RingAgrees, Waiting
    <3> QED
      BY <2>8, <3>2 DEF AdvanceTail, RInv, RingAgrees, Buffered, Waiting
  <2>9. CASE Decrement
    <3>1. buffer_count \in 1 .. Size /\ buffer_head \in 0 .. Size - 1
      BY <2>9 DEF Decrement, RInv, IInv, TypeOK, CountHeld, Slots
    <3>2. ASSUME NEW i \in 1 .. buffer_count'
          PROVE  Buffered'[i] = Buffered[i + 1]
      BY <2>9, <3>1, <3>2 DEF Decrement, Buffered
    <3>3. buffer_head' = (buffer_tail' + Waiting') % Size
      BY <2>9, <3>1 DEF Decrement, RInv, RingAgrees, Waiting
    <3> QED
      BY <2>9, <3>1, <3>2, <3>3 DEF Decrement, RInv, RingAgrees
  <2> QED
    BY <2>2, <2>3, <2>4, <2>5, <2>6, <2>7, <2>8, <2>9
       DEF Next, Interrupt, Thread, LoadCount, StoreCount, ClearHead,
           ClearTail, ClearCount, RInv
<1> QED
  BY <1>1, <1>2, <1>3 DEF RInv

(* In such a build and for such a client, head, tail and count agree at    *)
(* every step of the thread, so a count of 0 means that no key is left.    *)
THEOREM RingSound == ASSUME AtomicDecrement
                     PROVE  Spec => [](RingAgrees /\ NoStrandedKey)
<1>1. RInv => RingAgrees /\ NoStrandedKey
  BY BufferAssumption
     DEF RInv, IInv, TypeOK, RingAgrees, NoStrandedKey, Waiting, Slots
<1>2. RInv /\ [Next]_vars => RInv'
  BY NextRInv
<1> QED
  BY InitRInv, <1>1, <1>2, PTL DEF Spec

(* In particular head and tail are where the count says, and every counted *)
(* slot holds a character.                                                 *)
THEOREM RingConsistent == ASSUME AtomicDecrement PROVE Spec => []RingAgrees
BY RingSound, PTL

-----------------------------------------------------------------------------
(* The refinement: what each step does to the sequence Buffered.           *)

LEMMA BufferedIsSeq ==
  ASSUME RInv
  PROVE  /\ Buffered \in Seq(Char)
         /\ Len(Buffered) = buffer_count
  BY BufferAssumption DEF RInv, IInv, TypeOK, RingAgrees, Buffered

LEMMA AddAppends ==
  ASSUME RInv, NEW ch \in Char, keyboard_buffer_add(ch)
  PROVE  Fifo!Add(ch)
<1>1. Len(Buffered) < Size /\ UNCHANGED retval
  BY BufferedIsSeq DEF keyboard_buffer_add
<1>2. Buffered' \in Seq(Char) /\ Len(Buffered') = buffer_count + 1
  <2>1. \A i \in 1 .. buffer_count + 1 : Buffered'[i] \in Char
    BY AddToBuffered DEF RInv, RingAgrees
  <2>2. Buffered' = [i \in 1 .. buffer_count + 1 |-> Buffered'[i]]
    BY AddToBuffered DEF Buffered
  <2> QED
    BY AddToBuffered, <2>1, <2>2
<1>3. Buffered' = Append(Buffered, ch)
  BY AddToBuffered, <1>2, BufferedIsSeq, AppendProperties, SeqEqual
<1> QED
  BY <1>1, <1>3 DEF Fifo!Add

LEMMA DecrementGets ==
  ASSUME RInv, Decrement
  PROVE  Fifo!Get
<1>1. /\ buffer_count \in 1 .. Size /\ buffer_count' = buffer_count - 1
      /\ buffer_head \in 0 .. Size - 1
      /\ pc = "dec" /\ retval' = c
  BY BufferAssumption
     DEF RInv, IInv, TypeOK, CountHeld, Decrement, Goto, Return, Slots
<1>2. \A i \in 1 .. buffer_count - 1 : Buffered'[i] = Buffered[i + 1]
  BY <1>1, BufferAssumption DEF Buffered, Decrement
<1>3. Buffered' \in Seq(Char) /\ Len(Buffered') = buffer_count - 1
  <2>1. \A i \in 1 .. buffer_count : Buffered[i] \in Char
    BY DEF RInv, RingAgrees
  <2>2. \A i \in 1 .. buffer_count - 1 : Buffered'[i] \in Char
    BY <1>1, <1>2, <2>1
  <2>3. Buffered' = [i \in 1 .. buffer_count - 1 |-> Buffered'[i]]
    BY <1>1 DEF Buffered
  <2> QED
    BY <1>1, <2>2, <2>3
<1>4. Buffered # <<>> /\ Head(Buffered) = c
  BY <1>1, BufferedIsSeq DEF RInv, RingAgrees
<1>5. Buffered' = Tail(Buffered)
  BY <1>1, <1>2, <1>3, <1>4, BufferedIsSeq, HeadTailProperties, SeqEqual
<1> QED
  BY <1>1, <1>4, <1>5 DEF Fifo!Get

LEMMA NextImplementsQueue ==
  ASSUME AtomicDecrement, RInv, [Next]_vars
  PROVE  [Fifo!Next]_(Fifo!vars)
<1> USE DEF Goto, shared
<1>1. ASSUME UNCHANGED shared, retval' = retval
      PROVE  UNCHANGED Fifo!vars
  BY <1>1 DEF Buffered, Fifo!vars
<1>2. CASE UNCHANGED vars
  BY <1>1, <1>2 DEF vars
<1>3. CASE SilentInterrupt
  BY <1>1, <1>3 DEF SilentInterrupt
<1>4. ASSUME NEW ch \in Char, keyboard_buffer_add(ch)
      PROVE  Fifo!Next
  BY <1>4, AddAppends DEF Fifo!Next
<1>5. CASE Call \/ HasKey \/ Hlt \/ TestCount \/ ReadSlot
  BY <1>1, <1>5 DEF Call, HasKey, Hlt, TestCount, ReadSlot
<1>6. CASE GetNone
  <2>1. Buffered = <<>>
    BY <1>6 DEF GetNone, Buffered
  <2> QED
    BY <1>6, <2>1 DEF GetNone, Return, Buffered, Fifo!Next, Fifo!GetNone
<1>7. CASE AdvanceTail
  BY <1>7 DEF AdvanceTail, Buffered, Fifo!vars
<1>8. CASE Decrement
  BY <1>8, DecrementGets DEF Fifo!Next
<1> QED
  BY <1>2, <1>3, <1>4, <1>5, <1>6, <1>7, <1>8
     DEF Next, Interrupt, Thread, LoadCount, StoreCount, ClearHead,
         ClearTail, ClearCount, RInv, AtomicDecrement

(* In such a build and for such a client the ring implements the bounded   *)
(* queue: whatever the handler interrupts, an accepted key is handed over  *)
(* once, in the order it was typed.                                        *)
THEOREM QueueImplemented == ASSUME AtomicDecrement
                            PROVE  Spec => ImplementsQueue
<1>1. Init => Fifo!Init
  BY DEF Init, Fifo!Init, Buffered
<1>2. RInv /\ [Next]_vars => RInv'
  BY NextRInv
<1>3. RInv /\ [Next]_vars => [Fifo!Next]_(Fifo!vars)
  BY NextImplementsQueue
<1> QED
  BY InitRInv, <1>1, <1>2, <1>3, PTL DEF Spec, ImplementsQueue, Fifo!Spec
=============================================================================
