---------------------------- MODULE StdMemProofs ----------------------------
(***************************************************************************)
(* Proofs about StdMem for every size of the memory and of a byte.         *)
(***************************************************************************)
EXTENDS StdMem, TLAPS

(* The memory with the part from lo to hi of the destination written.      *)
Moved(lo, hi) ==
  [a \in Addr |->
     IF a < s1 + lo \/ a >= s1 + hi THEN before[a]
     ELSE IF fn = "memset" THEN c % (UCHAR_MAX + 1)
     ELSE before[s2 + a - s1]]

Upwards == fn \in {"memcpy", "memset"} \/ (fn = "memmove" /\ s2 > s1)
Downwards == fn = "memmove" /\ s2 < s1

(* The arguments are those that C allows.                                  *)
ArgumentsInv ==
  /\ fn = "none" => returned = FALSE
  /\ fn # "none" => s1 \in Addr /\ s2 \in Addr /\ s1 + n <= Size
  /\ fn \in {"memcpy", "memmove", "memcmp"} => s2 + n <= Size
  /\ fn \in {"memcpy", "memset", "memmove", "memcmp"} => i <= n
  /\ fn = "memcpy" => s1 = s2 \/ Disjoint(s1, s2, n)

(* The loops of the functions that write: what is written so far, from     *)
(* the contents at the call.                                               *)
WrittenInv ==
  /\ Upwards => memory = Moved(0, i) /\ (returned => i = n)
  /\ Downwards => memory = Moved(i, n) /\ (returned => i = 0)
  /\ ~Upwards /\ ~Downwards => memory = before

(* The loops over strings are in front of the terminators.                 *)
StringsInv ==
  /\ fn \in {"strlen", "strcmp"} =>
       /\ \E a \in Addr : a >= s1 + i /\ memory[a] = 0
       /\ \A k \in 0 .. i - 1 : memory[s1 + k] # 0
  /\ fn = "strcmp" =>
       /\ \E a \in Addr : a >= s2 + i /\ memory[a] = 0
       /\ \A k \in 0 .. i - 1 : memory[s2 + k] # 0

(* What is compared so far is equal.                                       *)
EqualInv ==
  fn \in {"memcmp", "strcmp"} => \A k \in 0 .. i - 1 : memory[s1 + k] = memory[s2 + k]

MemInv ==
  MemTypeOK /\ ArgumentsInv /\ WrittenInv /\ StringsInv /\ EqualInv /\ ResultsCorrect

-----------------------------------------------------------------------------

LEMMA ByteOfInt == \A k \in Int : k % (UCHAR_MAX + 1) \in Byte
BY StdMemAssumption DEF Byte

LEMMA AddrIsInt == \A a \in Addr : a \in Int
BY StdMemAssumption DEF Addr

LEMMA ZerosType == Zeros \in [Addr -> Byte]
BY StdMemAssumption DEF Zeros, Byte

LEMMA InitMemInv == MemInit => MemInv
<1> SUFFICES ASSUME MemInit PROVE MemInv
  OBVIOUS
<1>1. MemTypeOK
  <2>1. returned \in BOOLEAN
    BY DEF MemInit
  <2> QED
    BY <2>1, ZerosType, StdMemAssumption DEF MemInit, MemTypeOK
<1>2. ArgumentsInv /\ WrittenInv /\ StringsInv /\ EqualInv
  BY DEF MemInit, ArgumentsInv, WrittenInv, StringsInv, EqualInv, Upwards, Downwards
<1>3. ResultsCorrect
  BY DEF MemInit, ResultsCorrect
<1> QED
  BY <1>1, <1>2, <1>3 DEF MemInv

LEMMA ReturnMemInv ==
  ASSUME MemInv, MemReturn
  PROVE  MemInv'
<1>1. MemTypeOK'
  <2>1. returned' \in BOOLEAN
    BY DEF MemReturn
  <2> QED
    BY <2>1, ZerosType, StdMemAssumption DEF MemReturn, MemTypeOK
<1>2. ArgumentsInv' /\ WrittenInv' /\ StringsInv' /\ EqualInv'
  BY DEF MemReturn, ArgumentsInv, WrittenInv, StringsInv, EqualInv, Upwards, Downwards
<1>3. ResultsCorrect'
  BY DEF MemReturn, ResultsCorrect
<1> QED
  BY <1>1, <1>2, <1>3 DEF MemInv

(* A call starts with nothing written and nothing compared.                *)
LEMMA CallMemInv ==
  ASSUME MemInv, NEW f \in Functions, MemCall(f)
  PROVE  MemInv'
<1>1. returned = FALSE /\ returned' = FALSE
  BY DEF MemCall, MemInv, ArgumentsInv
<1>2. /\ memory' \in [Addr -> Byte] /\ before' = memory'
      /\ s1' \in Addr /\ s2' \in Addr /\ n' \in 0 .. Size /\ s1' + n' <= Size
      /\ fn' = f
      /\ i' = 0 \/ i' = n'
  BY DEF MemCall, FirstIndex
<1>3. MemTypeOK'
  <2>1. c' \in Int /\ result' \in Int
    <3>1. c' \in -1 .. UCHAR_MAX + 1 \/ c' \in {0}
      BY DEF MemCall
    <3>2. result' \in Int
      BY DEF MemCall, MemInv, MemTypeOK
    <3> QED
      BY <3>1, <3>2, StdMemAssumption
  <2>2. returned' \in BOOLEAN
    BY <1>1
  <2>3. s1' \in 0 .. Size /\ s2' \in 0 .. Size /\ i' \in 0 .. Size
    BY <1>2, StdMemAssumption DEF Addr
  <2> QED
    BY <1>2, <2>1, <2>2, <2>3 DEF MemTypeOK, Functions
<1>4. ArgumentsInv'
  <2>1. f \in {"memcpy", "memmove", "memcmp"} => s2' + n' <= Size
    BY DEF MemCall
  <2>2. f = "memcpy" => s1' = s2' \/ Disjoint(s1, s2, n)'
    BY DEF MemCall, Disjoint
  <2>3. f \in {"memcpy", "memset", "memmove", "memcmp"} => i' <= n'
    BY <1>2
  <2>4. fn' # "none"
    BY <1>2 DEF Functions
  <2> QED
    BY <1>1, <1>2, <2>1, <2>2, <2>3, <2>4 DEF ArgumentsInv
<1>5. WrittenInv'
  <2>1. Upwards' => i' = 0
    <3>1. s2' > s1' => ~(s2' < s1')
      BY <1>2 DEF Addr
    <3> QED
      BY <1>2, <3>1 DEF MemCall, FirstIndex, Upwards
  <2>2. Downwards' => i' = n'
    BY <1>2 DEF MemCall, FirstIndex, Downwards
  <2>3. ASSUME NEW k \in Int
        PROVE  memory' = Moved(k, k)'
    <3>1. \A a \in Addr : a < s1' + k \/ a >= s1' + k
      <4>1. s1' \in Int
        BY <1>2, AddrIsInt
      <4>2. \A a, b \in Int : a < b \/ a >= b
        OBVIOUS
      <4> QED
        BY <4>1, <4>2, AddrIsInt
    <3>2. Moved(k, k)' = [a \in Addr |-> memory'[a]]
      BY <1>2, <3>1 DEF Moved
    <3> QED
      BY <1>2, <3>2
  <2>4. (Upwards' => memory' = Moved(0, i)') /\ (Downwards' => memory' = Moved(i, n)')
    <3>1. 0 \in Int /\ n' \in Int
      BY <1>2
    <3>2. memory' = Moved(0, 0)'
      BY <2>3, <3>1
    <3>3. memory' = Moved(n, n)'
      BY <2>3, <3>1
    <3> QED
      BY <2>1, <2>2, <3>2, <3>3 DEF Moved
  <2> QED
    BY <1>1, <1>2, <2>4 DEF WrittenInv
<1>6. StringsInv'
  <2>1. f \in {"strlen", "strcmp"} => i' = 0 /\ IsString(s1)'
    BY DEF MemCall, FirstIndex
  <2>2. f = "strcmp" => IsString(s2)'
    BY DEF MemCall
  <2>3. /\ \A a \in Addr : a >= s1' => a >= s1' + 0
        /\ \A a \in Addr : a >= s2' => a >= s2' + 0
        /\ \A k \in 0 .. 0 - 1 : FALSE
    BY <1>2, AddrIsInt
  <2>4. f \in {"strlen", "strcmp"} => /\ \E a \in Addr : a >= s1' + i' /\ memory'[a] = 0
                                     /\ \A k \in 0 .. i' - 1 : memory'[s1' + k] # 0
    BY <2>1, <2>3 DEF IsString
  <2>5. f = "strcmp" => /\ \E a \in Addr : a >= s2' + i' /\ memory'[a] = 0
                        /\ \A k \in 0 .. i' - 1 : memory'[s2' + k] # 0
    BY <2>1, <2>2, <2>3 DEF IsString
  <2> QED
    BY <1>2, <2>4, <2>5 DEF StringsInv
<1>7. EqualInv'
  <2>1. f \in {"memcmp", "strcmp"} => i' = 0
    BY DEF MemCall, FirstIndex
  <2> QED
    BY <1>2, <2>1 DEF EqualInv
<1>8. ResultsCorrect'
  BY <1>1 DEF ResultsCorrect
<1> QED
  BY <1>3, <1>4, <1>5, <1>6, <1>7, <1>8 DEF MemInv

-----------------------------------------------------------------------------
(* The loops that write.                                                   *)

Source == IF fn = "memset" THEN c % (UCHAR_MAX + 1) ELSE before[s2 + i]

(* One byte more at the upper end of what is written.                      *)
LEMMA MovedUp ==
  ASSUME MemTypeOK, s1 \in Addr, s2 \in Addr, i < n
  PROVE  Moved(0, i + 1) = [Moved(0, i) EXCEPT ![s1 + i] = Source]
<1>1. s1 \in Int /\ s2 \in Int /\ i \in Int
  BY AddrIsInt DEF MemTypeOK
<1>2. ASSUME NEW a \in Addr
      PROVE  Moved(0, i + 1)[a] = [Moved(0, i) EXCEPT ![s1 + i] = Source][a]
  <2>1. a \in Int
    BY AddrIsInt
  <2>2. CASE a = s1 + i
    <3>1. ~(a < s1 + 0) /\ ~(a >= s1 + (i + 1)) /\ s2 + a - s1 = s2 + i
      BY <1>1, <2>1, <2>2 DEF MemTypeOK
    <3> QED
      BY <2>2, <3>1 DEF Moved, Source
  <2>3. CASE a # s1 + i
    <3>1. a >= s1 + (i + 1) <=> a >= s1 + i
      BY <1>1, <2>1, <2>3
    <3> QED
      BY <2>3, <3>1 DEF Moved
  <2> QED
    BY <2>2, <2>3
<1> QED
  BY <1>2 DEF Moved

(* One byte more at the lower end.                                         *)
LEMMA MovedDown ==
  ASSUME MemTypeOK, s1 \in Addr, s2 \in Addr, fn # "memset", 0 < i, i <= n
  PROVE  Moved(i - 1, n) = [Moved(i, n) EXCEPT ![s1 + i - 1] = before[s2 + i - 1]]
<1>1. s1 \in Int /\ s2 \in Int /\ i \in Int /\ n \in Int
  BY AddrIsInt DEF MemTypeOK
<1>2. ASSUME NEW a \in Addr
      PROVE  Moved(i - 1, n)[a] = [Moved(i, n) EXCEPT ![s1 + i - 1] = before[s2 + i - 1]][a]
  <2>1. a \in Int
    BY AddrIsInt
  <2>2. CASE a = s1 + i - 1
    <3>1. ~(a < s1 + (i - 1)) /\ ~(a >= s1 + n) /\ s2 + a - s1 = s2 + i - 1
      BY <1>1, <2>1, <2>2
    <3> QED
      BY <2>2, <3>1 DEF Moved
  <2>3. CASE a # s1 + i - 1
    <3>1. a < s1 + (i - 1) <=> a < s1 + i
      BY <1>1, <2>1, <2>3
    <3> QED
      BY <2>3, <3>1 DEF Moved
  <2> QED
    BY <2>2, <2>3
<1> QED
  BY <1>2 DEF Moved

(* The byte that is copied next is still the one of the call.              *)
LEMMA SourceUntouched ==
  ASSUME MemInv, ~returned,
         \/ fn = "memcpy" /\ i < n
         \/ fn = "memmove" /\ s2 > s1 /\ i < n
  PROVE  s2 + i \in Addr /\ memory[s2 + i] = before[s2 + i]
<1>1. /\ s1 \in Addr /\ s2 \in Addr /\ s1 + n <= Size /\ s2 + n <= Size
      /\ fn = "memcpy" => s1 = s2 \/ Disjoint(s1, s2, n)
  BY DEF MemInv, ArgumentsInv
<1>2. s1 \in Int /\ s2 \in Int /\ i \in Nat /\ n \in Nat /\ Size \in Nat
  BY <1>1, AddrIsInt, StdMemAssumption DEF MemInv, MemTypeOK
<1>3. s2 + i \in Addr
  BY <1>1, <1>2 DEF Addr
<1>4. memory = Moved(0, i)
  BY DEF MemInv, WrittenInv, Upwards
<1>5. s2 + i < s1 + 0 \/ s2 + i >= s1 + i
  BY <1>1, <1>2 DEF Disjoint
<1> QED
  BY <1>3, <1>4, <1>5 DEF Moved

LEMMA SourceUntouchedDown ==
  ASSUME MemInv, fn = "memmove", s2 < s1, 0 < i
  PROVE  s2 + i - 1 \in Addr /\ memory[s2 + i - 1] = before[s2 + i - 1]
<1>1. /\ s1 \in Addr /\ s2 \in Addr /\ s2 + n <= Size /\ i <= n
  BY DEF MemInv, ArgumentsInv
<1>2. s1 \in Int /\ s2 \in Nat /\ i \in Nat /\ n \in Nat /\ Size \in Nat
  BY <1>1, StdMemAssumption DEF MemInv, MemTypeOK, Addr
<1>3. s2 + i - 1 \in Addr
  BY <1>1, <1>2 DEF Addr
<1>4. memory = Moved(i, n)
  BY DEF MemInv, WrittenInv, Downwards
<1>5. s2 + i - 1 < s1 + i
  BY <1>2
<1> QED
  BY <1>3, <1>4, <1>5 DEF Moved

(* A store leaves the arguments alone; strings and comparisons are not     *)
(* concerned.                                                              *)
LEMMA StoreMemInv ==
  ASSUME MemInv, fn \in {"memcpy", "memset", "memmove"}, ~returned,
         NEW a, NEW byte \in Byte, NEW next \in 0 .. n, Store(a, byte, next), WrittenInv'
  PROVE  MemInv'
<1>1. /\ memory' = [memory EXCEPT ![a] = byte] /\ i' = next
      /\ UNCHANGED <<returned, result, fn, s1, s2, c, n, before>>
  BY DEF Store, args
<1>2. MemTypeOK'
  <2>1. memory' \in [Addr -> Byte] /\ before' \in [Addr -> Byte]
    BY <1>1 DEF MemInv, MemTypeOK
  <2>2. i' \in 0 .. Size
    BY <1>1, StdMemAssumption DEF MemInv, MemTypeOK
  <2>3. returned' \in BOOLEAN
    BY <1>1, Zenon DEF MemInv, MemTypeOK
  <2> QED
    BY <1>1, <2>1, <2>2, <2>3 DEF MemInv, MemTypeOK
<1>3. ArgumentsInv'
  BY <1>1 DEF MemInv, MemTypeOK, ArgumentsInv, Disjoint
<1>4. StringsInv' /\ EqualInv' /\ ResultsCorrect'
  BY <1>1 DEF StringsInv, EqualInv, ResultsCorrect
<1> QED
  BY <1>2, <1>3, <1>4 DEF MemInv

LEMMA StoreUp ==
  ASSUME MemInv, Upwards, ~returned, i < n, Store(s1 + i, Source, i + 1), Source \in Byte
  PROVE  MemInv'
<1>1. fn \in {"memcpy", "memset", "memmove"} /\ ~Downwards
  <2>1. fn = "memmove" /\ s2 > s1 => ~(s2 < s1)
    BY AddrIsInt DEF MemInv, ArgumentsInv
  <2> QED
    BY <2>1 DEF Upwards, Downwards
<1>2. i + 1 \in 0 .. n
  BY StdMemAssumption DEF MemInv, MemTypeOK
<1>3. Moved(0, i + 1) = [Moved(0, i) EXCEPT ![s1 + i] = Source]
  BY <1>1, MovedUp DEF MemInv, ArgumentsInv
<1>4. memory' = Moved(0, i + 1) /\ i' = i + 1 /\ UNCHANGED <<returned, fn, s1, s2, c, before>>
  BY <1>3 DEF Store, args, MemInv, WrittenInv
<1>5. WrittenInv'
  <2>1. Upwards' /\ ~Downwards'
    BY <1>1, <1>4 DEF Upwards, Downwards
  <2>2. memory' = Moved(0, i)'
    BY <1>4 DEF Moved
  <2> QED
    BY <1>4, <2>1, <2>2 DEF WrittenInv
<1> QED
  BY <1>1, <1>2, <1>5, StoreMemInv

LEMMA StoreDown ==
  ASSUME MemInv, Downwards, ~returned, 0 < i,
         Store(s1 + i - 1, before[s2 + i - 1], i - 1), before[s2 + i - 1] \in Byte
  PROVE  MemInv'
<1>1. fn = "memmove" /\ ~Upwards
  <2>1. s2 < s1 => ~(s2 > s1)
    BY AddrIsInt DEF MemInv, ArgumentsInv, Downwards
  <2> QED
    BY <2>1 DEF Upwards, Downwards
<1>2. i <= n /\ i - 1 \in 0 .. n
  BY <1>1 DEF MemInv, MemTypeOK, ArgumentsInv
<1>3. Moved(i - 1, n) = [Moved(i, n) EXCEPT ![s1 + i - 1] = before[s2 + i - 1]]
  BY <1>1, <1>2, MovedDown DEF MemInv, ArgumentsInv
<1>4. /\ memory' = Moved(i - 1, n) /\ i' = i - 1
      /\ UNCHANGED <<returned, fn, s1, s2, c, n, before>>
  BY <1>3 DEF Store, args, MemInv, WrittenInv
<1>5. WrittenInv'
  <2>1. ~Upwards' /\ Downwards'
    BY <1>1, <1>4 DEF Upwards, Downwards
  <2>2. memory' = Moved(i, n)'
    BY <1>4 DEF Moved
  <2> QED
    BY <1>4, <2>1, <2>2 DEF WrittenInv
<1> QED
  BY <1>1, <1>2, <1>5, StoreMemInv

(* A return changes nothing but the result.                                *)
LEMMA ReturnInv ==
  ASSUME MemInv, NEW value \in Int, Return(value), ResultsCorrect',
         Upwards => i = n, Downwards => i = 0, fn # "none"
  PROVE  MemInv'
<1>1. returned' = TRUE /\ result' = value /\ UNCHANGED <<memory, i, fn, s1, s2, c, n, before>>
  BY DEF Return, args
<1>2. MemTypeOK'
  <2>1. returned' \in BOOLEAN
    BY <1>1
  <2> QED
    BY <1>1, <2>1 DEF MemInv, MemTypeOK
<1>3. ArgumentsInv' /\ WrittenInv'
  BY <1>1 DEF MemInv, ArgumentsInv, Disjoint, WrittenInv, Upwards, Downwards, Moved
<1>4. StringsInv' /\ EqualInv'
  BY <1>1 DEF MemInv, StringsInv, EqualInv
<1> QED
  BY <1>2, <1>3, <1>4 DEF MemInv

LEMMA WritersMemInv ==
  ASSUME MemInv, memcpy \/ memset \/ memmove
  PROVE  MemInv'
<1>1. /\ s1 \in Addr /\ s2 \in Addr
      /\ s1 \in Int /\ s2 \in Int /\ i \in Nat /\ n \in Nat
  <2>1. s1 \in Addr /\ s2 \in Addr
    BY DEF MemInv, ArgumentsInv, memcpy, memset, memmove, Running
  <2> QED
    BY <2>1, AddrIsInt DEF MemInv, MemTypeOK
<1>2. ~returned /\ fn \in {"memcpy", "memset", "memmove"}
  BY DEF memcpy, memset, memmove, Running
<1>3. ASSUME Return(s1), Upwards => i = n, Downwards => i = 0
      PROVE  MemInv'
  <2>1. ResultsCorrect'
    BY <1>2, <1>3 DEF ResultsCorrect, Return, args
  <2> QED
    BY <1>1, <1>2, <1>3, <2>1, ReturnInv
<1>4. CASE memcpy
  <2>1. Upwards /\ ~Downwards /\ Source = before[s2 + i]
    BY <1>4 DEF memcpy, Running, Upwards, Downwards, Source
  <2>2. CASE i < n /\ Store(s1 + i, memory[s2 + i], i + 1)
    <3>1. s2 + i \in Addr /\ memory[s2 + i] = before[s2 + i]
      BY <1>2, <1>4, <2>2, SourceUntouched DEF memcpy, Running
    <3>2. before[s2 + i] \in Byte
      BY <3>1 DEF MemInv, MemTypeOK
    <3> QED
      BY <1>2, <2>1, <2>2, <3>1, <3>2, StoreUp
  <2>3. CASE i = n /\ Return(s1)
    BY <1>3, <2>1, <2>3
  <2> QED
    BY <1>4, <2>2, <2>3 DEF memcpy
<1>5. CASE memset
  <2>1. Upwards /\ ~Downwards /\ Source = c % (UCHAR_MAX + 1)
    BY <1>5 DEF memset, Running, Upwards, Downwards, Source
  <2>2. CASE i < n /\ Store(s1 + i, c % (UCHAR_MAX + 1), i + 1)
    <3>1. Source \in Byte
      BY <2>1, ByteOfInt DEF MemInv, MemTypeOK
    <3> QED
      BY <1>2, <2>1, <2>2, <3>1, StoreUp
  <2>3. CASE i = n /\ Return(s1)
    BY <1>3, <2>1, <2>3
  <2> QED
    BY <1>5, <2>2, <2>3 DEF memset
<1>6. CASE memmove
  <2>1. fn = "memmove"
    BY <1>6 DEF memmove, Running
  <2>2. CASE s2 > s1 /\ i < n /\ Store(s1 + i, memory[s2 + i], i + 1)
    <3>1. s2 + i \in Addr /\ memory[s2 + i] = before[s2 + i]
      BY <1>2, <2>1, <2>2, SourceUntouched
    <3>2. before[s2 + i] \in Byte /\ Source = before[s2 + i] /\ Upwards
      BY <2>1, <2>2, <3>1 DEF MemInv, MemTypeOK, Source, Upwards
    <3> QED
      BY <1>2, <2>2, <3>1, <3>2, StoreUp
  <2>3. CASE s2 < s1 /\ i > 0 /\ Store(s1 + i - 1, memory[s2 + i - 1], i - 1)
    <3>0. 0 < i
      BY <1>1, <2>3
    <3>1. s2 + i - 1 \in Addr /\ memory[s2 + i - 1] = before[s2 + i - 1]
      BY <2>1, <2>3, <3>0, SourceUntouchedDown
    <3>2. before[s2 + i - 1] \in Byte /\ Downwards
      BY <2>1, <2>3, <3>1 DEF MemInv, MemTypeOK, Downwards
    <3> QED
      BY <1>2, <2>3, <3>0, <3>1, <3>2, StoreDown
  <2>4. CASE s2 > s1 /\ i = n /\ Return(s1)
    <3>1. ~Downwards
      BY <1>1, <2>4 DEF Downwards
    <3> QED
      BY <1>3, <2>4, <3>1
  <2>5. CASE s2 < s1 /\ i = 0 /\ Return(s1)
    <3>1. ~Upwards
      BY <1>1, <2>1, <2>5 DEF Upwards
    <3> QED
      BY <1>3, <2>5, <3>1
  <2>6. CASE s2 = s1 /\ Return(s1)
    <3>1. ~Upwards /\ ~Downwards
      BY <1>1, <2>1, <2>6 DEF Upwards, Downwards
    <3> QED
      BY <1>3, <2>6, <3>1
  <2> QED
    BY <1>6, <2>2, <2>3, <2>4, <2>5, <2>6 DEF memmove
<1> QED
  BY <1>4, <1>5, <1>6

-----------------------------------------------------------------------------
(* The loops that read.                                                    *)

Readers == {"memcmp", "strlen", "strcmp"}

LEMMA ComparedInv ==
  ASSUME MemInv, fn \in Readers, ~returned, Compared(i + 1), i + 1 \in 0 .. Size,
         fn = "memcmp" => i < n, StringsInv', EqualInv'
  PROVE  MemInv'
<1>1. i' = i + 1 /\ UNCHANGED <<memory, returned, result, fn, s1, s2, c, n, before>>
  BY DEF Compared, args
<1>2. MemTypeOK'
  <2>1. returned' \in BOOLEAN
    BY <1>1, Zenon DEF MemInv, MemTypeOK
  <2> QED
    BY <1>1, <2>1 DEF MemInv, MemTypeOK
<1>3. ArgumentsInv'
  BY <1>1 DEF MemInv, MemTypeOK, ArgumentsInv, Readers
<1>4. WrittenInv' /\ ResultsCorrect'
  BY <1>1 DEF MemInv, WrittenInv, Upwards, Downwards, ResultsCorrect, Readers
<1> QED
  BY <1>2, <1>3, <1>4 DEF MemInv

LEMMA Inside ==
  ASSUME NEW p \in Addr, NEW k0 \in Nat, p + k0 \in Addr, NEW k \in 0 .. k0
  PROVE  p + k \in Addr
BY StdMemAssumption DEF Addr

LEMMA Irreflexive ==
  ASSUME MemTypeOK, NEW a \in Addr
  PROVE  ~(memory[a] < memory[a])
<1>1. memory[a] \in Int
  BY StdMemAssumption DEF MemTypeOK, Byte
<1> QED
  BY <1>1

(* The first difference decides.                                           *)
LEMMA FirstDifference ==
  ASSUME MemTypeOK, NEW p \in Addr, NEW q \in Addr, NEW len \in Nat, NEW k0 \in 0 .. len - 1,
         p + k0 \in Addr, q + k0 \in Addr,
         \A k \in 0 .. k0 - 1 : memory[p + k] = memory[q + k],
         memory[p + k0] # memory[q + k0]
  PROVE  Before(p, q, len) <=> memory[p + k0] < memory[q + k0]
<1>1. ASSUME Before(p, q, len) PROVE memory[p + k0] < memory[q + k0]
  <2>1. PICK k \in 0 .. len - 1 : /\ \A j \in 0 .. k - 1 : memory[p + j] = memory[q + j]
                                 /\ memory[p + k] < memory[q + k]
    BY <1>1 DEF Before
  <2>2. CASE k < k0
    <3>1. memory[p + k] = memory[q + k] /\ q + k \in Addr
      BY <2>2, Inside
    <3> QED
      BY <2>1, <3>1, Irreflexive
  <2>3. CASE k0 < k
    BY <2>1, <2>3
  <2>4. CASE k = k0
    BY <2>1, <2>4
  <2> QED
    BY <2>2, <2>3, <2>4
<1>2. ASSUME memory[p + k0] < memory[q + k0] PROVE Before(p, q, len)
  BY <1>2 DEF Before
<1> QED
  BY <1>1, <1>2

LEMMA NoDifference ==
  ASSUME MemTypeOK, NEW p \in Addr, NEW q \in Addr, NEW len \in Nat,
         p + len <= Size, q + len <= Size,
         \A k \in 0 .. len - 1 : memory[p + k] = memory[q + k]
  PROVE  ~Before(p, q, len)
<1> SUFFICES ASSUME NEW k \in 0 .. len - 1, memory[p + k] < memory[q + k]
             PROVE  FALSE
  BY DEF Before
<1>1. q + k \in Addr
  BY StdMemAssumption DEF Addr
<1> QED
  BY <1>1, Irreflexive

(* For strings, the first difference or the end of both.                   *)
LEMMA FirstOfStrings ==
  ASSUME MemTypeOK, NEW p \in Addr, NEW q \in Addr, NEW k0 \in Nat,
         p + k0 \in Addr, q + k0 \in Addr,
         \A k \in 0 .. k0 - 1 : memory[p + k] = memory[q + k] /\ memory[p + k] # 0,
         memory[p + k0] = 0 \/ memory[p + k0] # memory[q + k0]
  PROVE  StringBefore(p, q) <=> memory[p + k0] < memory[q + k0]
<1>1. ASSUME StringBefore(p, q) PROVE memory[p + k0] < memory[q + k0]
  <2>1. PICK k \in 0 .. Size - 1 :
          /\ p + k \in Addr /\ q + k \in Addr
          /\ \A j \in 0 .. k - 1 : memory[p + j] = memory[q + j] /\ memory[p + j] # 0
          /\ memory[p + k] < memory[q + k]
    BY <1>1 DEF StringBefore
  <2>2. CASE k < k0
    <3>1. memory[p + k] = memory[q + k]
      BY <2>2
    <3> QED
      BY <2>1, <3>1, Irreflexive
  <2>3. CASE k0 < k
    BY <2>1, <2>3
  <2>4. CASE k = k0
    BY <2>1, <2>4
  <2> QED
    BY <2>2, <2>3, <2>4, StdMemAssumption
<1>2. ASSUME memory[p + k0] < memory[q + k0] PROVE StringBefore(p, q)
  <2>1. k0 \in 0 .. Size - 1
    BY StdMemAssumption DEF Addr
  <2> QED
    BY <1>2, <2>1 DEF StringBefore
<1> QED
  BY <1>1, <1>2

(* Where a loop over strings is, there is a byte in front of it.           *)
LEMMA StringAhead ==
  ASSUME MemInv, fn \in {"strlen", "strcmp"}
  PROVE  /\ s1 + i \in Addr
         /\ memory[s1 + i] # 0 => i + 1 \in 0 .. Size
                                  /\ \E a \in Addr : a >= s1 + (i + 1) /\ memory[a] = 0
         /\ fn = "strcmp" => s2 + i \in Addr
         /\ fn = "strcmp" /\ memory[s2 + i] # 0 =>
               \E a \in Addr : a >= s2 + (i + 1) /\ memory[a] = 0
<1>1. s1 \in Addr /\ s2 \in Addr /\ i \in Nat
  BY DEF MemInv, ArgumentsInv, MemTypeOK
<1>2. PICK a \in Addr : a >= s1 + i /\ memory[a] = 0
  BY DEF MemInv, StringsInv
<1>3. s1 + i \in Addr
  BY <1>1, <1>2, StdMemAssumption DEF Addr
<1>4. ASSUME memory[s1 + i] # 0
      PROVE  i + 1 \in 0 .. Size /\ a >= s1 + (i + 1)
  <2>1. a # s1 + i
    BY <1>2, <1>4
  <2> QED
    BY <1>1, <1>2, <2>1, StdMemAssumption DEF Addr
<1>5. ASSUME fn = "strcmp"
      PROVE  /\ s2 + i \in Addr
             /\ memory[s2 + i] # 0 => \E b \in Addr : b >= s2 + (i + 1) /\ memory[b] = 0
  <2>1. PICK b \in Addr : b >= s2 + i /\ memory[b] = 0
    BY <1>5 DEF MemInv, StringsInv
  <2>2. s2 + i \in Addr
    BY <1>1, <2>1, StdMemAssumption DEF Addr
  <2>3. memory[s2 + i] # 0 => b >= s2 + (i + 1)
    <3>1. memory[s2 + i] # 0 => b # s2 + i
      BY <2>1
    <3> QED
      BY <1>1, <2>1, <3>1, StdMemAssumption DEF Addr
  <2> QED
    BY <2>1, <2>2, <2>3
<1> QED
  BY <1>2, <1>3, <1>4, <1>5

LEMMA StrlenMemInv ==
  ASSUME MemInv, strlen
  PROVE  MemInv'
<1>1. fn = "strlen" /\ ~returned /\ i \in Nat
  BY DEF strlen, Running, MemInv, MemTypeOK
<1>2. CASE memory[s1 + i] # 0 /\ Compared(i + 1)
  <2>1. i + 1 \in 0 .. Size /\ \E a \in Addr : a >= s1 + (i + 1) /\ memory[a] = 0
    BY <1>1, <1>2, StringAhead
  <2>2. i' = i + 1 /\ UNCHANGED <<memory, fn, s1, s2>>
    BY <1>2 DEF Compared, args
  <2>3. StringsInv'
    <3>1. \A k \in 0 .. (i + 1) - 1 : memory[s1 + k] # 0
      BY <1>1, <1>2 DEF MemInv, StringsInv
    <3> QED
      BY <1>1, <2>1, <2>2, <3>1 DEF StringsInv
  <2>4. EqualInv'
    BY <1>1, <2>2 DEF EqualInv
  <2> QED
    BY <1>1, <1>2, <2>1, <2>3, <2>4, ComparedInv DEF Readers
<1>3. CASE memory[s1 + i] = 0 /\ Return(i)
  <2>1. returned' = TRUE /\ result' = i /\ UNCHANGED <<memory, fn, s1>>
    BY <1>3 DEF Return, args
  <2>2. s1 + i \in Addr /\ \A k \in 0 .. i - 1 : memory[s1 + k] # 0
    BY <1>1, StringAhead DEF MemInv, StringsInv
  <2>3. ResultsCorrect'
    BY <1>1, <1>3, <2>1, <2>2 DEF ResultsCorrect
  <2> QED
    BY <1>1, <1>3, <2>3, ReturnInv DEF Upwards, Downwards
<1> QED
  BY <1>2, <1>3 DEF strlen

LEMMA MemcmpMemInv ==
  ASSUME MemInv, memcmp
  PROVE  MemInv'
<1>1. /\ fn = "memcmp" /\ ~returned /\ i \in Nat /\ n \in Nat /\ i <= n
      /\ s1 \in Addr /\ s2 \in Addr /\ s1 + n <= Size /\ s2 + n <= Size
      /\ \A k \in 0 .. i - 1 : memory[s1 + k] = memory[s2 + k]
  BY DEF memcmp, Running, MemInv, MemTypeOK, ArgumentsInv, EqualInv
<1>2. ASSUME i < n
      PROVE  s1 + i \in Addr /\ s2 + i \in Addr /\ i + 1 \in 0 .. Size
  BY <1>1, <1>2, StdMemAssumption DEF Addr
<1>3. CASE i < n /\ memory[s1 + i] = memory[s2 + i] /\ Compared(i + 1)
  <2>1. i' = i + 1 /\ UNCHANGED <<memory, fn, s1, s2>>
    BY <1>3 DEF Compared, args
  <2>2. \A k \in 0 .. (i + 1) - 1 : memory[s1 + k] = memory[s2 + k]
    BY <1>1, <1>3
  <2>3. EqualInv' /\ StringsInv'
    BY <1>1, <2>1, <2>2 DEF EqualInv, StringsInv
  <2> QED
    BY <1>1, <1>2, <1>3, <2>3, ComparedInv DEF Readers
<1>4. ASSUME i < n, memory[s1 + i] # memory[s2 + i],
             Return(IF memory[s1 + i] < memory[s2 + i] THEN -1 ELSE 1)
      PROVE  MemInv'
  <2> DEFINE value == IF memory[s1 + i] < memory[s2 + i] THEN -1 ELSE 1
  <2>1. /\ Before(s1, s2, n) <=> memory[s1 + i] < memory[s2 + i]
        /\ Before(s2, s1, n) <=> memory[s2 + i] < memory[s1 + i]
    <3>1. i \in 0 .. n - 1
      BY <1>1, <1>4
    <3> QED
      BY <1>1, <1>2, <1>4, <3>1, FirstDifference DEF MemInv
  <2>2. memory[s1 + i] \in Int /\ memory[s2 + i] \in Int
    BY <1>2, <1>4, StdMemAssumption DEF MemInv, MemTypeOK, Byte
  <2>3. (value < 0 <=> Before(s1, s2, n)) /\ (value > 0 <=> Before(s2, s1, n))
    BY <1>4, <2>1, <2>2
  <2>4. result' = value /\ UNCHANGED <<memory, fn, s1, s2, n>>
    BY <1>4 DEF Return, args
  <2>5. ResultsCorrect'
    BY <1>1, <2>3, <2>4 DEF ResultsCorrect, Before
  <2>6. value \in Int
    OBVIOUS
  <2> QED
    BY <1>1, <1>4, <2>5, <2>6, ReturnInv DEF Upwards, Downwards
<1>5. CASE i = n /\ Return(0)
  <2>1. ~Before(s1, s2, n) /\ ~Before(s2, s1, n)
    BY <1>1, <1>5, NoDifference DEF MemInv
  <2>2. result' = 0 /\ UNCHANGED <<memory, fn, s1, s2, n>>
    BY <1>5 DEF Return, args
  <2>3. ResultsCorrect'
    BY <1>1, <2>1, <2>2 DEF ResultsCorrect, Before
  <2> QED
    BY <1>1, <1>5, <2>3, ReturnInv DEF Upwards, Downwards
<1> QED
  BY <1>3, <1>4, <1>5 DEF memcmp

LEMMA StrcmpMemInv ==
  ASSUME MemInv, strcmp
  PROVE  MemInv'
<1>1. /\ fn = "strcmp" /\ ~returned /\ i \in Nat
      /\ s1 \in Addr /\ s2 \in Addr /\ s1 + i \in Addr /\ s2 + i \in Addr
      /\ \A k \in 0 .. i - 1 : memory[s1 + k] = memory[s2 + k]
      /\ \A k \in 0 .. i - 1 : memory[s1 + k] # 0
      /\ \A k \in 0 .. i - 1 : memory[s2 + k] # 0
  BY StringAhead DEF strcmp, Running, MemInv, MemTypeOK, ArgumentsInv, EqualInv, StringsInv
<1> DEFINE x == memory[s1 + i]
           y == memory[s2 + i]
<1>2. x \in Int /\ y \in Int
  BY <1>1, StdMemAssumption DEF MemInv, MemTypeOK, Byte
<1>3. CASE x # 0 /\ x = y /\ Compared(i + 1)
  <2>1. i' = i + 1 /\ UNCHANGED <<memory, fn, s1, s2>>
    BY <1>3 DEF Compared, args
  <2>2. /\ i + 1 \in 0 .. Size
        /\ \E a \in Addr : a >= s1 + (i + 1) /\ memory[a] = 0
        /\ \E a \in Addr : a >= s2 + (i + 1) /\ memory[a] = 0
    BY <1>1, <1>3, StringAhead
  <2>3. /\ \A k \in 0 .. (i + 1) - 1 : memory[s1 + k] # 0
        /\ \A k \in 0 .. (i + 1) - 1 : memory[s2 + k] # 0
        /\ \A k \in 0 .. (i + 1) - 1 : memory[s1 + k] = memory[s2 + k]
    BY <1>1, <1>3
  <2>4. StringsInv' /\ EqualInv'
    BY <1>1, <2>1, <2>2, <2>3 DEF StringsInv, EqualInv
  <2> QED
    BY <1>1, <1>3, <2>2, <2>4, ComparedInv DEF Readers
<1>4. ASSUME x = 0 \/ x # y, Return(x - y)
      PROVE  MemInv'
  <2>1. StringBefore(s1, s2) <=> x < y
    BY <1>1, <1>4, FirstOfStrings DEF MemInv
  <2>2. StringBefore(s2, s1) <=> y < x
    <3>1. y = 0 \/ y # x
      BY <1>4
    <3> QED
      BY <1>1, <3>1, FirstOfStrings DEF MemInv
  <2>3. (x - y < 0 <=> StringBefore(s1, s2)) /\ (x - y > 0 <=> StringBefore(s2, s1))
    BY <1>2, <2>1, <2>2
  <2>4. result' = x - y /\ UNCHANGED <<memory, fn, s1, s2>>
    BY <1>4 DEF Return, args
  <2>5. ResultsCorrect'
    BY <1>1, <2>3, <2>4 DEF ResultsCorrect, StringBefore
  <2>6. x - y \in Int
    BY <1>2
  <2> QED
    BY <1>1, <1>4, <2>5, <2>6, ReturnInv DEF Upwards, Downwards
<1> QED
  BY <1>3, <1>4 DEF strcmp

-----------------------------------------------------------------------------

LEMMA MemInvariant == MemSpec => []MemInv
<1>1. ASSUME MemInv, [MemNext]_mem_vars
      PROVE  MemInv'
  <2>1. CASE memcpy \/ memset \/ memmove
    BY <1>1, <2>1, WritersMemInv
  <2>2. CASE memcmp
    BY <1>1, <2>2, MemcmpMemInv
  <2>3. CASE strlen
    BY <1>1, <2>3, StrlenMemInv
  <2>4. CASE strcmp
    BY <1>1, <2>4, StrcmpMemInv
  <2>5. CASE MemReturn
    BY <1>1, <2>5, ReturnMemInv
  <2>6. ASSUME NEW f \in Functions, MemCall(f)
        PROVE  MemInv'
    BY <1>1, <2>6, CallMemInv
  <2>7. CASE UNCHANGED mem_vars
    <3>1. UNCHANGED <<memory, fn, s1, s2, c, n, i, returned, result, before>>
      BY <2>7 DEF mem_vars, args
    <3>2. MemTypeOK' /\ ArgumentsInv'
      BY <1>1, <3>1 DEF MemInv, MemTypeOK, ArgumentsInv, Disjoint
    <3>3. WrittenInv' /\ StringsInv' /\ EqualInv'
      BY <1>1, <3>1 DEF MemInv, WrittenInv, Upwards, Downwards, Moved, StringsInv, EqualInv
    <3>4. ResultsCorrect'
      BY <1>1, <3>1 DEF MemInv, ResultsCorrect, Before, StringBefore
    <3> QED
      BY <3>2, <3>3, <3>4 DEF MemInv
  <2> QED
    BY <1>1, <2>1, <2>2, <2>3, <2>4, <2>5, <2>6, <2>7 DEF MemNext, MemStep
<1> QED
  BY <1>1, InitMemInv, PTL DEF MemSpec

(* Whatever the sizes, memcpy, memmove and memset write exactly what they  *)
(* should, for every overlap that C allows them.                           *)
THEOREM WritesCorrect == MemSpec => []WritesExactly
<1>1. MemInv => WritesExactly
  <2> SUFFICES ASSUME MemInv PROVE WritesExactly
    OBVIOUS
  <2>0. /\ n \in Nat
        /\ fn # "none" => s1 \in Addr /\ s2 \in Addr /\ s1 \in Int /\ s2 \in Int
    BY AddrIsInt DEF MemInv, MemTypeOK, ArgumentsInv
  <2>1. ASSUME fn \in {"memcpy", "memmove", "memset"}, returned
        PROVE  memory = Meant
    <3>1. Meant = Moved(0, n)
      BY <2>0, <2>1 DEF Meant, Moved
    <3>2. CASE Upwards
      BY <2>1, <3>1, <3>2 DEF MemInv, WrittenInv
    <3>3. CASE Downwards
      BY <2>1, <3>1, <3>3 DEF MemInv, WrittenInv
    <3>4. CASE ~Upwards /\ ~Downwards
      <4>1. fn = "memmove" /\ s1 = s2
        BY <2>0, <2>1, <3>4 DEF Upwards, Downwards
      <4>2. memory = before /\ before \in [Addr -> Byte]
        BY <3>4 DEF MemInv, WrittenInv, MemTypeOK
      <4>3. \A a \in Addr : s2 + a - s1 = a
        BY <2>0, <4>1, AddrIsInt
      <4>4. Meant = [a \in Addr |-> before[a]]
        BY <4>1, <4>3 DEF Meant
      <4> QED
        BY <4>2, <4>4
    <3> QED
      BY <3>2, <3>3, <3>4
  <2>2. fn \in {"memcmp", "strlen", "strcmp"} => memory = before
    BY DEF MemInv, WrittenInv, Upwards, Downwards
  <2> QED
    BY <2>1, <2>2 DEF WritesExactly
<1> QED
  BY <1>1, MemInvariant, PTL

(* Whatever the sizes, memcmp, strlen and strcmp find what they look for.  *)
THEOREM ResultsFound == MemSpec => []ResultsCorrect
<1>1. MemInv => ResultsCorrect
  BY DEF MemInv
<1> QED
  BY <1>1, MemInvariant, PTL

(* Strings are read up to their ends.                                      *)
THEOREM StringsReadInside == MemSpec => []ReadsInside
<1>1. MemInv => ReadsInside
  BY DEF MemInv, StringsInv, ReadsInside, Running
<1> QED
  BY <1>1, MemInvariant, PTL

(* The loops stay in the memory.                                           *)
THEOREM MemTypeCorrect == MemSpec => []MemTypeOK
<1>1. MemInv => MemTypeOK
  BY DEF MemInv
<1> QED
  BY <1>1, MemInvariant, PTL
=============================================================================
