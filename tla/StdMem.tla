------------------------------- MODULE StdMem -------------------------------
(***************************************************************************)
(* The loops of stdmem.c over a small memory, one action per iteration.  A *)
(* call has the arguments that C allows; the memory holds anything that    *)
(* its callers may have written there before.                              *)
(***************************************************************************)
EXTENDS Integers

CONSTANTS
  Size,     \* cells of memory
  UCHAR_MAX

ASSUME StdMemAssumption == Size \in Nat /\ UCHAR_MAX \in Nat

Addr == 0 .. Size - 1
Byte == 0 .. UCHAR_MAX

VARIABLES
  memory,
  fn,        \* the function that runs, or "none"
  s1, s2,    \* its pointers: dest and src, or s1 and s2
  c, n,      \* the arguments c of memset, and n
  i,         \* its loop variable
  returned,  \* it has returned, with result
  result,
  before     \* history: the memory at the call

args == <<fn, s1, s2, c, n, before>>
mem_vars == <<memory, i, returned, result, args>>

Zeros == [a \in Addr |-> 0]

MemInit ==
  /\ memory = Zeros /\ before = Zeros
  /\ fn = "none" /\ s1 = 0 /\ s2 = 0 /\ c = 0 /\ n = 0 /\ i = 0
  /\ returned = FALSE /\ result = 0

(* A string ends inside the memory.                                        *)
IsString(s) == \E a \in Addr : a >= s /\ memory[a] = 0

Disjoint(p, q, len) == p + len <= q \/ q + len <= p

(* Where the loop over dest and src begins.                                *)
FirstIndex(f, dest, src, len) == IF f = "memmove" /\ src < dest THEN len ELSE 0

MemCall(f) ==
  /\ fn = "none"
  /\ memory' \in [Addr -> Byte]
  /\ s1' \in Addr /\ s2' \in Addr
  /\ n' \in 0 .. Size /\ s1' + n' <= Size
  /\ f \in {"memcpy", "memmove", "memcmp"} => s2' + n' <= Size
  /\ f = "memcpy" => s1' = s2' \/ Disjoint(s1', s2', n')
  /\ f \in {"strlen", "strcmp"} => IsString(s1)' /\ n' = 0
  /\ f = "strcmp" => IsString(s2)'
  /\ f \in {"memset", "strlen"} => s2' = s1'
  /\ c' \in IF f = "memset" THEN -1 .. UCHAR_MAX + 1 ELSE {0}
  /\ fn' = f
  /\ i' = FirstIndex(f, s1', s2', n')
  /\ before' = memory'
  /\ UNCHANGED <<returned, result>>

Running(f) == fn = f /\ ~returned

Return(value) ==
  /\ returned' = TRUE
  /\ result' = value
  /\ UNCHANGED <<memory, i, args>>

Store(a, byte, next) ==
  /\ memory' = [memory EXCEPT ![a] = byte]
  /\ i' = next
  /\ UNCHANGED <<returned, result, args>>

Compared(next) == i' = next /\ UNCHANGED <<memory, returned, result, args>>

-----------------------------------------------------------------------------
memcpy ==
  /\ Running("memcpy")
  /\ \/ i < n /\ Store(s1 + i, memory[s2 + i], i + 1)
     \/ i = n /\ Return(s1)

(* Mutant: an int that is no byte is stored as it is.                      *)
MemsetWide ==
  /\ Running("memset")
  /\ \/ i < n /\ Store(s1 + i, c, i + 1)
     \/ i = n /\ Return(s1)

(* (uint8_t)c.                                                             *)
memset ==
  /\ Running("memset")
  /\ \/ i < n /\ Store(s1 + i, c % (UCHAR_MAX + 1), i + 1)
     \/ i = n /\ Return(s1)

(* Mutant: upwards, whatever the overlap.                                  *)
MemmoveUpwards ==
  /\ Running("memmove")
  /\ \/ i < n /\ Store(s1 + i, memory[s2 + i], i + 1)
     \/ i >= n /\ Return(s1)

(* Upwards when src lies behind dest, downwards when it lies before.       *)
memmove ==
  /\ Running("memmove")
  /\ \/ s2 > s1 /\ i < n /\ Store(s1 + i, memory[s2 + i], i + 1)
     \/ s2 < s1 /\ i > 0 /\ Store(s1 + i - 1, memory[s2 + i - 1], i - 1)
     \/ s2 > s1 /\ i = n /\ Return(s1)
     \/ s2 < s1 /\ i = 0 /\ Return(s1)
     \/ s2 = s1 /\ Return(s1)

memcmp ==
  /\ Running("memcmp")
  /\ \/ i < n /\ memory[s1 + i] = memory[s2 + i] /\ Compared(i + 1)
     \/ i < n /\ memory[s1 + i] # memory[s2 + i]
              /\ Return(IF memory[s1 + i] < memory[s2 + i] THEN -1 ELSE 1)
     \/ i = n /\ Return(0)

(* Mutant: the loop tests the character and does not count it.             *)
StrlenStuck ==
  /\ Running("strlen")
  /\ \/ memory[s1 + i] # 0 /\ Compared(i)
     \/ memory[s1 + i] = 0 /\ Return(i)

strlen ==
  /\ Running("strlen")
  /\ \/ memory[s1 + i] # 0 /\ Compared(i + 1)
     \/ memory[s1 + i] = 0 /\ Return(i)

(* Mutant: the end of s1 does not end the loop, unless s2 is there too or  *)
(* the memory ends.                                                        *)
StrcmpPastEnd ==
  /\ Running("strcmp")
  /\ LET x == memory[s1 + i]
         y == memory[s2 + i]
     IN  \/ x = y /\ s1 + i + 1 \in Addr /\ s2 + i + 1 \in Addr /\ Compared(i + 1)
         \/ x # y /\ Return(x - y)

(* Mutant: a string equals those that it begins.                           *)
StrcmpPrefix ==
  /\ Running("strcmp")
  /\ LET x == memory[s1 + i]
         y == memory[s2 + i]
     IN  \/ x # 0 /\ x = y /\ Compared(i + 1)
         \/ x = 0 /\ Return(0)
         \/ x # 0 /\ x # y /\ Return(x - y)

strcmp ==
  /\ Running("strcmp")
  /\ LET x == memory[s1 + i]
         y == memory[s2 + i]
     IN  \/ x # 0 /\ x = y /\ Compared(i + 1)
         \/ (x = 0 \/ x # y) /\ Return(x - y)

-----------------------------------------------------------------------------
(* The caller takes the result.  Nothing is kept from call to call: a call *)
(* finds any contents of the memory.                                       *)
MemReturn ==
  /\ returned
  /\ memory' = Zeros /\ before' = Zeros
  /\ fn' = "none" /\ s1' = 0 /\ s2' = 0 /\ c' = 0 /\ n' = 0 /\ i' = 0
  /\ returned' = FALSE /\ result' = 0

MemStep == memcpy \/ memset \/ memmove \/ memcmp \/ strlen \/ strcmp

Functions == {"memcpy", "memset", "memmove", "memcmp", "strlen", "strcmp"}

MemNext == MemStep \/ MemReturn \/ \E f \in Functions : MemCall(f)

MemSpec == MemInit /\ [][MemNext]_mem_vars

-----------------------------------------------------------------------------
(* Properties.                                                             *)

MemTypeOK ==
  /\ memory \in [Addr -> Byte] /\ before \in [Addr -> Byte]
  /\ fn \in Functions \cup {"none"}
  /\ s1 \in 0 .. Size /\ s2 \in 0 .. Size /\ n \in 0 .. Size /\ i \in 0 .. Size
  /\ c \in Int /\ result \in Int /\ returned \in BOOLEAN

(* What a function that writes has done when it returns: the n bytes at s1 *)
(* are those that were at s2 at the call, however the two overlap, or c as *)
(* a byte; and no other byte has changed.                                  *)
Meant ==
  [a \in Addr |->
     IF a < s1 \/ a >= s1 + n THEN before[a]
     ELSE IF fn = "memset" THEN c % (UCHAR_MAX + 1)
     ELSE before[s2 + a - s1]]

WritesExactly ==
  /\ fn \in {"memcpy", "memmove", "memset"} /\ returned => memory = Meant
  /\ fn \in {"memcmp", "strlen", "strcmp"} => memory = before

(* Strings are read up to their end and not beyond.                        *)
ReadsInside ==
  /\ Running("strlen") => \A k \in 0 .. i - 1 : memory[s1 + k] # 0
  /\ Running("strcmp") => \A k \in 0 .. i - 1 : memory[s1 + k] # 0 /\ memory[s2 + k] # 0

(* The first len bytes at p come before those at q, as unsigned values.    *)
Before(p, q, len) ==
  \E k \in 0 .. len - 1 :
    /\ \A j \in 0 .. k - 1 : memory[p + j] = memory[q + j]
    /\ memory[p + k] < memory[q + k]

(* The string at p comes before the one at q; the terminators take part,   *)
(* so that a string comes before its continuations.                        *)
StringBefore(p, q) ==
  \E k \in 0 .. Size - 1 :
    /\ p + k \in Addr /\ q + k \in Addr
    /\ \A j \in 0 .. k - 1 : memory[p + j] = memory[q + j] /\ memory[p + j] # 0
    /\ memory[p + k] < memory[q + k]

(* The results of the functions that read: the distance to the first       *)
(* terminator, and the order of the first bytes that differ, by its sign.  *)
ResultsCorrect ==
  returned =>
    /\ fn = "strlen" => /\ s1 + result \in Addr /\ memory[s1 + result] = 0
                        /\ \A k \in 0 .. result - 1 : memory[s1 + k] # 0
    /\ fn = "memcmp" => /\ result < 0 <=> Before(s1, s2, n)
                        /\ result > 0 <=> Before(s2, s1, n)
    /\ fn = "strcmp" => /\ result < 0 <=> StringBefore(s1, s2)
                        /\ result > 0 <=> StringBefore(s2, s1)
=============================================================================
