----------------------------- MODULE FormatProofs ---------------------------
(***************************************************************************)
(* Proofs about Format for every width of an int, and every format with    *)
(* the arguments that C asks for.                                          *)
(*                                                                         *)
(* What is printed is followed directive by directive (Flat), and each     *)
(* number from its last digit on: dividing by the base again and again is  *)
(* dividing by its powers.                                                 *)
(***************************************************************************)
EXTENDS Format, SequenceTheorems, FiniteSetTheorems, WellFoundedInduction, TLAPS

-----------------------------------------------------------------------------
(* What printf prints, which for INT_MIN may be any of three texts, and    *)
(* for a pointer is the lower half.  The proofs follow this text for every *)
(* call; at the end it is compared with what the call means.               *)

IntMinTexts == OverflowTexts \cup {<<"-">> \o Numeral(-INT_MIN, 10, LowerDigits)}

PrintedExpansion(specifier, argument, overflow) ==
  IF specifier \in {"d", "i"}
  THEN IF argument = INT_MIN THEN overflow
       ELSE IF argument < 0 THEN <<"-">> \o Numeral(-argument, 10, LowerDigits)
       ELSE Numeral(argument, 10, LowerDigits)
  ELSE IF specifier = "u" THEN Numeral(argument, 10, LowerDigits)
  ELSE IF specifier = "x" THEN Numeral(argument, 16, LowerDigits)
  ELSE IF specifier = "X" THEN Numeral(argument, 16, UpperDigits)
  ELSE IF specifier = "p" THEN <<"0", "x">> \o Numeral(argument % UINT, 16, LowerDigits)
  ELSE IF specifier = "c" THEN <<argument>>
  ELSE IF argument = NULL THEN <<"(", "n", "u", "l", "l", ")">>
  ELSE argument

PrintedPiece(f, supplied, overflow, k) ==
  IF Takes(f, k) THEN PrintedExpansion(f[k + 1], supplied[Nth(f, k)], overflow)
  ELSE IF Starts(f, k) THEN IF f[k + 1] = "%" THEN <<"%">> ELSE <<"%", f[k + 1]>>
  ELSE IF k > 1 /\ Starts(f, k - 1) THEN <<>>
  ELSE <<f[k]>>

(* overflows: the text for INT_MIN, which need not be the same every time. *)
PrintedMeaning(f, supplied, overflows) ==
  FlattenSeq([k \in 1 .. Len(f) |-> PrintedPiece(f, supplied, overflows[k], k)])

-----------------------------------------------------------------------------
(* Induction on the natural numbers, for a set in the place of a           *)
(* predicate.                                                              *)

LEMMA LeastNat ==
  ASSUME NEW T, T \subseteq Nat, T # {}
  PROVE  \E x \in T : \A y \in T : x <= y
<1>1. PICK x \in T : \A y \in T : <<y, x>> \notin OpToRel(<, Nat)
  BY NatLessThanWellFounded, WFMin
<1>2. \A y \in T : <<y, x>> \in Nat \X Nat
  OBVIOUS
<1>3. \A y \in T : ~(y < x)
  BY <1>1, <1>2 DEF OpToRel
<1> QED
  BY <1>3

LEMMA SetInduction ==
  ASSUME NEW S, 0 \in S, \A n \in Nat : n \in S => n + 1 \in S
  PROVE  Nat \subseteq S
<1> SUFFICES ASSUME Nat \ S # {} PROVE FALSE
  OBVIOUS
<1>1. PICK x \in Nat \ S : \A y \in Nat \ S : x <= y
  BY LeastNat
<1>2. x - 1 \in Nat /\ x - 1 \in S
  BY <1>1
<1> QED
  BY <1>1, <1>2

-----------------------------------------------------------------------------
(* Powers.                                                                 *)

Powers(p, b, m) == p = [n \in 0 .. m |-> IF n = 0 THEN 1 ELSE b * p[n - 1]]

LEMMA PowersSteps ==
  ASSUME NEW p, NEW b, NEW m \in Nat, Powers(p, b, m)
  PROVE  p[0] = 1 /\ \A n \in 1 .. m : p[n] = b * p[n - 1]
<1>1. \A n \in 0 .. m : p[n] = IF n = 0 THEN 1 ELSE b * p[n - 1]
  BY DEF Powers
<1> QED
  BY <1>1

LEMMA PowersExist ==
  ASSUME NEW b, NEW m \in Nat
  PROVE  \E p : Powers(p, b, m)
<1> DEFINE S == {k \in Nat : \E p : Powers(p, b, k)}
<1>1. 0 \in S
  <2>1. Powers([n \in 0 .. 0 |-> 1], b, 0)
    BY DEF Powers
  <2> QED
    BY <2>1
<1>2. ASSUME NEW k \in Nat, k \in S PROVE k + 1 \in S
  <2>1. PICK p : Powers(p, b, k)
    BY <1>2
  <2>2. p[0] = 1 /\ \A n \in 1 .. k : p[n] = b * p[n - 1]
    BY <2>1, PowersSteps
  <2> DEFINE next == b * p[k]
             q == [n \in 0 .. k + 1 |-> IF n <= k THEN p[n] ELSE next]
  <2>3. next = b * p[k]
    OBVIOUS
  <2>4. ASSUME NEW n \in 0 .. k + 1
        PROVE  q[n] = IF n = 0 THEN 1 ELSE b * q[n - 1]
    <3>1. CASE n = 0
      BY <2>2, <3>1
    <3>2. CASE n \in 1 .. k
      <4>1. q[n] = p[n] /\ q[n - 1] = p[n - 1] /\ n # 0
        BY <3>2
      <4> QED
        BY <2>2, <3>2, <4>1
    <3>3. CASE n = k + 1
      <4> HIDE DEF next
      <4>1. q[n] = next /\ q[n - 1] = p[k] /\ n # 0
        BY <3>3
      <4> QED
        BY <2>3, <4>1
    <3> QED
      BY <3>1, <3>2, <3>3
  <2> HIDE DEF next
  <2>5. Powers(q, b, k + 1)
    BY <2>4 DEF Powers
  <2> QED
    BY <2>5
<1> HIDE DEF S
<1>3. Nat \subseteq S
  BY <1>1, <1>2, SetInduction
<1> QED
  BY <1>3 DEF S

LEMMA PowerSteps ==
  ASSUME NEW b
  PROVE  Power(b)[0] = 1 /\ \A n \in 1 .. IntBits : Power(b)[n] = b * Power(b)[n - 1]
<1> DEFINE p == CHOOSE q : Powers(q, b, IntBits)
<1>1. Power(b) = p
  BY DEF Power, Powers
<1>2. IntBits \in Nat
  BY FormatAssumption
<1>3. Powers(p, b, IntBits)
  BY <1>2, PowersExist
<1> HIDE DEF p
<1>4. p[0] = 1 /\ \A n \in 1 .. IntBits : p[n] = b * p[n - 1]
  BY <1>2, <1>3, PowersSteps
<1> QED
  BY <1>1, <1>4

LEMMA PowerType ==
  ASSUME NEW b \in Nat \ {0}, NEW n \in 0 .. IntBits
  PROVE  Power(b)[n] \in Nat \ {0}
<1>1. IntBits \in Nat
  BY FormatAssumption
<1> DEFINE S == {k \in Nat : k <= IntBits => Power(b)[k] \in Nat \ {0}}
<1>2. 0 \in S
  BY PowerSteps
<1>3. ASSUME NEW k \in Nat, k \in S PROVE k + 1 \in S
  <2> SUFFICES ASSUME k + 1 <= IntBits PROVE Power(b)[k + 1] \in Nat \ {0}
    OBVIOUS
  <2>1. k + 1 \in 1 .. IntBits /\ (k + 1) - 1 = k
    BY <1>1
  <2>2. Power(b)[k + 1] = b * Power(b)[k]
    BY <2>1, PowerSteps
  <2>3. Power(b)[k] \in Nat \ {0}
    BY <1>1, <1>3
  <2> DEFINE p == Power(b)[k]
  <2> HIDE DEF p
  <2>4. \A q \in Nat \ {0} : b * q \in Nat \ {0}
    OBVIOUS
  <2> QED
    BY <2>2, <2>3, <2>4
<1> HIDE DEF S
<1>4. Nat \subseteq S
  BY <1>2, <1>3, SetInduction
<1> QED
  BY <1>1, <1>4 DEF S

LEMMA PowerGrows ==
  ASSUME NEW b \in Nat \ {0}, NEW m \in 0 .. IntBits, NEW n \in 0 .. m
  PROVE  Power(b)[n] <= Power(b)[m]
<1>1. IntBits \in Nat
  BY FormatAssumption
<1> DEFINE S == {k \in Nat : n + k <= IntBits => Power(b)[n] <= Power(b)[n + k]}
<1>2. 0 \in S
  <2>1. Power(b)[n] \in Nat /\ n + 0 = n
    BY <1>1, PowerType
  <2> QED
    BY <2>1
<1>3. ASSUME NEW k \in Nat, k \in S PROVE k + 1 \in S
  <2> SUFFICES ASSUME n + (k + 1) <= IntBits PROVE Power(b)[n] <= Power(b)[n + (k + 1)]
    OBVIOUS
  <2>1. /\ n + (k + 1) \in 1 .. IntBits /\ (n + (k + 1)) - 1 = n + k
        /\ n + k \in 0 .. IntBits /\ n \in 0 .. IntBits /\ n + (k + 1) \in 0 .. IntBits
    BY <1>1
  <2>2. Power(b)[n + (k + 1)] = b * Power(b)[n + k]
    BY <2>1, PowerSteps
  <2>3. Power(b)[n] <= Power(b)[n + k]
    BY <1>3, <2>1
  <2>4. Power(b)[n] \in Nat /\ Power(b)[n + k] \in Nat
    BY <2>1, PowerType
  <2>5. \A q \in Nat : q <= b * q /\ b * q \in Nat
    OBVIOUS
  <2> QED
    BY <2>2, <2>3, <2>4, <2>5
<1> HIDE DEF S
<1>4. Nat \subseteq S
  BY <1>2, <1>3, SetInduction
<1>5. m - n \in S /\ n + (m - n) = m /\ m <= IntBits
  BY <1>1, <1>4
<1> QED
  BY <1>5 DEF S

(* A digit in base 10 or 16 stands for more than three bits.               *)
LEMMA PowerBeatsBits ==
  ASSUME NEW b \in {10, 16}, NEW n \in 1 .. IntBits
  PROVE  4 * Power(2)[n] <= Power(b)[n]
<1>1. IntBits \in Nat /\ b \in Nat \ {0} /\ 2 \in Nat \ {0}
  BY FormatAssumption
<1> DEFINE S == {k \in Nat : k + 1 <= IntBits => 4 * Power(2)[k + 1] <= Power(b)[k + 1]}
<1>2. ASSUME NEW c, NEW k \in Nat, k + 1 <= IntBits PROVE Power(c)[k + 1] = c * Power(c)[k]
  <2>1. k + 1 \in 1 .. IntBits /\ (k + 1) - 1 = k
    BY <1>1, <1>2
  <2> QED
    BY <2>1, PowerSteps
<1>3. 0 \in S
  <2> SUFFICES ASSUME 0 + 1 <= IntBits PROVE 4 * Power(2)[0 + 1] <= Power(b)[0 + 1]
    OBVIOUS
  <2>1. Power(2)[0 + 1] = 2 * 1 /\ Power(b)[0 + 1] = b * 1
    BY <1>2, PowerSteps
  <2>2. b >= 10
    OBVIOUS
  <2> QED
    BY <1>1, <2>1, <2>2
<1>4. ASSUME NEW k \in Nat, k \in S PROVE k + 1 \in S
  <2> SUFFICES ASSUME (k + 1) + 1 <= IntBits
               PROVE  4 * Power(2)[(k + 1) + 1] <= Power(b)[(k + 1) + 1]
    OBVIOUS
  <2>1. k + 1 \in 0 .. IntBits /\ k + 1 \in Nat
    BY <1>1
  <2>2. Power(2)[(k + 1) + 1] = 2 * Power(2)[k + 1] /\ Power(b)[(k + 1) + 1] = b * Power(b)[k + 1]
    BY <1>2, <2>1
  <2>3. Power(2)[k + 1] \in Nat /\ Power(b)[k + 1] \in Nat
    BY <1>1, <2>1, PowerType
  <2>4. 4 * Power(2)[k + 1] <= Power(b)[k + 1]
    BY <1>1, <1>4, <2>1
  <2>5. \A q \in Nat : 2 * q <= b * q
    OBVIOUS
  <2>6. \A p, q \in Nat : 4 * p <= q => 4 * (2 * p) <= b * q
    <3> SUFFICES ASSUME NEW p \in Nat, NEW q \in Nat, 4 * p <= q PROVE 4 * (2 * p) <= b * q
      OBVIOUS
    <3>1. 2 * q <= b * q /\ b * q \in Nat
      BY <2>5
    <3> QED
      BY <3>1
  <2> QED
    BY <2>2, <2>3, <2>4, <2>6
<1> HIDE DEF S
<1>5. Nat \subseteq S
  BY <1>3, <1>4, SetInduction
<1>6. n - 1 \in S /\ (n - 1) + 1 = n
  BY <1>1, <1>5
<1> QED
  BY <1>1, <1>6 DEF S

-----------------------------------------------------------------------------
(* Division.                                                               *)

LEMMA Quotients ==
  ASSUME NEW v \in Nat, NEW m \in Nat \ {0}
  PROVE  /\ v \div m \in Nat /\ v % m \in 0 .. m - 1
         /\ v = m * (v \div m) + (v % m)
OBVIOUS

LEMMA QuotientUnique ==
  ASSUME NEW m \in Nat \ {0}, NEW q \in Nat, NEW r \in 0 .. m - 1
  PROVE  (m * q + r) \div m = q
<1> DEFINE v == m * q + r
           p == v \div m
           s == v % m
<1>1. v \in Nat
  OBVIOUS
<1> HIDE DEF v
<1>2. p \in Nat /\ s \in 0 .. m - 1 /\ v = m * p + s
  BY <1>1, Quotients
<1> HIDE DEF p, s
<1>3. ASSUME NEW x \in Nat, NEW y \in Nat, NEW t \in 0 .. m - 1, NEW u \in 0 .. m - 1,
             m * x + t = m * y + u, x < y
      PROVE  FALSE
  <2>1. y - x - 1 \in Nat
    BY <1>3
  <2>2. m * (y - x - 1) \in Nat /\ m * x \in Int /\ m * y \in Int
    BY <2>1
  <2>3. m * y = m * x + m + m * (y - x - 1)
    OBVIOUS
  <2> QED
    BY <1>3, <2>2, <2>3
<1>4. m * p + s = m * q + r
  BY <1>2 DEF v
<1>5. p = q
  BY <1>2, <1>3, <1>4
<1> QED
  BY <1>5 DEF p, v

(* Dividing twice is dividing by the product.                              *)
LEMMA QuotientTwice ==
  ASSUME NEW v \in Nat, NEW m \in Nat \ {0}, NEW b \in Nat \ {0}
  PROVE  (v \div m) \div b = v \div (b * m) /\ b * m \in Nat \ {0}
<1> DEFINE q == v \div m
           r == v % m
           p == q \div b
           s == q % b
<1>1. q \in Nat /\ r \in 0 .. m - 1 /\ v = m * q + r
  BY Quotients
<1> HIDE DEF q, r
<1>2. p \in Nat /\ s \in 0 .. b - 1 /\ q = b * p + s
  BY <1>1, Quotients
<1> HIDE DEF p, s
<1>3. v = (b * m) * p + (m * s + r)
  BY <1>1, <1>2
<1>4. m * s + r \in 0 .. b * m - 1
  <2>1. m * s \in Nat /\ m * (b - 1 - s) \in Nat
    BY <1>2
  <2>2. b * m = m * s + m + m * (b - 1 - s)
    BY <1>2
  <2> QED
    BY <1>1, <2>1, <2>2
<1>5. b * m \in Nat \ {0}
  OBVIOUS
<1> DEFINE n == b * m
           t == m * s + r
<1>6. n \in Nat \ {0} /\ t \in 0 .. n - 1 /\ v = n * p + t
  BY <1>3, <1>4, <1>5
<1> HIDE DEF n, t
<1>7. v \div n = p
  BY <1>2, <1>6, QuotientUnique
<1> QED
  BY <1>5, <1>7 DEF n, p, q

LEMMA QuotientBelow ==
  ASSUME NEW v \in Nat, NEW m \in Nat \ {0}
  PROVE  /\ v \div m = 0 <=> v < m
         /\ v \div m <= v
<1> DEFINE q == v \div m
           r == v % m
<1>1. q \in Nat /\ r \in 0 .. m - 1 /\ v = m * q + r
  BY Quotients
<1> HIDE DEF q, r
<1>2. q = 0 => v < m
  BY <1>1
<1>3. \A x \in Nat \ {0} : m * x >= m /\ m * x >= x /\ m * x \in Nat
  OBVIOUS
<1>4. q # 0 => v >= m
  BY <1>1, <1>3
<1>5. q <= v
  BY <1>1, <1>3
<1> QED
  BY <1>2, <1>4, <1>5 DEF q

-----------------------------------------------------------------------------
(* Numerals.                                                               *)

LEMMA Bits == IntBits \in Nat /\ IntBits >= 4
BY FormatAssumption

LEMMA IntRange ==
  UINT \in Nat /\ UINT = 2 * (-INT_MIN) /\ -INT_MIN \in Nat \ {0} /\ INT_MIN \in Int
<1> DEFINE p == Power(2)[IntBits - 1]
<1>1. IntBits \in 1 .. IntBits /\ IntBits - 1 \in 0 .. IntBits /\ 2 \in Nat \ {0}
  BY Bits
<1>2. Power(2)[IntBits] = 2 * p
  BY <1>1, PowerSteps
<1>3. p \in Nat \ {0}
  BY <1>1, PowerType
<1>4. INT_MIN = -p /\ UINT = 2 * p
  BY <1>2 DEF UINT, INT_MIN
<1> HIDE DEF p
<1> QED
  BY <1>3, <1>4

(* An unsigned int has at least two digits less than bits.                 *)
LEMMA DigitsFew ==
  ASSUME NEW v \in 0 .. UINT - 1, NEW b \in {10, 16}, NEW len \in 0 .. IntBits,
         v >= Power(b)[len]
  PROVE  len + 1 <= IntBits - 2
<1>1. IntBits \in Nat /\ IntBits >= 4 /\ b \in Nat \ {0} /\ 2 \in Nat \ {0}
  BY Bits
<1> SUFFICES ASSUME len >= IntBits - 2 PROVE FALSE
  BY <1>1
<1> DEFINE m == IntBits - 2
<1>2. m \in 1 .. IntBits /\ m \in 0 .. len /\ m \in 0 .. IntBits /\ IntBits = (m + 1) + 1
  BY <1>1
<1>3. Power(2)[(m + 1) + 1] = 2 * Power(2)[m + 1] /\ Power(2)[m + 1] = 2 * Power(2)[m]
  <2>1. (m + 1) + 1 \in 1 .. IntBits /\ ((m + 1) + 1) - 1 = m + 1
        /\ m + 1 \in 1 .. IntBits /\ (m + 1) - 1 = m
    BY <1>1, <1>2
  <2> QED
    BY <2>1, PowerSteps
<1>4. UINT = Power(2)[(m + 1) + 1]
  BY <1>2 DEF UINT
<1> HIDE DEF m
<1>5. Power(2)[m] \in Nat /\ Power(b)[m] \in Nat /\ Power(b)[len] \in Nat
  BY <1>1, <1>2, PowerType
<1>6. 4 * Power(2)[m] <= Power(b)[m]
  BY <1>2, PowerBeatsBits
<1>7. Power(b)[m] <= Power(b)[len]
  BY <1>1, <1>2, PowerGrows
<1>8. UINT = 4 * Power(2)[m]
  BY <1>3, <1>4, <1>5
<1> QED
  BY <1>5, <1>6, <1>7, <1>8

NumeralLength(v, b, len) ==
  v < Power(b)[len] /\ (len = 1 \/ v >= Power(b)[len - 1])

LEMMA LengthUnique ==
  ASSUME NEW v \in Nat, NEW b \in {10, 16}, NEW k \in 1 .. IntBits, NEW m \in 1 .. IntBits,
         NumeralLength(v, b, k), NumeralLength(v, b, m)
  PROVE  k = m
<1>1. IntBits \in Nat /\ b \in Nat \ {0}
  BY Bits
<1>2. ASSUME NEW i \in 1 .. IntBits, NEW j \in 1 .. IntBits, i < j,
             NumeralLength(v, b, i), NumeralLength(v, b, j)
      PROVE  FALSE
  <2>1. j - 1 \in 0 .. IntBits /\ i \in 0 .. j - 1 /\ i \in 0 .. IntBits /\ j # 1
    BY <1>1, <1>2
  <2>2. Power(b)[i] <= Power(b)[j - 1]
    BY <1>1, <2>1, PowerGrows
  <2>3. Power(b)[i] \in Nat /\ Power(b)[j - 1] \in Nat
    BY <1>1, <2>1, PowerType
  <2>4. v < Power(b)[i] /\ v >= Power(b)[j - 1]
    BY <1>2, <2>1 DEF NumeralLength
  <2> QED
    BY <2>2, <2>3, <2>4
<1> QED
  BY <1>1, <1>2

DigitsOf(v, b, table, len) ==
  [j \in 1 .. len |-> table[((v \div Power(b)[len - j]) % b) + 1]]

LEMMA NumeralIs ==
  ASSUME NEW v \in Nat, NEW b \in {10, 16}, NEW table, NEW len \in 1 .. IntBits,
         NumeralLength(v, b, len)
  PROVE  Numeral(v, b, table) = DigitsOf(v, b, table, len)
<1> DEFINE k == CHOOSE m \in 1 .. IntBits : NumeralLength(v, b, m)
<1>1. Numeral(v, b, table) = DigitsOf(v, b, table, k)
  BY Zenon DEF Numeral, NumeralLength, DigitsOf
<1>2. k \in 1 .. IntBits /\ NumeralLength(v, b, k)
  OBVIOUS
<1> HIDE DEF k
<1>3. k = len
  BY <1>2, LengthUnique
<1> QED
  BY <1>1, <1>3

LEMMA NumeralType ==
  ASSUME NEW v \in 0 .. UINT - 1, NEW b \in {10, 16}, NEW table \in [1 .. 16 -> Char]
  PROVE  Numeral(v, b, table) \in Seq(Char)
<1>1. IntBits \in Nat /\ IntBits >= 4 /\ b \in Nat \ {0} /\ v \in Nat
  BY Bits, IntRange
<1> DEFINE T == {m \in 1 .. IntBits : v < Power(b)[m]}
<1>2. IntBits \in T
  <2>1. IntBits \in 0 .. IntBits /\ IntBits \in 1 .. IntBits /\ ~(IntBits + 1 <= IntBits - 2)
    BY <1>1
  <2>2. Power(b)[IntBits] \in Nat
    BY <1>1, <2>1, PowerType
  <2>3. ~(v >= Power(b)[IntBits])
    BY <2>1, DigitsFew
  <2> QED
    BY <1>1, <2>1, <2>2, <2>3
<1>3. T \subseteq Nat
  BY <1>1
<1>4. PICK len \in T : \A m \in T : len <= m
  <2> HIDE DEF T
  <2> QED
    BY <1>2, <1>3, LeastNat
<1>5. len \in 1 .. IntBits /\ v < Power(b)[len]
  OBVIOUS
<1>6. ASSUME len # 1 PROVE v >= Power(b)[len - 1]
  <2>1. len - 1 \in 1 .. IntBits /\ len - 1 \in 0 .. IntBits /\ ~(len <= len - 1)
    BY <1>1, <1>5, <1>6
  <2>2. len - 1 \notin T
    BY <1>4, <2>1
  <2>3. Power(b)[len - 1] \in Nat
    BY <1>1, <2>1, PowerType
  <2> QED
    BY <1>1, <2>1, <2>2, <2>3
<1>7. NumeralLength(v, b, len)
  BY <1>5, <1>6 DEF NumeralLength
<1>8. Numeral(v, b, table) = DigitsOf(v, b, table, len)
  BY <1>1, <1>5, <1>7, NumeralIs, ZenonT(40)
<1>9. ASSUME NEW j \in 1 .. len PROVE table[((v \div Power(b)[len - j]) % b) + 1] \in Char
  <2>1. len - j \in 0 .. IntBits
    BY <1>1, <1>5
  <2>2. Power(b)[len - j] \in Nat \ {0}
    BY <1>1, <2>1, PowerType
  <2>3. v \div Power(b)[len - j] \in Nat
    BY <1>1, <2>2, Quotients
  <2> DEFINE q == v \div Power(b)[len - j]
  <2> HIDE DEF q
  <2>4. q \in Nat
    BY <2>3 DEF q
  <2>5. q % b \in 0 .. 15
    BY <2>4
  <2>6. (q % b) + 1 \in 1 .. 16
    BY <2>5
  <2> QED
    BY <2>6 DEF q
<1>10. [j \in 1 .. len |-> table[((v \div Power(b)[len - j]) % b) + 1]] \in [1 .. len -> Char]
  BY <1>9
<1>11. len \in Nat
  BY <1>5, <1>1
<1> QED
  BY <1>8, <1>10, <1>11, SeqDef DEF DigitsOf

(* Zero has a digit too.                                                   *)
LEMMA NumeralOfZero ==
  ASSUME NEW b \in {10, 16}, NEW table
  PROVE  Numeral(0, b, table) = <<table[1]>>
<1>1. 1 \in 1 .. IntBits /\ 0 \in 0 .. IntBits /\ b \in Nat \ {0}
  BY Bits
<1>2. Power(b)[0] = 1 /\ Power(b)[1] = b * Power(b)[1 - 1]
  BY <1>1, PowerSteps
<1>3. Power(b)[1] = b
  BY <1>2
<1>4. NumeralLength(0, b, 1)
  BY <1>3 DEF NumeralLength
<1>5. Numeral(0, b, table) = DigitsOf(0, b, table, 1)
  <2>1. 0 \in Nat
    OBVIOUS
  <2> QED
    BY <1>1, <1>4, <2>1, NumeralIs, Zenon
<1>6. \A j \in 1 .. 1 : table[((0 \div Power(b)[1 - j]) % b) + 1] = table[1]
  <2> SUFFICES ASSUME NEW j \in 1 .. 1 PROVE ((0 \div Power(b)[1 - j]) % b) + 1 = 1
    OBVIOUS
  <2>1. Power(b)[1 - j] = 1
    BY <1>2
  <2> QED
    BY <2>1
<1> QED
  BY <1>5, <1>6 DEF DigitsOf

-----------------------------------------------------------------------------
(* Directives.                                                             *)

(* How far the '%' just before k go back.                                  *)
RunBefore(f, k) == {m \in 0 .. k - 1 : \A j \in k - m .. k - 1 : f[j] = "%"}

LEMMA RunSteps ==
  ASSUME NEW f, NEW k \in Nat \ {0}, NEW p \in Nat, RunBefore(f, k) = 0 .. p
  PROVE  RunBefore(f, k + 1) = IF f[k] = "%" THEN 0 .. p + 1 ELSE 0 .. 0
<1>1. CASE f[k] = "%"
  <2>1. ASSUME NEW m \in RunBefore(f, k + 1) PROVE m \in 0 .. p + 1
    <3>1. m \in 0 .. k /\ \A j \in (k + 1) - m .. k : f[j] = "%"
      BY DEF RunBefore
    <3>2. CASE m = 0
      BY <3>2
    <3>3. CASE m # 0
      <4>1. m - 1 \in 0 .. k - 1 /\ k - (m - 1) = (k + 1) - m
        BY <3>1, <3>3
      <4>2. \A j \in k - (m - 1) .. k - 1 : f[j] = "%"
        BY <3>1, <4>1
      <4>3. m - 1 \in RunBefore(f, k)
        BY <4>1, <4>2 DEF RunBefore
      <4> QED
        BY <3>1, <4>3
    <3> QED
      BY <3>2, <3>3
  <2>2. ASSUME NEW m \in 0 .. p + 1 PROVE m \in RunBefore(f, k + 1)
    <3>1. CASE m = 0
      BY <3>1 DEF RunBefore
    <3>2. CASE m # 0
      <4>1. m - 1 \in RunBefore(f, k)
        BY <3>2
      <4>2. m - 1 \in 0 .. k - 1 /\ \A j \in k - (m - 1) .. k - 1 : f[j] = "%"
        BY <4>1 DEF RunBefore
      <4>3. \A j \in (k + 1) - m .. (k + 1) - 1 : f[j] = "%"
        <5> SUFFICES ASSUME NEW j \in (k + 1) - m .. (k + 1) - 1, j # k PROVE f[j] = "%"
          BY <1>1
        <5>1. j \in k - (m - 1) .. k - 1
          OBVIOUS
        <5> QED
          BY <4>2, <5>1
      <4>4. m \in 0 .. (k + 1) - 1
        BY <4>2
      <4> QED
        BY <4>3, <4>4 DEF RunBefore
    <3> QED
      BY <3>1, <3>2
  <2> QED
    BY <1>1, <2>1, <2>2
<1>2. CASE f[k] # "%"
  <2>1. ASSUME NEW m \in RunBefore(f, k + 1) PROVE m = 0
    <3>1. m \in 0 .. k /\ \A j \in (k + 1) - m .. k : f[j] = "%"
      BY DEF RunBefore
    <3>2. k \notin (k + 1) - m .. k
      BY <1>2, <3>1
    <3> QED
      BY <3>1, <3>2
  <2>2. 0 \in RunBefore(f, k + 1)
    BY DEF RunBefore
  <2> QED
    BY <1>2, <2>1, <2>2
<1> QED
  BY <1>1, <1>2

LEMMA RunIs ==
  ASSUME NEW f, NEW k \in Nat \ {0}
  PROVE  Percents(f, k) \in Nat /\ RunBefore(f, k) = 0 .. Percents(f, k)
<1> DEFINE S == {n \in Nat : \E p \in Nat : RunBefore(f, n + 1) = 0 .. p}
<1>1. 0 \in S
  <2>1. RunBefore(f, 0 + 1) = 0 .. 0
    BY DEF RunBefore
  <2> QED
    BY <2>1
<1>2. ASSUME NEW n \in Nat, n \in S PROVE n + 1 \in S
  <2>1. PICK p \in Nat : RunBefore(f, n + 1) = 0 .. p
    BY <1>2
  <2>2. n + 1 \in Nat \ {0} /\ p + 1 \in Nat /\ 0 \in Nat
    OBVIOUS
  <2>3. RunBefore(f, (n + 1) + 1) = IF f[n + 1] = "%" THEN 0 .. p + 1 ELSE 0 .. 0
    BY <2>1, <2>2, RunSteps
  <2>4. \E q \in Nat : RunBefore(f, (n + 1) + 1) = 0 .. q
    BY <2>2, <2>3, Zenon
  <2> QED
    BY <2>2, <2>4
<1>3. k - 1 \in S /\ (k - 1) + 1 = k
  <2> HIDE DEF S
  <2>1. Nat \subseteq S
    BY <1>1, <1>2, SetInduction
  <2> QED
    BY <2>1
<1>4. PICK p \in Nat : RunBefore(f, k) = 0 .. p
  BY <1>3
<1>5. Cardinality(0 .. p) = p + 1
  BY FS_Interval
<1>6. Percents(f, k) = Cardinality(RunBefore(f, k)) - 1
  BY DEF Percents, RunBefore
<1>7. Percents(f, k) = p
  BY <1>4, <1>5, <1>6
<1> QED
  BY <1>4, <1>7

LEMMA PercentsStep ==
  ASSUME NEW f, NEW k \in Nat \ {0}
  PROVE  Percents(f, k + 1) = IF f[k] = "%" THEN Percents(f, k) + 1 ELSE 0
<1> DEFINE p == Percents(f, k)
           q == Percents(f, k + 1)
<1>1. p \in Nat /\ RunBefore(f, k) = 0 .. p
  BY RunIs
<1>2. k + 1 \in Nat \ {0}
  OBVIOUS
<1>3. q \in Nat /\ RunBefore(f, k + 1) = 0 .. q
  BY <1>2, RunIs
<1>4. RunBefore(f, k + 1) = IF f[k] = "%" THEN 0 .. p + 1 ELSE 0 .. 0
  <2> HIDE DEF p
  <2> QED
    BY <1>1, RunSteps
<1> HIDE DEF p, q
<1>5. ASSUME NEW m \in Nat, NEW n \in Nat, 0 .. m = 0 .. n PROVE m = n
  <2>1. m \in 0 .. m /\ n \in 0 .. n
    OBVIOUS
  <2>2. m \in 0 .. n /\ n \in 0 .. m
    BY <1>5, <2>1
  <2> QED
    BY <2>2
<1>6. CASE f[k] = "%"
  <2>1. 0 .. q = 0 .. p + 1 /\ p + 1 \in Nat
    BY <1>1, <1>3, <1>4, <1>6
  <2>2. q = p + 1
    BY <1>3, <1>5, <2>1
  <2> QED
    BY <1>6, <2>2 DEF p, q
<1>7. CASE f[k] # "%"
  <2>1. q = 0
    BY <1>3, <1>4, <1>5, <1>7
  <2> QED
    BY <1>7, <2>1 DEF q
<1> QED
  BY <1>6, <1>7

LEMMA PercentsFirst == ASSUME NEW f PROVE Percents(f, 1) = 0
<1>1. Percents(f, 1) \in Nat /\ RunBefore(f, 1) = 0 .. Percents(f, 1)
  BY RunIs
<1>2. RunBefore(f, 1) = 0 .. 0
  BY DEF RunBefore
<1>3. Percents(f, 1) \in 0 .. Percents(f, 1)
  BY <1>1
<1>4. Percents(f, 1) \in 0 .. 0
  BY <1>1, <1>2, <1>3
<1> QED
  BY <1>4

LEMMA NthStep ==
  ASSUME NEW f, NEW k \in Nat
  PROVE  /\ Nth(f, 0) = 0 /\ Nth(f, k) \in Nat
         /\ Nth(f, k + 1) = IF Takes(f, k + 1) THEN Nth(f, k) + 1 ELSE Nth(f, k)
<1> DEFINE Taking(m) == {j \in 1 .. m : Takes(f, j)}
<1>1. \A m : Nth(f, m) = Cardinality(Taking(m))
  BY DEF Nth
<1>2. Taking(k + 1) = IF Takes(f, k + 1) THEN Taking(k) \cup {k + 1} ELSE Taking(k)
  <2>1. 1 .. k + 1 = (1 .. k) \cup {k + 1}
    OBVIOUS
  <2> QED
    BY <2>1, Zenon
<1>3. k + 1 \notin Taking(k)
  OBVIOUS
<1>4. Taking(0) = {}
  OBVIOUS
<1>5. Taking(k) \in SUBSET (1 .. k)
  OBVIOUS
<1> HIDE DEF Taking
<1>6. IsFiniteSet(1 .. k)
  BY FS_Interval
<1>7. IsFiniteSet(Taking(k))
  BY <1>5, <1>6, FS_Subset
<1>8. Cardinality(Taking(k)) \in Nat
  BY <1>7, FS_CardinalityType
<1>9. Cardinality(Taking(k) \cup {k + 1}) = Cardinality(Taking(k)) + 1
  BY <1>3, <1>7, FS_AddElement
<1>10. Cardinality(Taking(0)) = 0
  BY <1>4, FS_EmptySet
<1>11. CASE Takes(f, k + 1)
  BY <1>1, <1>2, <1>8, <1>9, <1>10, <1>11
<1>12. CASE ~Takes(f, k + 1)
  BY <1>1, <1>2, <1>8, <1>10, <1>12
<1> QED
  BY <1>11, <1>12

LEMMA NthGrows ==
  ASSUME NEW f, NEW m \in Nat, NEW k \in 0 .. m
  PROVE  Nth(f, k) <= Nth(f, m)
<1> DEFINE S == {n \in Nat : Nth(f, k) <= Nth(f, k + n)}
<1>1. 0 \in S
  BY NthStep
<1>2. ASSUME NEW n \in Nat, n \in S PROVE n + 1 \in S
  <2>1. k \in Nat /\ k + n \in Nat /\ k + (n + 1) = (k + n) + 1
    OBVIOUS
  <2>2. Nth(f, (k + n) + 1) >= Nth(f, k + n) /\ Nth(f, k) \in Nat /\ Nth(f, k + n) \in Nat
        /\ Nth(f, (k + n) + 1) \in Nat
    BY <2>1, NthStep
  <2> QED
    BY <1>2, <2>1, <2>2
<1>3. m - k \in S /\ k + (m - k) = m
  <2> HIDE DEF S
  <2>1. Nat \subseteq S
    BY <1>1, <1>2, SetInduction
  <2> QED
    BY <2>1
<1> QED
  BY <1>3

(* printf is at k, between two directives.                                 *)
Between(f, k) == k <= Len(f) => Percents(f, k) % 2 = 0

LEMMA BetweenFirst == ASSUME NEW f PROVE Between(f, 1)
BY PercentsFirst DEF Between

LEMMA Odd == \A n \in Nat : n % 2 = 0 => (n + 1) % 2 # 0
OBVIOUS

LEMMA Even == \A n \in Nat : n % 2 = 0 => (n + 2) % 2 = 0
OBVIOUS

LEMMA NoneJustBefore ==
  ASSUME NEW f, NEW k \in Nat \ {0}, k <= Len(f), Len(f) \in Nat, Between(f, k), k > 1
  PROVE  ~Starts(f, k - 1)
<1> SUFFICES ASSUME Starts(f, k - 1) PROVE FALSE
  OBVIOUS
<1>1. k - 1 \in Nat \ {0} /\ (k - 1) + 1 = k
  OBVIOUS
<1>2. f[k - 1] = "%" /\ Percents(f, k - 1) % 2 = 0 /\ Percents(f, k - 1) \in Nat
  BY <1>1, RunIs DEF Starts
<1>3. Percents(f, k) = Percents(f, k - 1) + 1
  BY <1>1, <1>2, PercentsStep
<1> QED
  BY <1>2, <1>3, Odd DEF Between

(* A character that stands for itself.                                     *)
LEMMA AtLiteral ==
  ASSUME NEW f, NEW k \in Nat \ {0}, Len(f) \in Nat, k <= Len(f), Between(f, k),
         ~(f[k] = "%" /\ k < Len(f)), NEW supplied, NEW overflow
  PROVE  /\ Between(f, k + 1)
         /\ Nth(f, k) = Nth(f, k - 1)
         /\ PrintedPiece(f, supplied, overflow, k) = <<f[k]>>
<1>1. ~Starts(f, k) /\ ~Takes(f, k)
  BY DEF Starts, Takes
<1>2. ~(k > 1 /\ Starts(f, k - 1))
  BY NoneJustBefore
<1>3. PrintedPiece(f, supplied, overflow, k) = <<f[k]>>
  BY <1>1, <1>2, Zenon DEF PrintedPiece
<1>4. Nth(f, k) = Nth(f, k - 1)
  <2>1. k - 1 \in Nat /\ (k - 1) + 1 = k
    OBVIOUS
  <2> QED
    BY <1>1, <2>1, NthStep
<1>5. Between(f, k + 1)
  <2> SUFFICES ASSUME k + 1 <= Len(f) PROVE Percents(f, k + 1) % 2 = 0
    BY DEF Between
  <2>1. Percents(f, k + 1) = 0
    BY PercentsStep
  <2> QED
    BY <2>1
<1> QED
  BY <1>3, <1>4, <1>5

(* A directive: nothing is printed at its letter, and printf is between    *)
(* two directives behind it.                                               *)
LEMMA AtDirectiveOf ==
  ASSUME NEW f, NEW k \in Nat \ {0}, Len(f) \in Nat, k < Len(f), Between(f, k), f[k] = "%",
         NEW supplied, NEW overflow
  PROVE  /\ Starts(f, k) /\ Between(f, k + 2)
         /\ ~Starts(f, k + 1) /\ ~Takes(f, k + 1)
         /\ Nth(f, k + 1) = Nth(f, k)
         /\ Nth(f, k) = IF Takes(f, k) THEN Nth(f, k - 1) + 1 ELSE Nth(f, k - 1)
         /\ PrintedPiece(f, supplied, overflow, k + 1) = <<>>
<1>1. Percents(f, k) % 2 = 0 /\ Percents(f, k) \in Nat
  BY RunIs DEF Between
<1>2. Starts(f, k)
  BY <1>1 DEF Starts
<1>3. Percents(f, k + 1) = Percents(f, k) + 1
  BY PercentsStep
<1>4. ~Starts(f, k + 1) /\ ~Takes(f, k + 1)
  BY <1>1, <1>3, Odd DEF Starts, Takes
<1>5. k + 1 > 1 /\ (k + 1) - 1 = k /\ k + 1 \in Nat \ {0} /\ (k + 1) + 1 = k + 2
      /\ k - 1 \in Nat /\ (k - 1) + 1 = k
  OBVIOUS
<1>6. PrintedPiece(f, supplied, overflow, k + 1) = <<>>
  BY <1>2, <1>4, <1>5, Zenon DEF PrintedPiece
<1>7. Nth(f, k + 1) = Nth(f, k)
  BY <1>4, <1>5, NthStep
<1>8. Nth(f, k) = IF Takes(f, k) THEN Nth(f, k - 1) + 1 ELSE Nth(f, k - 1)
  <2>1. Nth(f, (k - 1) + 1) =
          IF Takes(f, (k - 1) + 1) THEN Nth(f, k - 1) + 1 ELSE Nth(f, k - 1)
    BY <1>5, NthStep
  <2> QED
    BY <1>5, <2>1
<1>9. Between(f, k + 2)
  <2>1. Percents(f, k + 2) = IF f[k + 1] = "%" THEN Percents(f, k + 1) + 1 ELSE 0
    BY <1>5, PercentsStep
  <2>2. Percents(f, k + 2) % 2 = 0
    <3>1. CASE f[k + 1] = "%"
      <4>1. Percents(f, k + 2) = Percents(f, k) + 2
        BY <1>1, <1>3, <2>1, <3>1
      <4> QED
        BY <1>1, <4>1, Even
    <3>2. CASE f[k + 1] # "%"
      BY <2>1, <3>2
    <3> QED
      BY <3>1, <3>2
  <2> QED
    BY <2>2 DEF Between
<1> QED
  BY <1>2, <1>4, <1>6, <1>7, <1>8, <1>9

-----------------------------------------------------------------------------
(* What has been printed.                                                  *)

(* texts[k] is what the first k characters of the format ask for.          *)
Trail(f, supplied, overflows, texts, m) ==
  /\ overflows \in [1 .. Len(f) -> IntMinTexts]
  /\ texts \in [0 .. m -> Seq(Char)]
  /\ texts[0] = <<>>
  /\ \A k \in 1 .. m : PrintedPiece(f, supplied, overflows[k], k) \in Seq(Char)
  /\ \A k \in 1 .. m : texts[k] = texts[k - 1] \o PrintedPiece(f, supplied, overflows[k], k)

Printed(f, supplied, m, text) ==
  \E overflows, texts : Trail(f, supplied, overflows, texts, m) /\ text = texts[m]

LEMMA PrintedNothing ==
  ASSUME NEW f, NEW supplied
  PROVE  Printed(f, supplied, 0, <<>>)
<1> DEFINE overflows == [k \in 1 .. Len(f) |-> <<"-">>]
           texts == [k \in 0 .. 0 |-> <<>>]
<1>1. overflows \in [1 .. Len(f) -> IntMinTexts]
  BY DEF IntMinTexts, OverflowTexts
<1>2. texts \in [0 .. 0 -> Seq(Char)] /\ texts[0] = <<>>
  <2>1. <<>> \in Seq(Char)
    OBVIOUS
  <2> QED
    BY <2>1
<1> HIDE DEF overflows, texts
<1>3. Trail(f, supplied, overflows, texts, 0)
  BY <1>1, <1>2 DEF Trail
<1> QED
  BY <1>2, <1>3 DEF Printed

LEMMA PrintedType ==
  ASSUME NEW f, NEW supplied, NEW m \in Nat, NEW text, Printed(f, supplied, m, text)
  PROVE  text \in Seq(Char)
<1>1. PICK overflows, texts : Trail(f, supplied, overflows, texts, m) /\ text = texts[m]
  BY DEF Printed
<1>2. texts \in [0 .. m -> Seq(Char)] /\ m \in 0 .. m
  BY <1>1 DEF Trail
<1> QED
  BY <1>1, <1>2

LEMMA PrintedStep ==
  ASSUME NEW f, NEW supplied, Len(f) \in Nat, NEW k \in 1 .. Len(f), NEW before,
         Printed(f, supplied, k - 1, before), NEW overflow \in IntMinTexts,
         NEW text, text = PrintedPiece(f, supplied, overflow, k), text \in Seq(Char)
  PROVE  Printed(f, supplied, k, before \o text)
<1>1. PICK overflows, texts :
        Trail(f, supplied, overflows, texts, k - 1) /\ before = texts[k - 1]
  BY DEF Printed
<1>2. /\ overflows \in [1 .. Len(f) -> IntMinTexts]
      /\ texts \in [0 .. k - 1 -> Seq(Char)] /\ texts[0] = <<>>
  BY <1>1 DEF Trail
<1>3. /\ \A j \in 1 .. k - 1 : PrintedPiece(f, supplied, overflows[j], j) \in Seq(Char)
      /\ \A j \in 1 .. k - 1 : texts[j] = texts[j - 1] \o PrintedPiece(f, supplied, overflows[j], j)
  BY <1>1 DEF Trail
<1>4. k - 1 \in 0 .. k - 1 /\ k - 1 \in Nat /\ k \in Nat /\ k # 0
  OBVIOUS
<1> DEFINE after == before \o text
           o == [overflows EXCEPT ![k] = overflow]
           t == [j \in 0 .. k |-> IF j = k THEN after ELSE texts[j]]
<1>5. before \in Seq(Char)
  BY <1>1, <1>2, <1>4
<1>6. after \in Seq(Char) /\ after = before \o text
  BY <1>5
<1>7. o \in [1 .. Len(f) -> IntMinTexts] /\ o[k] = overflow
      /\ \A j \in 1 .. k - 1 : o[j] = overflows[j]
  BY <1>2, <1>4
<1> HIDE DEF after, o
<1>8. t \in [0 .. k -> Seq(Char)]
  <2>1. \A j \in 0 .. k : j = k \/ j \in 0 .. k - 1
    OBVIOUS
  <2> QED
    BY <1>2, <1>6, <2>1
<1>9. t[0] = <<>> /\ t[k] = after /\ \A j \in 0 .. k - 1 : t[j] = texts[j]
  BY <1>2, <1>4
<1> HIDE DEF t
<1>10. ASSUME NEW j \in 1 .. k
       PROVE  /\ PrintedPiece(f, supplied, o[j], j) \in Seq(Char)
              /\ t[j] = t[j - 1] \o PrintedPiece(f, supplied, o[j], j)
  <2>1. CASE j = k
    <3>1. t[j - 1] = before
      BY <1>1, <1>4, <1>9, <2>1
    <3> QED
      BY <1>6, <1>7, <1>9, <2>1, <3>1
  <2>2. CASE j # k
    <3>1. j \in 1 .. k - 1 /\ j \in 0 .. k - 1 /\ j - 1 \in 0 .. k - 1
      BY <2>2
    <3>2. t[j] = texts[j] /\ t[j - 1] = texts[j - 1] /\ o[j] = overflows[j]
      BY <1>7, <1>9, <3>1
    <3> QED
      BY <1>3, <3>1, <3>2
  <2> QED
    BY <2>1, <2>2
<1>11. Trail(f, supplied, o, t, k)
  BY <1>7, <1>8, <1>9, <1>10 DEF Trail
<1> QED
  BY <1>9, <1>11 DEF Printed, after

FlattenIs(q, seqs) ==
  q = [i \in 1 .. Len(seqs) |-> IF i = 1 THEN seqs[i] ELSE q[i - 1] \o seqs[i]]

LEMMA PrintedAll ==
  ASSUME NEW f, NEW supplied, Len(f) \in Nat, NEW text, Printed(f, supplied, Len(f), text)
  PROVE  \E overflows \in [1 .. Len(f) -> IntMinTexts] : text = PrintedMeaning(f, supplied, overflows)
<1> DEFINE n == Len(f)
<1>1. PICK overflows, texts : Trail(f, supplied, overflows, texts, n) /\ text = texts[n]
  BY DEF Printed
<1> DEFINE seqs == [k \in 1 .. n |-> PrintedPiece(f, supplied, overflows[k], k)]
<1>2. overflows \in [1 .. Len(f) -> IntMinTexts] /\ texts \in [0 .. n -> Seq(Char)]
      /\ texts[0] = <<>>
  BY <1>1 DEF Trail
<1>3. \A k \in 1 .. n : seqs[k] \in Seq(Char) /\ texts[k] = texts[k - 1] \o seqs[k]
  BY <1>1 DEF Trail
<1>4. Len(seqs) = n /\ n \in Nat
  OBVIOUS
<1>5. PrintedMeaning(f, supplied, overflows) = FlattenSeq(seqs)
  BY Zenon DEF PrintedMeaning
<1>6. n = 0 => seqs = <<>>
  OBVIOUS
<1> HIDE DEF seqs, n
<1>7. CASE n = 0
  <2>1. FlattenSeq(seqs) = <<>>
    BY <1>4, <1>6, <1>7 DEF FlattenSeq
  <2> QED
    BY <1>1, <1>2, <1>5, <1>7, <2>1
<1>8. CASE n # 0
  <2>1. ASSUME n >= 1 PROVE texts[1] = seqs[1]
    <3>1. 1 \in 1 .. n /\ 0 \in 0 .. n /\ 1 \in 0 .. n /\ 1 - 1 = 0
      BY <1>4, <2>1
    <3>2. texts[1] = <<>> \o seqs[1] /\ seqs[1] \in Seq(Char)
      BY <1>2, <1>3, <3>1
    <3> QED
      BY <3>2, ConcatEmptySeq
  <2>2. n \in 1 .. n /\ n >= 1
    BY <1>4, <1>8
  <2> DEFINE g == [i \in 1 .. n |-> texts[i]]
             q == CHOOSE p : FlattenIs(p, seqs)
  <2>3. FlattenIs(g, seqs)
    <3> SUFFICES ASSUME NEW i \in 1 .. n
                 PROVE  texts[i] = IF i = 1 THEN seqs[i] ELSE g[i - 1] \o seqs[i]
      BY <1>4, Zenon DEF FlattenIs
    <3>1. CASE i = 1
      BY <2>1, <2>2, <3>1
    <3>2. CASE i # 1
      <4>1. i - 1 \in 1 .. n
        BY <1>4, <3>2
      <4>2. g[i - 1] = texts[i - 1]
        BY <4>1
      <4> QED
        BY <1>3, <3>2, <4>2
    <3> QED
      BY <3>1, <3>2
  <2>4. FlattenIs(q, seqs)
    BY <2>3
  <2>5. FlattenSeq(seqs) = q[n]
    BY <1>4, <1>8, Zenon DEF FlattenSeq, FlattenIs
  <2> HIDE DEF g, q
  <2>6. \A i \in 1 .. n : q[i] = IF i = 1 THEN seqs[i] ELSE q[i - 1] \o seqs[i]
    BY <1>4, <2>4 DEF FlattenIs
  <2> DEFINE S == {i \in Nat : i + 1 <= n => q[i + 1] = texts[i + 1]}
  <2>7. 0 \in S
    BY <2>1, <2>2, <2>6
  <2>8. ASSUME NEW i \in Nat, i \in S PROVE i + 1 \in S
    <3> SUFFICES ASSUME (i + 1) + 1 <= n PROVE q[(i + 1) + 1] = texts[(i + 1) + 1]
      OBVIOUS
    <3>1. (i + 1) + 1 \in 1 .. n /\ (i + 1) + 1 # 1 /\ ((i + 1) + 1) - 1 = i + 1 /\ i + 1 <= n
      BY <1>4
    <3>2. q[i + 1] = texts[i + 1]
      BY <2>8, <3>1
    <3>3. q[(i + 1) + 1] = q[i + 1] \o seqs[(i + 1) + 1]
      BY <2>6, <3>1
    <3>4. texts[(i + 1) + 1] = texts[i + 1] \o seqs[(i + 1) + 1]
      BY <1>3, <3>1
    <3> QED
      BY <3>2, <3>3, <3>4
  <2>9. n - 1 \in S /\ (n - 1) + 1 = n
    <3> HIDE DEF S
    <3>1. Nat \subseteq S
      BY <2>7, <2>8, SetInduction
    <3> QED
      BY <1>4, <2>2, <3>1
  <2>10. q[n] = texts[n]
    BY <1>4, <2>9
  <2> QED
    BY <1>1, <1>2, <1>5, <2>5, <2>10
<1> QED
  BY <1>7, <1>8

(* printf is in the directive at k and has shown part of it.               *)
Owed(f, supplied, k, shown) ==
  \E before : \E overflow \in IntMinTexts :
    /\ Printed(f, supplied, k - 1, before)
    /\ PrintedPiece(f, supplied, overflow, k) \in Seq(Char)
    /\ shown = before \o PrintedPiece(f, supplied, overflow, k)

LEMMA OwedAll ==
  ASSUME NEW f, NEW supplied, Len(f) \in Nat, NEW k \in Nat \ {0}, k < Len(f),
         Between(f, k), f[k] = "%", NEW shown, Owed(f, supplied, k, shown)
  PROVE  Printed(f, supplied, k + 1, shown)
<1>1. PICK before : \E overflow \in IntMinTexts :
        /\ Printed(f, supplied, k - 1, before)
        /\ PrintedPiece(f, supplied, overflow, k) \in Seq(Char)
        /\ shown = before \o PrintedPiece(f, supplied, overflow, k)
  BY DEF Owed
<1>2. PICK overflow \in IntMinTexts :
        /\ Printed(f, supplied, k - 1, before)
        /\ PrintedPiece(f, supplied, overflow, k) \in Seq(Char)
        /\ shown = before \o PrintedPiece(f, supplied, overflow, k)
  BY <1>1
<1>3. k \in 1 .. Len(f) /\ k + 1 \in 1 .. Len(f) /\ (k + 1) - 1 = k /\ k \in Nat
  OBVIOUS
<1>4. Printed(f, supplied, k, shown)
  BY <1>2, <1>3, PrintedStep
<1>5. <<>> = PrintedPiece(f, supplied, overflow, k + 1)
  BY AtDirectiveOf
<1>6. <<>> \in Seq(Char)
  OBVIOUS
<1>7. Printed(f, supplied, (k + 1) - 1, shown)
  BY <1>3, <1>4
<1>8. Printed(f, supplied, k + 1, shown \o <<>>)
  BY <1>3, <1>5, <1>6, <1>7, PrintedStep
<1>9. shown \in Seq(Char)
  BY <1>3, <1>4, PrintedType
<1>10. shown \o <<>> = shown
  BY <1>9, ConcatEmptySeq
<1> QED
  BY <1>8, <1>10

-----------------------------------------------------------------------------
(* Digits.                                                                 *)

(* The digits of v0 from the last one on are in t, and v is what is left.  *)
Dividing(v0, v, b, table, t) ==
  /\ v0 \in 0 .. UINT - 1
  /\ t \in Seq(Char) /\ Len(t) <= IntBits - 2
  /\ v = v0 \div Power(b)[Len(t)]
  /\ \A j \in 1 .. Len(t) : t[j] = table[((v0 \div Power(b)[j - 1]) % b) + 1]

LEMMA DividingFirst ==
  ASSUME NEW v \in 0 .. UINT - 1, NEW b, NEW table
  PROVE  Dividing(v, v, b, table, <<>>)
<1>1. Power(b)[0] = 1 /\ IntBits - 2 >= 0
  BY Bits, PowerSteps
<1>2. v \in Nat /\ v \div 1 = v
  BY IntRange
<1>3. <<>> \in Seq(Char) /\ Len(<<>>) = 0 /\ \A j \in 1 .. 0 : FALSE
  OBVIOUS
<1> QED
  BY <1>1, <1>2, <1>3 DEF Dividing

LEMMA DigitType ==
  ASSUME NEW v \in Nat, NEW b \in {10, 16}, NEW table \in [1 .. 16 -> Char]
  PROVE  table[(v % b) + 1] \in Char
<1>1. v % b \in 0 .. 15
  OBVIOUS
<1>2. (v % b) + 1 \in 1 .. 16
  BY <1>1
<1> QED
  BY <1>2

LEMMA StillBelow ==
  \A x \in Nat : \A y \in Nat : \A z \in Nat : x <= y /\ y <= z - 1 => x \in 0 .. z - 1
OBVIOUS

Divided(v0, v, b, table, t) ==
  /\ v \in 0 .. UINT - 1
  /\ Dividing(v0, v, b, table, t)
  /\ v = 0 => Numeral(v0, b, table) = Reverse(t)

LEMMA DivideStep ==
  ASSUME NEW v0, NEW v \in Nat \ {0}, NEW b \in {10, 16}, NEW table \in [1 .. 16 -> Char],
         NEW t, Dividing(v0, v, b, table, t),
         NEW rest, rest = v \div b, NEW u, u = Append(t, table[(v % b) + 1])
  PROVE  Divided(v0, rest, b, table, u)
<1>1. v0 \in 0 .. UINT - 1 /\ t \in Seq(Char) /\ Len(t) <= IntBits - 2
      /\ v = v0 \div Power(b)[Len(t)]
  BY DEF Dividing
<1>2. \A j \in 1 .. Len(t) : t[j] = table[((v0 \div Power(b)[j - 1]) % b) + 1]
  BY DEF Dividing
<1>3. IntBits \in Nat /\ IntBits >= 4
  BY Bits
<1>4. v0 \in Nat /\ UINT \in Nat /\ v0 <= UINT - 1
  BY <1>1, IntRange
<1>5. b \in Nat \ {0} /\ b \in Nat
  OBVIOUS
<1> DEFINE n == Len(t)
           p == Power(b)[n]
           d == table[(v % b) + 1]
<1>6. n \in Nat /\ n <= IntBits - 2
  BY <1>1
<1>7. d \in Char
  BY DigitType
<1>8. u \in Seq(Char) /\ Len(u) = n + 1 /\ u[n + 1] = d /\ \A j \in 1 .. n : u[j] = t[j]
  BY <1>1, <1>7
<1>9. v = v0 \div p
  BY <1>1
<1>10. \A j \in 1 .. n : t[j] = table[((v0 \div Power(b)[j - 1]) % b) + 1]
  BY <1>2
<1> HIDE DEF p, n, d
<1>11. n \in 0 .. IntBits /\ n + 1 \in 1 .. IntBits /\ n + 1 \in 0 .. IntBits
       /\ (n + 1) - 1 = n
  BY <1>3, <1>6
<1>12. p \in Nat \ {0}
  BY <1>5, <1>11, PowerType DEF p
<1>13. Power(b)[n + 1] = b * p
  BY <1>11, PowerSteps DEF p
<1> DEFINE w == b * p
<1>14. rest = v0 \div w /\ w \in Nat \ {0}
  <2>1. (v0 \div p) \div b = v0 \div (b * p) /\ b * p \in Nat \ {0}
    <3>1. v0 \in Nat /\ p \in Nat \ {0} /\ b \in Nat \ {0}
      BY <1>4, <1>5, <1>12
    <3> QED
      BY <3>1, QuotientTwice, ZenonT(40)
  <2>2. rest = (v0 \div p) \div b
    BY <1>9
  <2> QED
    BY <2>1, <2>2, Zenon
<1>15. Power(b)[n + 1] = w
  BY <1>13
<1> HIDE DEF w
<1>16. v0 >= p
  <2>1. v0 \div p = 0 <=> v0 < p
    BY <1>4, <1>12, QuotientBelow
  <2> QED
    BY <1>4, <1>9, <1>12, <2>1
<1>17. n + 1 <= IntBits - 2
  BY <1>1, <1>11, <1>16, DigitsFew DEF p
<1>18. rest \in Nat /\ rest <= v0
  <2>1. rest \in Nat
    BY <1>4, <1>14, Quotients
  <2>2. rest <= v0
    BY <1>4, <1>14, QuotientBelow
  <2> QED
    BY <2>1, <2>2
<1>19. rest \in 0 .. UINT - 1
  BY <1>4, <1>18, StillBelow, Zenon
<1>20. \A j \in 1 .. n + 1 : u[j] = table[((v0 \div Power(b)[j - 1]) % b) + 1]
  <2> SUFFICES ASSUME NEW j \in 1 .. n + 1
               PROVE  u[j] = table[((v0 \div Power(b)[j - 1]) % b) + 1]
    OBVIOUS
  <2>1. CASE j = n + 1
    <3>1. v0 \div Power(b)[j - 1] = v
      BY <1>9, <1>11, <2>1 DEF p
    <3> QED
      BY <1>8, <2>1, <3>1 DEF d
  <2>2. CASE j # n + 1
    <3>1. j \in 1 .. n
      BY <1>6, <2>2
    <3> QED
      BY <1>8, <1>10, <3>1
  <2> QED
    BY <2>1, <2>2
<1>21. Dividing(v0, rest, b, table, u)
  BY <1>1, <1>8, <1>14, <1>15, <1>17, <1>20 DEF Dividing
<1>22. ASSUME rest = 0 PROVE Numeral(v0, b, table) = Reverse(u)
  <2>1. v0 < Power(b)[n + 1]
    BY <1>4, <1>14, <1>15, <1>22, QuotientBelow
  <2>2. NumeralLength(v0, b, n + 1)
    BY <1>11, <1>16, <2>1 DEF NumeralLength, p
  <2>3. Numeral(v0, b, table) = DigitsOf(v0, b, table, n + 1)
    BY <1>4, <1>11, <2>2, NumeralIs, Zenon
  <2> DEFINE r == Reverse(u)
  <2>4. r = [j \in 1 .. n + 1 |-> u[((n + 1) - j) + 1]]
    BY <1>8 DEF Reverse
  <2>5. ASSUME NEW j \in 1 .. n + 1
        PROVE  u[((n + 1) - j) + 1] = table[((v0 \div Power(b)[(n + 1) - j]) % b) + 1]
    <3>1. ((n + 1) - j) + 1 \in 1 .. n + 1 /\ (((n + 1) - j) + 1) - 1 = (n + 1) - j
      BY <1>6
    <3> QED
      BY <1>20, <3>1
  <2> HIDE DEF r
  <2>6. DigitsOf(v0, b, table, n + 1) = r
    BY <2>4, <2>5, Zenon DEF DigitsOf
  <2> QED
    BY <2>3, <2>6 DEF r
<1> QED
  BY <1>19, <1>21, <1>22 DEF Divided

LEMMA ReverseStep ==
  ASSUME NEW s \in Seq(Char), s # <<>>, NEW t \in Seq(Char)
  PROVE  /\ Append(t, Last(s)) \in Seq(Char) /\ Front(s) \in Seq(Char)
         /\ Len(Append(t, Last(s))) = Len(t) + 1 /\ Len(Front(s)) = Len(s) - 1
         /\ Append(t, Last(s)) \o Reverse(Front(s)) = t \o Reverse(s)
<1> DEFINE n == Len(s)
           m == Len(t)
           a == Last(s)
           g == Front(s)
           r == Reverse(s)
           q == Reverse(g)
           w == Append(t, a)
<1>1. n \in Nat /\ n >= 1 /\ m \in Nat
  OBVIOUS
<1>2. a = s[n] /\ a \in Char
  BY <1>1 DEF Last
<1>3. g \in Seq(Char) /\ Len(g) = n - 1 /\ \A j \in 1 .. n - 1 : g[j] = s[j]
  <2>1. g = SubSeq(s, 1, n - 1)
    BY DEF Front
  <2>2. \A j \in 1 .. n - 1 : s[j] \in Char
    BY <1>1
  <2> HIDE DEF g, n
  <2> QED
    BY <1>1, <2>1, <2>2
<1>4. r = [j \in 1 .. n |-> s[(n - j) + 1]]
  BY DEF Reverse
<1>5. q = [j \in 1 .. n - 1 |-> g[((n - 1) - j) + 1]]
  <2> HIDE DEF g, n
  <2> QED
    BY <1>3 DEF Reverse
<1> HIDE DEF g, a
<1>6. w \in Seq(Char) /\ Len(w) = m + 1 /\ w[m + 1] = a /\ \A j \in 1 .. m : w[j] = t[j]
  BY <1>2
<1> HIDE DEF n, m, r, q, w
<1>7. s \in [1 .. n -> Char]
  BY DEF n
<1>8. r \in Seq(Char) /\ Len(r) = n /\ \A j \in 1 .. n : r[j] = s[(n - j) + 1]
  <2>1. \A j \in 1 .. n : (n - j) + 1 \in 1 .. n
    BY <1>1
  <2>2. r \in [1 .. n -> Char]
    BY <1>4, <1>7, <2>1
  <2> QED
    BY <1>1, <1>4, <2>2
<1>9. q \in Seq(Char) /\ Len(q) = n - 1 /\ \A j \in 1 .. n - 1 : q[j] = s[n - j]
  <2>1. \A j \in 1 .. n - 1 : ((n - 1) - j) + 1 = n - j /\ n - j \in 1 .. n - 1 /\ n - j \in 1 .. n
    BY <1>1
  <2>2. \A j \in 1 .. n - 1 : q[j] = s[n - j]
    BY <1>3, <1>5, <2>1
  <2>3. q \in [1 .. n - 1 -> Char]
    BY <1>3, <1>5, <1>7, <2>1
  <2> QED
    BY <1>1, <2>2, <2>3
<1>10. w \o q \in Seq(Char) /\ Len(w \o q) = (m + 1) + (n - 1)
       /\ \A j \in 1 .. (m + 1) + (n - 1) :
             (w \o q)[j] = IF j <= m + 1 THEN w[j] ELSE q[j - (m + 1)]
  <2>1. Len(w) + Len(q) = (m + 1) + (n - 1)
    BY <1>6, <1>9
  <2>2. w \o q \in Seq(Char) /\ Len(w \o q) = Len(w) + Len(q)
        /\ \A j \in 1 .. Len(w) + Len(q) :
              (w \o q)[j] = IF j <= Len(w) THEN w[j] ELSE q[j - Len(w)]
    BY <1>6, <1>9, ConcatProperties, Zenon
  <2> QED
    BY <1>6, <2>1, <2>2, Zenon
<1>11. t \o r \in Seq(Char) /\ Len(t \o r) = m + n
       /\ \A j \in 1 .. m + n : (t \o r)[j] = IF j <= m THEN t[j] ELSE r[j - m]
  BY <1>8, ConcatProperties DEF m
<1>12. ASSUME NEW j \in 1 .. m + n PROVE (w \o q)[j] = (t \o r)[j]
  <2>1. j \in 1 .. (m + 1) + (n - 1)
    BY <1>1
  <2>2. CASE j <= m
    BY <1>1, <1>6, <1>10, <1>11, <2>1, <2>2
  <2>3. CASE j = m + 1
    <3>1. (w \o q)[j] = a
      BY <1>6, <1>10, <2>1, <2>3
    <3>2. (t \o r)[j] = r[1]
      BY <1>1, <1>11, <2>3
    <3>3. r[1] = s[n]
      BY <1>1, <1>8
    <3> QED
      BY <1>2, <3>1, <3>2, <3>3
  <2>4. CASE j > m + 1
    <3>1. j - (m + 1) \in 1 .. n - 1 /\ j - m \in 1 .. n
          /\ n - (j - (m + 1)) = (n - (j - m)) + 1
      BY <1>1, <2>4
    <3>2. (w \o q)[j] = s[n - (j - (m + 1))]
      BY <1>1, <1>9, <1>10, <2>1, <2>4, <3>1
    <3>3. (t \o r)[j] = s[(n - (j - m)) + 1]
      BY <1>1, <1>8, <1>11, <2>4, <3>1
    <3> QED
      BY <3>1, <3>2, <3>3
  <2>5. j <= m \/ j = m + 1 \/ j > m + 1
    BY <1>1
  <2> QED
    BY <2>2, <2>3, <2>4, <2>5, Zenon
<1>13. w \o q = t \o r
  <2>1. (m + 1) + (n - 1) = m + n
    BY <1>1
  <2>2. Len(w \o q) = Len(t \o r) /\ \A j \in 1 .. Len(w \o q) : (w \o q)[j] = (t \o r)[j]
    BY <1>10, <1>11, <1>12, <2>1, Zenon
  <2> QED
    BY <1>10, <1>11, <2>2, SeqEqual, Zenon
<1> QED
  BY <1>3, <1>6, <1>13 DEF n, m, r, q, w, g, a

-----------------------------------------------------------------------------
(* The inductive invariant: between directives out is what the format asks *)
(* for up to ptr; in one, out and what is still to come of its conversion  *)
(* are that with the text of the directive.                                *)

CallTypes ==
  /\ Allowed(format, arguments)
  /\ ptr \in Nat \ {0}
  /\ stage \in {"idle", "scan", "divide", "reverse", "put", "returned"}
  /\ out \in Seq(Char)

NumberTypes ==
  /\ value \in 0 .. UINT - 1 /\ base \in {10, 16}
  /\ digits \in [1 .. 16 -> Char]
  /\ temp \in Seq(Char) /\ Len(temp) < IntBits
  /\ buffer \in Seq(Char)

AtBetween ==
  stage \in {"idle", "scan", "returned"} =>
    /\ ptr <= Len(format) + 1
    /\ Between(format, ptr)
    /\ used = Nth(format, ptr - 1)
    /\ Printed(format, arguments, ptr - 1, out)

AtInside ==
  stage \in {"divide", "reverse", "put"} =>
    /\ ptr > 1 /\ ptr <= Len(format)
    /\ Between(format, ptr - 1)
    /\ Takes(format, ptr - 1)
    /\ used = Nth(format, ptr - 1)

Showing(text) == Owed(format, arguments, ptr - 1, out \o text)

AtDivide ==
  stage = "divide" =>
    /\ value # 0 /\ Len(buffer) <= 1
    /\ \E v0 : /\ Dividing(v0, value, base, digits, temp)
               /\ Showing(buffer \o Numeral(v0, base, digits))

AtReverse ==
  stage = "reverse" =>
    /\ Len(buffer) + Len(temp) < IntBits
    /\ Showing(buffer \o Reverse(temp))

AtPut == stage = "put" => Showing(buffer)

AtEnds ==
  /\ stage = "idle" => ptr = 1 /\ used = 0 /\ out = <<>>
  /\ stage = "returned" => ptr = Len(format) + 1

FInv ==
  CallTypes /\ NumberTypes /\ AtBetween /\ AtInside /\ AtDivide /\ AtReverse /\ AtPut /\ AtEnds

LEMMA DigitTables == LowerDigits \in [1 .. 16 -> Char] /\ UpperDigits \in [1 .. 16 -> Char]
<1>1. LowerDigits \in Seq(Char) /\ Len(LowerDigits) = 16
  BY CharAssumption DEF LowerDigits
<1>2. UpperDigits \in Seq(Char) /\ Len(UpperDigits) = 16
  BY CharAssumption DEF UpperDigits
<1> QED
  BY <1>1, <1>2, LenProperties

LEMMA FormatIs ==
  ASSUME NEW f, NEW supplied, Allowed(f, supplied)
  PROVE  /\ f \in Seq(Char) /\ Len(f) \in Nat
         /\ Len(supplied) = Nth(f, Len(f))
         /\ \A k \in 1 .. Len(f) : Takes(f, k) => supplied[Nth(f, k)] \in Argument(f[k + 1])
BY DEF Allowed

LEMMA NoFormat == Allowed(<<>>, <<>>)
<1>1. <<>> \in Seq(Char) /\ Len(<<>>) = 0
  OBVIOUS
<1>2. Nth(<<>>, 0) = 0
  BY NthStep
<1> QED
  BY <1>1, <1>2 DEF Allowed

LEMMA StartInv ==
  ASSUME NEW f, NEW supplied, Allowed(f, supplied)
  PROVE  /\ 1 <= Len(f) + 1
         /\ Between(f, 1)
         /\ 0 = Nth(f, 1 - 1)
         /\ Printed(f, supplied, 1 - 1, <<>>)
<1>1. Len(f) \in Nat /\ 1 - 1 = 0
  BY FormatIs
<1>2. Nth(f, 0) = 0
  BY NthStep
<1> QED
  BY <1>1, <1>2, BetweenFirst, PrintedNothing

LEMMA FormatInitInv == FormatInit => FInv
<1> SUFFICES ASSUME FormatInit PROVE FInv
  OBVIOUS
<1> USE DEF FormatInit
<1>1. <<>> \in Seq(Char) /\ Len(<<>>) = 0
  OBVIOUS
<1>2. CallTypes
  BY <1>1, NoFormat DEF CallTypes
<1>3. NumberTypes
  <2>1. 0 \in 0 .. UINT - 1
    BY IntRange
  <2>2. Len(<<>>) < IntBits
    BY <1>1, Bits
  <2> QED
    BY <1>1, <2>1, <2>2, DigitTables DEF NumberTypes
<1>4. AtBetween
  BY StartInv, NoFormat DEF AtBetween
<1>5. AtInside /\ AtDivide /\ AtReverse /\ AtPut /\ AtEnds
  BY DEF AtInside, AtDivide, AtReverse, AtPut, AtEnds
<1> QED
  BY <1>2, <1>3, <1>4, <1>5 DEF FInv

LEMMA printfInv == ASSUME FInv, printf PROVE FInv'
<1> USE DEF FInv, printf, number_vars
<1>1. PICK call \in Calls : format' = call.format /\ arguments' = call.arguments
  OBVIOUS
<1>2. Allowed(format', arguments')
  BY <1>1, CallsAssumption
<1>3. ptr = 1 /\ used = 0 /\ out = <<>> /\ stage' = "scan"
      /\ ptr' = ptr /\ used' = used /\ out' = out
  BY DEF AtEnds
<1>4. CallTypes'
  BY <1>2, <1>3 DEF CallTypes
<1>5. NumberTypes'
  BY DEF NumberTypes
<1>6. AtBetween'
  <2>1. /\ 1 <= Len(format') + 1
        /\ Between(format', 1)
        /\ 0 = Nth(format', 1 - 1)
        /\ Printed(format', arguments', 1 - 1, <<>>)
    BY <1>2, StartInv
  <2> QED
    BY <1>3, <2>1 DEF AtBetween
<1>7. AtInside' /\ AtDivide' /\ AtReverse' /\ AtPut' /\ AtEnds'
  BY <1>3 DEF AtInside, AtDivide, AtReverse, AtPut, AtEnds
<1> QED
  BY <1>4, <1>5, <1>6, <1>7

LEMMA FormatReturnInv == ASSUME FInv, FormatReturn PROVE FInv'
<1> USE DEF FormatReturn
<1>1. <<>> \in Seq(Char) /\ Len(<<>>) = 0
  OBVIOUS
<1>2. CallTypes'
  BY <1>1, NoFormat DEF CallTypes
<1>3. NumberTypes'
  <2>1. 0 \in 0 .. UINT - 1
    BY IntRange
  <2>2. Len(<<>>) < IntBits
    BY <1>1, Bits
  <2> QED
    BY <1>1, <2>1, <2>2, DigitTables DEF NumberTypes
<1>4. AtBetween'
  <2>1. /\ 1 <= Len(<<>>) + 1
        /\ Between(<<>>, 1)
        /\ 0 = Nth(<<>>, 1 - 1)
        /\ Printed(<<>>, <<>>, 1 - 1, <<>>)
    BY StartInv, NoFormat
  <2> QED
    BY <2>1 DEF AtBetween
<1>5. AtInside' /\ AtDivide' /\ AtReverse' /\ AtPut' /\ AtEnds'
  BY DEF AtInside, AtDivide, AtReverse, AtPut, AtEnds
<1> QED
  BY <1>2, <1>3, <1>4, <1>5 DEF FInv

LEMMA EndOfFormatInv == ASSUME FInv, EndOfFormat PROVE FInv'
<1> USE DEF FInv, EndOfFormat, call_vars, number_vars
<1>1. stage = "scan" /\ stage' = "returned" /\ ptr > Len(format)
      /\ format' = format /\ arguments' = arguments /\ ptr' = ptr /\ used' = used /\ out' = out
  OBVIOUS
<1>2. CallTypes'
  BY <1>1 DEF CallTypes
<1>3. NumberTypes'
  BY DEF NumberTypes
<1>4. AtBetween'
  BY <1>1 DEF AtBetween
<1>5. AtEnds'
  <2>1. ptr <= Len(format) + 1 /\ ptr \in Nat
    BY <1>1 DEF AtBetween, CallTypes
  <2>2. Len(format) \in Nat
    BY FormatIs DEF CallTypes
  <2>3. ptr = Len(format) + 1
    BY <1>1, <2>1, <2>2
  <2> QED
    BY <1>1, <2>3 DEF AtEnds
<1>6. AtInside' /\ AtDivide' /\ AtReverse' /\ AtPut'
  BY <1>1 DEF AtInside, AtDivide, AtReverse, AtPut
<1> QED
  BY <1>2, <1>3, <1>4, <1>5, <1>6

-----------------------------------------------------------------------------
(* The steps of a conversion.                                              *)

LEMMA DivideInv == ASSUME FInv, Divide PROVE FInv'
<1> USE DEF Divide, call_vars
<1>1. /\ stage = "divide" /\ stage' \in {"divide", "reverse"}
      /\ stage' = IF value' > 0 THEN "divide" ELSE "reverse"
      /\ temp' = Append(temp, digits[(value % base) + 1]) /\ value' = value \div base
      /\ base' = base /\ digits' = digits /\ buffer' = buffer /\ out' = out
      /\ format' = format /\ arguments' = arguments /\ ptr' = ptr /\ used' = used
  OBVIOUS
<1>2. /\ value \in 0 .. UINT - 1 /\ base \in {10, 16} /\ digits \in [1 .. 16 -> Char]
      /\ buffer \in Seq(Char)
  BY DEF FInv, NumberTypes
<1>3. value # 0 /\ Len(buffer) <= 1
  BY <1>1 DEF FInv, AtDivide
<1>4. PICK v0 : /\ Dividing(v0, value, base, digits, temp)
                /\ Showing(buffer \o Numeral(v0, base, digits))
  BY <1>1 DEF FInv, AtDivide
<1>5. value \in Nat \ {0}
  BY <1>2, <1>3, IntRange
<1>6. /\ value' \in 0 .. UINT - 1
      /\ Dividing(v0, value', base, digits, temp')
      /\ value' = 0 => Numeral(v0, base, digits) = Reverse(temp')
  <2> DEFINE rest == value'
             u == temp'
  <2>1. rest = value \div base /\ u = Append(temp, digits[(value % base) + 1])
    BY <1>1
  <2>2. Dividing(v0, value, base, digits, temp)
    BY <1>4
  <2> HIDE DEF rest, u
  <2>3. base \in {10, 16} /\ digits \in [1 .. 16 -> Char] /\ value \in Nat \ {0}
    BY <1>2, <1>5
  <2>4. Divided(v0, rest, base, digits, u)
    BY <2>1, <2>2, <2>3, DivideStep
  <2> QED
    BY <2>4 DEF Divided, rest, u
<1>7. temp' \in Seq(Char) /\ Len(temp') <= IntBits - 2
  BY <1>6 DEF Dividing
<1>8. Len(temp') \in Nat /\ Len(buffer) \in Nat /\ IntBits \in Nat /\ UINT \in Nat
  <2>1. Len(temp') \in Nat /\ Len(buffer) \in Nat
    BY <1>2, <1>7
  <2> QED
    BY <2>1, Bits, IntRange
<1>9. CallTypes'
  BY <1>1 DEF FInv, CallTypes
<1>10. NumberTypes'
  BY <1>1, <1>2, <1>6, <1>7, <1>8 DEF NumberTypes
<1>11. AtInside'
  BY <1>1 DEF FInv, AtInside
<1>12. Showing(buffer \o Numeral(v0, base, digits))'
       <=> Owed(format, arguments, ptr - 1, out \o (buffer \o Numeral(v0, base', digits')))
  BY <1>1 DEF Showing
<1>13. AtDivide'
  <2> SUFFICES ASSUME stage' = "divide"
               PROVE  /\ value' # 0 /\ Len(buffer') <= 1
                      /\ Dividing(v0, value', base', digits', temp')
                      /\ Owed(format', arguments', ptr' - 1,
                              out' \o (buffer' \o Numeral(v0, base', digits')))
    BY DEF AtDivide, Showing
  <2>1. value' # 0
    BY <1>1, <1>6, <1>8
  <2> QED
    BY <1>1, <1>3, <1>4, <1>6, <2>1 DEF Showing
<1>14. AtReverse'
  <2> SUFFICES ASSUME stage' = "reverse"
               PROVE  /\ Len(buffer') + Len(temp') < IntBits
                      /\ Owed(format', arguments', ptr' - 1, out' \o (buffer' \o Reverse(temp')))
    BY DEF AtReverse, Showing
  <2>1. value' = 0
    BY <1>1, <1>6, <1>8
  <2>2. Numeral(v0, base, digits) = Reverse(temp')
    BY <1>6, <2>1
  <2>3. Len(buffer') + Len(temp') < IntBits
    BY <1>1, <1>3, <1>7, <1>8
  <2> QED
    BY <1>1, <1>4, <2>2, <2>3 DEF Showing
<1>15. AtBetween' /\ AtPut' /\ AtEnds'
  BY <1>1 DEF AtBetween, AtPut, AtEnds
<1> QED
  BY <1>9, <1>10, <1>11, <1>13, <1>14, <1>15 DEF FInv

LEMMA TakeBackInv == ASSUME FInv, TakeBack PROVE FInv'
<1> USE DEF TakeBack, call_vars
<1>1. /\ stage = "reverse"
      /\ value' = value /\ base' = base /\ digits' = digits /\ out' = out
      /\ format' = format /\ arguments' = arguments /\ ptr' = ptr /\ used' = used
  OBVIOUS
<1>2. /\ temp \in Seq(Char) /\ Len(temp) < IntBits /\ buffer \in Seq(Char)
      /\ Len(buffer) + Len(temp) < IntBits
      /\ Owed(format, arguments, ptr - 1, out \o (buffer \o Reverse(temp)))
  BY <1>1 DEF FInv, NumberTypes, AtReverse, Showing
<1>3. IntBits \in Nat /\ Len(temp) \in Nat /\ Len(buffer) \in Nat
  BY <1>2, Bits
<1>4. stage' \in {"reverse", "put"}
  BY <1>1
<1>5. CallTypes'
  BY <1>1, <1>4 DEF FInv, CallTypes
<1>6. AtInside'
  BY <1>1, <1>4 DEF FInv, AtInside
<1>7. AtBetween' /\ AtEnds' /\ AtDivide'
  BY <1>4 DEF AtBetween, AtDivide, AtEnds
<1>8. CASE temp # <<>> /\ buffer' = Append(buffer, Last(temp)) /\ temp' = Front(temp) /\ stage' = stage
  <2>1. /\ buffer' \in Seq(Char) /\ temp' \in Seq(Char)
        /\ Len(buffer') = Len(buffer) + 1 /\ Len(temp') = Len(temp) - 1
        /\ buffer' \o Reverse(temp') = buffer \o Reverse(temp)
    BY <1>2, <1>8, ReverseStep
  <2>2. NumberTypes'
    BY <1>1, <1>2, <1>3, <2>1 DEF FInv, NumberTypes
  <2>3. AtReverse'
    <3>1. Len(buffer') + Len(temp') < IntBits
      BY <1>2, <1>3, <2>1
    <3> QED
      BY <1>1, <1>2, <2>1, <3>1 DEF AtReverse, Showing
  <2>4. AtPut'
    BY <1>1, <1>8 DEF AtPut
  <2> QED
    BY <1>5, <1>6, <1>7, <2>2, <2>3, <2>4 DEF FInv
<1>9. CASE temp = <<>> /\ stage' = "put" /\ buffer' = buffer /\ temp' = temp
  <2>1. NumberTypes'
    BY <1>1, <1>9 DEF FInv, NumberTypes
  <2>2. AtPut'
    <3>1. Reverse(<<>>) = <<>>
      BY DEF Reverse
    <3>2. buffer \o <<>> = buffer
      BY <1>2, ConcatEmptySeq
    <3>3. out \o (buffer \o Reverse(temp)) = out \o buffer
      BY <1>9, <3>1, <3>2
    <3> QED
      BY <1>1, <1>2, <1>9, <3>3 DEF AtPut, Showing
  <2>3. AtReverse'
    BY <1>9 DEF AtReverse
  <2> QED
    BY <1>5, <1>6, <1>7, <2>1, <2>2, <2>3 DEF FInv
<1> QED
  BY <1>8, <1>9

LEMMA PutTextInv == ASSUME FInv, PutText PROVE FInv'
<1> USE DEF PutText, call_vars, number_vars
<1>1. /\ stage = "put"
      /\ value' = value /\ base' = base /\ digits' = digits /\ temp' = temp
      /\ format' = format /\ arguments' = arguments /\ used' = used
  OBVIOUS
<1>2. /\ buffer \in Seq(Char) /\ out \in Seq(Char) /\ ptr \in Nat \ {0}
      /\ Allowed(format, arguments)
  BY DEF FInv, NumberTypes, CallTypes
<1>3. Owed(format, arguments, ptr - 1, out \o buffer)
  BY <1>1 DEF FInv, AtPut, Showing
<1>4. CASE /\ buffer # <<>> /\ out' = Append(out, Head(buffer)) /\ buffer' = Tail(buffer)
           /\ ptr' = ptr /\ stage' = stage
  <2>1. out' \in Seq(Char) /\ buffer' \in Seq(Char)
    BY <1>2, <1>4
  <2>2. out' \o buffer' = out \o buffer
    BY <1>2, <1>4
  <2>3. CallTypes' /\ NumberTypes'
    BY <1>1, <1>4, <2>1 DEF FInv, CallTypes, NumberTypes
  <2>4. AtInside'
    BY <1>1, <1>4 DEF FInv, AtInside
  <2>5. AtPut'
    BY <1>1, <1>3, <1>4, <2>2 DEF AtPut, Showing
  <2>6. AtBetween' /\ AtDivide' /\ AtReverse' /\ AtEnds'
    BY <1>1, <1>4 DEF AtBetween, AtDivide, AtReverse, AtEnds
  <2> QED
    BY <2>3, <2>4, <2>5, <2>6 DEF FInv
<1>5. CASE buffer = <<>> /\ stage' = "scan" /\ ptr' = ptr + 1 /\ out' = out /\ buffer' = buffer
  <2>1. CallTypes' /\ NumberTypes'
    BY <1>1, <1>2, <1>5 DEF FInv, CallTypes, NumberTypes
  <2>2. /\ ptr > 1 /\ ptr <= Len(format)
        /\ Between(format, ptr - 1) /\ Takes(format, ptr - 1)
        /\ used = Nth(format, ptr - 1)
    BY <1>1 DEF FInv, AtInside
  <2>3. Len(format) \in Nat
    BY <1>2, FormatIs
  <2> DEFINE k == ptr - 1
  <2>4. k \in Nat \ {0} /\ k < Len(format) /\ k + 1 = ptr /\ k + 2 = ptr + 1
    BY <1>2, <2>2, <2>3
  <2>5. /\ Between(format, k) /\ format[k] = "%" /\ used = Nth(format, k)
        /\ Owed(format, arguments, k, out \o buffer)
    BY <1>3, <2>2 DEF Takes, Starts
  <2>6. out \o buffer = out
    BY <1>2, <1>5, ConcatEmptySeq
  <2> HIDE DEF k
  <2>7. Printed(format, arguments, k + 1, out)
    BY <2>3, <2>4, <2>5, <2>6, OwedAll
  <2>8. Between(format, k + 2) /\ Nth(format, k + 1) = Nth(format, k)
    BY <2>3, <2>4, <2>5, AtDirectiveOf
  <2>9. ptr' <= Len(format) + 1 /\ ptr' - 1 = ptr /\ ptr' = ptr + 1
    BY <1>2, <1>5, <2>2, <2>3
  <2>10. AtBetween'
    BY <1>1, <1>5, <2>4, <2>5, <2>7, <2>8, <2>9 DEF AtBetween
  <2>11. AtInside' /\ AtDivide' /\ AtReverse' /\ AtPut' /\ AtEnds'
    BY <1>5 DEF AtInside, AtDivide, AtReverse, AtPut, AtEnds
  <2> QED
    BY <2>1, <2>10, <2>11 DEF FInv
<1> QED
  BY <1>4, <1>5

-----------------------------------------------------------------------------
(* The steps of the loop of printf.                                        *)

Specifiers == {"d", "i", "u", "x", "X", "c", "s", "p"}

LEMMA ScanFacts ==
  ASSUME FInv, Scanning
  PROVE  /\ stage = "scan" /\ ptr \in Nat \ {0} /\ Len(format) \in Nat /\ ptr <= Len(format)
         /\ format \in Seq(Char) /\ Allowed(format, arguments) /\ out \in Seq(Char)
         /\ Between(format, ptr) /\ used = Nth(format, ptr - 1)
         /\ Printed(format, arguments, ptr - 1, out)
<1> USE DEF FInv, Scanning
<1>1. ptr \in Nat \ {0} /\ Allowed(format, arguments) /\ out \in Seq(Char)
  BY DEF CallTypes
<1>2. format \in Seq(Char) /\ Len(format) \in Nat
  BY <1>1, FormatIs
<1> QED
  BY <1>1, <1>2 DEF AtBetween

LEMMA DirectiveFacts ==
  ASSUME FInv, Scanning, AtDirective
  PROVE  /\ ptr < Len(format) /\ format[ptr] = "%" /\ format[ptr + 1] \in Char
         /\ Starts(format, ptr) /\ Between(format, ptr + 2)
         /\ Takes(format, ptr) <=> format[ptr + 1] \in Specifiers
         /\ Nth(format, ptr + 1) = Nth(format, ptr)
         /\ Nth(format, ptr) = IF format[ptr + 1] \in Specifiers THEN used + 1 ELSE used
         /\ used \in Nat
<1>1. /\ ptr \in Nat \ {0} /\ Len(format) \in Nat /\ ptr < Len(format) /\ format[ptr] = "%"
      /\ Between(format, ptr) /\ used = Nth(format, ptr - 1) /\ format \in Seq(Char)
  BY ScanFacts DEF AtDirective
<1>2. /\ Starts(format, ptr) /\ Between(format, ptr + 2)
      /\ Nth(format, ptr + 1) = Nth(format, ptr)
      /\ Nth(format, ptr) = IF Takes(format, ptr) THEN Nth(format, ptr - 1) + 1
                            ELSE Nth(format, ptr - 1)
  BY <1>1, AtDirectiveOf
<1>3. Takes(format, ptr) <=> format[ptr + 1] \in Specifiers
  BY <1>2 DEF Takes, Specifiers
<1>4. format[ptr + 1] \in Char
  BY <1>1
<1>5. ptr - 1 \in Nat
  BY <1>1
<1>6. Nth(format, ptr - 1) \in Nat
  BY <1>5, NthStep
<1> QED
  BY <1>1, <1>2, <1>3, <1>4, <1>6

LEMMA OwedPiece ==
  ASSUME NEW f, NEW supplied, NEW k, NEW before, Printed(f, supplied, k - 1, before),
         NEW overflow \in IntMinTexts, NEW text, text = PrintedPiece(f, supplied, overflow, k),
         text \in Seq(Char)
  PROVE  Owed(f, supplied, k, before \o text)
BY DEF Owed

LEMMA OverflowTypes ==
  /\ <<"-">> \in IntMinTexts
  /\ \A text \in IntMinTexts : text \in Seq(Char)
<1>1. "-" \in Char /\ "(" \in Char
  BY CharAssumption
<1>2. <<"-">> \in Seq(Char) /\ <<"-", "(">> \in Seq(Char)
  BY <1>1
<1>3. Numeral(-INT_MIN, 10, LowerDigits) \in Seq(Char)
  <2>1. -INT_MIN \in 0 .. UINT - 1 /\ 10 \in {10, 16}
    BY IntRange
  <2> QED
    BY <2>1, NumeralType, DigitTables
<1> DEFINE number == Numeral(-INT_MIN, 10, LowerDigits)
<1>4. IntMinTexts = {<<"-">>, <<"-", "(">>, <<"-">> \o number}
  BY DEF IntMinTexts, OverflowTexts
<1> HIDE DEF number
<1>5. <<"-">> \o number \in Seq(Char)
  BY <1>2, <1>3 DEF number
<1> QED
  BY <1>2, <1>4, <1>5

LEMMA PutLiteralInv == ASSUME FInv, PutLiteral PROVE FInv'
<1> USE DEF PutLiteral, PutChars, call_vars, number_vars
<1>1. /\ stage = "scan" /\ ptr \in Nat \ {0} /\ Len(format) \in Nat /\ ptr <= Len(format)
      /\ format \in Seq(Char) /\ Allowed(format, arguments) /\ out \in Seq(Char)
      /\ Between(format, ptr) /\ used = Nth(format, ptr - 1)
      /\ Printed(format, arguments, ptr - 1, out)
  BY ScanFacts
<1>2. /\ stage' = stage /\ format' = format /\ arguments' = arguments /\ used' = used
      /\ ptr' = ptr + 1 /\ out' = out \o <<format[ptr]>>
  OBVIOUS
<1>3. ~(format[ptr] = "%" /\ ptr < Len(format))
  BY DEF AtDirective
<1>4. /\ Between(format, ptr + 1) /\ Nth(format, ptr) = Nth(format, ptr - 1)
      /\ PrintedPiece(format, arguments, <<"-">>, ptr) = <<format[ptr]>>
  BY <1>1, <1>3, AtLiteral
<1>5. ptr \in 1 .. Len(format) /\ ptr \in Nat /\ ptr + 1 \in Nat \ {0} /\ (ptr + 1) - 1 = ptr
      /\ ptr + 1 <= Len(format) + 1
  BY <1>1
<1>6. <<format[ptr]>> \in Seq(Char)
  BY <1>1, <1>5
<1> DEFINE text == <<format[ptr]>>
<1>7. text = PrintedPiece(format, arguments, <<"-">>, ptr) /\ text \in Seq(Char)
  BY <1>4, <1>6
<1> HIDE DEF text
<1>8. Printed(format, arguments, ptr, out \o text)
  BY <1>1, <1>5, <1>7, PrintedStep, OverflowTypes
<1>9. Printed(format, arguments, ptr, out')
  BY <1>2, <1>8 DEF text
<1>10. out' \in Seq(Char)
  BY <1>5, <1>9, PrintedType
<1>11. CallTypes'
  BY <1>1, <1>2, <1>5, <1>10 DEF CallTypes
<1>12. NumberTypes'
  BY DEF FInv, NumberTypes
<1>13. AtBetween'
  BY <1>1, <1>2, <1>4, <1>5, <1>9 DEF AtBetween
<1>14. AtInside' /\ AtDivide' /\ AtReverse' /\ AtPut' /\ AtEnds'
  BY <1>1, <1>2 DEF AtInside, AtDivide, AtReverse, AtPut, AtEnds
<1> QED
  BY <1>11, <1>12, <1>13, <1>14 DEF FInv

(* A directive whose text is put at once.                                  *)
LEMMA PutWhole ==
  ASSUME FInv, Scanning, AtDirective, NEW text \in Seq(Char), PutChars(text, ptr + 2),
         text = PrintedPiece(format, arguments, <<"-">>, ptr), used' = Nth(format, ptr)
  PROVE  FInv'
<1> USE DEF PutChars, call_vars, number_vars
<1>1. /\ stage = "scan" /\ ptr \in Nat \ {0} /\ Len(format) \in Nat
      /\ format \in Seq(Char) /\ Allowed(format, arguments) /\ out \in Seq(Char)
      /\ Between(format, ptr) /\ Printed(format, arguments, ptr - 1, out)
  BY ScanFacts
<1>2. /\ ptr < Len(format) /\ format[ptr] = "%"
      /\ Between(format, ptr + 2) /\ Nth(format, ptr + 1) = Nth(format, ptr)
  BY DirectiveFacts
<1>3. /\ stage' = stage /\ format' = format /\ arguments' = arguments
      /\ ptr' = ptr + 2 /\ out' = out \o text
  OBVIOUS
<1>4. Owed(format, arguments, ptr, out \o text)
  BY <1>1, OwedPiece, OverflowTypes
<1>5. Printed(format, arguments, ptr + 1, out')
  BY <1>1, <1>2, <1>3, <1>4, OwedAll
<1>6. ptr + 2 \in Nat \ {0} /\ (ptr + 2) - 1 = ptr + 1 /\ ptr + 2 <= Len(format) + 1
  BY <1>1, <1>2
<1>7. CallTypes'
  BY <1>1, <1>3, <1>6 DEF CallTypes
<1>8. NumberTypes'
  BY DEF FInv, NumberTypes
<1>9. AtBetween'
  BY <1>1, <1>2, <1>3, <1>5, <1>6 DEF AtBetween
<1>10. AtInside' /\ AtDivide' /\ AtReverse' /\ AtPut' /\ AtEnds'
  BY <1>1, <1>3 DEF AtInside, AtDivide, AtReverse, AtPut, AtEnds
<1> QED
  BY <1>7, <1>8, <1>9, <1>10 DEF FInv

LEMMA PutPercentInv == ASSUME FInv, PutPercent PROVE FInv'
<1> USE DEF PutPercent
<1>1. Scanning /\ AtDirective
  OBVIOUS
<1>2. /\ Starts(format, ptr)
      /\ Takes(format, ptr) <=> format[ptr + 1] \in Specifiers
      /\ Nth(format, ptr) = IF format[ptr + 1] \in Specifiers THEN used + 1 ELSE used
      /\ format[ptr + 1] \in Char
  BY <1>1, DirectiveFacts
<1>3. "%" \in Char
  BY CharAssumption
<1>4. CASE format[ptr + 1] = "%" /\ PutChars(<<"%">>, ptr + 2)
  <2>1. format[ptr + 1] \notin Specifiers
    BY <1>4 DEF Specifiers
  <2>2. <<"%">> = PrintedPiece(format, arguments, <<"-">>, ptr)
    BY <1>2, <1>4, <2>1, Zenon DEF PrintedPiece
  <2>3. <<"%">> \in Seq(Char) /\ used' = Nth(format, ptr)
    BY <1>2, <1>3, <2>1
  <2> QED
    BY <1>1, <1>4, <2>2, <2>3, PutWhole
<1>5. CASE /\ format[ptr + 1] \notin {"d", "i", "u", "x", "X", "c", "s", "p", "%"}
           /\ PutChars(<<"%", format[ptr + 1]>>, ptr + 2)
  <2>1. format[ptr + 1] \notin Specifiers /\ format[ptr + 1] # "%"
    BY <1>5 DEF Specifiers
  <2>2. <<"%", format[ptr + 1]>> = PrintedPiece(format, arguments, <<"-">>, ptr)
    BY <1>2, <2>1, Zenon DEF PrintedPiece
  <2>3. <<"%", format[ptr + 1]>> \in Seq(Char) /\ used' = Nth(format, ptr)
    BY <1>2, <1>3, <2>1
  <2> QED
    BY <1>1, <1>5, <2>2, <2>3, PutWhole
<1> QED
  BY <1>4, <1>5

(* The argument of a directive has the type that the directive asks for.   *)
LEMMA ArgumentFacts ==
  ASSUME FInv, Scanning, AtDirective, format[ptr + 1] \in Specifiers
  PROVE  /\ arguments[used + 1] \in Argument(format[ptr + 1])
         /\ used + 1 = Nth(format, ptr)
         /\ \A overflow : PrintedPiece(format, arguments, overflow, ptr)
                            = PrintedExpansion(format[ptr + 1], arguments[used + 1], overflow)
<1>1. Takes(format, ptr) /\ used + 1 = Nth(format, ptr) /\ ptr < Len(format)
  BY DirectiveFacts
<1>2. Allowed(format, arguments) /\ ptr \in 1 .. Len(format)
  BY <1>1, ScanFacts
<1>3. arguments[Nth(format, ptr)] \in Argument(format[ptr + 1])
  BY <1>1, <1>2, FormatIs
<1>4. \A overflow : PrintedPiece(format, arguments, overflow, ptr)
                     = PrintedExpansion(format[ptr + 1], arguments[Nth(format, ptr)], overflow)
  BY <1>1, Zenon DEF PrintedPiece
<1> QED
  BY <1>1, <1>3, <1>4

LEMMA PutArgumentInv == ASSUME FInv, PutArgument PROVE FInv'
<1> USE DEF PutArgument
<1>1. Scanning /\ AtDirective /\ format[ptr + 1] = "c" /\ used' = used + 1
      /\ PutChars(<<arguments[used + 1]>>, ptr + 2)
  OBVIOUS
<1>2. format[ptr + 1] \in Specifiers
  BY <1>1 DEF Specifiers
<1>3. /\ arguments[used + 1] \in Argument("c")
      /\ used + 1 = Nth(format, ptr)
      /\ PrintedPiece(format, arguments, <<"-">>, ptr) = PrintedExpansion("c", arguments[used + 1], <<"-">>)
  BY <1>1, <1>2, ArgumentFacts
<1>4. arguments[used + 1] \in Char
  BY <1>3 DEF Argument
<1>5. <<arguments[used + 1]>> = PrintedPiece(format, arguments, <<"-">>, ptr)
  BY <1>3 DEF PrintedExpansion
<1>6. <<arguments[used + 1]>> \in Seq(Char)
  BY <1>4
<1> QED
  BY <1>1, <1>3, <1>5, <1>6, PutWhole

LEMMA EnterDirective ==
  ASSUME FInv, Scanning, AtDirective, format[ptr + 1] \in Specifiers,
         stage' \in {"divide", "put"}, UNCHANGED call_vars, ptr' = ptr + 1, used' = used + 1,
         out' \in Seq(Char), NumberTypes', AtDivide', AtPut'
  PROVE  FInv'
<1> USE DEF call_vars
<1>1. /\ ptr \in Nat \ {0} /\ Len(format) \in Nat /\ Allowed(format, arguments)
      /\ Between(format, ptr)
  BY ScanFacts
<1>2. ptr < Len(format) /\ Takes(format, ptr) /\ used + 1 = Nth(format, ptr)
  BY DirectiveFacts
<1>3. ptr + 1 \in Nat \ {0} /\ ptr + 1 > 1 /\ ptr + 1 <= Len(format) /\ (ptr + 1) - 1 = ptr
  BY <1>1, <1>2
<1>4. format' = format /\ arguments' = arguments
  OBVIOUS
<1>5. CallTypes'
  BY <1>1, <1>3, <1>4 DEF CallTypes
<1>6. AtInside'
  BY <1>1, <1>2, <1>3, <1>4 DEF AtInside
<1>7. AtBetween' /\ AtReverse' /\ AtEnds'
  BY DEF AtBetween, AtReverse, AtEnds
<1> QED
  BY <1>5, <1>6, <1>7 DEF FInv

(* The state in which a conversion leaves printf.                          *)
LEMMA ConvertInv ==
  ASSUME NEW v \in 0 .. UINT - 1, NEW b \in {10, 16}, NEW table \in {LowerDigits, UpperDigits},
         Convert(v, b, table), Owed(format', arguments', ptr' - 1, out' \o Numeral(v, b, table))
  PROVE  NumberTypes' /\ AtDivide' /\ AtPut' /\ stage' \in {"divide", "put"}
<1>1. /\ value' = v /\ base' = b /\ digits' = table /\ temp' = <<>>
      /\ stage' = IF v = 0 THEN "put" ELSE "divide"
      /\ buffer' = IF v = 0 THEN <<"0">> ELSE <<>>
  BY DEF Convert
<1>2. table \in [1 .. 16 -> Char] /\ table[1] = "0"
  <2>1. LowerDigits[1] = "0" /\ UpperDigits[1] = "0"
    BY DEF LowerDigits, UpperDigits
  <2> QED
    BY <2>1, DigitTables
<1>3. <<>> \in Seq(Char) /\ Len(<<>>) = 0 /\ <<"0">> \in Seq(Char) /\ Len(<<>>) < IntBits
  BY CharAssumption, Bits
<1>4. NumberTypes'
  BY <1>1, <1>2, <1>3 DEF NumberTypes
<1>5. CASE v = 0
  <2>1. Numeral(v, b, table) = <<"0">>
    BY <1>2, <1>5, NumeralOfZero
  <2>2. stage' = "put" /\ buffer' = <<"0">>
    BY <1>1, <1>5
  <2>3. Owed(format', arguments', ptr' - 1, out' \o buffer')
    BY <2>1, <2>2
  <2>4. AtPut'
    BY <2>3 DEF AtPut, Showing
  <2>5. AtDivide'
    BY <2>2 DEF AtDivide
  <2> QED
    BY <1>4, <2>2, <2>4, <2>5
<1>6. CASE v # 0
  <2>1. stage' = "divide" /\ buffer' = <<>>
    BY <1>1, <1>6
  <2>2. Numeral(v, b, table) \in Seq(Char)
    BY <1>2, NumeralType
  <2>3. <<>> \o Numeral(v, b, table) = Numeral(v, b, table)
    BY <2>2, ConcatEmptySeq
  <2>4. Owed(format', arguments', ptr' - 1, out' \o (buffer' \o Numeral(v, base', digits')))
    BY <1>1, <2>1, <2>3
  <2>5. Dividing(v, value', base', digits', temp')
    BY <1>1, DividingFirst
  <2>6. value' # 0 /\ Len(buffer') <= 1
    BY <1>1, <1>3, <1>6, <2>1
  <2>7. AtDivide'
    BY <2>4, <2>5, <2>6 DEF AtDivide, Showing
  <2>8. AtPut'
    BY <2>1 DEF AtPut
  <2> QED
    BY <1>4, <2>1, <2>7, <2>8
<1> QED
  BY <1>5, <1>6

LEMMA ConvertArgumentInv == ASSUME FInv, ConvertArgument PROVE FInv'
<1> DEFINE letter == format[ptr + 1]
           argument == arguments[used + 1]
<1>1. Scanning /\ AtDirective /\ used' = used + 1 /\ ptr' = ptr + 1 /\ UNCHANGED call_vars
  BY DEF ConvertArgument
<1>2. /\ ptr \in Nat \ {0} /\ out \in Seq(Char) /\ NumberTypes
      /\ Printed(format, arguments, ptr - 1, out)
  BY <1>1, ScanFacts DEF FInv
<1>3. ptr' - 1 = ptr /\ format' = format /\ arguments' = arguments
  BY <1>1, <1>2 DEF call_vars
<1>4. ASSUME letter \in Specifiers
      PROVE  /\ argument \in Argument(letter)
             /\ \A overflow : PrintedPiece(format, arguments, overflow, ptr)
                             = PrintedExpansion(letter, argument, overflow)
  BY <1>1, <1>4, ArgumentFacts
<1>5. ASSUME letter \in Specifiers, NEW overflow \in IntMinTexts, NEW text \in Seq(Char),
             text = PrintedExpansion(letter, argument, overflow)
      PROVE  Owed(format', arguments', ptr' - 1, out \o text)
  <2>1. text = PrintedPiece(format, arguments, overflow, ptr)
    BY <1>4, <1>5
  <2>2. Owed(format, arguments, ptr, out \o text)
    BY <1>2, <1>5, <2>1, OwedPiece
  <2> QED
    BY <1>3, <2>2
<1>6. <<"-">> \in IntMinTexts
  BY OverflowTypes
<1>7. ASSUME NEW v \in 0 .. UINT - 1, NEW b \in {10, 16},
             NEW table \in {LowerDigits, UpperDigits}, Convert(v, b, table), UNCHANGED out,
             letter \in Specifiers, PrintedExpansion(letter, argument, <<"-">>) = Numeral(v, b, table)
      PROVE  FInv'
  <2>1. Numeral(v, b, table) \in Seq(Char)
    BY <1>7, NumeralType, DigitTables
  <2>2. Owed(format', arguments', ptr' - 1, out' \o Numeral(v, b, table))
    BY <1>5, <1>6, <1>7, <2>1
  <2>3. NumberTypes' /\ AtDivide' /\ AtPut' /\ stage' \in {"divide", "put"}
    BY <1>7, <2>2, ConvertInv
  <2> QED
    BY <1>1, <1>2, <1>7, <2>3, EnterDirective
<1>8. 0 \in Nat /\ UINT \in Nat /\ UINT = 2 * (-INT_MIN) /\ -INT_MIN \in Nat \ {0} /\ INT_MIN \in Int
  BY IntRange
<1>9. ASSUME letter \in {"d", "i"}, int_to_str(argument), UNCHANGED out PROVE FInv'
  <2>1. letter \in Specifiers
    BY <1>9 DEF Specifiers
  <2>2. argument \in INT_MIN .. -INT_MIN - 1
    BY <1>4, <1>9, <2>1 DEF Argument
  <2>3. \A overflow : PrintedExpansion(letter, argument, overflow) =
          IF argument = INT_MIN THEN overflow
          ELSE IF argument < 0 THEN <<"-">> \o Numeral(-argument, 10, LowerDigits)
          ELSE Numeral(argument, 10, LowerDigits)
    BY <1>9, Zenon DEF PrintedExpansion
  <2> HIDE DEF letter, argument
  <2>4. argument \in Int
    BY <1>8, <2>2
  <2>5. CASE argument >= 0 /\ Convert(argument, 10, LowerDigits)
    <3>1. argument \in 0 .. UINT - 1 /\ ~(argument < 0) /\ argument # INT_MIN
      BY <1>8, <2>2, <2>5
    <3>2. PrintedExpansion(letter, argument, <<"-">>) = Numeral(argument, 10, LowerDigits)
      BY <2>3, <3>1
    <3> QED
      BY <1>7, <1>9, <2>1, <2>5, <3>1, <3>2
  <2>6. CASE /\ argument < 0
             /\ value' = -argument /\ base' = 10 /\ digits' = LowerDigits /\ temp' = <<>>
             /\ stage' = "divide"
             /\ buffer' = <<"-">>
    <3> DEFINE v == -argument
               number == Numeral(v, 10, LowerDigits)
    <3>1. v \in 0 .. UINT - 1 /\ v # 0
      BY <1>8, <2>2, <2>4, <2>6
    <3>2. value' = v
      BY <2>6
    <3>3. PICK overflow \in IntMinTexts :
            PrintedExpansion(letter, argument, overflow) = <<"-">> \o number
      <4>1. CASE argument = INT_MIN
        <5>1. <<"-">> \o number \in IntMinTexts
          BY <4>1 DEF IntMinTexts
        <5> QED
          BY <2>3, <4>1, <5>1
      <4>2. CASE argument # INT_MIN
        BY <1>6, <2>3, <2>6, <4>2
      <4> QED
        BY <4>1, <4>2
    <3> HIDE DEF v
    <3>4. LowerDigits \in [1 .. 16 -> Char] /\ 10 \in {10, 16}
      BY DigitTables
    <3>5. number \in Seq(Char)
      BY <3>1, <3>4, NumeralType
    <3>6. <<"-">> \in Seq(Char) /\ Len(<<"-">>) = 1 /\ <<>> \in Seq(Char) /\ Len(<<>>) < IntBits
      BY Bits, CharAssumption
    <3>7. NumberTypes'
      BY <2>6, <3>1, <3>2, <3>4, <3>6 DEF NumberTypes
    <3>8. Owed(format', arguments', ptr' - 1, out \o (<<"-">> \o number))
      <4> HIDE DEF number
      <4>1. <<"-">> \o number \in Seq(Char)
        BY <3>5, <3>6
      <4> QED
        BY <1>5, <2>1, <3>3, <4>1
    <3>9. Dividing(v, value', base', digits', temp')
      BY <2>6, <3>1, <3>2, DividingFirst
    <3>10. Owed(format', arguments', ptr' - 1, out' \o (buffer' \o Numeral(v, base', digits')))
      BY <1>9, <2>6, <3>8
    <3>11. value' # 0 /\ Len(buffer') <= 1
      BY <2>6, <3>1, <3>2, <3>6
    <3>12. AtDivide'
      BY <3>9, <3>10, <3>11 DEF AtDivide, Showing
    <3>13. AtPut' /\ stage' \in {"divide", "put"}
      BY <2>6 DEF AtPut
    <3>14. out' \in Seq(Char)
      BY <1>2, <1>9
    <3> QED
      BY <1>1, <2>1, <3>7, <3>12, <3>13, <3>14, EnterDirective DEF letter
  <2>7. CASE argument = INT_MIN /\ buffer' \in OverflowTexts /\ stage' = "put" /\ UNCHANGED number_vars
    <3>1. buffer' \in Seq(Char)
      BY <2>7, OverflowTypes DEF IntMinTexts
    <3>2. PrintedExpansion(letter, argument, buffer') = buffer' /\ buffer' \in IntMinTexts
      BY <2>3, <2>7 DEF IntMinTexts
    <3>3. Owed(format', arguments', ptr' - 1, out \o buffer')
      BY <1>5, <2>1, <3>1, <3>2
    <3>4. AtPut'
      BY <1>9, <3>3 DEF AtPut, Showing
    <3>5. NumberTypes'
      BY <1>2, <2>7, <3>1 DEF NumberTypes, number_vars
    <3>6. AtDivide' /\ stage' \in {"divide", "put"}
      BY <2>7 DEF AtDivide
    <3>7. out' \in Seq(Char)
      BY <1>2, <1>9
    <3> QED
      BY <1>1, <2>1, <3>4, <3>5, <3>6, <3>7, EnterDirective DEF letter
  <2> QED
    BY <1>9, <2>5, <2>6, <2>7 DEF int_to_str
<1>10. ASSUME letter \in {"u", "x", "X"}, UNCHANGED out, NEW b \in {10, 16},
              NEW table \in {LowerDigits, UpperDigits}, Convert(argument, b, table),
              PrintedExpansion(letter, argument, <<"-">>) = Numeral(argument, b, table)
       PROVE  FInv'
  <2>1. letter \in Specifiers
    BY <1>10 DEF Specifiers
  <2>2. argument \in 0 .. UINT - 1
    BY <1>4, <1>10, <2>1 DEF Argument
  <2> QED
    BY <1>7, <1>10, <2>1, <2>2
<1>11. ASSUME letter = "u", uint_to_str(argument, 10), UNCHANGED out PROVE FInv'
  <2>1. PrintedExpansion("u", argument, <<"-">>) = Numeral(argument, 10, LowerDigits)
    BY DEF PrintedExpansion
  <2> QED
    BY <1>10, <1>11, <2>1 DEF uint_to_str
<1>12. ASSUME letter = "x", uint_to_str(argument, 16), UNCHANGED out PROVE FInv'
  <2>1. PrintedExpansion("x", argument, <<"-">>) = Numeral(argument, 16, LowerDigits)
    BY DEF PrintedExpansion
  <2> QED
    BY <1>10, <1>12, <2>1 DEF uint_to_str
<1>13. ASSUME letter = "X", uint_to_hex_upper(argument), UNCHANGED out PROVE FInv'
  <2>1. PrintedExpansion("X", argument, <<"-">>) = Numeral(argument, 16, UpperDigits)
    BY DEF PrintedExpansion
  <2> QED
    BY <1>10, <1>13, <2>1 DEF uint_to_hex_upper
<1>14. ASSUME letter = "p", uint_to_str(argument % UINT, 16), out' = out \o <<"0", "x">>
       PROVE  FInv'
  <2>1. letter \in Specifiers
    BY <1>14 DEF Specifiers
  <2>2. argument \in 0 .. UINT * UINT - 1
    BY <1>4, <1>14, <2>1 DEF Argument
  <2>3. PrintedExpansion("p", argument, <<"-">>) = <<"0", "x">> \o Numeral(argument % UINT, 16, LowerDigits)
    BY DEF PrintedExpansion
  <2> DEFINE v == argument % UINT
             number == Numeral(v, 16, LowerDigits)
             prefix == <<"0", "x">>
  <2>4. v \in 0 .. UINT - 1
    <3>1. argument \in Int /\ UINT \in Nat \ {0}
      BY <1>8, <2>2
    <3> HIDE DEF argument
    <3> QED
      BY <3>1
  <2>5. prefix \in Seq(Char)
    BY CharAssumption
  <2>6. Convert(v, 16, LowerDigits)
    BY <1>14 DEF uint_to_str
  <2>7. PrintedExpansion(letter, argument, <<"-">>) = prefix \o number
    BY <1>14, <2>3
  <2>8. out' = out \o prefix
    BY <1>14
  <2> HIDE DEF v, prefix
  <2>9. number \in Seq(Char)
    BY <2>4, NumeralType, DigitTables
  <2> HIDE DEF number
  <2>10. prefix \o number \in Seq(Char) /\ out' \in Seq(Char)
    BY <1>2, <2>5, <2>8, <2>9
  <2>11. Owed(format', arguments', ptr' - 1, out \o (prefix \o number))
    BY <1>5, <1>6, <2>1, <2>7, <2>10
  <2>12. out' \o number = out \o (prefix \o number)
    BY <1>2, <2>5, <2>8, <2>9, ConcatAssociative
  <2>13. Owed(format', arguments', ptr' - 1, out' \o Numeral(v, 16, LowerDigits))
    BY <2>11, <2>12 DEF number
  <2>14. NumberTypes' /\ AtDivide' /\ AtPut' /\ stage' \in {"divide", "put"}
    BY <2>4, <2>6, <2>13, ConvertInv
  <2> QED
    BY <1>1, <2>1, <2>10, <2>14, EnterDirective
<1>15. ASSUME letter = "s", stage' = "put", UNCHANGED <<number_vars, out>>,
              buffer' = IF argument = NULL THEN <<"(", "n", "u", "l", "l", ")">> ELSE argument
       PROVE  FInv'
  <2>1. letter \in Specifiers
    BY <1>15 DEF Specifiers
  <2>2. argument \in Seq(Char) \cup {NULL}
    BY <1>4, <1>15, <2>1 DEF Argument
  <2>3. PrintedExpansion("s", argument, <<"-">>) = buffer'
    BY <1>15 DEF PrintedExpansion
  <2>4. buffer' \in Seq(Char)
    <3>1. <<"(", "n", "u", "l", "l", ")">> \in Seq(Char)
      BY CharAssumption
    <3> QED
      BY <1>15, <2>2, <3>1
  <2>5. Owed(format', arguments', ptr' - 1, out \o buffer')
    BY <1>5, <1>6, <1>15, <2>1, <2>3, <2>4
  <2>6. AtPut'
    BY <1>15, <2>5 DEF AtPut, Showing
  <2>7. NumberTypes'
    BY <1>2, <1>15, <2>4 DEF NumberTypes, number_vars
  <2>8. AtDivide' /\ stage' \in {"divide", "put"} /\ out' \in Seq(Char)
    BY <1>2, <1>15 DEF AtDivide
  <2> QED
    BY <1>1, <2>1, <2>6, <2>7, <2>8, EnterDirective
<1> HIDE DEF letter, argument
<1>16. \/ letter \in {"d", "i"} /\ int_to_str(argument) /\ UNCHANGED out
       \/ letter = "u" /\ uint_to_str(argument, 10) /\ UNCHANGED out
       \/ letter = "x" /\ uint_to_str(argument, 16) /\ UNCHANGED out
       \/ letter = "X" /\ uint_to_hex_upper(argument) /\ UNCHANGED out
       \/ letter = "p" /\ uint_to_str(argument % UINT, 16) /\ out' = out \o <<"0", "x">>
       \/ /\ letter = "s" /\ stage' = "put" /\ UNCHANGED <<number_vars, out>>
          /\ buffer' = IF argument = NULL THEN <<"(", "n", "u", "l", "l", ")">> ELSE argument
  BY Zenon DEF ConvertArgument, letter, argument
<1> QED
  BY <1>9, <1>11, <1>12, <1>13, <1>14, <1>15, <1>16, Zenon

-----------------------------------------------------------------------------
(* The theorems.                                                           *)

LEMMA FInvStep == ASSUME FInv, [FormatNext]_format_vars PROVE FInv'
<1>1. CASE printf
  BY <1>1, printfInv
<1>2. CASE Divide
  BY <1>2, DivideInv
<1>3. CASE TakeBack
  BY <1>3, TakeBackInv
<1>4. CASE PutLiteral
  BY <1>4, PutLiteralInv
<1>5. CASE PutPercent
  BY <1>5, PutPercentInv
<1>6. CASE PutArgument
  BY <1>6, PutArgumentInv
<1>7. CASE ConvertArgument
  BY <1>7, ConvertArgumentInv
<1>8. CASE PutText
  BY <1>8, PutTextInv
<1>9. CASE EndOfFormat
  BY <1>9, EndOfFormatInv
<1>10. CASE FormatReturn
  BY <1>10, FormatReturnInv
<1>11. CASE UNCHANGED format_vars
  <2>1. /\ CallTypes' <=> CallTypes
        /\ NumberTypes' <=> NumberTypes
    BY <1>11 DEF format_vars, call_vars, number_vars, CallTypes, NumberTypes
  <2>2. /\ AtBetween' <=> AtBetween
        /\ AtInside' <=> AtInside
        /\ AtEnds' <=> AtEnds
    BY <1>11 DEF format_vars, call_vars, number_vars, AtBetween, AtInside, AtEnds
  <2>3. /\ AtDivide' <=> AtDivide
        /\ AtReverse' <=> AtReverse
        /\ AtPut' <=> AtPut
    BY <1>11 DEF format_vars, call_vars, number_vars, AtDivide, AtReverse, AtPut, Showing
  <2> QED
    BY <2>1, <2>2, <2>3 DEF FInv
<1> QED
  BY <1>1, <1>2, <1>3, <1>4, <1>5, <1>6, <1>7, <1>8, <1>9, <1>10, <1>11
     DEF FormatNext, FormatStep

(* A call that is not excepted prints what it means.                       *)
LEMMA ExpansionIsMeant ==
  ASSUME NEW letter, NEW argument \in Argument(letter), ~Unprintable(letter, argument),
         NEW overflow
  PROVE  PrintedExpansion(letter, argument, overflow) = Expansion(letter, argument)
<1>1. CASE letter \in {"d", "i"}
  <2>1. argument # INT_MIN
    BY <1>1 DEF Unprintable
  <2> QED
    BY <1>1, <2>1, Zenon DEF PrintedExpansion, Expansion
<1>2. CASE letter = "p"
  <2>1. argument \in 0 .. UINT * UINT - 1 /\ ~(argument >= UINT)
    BY <1>2 DEF Argument, Unprintable
  <2>2. argument % UINT = argument
    <3>1. UINT \in Nat /\ argument \in Nat /\ argument < UINT
      BY <2>1, IntRange
    <3> QED
      BY <3>1
  <2> QED
    BY <1>2, <2>2 DEF PrintedExpansion, Expansion
<1>3. CASE letter \notin {"d", "i", "p"}
  BY <1>3 DEF PrintedExpansion, Expansion
<1> QED
  BY <1>1, <1>2, <1>3

LEMMA PrintedIsMeant ==
  ASSUME NEW f, NEW supplied, Len(f) \in Nat, Allowed(f, supplied), Printable(f, supplied),
         NEW overflows
  PROVE  PrintedMeaning(f, supplied, overflows) = Meaning(f, supplied)
<1>1. ASSUME NEW k \in 1 .. Len(f), Takes(f, k)
      PROVE  PrintedExpansion(f[k + 1], supplied[Nth(f, k)], overflows[k])
               = Expansion(f[k + 1], supplied[Nth(f, k)])
  <2>1. supplied[Nth(f, k)] \in Argument(f[k + 1]) /\ ~Unprintable(f[k + 1], supplied[Nth(f, k)])
    BY <1>1 DEF Allowed, Printable
  <2> QED
    BY <2>1, ExpansionIsMeant
<1>2. ASSUME NEW k \in 1 .. Len(f)
      PROVE  PrintedPiece(f, supplied, overflows[k], k) = Piece(f, supplied, k)
  <2>1. CASE Takes(f, k)
    BY <1>1, <2>1, Zenon DEF PrintedPiece, Piece
  <2>2. CASE ~Takes(f, k)
    BY <2>2, Zenon DEF PrintedPiece, Piece
  <2> QED
    BY <2>1, <2>2
<1>3. [k \in 1 .. Len(f) |-> PrintedPiece(f, supplied, overflows[k], k)]
        = [k \in 1 .. Len(f) |-> Piece(f, supplied, k)]
  BY <1>2, Zenon
<1> QED
  BY <1>3, Zenon DEF PrintedMeaning, Meaning

LEMMA FInvSafe == ASSUME FInv PROVE FormatTypeOK /\ PrintsMeaning
<1> USE DEF FInv
<1>1. Allowed(format, arguments) /\ ptr \in Nat \ {0}
  BY DEF CallTypes
<1>2. Len(format) \in Nat /\ Len(arguments) = Nth(format, Len(format))
  BY <1>1, FormatIs
<1>3. ptr <= Len(format) + 1 /\ used = Nth(format, ptr - 1)
  BY <1>1, <1>2 DEF CallTypes, AtBetween, AtInside
<1>4. ptr - 1 \in Nat /\ ptr - 1 \in 0 .. Len(format)
  BY <1>1, <1>2, <1>3
<1>5. used \in Nat /\ used <= Len(arguments) /\ Len(arguments) \in Nat
  BY <1>2, <1>3, <1>4, NthStep, NthGrows
<1>6. ASSUME stage \in {"divide", "reverse"} PROVE Len(buffer) + 1 <= IntBits
  <2>1. Len(buffer) \in Nat /\ Len(temp) \in Nat /\ IntBits \in Nat /\ IntBits >= 4
    BY Bits DEF NumberTypes
  <2>2. CASE stage = "divide"
    BY <2>1, <2>2 DEF AtDivide
  <2>3. CASE stage = "reverse"
    BY <2>1, <2>3 DEF AtReverse
  <2> QED
    BY <1>6, <2>2, <2>3
<1>7. FormatTypeOK
  <2>1. used \in 0 .. Len(arguments) /\ ptr \in 1 .. Len(format) + 1
    BY <1>1, <1>2, <1>3, <1>5
  <2> QED
    BY <1>6, <2>1 DEF FormatTypeOK, CallTypes, NumberTypes
<1>8. ASSUME stage = "returned"
      PROVE  /\ used = Len(arguments)
             /\ Printable(format, arguments) => out = Meaning(format, arguments)
  <2>1. ptr - 1 = Len(format)
    BY <1>1, <1>2, <1>8 DEF AtEnds
  <2>2. Printed(format, arguments, Len(format), out)
    BY <1>8, <2>1 DEF AtBetween
  <2>3. PICK overflows : out = PrintedMeaning(format, arguments, overflows)
    BY <1>2, <2>2, PrintedAll
  <2>4. Printable(format, arguments) => out = Meaning(format, arguments)
    BY <1>1, <1>2, <2>3, PrintedIsMeant
  <2> QED
    BY <1>2, <1>3, <2>1, <2>4
<1> QED
  BY <1>7, <1>8 DEF PrintsMeaning

LEMMA FInvAlways == FormatSpec => []FInv
<1>1. FInv /\ [FormatNext]_format_vars => FInv'
  BY FInvStep
<1> QED
  BY FormatInitInv, <1>1, PTL DEF FormatSpec

(* The buffers of printf's conversions, a char for every bit, are never    *)
(* overrun, and no argument is taken that was not given.                   *)
THEOREM FormatTypeCorrect == FormatSpec => []FormatTypeOK
BY FInvAlways, FInvSafe, PTL

(* printf prints what its format and arguments mean, for every call but    *)
(* those with INT_MIN or a pointer that does not fit in an int, and always *)
(* uses up its arguments (console.c:129-318).                              *)
THEOREM PrintsWhatIsMeant == FormatSpec => []PrintsMeaning
BY FInvAlways, FInvSafe, PTL
=============================================================================
