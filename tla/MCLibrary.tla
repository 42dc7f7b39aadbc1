----------------------------- MODULE MCLibrary ------------------------------
(* Every number of a byte under every conversion, pointers of two bytes,   *)
(* and every format of up to four characters with arguments of its types.  *)
EXTENDS Library

Number(specifier, v) == [format |-> <<"%", specifier>>, arguments |-> <<v>>]

MCNumbers ==
  {Number(s, v) : s \in {"d", "i"}, v \in INT_MIN .. -INT_MIN - 1}
    \cup {Number(s, v) : s \in {"u", "x", "X"}, v \in 0 .. UINT - 1}
    \cup {Number("p", v) : v \in {0, 10, UINT - 1, UINT, UINT + 171, UINT * UINT - 1}}

MCChar ==
  Range(LowerDigits) \cup Range(UpperDigits)
    \cup {"%", "-", "(", ")", "n", "u", "l", "x", "k", "t", "i", "X", "p", "s", "q"}

Alphabet == {"%", "d", "s", "c", "q"}

(* The nth argument, by its type; a string may be missing or empty.       *)
MCArgument(specifier, nth) ==
  IF specifier = "d" THEN 30 - 21 * nth
  ELSE IF specifier = "c" THEN "k"
  ELSE IF nth = 1 THEN <<"t", "u">> ELSE IF nth = 2 THEN NULL ELSE <<>>

ArgumentsOf(f) ==
  LET taking == SetToSortSeq({k \in 1 .. Len(f) : Takes(f, k)}, <)
  IN  [j \in 1 .. Len(taking) |-> MCArgument(f[taking[j] + 1], j)]

MCFormats == {[format |-> f, arguments |-> ArgumentsOf(f)] : f \in SeqOf(Alphabet, 4)}

Overflows == [format |-> <<"%", "d", "%", "i">>, arguments |-> <<INT_MIN, INT_MIN>>]

MCCalls == MCNumbers \cup MCFormats \cup {Overflows}
=============================================================================
