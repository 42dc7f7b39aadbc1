------------------------------- MODULE Format -------------------------------
(***************************************************************************)
(* printf of console.c with its conversions int_to_str, uint_to_str and    *)
(* uint_to_hex_upper, which only printf calls: one action per directive    *)
(* and per digit.  A format is a sequence of characters; what reaches      *)
(* putChar is another.                                                     *)
(*                                                                         *)
(* int and unsigned int have IntBits bits (32 in the build), and pointers  *)
(* twice as many.  IntBits - 1 is 3 modulo 4, as 31 is, so that the last   *)
(* decimal digit of INT_MIN is an 8 here too.                              *)
(***************************************************************************)
EXTENDS Integers, SequencesExt

CONSTANTS
  IntBits,
  NULL,
  Char,
  Calls      \* formats with their arguments, of the types they ask for

ASSUME FormatAssumption == IntBits \in Nat \ {0} /\ (IntBits - 1) % 4 = 3

(* Powers of b, as far as an int needs them.                               *)
Power(b) ==
  LET power[n \in 0 .. IntBits] == IF n = 0 THEN 1 ELSE b * power[n - 1]
  IN  power

UINT == Power(2)[IntBits]           \* UINT_MAX + 1
INT_MIN == -Power(2)[IntBits - 1]

LowerDigits == <<"0", "1", "2", "3", "4", "5", "6", "7", "8", "9",
                 "a", "b", "c", "d", "e", "f">>
UpperDigits == <<"0", "1", "2", "3", "4", "5", "6", "7", "8", "9",
                 "A", "B", "C", "D", "E", "F">>

(* The characters that printf has of its own.                              *)
ASSUME CharAssumption ==
  {"0", "1", "2", "3", "4", "5", "6", "7", "8", "9", "a", "b", "c", "d", "e", "f",
   "A", "B", "C", "D", "E", "F", "%", "-", "(", ")", "n", "u", "l", "x"} \subseteq Char

VARIABLES
  format, arguments, \* of the call
  used,              \* arguments taken by va_arg
  ptr,
  stage,             \* where printf is
  value, base, digits,   \* of the conversion
  temp, buffer,
  out                \* what putChar got

number_vars == <<value, base, digits, temp>>
call_vars == <<format, arguments>>
format_vars == <<call_vars, used, ptr, stage, number_vars, buffer, out>>

FormatInit ==
  /\ format = <<>> /\ arguments = <<>>
  /\ used = 0 /\ ptr = 1 /\ stage = "idle"
  /\ value = 0 /\ base = 10 /\ digits = LowerDigits
  /\ temp = <<>> /\ buffer = <<>> /\ out = <<>>

printf ==
  /\ stage = "idle"
  /\ \E call \in Calls : format' = call.format /\ arguments' = call.arguments
  /\ stage' = "scan"
  /\ UNCHANGED <<used, ptr, number_vars, buffer, out>>

-----------------------------------------------------------------------------
(* The conversions.                                                        *)

(* When value is INT_MIN, -value overflows.  If the result is INT_MIN       *)
(* again, buffer is left as one of these: the build may test the loop's    *)
(* condition before the first digit or not ('0' - 8 is '(').  A compiler   *)
(* may also make the digits of the number that was meant.                  *)
OverflowTexts == {<<"-">>, <<"-", "(">>}

Convert(v, b, table) ==
  /\ value' = v /\ base' = b /\ digits' = table /\ temp' = <<>>
  /\ stage' = IF v = 0 THEN "put" ELSE "divide"
  /\ buffer' = IF v = 0 THEN <<"0">> ELSE <<>>

(* Mutant: the sign is forgotten.                                          *)
IntToStrUnsigned(v) ==
  \/ v >= 0 /\ Convert(v, 10, LowerDigits)
  \/ v < 0 /\ Convert(-v, 10, LowerDigits)

int_to_str(v) ==
  \/ v >= 0 /\ Convert(v, 10, LowerDigits)
  \/ /\ v < 0
     /\ value' = -v /\ base' = 10 /\ digits' = LowerDigits /\ temp' = <<>>
     /\ stage' = "divide"
     /\ buffer' = <<"-">>
  \/ /\ v = INT_MIN
     /\ buffer' \in OverflowTexts
     /\ stage' = "put"
     /\ UNCHANGED number_vars

uint_to_str(v, b) == Convert(v, b, LowerDigits)

uint_to_hex_upper(v) == Convert(v, 16, UpperDigits)

(* temp[i++] gets the digits from the last one on.                         *)
Divide ==
  /\ stage = "divide"
  /\ temp' = Append(temp, digits[(value % base) + 1])
  /\ value' = value \div base
  /\ stage' = IF value' > 0 THEN "divide" ELSE "reverse"
  /\ UNCHANGED <<call_vars, used, ptr, base, digits, buffer, out>>

TakeBack ==
  /\ stage = "reverse"
  /\ \/ /\ temp # <<>>
        /\ buffer' = Append(buffer, Last(temp))
        /\ temp' = Front(temp)
        /\ UNCHANGED stage
     \/ temp = <<>> /\ stage' = "put" /\ UNCHANGED <<buffer, temp>>
  /\ UNCHANGED <<call_vars, used, ptr, value, base, digits, out>>

-----------------------------------------------------------------------------
(* The loop of printf.                                                     *)

(* A '%' that is not the last character.                                   *)
AtDirective == format[ptr] = "%" /\ ptr < Len(format)

Scanning == stage = "scan" /\ ptr <= Len(format)

(* putChar of characters that are there; the loop goes on at next.         *)
PutChars(chars, next) ==
  /\ out' = out \o chars
  /\ ptr' = next
  /\ UNCHANGED <<call_vars, stage, number_vars, buffer>>

PutLiteral ==
  /\ Scanning /\ ~AtDirective
  /\ PutChars(<<format[ptr]>>, ptr + 1)
  /\ UNCHANGED used

(* Mutant: an argument goes with every letter that is no '%'.             *)
PutPercentTakes ==
  /\ Scanning /\ AtDirective
  /\ \/ format[ptr + 1] = "%" /\ PutChars(<<"%">>, ptr + 2) /\ UNCHANGED used
     \/ /\ format[ptr + 1] \notin {"d", "i", "u", "x", "X", "c", "s", "p", "%"}
        /\ PutChars(<<"%", format[ptr + 1]>>, ptr + 2)
        /\ used' = used + 1

(* %%, and a letter that is no specifier, which takes no argument.         *)
PutPercent ==
  /\ Scanning /\ AtDirective
  /\ \/ format[ptr + 1] = "%" /\ PutChars(<<"%">>, ptr + 2)
     \/ /\ format[ptr + 1] \notin {"d", "i", "u", "x", "X", "c", "s", "p", "%"}
        /\ PutChars(<<"%", format[ptr + 1]>>, ptr + 2)
  /\ UNCHANGED used

PutArgument ==
  /\ Scanning /\ AtDirective /\ format[ptr + 1] = "c"
  /\ PutChars(<<arguments[used + 1]>>, ptr + 2)
  /\ used' = used + 1

ConvertArgument ==
  /\ Scanning /\ AtDirective
  /\ LET argument == arguments[used + 1]
     IN  \/ format[ptr + 1] \in {"d", "i"} /\ int_to_str(argument) /\ UNCHANGED out
         \/ format[ptr + 1] = "u" /\ uint_to_str(argument, 10) /\ UNCHANGED out
         \/ format[ptr + 1] = "x" /\ uint_to_str(argument, 16) /\ UNCHANGED out
         \/ format[ptr + 1] = "X" /\ uint_to_hex_upper(argument) /\ UNCHANGED out
         \/ /\ format[ptr + 1] = "p"
            /\ uint_to_str(argument % UINT, 16)   \* its parameter is unsigned int
            /\ out' = out \o <<"0", "x">>
         \/ /\ format[ptr + 1] = "s"
            /\ buffer' = IF argument = NULL THEN <<"(", "n", "u", "l", "l", ")">> ELSE argument
            /\ stage' = "put"
            /\ UNCHANGED <<number_vars, out>>
  /\ used' = used + 1
  /\ ptr' = ptr + 1
  /\ UNCHANGED call_vars

(* The loop over buffer, or over the string, and ptr++ after it.           *)
PutText ==
  /\ stage = "put"
  /\ \/ /\ buffer # <<>>
        /\ out' = Append(out, Head(buffer))
        /\ buffer' = Tail(buffer)
        /\ UNCHANGED <<ptr, stage>>
     \/ buffer = <<>> /\ stage' = "scan" /\ ptr' = ptr + 1 /\ UNCHANGED <<out, buffer>>
  /\ UNCHANGED <<call_vars, used, number_vars>>

EndOfFormat ==
  /\ stage = "scan" /\ ptr > Len(format)
  /\ stage' = "returned"
  /\ UNCHANGED <<call_vars, used, ptr, number_vars, buffer, out>>

(* Nothing is kept from call to call.                                      *)
FormatReturn ==
  /\ stage = "returned"
  /\ format' = <<>> /\ arguments' = <<>>
  /\ used' = 0 /\ ptr' = 1 /\ stage' = "idle"
  /\ value' = 0 /\ base' = 10 /\ digits' = LowerDigits
  /\ temp' = <<>> /\ buffer' = <<>> /\ out' = <<>>

FormatStep ==
  Divide \/ TakeBack \/ PutLiteral \/ PutPercent \/ PutArgument \/ ConvertArgument
    \/ PutText \/ EndOfFormat

FormatNext == printf \/ FormatStep \/ FormatReturn

FormatSpec == FormatInit /\ [][FormatNext]_format_vars

-----------------------------------------------------------------------------
(* What the format and its arguments ask for.                              *)

(* Directives are found from the end of each run of '%': one starts at a   *)
(* '%' with an even number of them just before it, if something follows.   *)
Percents(f, k) ==
  LET run == {m \in 0 .. k - 1 : \A j \in k - m .. k - 1 : f[j] = "%"}
  IN  Cardinality(run) - 1

Starts(f, k) == f[k] = "%" /\ k < Len(f) /\ Percents(f, k) % 2 = 0

Takes(f, k) == Starts(f, k) /\ f[k + 1] \in {"d", "i", "u", "x", "X", "c", "s", "p"}

(* The type that an argument has by its directive.  The sizes that         *)
(* process_command passes for %d (console.c:400-405) are size_t and        *)
(* uint64_t: they are in range, and each takes the place of one argument.  *)
Argument(specifier) ==
  IF specifier \in {"d", "i"} THEN INT_MIN .. -INT_MIN - 1
  ELSE IF specifier \in {"u", "x", "X"} THEN 0 .. UINT - 1
  ELSE IF specifier = "p" THEN 0 .. UINT * UINT - 1
  ELSE IF specifier = "c" THEN Char
  ELSE Seq(Char) \cup {NULL}

(* Which argument goes with the directive at k.                            *)
Nth(f, k) == Cardinality({j \in 1 .. k : Takes(f, j)})

(* Calls are those that C allows: an argument for every directive.         *)
Allowed(f, supplied) ==
  /\ f \in Seq(Char)
  /\ Len(supplied) = Nth(f, Len(f))
  /\ \A k \in 1 .. Len(f) : Takes(f, k) => supplied[Nth(f, k)] \in Argument(f[k + 1])

ASSUME CallsAssumption == \A call \in Calls : Allowed(call.format, call.arguments)

(* The numeral of v has k digits, for the least k with v < b ^ k.          *)
Numeral(v, b, table) ==
  LET k == CHOOSE len \in 1 .. IntBits :
             v < Power(b)[len] /\ (len = 1 \/ v >= Power(b)[len - 1])
  IN  [j \in 1 .. k |-> table[((v \div Power(b)[k - j]) % b) + 1]]

Expansion(specifier, argument) ==
  IF specifier \in {"d", "i"}
  THEN IF argument < 0 THEN <<"-">> \o Numeral(-argument, 10, LowerDigits)
       ELSE Numeral(argument, 10, LowerDigits)
  ELSE IF specifier = "u" THEN Numeral(argument, 10, LowerDigits)
  ELSE IF specifier = "x" THEN Numeral(argument, 16, LowerDigits)
  ELSE IF specifier = "X" THEN Numeral(argument, 16, UpperDigits)
  ELSE IF specifier = "p" THEN <<"0", "x">> \o Numeral(argument, 16, LowerDigits)
  ELSE IF specifier = "c" THEN <<argument>>
  ELSE IF argument = NULL THEN <<"(", "n", "u", "l", "l", ")">>
  ELSE argument

Piece(f, supplied, k) ==
  IF Takes(f, k) THEN Expansion(f[k + 1], supplied[Nth(f, k)])
  ELSE IF Starts(f, k) THEN IF f[k + 1] = "%" THEN <<"%">> ELSE <<"%", f[k + 1]>>
  ELSE IF k > 1 /\ Starts(f, k - 1) THEN <<>>
  ELSE <<f[k]>>

Meaning(f, supplied) == FlattenSeq([k \in 1 .. Len(f) |-> Piece(f, supplied, k)])

(* What the code does not print as asked for: INT_MIN, which C leaves open *)
(* as soon as it is negated, and a pointer that does not fit in an int.    *)
Unprintable(specifier, argument) ==
  \/ specifier \in {"d", "i"} /\ argument = INT_MIN
  \/ specifier = "p" /\ argument >= UINT

Printable(f, supplied) ==
  \A k \in 1 .. Len(f) : Takes(f, k) => ~Unprintable(f[k + 1], supplied[Nth(f, k)])

-----------------------------------------------------------------------------
(* Properties.                                                             *)

(* The arrays temp and buffer have a char for every bit of an int.         *)
FormatTypeOK ==
  /\ used \in 0 .. Len(arguments)
  /\ ptr \in 1 .. Len(format) + 1
  /\ stage \in {"idle", "scan", "divide", "reverse", "put", "returned"}
  /\ value \in 0 .. UINT - 1 /\ base \in {10, 16}
  /\ Len(temp) < IntBits
  /\ stage \in {"divide", "reverse"} => Len(buffer) + 1 <= IntBits

(* printf prints what its format and arguments mean, numerals without      *)
(* leading zeros, and uses up its arguments.  A call with INT_MIN for %d   *)
(* (console.c:142) or a pointer of more than an int (console.c:292) is     *)
(* excepted: it uses up its arguments, and what it prints is open.         *)
PrintsMeaning ==
  stage = "returned" =>
    /\ used = Len(arguments)
    /\ Printable(format, arguments) => out = Meaning(format, arguments)
=============================================================================
