-------------------------------- MODULE Text --------------------------------
(****************************************************************************)
(* Bytes of strings, and how the code turns digits into numbers: strtoull   *)
(* and strtoul on the texts of the document, parse_number_slice on an ISBN. *)
(****************************************************************************)
EXTENDS Integers, Sequences, SequencesExt

CONSTANT WIDTH      \* numbers of type uint32_t are kept modulo WIDTH

\* 2^32 in the code; what matters is that seven digits fit and more may not.
ASSUME WidthAssumption == WIDTH \in Nat /\ WIDTH >= 10000000

\* A digit is itself.  JUNK: whatever lies behind the NUL
\* (EOS) of a string.
Digit == 0..9
HYPHEN == 10
EOS == 11
JUNK == 12
SPACE == 13
LETTER == 14

\* The first n bytes that are digits, n as large as may be.
LeadingDigits(s) ==
    LET IsOther(c) == c \notin Digit
        stop == SelectInSeq(s, IsOther)
    IN  IF stop = 0 THEN s ELSE SubSeq(s, 1, stop - 1)

Uint32(n) == n % WIDTH

\* The number that the digits make, taken modulo WIDTH as they come, which is the
\* same as at the end for a WIDTH that divides 2^64.
DigitsCut(s) ==
    LET digits == LeadingDigits(s)
        value[n \in 0..Len(digits)] ==
            IF n = 0 THEN 0 ELSE Uint32(value[n - 1] * 10 + digits[n])
    IN  value[Len(digits)]

\* strtoull stored in 32 bits: leading space, a sign, digits; the rest of the
\* text is passed over.
StrtoullCut(s) ==
    LET IsInk(c) == c # SPACE
        from == SelectInSeq(s, IsInk)
        ink == IF from = 0 THEN <<>> ELSE SubSeq(s, from, Len(s))
        negative == ink # <<>> /\ ink[1] = HYPHEN
    IN  IF negative THEN Uint32(-DigitsCut(Tail(ink))) ELSE DigitsCut(ink)

\* strtoul of a length, which has few digits and no sign.
Strtoul(s) ==
    LET digits == LeadingDigits(s)
        value[n \in 0..Len(digits)] ==
            IF n = 0 THEN 0 ELSE value[n - 1] * 10 + digits[n]
    IN  value[Len(digits)]

\* *s - '0' (ASCII; X stands for the letters).
MinusZero(c) ==
    CASE c \in Digit -> c
      [] c = HYPHEN -> -3
      [] c = EOS -> -48
      [] c = SPACE -> -16
      [] OTHER -> 40

Byte(s, o) ==
    IF o < Len(s) THEN s[o + 1] ELSE IF o = Len(s) THEN EOS ELSE JUNK

\* parse_number_slice, from offset o.
ParseNumberSlice(s, o, n) ==
    LET value[k \in 0..n] ==
            IF k = 0 THEN 0 ELSE Uint32(value[k - 1] * 10 + MinusZero(Byte(s, o + k - 1)))
    IN  value[n]

Slice(s, o, n) == [k \in 1..n |-> Byte(s, o + k - 1)]
==============================================================================
