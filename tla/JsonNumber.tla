----------------------------- MODULE JsonNumber -----------------------------
(***************************************************************************)
(* LoadNumber of lib/json/json.cpp, on sequences of characters: how far a  *)
(* number reaches, and whether it is an int.                               *)
(***************************************************************************)
EXTENDS Integers, SequencesExt

CONSTANTS
    IntLimit,       \* the largest int, 2^31 - 1
    ExponentLimit   \* the largest exponent of a double, 308

\* The digits that matter, and what else a number is made of.
Digits      == {"0", "1"}
NumberChars == Digits \cup {"-", ".", "e", "+"}

-----------------------------------------------------------------------------
\* peek()
At(input, i) == IF i <= Len(input) THEN input[i] ELSE "end of input"

\* read_digits: the position behind the digits that begin at the i-th character.  It
\* throws where that is i itself.
BehindDigits(input, i) ==
    CHOOSE k \in i .. Len(input) + 1 :
        At(input, k) \notin Digits /\ \A j \in i .. k - 1 : input[j] \in Digits

\* BehindWhole that reads on behind a leading zero.
BehindWholeAnyDigits(input, i) == BehindDigits(input, i)

\* Behind the 0 of a number JSON has no other digits.
BehindWhole(input, i) == IF At(input, i) = "0" THEN i + 1 ELSE BehindDigits(input, i)

BehindSign(input, i, signs) == IF At(input, i) \in signs THEN i + 1 ELSE i

Number(digits) == FoldLeft(LAMBDA n, c : 10 * n + IF c = "1" THEN 1 ELSE 0, 0, digits)

\* std::stoi throws.
IntOverflows(input, whole, point) ==
    Number(SubSeq(input, whole, point - 1)) > (IF whole = 1 THEN IntLimit ELSE IntLimit + 1)

\* std::stod throws, for numbers that are too large or too small; of those with few
\* digits in front of the exponent only a zero never is.
DoubleOverflows(input, letter, exponent, end) ==
    /\ "1" \in Range(SubSeq(input, 1, letter - 1))
    /\ Number(SubSeq(input, exponent, end - 1)) > ExponentLimit

NoNumber == [failed |-> "parsing error"]

\* Whether it is an int or a double, and what is left of the input.
LoadNumber(input) ==
    LET whole    == BehindSign(input, 1, {"-"})
        point    == BehindWhole(input, whole)
        fraction == IF At(input, point) = "." THEN point + 1 ELSE point
        letter   == IF At(input, point) = "." THEN BehindDigits(input, fraction) ELSE point
        exponent == IF At(input, letter) = "e" THEN BehindSign(input, letter + 1, {"+", "-"}) ELSE letter
        end      == IF At(input, letter) = "e" THEN BehindDigits(input, exponent) ELSE letter
        is_int   == end = point
    IN  IF \/ point = whole
           \/ At(input, point) = "." /\ letter = fraction
           \/ At(input, letter) = "e" /\ end = exponent
           \/ IF is_int THEN IntOverflows(input, whole, point)
              ELSE DoubleOverflows(input, letter, exponent, end)
        THEN NoNumber
        ELSE [kind |-> IF is_int THEN "int" ELSE "double", rest |-> SubSeq(input, end, Len(input))]
=============================================================================
