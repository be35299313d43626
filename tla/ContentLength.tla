--------------------------- MODULE ContentLength ---------------------------
(***************************************************************************)
(* HeadersParser::GetContentLength: the decimal number in the value of a   *)
(* Content-Length header, computed in a size_t that must not exceed        *)
(* max_body_size at any point.  A character of the value is a digit, a     *)
(* space or neither.                                                       *)
(*                                                                         *)
(* With it, the reference that the properties of both parsers share: where *)
(* a head ends.                                                            *)
(***************************************************************************)
EXTENDS Integers, SequencesExt

CONSTANT MaxBody    \* max_body_size, 1 << 22

ASSUME MaxBodyAssumption == MaxBody \in Nat \ {0}

Digits == 0..9
Space == 10
Other == 11

ValueChars == Digits \cup {Space, Other}

InvalidLength == -2     \* std::nullopt

\* The off-by-one that lets a value pass the limit in the last digit.
AddDigitLate(n, d) ==
    IF n = InvalidLength \/ d = Other THEN InvalidLength
    ELSE IF d = Space THEN n
    ELSE IF n > MaxBody \div 10 THEN InvalidLength
    ELSE n * 10 + d

\* One turn of the loop; n is the length so far.
AddDigit(n, d) ==
    IF n = InvalidLength \/ d = Other THEN InvalidLength
    ELSE IF d = Space THEN n
    ELSE IF n > MaxBody \div 10 THEN InvalidLength
    ELSE IF n * 10 > MaxBody - d THEN InvalidLength
    ELSE n * 10 + d

\* The value of a header that is present; without one the length is 0.
GetContentLength(value) ==
    LET after[i \in 0..Len(value)] ==
            IF i = 0 THEN 0 ELSE AddDigit(after[i - 1], value[i])
    IN after[Len(value)]

-----------------------------------------------------------------------------
(* The reference: positional notation, no running total.                   *)

\* Of the last k characters, the weight of a digit before them and their sum.
Weight(value) ==
    LET weight[k \in 0..Len(value)] ==
            IF k = 0 THEN 1
            ELSE IF value[Len(value) + 1 - k] = Space THEN weight[k - 1]
            ELSE 10 * weight[k - 1]
    IN weight

WeightedSum(value) ==
    LET sum[k \in 0..Len(value)] ==
            IF k = 0 THEN 0
            ELSE IF value[Len(value) + 1 - k] = Space THEN sum[k - 1]
            ELSE sum[k - 1] + value[Len(value) + 1 - k] * Weight(value)[k - 1]
    IN sum

Decimal(value) == WeightedSum(value)[Len(value)]

WellFormed(value) == Other \notin ToSet(value)

\* GetContentLength returns the decimal value of every value that is made of
\* digits and spaces and does not exceed the limit, and nothing for the others.
\* No value, however long, makes the running total wrap or slip past the limit.
ExactLength(value) ==
    GetContentLength(value) =
        IF WellFormed(value) /\ Decimal(value) <= MaxBody
        THEN Decimal(value) ELSE InvalidLength

-----------------------------------------------------------------------------
(* A reference for the properties of both parsers: where a head ends.      *)

\* Matching CR LF CR LF, independently of the parsers: n characters of it match.
MatchBlankLine(n, ch) ==
    IF ch = "cr" THEN (IF n = 2 THEN 3 ELSE 1)
    ELSE IF ch = "lf" /\ n = 1 THEN 2
    ELSE IF ch = "lf" /\ n = 3 THEN 4
    ELSE 0
=============================================================================
