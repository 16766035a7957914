------------------------------ MODULE Decimals ------------------------------
(* Decimal numerals, as strconv.Atoi reads them and as they are written. *)
EXTENDS Integers, Sequences

Front(s) == SubSeq(s, 1, Len(s) - 1)
Last(s)  == s[Len(s)]

Digits     == <<"0", "1", "2", "3", "4", "5", "6", "7", "8", "9">>
IsDigit(c) == \E i \in 0..9 : Digits[i + 1] = c
Value(c)   == CHOOSE i \in 0..9 : Digits[i + 1] = c
DigitSet   == {Digits[i + 1] : i \in 0..9}
Numerals   == Seq(DigitSet)

\* The number that digits stand for.
Decimal(s) ==
    LET read[t \in Numerals] == IF t = <<>> THEN 0 ELSE 10 * read[Front(t)] + Value(Last(t))
    IN read[s]

\* Reference: the numeral of a number.
Numeral(n) ==
    LET numeral[m \in Nat] ==
          IF m < 10 THEN <<Digits[m + 1]>>
          ELSE Append(numeral[m \div 10], Digits[(m % 10) + 1])
    IN numeral[n]

=============================================================================
