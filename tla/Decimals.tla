------------------------------ MODULE Decimals ------------------------------
(***************************************************************************)
(* How money crosses between the texts of requests and numeric(19,4)       *)
(* columns and the integers the services compute with: parseScaledDecimal  *)
(* and formatScaledDecimal of AccountsService, parseScaledAmount and       *)
(* parseScaledBalanceField of PostingService.                              *)
(*                                                                         *)
(* A text is its sign, its integer part and the digits after the point.    *)
(***************************************************************************)
EXTENDS Integers, Sequences

PROJECTION_SCALE == 10000

Digit == 0..9

\* What /^(-?)(\d+)(?:\.(\d{0,4}))?$/ lets through.
IsText(t) ==
    /\ t \in [neg : BOOLEAN, int : Nat, frac : Seq(Digit)]
    /\ Len(t.frac) <= 4

\* The texts of entry amounts carry no sign.
IsAmount(t) == IsText(t) /\ ~t.neg

\* (frac + '0000').slice(0, 4)
Padded(f) == [i \in 1..4 |-> IF i <= Len(f) THEN f[i] ELSE 0]

FracValue(d) == 1000 * d[1] + 100 * d[2] + 10 * d[3] + d[4]

Magnitude(t) == t.int * PROJECTION_SCALE + FracValue(Padded(t.frac))

Parse(t) == IF t.neg THEN -Magnitude(t) ELSE Magnitude(t)

\* frac.toString().padStart(4, '0')
Digits(f) == <<f \div 1000, (f \div 100) % 10, (f \div 10) % 10, f % 10>>

\* Place of the last digit that is not zero.
Significant(d) ==
    CHOOSE n \in 0..4 : (\A i \in (n + 1)..4 : d[i] = 0) /\ (n # 0 => d[n] # 0)

\* .replace(/0+$/, '')
Stripped(d) == SubSeq(d, 1, Significant(d))

Abs(v) == IF v < 0 THEN -v ELSE v

Format(v) ==
    [neg |-> v < 0,
     int |-> Abs(v) \div PROJECTION_SCALE,
     frac |-> Stripped(Digits(Abs(v) % PROJECTION_SCALE))]

\* The text in which a numeric(19,4) column gives back what was saved.
Stored(t) == [t EXCEPT !.frac = Padded(@)]
=============================================================================
