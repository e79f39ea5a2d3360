---------------------------- MODULE LedgerProofs ----------------------------
(***************************************************************************)
(* Theorems about Ledger for every set of accounts, requests, transaction  *)
(* ids and limits.  The inductive invariant IInv adds to the type          *)
(* invariant what the row locks guarantee while a posting is under way (a  *)
(* row it has locked keeps satisfying the checks made when it was locked), *)
(* the order in which postings lock, and that the books balance.           *)
(* The texts of amounts (Decimals) and the sums the books are kept by come *)
(* first.                                                                  *)
(***************************************************************************)
EXTENDS Ledger, Decimals, FiniteSetTheorems, TLAPS

-----------------------------------------------------------------------------
(***************************************************************************)
(* The texts of amounts: a balance that is formatted, stored and parsed    *)
(* again is the same integer, so no projection loses a unit on its way     *)
(* through the database, however large or negative it is.                  *)
(***************************************************************************)

\* What is left of a magnitude by dividing it by PROJECTION_SCALE.
Fractions == 0..9999

LEMMA DigitsAreDigits ==
    ASSUME NEW f \in Fractions
    PROVE  /\ Digits(f) \in Seq(Digit) /\ Len(Digits(f)) = 4
           /\ FracValue(Digits(f)) = f
<1> DEFINE q1 == f \div 10
           q2 == f \div 100
           q3 == f \div 1000
<1>1. /\ f \in 0..9999
      /\ f = 10 * q1 + (f % 10) /\ f % 10 \in 0..9 /\ q1 \in 0..999
      /\ f = 100 * q2 + (f % 100) /\ f % 100 \in 0..99 /\ q2 \in 0..99
      /\ f = 1000 * q3 + (f % 1000) /\ f % 1000 \in 0..999 /\ q3 \in 0..9
  BY DEF Fractions
<1> HIDE DEF q1, q2, q3
<1>2. /\ q1 = 10 * (q1 \div 10) + (q1 % 10) /\ q1 % 10 \in 0..9 /\ q1 \div 10 \in Int
      /\ q2 = 10 * (q2 \div 10) + (q2 % 10) /\ q2 % 10 \in 0..9 /\ q2 \div 10 \in Int
  BY <1>1
<1>3. q1 \div 10 = q2 /\ q2 \div 10 = q3
  BY <1>1, <1>2
<1>4. Digits(f) = <<q3, q2 % 10, q1 % 10, f % 10>>
  BY DEF Digits, q1, q2, q3
<1>5. 1000 * q3 + 100 * (q2 % 10) + 10 * (q1 % 10) + (f % 10) = f
  BY <1>1, <1>2, <1>3
<1>6. QED
  BY <1>1, <1>2, <1>4, <1>5 DEF FracValue, Digit

\* Exactly the zeros that padding gives back are dropped.
LEMMA StrippedPads ==
    ASSUME NEW d \in Seq(Digit), Len(d) = 4
    PROVE  /\ Stripped(d) \in Seq(Digit) /\ Len(Stripped(d)) <= 4
           /\ Padded(Stripped(d)) = [i \in 1..4 |-> d[i]]
<1> DEFINE Last(n) == (\A i \in (n + 1)..4 : d[i] = 0) /\ (n # 0 => d[n] # 0)
           n == Significant(d)
<1>1. \E m \in 0..4 : Last(m)
  <2>1. CASE d[4] # 0
    BY <2>1
  <2>2. CASE d[4] = 0 /\ d[3] # 0
    <3>1. Last(3)
      BY <2>2
    <3>2. QED
      BY <3>1
  <2>3. CASE d[4] = 0 /\ d[3] = 0 /\ d[2] # 0
    <3>1. Last(2)
      BY <2>3
    <3>2. QED
      BY <3>1
  <2>4. CASE d[4] = 0 /\ d[3] = 0 /\ d[2] = 0 /\ d[1] # 0
    <3>1. Last(1)
      BY <2>4
    <3>2. QED
      BY <3>1
  <2>5. CASE d[4] = 0 /\ d[3] = 0 /\ d[2] = 0 /\ d[1] = 0
    <3>1. Last(0)
      BY <2>5
    <3>2. QED
      BY <3>1
  <2>6. QED
    BY <2>1, <2>2, <2>3, <2>4, <2>5
<1>2. n \in 0..4 /\ Last(n)
  BY <1>1 DEF Significant
<1> HIDE DEF n
<1>3. /\ SubSeq(d, 1, n) \in Seq(Digit) /\ Len(SubSeq(d, 1, n)) = n
      /\ \A i \in 1..n : SubSeq(d, 1, n)[i] = d[i]
  BY <1>2
<1>4. \A i \in 1..4 : Padded(SubSeq(d, 1, n))[i] = d[i]
  BY <1>2, <1>3 DEF Padded
<1>5. QED
  BY <1>2, <1>3, <1>4 DEF Stripped, Padded, n

\* What formatScaledDecimal writes, AccountsService and PostingService read back
\* as the number it was, before and after the column has padded it.
THEOREM FormatLosesNothing ==
    ASSUME NEW v \in Int
    PROVE  /\ IsText(Format(v))
           /\ Parse(Format(v)) = v /\ Parse(Stored(Format(v))) = v
<1> DEFINE m == Abs(v)
           f == m % PROJECTION_SCALE
           d == Digits(f)
           s == Stripped(d)
<1>1. m \in Nat /\ f \in 0..9999 /\ m = (m \div PROJECTION_SCALE) * PROJECTION_SCALE + f
  BY DEF Abs, PROJECTION_SCALE
<1> HIDE DEF m, f, d, s
<1>2. d \in Seq(Digit) /\ Len(d) = 4 /\ FracValue(d) = f
  <2>1. f \in Fractions
    BY <1>1 DEF Fractions
  <2>2. Digits(f) \in Seq(Digit) /\ Len(Digits(f)) = 4 /\ FracValue(Digits(f)) = f
    BY <2>1, DigitsAreDigits
  <2>3. QED
    BY <2>2 DEF d
<1>3. s \in Seq(Digit) /\ Len(s) <= 4 /\ Padded(s) = [i \in 1..4 |-> d[i]]
  BY <1>2, StrippedPads DEF s
<1>4. FracValue(Padded(s)) = f
  BY <1>2, <1>3 DEF FracValue
<1>5. Padded(Padded(s)) = Padded(s)
  <2>1. Len(Padded(s)) = 4
    BY <1>3
  <2>2. QED
    BY <1>3, <2>1 DEF Padded
<1>6. m \div PROJECTION_SCALE \in Nat
  BY <1>1 DEF PROJECTION_SCALE
<1> DEFINE t == Format(v)
<1>7. t = [neg |-> v < 0, int |-> m \div PROJECTION_SCALE, frac |-> s]
  BY DEF Format, m, f, d, s
<1> HIDE DEF t
<1>8. Magnitude(t) = m /\ Magnitude(Stored(t)) = m /\ Stored(t).neg = (v < 0)
  BY <1>1, <1>4, <1>5, <1>7 DEF Magnitude, Stored
<1>9. IsText(t)
  BY <1>3, <1>6, <1>7 DEF IsText
<1>10. Parse(t) = v /\ Parse(Stored(t)) = v
  <2>1. m = IF v < 0 THEN -v ELSE v
    BY DEF m, Abs
  <2>2. t.neg = (v < 0)
    BY <1>7
  <2>3. CASE v < 0
    <3>1. t.neg /\ Stored(t).neg
      BY <1>8, <2>2, <2>3
    <3>2. QED
      BY <1>8, <2>1, <2>3, <3>1 DEF Parse
  <2>4. CASE ~(v < 0)
    <3>1. ~t.neg /\ ~Stored(t).neg
      BY <1>8, <2>2, <2>4
    <3>2. QED
      BY <1>8, <2>1, <2>4, <3>1 DEF Parse
  <2>5. QED
    BY <2>3, <2>4
<1>11. QED
  BY <1>9, <1>10 DEF t

-----------------------------------------------------------------------------
(***************************************************************************)
(* Sums over finite sets.  SumFunctionOnSet is a fold that takes whichever *)
(* element CHOOSE gives; that the order does not matter is proved by a     *)
(* smallest counterexample among the subsets, not by induction.            *)
(***************************************************************************)

\* `g` adds up `w` over every subset of S, as the fold does: one element, whichever
\* CHOOSE gives, and then the rest.
First(s) == CHOOSE x \in s : TRUE
Rest(s) == s \ {First(s)}
AddsUpOver(w, S, g) ==
    g = [s \in SUBSET S |-> IF s = {} THEN 0 ELSE w[First(s)] + g[Rest(s)]]

LEMMA SumIsFold ==
    ASSUME NEW w, NEW S
    PROVE  SumFunctionOnSet(w, S) = (CHOOSE g : AddsUpOver(w, S, g))[S]
BY Zenon DEF SumFunctionOnSet, FoldFunctionOnSet, MapThenFoldSet, AddsUpOver, First, Rest

\* Induction over the subsets of a finite set, by a smallest counterexample.
LEMMA SmallestSubset ==
    ASSUME NEW S, IsFiniteSet(S), NEW Bad \in SUBSET SUBSET S, Bad # {}
    PROVE  \E s \in Bad : \A t \in Bad : t \subseteq s => t = s
<1> DEFINE R == StrictSubsetOrdering(S)
<1>1. IsWellFoundedOn(R, SUBSET S)
  BY FS_StrictSubsetOrderingWellFounded, FS_FiniteSubsetsOfFinite
<1>2. \E s \in Bad : \A t \in Bad : ~(<<t, s>> \in R)
  <2> HIDE DEF R
  <2>1. QED
    BY <1>1, WFMin
<1>3. ASSUME NEW s \in Bad, NEW t \in Bad, t \subseteq s, t # s
      PROVE  <<t, s>> \in R
  BY <1>3 DEF StrictSubsetOrdering
<1>4. QED
  BY <1>2, <1>3

LEMMA FirstInSet == ASSUME NEW s, s # {} PROVE First(s) \in s /\ Rest(s) \subseteq s /\ Rest(s) # s
BY DEF First, Rest

LEMMA AddsUpOnce ==
    ASSUME NEW w, NEW S, IsFiniteSet(S), NEW g, NEW h,
           AddsUpOver(w, S, g), AddsUpOver(w, S, h)
    PROVE  g = h
<1> DEFINE Bad == {s \in SUBSET S : g[s] # h[s]}
<1>1. \A s \in SUBSET S : s # {} => /\ Rest(s) \in SUBSET S
                                    /\ g[s] = w[First(s)] + g[Rest(s)]
                                    /\ h[s] = w[First(s)] + h[Rest(s)]
  BY FirstInSet DEF AddsUpOver
<1>2. g[{}] = h[{}]
  BY DEF AddsUpOver
<1>3. Bad = {}
  <2>1. SUFFICES ASSUME Bad # {} PROVE FALSE
    OBVIOUS
  <2>2. PICK s \in Bad : \A t \in Bad : t \subseteq s => t = s
    <3>1. Bad \in SUBSET SUBSET S
      OBVIOUS
    <3> HIDE DEF Bad
    <3>2. QED
      BY <2>1, <3>1, SmallestSubset
  <2>3. s # {} /\ Rest(s) \notin Bad
    BY <2>2, <1>2, FirstInSet
  <2>4. QED
    BY <2>2, <2>3, <1>1
<1>4. QED
  BY <1>3 DEF AddsUpOver

LEMMA AddsUpBelow ==
    ASSUME NEW w, NEW S, NEW T \in SUBSET S, NEW g, AddsUpOver(w, S, g),
           NEW h, h = [s \in SUBSET T |-> g[s]]
    PROVE  AddsUpOver(w, T, h)
<1>1. \A s \in SUBSET T : g[s] = IF s = {} THEN 0 ELSE w[First(s)] + g[Rest(s)]
  BY DEF AddsUpOver
<1>2. \A s \in SUBSET T : s # {} => Rest(s) \in SUBSET T
  BY FirstInSet
<1>3. h = [s \in SUBSET T |-> IF s = {} THEN 0 ELSE w[First(s)] + h[Rest(s)]]
  BY <1>1, <1>2
<1>4. QED
  BY <1>3 DEF AddsUpOver

\* Two folds over different sets agree where both are defined.
LEMMA AddsUpAlike ==
    ASSUME NEW w, NEW u, NEW v \in SUBSET u, IsFiniteSet(v), NEW g, NEW h,
           AddsUpOver(w, u, g), AddsUpOver(w, v, h)
    PROVE  g[v] = h[v]
<1> DEFINE k == [x \in SUBSET v |-> g[x]]
<1>1. k[v] = g[v]
  OBVIOUS
<1>2. k = [x \in SUBSET v |-> g[x]]
  OBVIOUS
<1> HIDE DEF k
<1>3. AddsUpOver(w, v, k)
  BY <1>2, AddsUpBelow
<1>4. k = h
  BY <1>3, AddsUpOnce
<1>5. QED
  BY <1>1, <1>4

LEMMA AddsUpSomehow ==
    ASSUME NEW w, NEW S, IsFiniteSet(S)
    PROVE  \E g : AddsUpOver(w, S, g)
<1> DEFINE Bad == {s \in SUBSET S : ~ \E g : AddsUpOver(w, s, g)}
<1>1. SUFFICES ASSUME Bad # {} PROVE FALSE
  OBVIOUS
<1>2. PICK s \in Bad : \A t \in Bad : t \subseteq s => t = s
  <2>1. Bad \in SUBSET SUBSET S
    OBVIOUS
  <2> HIDE DEF Bad
  <2>2. QED
    BY <1>1, <2>1, SmallestSubset
<1> DEFINE G(t) == CHOOSE g : AddsUpOver(w, t, g)
           f == [t \in SUBSET s |->
                    IF t = {} THEN 0 ELSE w[First(t)] + G(Rest(t))[Rest(t)]]
<1>3. \A t \in SUBSET s : t # s => AddsUpOver(w, t, G(t))
  BY <1>2
<1>4. ASSUME NEW t \in SUBSET s, t # {} PROVE f[Rest(t)] = G(Rest(t))[Rest(t)]
  <2> DEFINE u == Rest(t)
  <2>1. u \in SUBSET s /\ u # s /\ AddsUpOver(w, u, G(u))
    BY <1>3, <1>4, FirstInSet
  <2>2. CASE u = {}
    <3>1. G(u)[u] = 0
      BY <2>1, <2>2 DEF AddsUpOver
    <3>2. QED
      BY <2>1, <2>2, <3>1
  <2>3. CASE u # {}
    <3> DEFINE v == Rest(u)
    <3>1. v \in SUBSET u /\ v \in SUBSET s /\ v # s /\ AddsUpOver(w, v, G(v))
      BY <1>3, <2>1, <2>3, FirstInSet
    <3>2. G(u)[u] = w[First(u)] + G(u)[v]
      BY <2>1, <2>3 DEF AddsUpOver
    <3>4. IsFiniteSet(v)
      BY <3>1, FS_Subset
    <3>6. G(u)[v] = G(v)[v]
      <4> HIDE DEF G, u, v
      <4>1. QED
        BY <2>1, <3>1, <3>4, AddsUpAlike
    <3>7. QED
      BY <2>1, <2>3, <3>2, <3>6
  <2>4. QED
    BY <2>2, <2>3
<1>5. f = [t \in SUBSET s |-> IF t = {} THEN 0 ELSE w[First(t)] + f[Rest(t)]]
  <2>1. \A t \in SUBSET s :
           f[t] = IF t = {} THEN 0 ELSE w[First(t)] + G(Rest(t))[Rest(t)]
    OBVIOUS
  <2>2. \A t \in SUBSET s :
           f[t] = IF t = {} THEN 0 ELSE w[First(t)] + f[Rest(t)]
    <3> HIDE DEF f, G
    <3>1. QED
      BY <2>1, <1>4
  <2>3. f = [t \in SUBSET s |-> f[t]]
    OBVIOUS
  <2> HIDE DEF f
  <2>4. QED
    BY <2>2, <2>3
<1>6. AddsUpOver(w, s, f)
  BY <1>5 DEF AddsUpOver
<1>7. QED
  BY <1>2, <1>6

\* What the fold says of one subset of S.
LEMMA SumEquation ==
    ASSUME NEW w, NEW S, IsFiniteSet(S)
    PROVE  SumFunctionOnSet(w, S) =
              IF S = {} THEN 0 ELSE w[First(S)] + SumFunctionOnSet(w, Rest(S))
<1> DEFINE G(t) == CHOOSE g : AddsUpOver(w, t, g)
<1>1. \A t : SumFunctionOnSet(w, t) = G(t)[t]
  BY SumIsFold
<1>2. AddsUpOver(w, S, G(S))
  BY AddsUpSomehow
<1>3. CASE S = {}
  <2>1. \A g : AddsUpOver(w, S, g) => g[S] = 0
    BY <1>3 DEF AddsUpOver
  <2> HIDE DEF G
  <2>2. QED
    BY <1>1, <1>2, <1>3, <2>1
<1>4. CASE S # {}
  <2>1. Rest(S) \in SUBSET S /\ IsFiniteSet(Rest(S))
    BY <1>4, FirstInSet, FS_Subset
  <2>2. AddsUpOver(w, Rest(S), G(Rest(S)))
    BY <2>1, AddsUpSomehow
  <2>3. G(S)[S] = w[First(S)] + G(S)[Rest(S)]
    BY <1>2, <1>4 DEF AddsUpOver
  <2>4. G(S)[Rest(S)] = G(Rest(S))[Rest(S)]
    <3> HIDE DEF G
    <3>1. QED
      BY <1>2, <2>1, <2>2, AddsUpAlike
  <2>5. QED
    BY <1>1, <1>4, <2>3, <2>4
<1>5. QED
  BY <1>3, <1>4

LEMMA SumType ==
    ASSUME NEW S, IsFiniteSet(S), NEW w, \A x \in S : w[x] \in Int
    PROVE  SumFunctionOnSet(w, S) \in Int
<1> DEFINE Bad == {s \in SUBSET S : SumFunctionOnSet(w, s) \notin Int}
<1>1. SUFFICES ASSUME Bad # {} PROVE FALSE
  <2>1. S \in SUBSET S
    OBVIOUS
  <2>2. QED
    BY <2>1
<1>2. PICK s \in Bad : \A t \in Bad : t \subseteq s => t = s
  <2>1. Bad \in SUBSET SUBSET S
    OBVIOUS
  <2> HIDE DEF Bad
  <2>2. QED
    BY <1>1, <2>1, SmallestSubset
<1>3. IsFiniteSet(s)
  BY FS_Subset
<1>4. SumFunctionOnSet(w, s) =
          IF s = {} THEN 0 ELSE w[First(s)] + SumFunctionOnSet(w, Rest(s))
  BY <1>3, SumEquation
<1>5. s # {}
  BY <1>4
<1>6. First(s) \in s /\ Rest(s) \in SUBSET S /\ Rest(s) \notin Bad
  BY <1>2, <1>5, FirstInSet
<1>7. w[First(s)] \in Int /\ SumFunctionOnSet(w, Rest(s)) \in Int
  BY <1>6
<1>8. QED
  BY <1>4, <1>5, <1>7

\* Any element may be the one that is added last.
LEMMA SumTakeOut ==
    ASSUME NEW S, IsFiniteSet(S), NEW w, \A y \in S : w[y] \in Int, NEW x \in S
    PROVE  SumFunctionOnSet(w, S) = w[x] + SumFunctionOnSet(w, S \ {x})
<1> DEFINE Bad == {s \in SUBSET S : \E y \in s :
                      SumFunctionOnSet(w, s) # w[y] + SumFunctionOnSet(w, s \ {y})}
<1>1. SUFFICES ASSUME Bad # {} PROVE FALSE
  <2>1. S \in SUBSET S
    OBVIOUS
  <2>2. QED
    BY <2>1
<1>2. PICK s \in Bad : \A t \in Bad : t \subseteq s => t = s
  <2>1. Bad \in SUBSET SUBSET S
    OBVIOUS
  <2> HIDE DEF Bad
  <2>2. QED
    BY <1>1, <2>1, SmallestSubset
<1>3. PICK y \in s : SumFunctionOnSet(w, s) # w[y] + SumFunctionOnSet(w, s \ {y})
  OBVIOUS
<1> DEFINE f == First(s)
<1>4. f \in s /\ Rest(s) = s \ {f} /\ s # {}
  BY FirstInSet DEF Rest
<1>5. SumFunctionOnSet(w, s) = w[f] + SumFunctionOnSet(w, s \ {f})
  <2>1. IsFiniteSet(s)
    BY FS_Subset
  <2>2. QED
    BY <1>4, <2>1, SumEquation
<1> HIDE DEF f
<1>6. y # f
  BY <1>3, <1>5
<1>7. (s \ {f}) \notin Bad /\ (s \ {y}) \notin Bad
  BY <1>2, <1>4
<1>8. SumFunctionOnSet(w, s \ {f})
          = w[y] + SumFunctionOnSet(w, (s \ {f}) \ {y})
  BY <1>3, <1>6, <1>7
<1>9. SumFunctionOnSet(w, s \ {y})
          = w[f] + SumFunctionOnSet(w, (s \ {y}) \ {f})
  BY <1>4, <1>6, <1>7
<1>10. (s \ {f}) \ {y} = (s \ {y}) \ {f}
  OBVIOUS
<1>11. /\ w[y] \in Int /\ w[f] \in Int
       /\ SumFunctionOnSet(w, (s \ {y}) \ {f}) \in Int
  <2>1. IsFiniteSet((s \ {y}) \ {f})
    BY FS_Subset
  <2>2. SumFunctionOnSet(w, (s \ {y}) \ {f}) \in Int
    BY <2>1, SumType
  <2>3. QED
    BY <1>4, <2>2
<1>12. SumFunctionOnSet(w, s) = w[y] + SumFunctionOnSet(w, s \ {y})
  <2> DEFINE r == SumFunctionOnSet(w, (s \ {y}) \ {f})
  <2>1. r \in Int /\ w[y] \in Int /\ w[f] \in Int
    BY <1>11
  <2>2. /\ SumFunctionOnSet(w, s \ {f}) = w[y] + r
        /\ SumFunctionOnSet(w, s \ {y}) = w[f] + r
    BY <1>8, <1>9, <1>10
  <2> HIDE DEF r
  <2>3. QED
    BY <1>5, <2>1, <2>2
<1>13. QED
  BY <1>3, <1>12

\* Only the values of `w` on T matter when it has none elsewhere.
LEMMA SumAlike ==
    ASSUME NEW S, IsFiniteSet(S), NEW T \in SUBSET S, NEW v, NEW w,
           \A x \in S : v[x] = IF x \in T THEN w[x] ELSE 0,
           \A x \in T : w[x] \in Int
    PROVE  SumFunctionOnSet(v, S) = SumFunctionOnSet(w, T)
<1> DEFINE Bad == {s \in SUBSET S :
                      SumFunctionOnSet(v, s) # SumFunctionOnSet(w, s \cap T)}
<1>1. SUFFICES ASSUME Bad # {} PROVE FALSE
  <2>1. S \in SUBSET S /\ S \cap T = T
    OBVIOUS
  <2>2. QED
    BY <2>1
<1>2. PICK s \in Bad : \A t \in Bad : t \subseteq s => t = s
  <2>1. Bad \in SUBSET SUBSET S
    OBVIOUS
  <2> HIDE DEF Bad
  <2>2. QED
    BY <1>1, <2>1, SmallestSubset
<1> DEFINE f == First(s)
<1>3. s # {}
  <2>1. IsFiniteSet({})
    BY FS_EmptySet
  <2>2. SumFunctionOnSet(v, {}) = 0 /\ SumFunctionOnSet(w, {}) = 0
    BY <2>1, SumEquation
  <2>3. QED
    BY <2>2
<1>4. f \in s /\ Rest(s) = s \ {f}
  BY <1>3, FirstInSet DEF Rest
<1>5. /\ IsFiniteSet(s) /\ IsFiniteSet(s \cap T) /\ IsFiniteSet((s \cap T) \ {f})
  BY FS_Subset
<1>6. SumFunctionOnSet(v, s) = v[f] + SumFunctionOnSet(v, s \ {f})
  BY <1>3, <1>4, <1>5, SumEquation
<1> HIDE DEF f
<1>7. SumFunctionOnSet(v, s \ {f}) = SumFunctionOnSet(w, (s \ {f}) \cap T)
  BY <1>2, <1>4
<1>8. CASE f \in T
  <2>1. (s \ {f}) \cap T = (s \cap T) \ {f}
    OBVIOUS
  <2>2. SumFunctionOnSet(w, s \cap T) = w[f] + SumFunctionOnSet(w, (s \cap T) \ {f})
    <3> DEFINE u == s \cap T
    <3>1. f \in u /\ IsFiniteSet(u) /\ \A x \in u : w[x] \in Int
      BY <1>4, <1>5, <1>8
    <3> HIDE DEF u
    <3>2. SumFunctionOnSet(w, u) = w[f] + SumFunctionOnSet(w, u \ {f})
      BY <3>1, SumTakeOut
    <3>3. QED
      BY <3>2 DEF u
  <2>3. QED
    BY <1>4, <1>6, <1>7, <1>8, <2>1, <2>2
<1>9. CASE f \notin T
  <2>1. (s \ {f}) \cap T = s \cap T
    BY <1>9
  <2>2. SumFunctionOnSet(w, s \cap T) \in Int
    BY <1>5, SumType
  <2>3. SumFunctionOnSet(v, s \ {f}) = SumFunctionOnSet(w, s \cap T)
    BY <1>7, <2>1
  <2>4. v[f] = 0
    BY <1>4, <1>9
  <2>5. SumFunctionOnSet(v, s) = SumFunctionOnSet(w, s \cap T)
    <3> DEFINE z == SumFunctionOnSet(w, s \cap T)
    <3>1. SumFunctionOnSet(v, s) = 0 + z /\ z \in Int
      BY <1>6, <2>2, <2>3, <2>4
    <3> HIDE DEF z
    <3>2. SumFunctionOnSet(v, s) = z
      BY <3>1
    <3>3. QED
      BY <3>2 DEF z
  <2>6. QED
    BY <2>5
<1>10. QED
  BY <1>8, <1>9

LEMMA SumZero ==
    ASSUME NEW S, IsFiniteSet(S), NEW w, \A x \in S : w[x] = 0
    PROVE  SumFunctionOnSet(w, S) = 0
<1>1. {} \in SUBSET S /\ IsFiniteSet({})
  BY FS_EmptySet
<1>2. SumFunctionOnSet(w, S) = SumFunctionOnSet(w, {})
  BY <1>1, SumAlike
<1>3. QED
  BY <1>1, <1>2, SumEquation

\* A sum of sums is the sum of the parts.
LEMMA SumPlus ==
    ASSUME NEW S, IsFiniteSet(S), NEW u, NEW v, NEW w,
           \A x \in S : v[x] \in Int /\ w[x] \in Int /\ u[x] = v[x] + w[x]
    PROVE  SumFunctionOnSet(u, S) = SumFunctionOnSet(v, S) + SumFunctionOnSet(w, S)
<1> DEFINE Bad == {s \in SUBSET S :
               SumFunctionOnSet(u, s) # SumFunctionOnSet(v, s) + SumFunctionOnSet(w, s)}
<1>1. SUFFICES ASSUME Bad # {} PROVE FALSE
  <2>1. S \in SUBSET S
    OBVIOUS
  <2>2. QED
    BY <2>1
<1>2. PICK s \in Bad : \A t \in Bad : t \subseteq s => t = s
  <2>1. Bad \in SUBSET SUBSET S
    OBVIOUS
  <2> HIDE DEF Bad
  <2>2. QED
    BY <1>1, <2>1, SmallestSubset
<1>3. IsFiniteSet(s)
  BY FS_Subset
<1>4. \A h : SumFunctionOnSet(h, s) =
          IF s = {} THEN 0 ELSE h[First(s)] + SumFunctionOnSet(h, Rest(s))
  BY <1>3, SumEquation
<1>5. s # {}
  BY <1>4
<1>6. First(s) \in s /\ Rest(s) \in SUBSET S /\ Rest(s) \notin Bad /\ IsFiniteSet(Rest(s))
  BY <1>2, <1>3, <1>5, FirstInSet, FS_Subset
<1>7. /\ SumFunctionOnSet(v, Rest(s)) \in Int
      /\ SumFunctionOnSet(w, Rest(s)) \in Int
  BY <1>6, SumType
<1>8. SumFunctionOnSet(u, Rest(s))
          = SumFunctionOnSet(v, Rest(s)) + SumFunctionOnSet(w, Rest(s))
  BY <1>6
<1>9. QED
  BY <1>4, <1>5, <1>6, <1>7, <1>8

LEMMA SumUnion ==
    ASSUME NEW A, IsFiniteSet(A), NEW B, IsFiniteSet(B), A \cap B = {},
           NEW w, \A x \in A \cup B : w[x] \in Int
    PROVE  SumFunctionOnSet(w, A \cup B) = SumFunctionOnSet(w, A) + SumFunctionOnSet(w, B)
<1>1. PICK S : S = A \cup B
  OBVIOUS
<1>2. PICK v : v = [x \in S |-> IF x \in A THEN w[x] ELSE 0]
  OBVIOUS
<1>3. PICK z : z = [x \in S |-> IF x \in B THEN w[x] ELSE 0]
  OBVIOUS
<1>4. IsFiniteSet(S) /\ A \in SUBSET S /\ B \in SUBSET S
  BY <1>1, FS_Union
<1>5. /\ \A x \in S : v[x] = IF x \in A THEN w[x] ELSE 0
      /\ \A x \in S : z[x] = IF x \in B THEN w[x] ELSE 0
      /\ \A x \in A : w[x] \in Int
      /\ \A x \in B : w[x] \in Int
  BY <1>1, <1>2, <1>3
<1>6. SumFunctionOnSet(v, S) = SumFunctionOnSet(w, A)
  BY <1>4, <1>5, SumAlike
<1>7. SumFunctionOnSet(z, S) = SumFunctionOnSet(w, B)
  BY <1>4, <1>5, SumAlike
<1>8. \A x \in S : v[x] \in Int /\ z[x] \in Int /\ w[x] = v[x] + z[x]
  BY <1>1, <1>5
<1>9. SumFunctionOnSet(w, S) = SumFunctionOnSet(v, S) + SumFunctionOnSet(z, S)
  BY <1>4, <1>8, SumPlus
<1>10. QED
  BY <1>1, <1>6, <1>7, <1>9

\* A sum over lines may be taken account by account.
LEMMA SumByAccount ==
    ASSUME NEW S, IsFiniteSet(S), NEW T, IsFiniteSet(T), \A x \in S : x.account \in T,
           NEW w, \A x \in S : w[x] \in Int,
           NEW v, \A a \in T : v[a] = SumFunctionOnSet(w, LinesOn(S, a))
    PROVE  SumFunctionOnSet(v, T) = SumFunctionOnSet(w, S)
<1> DEFINE In(t) == {x \in S : x.account \in t}
           Bad == {t \in SUBSET T : SumFunctionOnSet(v, t) # SumFunctionOnSet(w, In(t))}
<1>1. SUFFICES ASSUME Bad # {} PROVE FALSE
  <2>1. T \in SUBSET T /\ In(T) = S
    OBVIOUS
  <2>2. QED
    BY <2>1
<1>2. PICK s \in Bad : \A t \in Bad : t \subseteq s => t = s
  <2>1. Bad \in SUBSET SUBSET T
    OBVIOUS
  <2> HIDE DEF Bad
  <2>2. QED
    BY <1>1, <2>1, SmallestSubset
<1>3. s # {}
  <2>1. IsFiniteSet({}) /\ In({}) = {}
    BY FS_EmptySet
  <2>2. SumFunctionOnSet(v, {}) = 0 /\ SumFunctionOnSet(w, {}) = 0
    BY <2>1, SumEquation
  <2>3. QED
    BY <2>1, <2>2
<1>4. PICK f \in s : f = First(s) /\ Rest(s) = s \ {f}
  BY <1>3, FirstInSet DEF Rest
<1>5. SumFunctionOnSet(v, s) = v[f] + SumFunctionOnSet(v, s \ {f})
  <2>1. IsFiniteSet(s)
    BY FS_Subset
  <2>2. SumFunctionOnSet(v, s) = IF s = {} THEN 0 ELSE v[First(s)] + SumFunctionOnSet(v, Rest(s))
    BY <2>1, SumEquation
  <2>3. QED
    BY <1>3, <1>4, <2>2
<1>6. SumFunctionOnSet(v, s \ {f}) = SumFunctionOnSet(w, In(s \ {f}))
  BY <1>2, <1>4
<1>7. PICK A : A = LinesOn(S, f)
  OBVIOUS
<1>8. PICK B : B = In(s \ {f})
  OBVIOUS
<1>9. A \cup B = In(s) /\ A \cap B = {} /\ A \in SUBSET S /\ B \in SUBSET S
  BY <1>4, <1>7, <1>8 DEF LinesOn
<1> HIDE DEF In
<1>10. SumFunctionOnSet(w, In(s)) = SumFunctionOnSet(w, A) + SumFunctionOnSet(w, B)
  <2>1. IsFiniteSet(A) /\ IsFiniteSet(B)
    BY <1>9, FS_Subset
  <2>2. \A x \in A \cup B : w[x] \in Int
    BY <1>9
  <2>3. SumFunctionOnSet(w, A \cup B) = SumFunctionOnSet(w, A) + SumFunctionOnSet(w, B)
    BY <1>9, <2>1, <2>2, SumUnion
  <2>4. QED
    BY <1>9, <2>3
<1>11. v[f] = SumFunctionOnSet(w, A)
  BY <1>7
<1>12. QED
  BY <1>2, <1>5, <1>6, <1>8, <1>10, <1>11

\* Renaming what is summed, and changing its sign, changes the sign of the sum.
LEMMA SumNegated ==
    ASSUME NEW S, IsFiniteSet(S), NEW w, \A x \in S : w[x] \in Int,
           NEW f, \A x, y \in S : f[x] = f[y] => x = y,
           NEW T, IsFiniteSet(T), T = {f[x] : x \in S},
           NEW u, \A x \in S : u[f[x]] = -w[x]
    PROVE  SumFunctionOnSet(u, T) = -SumFunctionOnSet(w, S)
<1> DEFINE Image(s) == {f[x] : x \in s}
           Bad == {s \in SUBSET S : SumFunctionOnSet(u, Image(s)) # -SumFunctionOnSet(w, s)}
<1>1. SUFFICES ASSUME Bad # {} PROVE FALSE
  <2>1. S \in SUBSET S /\ Image(S) = T
    OBVIOUS
  <2>2. QED
    BY <2>1
<1>2. PICK s \in Bad : \A t \in Bad : t \subseteq s => t = s
  <2>1. Bad \in SUBSET SUBSET S
    OBVIOUS
  <2> HIDE DEF Bad
  <2>2. QED
    BY <1>1, <2>1, SmallestSubset
<1>3. s # {}
  <2>1. IsFiniteSet({}) /\ Image({}) = {}
    BY FS_EmptySet
  <2>2. SumFunctionOnSet(u, {}) = 0 /\ SumFunctionOnSet(w, {}) = 0
    BY <2>1, SumEquation
  <2>3. QED
    BY <2>1, <2>2
<1>4. PICK x \in s : x \in S
  BY <1>3
<1>5. PICK r : r = s \ {x}
  OBVIOUS
<1>6. PICK I : I = Image(s)
  OBVIOUS
<1>7. /\ f[x] \in I /\ I \ {f[x]} = Image(r)
      /\ I \in SUBSET T /\ \A y \in I : u[y] \in Int
  BY <1>4, <1>5, <1>6
<1>8. SumFunctionOnSet(u, Image(r)) = -SumFunctionOnSet(w, r)
  BY <1>2, <1>4, <1>5
<1>9. SumFunctionOnSet(u, I) # -SumFunctionOnSet(w, s)
  BY <1>6
<1> HIDE DEF Image, Bad
<1>10. SumFunctionOnSet(u, I) = u[f[x]] + SumFunctionOnSet(u, Image(r))
  <2>1. IsFiniteSet(I)
    BY <1>7, FS_Subset
  <2>2. SumFunctionOnSet(u, I) = u[f[x]] + SumFunctionOnSet(u, I \ {f[x]})
    BY <1>7, <2>1, SumTakeOut
  <2>3. QED
    BY <1>7, <2>2
<1>11. /\ SumFunctionOnSet(w, s) = w[x] + SumFunctionOnSet(w, r)
       /\ SumFunctionOnSet(w, r) \in Int
  <2>1. s \in SUBSET S /\ r \in SUBSET S
    BY <1>2, <1>5 DEF Bad
  <2>2. IsFiniteSet(s) /\ IsFiniteSet(r)
    BY <2>1, FS_Subset
  <2>3. SumFunctionOnSet(w, s) = w[x] + SumFunctionOnSet(w, s \ {x})
    <3>1. \A y \in s : w[y] \in Int
      BY <2>1
    <3>2. QED
      BY <2>2, <3>1, SumTakeOut
  <2>4. SumFunctionOnSet(w, r) \in Int
    <3>1. \A y \in r : w[y] \in Int
      BY <2>1
    <3>2. QED
      BY <2>2, <3>1, SumType
  <2>5. QED
    BY <1>5, <2>3, <2>4
<1>12. u[f[x]] = -w[x] /\ w[x] \in Int
  BY <1>4
<1>13. QED
  BY <1>8, <1>9, <1>10, <1>11, <1>12

LEMMA SumOpposite ==
    ASSUME NEW S, IsFiniteSet(S), NEW u, NEW w, \A x \in S : w[x] \in Int /\ u[x] = -w[x]
    PROVE  SumFunctionOnSet(u, S) = -SumFunctionOnSet(w, S)
<1>1. PICK z : z = [x \in S |-> 0]
  OBVIOUS
<1>2. \A x \in S : u[x] \in Int /\ w[x] \in Int /\ z[x] = u[x] + w[x]
  BY <1>1
<1>3. SumFunctionOnSet(z, S) = SumFunctionOnSet(u, S) + SumFunctionOnSet(w, S)
  BY <1>2, SumPlus
<1>4. SumFunctionOnSet(z, S) = 0
  BY <1>1, SumZero
<1>5. SumFunctionOnSet(u, S) \in Int /\ SumFunctionOnSet(w, S) \in Int
  BY <1>2, SumType
<1>6. QED
  BY <1>3, <1>4, <1>5

-----------------------------------------------------------------------------
(***************************************************************************)
(* Lines and bundles: what the ledger keeps of a body, its effect on each  *)
(* account, loses nothing that the checks of a posting or a reversal read. *)
(***************************************************************************)

LEMMA LineFacts ==
    ASSUME NEW lines, IsBody(lines)
    PROVE  /\ IsFiniteSet(lines) /\ lines # {}
           /\ \A l \in lines : /\ l \in Line /\ l.account \in Accounts
                               /\ l.currency \in Currencies
                               /\ l.amount \in Int /\ Signed(l) \in Int
           /\ \A l, m \in lines : l.account = m.account => l.currency = m.currency
<1>1. IsFiniteSet(lines) /\ lines # {}
  BY FS_EmptySet DEF IsBody
<1>2. QED
  BY <1>1 DEF IsBody, OneCurrencyPerAccount, Line, Signed

\* What BundleOf makes of a body, account by account.
LEMMA BundleFacts ==
    ASSUME NEW lines, IsBody(lines)
    PROVE  /\ Touched(BundleOf(lines)) = {l.account : l \in lines}
           /\ BundleOf(lines).net = [a \in {l.account : l \in lines} |->
                 SumFunctionOnSet([l \in lines |-> Signed(l)], LinesOn(lines, a))]
           /\ DOMAIN BundleOf(lines).cur = {l.account : l \in lines}
           /\ BundleOf(lines).cur = [a \in DOMAIN BundleOf(lines).cur |-> BundleOf(lines).cur[a]]
           /\ \A l \in lines : BundleOf(lines).cur[l.account] = l.currency
<1>1. \A l \in lines : (CHOOSE m \in LinesOn(lines, l.account) : TRUE).currency = l.currency
  <2> TAKE l \in lines
  <2>1. l \in LinesOn(lines, l.account)
    BY DEF LinesOn
  <2>2. (CHOOSE m \in LinesOn(lines, l.account) : TRUE) \in LinesOn(lines, l.account)
    BY <2>1
  <2>3. \A m \in LinesOn(lines, l.account) : m.currency = l.currency
    BY LineFacts DEF LinesOn
  <2>4. QED
    BY <2>2, <2>3
<1>2. QED
  BY <1>1 DEF BundleOf, Touched

\* The bundle of a body is one that the ledger's requests may carry.
THEOREM BodiesMakeBundles ==
    ASSUME NEW lines, IsBody(lines)
    PROVE  IsBundle(BundleOf(lines))
<1> DEFINE on == {l.account : l \in lines}
<1>1. on \in (SUBSET Accounts) \ {{}}
  BY LineFacts
<1>2. PICK w : w = [l \in lines |-> Signed(l)]
  OBVIOUS
<1>3. ASSUME NEW a \in on PROVE SumFunctionOnSet(w, LinesOn(lines, a)) \in Int
  <2>1. PICK S : S = LinesOn(lines, a)
    OBVIOUS
  <2>2. S \in SUBSET lines
    BY <2>1 DEF LinesOn
  <2>3. IsFiniteSet(S) /\ \A l \in S : w[l] \in Int
    BY <1>2, <2>2, LineFacts, FS_Subset
  <2>4. QED
    BY <2>1, <2>3, SumType
<1>4. BundleOf(lines).net \in [on -> Int]
  <2>1. BundleOf(lines).net = [a \in on |-> SumFunctionOnSet(w, LinesOn(lines, a))]
    BY <1>2, BundleFacts
  <2> HIDE DEF on
  <2>2. QED
    BY <1>3, <2>1
<1>5. BundleOf(lines).cur \in [on -> Currencies]
  <2>1. \A l \in lines : BundleOf(lines).cur[l.account] \in Currencies
    <3>1. \A l \in lines : BundleOf(lines).cur[l.account] = l.currency
      BY BundleFacts
    <3>2. QED
      BY <3>1, LineFacts
  <2>2. \A a \in on : BundleOf(lines).cur[a] \in Currencies
    BY <2>1
  <2>3. BundleOf(lines).cur = [a \in on |-> BundleOf(lines).cur[a]]
    BY BundleFacts
  <2> HIDE DEF on
  <2>4. QED
    BY <2>2, <2>3
<1>6. Touched(BundleOf(lines)) = on
  BY BundleFacts
<1> HIDE DEF on
<1>7. QED
  BY <1>1, <1>4, <1>5, <1>6 DEF IsBundle

\* The lines of a reversal.
LEMMA SwappedFacts ==
    ASSUME NEW lines, IsBody(lines),
           NEW f, f = [l \in lines |-> OtherSide(l)]
    PROVE  /\ \A l, m \in lines : f[l] = f[m] => l = m
           /\ \A l \in lines : /\ f[l].account = l.account /\ f[l].currency = l.currency
                               /\ f[l].number = l.number /\ f[l] \in Line
                               /\ Signed(f[l]) = -Signed(l)
           /\ Swapped(lines) = {f[l] : l \in lines}
           /\ \A a : LinesOn(Swapped(lines), a) = {f[l] : l \in LinesOn(lines, a)}
<1>1. \A l \in lines : l \in Line
  BY LineFacts
<1>2. \A l \in lines :
         f[l] = [number |-> l.number, account |-> l.account, amount |-> l.amount,
                 currency |-> l.currency,
                 side |-> IF l.side = "DEBIT" THEN "CREDIT" ELSE "DEBIT"]
  <2> TAKE l \in lines
  <2>1. f[l] = OtherSide(l)
    OBVIOUS
  <2>2. l \in Line
    BY <1>1
  <2>3. QED
    BY <2>1, <2>2 DEF Line, OtherSide
<1>3. \A l \in lines : /\ f[l].account = l.account /\ f[l].currency = l.currency
                      /\ f[l].number = l.number /\ f[l] \in Line
                      /\ Signed(f[l]) = -Signed(l)
  <2> TAKE l \in lines
  <2>1. /\ l.number \in Nat /\ l.account \in Accounts /\ l.currency \in Currencies
        /\ l.side \in Sides /\ l.amount \in Nat
    BY <1>1 DEF Line
  <2>2. PICK g : g = [number |-> l.number, account |-> l.account, amount |-> l.amount,
                      currency |-> l.currency,
                      side |-> IF l.side = "DEBIT" THEN "CREDIT" ELSE "DEBIT"]
    OBVIOUS
  <2>3. f[l] = g
    BY <1>2, <2>2
  <2>4. g.account = l.account /\ g.currency = l.currency /\ g.number = l.number
    BY <2>2
  <2>5. g \in Line
    BY <2>1, <2>2 DEF Line, Sides
  <2>6. Signed(g) = -Signed(l)
    BY <2>1, <2>2 DEF Sides, Signed
  <2>7. QED
    BY <2>3, <2>4, <2>5, <2>6
<1>4. ASSUME NEW l \in lines, NEW m \in lines, f[l] = f[m] PROVE l = m
  <2>1. l.number = m.number
    BY <1>3, <1>4
  <2>2. QED
    BY <2>1 DEF IsBody, NumberedApart
<1>5. Swapped(lines) = {f[l] : l \in lines}
  BY DEF Swapped
<1>6. \A a : LinesOn(Swapped(lines), a) = {f[l] : l \in LinesOn(lines, a)}
  BY <1>3, <1>5 DEF LinesOn
<1>7. QED
  BY <1>3, <1>4, <1>5, <1>6

LEMMA SwappedIsBody ==
    ASSUME NEW lines, IsBody(lines)
    PROVE  IsBody(Swapped(lines))
<1>1. PICK f : f = [l \in lines |-> OtherSide(l)]
  OBVIOUS
<1>2. PICK T : T = Swapped(lines)
  OBVIOUS
<1>3. /\ \A l, m \in lines : f[l] = f[m] => l = m
      /\ \A l \in lines : /\ f[l].account = l.account /\ f[l].currency = l.currency
                          /\ f[l].number = l.number /\ f[l] \in Line
      /\ T = {f[l] : l \in lines}
  BY <1>1, <1>2, SwappedFacts
<1>4. f \in Bijection(lines, T)
  BY <1>1, <1>3 DEF Bijection, Injection, Surjection, IsInjective
<1>5. IsFiniteSet(lines) /\ Cardinality(lines) >= 2
  BY DEF IsBody
<1>6. IsFiniteSet(T) /\ Cardinality(T) = Cardinality(lines)
  BY <1>4, <1>5, FS_Bijection DEF ExistsBijection
<1>7. NumberedApart(T) /\ OneCurrencyPerAccount(T) /\ T \subseteq Line
  BY <1>3 DEF IsBody, NumberedApart, OneCurrencyPerAccount
<1>8. QED
  BY <1>2, <1>5, <1>6, <1>7 DEF IsBody

\* ReversalService copies the lines of a posting with their sides swapped; what it
\* posts is the bundle that takes every net amount back.
THEOREM ReversalIsMirror ==
    ASSUME NEW lines, IsBody(lines)
    PROVE  IsBody(Swapped(lines)) /\ BundleOf(Swapped(lines)) = Mirror(BundleOf(lines))
<1>1. PICK f : f = [l \in lines |-> OtherSide(l)]
  OBVIOUS
<1>2. PICK T : T = Swapped(lines)
  OBVIOUS
<1>3. IsBody(T)
  BY <1>2, SwappedIsBody
<1>4. PICK w : w = [l \in lines |-> Signed(l)]
  OBVIOUS
<1>5. PICK u : u = [l \in T |-> Signed(l)]
  OBVIOUS
<1>6. PICK on : on = {l.account : l \in lines}
  OBVIOUS
<1>7. /\ \A l, m \in lines : f[l] = f[m] => l = m
      /\ \A l \in lines : /\ f[l].account = l.account /\ f[l].currency = l.currency
                          /\ Signed(f[l]) = -Signed(l)
      /\ T = {f[l] : l \in lines}
  BY <1>1, <1>2, SwappedFacts
<1>8. {l.account : l \in T} = on
  BY <1>6, <1>7
<1>9. ASSUME NEW a \in on
      PROVE  SumFunctionOnSet(u, LinesOn(T, a)) = -SumFunctionOnSet(w, LinesOn(lines, a))
  <2>1. PICK S : S = LinesOn(lines, a)
    OBVIOUS
  <2>2. PICK R : R = LinesOn(T, a)
    OBVIOUS
  <2>3. S \in SUBSET lines /\ R \in SUBSET T
    BY <2>1, <2>2 DEF LinesOn
  <2>4. IsFiniteSet(S) /\ IsFiniteSet(R)
    BY <2>3, <1>3, FS_Subset DEF IsBody
  <2>5. \A l \in S : w[l] \in Int
    BY <1>4, <2>3, LineFacts
  <2>6. R = {f[l] : l \in S}
    <3>1. \A b : LinesOn(Swapped(lines), b) = {f[l] : l \in LinesOn(lines, b)}
      BY <1>1, SwappedFacts
    <3>2. QED
      BY <1>2, <2>1, <2>2, <3>1
  <2>7. \A l \in S : u[f[l]] = -w[l]
    BY <1>4, <1>5, <1>7, <2>3
  <2>8. \A l, m \in S : f[l] = f[m] => l = m
    BY <1>7, <2>3
  <2>9. SumFunctionOnSet(u, R) = -SumFunctionOnSet(w, S)
    BY <2>4, <2>5, <2>6, <2>7, <2>8, SumNegated
  <2>10. QED
    BY <2>1, <2>2, <2>9
<1>10. /\ Touched(BundleOf(lines)) = on
       /\ BundleOf(lines).net = [a \in on |-> SumFunctionOnSet(w, LinesOn(lines, a))]
       /\ BundleOf(lines).cur = [a \in on |-> BundleOf(lines).cur[a]]
       /\ \A l \in lines : BundleOf(lines).cur[l.account] = l.currency
  BY <1>4, <1>6, BundleFacts
<1>11. /\ BundleOf(T).net = [a \in on |-> SumFunctionOnSet(u, LinesOn(T, a))]
       /\ BundleOf(T).cur = [a \in on |-> BundleOf(T).cur[a]]
       /\ \A l \in T : BundleOf(T).cur[l.account] = l.currency
  BY <1>3, <1>5, <1>8, BundleFacts
<1>12. BundleOf(T).net = [a \in on |-> -BundleOf(lines).net[a]]
  <2>1. \A a \in on : BundleOf(lines).net[a] = SumFunctionOnSet(w, LinesOn(lines, a))
    BY <1>10
  <2>2. QED
    BY <1>9, <1>11, <2>1
<1>13. BundleOf(T).cur = BundleOf(lines).cur
  <2>1. ASSUME NEW a \in on PROVE BundleOf(T).cur[a] = BundleOf(lines).cur[a]
    <3>1. PICK l \in lines : l.account = a
      BY <1>6
    <3>2. f[l] \in T /\ f[l].account = a /\ f[l].currency = l.currency
      BY <1>7, <3>1
    <3>3. BundleOf(T).cur[f[l].account] = f[l].currency
      BY <1>11, <3>2
    <3>4. BundleOf(lines).cur[l.account] = l.currency
      BY <1>10
    <3>5. QED
      BY <3>1, <3>2, <3>3, <3>4
  <2>2. QED
    BY <1>10, <1>11, <2>1
<1>14. BundleOf(T) = [net |-> BundleOf(T).net, cur |-> BundleOf(T).cur]
  BY DEF BundleOf
<1>15. QED
  BY <1>2, <1>3, <1>10, <1>12, <1>13, <1>14 DEF Mirror

\* The lines of one currency, and those of them on one side.
OfCurrency(lines, c) == {l \in lines : l.currency = c}
OnSide(lines, side, c) == {l \in lines : l.side = side /\ l.currency = c}
SignedAmounts(lines) == [l \in lines |-> Signed(l)]
Amounts(lines) == [l \in lines |-> l.amount]

LEMMA CurrencyPartsFinite ==
    ASSUME NEW lines, IsBody(lines), NEW c
    PROVE  /\ IsFiniteSet(OfCurrency(lines, c)) /\ OfCurrency(lines, c) \subseteq lines
           /\ \A side : /\ IsFiniteSet(OnSide(lines, side, c))
                        /\ OnSide(lines, side, c) \subseteq lines
<1>1. OfCurrency(lines, c) \in SUBSET lines
  BY DEF OfCurrency
<1>2. \A side : OnSide(lines, side, c) \in SUBSET lines
  BY DEF OnSide
<1>3. QED
  BY <1>1, <1>2, LineFacts, FS_Subset

\* The net amounts of a currency add up to its signed lines.
LEMMA NetOfCurrency ==
    ASSUME NEW lines, IsBody(lines), NEW c, NEW b, b = BundleOf(lines)
    PROVE  SumFunctionOnSet(b.net, {a \in Touched(b) : b.cur[a] = c})
              = SumFunctionOnSet(SignedAmounts(lines), OfCurrency(lines, c))
<1>1. PICK on : on = {l.account : l \in lines}
  OBVIOUS
<1>2. PICK w : w = SignedAmounts(lines)
  OBVIOUS
<1>3. /\ Touched(b) = on
      /\ b.net = [a \in on |-> SumFunctionOnSet(w, LinesOn(lines, a))]
      /\ \A l \in lines : b.cur[l.account] = l.currency
  BY <1>1, <1>2, BundleFacts DEF SignedAmounts
<1>4. PICK S : S = OfCurrency(lines, c)
  OBVIOUS
<1>5. PICK A : A = {a \in on : b.cur[a] = c}
  OBVIOUS
<1>6. S = {l \in lines : l.currency = c}
  BY <1>4 DEF OfCurrency
<1>7. IsFiniteSet(A)
  <2>1. A \in SUBSET Accounts
    BY <1>1, <1>5, LineFacts
  <2>2. QED
    BY <2>1, AccountsAssumption, FS_Subset
<1>8. \A l \in S : l.account \in A
  BY <1>1, <1>3, <1>5, <1>6
<1>9. ASSUME NEW a \in A PROVE b.net[a] = SumFunctionOnSet(w, LinesOn(S, a))
  <2>1. a \in on /\ b.cur[a] = c
    BY <1>5
  <2>2. LinesOn(S, a) = LinesOn(lines, a)
    BY <1>3, <1>6, <2>1 DEF LinesOn
  <2>3. QED
    BY <1>3, <2>1, <2>2
<1>10. \A l \in S : w[l] \in Int
  BY <1>2, <1>6, LineFacts DEF SignedAmounts
<1>11. IsFiniteSet(S)
  BY <1>4, CurrencyPartsFinite
<1>12. PICK net : net = b.net
  OBVIOUS
<1>13. \A a \in A : net[a] = SumFunctionOnSet(w, LinesOn(S, a))
  BY <1>9, <1>12
<1>14. SumFunctionOnSet(net, A) = SumFunctionOnSet(w, S)
  BY <1>7, <1>8, <1>10, <1>11, <1>13, SumByAccount
<1>15. QED
  BY <1>2, <1>3, <1>4, <1>5, <1>12, <1>14

\* The signed lines of a currency are its credits less its debits.
LEMMA CreditsLessDebits ==
    ASSUME NEW lines, IsBody(lines), NEW c,
           NEW D, D = OnSide(lines, "DEBIT", c), NEW C, C = OnSide(lines, "CREDIT", c)
    PROVE  /\ SumFunctionOnSet(SignedAmounts(lines), OfCurrency(lines, c))
                 = SumFunctionOnSet(Amounts(lines), C) - SumFunctionOnSet(Amounts(lines), D)
           /\ SumFunctionOnSet(Amounts(lines), C) \in Int
           /\ SumFunctionOnSet(Amounts(lines), D) \in Int
<1>1. PICK w : w = SignedAmounts(lines)
  OBVIOUS
<1>2. PICK m : m = Amounts(lines)
  OBVIOUS
<1>3. /\ IsFiniteSet(C) /\ IsFiniteSet(D)
      /\ OfCurrency(lines, c) = C \cup D /\ C \cap D = {}
  <2>1. IsFiniteSet(C) /\ IsFiniteSet(D)
    BY CurrencyPartsFinite
  <2>2. \A l \in lines : l.side \in {"DEBIT", "CREDIT"}
    BY LineFacts DEF Line, Sides
  <2>3. QED
    BY <2>1, <2>2 DEF OfCurrency, OnSide
<1>4. \A l \in C : m[l] \in Int /\ w[l] = m[l]
  BY <1>1, <1>2, LineFacts DEF OnSide, SignedAmounts, Amounts, Signed
<1>5. \A l \in D : m[l] \in Int /\ w[l] = -m[l]
  BY <1>1, <1>2, LineFacts DEF OnSide, SignedAmounts, Amounts, Signed
<1>6. SumFunctionOnSet(w, C \cup D) = SumFunctionOnSet(w, C) + SumFunctionOnSet(w, D)
  <2>1. \A l \in C \cup D : w[l] \in Int
    BY <1>4, <1>5
  <2>2. QED
    BY <1>3, <2>1, SumUnion
<1>7. SumFunctionOnSet(w, C) = SumFunctionOnSet(m, C)
  <2>1. C \in SUBSET C /\ \A l \in C : w[l] = IF l \in C THEN m[l] ELSE 0
    BY <1>4
  <2>2. \A l \in C : m[l] \in Int
    BY <1>4
  <2>3. QED
    BY <1>3, <2>1, <2>2, SumAlike
<1>8. SumFunctionOnSet(w, D) = -SumFunctionOnSet(m, D)
  BY <1>3, <1>5, SumOpposite
<1>9. SumFunctionOnSet(m, C) \in Int /\ SumFunctionOnSet(m, D) \in Int
  <2>1. (\A l \in C : m[l] \in Int) /\ (\A l \in D : m[l] \in Int)
    BY <1>4, <1>5
  <2>2. QED
    BY <1>3, <2>1, SumType
<1>10. QED
  BY <1>1, <1>2, <1>3, <1>6, <1>7, <1>8, <1>9

\* assertBalancedPerCurrency adds up the lines; the ledger's check on the bundle of
\* the lines accepts exactly the same bodies.
THEOREM LinesBalanceAsBundles ==
    ASSUME NEW lines, IsBody(lines)
    PROVE  BalancedPerCurrency(BundleOf(lines)) <=> DebitsEqualCredits(lines)
<1>1. PICK b : b = BundleOf(lines)
  OBVIOUS
<1>2. ASSUME NEW c \in Currencies
      PROVE  SumFunctionOnSet(b.net, {a \in Touched(b) : b.cur[a] = c}) = 0
             <=> SumFunctionOnSet(Amounts(lines), OnSide(lines, "DEBIT", c))
                    = SumFunctionOnSet(Amounts(lines), OnSide(lines, "CREDIT", c))
  <2>1. PICK D : D = OnSide(lines, "DEBIT", c)
    OBVIOUS
  <2>2. PICK C : C = OnSide(lines, "CREDIT", c)
    OBVIOUS
  <2>3. SumFunctionOnSet(b.net, {a \in Touched(b) : b.cur[a] = c})
           = SumFunctionOnSet(SignedAmounts(lines), OfCurrency(lines, c))
    BY <1>1, NetOfCurrency
  <2>4. /\ SumFunctionOnSet(SignedAmounts(lines), OfCurrency(lines, c))
              = SumFunctionOnSet(Amounts(lines), C) - SumFunctionOnSet(Amounts(lines), D)
        /\ SumFunctionOnSet(Amounts(lines), C) \in Int
        /\ SumFunctionOnSet(Amounts(lines), D) \in Int
    BY <2>1, <2>2, CreditsLessDebits
  <2>5. QED
    BY <2>1, <2>2, <2>3, <2>4
<1>3. QED
  BY <1>1, <1>2 DEF BalancedPerCurrency, DebitsEqualCredits, OnSide, Amounts

-----------------------------------------------------------------------------
(* The inductive invariant *)

InTransaction == {"lookup", "target", "lock", "insert"}

\* FOR UPDATE is exclusive.
LocksExclusive == \A p, q \in Procs : p # q => held[p] \cap held[q] = {}

\* Account rows are locked by postings in their locking or insert stage only.
LocksHeldByPostings ==
    \A p \in Procs : held[p] # {} => pc[p] \in {"lock", "insert"}

\* The checks of a locked row stay true until the posting ends.
HeldAccepted ==
    \A p \in Procs : \A a \in held[p] :
        a \in Touched(req[p]) /\ Accepts(accounts[a], a, req[p])

\* A posting inserts only after it has locked every account it touches.
InsertHoldsAll ==
    \A p \in Procs : pc[p] = "insert" => held[p] = Touched(req[p])

\* The balance a status save may write back respects the overdraft limit.
ReadFloor ==
    \A p \in Procs : pc[p] \in {"reload", "write"} =>
        /\ job[p].account \in Accounts
        /\ job[p].read.availableBalance >= -Overdraft[job[p].account]

\* A reversal refers to a posted row that is not a reversal.
TargetsPosted ==
    /\ \A id \in DOMAIN ledger : ledger[id].reverses # None =>
          /\ ledger[id].reverses \in DOMAIN ledger
          /\ ledger[ledger[id].reverses].reverses = None
    /\ \A p \in Procs : pc[p] \in {"lock", "insert"} /\ req[p].reverses # None =>
          /\ req[p].reverses \in DOMAIN ledger
          /\ ledger[req[p].reverses].reverses = None

\* A posting locks accounts only after its lines were found to balance.
CheckedBalanced ==
    \A p \in Procs : pc[p] \in {"lock", "insert"} => BalancedPerCurrency(req[p])

\* Ledger rows are locked by postings past their target's checks only.
TargetsLocked ==
    \A p \in Procs : heldTx[p] # {} => pc[p] \in {"lock", "insert"}

\* What a posting holds sorts before what it has yet to lock.
AscendingLocks ==
    \A p \in Procs : pc[p] = "lock" =>
        \A a \in held[p] : \A b \in Unlocked(p) : a < b

LedgerFinite == IsFiniteSet(DOMAIN ledger)

\* A correlation id has one row: its unique index.
CorrelationUnique ==
    \A i, j \in DOMAIN ledger : ledger[i].corr = ledger[j].corr => i = j

IInv ==
    /\ TypeOK
    /\ LocksExclusive
    /\ LocksHeldByPostings
    /\ HeldAccepted
    /\ InsertHoldsAll
    /\ OverdraftFloor
    /\ ReadFloor
    /\ TargetsPosted
    /\ CorrelationUnique
    /\ ReversedAtMostOnce
    /\ CheckedBalanced
    /\ TargetsLocked
    /\ AscendingLocks
    /\ LedgerFinite
    /\ DoubleEntry

-----------------------------------------------------------------------------
(* The books *)

\* What a posting adds to the entries of an account.
Effect(bundle, a) == IF a \in Touched(bundle) THEN bundle.net[a] ELSE 0

LEMMA EntrySumType ==
    ASSUME TypeOK, LedgerFinite, NEW a \in Accounts
    PROVE  EntrySum(a) \in Int
<1> DEFINE f == [id \in EntriesOn(a) |-> ledger[id].net[a]]
<1>1. IsFiniteSet(EntriesOn(a))
  BY FS_Subset DEF LedgerFinite, EntriesOn
<1>2. \A id \in EntriesOn(a) : f[id] \in Int
  BY DEF EntriesOn, TypeOK, IsPosting, IsBundle, Touched
<1>3. DOMAIN f = EntriesOn(a)
  OBVIOUS
<1> HIDE DEF f
<1>4. SumFunctionOnSet(f, EntriesOn(a)) \in Int
  BY <1>1, <1>2, SumType
<1>5. QED
  BY <1>3, <1>4 DEF EntrySum, SumFunction, f

\* One more row changes the sums of the accounts it touches, by its net.
LEMMA InsertedEntry ==
    ASSUME TypeOK, LedgerFinite, NEW r, IsPosting(r), NEW id, id \notin DOMAIN ledger,
           ledger' = [i \in DOMAIN ledger \cup {id} |-> IF i = id THEN r ELSE ledger[i]],
           NEW a \in Accounts
    PROVE  EntrySum(a)' = EntrySum(a) + Effect(r, a)
<1> DEFINE E == EntriesOn(a)
           F == EntriesOn(a)'
           f == [i \in E |-> ledger[i].net[a]]
           g == [i \in F |-> ledger'[i].net[a]]
<1>1. EntrySum(a) = SumFunctionOnSet(f, E) /\ EntrySum(a)' = SumFunctionOnSet(g, F)
  BY DEF EntrySum, SumFunction
<1>2. F = IF a \in Touched(r) THEN E \cup {id} ELSE E
  BY DEF EntriesOn, Touched
<1>3. id \notin E /\ \A i \in E : ledger'[i] = ledger[i]
  BY DEF EntriesOn
<1>4. IsFiniteSet(E) /\ IsFiniteSet(F)
  <2>1. IsFiniteSet(E)
    BY FS_Subset DEF LedgerFinite, EntriesOn
  <2> HIDE DEF E, F
  <2>2. QED
    BY <1>2, <2>1, FS_AddElement
<1>5. \A i \in E : f[i] \in Int /\ i \in F /\ g[i] = f[i]
  <2>1. \A i \in E : f[i] \in Int
    BY DEF EntriesOn, TypeOK, IsPosting, IsBundle, Touched
  <2>2. \A i \in E : i \in F
    BY <1>2
  <2>3. QED
    BY <1>3, <2>1, <2>2
<1>6. a \in Touched(r) => id \in F /\ g[id] = r.net[a] /\ r.net[a] \in Int
  <2>1. ledger'[id] = r
    OBVIOUS
  <2>2. QED
    BY <1>2, <2>1 DEF IsPosting, IsBundle, Touched
<1>7. EntrySum(a) \in Int
  BY EntrySumType
<1> HIDE DEF E, F, f, g
<1>8. SumFunctionOnSet(g, E) = SumFunctionOnSet(f, E)
  <2>1. E \in SUBSET E
    OBVIOUS
  <2>2. QED
    BY <1>4, <1>5, <2>1, SumAlike
<1>9. CASE a \in Touched(r)
  <2>1. F \ {id} = E
    BY <1>2, <1>3, <1>9
  <2>2. \A i \in F : g[i] \in Int
    BY <1>2, <1>5, <1>6, <1>9
  <2>3. SumFunctionOnSet(g, F) = g[id] + SumFunctionOnSet(g, E)
    BY <1>4, <1>6, <1>9, <2>1, <2>2, SumTakeOut
  <2>4. QED
    BY <1>1, <1>6, <1>7, <1>8, <1>9, <2>3 DEF Effect
<1>10. CASE a \notin Touched(r)
  BY <1>1, <1>2, <1>7, <1>8, <1>10 DEF Effect
<1>11. QED
  BY <1>9, <1>10

\* A balanced row whose lines carry the currencies of its accounts leaves the
\* books of every currency balanced.
LEMMA InsertBalances ==
    ASSUME TypeOK, LedgerFinite, DoubleEntry,
           NEW r, IsPosting(r), BalancedPerCurrency(r),
           \A a \in Touched(r) : CurrencyOf[a] = r.cur[a],
           NEW id, id \notin DOMAIN ledger,
           ledger' = [i \in DOMAIN ledger \cup {id} |-> IF i = id THEN r ELSE ledger[i]]
    PROVE  DoubleEntry'
<1> SUFFICES ASSUME NEW c \in Currencies
             PROVE  SumFunctionOnSet([a \in Accounts |-> EntrySum(a)'],
                                     {a \in Accounts : CurrencyOf[a] = c}) = 0
  BY DEF DoubleEntry
<1> DEFINE C == {a \in Accounts : CurrencyOf[a] = c}
           T == {a \in Touched(r) : r.cur[a] = c}
           old == [a \in Accounts |-> EntrySum(a)]
           new == [a \in Accounts |-> EntrySum(a)']
           eff == [a \in Accounts |-> Effect(r, a)]
<1>1. SumFunctionOnSet(old, C) = 0 /\ SumFunctionOnSet(r.net, T) = 0
  BY DEF DoubleEntry, BalancedPerCurrency
<1>2. IsFiniteSet(C) /\ T \in SUBSET C
  <2>1. IsFiniteSet(C)
    BY AccountsAssumption, FS_Subset
  <2>2. QED
    BY <2>1 DEF IsPosting, IsBundle
<1>3. \A a \in C : /\ old[a] \in Int /\ new[a] = old[a] + eff[a]
                   /\ eff[a] = IF a \in T THEN r.net[a] ELSE 0
                   /\ eff[a] \in Int
  <2>1. ASSUME NEW a \in C
        PROVE  EntrySum(a) \in Int /\ EntrySum(a)' = EntrySum(a) + Effect(r, a)
    BY EntrySumType, InsertedEntry
  <2>2. \A a \in C : Effect(r, a) = IF a \in T THEN r.net[a] ELSE 0
    BY DEF Effect
  <2>3. \A a \in T : r.net[a] \in Int
    BY DEF IsPosting, IsBundle
  <2>4. QED
    BY <2>1, <2>2, <2>3
<1>4. \A a \in T : r.net[a] \in Int
  BY DEF IsPosting, IsBundle
<1> HIDE DEF C, T, old, new, eff
<1>5. SumFunctionOnSet(eff, C) = SumFunctionOnSet(r.net, T)
  <2> DEFINE w == r.net
  <2>1. \A a \in C : eff[a] = IF a \in T THEN w[a] ELSE 0
    BY <1>3
  <2>2. \A a \in T : w[a] \in Int
    BY <1>4
  <2> HIDE DEF w
  <2>3. SumFunctionOnSet(eff, C) = SumFunctionOnSet(w, T)
    BY <1>2, <2>1, <2>2, SumAlike
  <2>4. QED
    BY <2>3 DEF w
<1>6. SumFunctionOnSet(new, C) = SumFunctionOnSet(old, C) + SumFunctionOnSet(eff, C)
  BY <1>2, <1>3, SumPlus
<1>7. QED
  BY <1>1, <1>5, <1>6 DEF new, C

LEMMA BooksKept ==
    ASSUME LedgerFinite, DoubleEntry, UNCHANGED ledger
    PROVE  LedgerFinite' /\ DoubleEntry'
BY DEF LedgerFinite, DoubleEntry, EntrySum, EntriesOn, Touched

\* A process that is not past its checks, or leaves, has no part in the locking.
LEMMA OrderKept ==
    ASSUME CheckedBalanced, TargetsLocked, AscendingLocks, NEW p \in Procs,
           \A q \in Procs \ {p} : /\ pc'[q] = pc[q] /\ req'[q] = req[q]
                                  /\ held'[q] = held[q] /\ heldTx'[q] = heldTx[q],
           pc'[p] \notin {"lock", "insert"}, heldTx'[p] = {}
    PROVE  CheckedBalanced' /\ TargetsLocked' /\ AscendingLocks'
<1>1. CheckedBalanced'
  BY DEF CheckedBalanced, BalancedPerCurrency, Touched
<1>2. TargetsLocked'
  BY DEF TargetsLocked
<1>3. AscendingLocks'
  BY DEF AscendingLocks, Unlocked, Touched
<1>4. QED
  BY <1>1, <1>2, <1>3

-----------------------------------------------------------------------------
(* The initial state *)

LEMMA InitEstablishes == Init => IInv
<1> SUFFICES ASSUME Init PROVE IInv
  OBVIOUS
<1> USE AccountsAssumption, LedgerAssumption DEF Init
<1>1. TypeOK
  BY DEF TypeOK, AccountRow, NoAccount, Statuses, Job, NoJob, Stages, Events
<1>2. OverdraftFloor
  BY DEF OverdraftFloor, NoAccount
<1>3. LedgerFinite
  BY FS_EmptySet DEF LedgerFinite
<1>4. DoubleEntry
  <2> DEFINE E == [a \in Accounts |-> EntrySum(a)]
  <2>1. \A a \in Accounts : E[a] = 0
    <3>1. ASSUME NEW a \in Accounts PROVE EntrySum(a) = 0
      <4> DEFINE f == [id \in EntriesOn(a) |-> ledger[id].net[a]]
      <4>1. DOMAIN f = {}
        BY DEF EntriesOn
      <4> HIDE DEF f
      <4>2. SumFunctionOnSet(f, {}) = 0
        BY FS_EmptySet, SumEquation
      <4>3. QED
        BY <4>1, <4>2 DEF EntrySum, SumFunction, f
    <3>2. QED
      BY <3>1
  <2> HIDE DEF E
  <2>2. ASSUME NEW c \in Currencies
        PROVE  SumFunctionOnSet(E, {a \in Accounts : CurrencyOf[a] = c}) = 0
    <3> DEFINE C == {a \in Accounts : CurrencyOf[a] = c}
    <3>1. IsFiniteSet(C) /\ \A a \in C : E[a] = 0
      BY <2>1, FS_Subset
    <3> HIDE DEF C
    <3>2. SumFunctionOnSet(E, C) = 0
      BY <3>1, SumZero
    <3>3. QED
      BY <3>2 DEF C
  <2>3. QED
    BY <2>2 DEF DoubleEntry, E
<1>5. QED
  BY <1>1, <1>2, <1>3, <1>4 DEF IInv, LocksExclusive, LocksHeldByPostings, HeldAccepted,
     InsertHoldsAll, ReadFloor, TargetsPosted, CorrelationUnique, ReversedAtMostOnce,
     CheckedBalanced, TargetsLocked, AscendingLocks

-----------------------------------------------------------------------------
(* Every step keeps IInv.  Types come first, one lemma for all steps. *)

LEMMA EndTypes ==
    ASSUME TypeOK, NEW p \in Procs, EndTransaction(p)
    PROVE  /\ pc' \in [Procs -> Stages]
           /\ held' \in [Procs -> SUBSET Accounts]
           /\ heldTx' \in [Procs -> SUBSET TxIds]
           /\ job' \in [Procs -> Job]
           /\ prior' \in [Procs -> SUBSET TxIds]
           /\ DOMAIN req' = Procs
           /\ \A q \in Procs : pc'[q] \in InTransaction =>
                 /\ q # p
                 /\ pc[q] \in InTransaction
                 /\ req'[q] = req[q]
BY DEF TypeOK, EndTransaction, Stages, Job, NoJob, NoAccount, AccountRow, Statuses,
       InTransaction

LEMMA RollbackTypes ==
    ASSUME TypeOK, NEW p \in Procs, Rollback(p)
    PROVE  TypeOK'
BY EndTypes DEF TypeOK, Rollback, rows, InTransaction, IsPosting, IsBundle, Touched

\* Ending a transaction without a write frees its locks and changes no row.
LEMMA RollbackPreserves ==
    ASSUME IInv, NEW p \in Procs, Rollback(p)
    PROVE  IInv'
<1> USE DEF IInv, Rollback, EndTransaction, rows
<1>1. TypeOK'
  BY RollbackTypes
<1>2. /\ DOMAIN pc = Procs /\ DOMAIN held = Procs /\ DOMAIN req = Procs
      /\ DOMAIN job = Procs
  BY DEF TypeOK
<1>3. LocksExclusive' /\ LocksHeldByPostings'
  BY <1>2 DEF LocksExclusive, LocksHeldByPostings
<1>4. HeldAccepted' /\ InsertHoldsAll'
  BY <1>2 DEF HeldAccepted, InsertHoldsAll, Touched, Accepts
<1>5. OverdraftFloor' /\ ReadFloor'
  BY <1>2 DEF OverdraftFloor, ReadFloor
<1>6. TargetsPosted'
  BY <1>2 DEF TargetsPosted
<1>7. CorrelationUnique' /\ ReversedAtMostOnce'
  BY DEF CorrelationUnique, ReversedAtMostOnce
<1>8. LedgerFinite' /\ DoubleEntry'
  BY BooksKept
<1>9. CheckedBalanced' /\ TargetsLocked' /\ AscendingLocks'
  BY <1>2, OrderKept DEF TypeOK
<1>10. QED
  BY <1>1, <1>3, <1>4, <1>5, <1>6, <1>7, <1>8, <1>9

LEMMA CreateAccountPreserves ==
    ASSUME IInv, NEW p \in Procs, NEW a \in Accounts, NEW s \in CreatedAs,
           CreateAccount(p, a, s)
    PROVE  IInv'
<1> USE LedgerAssumption DEF IInv, CreateAccount
<1>1. /\ accounts' \in [Accounts -> AccountRow]
      /\ \A b \in Accounts : /\ accounts'[b].balance = accounts[b].balance
                             /\ accounts'[b].availableBalance = accounts[b].availableBalance
                             /\ b # a => accounts'[b] = accounts[b]
  BY DEF TypeOK, AccountRow, Statuses
<1>2. TypeOK'
  BY <1>1 DEF TypeOK, IsPosting, IsBundle, Touched
<1>3. \A q \in Procs : a \notin held[q]
  BY DEF HeldAccepted, Accepts
<1>4. HeldAccepted'
  BY <1>1, <1>3 DEF HeldAccepted, Touched, Accepts, TypeOK
<1>5. OverdraftFloor' /\ ReadFloor'
  BY <1>1 DEF OverdraftFloor, ReadFloor
<1>6. LocksExclusive' /\ LocksHeldByPostings' /\ InsertHoldsAll' /\ TargetsPosted'
  BY DEF LocksExclusive, LocksHeldByPostings, InsertHoldsAll, Touched, TargetsPosted
<1>7. CorrelationUnique' /\ ReversedAtMostOnce'
  BY DEF CorrelationUnique, ReversedAtMostOnce
<1>8. LedgerFinite' /\ DoubleEntry'
  BY BooksKept
<1>9. CheckedBalanced' /\ TargetsLocked' /\ AscendingLocks'
  BY OrderKept DEF TargetsLocked
<1>10. QED
  BY <1>2, <1>4, <1>5, <1>6, <1>7, <1>8, <1>9

\* The read of a status update: its copy respects the overdraft limit because
\* the row it copies does.
LEMMA StatusReadPreserves ==
    ASSUME IInv, NEW p \in Procs, NEW a \in Accounts, NEW s \in {"FROZEN", "ACTIVE"},
           StatusRead(p, a, s)
    PROVE  IInv'
<1> USE DEF IInv, StatusRead
<1>1. TypeOK'
  BY DEF TypeOK, Job, Stages, Statuses, IsPosting, IsBundle, Touched
<1>2. held[p] = {}
  BY DEF LocksHeldByPostings
<1>3. LocksExclusive' /\ LocksHeldByPostings'
  BY <1>2 DEF LocksExclusive, LocksHeldByPostings, TypeOK
<1>4. HeldAccepted' /\ InsertHoldsAll'
  BY <1>2 DEF HeldAccepted, InsertHoldsAll, Touched, Accepts, TypeOK
<1>5. OverdraftFloor' /\ ReadFloor'
  BY DEF OverdraftFloor, ReadFloor, TypeOK
<1>6. TargetsPosted'
  BY DEF TargetsPosted, TypeOK
<1>7. CorrelationUnique' /\ ReversedAtMostOnce'
  BY DEF CorrelationUnique, ReversedAtMostOnce
<1>8. LedgerFinite' /\ DoubleEntry'
  BY BooksKept
<1>9. CheckedBalanced' /\ TargetsLocked' /\ AscendingLocks'
  BY OrderKept DEF TypeOK, TargetsLocked
<1>10. QED
  BY <1>1, <1>3, <1>4, <1>5, <1>6, <1>7, <1>8, <1>9

LEMMA StatusReloadPreserves ==
    ASSUME IInv, NEW p \in Procs, StatusReload(p)
    PROVE  IInv'
<1> USE DEF IInv, StatusReload
<1>1. ChangedColumns(job[p], accounts[job[p].account])
        \in SUBSET {"status", "balance", "availableBalance"}
  BY DEF ChangedColumns
<1>2. /\ job' \in [Procs -> Job]
      /\ \A q \in Procs : /\ job'[q].account = job[q].account
                          /\ job'[q].read = job[q].read
  BY <1>1 DEF TypeOK, Job
<1>3. TypeOK'
  BY <1>2 DEF TypeOK, Stages, IsPosting, IsBundle, Touched
<1>4. held[p] = {}
  BY DEF LocksHeldByPostings
<1>5. LocksExclusive' /\ LocksHeldByPostings'
  BY <1>4 DEF LocksExclusive, LocksHeldByPostings, TypeOK
<1>6. HeldAccepted' /\ InsertHoldsAll'
  BY <1>4 DEF HeldAccepted, InsertHoldsAll, Touched, Accepts, TypeOK
<1>7. OverdraftFloor' /\ ReadFloor'
  BY <1>2 DEF OverdraftFloor, ReadFloor, TypeOK
<1>8. TargetsPosted'
  BY DEF TargetsPosted, TypeOK
<1>9. CorrelationUnique' /\ ReversedAtMostOnce'
  BY DEF CorrelationUnique, ReversedAtMostOnce
<1>10. LedgerFinite' /\ DoubleEntry'
  BY BooksKept
<1>11. CheckedBalanced' /\ TargetsLocked' /\ AscendingLocks'
  BY OrderKept DEF TypeOK, TargetsLocked
<1>12. QED
  BY <1>3, <1>5, <1>6, <1>7, <1>8, <1>9, <1>10, <1>11

\* The write of a status update waits for the row's lock, so no posting that
\* has checked the row is under way, and what it writes back was above the
\* limit when it was read.
LEMMA StatusWritePreserves ==
    ASSUME IInv, NEW p \in Procs, StatusWrite(p)
    PROVE  IInv'
<1> DEFINE a == job[p].account
<1> USE AccountsAssumption DEF IInv, StatusWrite
<1>1. /\ a \in Accounts
      /\ job[p] \in Job
      /\ accounts[a] \in AccountRow
      /\ job[p].read.availableBalance >= -Overdraft[a]
  BY DEF ReadFloor, TypeOK
<1>2. /\ Saved(job[p], accounts[a]) \in AccountRow
      /\ Saved(job[p], accounts[a]).availableBalance >= -Overdraft[a]
      /\ job[p].cols = {} => Saved(job[p], accounts[a]) = accounts[a]
  BY <1>1 DEF Saved, Job, AccountRow, OverdraftFloor
<1>3. /\ accounts' \in [Accounts -> AccountRow]
      /\ \A b \in Accounts \ {a} : accounts'[b] = accounts[b]
      /\ accounts'[a] = Saved(job[p], accounts[a])
  BY <1>1, <1>2 DEF TypeOK
<1>4. announced' \in [Accounts -> {"none", "created", "frozen", "unfrozen"}]
  <2>1. StatusEvent(job[p]) \in {{}, {"frozen"}, {"unfrozen"}}
    BY DEF StatusEvent
  <2>2. StatusEvent(job[p]) # {} =>
          (CHOOSE e \in StatusEvent(job[p]) : TRUE) \in {"frozen", "unfrozen"}
    BY <2>1
  <2>3. QED
    BY <2>2 DEF TypeOK
<1>5. TypeOK'
  BY <1>3, <1>4, EndTypes DEF TypeOK, InTransaction, IsPosting, IsBundle, Touched
<1>6. held[p] = {}
  BY DEF LocksHeldByPostings
<1>7. \A q \in Procs : \A b \in held[q] : accounts'[b] = accounts[b]
  BY <1>2, <1>3, <1>6 DEF Free, TypeOK
<1>8. LocksExclusive' /\ LocksHeldByPostings'
  BY <1>6 DEF LocksExclusive, LocksHeldByPostings, TypeOK, EndTransaction
<1>9. HeldAccepted' /\ InsertHoldsAll'
  BY <1>6, <1>7 DEF HeldAccepted, InsertHoldsAll, Touched, Accepts, TypeOK, EndTransaction
<1>10. OverdraftFloor' /\ ReadFloor'
  BY <1>2, <1>3 DEF OverdraftFloor, ReadFloor, TypeOK, EndTransaction
<1>11. TargetsPosted' /\ CorrelationUnique' /\ ReversedAtMostOnce'
  BY DEF TargetsPosted, CorrelationUnique, ReversedAtMostOnce, TypeOK, EndTransaction
<1>12. LedgerFinite' /\ DoubleEntry'
  BY BooksKept
<1>13. CheckedBalanced' /\ TargetsLocked' /\ AscendingLocks'
  BY OrderKept DEF TypeOK, EndTransaction
<1>14. QED
  BY <1>5, <1>8, <1>9, <1>10, <1>11, <1>12, <1>13

\* A process that starts or is about to lock its target holds nothing yet.
LEMMA BeginPreserves ==
    ASSUME IInv, NEW p \in Procs, NEW r, IsPosting(r),
           pc[p] = "idle",
           pc' = [pc EXCEPT ![p] = "lookup"],
           req' = [req EXCEPT ![p] = r],
           prior' \in [Procs -> SUBSET TxIds],
           UNCHANGED <<accounts, ledger, ledgerEvents, announced, held, heldTx, job>>
    PROVE  IInv'
<1> USE DEF IInv
<1>1. TypeOK'
  BY DEF TypeOK, Stages, IsPosting, IsBundle, Touched
<1>2. held[p] = {}
  BY DEF LocksHeldByPostings
<1>3. LocksExclusive' /\ LocksHeldByPostings'
  BY <1>2 DEF LocksExclusive, LocksHeldByPostings, TypeOK
<1>4. HeldAccepted' /\ InsertHoldsAll'
  BY <1>2 DEF HeldAccepted, InsertHoldsAll, Touched, Accepts, TypeOK
<1>5. OverdraftFloor' /\ ReadFloor'
  BY DEF OverdraftFloor, ReadFloor, TypeOK
<1>6. TargetsPosted' /\ CorrelationUnique' /\ ReversedAtMostOnce'
  BY DEF TargetsPosted, CorrelationUnique, ReversedAtMostOnce, TypeOK
<1>7. LedgerFinite' /\ DoubleEntry'
  BY BooksKept
<1>8. CheckedBalanced' /\ TargetsLocked' /\ AscendingLocks'
  BY OrderKept DEF TypeOK, TargetsLocked
<1>9. QED
  BY <1>1, <1>3, <1>4, <1>5, <1>6, <1>7, <1>8

LEMMA BeginPostPreserves ==
    ASSUME IInv, NEW p \in Procs, NEW d \in Posts, NEW orig \in TxIds \cup {None},
           BeginPost(p, d, orig)
    PROVE  IInv'
<1> DEFINE r == [corr |-> d.corr, reverses |-> orig, net |-> d.net, cur |-> d.cur]
<1>1. IsPosting(r)
  BY LedgerAssumption DEF IsPosting, IsBundle, Touched
<1>2. prior' \in [Procs -> SUBSET TxIds]
  BY DEF BeginPost, WithCorrelation, IInv, TypeOK
<1>3. QED
  BY <1>1, <1>2, BeginPreserves DEF BeginPost

LEMMA BeginReversePreserves ==
    ASSUME IInv, NEW p \in Procs, NEW k \in ReverseKeys, NEW orig \in TxIds,
           BeginReverse(p, k, orig)
    PROVE  IInv'
<1> DEFINE m == Mirror(ledger[orig])
           r == [corr |-> k, reverses |-> orig, net |-> m.net, cur |-> m.cur]
<1>1. IsPosting(ledger[orig])
  BY DEF IInv, TypeOK, BeginReverse
<1>2. /\ DOMAIN m.net = DOMAIN ledger[orig].net
      /\ m.net \in [DOMAIN m.net -> Int]
      /\ m.cur = ledger[orig].cur
  BY <1>1 DEF Mirror, IsPosting, IsBundle, Touched
<1>3. IsPosting(r)
  BY <1>1, <1>2, LedgerAssumption DEF IsPosting, IsBundle, Touched
<1>4. prior' \in [Procs -> SUBSET TxIds]
  BY DEF BeginReverse, IInv, TypeOK
<1>5. QED
  BY <1>3, <1>4, BeginPreserves DEF BeginReverse

LEMMA LookupPreserves ==
    ASSUME IInv, NEW p \in Procs, Lookup(p)
    PROVE  IInv'
<1>1. CASE Rollback(p)
  BY <1>1, RollbackPreserves
<1>2. CASE /\ pc' = [pc EXCEPT ![p] = "target"]
           /\ UNCHANGED <<rows, req, held, heldTx, job, prior>>
  <2> USE <1>2 DEF IInv, Lookup, rows
  <2>1. TypeOK'
    BY DEF TypeOK, Stages, IsPosting, IsBundle, Touched
  <2>2. held[p] = {}
    BY DEF LocksHeldByPostings
  <2>3. LocksExclusive' /\ LocksHeldByPostings' /\ HeldAccepted' /\ InsertHoldsAll'
    BY <2>2 DEF LocksExclusive, LocksHeldByPostings, HeldAccepted, InsertHoldsAll,
       Touched, Accepts, TypeOK
  <2>4. OverdraftFloor' /\ ReadFloor' /\ TargetsPosted'
    BY DEF OverdraftFloor, ReadFloor, TargetsPosted, TypeOK
  <2>5. CorrelationUnique' /\ ReversedAtMostOnce'
    BY DEF CorrelationUnique, ReversedAtMostOnce
  <2>6. LedgerFinite' /\ DoubleEntry'
    BY BooksKept
  <2>7. CheckedBalanced' /\ TargetsLocked' /\ AscendingLocks'
    BY OrderKept DEF TypeOK, TargetsLocked
  <2>8. QED
    BY <2>1, <2>3, <2>4, <2>5, <2>6, <2>7
<1>3. QED
  BY <1>1, <1>2 DEF Lookup

\* Only a posting whose target is posted and no reversal goes on to lock rows.
LEMMA CheckTargetPreserves ==
    ASSUME IInv, NEW p \in Procs, CheckTarget(p)
    PROVE  IInv'
<1> DEFINE t == req[p].reverses
<1>1. CASE Rollback(p)
  BY <1>1, RollbackPreserves
<1>2. CASE /\ TargetOK(p) /\ BalancedPerCurrency(req[p])
           /\ heldTx' = [heldTx EXCEPT ![p] = {t} \ {None}]
           /\ pc' = [pc EXCEPT ![p] = "lock"]
           /\ UNCHANGED <<rows, req, held, job, prior>>
  <2> USE <1>2 DEF IInv, rows
  <2>0. pc[p] = "target"
    BY DEF CheckTarget
  <2>1. t \in TxIds \cup {None}
    BY <2>0 DEF TypeOK, IsPosting
  <2>2. TypeOK'
    BY <2>0, <2>1 DEF TypeOK, Stages, IsPosting, IsBundle, Touched
  <2>3. held[p] = {}
    BY <2>0 DEF LocksHeldByPostings
  <2>4. LocksExclusive' /\ LocksHeldByPostings' /\ HeldAccepted' /\ InsertHoldsAll'
    BY <2>0, <2>3 DEF LocksExclusive, LocksHeldByPostings, HeldAccepted, InsertHoldsAll,
       Touched, Accepts, TypeOK
  <2>5. OverdraftFloor' /\ ReadFloor'
    BY <2>0 DEF OverdraftFloor, ReadFloor, TypeOK
  <2>6. TargetsPosted'
    BY <2>0 DEF TargetsPosted, TargetOK, IsReversal, TypeOK
  <2>7. CorrelationUnique' /\ ReversedAtMostOnce'
    BY DEF CorrelationUnique, ReversedAtMostOnce
  <2>8. LedgerFinite' /\ DoubleEntry'
    BY BooksKept
  <2>9. CheckedBalanced'
    <3>1. \A q \in Procs : pc'[q] \in {"lock", "insert"} => BalancedPerCurrency(req[q])
      BY DEF CheckedBalanced, TypeOK
    <3>2. QED
      BY <3>1 DEF CheckedBalanced, BalancedPerCurrency, Touched
  <2>10. TargetsLocked' /\ AscendingLocks'
    BY <2>3 DEF TargetsLocked, AscendingLocks, Unlocked, Touched, TypeOK
  <2>11. QED
    BY <2>2, <2>4, <2>5, <2>6, <2>7, <2>8, <2>9, <2>10
<1>3. QED
  BY <1>1, <1>2 DEF CheckTarget

LEMMA LockAccountPreserves ==
    ASSUME IInv, NEW p \in Procs, NEW a \in Accounts, LockAccount(p, a)
    PROVE  IInv'
<1>1. CASE Rollback(p)
  BY <1>1, RollbackPreserves
<1>2. CASE /\ Accepts(accounts[a], a, req[p])
           /\ held' = [held EXCEPT ![p] = @ \cup {a}]
           /\ pc' = [pc EXCEPT ![p] = IF Unlocked(p) = {a} THEN "insert" ELSE "lock"]
           /\ UNCHANGED <<rows, req, heldTx, job, prior>>
  <2> USE <1>2 DEF IInv, rows
  <2>0. /\ pc[p] = "lock"
        /\ a \in Touched(req[p]) \ held[p]
        /\ \A q \in Procs \ {p} : a \notin held[q]
    BY DEF LockAccount, IsNextAccount, Unlocked, Free
  <2>1. /\ held' \in [Procs -> SUBSET Accounts]
        /\ held'[p] = held[p] \cup {a}
        /\ \A q \in Procs \ {p} : held'[q] = held[q]
    BY DEF TypeOK
  <2>2. /\ pc' \in [Procs -> Stages]
        /\ pc'[p] = IF Unlocked(p) = {a} THEN "insert" ELSE "lock"
        /\ \A q \in Procs \ {p} : pc'[q] = pc[q]
    BY DEF TypeOK, Stages
  <2>3. TypeOK'
    BY <2>0, <2>1, <2>2 DEF TypeOK, IsPosting, IsBundle, Touched
  <2>4. LocksExclusive'
    BY <2>0, <2>1 DEF LocksExclusive
  <2>5. LocksHeldByPostings'
    BY <2>1, <2>2 DEF LocksHeldByPostings
  <2>6. HeldAccepted'
    BY <2>0, <2>1 DEF HeldAccepted, Touched, Accepts
  <2>7. InsertHoldsAll'
    <3>1. held[p] \subseteq Touched(req[p])
      BY DEF HeldAccepted
    <3>2. pc'[p] = "insert" => held'[p] = Touched(req[p])
      BY <2>0, <2>1, <2>2, <3>1 DEF Unlocked
    <3>3. QED
      BY <2>1, <2>2, <3>2 DEF InsertHoldsAll, Touched
  <2>8. OverdraftFloor' /\ ReadFloor'
    BY <2>0, <2>2 DEF OverdraftFloor, ReadFloor
  <2>9. TargetsPosted'
    BY <2>0, <2>2 DEF TargetsPosted
  <2>10. CorrelationUnique' /\ ReversedAtMostOnce'
    BY DEF CorrelationUnique, ReversedAtMostOnce
  <2>11. LedgerFinite' /\ DoubleEntry'
    BY BooksKept
  <2>12. CheckedBalanced' /\ TargetsLocked'
    BY <2>0, <2>2 DEF CheckedBalanced, BalancedPerCurrency, Touched, TargetsLocked
  <2>13. AscendingLocks'
    <3>1. \A b \in Unlocked(p) : a <= b
      BY DEF LockAccount, IsNextAccount
    <3>2. Unlocked(p)' = Unlocked(p) \ {a} /\ Unlocked(p) \subseteq Nat
      <4>1. Touched(req[p]) \subseteq Accounts
        BY <2>0 DEF TypeOK, IsPosting, IsBundle
      <4>2. QED
        BY <2>1, <4>1, AccountsAssumption DEF Unlocked, Touched
    <3>3. \A b \in held[p] \cup {a} : \A d \in Unlocked(p) \ {a} : b < d
      BY <2>0, <3>1, <3>2, AccountsAssumption DEF AscendingLocks
    <3>4. QED
      BY <2>1, <2>2, <3>2, <3>3 DEF AscendingLocks, Unlocked, Touched
  <2>14. QED
    BY <2>3, <2>4, <2>5, <2>6, <2>7, <2>8, <2>9, <2>10, <2>11, <2>12, <2>13
<1>3. QED
  BY <1>1, <1>2 DEF LockAccount

\* The insert: every touched row is locked and still accepts the posting, so
\* the projection stays above the limits; the unique indexes keep one row per
\* correlation id and one reversal per target.
LEMMA InsertPreserves ==
    ASSUME IInv, NEW p \in Procs, Insert(p)
    PROVE  IInv'
<1>1. CASE Rollback(p)
  BY <1>1, RollbackPreserves
<1>2. CASE ~Rollback(p)
  <2> USE DEF IInv
  <2>0. /\ pc[p] = "insert"
        /\ ~UniqueViolation(p)
        /\ accounts' = Project(accounts, req[p])
        /\ EndTransaction(p)
        /\ UNCHANGED announced
    BY <1>2 DEF Insert
  <2>1. PICK id \in TxIds \ DOMAIN ledger :
          /\ ledger' = [i \in DOMAIN ledger \cup {id} |->
                           IF i = id THEN req[p] ELSE ledger[i]]
          /\ ledgerEvents' = ledgerEvents \cup
                {[key |-> IF req[p].reverses = None
                          THEN "ledger.transaction.posted" ELSE "ledger.transaction.reversed",
                  tx |-> id]}
    BY <1>2 DEF Insert
  <2>2. /\ IsPosting(req[p])
        /\ held[p] = Touched(req[p])
        /\ \A a \in Touched(req[p]) : Accepts(accounts[a], a, req[p])
    BY <2>0 DEF TypeOK, InsertHoldsAll, HeldAccepted
  <2>3. /\ accounts' \in [Accounts -> AccountRow]
        /\ \A a \in Accounts \ held[p] : accounts'[a] = accounts[a]
        /\ \A a \in held[p] :
              accounts'[a].availableBalance
                = accounts[a].availableBalance + req[p].net[a]
    <3>1. \A a \in Touched(req[p]) : a \in Accounts /\ req[p].net[a] \in Int
      BY <2>2 DEF IsPosting, IsBundle, Touched
    <3>2. \A a \in Accounts : accounts[a] \in AccountRow
      BY DEF TypeOK
    <3>3. \A a \in Touched(req[p]) :
            /\ accounts'[a] \in AccountRow
            /\ accounts'[a].availableBalance
                 = accounts[a].availableBalance + req[p].net[a]
      BY <2>0, <3>1, <3>2 DEF Project, AccountRow
    <3>4. \A a \in Accounts \ Touched(req[p]) : accounts'[a] = accounts[a]
      BY <2>0 DEF Project
    <3>5. accounts' \in [Accounts -> AccountRow]
      <4>1. accounts' = [a \in Accounts |-> accounts'[a]]
        BY <2>0 DEF Project
      <4>2. \A a \in Accounts : accounts'[a] \in AccountRow
        BY <3>2, <3>3, <3>4
      <4>3. QED
        BY <4>1, <4>2
    <3>6. QED
      BY <2>2, <3>3, <3>4, <3>5
  <2>4. /\ DOMAIN ledger' = DOMAIN ledger \cup {id}
        /\ ledger'[id] = req[p]
        /\ \A i \in DOMAIN ledger : ledger'[i] = ledger[i]
    BY <2>1
  <2>5. TypeOK'
    <3>1. ledgerEvents' \in SUBSET Events
      BY <2>1 DEF TypeOK, Events
    <3>2. /\ DOMAIN ledger' \in SUBSET TxIds
          /\ \A i \in DOMAIN ledger' : IsPosting(ledger'[i])
      BY <2>2, <2>4 DEF TypeOK
    <3>3. \A q \in Procs : pc'[q] \in InTransaction =>
             pc[q] \in InTransaction /\ req'[q] = req[q]
      BY <2>0, EndTypes
    <3>4. \A q \in Procs : pc'[q] \in InTransaction => IsPosting(req'[q])
      BY <3>3 DEF TypeOK, InTransaction, IsPosting, IsBundle, Touched
    <3>5. QED
      BY <2>0, <2>3, <3>1, <3>2, <3>4, EndTypes DEF TypeOK, InTransaction
  <2>6. LocksExclusive' /\ LocksHeldByPostings' /\ InsertHoldsAll'
    BY <2>0 DEF LocksExclusive, LocksHeldByPostings, InsertHoldsAll, Touched, TypeOK,
       EndTransaction
  <2>7. HeldAccepted'
    <3>1. SUFFICES ASSUME NEW q \in Procs, NEW a \in held'[q]
                   PROVE  (a \in Touched(req[q]) /\ Accepts(accounts[a], a, req[q]))'
      BY DEF HeldAccepted
    <3>2. q # p /\ a \in held[q] /\ req'[q] = req[q]
      BY <2>0 DEF EndTransaction, TypeOK
    <3>3. a \in Accounts /\ accounts'[a] = accounts[a]
      BY <2>3, <3>2 DEF LocksExclusive, TypeOK
    <3>4. QED
      BY <3>2, <3>3 DEF HeldAccepted, Touched, Accepts
  <2>8. OverdraftFloor'
    BY <2>2, <2>3 DEF OverdraftFloor, Accepts
  <2>9. ReadFloor'
    BY <2>0 DEF ReadFloor, EndTransaction, TypeOK
  <2>10. TargetsPosted'
    BY <2>0, <2>4 DEF TargetsPosted, EndTransaction, TypeOK
  <2>11. CorrelationUnique'
    BY <2>0, <2>4 DEF CorrelationUnique, UniqueViolation, WithCorrelation
  <2>12. ReversedAtMostOnce'
    <3>1. req[p].reverses # None => \A j \in DOMAIN ledger : ledger[j].reverses # req[p].reverses
      BY <2>0 DEF UniqueViolation, ReversalsOf
    <3>2. req[p].reverses # id
      BY <2>0, LedgerAssumption DEF TargetsPosted
    <3>3. \A j \in DOMAIN ledger : ledger[j].reverses # id
      BY LedgerAssumption DEF TargetsPosted
    <3>4. req[p].reverses # None => ledger[req[p].reverses].reverses = None
      BY <2>0 DEF TargetsPosted
    <3>5. \A j \in DOMAIN ledger : j # None
      BY LedgerAssumption DEF TypeOK
    <3>6. SUFFICES ASSUME NEW i \in DOMAIN ledger', NEW j \in DOMAIN ledger',
                          ledger'[i].reverses # None
                   PROVE  /\ ledger'[j].reverses = ledger'[i].reverses => i = j
                          /\ ledger'[j].reverses # i
      BY DEF ReversedAtMostOnce
    <3>7. CASE i = id
      BY <2>4, <3>1, <3>2, <3>3, <3>6, <3>7
    <3>8. CASE i # id
      BY <2>4, <3>1, <3>4, <3>5, <3>6, <3>8 DEF ReversedAtMostOnce
    <3>9. QED
      BY <3>7, <3>8
  <2>13. LedgerFinite'
    BY <2>4, FS_AddElement DEF LedgerFinite
  <2>14. DoubleEntry'
    <3>1. BalancedPerCurrency(req[p])
      BY <2>0 DEF CheckedBalanced
    <3>2. \A a \in Touched(req[p]) : CurrencyOf[a] = req[p].cur[a]
      BY <2>2 DEF Accepts
    <3>3. QED
      BY <2>1, <2>2, <3>1, <3>2, InsertBalances
  <2>15. CheckedBalanced' /\ TargetsLocked' /\ AscendingLocks'
    BY <2>0, OrderKept DEF EndTransaction, TypeOK
  <2>16. QED
    BY <2>5, <2>6, <2>7, <2>8, <2>9, <2>10, <2>11, <2>12, <2>13, <2>14, <2>15
<1>3. QED
  BY <1>1, <1>2

-----------------------------------------------------------------------------
(* The theorems *)

LEMMA NextPreserves == IInv /\ [Next]_vars => IInv'
<1> SUFFICES ASSUME IInv, [Next]_vars PROVE IInv'
  OBVIOUS
<1>1. ASSUME NEW p \in Procs, Step(p) PROVE IInv'
  <2>1. CASE \E a \in Accounts, s \in CreatedAs : CreateAccount(p, a, s)
    BY <2>1, CreateAccountPreserves
  <2>2. CASE \E a \in Accounts, s \in {"FROZEN", "ACTIVE"} : StatusRead(p, a, s)
    BY <2>2, StatusReadPreserves
  <2>3. CASE StatusReload(p)
    BY <2>3, StatusReloadPreserves
  <2>4. CASE StatusWrite(p)
    BY <2>4, StatusWritePreserves
  <2>5. CASE \E d \in Posts, orig \in TxIds \cup {None} : BeginPost(p, d, orig)
    BY <2>5, BeginPostPreserves
  <2>6. CASE \E k \in ReverseKeys, orig \in TxIds : BeginReverse(p, k, orig)
    BY <2>6, BeginReversePreserves
  <2>7. CASE Lookup(p)
    BY <2>7, LookupPreserves
  <2>8. CASE CheckTarget(p)
    BY <2>8, CheckTargetPreserves
  <2>9. CASE \E a \in Accounts : LockAccount(p, a)
    BY <2>9, LockAccountPreserves
  <2>10. CASE Insert(p)
    BY <2>10, InsertPreserves
  <2>11. CASE Crash(p)
    BY <2>11, RollbackPreserves DEF Crash
  <2>12. QED
    BY <1>1, <2>1, <2>2, <2>3, <2>4, <2>5, <2>6, <2>7, <2>8, <2>9, <2>10, <2>11
    DEF Step
<1>2. CASE UNCHANGED vars
  <2> USE <1>2 DEF IInv, vars
  <2>1. LedgerFinite' /\ DoubleEntry'
    BY BooksKept
  <2>2. CheckedBalanced' /\ TargetsLocked' /\ AscendingLocks'
    BY DEF CheckedBalanced, BalancedPerCurrency, TargetsLocked, AscendingLocks, Unlocked,
       Touched
  <2>3. QED
    BY <2>1, <2>2 DEF TypeOK, IsPosting, IsBundle, Touched, Accepts, LocksExclusive,
       LocksHeldByPostings, HeldAccepted, InsertHoldsAll, OverdraftFloor, ReadFloor,
       TargetsPosted, CorrelationUnique, ReversedAtMostOnce
<1>3. QED
  BY <1>1, <1>2 DEF Next

LEMMA Inductive == Spec => []IInv
<1>1. QED
  BY InitEstablishes, NextPreserves, PTL DEF Spec

\* Every reachable state has the types of TypeOK.
THEOREM LedgerTypes == Spec => []TypeOK
<1>1. IInv => TypeOK
  BY DEF IInv
<1>2. QED
  BY <1>1, Inductive, PTL

\* The overdraft limit holds in every reachable state, whatever postings,
\* reversals and unlocked status saves interleave (PostingService's check and
\* the projections of AccountsService).
THEOREM OverdraftSafe == Spec => []OverdraftFloor
<1>1. IInv => OverdraftFloor
  BY DEF IInv
<1>2. QED
  BY <1>1, Inductive, PTL

\* A transaction is reversed at most once and a reversal never.
THEOREM ReversalOnce == Spec => []ReversedAtMostOnce
<1>1. IInv => ReversedAtMostOnce
  BY DEF IInv
<1>2. QED
  BY <1>1, Inductive, PTL

\* A row that has the correlation id of a posting when that begins stays the only
\* one, and the posting stays at the lookup until it is answered with it.
LEMMA RepeatsPreserved ==
    ASSUME IInv, RepeatsGetTheRow, [Next]_vars
    PROVE  RepeatsGetTheRow'
<1>1. TypeOK /\ CorrelationUnique
  BY DEF IInv
<1>2. ASSUME ledger' = ledger,
             \A p \in Procs : prior'[p] # {} =>
                prior'[p] = prior[p] /\ pc'[p] = pc[p] /\ req'[p] = req[p]
      PROVE  RepeatsGetTheRow'
  BY <1>2 DEF RepeatsGetTheRow, WithCorrelation
<1>3. ASSUME NEW p \in Procs, EndTransaction(p), ledger' = ledger
      PROVE  RepeatsGetTheRow'
  BY <1>1, <1>2, <1>3 DEF EndTransaction, TypeOK
<1>4. ASSUME NEW p \in Procs, NEW d \in Posts, NEW orig \in TxIds \cup {None},
             BeginPost(p, d, orig)
      PROVE  RepeatsGetTheRow'
  <2>1. /\ ledger' = ledger /\ pc'[p] = "lookup" /\ req'[p].corr = d.corr
        /\ prior'[p] = WithCorrelation(d.corr)
        /\ \A q \in Procs \ {p} :
              prior'[q] = prior[q] /\ pc'[q] = pc[q] /\ req'[q] = req[q]
    BY <1>1, <1>4 DEF BeginPost, TypeOK
  <2>2. \A id \in WithCorrelation(d.corr) : WithCorrelation(d.corr) = {id}
    BY <1>1 DEF CorrelationUnique, WithCorrelation
  <2>3. QED
    BY <2>1, <2>2 DEF RepeatsGetTheRow, WithCorrelation
<1>5. ASSUME NEW p \in Procs, NEW k \in ReverseKeys, NEW orig \in TxIds,
             BeginReverse(p, k, orig)
      PROVE  RepeatsGetTheRow'
  <2>1. prior[p] = {}
    BY <1>5 DEF BeginReverse, RepeatsGetTheRow
  <2>2. QED
    BY <1>1, <1>2, <1>5, <2>1 DEF BeginReverse, TypeOK
<1>6. ASSUME NEW p \in Procs, Lookup(p)
      PROVE  RepeatsGetTheRow'
  <2>1. CASE Rollback(p)
    BY <1>3, <2>1 DEF Rollback, rows
  <2>2. CASE ~Rollback(p)
    <3>1. /\ WithCorrelation(req[p].corr) = {} /\ UNCHANGED <<ledger, req, prior>>
          /\ pc' = [pc EXCEPT ![p] = "target"]
      BY <1>6, <2>2 DEF Lookup, rows
    <3>2. prior[p] = {}
      BY <3>1 DEF RepeatsGetTheRow
    <3>3. QED
      BY <1>1, <1>2, <3>1, <3>2 DEF TypeOK
  <2>3. QED
    BY <2>1, <2>2
<1>7. ASSUME NEW p \in Procs, CheckTarget(p) \/ \E a \in Accounts : LockAccount(p, a)
      PROVE  RepeatsGetTheRow'
  <2>1. CASE Rollback(p)
    BY <1>3, <2>1 DEF Rollback, rows
  <2>2. CASE ~Rollback(p)
    <3>1. /\ UNCHANGED <<ledger, req, prior>> /\ pc[p] # "lookup"
          /\ \A q \in Procs \ {p} : pc'[q] = pc[q]
      BY <1>1, <1>7, <2>2 DEF CheckTarget, LockAccount, rows, TypeOK
    <3>2. prior[p] = {}
      BY <3>1 DEF RepeatsGetTheRow
    <3>3. QED
      BY <1>2, <3>1, <3>2
  <2>3. QED
    BY <2>1, <2>2
<1>8. ASSUME NEW p \in Procs, Insert(p)
      PROVE  RepeatsGetTheRow'
  <2>1. CASE Rollback(p)
    BY <1>3, <2>1 DEF Rollback, rows
  <2>2. CASE ~Rollback(p)
    <3>1. /\ EndTransaction(p) /\ WithCorrelation(req[p].corr) = {}
          /\ \E id \in TxIds \ DOMAIN ledger :
                ledger' = [i \in DOMAIN ledger \cup {id} |->
                              IF i = id THEN req[p] ELSE ledger[i]]
      BY <1>8, <2>2 DEF Insert, UniqueViolation
    <3>2. SUFFICES ASSUME NEW q \in Procs, prior'[q] # {}
                   PROVE  (/\ pc[q] = "lookup"
                           /\ \E id \in prior[q] : WithCorrelation(req[q].corr) = {id})'
      BY DEF RepeatsGetTheRow
    <3>3. prior'[q] = prior[q] /\ pc'[q] = pc[q] /\ req'[q] = req[q]
      BY <1>1, <3>1, <3>2 DEF EndTransaction, TypeOK
    <3>4. pc[q] = "lookup" /\ \E id \in prior[q] : WithCorrelation(req[q].corr) = {id}
      BY <3>2, <3>3 DEF RepeatsGetTheRow
    <3>5. req[q].corr # req[p].corr
      BY <3>1, <3>4
    <3>6. WithCorrelation(req[q].corr)' = WithCorrelation(req[q].corr)
      <4>1. WithCorrelation(req[q].corr)' = {i \in DOMAIN ledger' : ledger'[i].corr = req[q].corr}
        BY <3>3 DEF WithCorrelation
      <4>2. QED
        BY <3>1, <3>5, <4>1 DEF WithCorrelation
    <3>7. PICK id \in prior[q] : WithCorrelation(req[q].corr) = {id}
      BY <3>4
    <3>8. QED
      BY <3>3, <3>4, <3>6, <3>7
  <2>3. QED
    BY <2>1, <2>2
<1>9. ASSUME NEW p \in Procs, Crash(p) \/ StatusWrite(p)
      PROVE  RepeatsGetTheRow'
  BY <1>3, <1>9 DEF Crash, Rollback, rows, StatusWrite
<1>10. ASSUME NEW p \in Procs, NEW a \in Accounts, NEW s,
              CreateAccount(p, a, s) \/ StatusRead(p, a, s)
       PROVE  RepeatsGetTheRow'
  <2>1. pc' = pc \/ pc[p] # "lookup"
    BY <1>10 DEF CreateAccount, StatusRead
  <2>2. /\ UNCHANGED <<ledger, req, prior>>
        /\ \A q \in Procs \ {p} : pc'[q] = pc[q]
    BY <1>1, <1>10 DEF CreateAccount, StatusRead, TypeOK
  <2>3. prior[p] # {} => pc'[p] = pc[p]
    BY <2>1 DEF RepeatsGetTheRow
  <2>4. QED
    BY <1>2, <2>2, <2>3
<1>11. ASSUME NEW p \in Procs, StatusReload(p)
       PROVE  RepeatsGetTheRow'
  <2>1. prior[p] = {} /\ UNCHANGED <<ledger, req, prior>>
    BY <1>11 DEF StatusReload, RepeatsGetTheRow
  <2>2. \A q \in Procs \ {p} : pc'[q] = pc[q]
    BY <1>1, <1>11 DEF StatusReload, TypeOK
  <2>3. QED
    BY <1>2, <2>1, <2>2
<1>12. CASE UNCHANGED vars
  BY <1>2, <1>12 DEF vars
<1>13. QED
  BY <1>4, <1>5, <1>6, <1>7, <1>8, <1>9, <1>10, <1>11, <1>12 DEF Next, Step

\* PostingService.post answers a repeat with the row of the first posting, for any
\* number of requests, reversals that hold that row, crashes and bodies.
THEOREM RepeatsReplayed == Spec => []RepeatsGetTheRow
<1>1. Init => RepeatsGetTheRow
  BY DEF Init, RepeatsGetTheRow
<1>2. IInv /\ RepeatsGetTheRow /\ [Next]_vars => RepeatsGetTheRow'
  BY RepeatsPreserved
<1>3. QED
  BY <1>1, <1>2, Inductive, PTL DEF Spec

\* The entries of every currency sum to zero over all accounts, however many
\* postings and reversals interleave: the balance check of a bundle lives on in
\* CheckedBalanced until the insert, and the locked rows' checks (HeldAccepted)
\* say that its currencies are those of the accounts.
THEOREM BooksBalance == Spec => []DoubleEntry
<1>1. IInv => DoubleEntry
  BY DEF IInv
<1>2. QED
  BY <1>1, Inductive, PTL

-----------------------------------------------------------------------------
(* No cycle of waiting transactions *)

LEMMA Largest ==
    ASSUME NEW N, IsFiniteSet(N), N # {}
    PROVE  N \subseteq Nat => \E m \in N : \A n \in N : n <= m
<1> DEFINE Above(n) == {k \in N : k >= n}
           Cuts == {Above(n) : n \in N}
<1>1. Cuts \in SUBSET SUBSET N /\ Cuts # {}
  OBVIOUS
<1>2. PICK s \in Cuts : \A t \in Cuts : t \subseteq s => t = s
  <2> HIDE DEF Cuts
  <2>1. QED
    BY <1>1, SmallestSubset
<1> HAVE N \subseteq Nat
<1>3. PICK m \in N : s = Above(m)
  OBVIOUS
<1>4. ASSUME NEW n \in N, ~(n <= m) PROVE FALSE
  <2>1. m \in Nat /\ n \in Nat /\ \A k \in N : k \in Nat
    OBVIOUS
  <2>2. m \in Above(m) /\ m \notin Above(n)
    BY <1>4, <2>1
  <2>3. \A k \in N : k >= n => k >= m
    BY <1>4, <2>1
  <2>4. Above(n) \in Cuts /\ Above(n) \subseteq Above(m)
    BY <2>3
  <2>5. QED
    BY <1>2, <1>3, <2>2, <2>4
<1>5. QED
  BY <1>4

\* Only a posting past its checks holds locks, and only one that is still
\* locking accounts waits with them.
LEMMA WaitersWaitForLockers ==
    ASSUME IInv, NEW p \in Procs, NEW q \in Procs, WaitsFor(p, q)
    PROVE  /\ pc[q] \in {"lock", "insert"}
           /\ pc[p] # "insert"
           /\ pc[p] = "lock" => \E a \in held[q] : IsNextAccount(p, a)
BY DEF WaitsFor, IInv, LocksHeldByPostings, TargetsLocked

\* In a set of transactions that all wait for one another, some posting waits
\* with the largest next account; whoever holds that account waits for a larger
\* one, because accounts are locked in ascending order (AscendingLocks).
LEMMA NoCycle == IInv => NoDeadlock
<1> SUFFICES ASSUME IInv, NEW S \in SUBSET Procs, S # {},
                    \A p \in S : \E q \in S : WaitsFor(p, q)
             PROVE  FALSE
  BY DEF NoDeadlock
<1> DEFINE L == {p \in S : pc[p] = "lock"}
           N == {a \in Accounts : \E p \in L : IsNextAccount(p, a)}
<1>1. ASSUME NEW p \in L
      PROVE  \E q \in L : \E a \in held[q] : IsNextAccount(p, a)
  <2>1. PICK q \in S : WaitsFor(p, q)
    OBVIOUS
  <2>2. PICK r \in S : WaitsFor(q, r)
    OBVIOUS
  <2>3. q \in L
    BY <2>1, <2>2, WaitersWaitForLockers
  <2>4. QED
    BY <2>1, <2>3, WaitersWaitForLockers
<1>2. L # {}
  <2>1. PICK p \in S : TRUE
    OBVIOUS
  <2>2. PICK q \in S : WaitsFor(p, q)
    OBVIOUS
  <2>3. PICK r \in S : WaitsFor(q, r)
    OBVIOUS
  <2>4. QED
    BY <2>2, <2>3, WaitersWaitForLockers
<1>3. N # {} /\ N \subseteq Nat /\ IsFiniteSet(N)
  <2>1. N # {}
    BY <1>1, <1>2 DEF IInv, TypeOK
  <2>2. N \subseteq Nat /\ IsFiniteSet(N)
    BY AccountsAssumption, FS_Subset
  <2>3. QED
    BY <2>1, <2>2
<1>4. PICK m \in N : \A n \in N : n <= m
  <2> HIDE DEF N
  <2>1. QED
    BY <1>3, Largest
<1>5. PICK p \in L : IsNextAccount(p, m)
  OBVIOUS
<1>6. PICK q \in L : m \in held[q]
  <2>0. PICK q \in L : \E a \in held[q] : IsNextAccount(p, a)
    BY <1>1
  <2>1. PICK a \in held[q] : IsNextAccount(p, a)
    BY <2>0
  <2>2. a <= m /\ m <= a /\ a \in Nat /\ m \in Nat
    BY <1>5, <2>1, AccountsAssumption DEF IsNextAccount, IInv, TypeOK
  <2>3. QED
    BY <2>1, <2>2
<1>7. PICK r \in L : \E b \in held[r] : IsNextAccount(q, b)
  BY <1>1
<1>8. PICK b \in held[r] : IsNextAccount(q, b)
  BY <1>7
<1>9. b \in N /\ m < b /\ b \in Nat /\ m \in Nat
  <2>1. b \in Accounts
    BY <1>8 DEF IInv, TypeOK
  <2>2. m < b
    BY <1>6, <1>8 DEF IInv, AscendingLocks, IsNextAccount
  <2>3. QED
    BY <1>8, <2>1, <2>2, AccountsAssumption
<1>10. QED
  BY <1>4, <1>9

\* The ascending lock order of PostingService.post: no set of postings,
\* reversals and status updates can wait for one another in a cycle.
THEOREM LockOrderWorks == Spec => []NoDeadlock
BY NoCycle, Inductive, PTL

-----------------------------------------------------------------------------
(* Steps *)

\* A posting commits only while all its accounts are ACTIVE: from the locks
\* (InsertHoldsAll) and the checks that stay true under them (HeldAccepted).
THEOREM ActiveOnly == Spec => OnlyActiveAccountsMove
<1> DEFINE A == \A id \in DOMAIN ledger' \ DOMAIN ledger :
                  \A a \in Touched(ledger'[id]) : accounts[a].status = "ACTIVE"
<1>1. IInv /\ [Next]_vars => [A]_vars
  <2> SUFFICES ASSUME IInv, [Next]_vars, NEW id \in DOMAIN ledger' \ DOMAIN ledger,
                      NEW a \in Touched(ledger'[id])
               PROVE  accounts[a].status = "ACTIVE"
    OBVIOUS
  <2>1. PICK p \in Procs : Insert(p)
    <3>1. ledger' # ledger
      OBVIOUS
    <3>2. PICK p \in Procs : Step(p)
      BY <3>1 DEF Next, vars
    <3>3. Insert(p)
      BY <3>1, <3>2 DEF Step, CreateAccount, StatusRead, StatusReload, StatusWrite,
         BeginPost, BeginReverse, Lookup, CheckTarget, LockAccount, Crash, Rollback, rows
    <3>4. QED
      BY <3>3
  <2>2. pc[p] = "insert" /\ ledger'[id] = req[p]
    BY <2>1 DEF Insert, Rollback, rows
  <2>3. a \in held[p]
    BY <2>2 DEF IInv, InsertHoldsAll, Touched
  <2>4. QED
    BY <2>3 DEF IInv, HeldAccepted, Accepts
<1>2. QED
  BY <1>1, Inductive, PTL DEF Spec, OnlyActiveAccountsMove

\* A step that inserts no row leaves the sums of the entries as they are; one
\* that leaves the balances too leaves the drift.
LEMMA SameDrift ==
    ASSUME UNCHANGED ledger, \A a \in Accounts : accounts'[a].balance = accounts[a].balance
    PROVE  Drift' = Drift
<1>1. \A a \in Accounts : EntrySum(a)' = EntrySum(a)
  BY DEF EntrySum, EntriesOn, Touched
<1>2. QED
  BY <1>1 DEF Drift

\* An insert moves balance and entries of an account by the same net.
LEMMA InsertSameDrift ==
    ASSUME IInv, NEW p \in Procs, Insert(p)
    PROVE  Drift' = Drift
<1>1. CASE Rollback(p)
  BY <1>1, SameDrift DEF Rollback, rows
<1>2. CASE ~Rollback(p)
  <2>1. PICK id \in TxIds \ DOMAIN ledger :
          ledger' = [i \in DOMAIN ledger \cup {id} |->
                        IF i = id THEN req[p] ELSE ledger[i]]
    BY <1>2 DEF Insert
  <2>2. IsPosting(req[p]) /\ accounts' = Project(accounts, req[p])
    BY <1>2 DEF Insert, IInv, TypeOK
  <2>3. ASSUME NEW a \in Accounts
        PROVE  accounts'[a].balance - EntrySum(a)' = accounts[a].balance - EntrySum(a)
    <3>1. EntrySum(a) \in Int /\ EntrySum(a)' = EntrySum(a) + Effect(req[p], a)
      BY <2>1, <2>2, EntrySumType, InsertedEntry DEF IInv
    <3>2. /\ accounts'[a].balance = accounts[a].balance + Effect(req[p], a)
          /\ accounts[a].balance \in Int /\ Effect(req[p], a) \in Int
      BY <2>2 DEF Project, Effect, IInv, TypeOK, AccountRow, IsPosting, IsBundle
    <3>3. QED
      BY <3>1, <3>2
  <2>4. QED
    BY <2>3 DEF Drift
<1>3. QED
  BY <1>1, <1>2

\* A balance and the sum of its entries part in one way only, the save of a
\* status update that writes back a balance it read before a posting moved it.
THEOREM DriftNeedsStaleSave == Spec => DriftOnlyByStaleSave
<1> DEFINE D == Drift' = Drift \/ \E p \in Procs : StaleSave(p) /\ StatusWrite(p)
<1>1. IInv /\ [Next]_vars => [D]_vars
  <2> SUFFICES ASSUME IInv, NEW p \in Procs, Step(p) PROVE D
    BY DEF Next
  <2>1. CASE \E a \in Accounts, s \in CreatedAs : CreateAccount(p, a, s)
    <3>1. \A a \in Accounts : accounts'[a].balance = accounts[a].balance
      BY <2>1 DEF CreateAccount, IInv, TypeOK, AccountRow
    <3>2. QED
      BY <2>1, <3>1, SameDrift DEF CreateAccount
  <2>2. CASE StatusWrite(p)
    <3>1. CASE StaleSave(p)
      BY <2>2, <3>1
    <3>2. CASE ~StaleSave(p)
      <4>1. "balance" \notin job[p].cols /\ job[p].account \in Accounts
        BY <2>2, <3>2 DEF StatusWrite, StaleSave, IInv, ReadFloor
      <4>2. \A a \in Accounts : accounts'[a].balance = accounts[a].balance
        BY <2>2, <4>1 DEF StatusWrite, Saved, IInv, TypeOK, AccountRow
      <4>3. QED
        BY <2>2, <4>2, SameDrift DEF StatusWrite
    <3>3. QED
      BY <3>1, <3>2
  <2>3. CASE Insert(p)
    BY <2>3, InsertSameDrift
  <2>4. CASE \/ \E a \in Accounts, s \in {"FROZEN", "ACTIVE"} : StatusRead(p, a, s)
             \/ StatusReload(p)
             \/ \E d \in Posts, orig \in TxIds \cup {None} : BeginPost(p, d, orig)
             \/ \E k \in ReverseKeys, orig \in TxIds : BeginReverse(p, k, orig)
             \/ Lookup(p) \/ CheckTarget(p) \/ Crash(p)
             \/ \E a \in Accounts : LockAccount(p, a)
    <3>1. UNCHANGED <<accounts, ledger>>
      BY <2>4 DEF StatusRead, StatusReload, BeginPost, BeginReverse, Lookup, CheckTarget,
         Crash, LockAccount, Rollback, rows
    <3>2. QED
      BY <3>1, SameDrift
  <2>5. QED
    BY <2>1, <2>2, <2>3, <2>4 DEF Step
<1>2. QED
  BY <1>1, Inductive, PTL DEF Spec, DriftOnlyByStaleSave
=============================================================================
