------------------------------ MODULE MCLedger ------------------------------
(* Two transfers that together exceed the payer's overdraft, whose reversals *)
(* move the other way, and an unbalanced body.  Three transactions leave room *)
(* for an original and two reversals of it.                                  *)
EXTENDS Ledger, Decimals, TLC

CONSTANTS p1, p2, t1, t2, t3, k1, k2, k3, usd

MCCurrencyOf == (1 :> usd) @@ (2 :> usd)
MCOverdraft == (1 :> 2) @@ (2 :> 0)

MCLine(n, a, s, x) ==
    [number |-> n, account |-> a, side |-> s, amount |-> x, currency |-> usd]

\* Two units in three lines, one unit in two, and two credits.
MCLines ==
    [two |-> {MCLine(1, 1, "DEBIT", 1), MCLine(2, 1, "DEBIT", 1), MCLine(3, 2, "CREDIT", 2)},
     one |-> {MCLine(1, 1, "DEBIT", 1), MCLine(2, 2, "CREDIT", 1)},
     off |-> {MCLine(1, 2, "CREDIT", 1), MCLine(2, 2, "CREDIT", 0)}]

MCBody(c, lines) ==
    [corr |-> c, net |-> BundleOf(lines).net, cur |-> BundleOf(lines).cur]
MCPosts == {MCBody(k1, MCLines.two), MCBody(k2, MCLines.one), MCBody(k2, MCLines.off)}

\* The lines are ones the code takes, and Mirror is the bundle of the lines that
\* ReversalService builds: on every body of three lines, not these only.
ASSUME LinesAndBundles ==
    /\ \A n \in DOMAIN MCLines : IsBody(MCLines[n])
    /\ \A S \in [1..3 -> [account : {1, 2}, side : Sides, amount : 0..2]] :
          LET body == {MCLine(n, S[n].account, S[n].side, S[n].amount) : n \in 1..3}
          IN /\ IsBody(body) /\ IsBundle(BundleOf(body))
             /\ BundleOf(Swapped(body)) = Mirror(BundleOf(body))
             /\ DebitsEqualCredits(body) <=> SumFunction(BundleOf(body).net) = 0

\* Every amount up to two units, of either sign, survives the database; a text with
\* fewer digits than its column is the same amount.
ASSUME TextsAndAmounts ==
    /\ \A v \in -20000..20000 :
          Parse(Format(v)) = v /\ Parse(Stored(Format(v))) = v
    /\ \A f \in UNION {[1..n -> {0, 1, 9}] : n \in 0..4}, s \in BOOLEAN :
          LET t == [neg |-> s, int |-> 1, frac |-> f]
          IN IsText(t) /\ Parse(Stored(t)) = Parse(t) /\ (IsAmount(t) => Parse(t) > 0)

\* `announced` is left out of a state's fingerprint: no guard reads it, and no
\* property but its own conjunct of TypeOK.
MCView == <<accounts, ledger, ledgerEvents, pc, req, held, heldTx, job, prior>>

MCSymmetry == Permutations(Procs) \cup Permutations(TxIds)
=============================================================================
