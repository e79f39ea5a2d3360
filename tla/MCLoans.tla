------------------------------ MODULE MCLoans ------------------------------
(* One loan of two units, disbursed and repaid in one or two parts under     *)
(* shared keys, a second loan applied for with the same key, one sweep.      *)
EXTENDS Loans, TLC

CONSTANTS l1, l2, a, k1, k2, k3, p1, p2, w1

MCApplyKeyOf == (l1 :> a) @@ (l2 :> a)
MCPrincipal == (l1 :> 2) @@ (l2 :> 1)
MCSend(kind, l, k, n) == [kind |-> kind, loan |-> l, key |-> k, amount |-> n]
MCRequests == {MCSend("disburse", l1, k1, 2), MCSend("disburse", l1, k2, 2),
               MCSend("disburse", l2, k1, 1),
               MCSend("repay", l1, k2, 1), MCSend("repay", l1, k3, 1),
               MCSend("repay", l1, k3, 2)}
=============================================================================
