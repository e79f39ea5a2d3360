----------------------------- MODULE MCPayroll -----------------------------
(* One batch of two lines, a second batch sent with the same key, a third    *)
(* whose lines do not add up, and two calls at once.                         *)
EXTENDS Payroll, TLC

CONSTANTS b1, b2, b3, i1, i2, i3, i4, k, k2, p1, p2

MCKeyOf == (b1 :> k) @@ (b2 :> k) @@ (b3 :> k2)
MCTotal == (b1 :> 3) @@ (b2 :> 1) @@ (b3 :> 1)
MCAmount == (i1 :> 1) @@ (i2 :> 2) @@ (i3 :> 1) @@ (i4 :> 2)
MCBatchOf == (i1 :> b1) @@ (i2 :> b1) @@ (i3 :> b2) @@ (i4 :> b3)
=============================================================================
