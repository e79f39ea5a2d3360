----------------------------- MODULE MCPayments -----------------------------
(* Two transfers between the same accounts, in opposite directions, one key  *)
(* reused with another body, a foreign caller, and an account that is missing. *)
EXTENDS Payments, TLC

CONSTANTS p1, p2, k1, k2, ann, bob, usd, eur

MCOwnerOf == (1 :> ann) @@ (2 :> bob) @@ (3 :> ann)
MCCurrencyOf == (1 :> usd) @@ (2 :> usd) @@ (3 :> eur)
MCTransfer == [type |-> "TRANSFER", src |-> 1, dst |-> 2, cur |-> usd]
MCDeposit == [type |-> "COLLECTION", src |-> 2, dst |-> 1, cur |-> usd]
MCLost == [type |-> "TRANSFER", src |-> 1, dst |-> 3, cur |-> usd]
MCBodies == {MCTransfer, MCDeposit, MCLost}
MCRequests == {[key |-> k1, actor |-> ann, body |-> MCTransfer],
               [key |-> k1, actor |-> bob, body |-> MCTransfer],
               [key |-> k1, actor |-> ann, body |-> MCDeposit],
               [key |-> k2, actor |-> ann, body |-> MCDeposit],
               [key |-> k2, actor |-> ann, body |-> MCLost]}
=============================================================================
