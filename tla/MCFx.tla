-------------------------------- MODULE MCFx --------------------------------
(* Three locks, two of which expire at once, one created with an amount that  *)
(* is not written as the column gives it back; transfers that match, of a     *)
(* stranger, and with the amount as it was sent; a batch size of zero.        *)
EXTENDS Fx, TLC

CONSTANTS l1, l2, l3, u1, u2, short, full, p1, p2, w1, w2

MCOwner == (l1 :> u1) @@ (l2 :> u2) @@ (l3 :> u1)
MCAmountSent == (l1 :> full) @@ (l2 :> short) @@ (l3 :> full)
MCColumn == (short :> full) @@ (full :> full)
MCExpiresAt == (l1 :> 1) @@ (l2 :> 2) @@ (l3 :> 2)
MCAsk(u, l, x) == [user |-> u, lock |-> l, amount |-> x]
MCRequests == {MCAsk(u1, l1, full), MCAsk(u2, l1, full),
               MCAsk(u2, l2, full), MCAsk(u2, l2, short),
               MCAsk(u1, l3, full)}
=============================================================================
