------------------------------ MODULE MCFraud -------------------------------
(* Two evaluations of one user for one recipient, with one device and at one *)
(* unusual hour: 600 needs that device and hour to be known, and 20000 is a  *)
(* large transaction.  The velocity window is one instant long, the window of*)
(* the recipient two; one attempt, and one sender, are as many as a window   *)
(* may hold.                                                                 *)
EXTENDS Fraud, TLC

CONSTANTS e1, e2, ann, s1, s2, shop, r1, r2, phone

MCContext(sender, ref, amount, dev, hour) ==
    [user |-> ann, sender |-> sender, recipient |-> shop, ref |-> ref,
     amount |-> amount, device |-> dev, hour |-> hour]
MCCtx == (e1 :> MCContext(s1, r1, 600, phone, 3))
      @@ (e2 :> MCContext(s2, r2, 20000, phone, 3))
MCWindow == ("VELOCITY" :> 0) @@ ("RECIPIENT_VELOCITY" :> 1)
=============================================================================
