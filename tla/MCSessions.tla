----------------------------- MODULE MCSessions ------------------------------
(* Any four of nine requests, three of them at once: two sign-ups, a login,  *)
(* two refreshes and a logout of one token, and three updates of the first   *)
(* user, of which one deactivates it, one changes its password and one takes *)
(* the email of the second.                                                  *)
EXTENDS Sessions, TLC

CONSTANTS reg1, reg2, in1, ref1, ref2, out1, off1, pwd1, mail1, ann, bob, pw1, pw2

MCAsk ==
    (reg1 :> [kind |-> "register", email |-> ann, password |-> pw1])
 @@ (reg2 :> [kind |-> "register", email |-> bob, password |-> pw1])
 @@ (in1 :> [kind |-> "login", email |-> ann, password |-> pw1])
 @@ (ref1 :> [kind |-> "refresh", token |-> reg1])
 @@ (ref2 :> [kind |-> "refresh", token |-> reg1])
 @@ (out1 :> [kind |-> "logout", token |-> reg1])
 @@ (off1 :> [kind |-> "update", user |-> reg1, change |-> [active |-> FALSE]])
 @@ (pwd1 :> [kind |-> "update", user |-> reg1, change |-> [password |-> pw2]])
 @@ (mail1 :> [kind |-> "update", user |-> reg1, change |-> [email |-> bob]])
MCSymmetry == Permutations({ref1, ref2})
=============================================================================
