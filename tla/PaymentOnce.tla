---------------------------- MODULE PaymentOnce ----------------------------
(***************************************************************************)
(* What the payment service promises the holder of an idempotency key: the *)
(* key is decided once, for one request body, and money moves for it if    *)
(* and only if it was decided COMPLETED.                                   *)
(***************************************************************************)
CONSTANTS
    Keys,    \* (idempotency_key, scope_key) pairs
    Bodies   \* request bodies, as far as the fingerprint tells them apart

VARIABLES
    decided, \* decision on each key that has one: [body, outcome]
    moved    \* keys whose money has moved

Outcomes == {"COMPLETED", "FAILED"}

OnceInit == decided = [k \in {} |-> {}] /\ moved = {}

\* The one step that touches a key: the decision and the money come together.
Decide(k, b, o) ==
    /\ k \notin DOMAIN decided
    /\ decided' = [i \in DOMAIN decided \cup {k} |->
                      IF i = k THEN [body |-> b, outcome |-> o] ELSE decided[i]]
    /\ moved' = IF o = "COMPLETED" THEN moved \cup {k} ELSE moved

OnceNext == \E k \in Keys, b \in Bodies, o \in Outcomes : Decide(k, b, o)

OnceSpec == OnceInit /\ [][OnceNext]_<<decided, moved>>
=============================================================================
