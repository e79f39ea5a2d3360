---------------------------- MODULE OutboxProofs ----------------------------
(***************************************************************************)
(* Theorems about Outbox for every set of rows, workers and batch sizes.   *)
(* What the relay's loop knows about its rows is what IInv adds to the     *)
(* type invariant: it marks a row PUBLISHED only with a confirm, and a row *)
(* of its batch can be PENDING again only if somebody reclaimed it.        *)
(***************************************************************************)
EXTENDS Outbox, WellFoundedInduction, TLAPS

\* A tick has rows left exactly while it is in its loop.
BatchInLoop ==
    \A w \in Workers : batch[w] # {} <=> pc[w] \in {"publish", "fail", "mark"}

\* The row a worker is about to mark PUBLISHED is with the broker.
MarkAfterConfirm == \A w \in Workers : pc[w] = "mark" => Current(w) \in delivered

\* A claimed row leaves its claim forwards, or by being reclaimed.
BatchWasClaimed ==
    \A w \in Workers : \A e \in batch[w] :
        /\ row[e] # "ABSENT"
        /\ row[e] = "PENDING" => e \in reclaimed

IInv ==
    /\ TypeOK
    /\ BatchInLoop
    /\ MarkAfterConfirm
    /\ PublishedWasDelivered
    /\ BatchWasClaimed
    /\ OneWorkerPerRow

-----------------------------------------------------------------------------

LEMMA InitEstablishes == Init => IInv
<1> SUFFICES ASSUME Init PROVE IInv
  OBVIOUS
<1>1. 0 \in 0..(MarkRetries - 1)
  BY OutboxAssumption
<1>2. TypeOK
  BY <1>1 DEF Init, TypeOK, Status
<1>3. QED
  BY <1>2 DEF Init, IInv, BatchInLoop, MarkAfterConfirm, PublishedWasDelivered,
              BatchWasClaimed, OneWorkerPerRow

\* Any rows have an oldest one, for `<` on natural numbers is well founded.
LEMMA OldestRow ==
    ASSUME NEW S \in SUBSET Nat, S # {}
    PROVE  \E e \in S : \A f \in S : e <= f
<1> DEFINE R == OpToRel(<, Nat)
<1>1. PICK e \in S : \A f \in S : ~(<<f, e>> \in R)
  <2>1. IsWellFoundedOn(R, Nat)
    BY NatLessThanWellFounded
  <2> HIDE DEF R
  <2>2. QED
    BY <2>1, WFMin
<1>2. \A m, n \in Nat : m < n => <<m, n>> \in R
  BY DEF OpToRel
<1> HIDE DEF R
<1>3. \A f \in S : ~(f < e)
  BY <1>1, <1>2
<1>4. \A m, n \in Nat : ~(n < m) => m <= n
  OBVIOUS
<1>5. QED
  BY <1>3, <1>4

\* A worker in its loop is at a row of its batch.
LEMMA CurrentIsInBatch ==
    ASSUME TypeOK, NEW w \in Workers, batch[w] # {}
    PROVE  Current(w) \in batch[w] /\ Current(w) \in Events
<1>1. batch[w] \in (SUBSET Events) \ {{}}
  BY DEF TypeOK
<1>2. \E e \in batch[w] : \A f \in batch[w] : e <= f
  BY <1>1, OutboxAssumption, OldestRow
<1>3. Current(w) \in batch[w]
  BY <1>2 DEF Current
<1>4. QED
  BY <1>1, <1>3

\* Steps that leave the rows alone and only take rows off batches.
LEMMA Shrinks ==
    ASSUME IInv, UNCHANGED <<row, reclaimed>>, delivered \subseteq delivered',
           \A w \in Workers : batch'[w] \subseteq batch[w]
    PROVE  PublishedWasDelivered' /\ BatchWasClaimed' /\ OneWorkerPerRow'
BY DEF IInv, PublishedWasDelivered, BatchWasClaimed, OneWorkerPerRow

-----------------------------------------------------------------------------
(* The domain's and the clock's steps *)

LEMMA EnqueuePreserves ==
    ASSUME IInv, NEW e \in Events, Enqueue(e)
    PROVE  IInv'
<1> USE DEF Enqueue, IInv
<1>1. TypeOK'
  BY DEF TypeOK, Status
<1>2. BatchInLoop' /\ MarkAfterConfirm' /\ OneWorkerPerRow'
  BY DEF BatchInLoop, MarkAfterConfirm, OneWorkerPerRow, Current
<1>3. PublishedWasDelivered'
  BY DEF PublishedWasDelivered, TypeOK
<1>4. BatchWasClaimed'
  BY DEF BatchWasClaimed, TypeOK
<1>5. QED
  BY <1>1, <1>2, <1>3, <1>4

LEMMA AgePreserves ==
    ASSUME IInv, NEW e \in Events, Age(e)
    PROVE  IInv'
<1>1. TypeOK'
  BY DEF Age, IInv, TypeOK
<1>2. QED
  BY <1>1 DEF Age, IInv, BatchInLoop, MarkAfterConfirm, PublishedWasDelivered,
              BatchWasClaimed, OneWorkerPerRow, Current

-----------------------------------------------------------------------------
(* The steps of a tick *)

LEMMA ReclaimPreserves ==
    ASSUME IInv, NEW w \in Workers, Reclaim(w)
    PROVE  IInv'
<1> DEFINE R == {e \in Events : IsStale(e)}
<1>1. /\ pc[w] = "idle"
      /\ row' = [e \in Events |-> IF e \in R THEN "PENDING" ELSE row[e]]
      /\ stale' = stale \ R
      /\ reclaimed' = reclaimed \cup R
      /\ pc' = [pc EXCEPT ![w] = "claim"]
      /\ UNCHANGED <<batch, tries, delivered>>
  BY DEF Reclaim
<1>2. \A e \in R : row[e] = "CLAIMED"
  BY DEF IsStale
<1>3. R \subseteq Events
  OBVIOUS
<1> HIDE DEF R
<1> USE <1>1 DEF IInv
<1>4. TypeOK'
  BY <1>3 DEF TypeOK, Status
<1>5. BatchInLoop'
  BY DEF BatchInLoop, TypeOK
<1>6. MarkAfterConfirm'
  BY DEF MarkAfterConfirm, Current, TypeOK
<1>7. PublishedWasDelivered'
  BY DEF PublishedWasDelivered, TypeOK
<1>8. BatchWasClaimed'
  BY DEF BatchWasClaimed, TypeOK
<1>9. OneWorkerPerRow'
  BY DEF OneWorkerPerRow
<1>10. QED
  BY <1>4, <1>5, <1>6, <1>7, <1>8, <1>9

LEMMA ClaimPreserves ==
    ASSUME IInv, NEW w \in Workers, Claim(w)
    PROVE  IInv'
<1>1. PICK B \in SUBSET Pending :
          /\ batch' = [batch EXCEPT ![w] = B]
          /\ row' = Claimed(B)
          /\ pc' = [pc EXCEPT ![w] = IF B = {} THEN "idle" ELSE "publish"]
  BY DEF Claim
<1>2. pc[w] = "claim" /\ UNCHANGED <<stale, tries, delivered, reclaimed>>
  BY DEF Claim
<1>3. B \subseteq Events /\ \A e \in B : row[e] = "PENDING"
  BY DEF Pending
<1> USE <1>1, <1>2, <1>3 DEF IInv, Claimed
<1>4. TypeOK'
  BY DEF TypeOK, Status
<1>5. BatchInLoop'
  BY DEF BatchInLoop, TypeOK
<1>6. MarkAfterConfirm'
  BY DEF MarkAfterConfirm, Current, TypeOK
<1>7. PublishedWasDelivered'
  BY DEF PublishedWasDelivered, TypeOK
<1>8. BatchWasClaimed'
  BY DEF BatchWasClaimed, TypeOK
<1>9. OneWorkerPerRow'
  <2>1. \A v \in Workers : v # w => batch'[v] = batch[v]
    BY DEF TypeOK
  <2>2. batch'[w] = B
    BY DEF TypeOK
  <2>3. \A v \in Workers : B \cap batch[v] \subseteq reclaimed
    BY DEF BatchWasClaimed
  <2>4. QED
    BY <2>1, <2>2, <2>3 DEF OneWorkerPerRow
<1>10. QED
  BY <1>4, <1>5, <1>6, <1>7, <1>8, <1>9

LEMMA PublishPreserves ==
    ASSUME IInv, NEW w \in Workers, PublishConfirmed(w) \/ PublishFails(w)
    PROVE  IInv'
<1>1. batch[w] # {} /\ Current(w) \in Events
  BY CurrentIsInBatch DEF IInv, BatchInLoop, PublishConfirmed, PublishFails
<1>2. UNCHANGED <<row, stale, batch, tries, reclaimed>> /\ pc[w] = "publish"
  BY DEF PublishConfirmed, PublishFails
<1>3. /\ delivered' \in SUBSET Events
      /\ delivered \subseteq delivered'
      /\ pc' \in {[pc EXCEPT ![w] = "mark"], [pc EXCEPT ![w] = "fail"]}
      /\ pc' = [pc EXCEPT ![w] = "mark"] => Current(w) \in delivered'
  <2>1. CASE PublishConfirmed(w)
    BY <1>1, <2>1 DEF PublishConfirmed, IInv, TypeOK
  <2>2. CASE PublishFails(w)
    <3>1. pc' = [pc EXCEPT ![w] = "fail"]
      BY <2>2 DEF PublishFails, AfterPublishError
    <3>2. pc'[w] = "fail"
      BY <3>1 DEF IInv, TypeOK
    <3>3. [pc EXCEPT ![w] = "mark"][w] = "mark"
      BY DEF IInv, TypeOK
    <3>4. delivered' \in {delivered, delivered \cup {Current(w)}}
      BY <2>2 DEF PublishFails
    <3>5. QED
      BY <1>1, <3>1, <3>2, <3>3, <3>4 DEF IInv, TypeOK
  <2>3. QED
    BY <2>1, <2>2
<1>4. TypeOK'
  BY <1>2, <1>3 DEF IInv, TypeOK
<1>5. BatchInLoop'
  BY <1>2, <1>3 DEF IInv, BatchInLoop, TypeOK
<1>6. MarkAfterConfirm'
  BY <1>2, <1>3 DEF IInv, MarkAfterConfirm, Current, TypeOK
<1>7. QED
  BY <1>2, <1>3, <1>4, <1>5, <1>6, Shrinks DEF IInv

\* Where the worker stands after NextRow.
LEMMA NextRowFacts ==
    ASSUME IInv, NEW w \in Workers, NextRow(w),
           delivered' = delivered, pc[w] \in {"fail", "mark"}
    PROVE  /\ pc' \in [Workers -> {"idle", "claim", "publish", "fail", "mark"}]
           /\ batch' \in [Workers -> SUBSET Events]
           /\ tries' \in [Workers -> 0..(MarkRetries - 1)]
           /\ \A v \in Workers : batch'[v] \subseteq batch[v]
           /\ BatchInLoop'
           /\ MarkAfterConfirm'
<1>1. Current(w) \in batch[w] /\ 0 \in 0..(MarkRetries - 1)
  BY CurrentIsInBatch, OutboxAssumption DEF IInv, BatchInLoop
<1>2. /\ pc' \in [Workers -> {"idle", "claim", "publish", "fail", "mark"}]
      /\ batch' \in [Workers -> SUBSET Events]
      /\ tries' \in [Workers -> 0..(MarkRetries - 1)]
      /\ \A v \in Workers : batch'[v] \subseteq batch[v]
  BY <1>1 DEF NextRow, IInv, TypeOK
<1>3. pc'[w] \in {"idle", "publish"} /\ (pc'[w] = "publish" <=> batch'[w] # {})
  BY <1>1 DEF NextRow, IInv, TypeOK
<1>4. \A v \in Workers : v # w => pc'[v] = pc[v] /\ batch'[v] = batch[v]
  BY DEF NextRow, IInv, TypeOK
<1>5. BatchInLoop'
  BY <1>3, <1>4 DEF IInv, BatchInLoop
<1>6. MarkAfterConfirm'
  BY <1>3, <1>4 DEF IInv, MarkAfterConfirm, Current
<1>7. QED
  BY <1>2, <1>5, <1>6

LEMMA SettlePreserves ==
    ASSUME IInv, NEW w \in Workers, MarkFailed(w) \/ MarkPublished(w)
    PROVE  IInv'
<1> DEFINE c == Current(w)
<1>1. /\ NextRow(w)
      /\ UNCHANGED <<delivered, reclaimed>>
      /\ pc[w] \in {"fail", "mark"}
      /\ stale' = stale \ {c}
      /\ row' = row \/ row' = [row EXCEPT ![c] = "FAILED"]
            \/ (row' = [row EXCEPT ![c] = "PUBLISHED"] /\ pc[w] = "mark")
  BY DEF MarkFailed, MarkPublished, SetFromClaimed
<1>2. c \in Events /\ (pc[w] = "mark" => c \in delivered)
  BY <1>1, CurrentIsInBatch DEF IInv, BatchInLoop, MarkAfterConfirm
<1> HIDE DEF c
<1>3. TypeOK'
  BY <1>1, <1>2, NextRowFacts DEF IInv, TypeOK, Status
<1>4. BatchInLoop' /\ MarkAfterConfirm' /\ \A v \in Workers : batch'[v] \subseteq batch[v]
  BY <1>1, NextRowFacts
<1>5. PublishedWasDelivered'
  BY <1>1, <1>2 DEF IInv, PublishedWasDelivered, TypeOK
<1>6. BatchWasClaimed'
  BY <1>1, <1>2, <1>4 DEF IInv, BatchWasClaimed, TypeOK
<1>7. OneWorkerPerRow'
  BY <1>1, <1>4 DEF IInv, OneWorkerPerRow
<1>8. QED
  BY <1>3, <1>4, <1>5, <1>6, <1>7 DEF IInv

LEMMA MarkMissesPreserves ==
    ASSUME IInv, NEW w \in Workers, MarkMisses(w)
    PROVE  IInv'
<1>1. pc[w] = "mark" /\ UNCHANGED <<row, stale, delivered, reclaimed>>
  BY DEF MarkMisses
<1>2. CASE NextRow(w)
  <2>1. TypeOK'
    BY <1>1, <1>2, NextRowFacts DEF IInv, TypeOK
  <2>2. QED
    BY <1>1, <1>2, <2>1, NextRowFacts, Shrinks DEF IInv
<1>3. CASE ~NextRow(w)
  <2>1. /\ tries[w] + 1 # MarkRetries
        /\ tries' = [tries EXCEPT ![w] = @ + 1]
        /\ UNCHANGED <<pc, batch>>
    BY <1>3 DEF MarkMisses, LastTry
  <2>2. tries[w] + 1 \in 0..(MarkRetries - 1)
    BY <2>1, OutboxAssumption DEF IInv, TypeOK
  <2>3. TypeOK'
    BY <1>1, <2>1, <2>2 DEF IInv, TypeOK
  <2>4. BatchInLoop' /\ MarkAfterConfirm'
    BY <1>1, <2>1 DEF IInv, BatchInLoop, MarkAfterConfirm, Current
  <2>5. QED
    BY <1>1, <2>1, <2>3, <2>4, Shrinks DEF IInv
<1>4. QED
  BY <1>2, <1>3

LEMMA AbandonPreserves ==
    ASSUME IInv, NEW w \in Workers, Abandon(w)
    PROVE  IInv'
<1>1. 0 \in 0..(MarkRetries - 1)
  BY OutboxAssumption
<1>2. TypeOK'
  BY <1>1 DEF Abandon, IInv, TypeOK
<1>3. BatchInLoop' /\ MarkAfterConfirm'
  BY DEF Abandon, IInv, BatchInLoop, MarkAfterConfirm, Current, TypeOK
<1>4. \A v \in Workers : batch'[v] \subseteq batch[v]
  BY DEF Abandon, IInv, TypeOK
<1>5. QED
  BY <1>2, <1>3, <1>4, Shrinks DEF Abandon, IInv

LEMMA NextPreserves == IInv /\ [Next]_vars => IInv'
<1> SUFFICES ASSUME IInv, [Next]_vars PROVE IInv'
  OBVIOUS
<1>1. ASSUME NEW e \in Events, Enqueue(e) \/ Age(e) PROVE IInv'
  BY <1>1, EnqueuePreserves, AgePreserves
<1>2. ASSUME NEW w \in Workers, Tick(w) PROVE IInv'
  BY <1>2, ReclaimPreserves, ClaimPreserves, PublishPreserves, SettlePreserves,
     MarkMissesPreserves, AbandonPreserves DEF Tick
<1>3. CASE UNCHANGED vars
  BY <1>3 DEF vars, IInv, TypeOK, BatchInLoop, MarkAfterConfirm, Current,
              PublishedWasDelivered, BatchWasClaimed, OneWorkerPerRow
<1>4. QED
  BY <1>1, <1>2, <1>3 DEF Next

LEMMA Inductive == Spec => []IInv
BY InitEstablishes, NextPreserves, PTL DEF Spec

-----------------------------------------------------------------------------
(* The theorems *)

\* Every reachable state of the outbox table and its relays is well typed.
THEOREM OutboxTypes == Spec => []TypeOK
<1>1. IInv => TypeOK
  BY DEF IInv
<1>2. QED
  BY <1>1, Inductive, PTL

\* A row marked PUBLISHED (outbox.repository.ts) has reached the broker, for any
\* number of overlapping ticks, crashes and reclaims.
THEOREM PublishedIsTrue == Spec => []PublishedWasDelivered
<1>1. IInv => PublishedWasDelivered
  BY DEF IInv
<1>2. QED
  BY <1>1, Inductive, PTL

\* SKIP LOCKED with a CLAIMED status keeps ticks apart until a claim is too old.
THEOREM ClaimsKeepApart == Spec => []OneWorkerPerRow
<1>1. IInv => OneWorkerPerRow
  BY DEF IInv
<1>2. QED
  BY <1>1, Inductive, PTL

\* No step of any tick takes a row out of PUBLISHED or FAILED.
THEOREM SettledForGood == Spec => SettledIsFinal
<1> DEFINE Kept ==
      \A e \in Events : row[e] \in {"PUBLISHED", "FAILED"} => row'[e] = row[e]
<1>1. TypeOK /\ [Next]_vars => Kept
  <2> SUFFICES ASSUME TypeOK, [Next]_vars, NEW e \in Events,
                      row[e] \in {"PUBLISHED", "FAILED"}
               PROVE  row'[e] = row[e]
    OBVIOUS
  <2>1. ASSUME NEW f \in Events, Enqueue(f) PROVE row'[e] = row[e]
    BY <2>1 DEF Enqueue, TypeOK
  <2>2. ASSUME NEW f \in Events, Age(f) PROVE row'[e] = row[e]
    BY <2>2 DEF Age
  <2>3. ASSUME NEW w \in Workers, Tick(w) PROVE row'[e] = row[e]
    <3>1. CASE Reclaim(w)
      BY <3>1 DEF Reclaim, IsStale, TypeOK
    <3>2. CASE Claim(w)
      BY <3>2 DEF Claim, Claimed, Pending, TypeOK
    <3>3. CASE MarkFailed(w)
      BY <3>3 DEF MarkFailed, SetFromClaimed, TypeOK
    <3>4. CASE MarkPublished(w)
      BY <3>4 DEF MarkPublished, SetFromClaimed, TypeOK
    <3>5. CASE PublishConfirmed(w) \/ PublishFails(w) \/ MarkMisses(w) \/ Abandon(w)
      BY <3>5 DEF PublishConfirmed, PublishFails, MarkMisses, Abandon
    <3>6. QED
      BY <2>3, <3>1, <3>2, <3>3, <3>4, <3>5 DEF Tick
  <2>4. CASE UNCHANGED vars
    BY <2>4 DEF vars
  <2>5. QED
    BY <2>1, <2>2, <2>3, <2>4 DEF Next
<1>2. Spec => []TypeOK
  BY OutboxTypes
<1>3. QED
  BY <1>1, <1>2, PTL DEF Spec, SettledIsFinal
=============================================================================
