------------------------------ MODULE FxProofs ------------------------------
(***************************************************************************)
(* Theorems about Fx for every set of locks, transfers and sweeps and for  *)
(* every configured batch size.  EndsOneWay rests on the row lock: while a *)
(* transfer or a sweep holds a rate lock, nobody else does, and the lock   *)
(* is still the ACTIVE one it was when it was checked.                     *)
(***************************************************************************)
EXTENDS Fx, FiniteSetTheorems, TLAPS

HeldOnce ==
    /\ \A p, q \in Procs :
          serving[p] # None /\ serving[q] # None /\ serving[p].lock = serving[q].lock => p = q
    /\ \A p \in Procs, w \in Sweepers : serving[p] # None => serving[p].lock \notin batch[w]
    /\ \A w, v \in Sweepers : \A l \in batch[w] : l \in batch[v] => w = v

HeldIsActive ==
    /\ \A p \in Procs : serving[p] # None => lock[serving[p].lock] = "ACTIVE"
    /\ \A w \in Sweepers : \A l \in batch[w] : lock[l] = "ACTIVE"

IInv == TypeOK /\ HeldOnce /\ HeldIsActive /\ EndsOneWay

-----------------------------------------------------------------------------

LEMMA RequestTypes ==
    ASSUME TypeOK, NEW p \in Procs, serving[p] # None
    PROVE  serving[p] \in Requests /\ serving[p].lock \in Locks
BY FxAssumption DEF TypeOK

\* Whatever batch size is configured, a sweep may take at least one row.
LEMMA EmptyWithinCap == Cardinality({}) <= Cap
<1>1. Cap \in Int /\ 1 <= Cap
  BY FxAssumption DEF Cap, Max, Min
<1>2. Cardinality({}) = 0
  BY FS_EmptySet
<1>3. QED
  BY <1>1, <1>2

LEMMA InitEstablishes == Init => IInv
<1> SUFFICES ASSUME Init PROVE IInv
  OBVIOUS
<1>1. \A w \in Sweepers : Cardinality(batch[w]) <= Cap
  BY EmptyWithinCap DEF Init
<1>2. TypeOK
  BY <1>1, FxAssumption DEF Init, TypeOK, LockStatus
<1>3. HeldOnce /\ HeldIsActive
  BY DEF Init, HeldOnce, HeldIsActive
<1>4. EndsOneWay
  BY DEF Init, EndsOneWay, TradesOf
<1>5. QED
  BY <1>2, <1>3, <1>4 DEF IInv

\* A sweep's new batch respects the batch size; an emptied one does too.
LEMMA BatchTyped ==
    ASSUME TypeOK, NEW w \in Sweepers, NEW B \in SUBSET Locks,
           Cardinality(B) <= Cap, batch' = [batch EXCEPT ![w] = B]
    PROVE  /\ batch' \in [Sweepers -> SUBSET Locks]
           /\ \A v \in Sweepers : Cardinality(batch'[v]) <= Cap
BY DEF TypeOK

LEMMA EmptyBatchTyped ==
    ASSUME TypeOK, NEW w \in Sweepers, batch' = [batch EXCEPT ![w] = {}]
    PROVE  /\ batch' \in [Sweepers -> SUBSET Locks]
           /\ \A v \in Sweepers : Cardinality(batch'[v]) <= Cap
BY EmptyWithinCap DEF TypeOK

LEMMA RowsKept ==
    ASSUME EndsOneWay, UNCHANGED rows PROVE EndsOneWay'
BY DEF EndsOneWay, TradesOf, rows

LEMMA LockRatePreserves == ASSUME IInv, NEW l \in Locks, LockRate(l) PROVE IInv'
<1>1. TypeOK'
  BY DEF IInv, TypeOK, LockRate, LockStatus
<1>2. HeldOnce' /\ HeldIsActive'
  BY RequestTypes DEF IInv, TypeOK, HeldOnce, HeldIsActive, LockRate
<1>3. EndsOneWay'
  BY DEF IInv, TypeOK, EndsOneWay, TradesOf, LockRate
<1>4. QED
  BY <1>1, <1>2, <1>3 DEF IInv

LEMMA TimePreserves == ASSUME IInv, TimePasses PROVE IInv'
<1>1. TypeOK'
  BY FxAssumption DEF IInv, TypeOK, TimePasses, rows
<1>2. HeldOnce' /\ HeldIsActive'
  BY DEF IInv, HeldOnce, HeldIsActive, TimePasses, rows
<1>3. QED
  BY <1>1, <1>2, RowsKept DEF IInv, TimePasses

LEMMA BeginPreserves == ASSUME IInv, NEW p \in Procs, NEW r \in Requests, Begin(p, r) PROVE IInv'
<1>1. /\ serving' \in [Procs -> Requests \cup {None}]
      /\ serving'[p] = r /\ \A q \in Procs \ {p} : serving'[q] = serving[q]
  BY DEF IInv, TypeOK, Begin
<1>2. TypeOK'
  BY <1>1 DEF IInv, TypeOK, Begin, rows
<1>3. HeldOnce'
  BY <1>1 DEF IInv, HeldOnce, Begin, Free
<1>4. HeldIsActive'
  BY <1>1 DEF IInv, HeldIsActive, Begin, Consumable, rows
<1>5. QED
  BY <1>2, <1>3, <1>4, RowsKept DEF IInv, Begin

\* A transfer that ends lets go of its lock and of no other.
LEMMA ServingEnds ==
    ASSUME TypeOK, NEW p \in Procs, serving' = [serving EXCEPT ![p] = None]
    PROVE  /\ serving' \in [Procs -> Requests \cup {None}]
           /\ serving'[p] = None /\ \A q \in Procs \ {p} : serving'[q] = serving[q]
BY DEF TypeOK

LEMMA SettlePreserves == ASSUME IInv, NEW p \in Procs, Settle(p) PROVE IInv'
<1> DEFINE t == serving[p]
<1>1. t \in Requests /\ t.lock \in Locks /\ lock[t.lock] = "ACTIVE"
  BY RequestTypes DEF IInv, Settle, HeldIsActive
<1>2. /\ lock' \in [Locks -> LockStatus] /\ lock'[t.lock] = "CONSUMED"
      /\ \A l \in Locks \ {t.lock} : lock'[l] = lock[l]
      /\ trades' = trades \cup {t} /\ announced' = announced
  BY <1>1 DEF IInv, TypeOK, Settle, Consumed, LockStatus
<1>3. /\ serving' \in [Procs -> Requests \cup {None}]
      /\ serving'[p] = None /\ \A q \in Procs \ {p} : serving'[q] = serving[q]
  BY ServingEnds DEF IInv, Settle
<1>4. TypeOK'
  BY <1>1, <1>2, <1>3 DEF IInv, TypeOK, Settle
<1>5. HeldOnce'
  BY <1>3 DEF IInv, HeldOnce, Settle
<1>6. HeldIsActive'
  <2>1. \A q \in Procs : serving'[q] # None =>
            serving[q] # None /\ serving'[q] = serving[q] /\ serving[q].lock \in Locks
               /\ serving[q].lock # t.lock
    BY <1>3, RequestTypes DEF IInv, HeldOnce, Settle
  <2>2. \A w \in Sweepers : \A l \in batch[w] : l \in Locks /\ l # t.lock
    BY DEF IInv, TypeOK, HeldOnce, Settle
  <2>3. QED
    BY <1>2, <2>1, <2>2 DEF IInv, HeldIsActive, Settle
<1>7. EndsOneWay'
  <2>1. ASSUME NEW l \in Locks
        PROVE  /\ lock'[l] = "CONSUMED" <=> TradesOf(l)' # {}
               /\ \A u, v \in TradesOf(l)' : u = v
    <3>1. CASE l = t.lock
      BY <1>1, <1>2, <3>1 DEF IInv, EndsOneWay, TradesOf
    <3>2. CASE l # t.lock
      BY <1>2, <3>2 DEF IInv, EndsOneWay, TradesOf
    <3>3. QED
      BY <3>1, <3>2
  <2>2. \A l \in Locks : (lock'[l] = "EXPIRED" <=> announced'[l] # 0) /\ announced'[l] <= 1
    BY <1>1, <1>2 DEF IInv, EndsOneWay
  <2>3. QED
    BY <2>1, <2>2 DEF EndsOneWay
<1>8. QED
  BY <1>4, <1>5, <1>6, <1>7 DEF IInv

LEMMA FailPreserves == ASSUME IInv, NEW p \in Procs, Fail(p) PROVE IInv'
<1>1. /\ serving' \in [Procs -> Requests \cup {None}]
      /\ serving'[p] = None /\ \A q \in Procs \ {p} : serving'[q] = serving[q]
  BY ServingEnds DEF IInv, Fail
<1>2. TypeOK'
  BY <1>1 DEF IInv, TypeOK, Fail, rows
<1>3. HeldOnce' /\ HeldIsActive'
  BY <1>1 DEF IInv, HeldOnce, HeldIsActive, Fail, rows
<1>4. QED
  BY <1>2, <1>3, RowsKept DEF IInv, Fail

-----------------------------------------------------------------------------

LEMMA SweepClaimPreserves == ASSUME IInv, NEW w \in Sweepers, SweepClaim(w) PROVE IInv'
<1>1. PICK B \in SUBSET Due : IsBatch(B) /\ batch' = [batch EXCEPT ![w] = B]
  BY DEF SweepClaim
<1>2. B \in SUBSET Locks /\ Cardinality(B) <= Cap
  BY <1>1 DEF IsBatch, Due
<1>3. TypeOK'
  BY <1>1, <1>2, BatchTyped DEF IInv, TypeOK, SweepClaim, rows
<1>4. batch'[w] = B /\ \A v \in Sweepers \ {w} : batch'[v] = batch[v]
  BY <1>1 DEF IInv, TypeOK
<1>5. \A l \in B : Free(l) /\ lock[l] = "ACTIVE"
  BY DEF Due
<1>6. HeldOnce'
  BY <1>4, <1>5 DEF IInv, HeldOnce, Free, SweepClaim
<1>7. HeldIsActive'
  BY <1>4, <1>5 DEF IInv, HeldIsActive, SweepClaim, rows
<1>8. QED
  BY <1>3, <1>6, <1>7, RowsKept DEF IInv, SweepClaim

LEMMA SweepCommitPreserves == ASSUME IInv, NEW w \in Sweepers, SweepCommit(w) PROVE IInv'
<1>1. batch'[w] = {} /\ \A v \in Sweepers \ {w} : batch'[v] = batch[v]
  BY DEF IInv, TypeOK, SweepCommit
<1>2. \A l \in Locks : /\ lock'[l] = IF l \in batch[w] THEN "EXPIRED" ELSE lock[l]
                       /\ announced'[l] = announced[l] + (IF l \in batch[w] THEN 1 ELSE 0)
  BY DEF SweepCommit
<1>3. lock' \in [Locks -> LockStatus] /\ announced' \in [Locks -> Nat]
  BY DEF IInv, TypeOK, SweepCommit, LockStatus
<1>4. TypeOK'
  BY <1>3, EmptyBatchTyped DEF IInv, TypeOK, SweepCommit
<1>5. HeldOnce'
  BY <1>1 DEF IInv, HeldOnce, SweepCommit
<1>6. HeldIsActive'
  <2>1. \A p \in Procs : serving[p] # None => serving[p].lock \in Locks \ batch[w]
    BY RequestTypes DEF IInv, HeldOnce
  <2>2. \A v \in Sweepers \ {w} : \A l \in batch[v] : l \in Locks \ batch[w]
    BY DEF IInv, TypeOK, HeldOnce
  <2>3. QED
    BY <1>1, <1>2, <2>1, <2>2 DEF IInv, HeldIsActive, SweepCommit
<1>7. EndsOneWay'
  <2>1. \A l \in batch[w] : lock[l] = "ACTIVE" /\ announced[l] = 0
    BY DEF IInv, TypeOK, HeldIsActive, EndsOneWay
  <2>2. \A l \in Locks : announced[l] \in Nat
    BY DEF IInv, TypeOK
  <2>3. \A l \in Locks : TradesOf(l)' = TradesOf(l)
    BY DEF TradesOf, SweepCommit
  <2>4. QED
    BY <1>2, <2>1, <2>2, <2>3 DEF IInv, EndsOneWay
<1>8. QED
  BY <1>4, <1>5, <1>6, <1>7 DEF IInv

LEMMA SweepFailsPreserves == ASSUME IInv, NEW w \in Sweepers, SweepFails(w) PROVE IInv'
<1>1. batch'[w] = {} /\ \A v \in Sweepers \ {w} : batch'[v] = batch[v]
  BY DEF IInv, TypeOK, SweepFails
<1>2. TypeOK'
  BY EmptyBatchTyped DEF IInv, TypeOK, SweepFails, rows
<1>3. HeldOnce' /\ HeldIsActive'
  BY <1>1 DEF IInv, HeldOnce, HeldIsActive, SweepFails, rows
<1>4. QED
  BY <1>2, <1>3, RowsKept DEF IInv, SweepFails

LEMMA NextPreserves == IInv /\ [Next]_vars => IInv'
<1> SUFFICES ASSUME IInv, [Next]_vars PROVE IInv'
  OBVIOUS
<1>1. CASE TimePasses
  BY <1>1, TimePreserves
<1>2. ASSUME NEW l \in Locks, LockRate(l) PROVE IInv'
  BY <1>2, LockRatePreserves
<1>3. ASSUME NEW p \in Procs, (\E r \in Requests : Begin(p, r)) \/ Settle(p) \/ Fail(p)
      PROVE  IInv'
  BY <1>3, BeginPreserves, SettlePreserves, FailPreserves
<1>4. ASSUME NEW w \in Sweepers, SweepClaim(w) \/ SweepCommit(w) \/ SweepFails(w) PROVE IInv'
  BY <1>4, SweepClaimPreserves, SweepCommitPreserves, SweepFailsPreserves
<1>5. CASE UNCHANGED vars
  BY <1>5 DEF vars, rows, IInv, TypeOK, HeldOnce, HeldIsActive, EndsOneWay, TradesOf
<1>6. QED
  BY <1>1, <1>2, <1>3, <1>4, <1>5 DEF Next

THEOREM Inductive == Spec => []IInv
<1>1. Init => IInv
  BY InitEstablishes
<1>2. QED
  BY <1>1, NextPreserves, PTL DEF Spec

\* The FX tables are well typed, and no sweep holds more rows than its batch size,
\* which is at least one whatever is configured.
THEOREM FxTypes == Spec => []TypeOK
<1>1. IInv => TypeOK
  BY DEF IInv
<1>2. QED
  BY <1>1, Inductive, PTL

\* A lock has one trade or one announced expiry, never both, for any number of
\* concurrent transfers and sweeps.
THEOREM LocksEndOneWay == Spec => []EndsOneWay
<1>1. IInv => EndsOneWay
  BY DEF IInv
<1>2. QED
  BY <1>1, Inductive, PTL

\* No transfer or sweep changes a lock that has ended.
THEOREM EndsForGood == Spec => EndIsFinal
<1> DEFINE A == \A l \in Locks : lock[l] \in {"CONSUMED", "EXPIRED"} => lock'[l] = lock[l]
<1>1. IInv /\ [Next]_vars => [A]_vars
  <2> SUFFICES ASSUME IInv, [Next]_vars, NEW l \in Locks, lock[l] \in {"CONSUMED", "EXPIRED"}
               PROVE  lock'[l] = lock[l]
    OBVIOUS
  <2>1. ASSUME NEW m \in Locks, LockRate(m) PROVE lock'[l] = lock[l]
    BY <2>1 DEF LockRate, IInv, TypeOK
  <2>2. ASSUME NEW p \in Procs, Settle(p) PROVE lock'[l] = lock[l]
    <3>1. l # serving[p].lock
      BY <2>2 DEF Settle, IInv, HeldIsActive
    <3>2. QED
      BY <2>2, <3>1 DEF Settle, Consumed, IInv, TypeOK
  <2>3. ASSUME NEW w \in Sweepers, SweepCommit(w) PROVE lock'[l] = lock[l]
    BY <2>3 DEF SweepCommit, IInv, HeldIsActive
  <2>4. QED
    BY <2>1, <2>2, <2>3
       DEF Next, TimePasses, Begin, Fail, SweepClaim, SweepFails, rows, vars
<1>2. QED
  BY <1>1, Inductive, PTL DEF Spec, EndIsFinal
=============================================================================
