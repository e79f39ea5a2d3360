---------------------------------- MODULE Fx ----------------------------------
(***************************************************************************)
(* FX rate locks: creation, the international transfer that consumes one,  *)
(* and the sweep that expires the rest (FxService,                         *)
(* InternationalTransferOrchestratorService, FxLockExpirySweepService).    *)
(*                                                                         *)
(* A process is one transfer; everything it writes is in one transaction,  *)
(* which holds the lock's row from its checks to COMMIT.  A sweeper is one *)
(* cron tick; ticks of several servers overlap.                            *)
(***************************************************************************)
EXTENDS Integers, FiniteSets, FiniteSetsExt

CONSTANTS
    Locks,
    Owner,      \* fx_rate_locks.user_id
    AmountSent, \* `sourceAmount` of the request that created the lock
    Column,     \* how numeric(19,4) gives an amount back: "5" as "5.0000"
    ExpiresAt,  \* fx_rate_locks.expires_at
    Horizon,    \* bound of the clock
    Requests,   \* transfers that clients send: [user, lock, amount]
    Procs,      \* transfers in flight at the same time
    Sweepers,   \* sweeps in flight at the same time
    Limit,      \* FX_LOCK_EXPIRY_BATCH_SIZE
    None

ASSUME FxAssumption ==
    /\ ExpiresAt \in [Locks -> Nat]
    /\ Horizon \in Nat /\ Limit \in Int
    /\ \A r \in Requests : r.lock \in Locks
    /\ None \notin Requests

VARIABLES
    lock,      \* status of the rows of `fx_rate_locks`
    clock,     \* the time
    trades,    \* rows of `fx_trades`, with their ledger transaction and events
    announced, \* number of `fx.rate.lock.expired` outbox rows of each lock
    serving,   \* request of a transfer that has passed the checks
    batch      \* rows that a sweep is about to expire

rows == <<lock, trades, announced>>

vars == <<rows, clock, serving, batch>>

-----------------------------------------------------------------------------

LockStatus == {"NONE", "ACTIVE", "CONSUMED", "EXPIRED"}

\* Mutant: a batch size of zero is taken at its word.
CapAsConfigured == Min({Limit, 200})

\* Math.max(1, Math.min(limit, 200))
Cap == Max({1, Min({Limit, 200})})

\* Shapes; no sweep holds more rows than its batch size.
TypeOK ==
    /\ lock \in [Locks -> LockStatus]
    /\ clock \in 0..Horizon
    /\ trades \in SUBSET Requests
    /\ announced \in [Locks -> Nat]
    /\ serving \in [Procs -> Requests \cup {None}]
    /\ batch \in [Sweepers -> SUBSET Locks]
    /\ \A w \in Sweepers : Cardinality(batch[w]) <= Cap

Init ==
    /\ lock = [l \in Locks |-> "NONE"]
    /\ clock = 0
    /\ trades = {}
    /\ announced = [l \in Locks |-> 0]
    /\ serving = [p \in Procs |-> None]
    /\ batch = [w \in Sweepers |-> {}]

-----------------------------------------------------------------------------

\* lockRate: an ACTIVE row that expires after a fixed time.
LockRate(l) ==
    /\ lock[l] = "NONE"
    /\ clock < ExpiresAt[l]
    /\ lock' = [lock EXCEPT ![l] = "ACTIVE"]
    /\ UNCHANGED <<clock, trades, announced, serving, batch>>

TimePasses ==
    /\ clock < Horizon
    /\ clock' = clock + 1
    /\ UNCHANGED <<rows, serving, batch>>

\* No transaction holds the row.
Free(l) ==
    /\ \A p \in Procs : serving[p] # None => serving[p].lock # l
    /\ \A w \in Sweepers : l \notin batch[w]

\* assertLockConsumableWithLock; amounts are compared as they are written.
Consumable(r) ==
    /\ lock[r.lock] = "ACTIVE"
    /\ clock < ExpiresAt[r.lock]
    /\ r.user = Owner[r.lock]
    /\ r.amount = Column[AmountSent[r.lock]]

\* rate_lock_id is unique in `fx_trades`.
TradesOf(l) == {t \in trades : t.lock = l}

\* Lock and checks.  A transfer that fails one of them changes nothing.
Begin(p, r) ==
    /\ serving[p] = None
    /\ Free(r.lock)
    /\ Consumable(r)
    /\ TradesOf(r.lock) = {}
    /\ serving' = [serving EXCEPT ![p] = r]
    /\ UNCHANGED <<rows, clock, batch>>

\* Mutant: the lock is not saved.
ConsumedForgotten(l) == lock

Consumed(l) == [lock EXCEPT ![l] = "CONSUMED"]

\* Lock CONSUMED, trade, settlement posting and both events, COMMIT.
Settle(p) ==
    /\ serving[p] # None
    /\ lock' = Consumed(serving[p].lock)
    /\ trades' = trades \cup {serving[p]}
    /\ serving' = [serving EXCEPT ![p] = None]
    /\ UNCHANGED <<announced, clock, batch>>

\* The posting is refused, no settlement account is configured, or the server
\* dies: "Any failure rolls back the whole flow".
Fail(p) ==
    /\ serving[p] # None
    /\ serving' = [serving EXCEPT ![p] = None]
    /\ UNCHANGED <<rows, clock, batch>>

-----------------------------------------------------------------------------
(* sweepExpiredLocks *)

\* ACTIVE rows past their expiry that SKIP LOCKED does not pass over.
Due == {l \in Locks : lock[l] = "ACTIVE" /\ ExpiresAt[l] <= clock /\ Free(l)}

\* Mutant: no LIMIT.
IsBatchUncapped(B) == B = Due /\ B # {}

\* ORDER BY expires_at LIMIT cap, in a tick that finds something.
IsBatch(B) ==
    /\ B \in (SUBSET Due) \ {{}}
    /\ Cardinality(B) <= Cap
    /\ Cardinality(B) < Cap => B = Due
    /\ \A l \in B, m \in Due \ B : ExpiresAt[l] <= ExpiresAt[m]

SweepClaim(w) ==
    /\ batch[w] = {}
    /\ \E B \in SUBSET Due : IsBatch(B) /\ batch' = [batch EXCEPT ![w] = B]
    /\ UNCHANGED <<rows, clock, serving>>

\* Every row of the batch is EXPIRED and announced in one transaction.
SweepCommit(w) ==
    /\ batch[w] # {}
    /\ lock' = [l \in Locks |-> IF l \in batch[w] THEN "EXPIRED" ELSE lock[l]]
    /\ announced' = [l \in Locks |-> announced[l] + (IF l \in batch[w] THEN 1 ELSE 0)]
    /\ batch' = [batch EXCEPT ![w] = {}]
    /\ UNCHANGED <<clock, trades, serving>>

\* A query throws or the server dies: the whole batch is rolled back.
SweepFails(w) ==
    /\ batch[w] # {}
    /\ batch' = [batch EXCEPT ![w] = {}]
    /\ UNCHANGED <<rows, clock, serving>>

-----------------------------------------------------------------------------

Next ==
    \/ TimePasses
    \/ \E l \in Locks : LockRate(l)
    \/ \E p \in Procs : (\E r \in Requests : Begin(p, r)) \/ Settle(p) \/ Fail(p)
    \/ \E w \in Sweepers : SweepClaim(w) \/ SweepCommit(w) \/ SweepFails(w)

Spec == Init /\ [][Next]_vars

\* Time passes, transfers end, the cron runs, and a sweep that is tried again and
\* again commits some day.
Fairness ==
    /\ WF_vars(TimePasses)
    /\ \A p \in Procs : WF_vars(Settle(p) \/ Fail(p))
    /\ \A w \in Sweepers : WF_vars(SweepClaim(w)) /\ SF_vars(SweepCommit(w))

FairSpec == Spec /\ Fairness

-----------------------------------------------------------------------------
(* Properties *)

\* "A lock moves to CONSUMED exactly once when tied to a trade; EXPIRED ... terminal
\* without consumption": one trade or one announcement of its expiry, never both,
\* whatever order transfers and sweeps come in.
EndsOneWay ==
    \A l \in Locks :
        /\ lock[l] = "CONSUMED" <=> TradesOf(l) # {}
        /\ lock[l] = "EXPIRED" <=> announced[l] # 0
        /\ announced[l] <= 1
        /\ \A t, u \in TradesOf(l) : t = u

\* The status of a lock that has ended never changes again: a transfer that checked
\* it just before its expiry is not overtaken by the sweep, nor the reverse.
EndIsFinal ==
    [][\A l \in Locks : lock[l] \in {"CONSUMED", "EXPIRED"} => lock'[l] = lock[l]]_vars

\* Every lock is consumed or expires in the end, for any configured batch size and
\* however many sweeps fail.
EveryLockEnds ==
    \A l \in Locks : lock[l] = "ACTIVE" ~> lock[l] \in {"CONSUMED", "EXPIRED"}
=============================================================================
