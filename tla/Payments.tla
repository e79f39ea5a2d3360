------------------------------ MODULE Payments ------------------------------
(***************************************************************************)
(* PaymentOrchestratorService: payment requests with idempotency keys as   *)
(* concurrent database transactions.                                       *)
(*                                                                         *)
(* A process is one request being served, on one connection of the pool.   *)
(* `records`, `payments`, `ledger` and `events` hold committed rows; what  *)
(* a transaction has written and not committed is told by its stage and by *)
(* the locks it holds.  The ledger posting is the one of module Ledger,    *)
(* reduced to its two answers: posted, or refused (balance, limit).        *)
(***************************************************************************)
EXTENDS Integers, FiniteSets

CONSTANTS
    Accounts,   \* account ids; numbers, because the code sorts them
    Users,
    Currencies,
    OwnerOf,    \* accounts.user_id
    CurrencyOf, \* accounts.currency
    Opened,     \* accounts that exist
    Keys,       \* (idempotency_key, scope_key) pairs
    Bodies,     \* request bodies: [type, src, dst, cur]
    Requests,   \* what clients send: [key, actor, body]
    Procs,      \* requests in flight at the same time
    PoolSize,   \* connections of the database pool
    None

ASSUME PaymentsAssumption ==
    /\ Accounts \subseteq Nat
    /\ Opened \subseteq Accounts
    /\ OwnerOf \in [Accounts -> Users]
    /\ CurrencyOf \in [Accounts -> Currencies]
    /\ Bodies \subseteq [type : {"TRANSFER", "COLLECTION"},
                         src : Accounts, dst : Accounts, cur : Currencies]
    /\ Requests \subseteq [key : Keys, actor : Users, body : Bodies]
    /\ PoolSize \in Nat
    /\ None \notin Keys

VARIABLES
    status,    \* accounts.status
    records,   \* rows of `payments_idempotency_records`, by key: [fp, status]
    payments,  \* rows of `payments`, by key: [body, status]
    ledger,    \* keys whose payment has a ledger transaction `payment:{id}`
    approvals, \* keys with a committed APPROVED risk decision
    events,    \* payment rows of `outbox_events`: [event, key]
    pc,        \* next query of each process
    req,       \* request it serves
    slot,      \* idempotency row it has inserted or holds FOR UPDATE
    shared,    \* account rows it holds FOR KEY SHARE (foreign key checks)
    held,      \* account rows it holds FOR UPDATE
    answer     \* what it answered last: [key, body, out]

rows == <<records, payments, ledger, events>>

locks == <<slot, shared, held>>

vars == <<status, rows, approvals, pc, req, locks, answer>>

-----------------------------------------------------------------------------

PaymentEvents == {"payment.created", "payment.completed", "payment.failed"}

Decided == {"COMPLETED", "FAILED"}

\* "rejected" is a 4xx, "duplicate" a lost insert race, "error" anything else.
Answers == Decided \cup {"none", "conflict", "rejected", "duplicate", "error"}

Stages == {"idle", "slot", "insert", "share", "lock", "fraud", "decline", "post"}

Busy(p) == pc[p] # "idle"

\* Shapes; and no row of a payment under way is ever visible to others.
TypeOK ==
    /\ status \in [Accounts -> {"NONE", "ACTIVE", "FROZEN"}]
    /\ DOMAIN records \in SUBSET Keys
    /\ \A k \in DOMAIN records : records[k] \in [fp : Bodies, status : Decided]
    /\ DOMAIN payments \in SUBSET Keys
    /\ \A k \in DOMAIN payments : payments[k] \in [body : Bodies, status : Decided]
    /\ ledger \in SUBSET Keys
    /\ approvals \in SUBSET Keys
    /\ events \in SUBSET [event : PaymentEvents, key : Keys]
    /\ pc \in [Procs -> Stages]
    /\ DOMAIN req = Procs
    /\ \A p \in Procs : Busy(p) => req[p] \in Requests
    /\ slot \in [Procs -> Keys \cup {None}]
    /\ shared \in [Procs -> SUBSET Accounts]
    /\ held \in [Procs -> SUBSET Accounts]
    /\ DOMAIN answer = Procs
    /\ \A p \in Procs : answer[p].out \in Answers

NoAnswer == [key |-> None, body |-> None, out |-> "none"]

Init ==
    /\ status = [a \in Accounts |-> IF a \in Opened THEN "ACTIVE" ELSE "NONE"]
    /\ records = [k \in {} |-> None]
    /\ payments = [k \in {} |-> None]
    /\ ledger = {}
    /\ approvals = {}
    /\ events = {}
    /\ pc = [p \in Procs |-> "idle"]
    /\ req = [p \in Procs |-> None]
    /\ slot = [p \in Procs |-> None]
    /\ shared = [p \in Procs |-> {}]
    /\ held = [p \in Procs |-> {}]
    /\ answer = [p \in Procs |-> NoAnswer]

-----------------------------------------------------------------------------
(* Locks, connections and the end of a transaction *)

Key(p) == req[p].key

Body(p) == req[p].body

Legs(b) == {b.src, b.dst}

SlotFree(p) == \A q \in Procs \ {p} : slot[q] # Key(p)

\* FOR KEY SHARE waits for FOR UPDATE only, FOR UPDATE waits for both.
ShareFree(p, a) == \A q \in Procs \ {p} : a \notin held[q]

LockFree(p, a) == \A q \in Procs \ {p} : a \notin held[q] \cup shared[q]

\* Mutant: the fraud transaction takes two connections more.
SpareTwo == Cardinality({p \in Procs : Busy(p)}) + 1 < PoolSize

\* The pool has a connection to give.
Spare == Cardinality({p \in Procs : Busy(p)}) < PoolSize

\* COMMIT or ROLLBACK: locks and connection are given back, the client gets `out`.
End(p, out) ==
    /\ pc' = [pc EXCEPT ![p] = "idle"]
    /\ req' = [req EXCEPT ![p] = None]
    /\ slot' = [slot EXCEPT ![p] = None]
    /\ shared' = [shared EXCEPT ![p] = {}]
    /\ held' = [held EXCEPT ![p] = {}]
    /\ answer' = [answer EXCEPT ![p] =
                     [key |-> Key(p), body |-> Body(p), out |-> out]]
    /\ UNCHANGED <<status, approvals>>

Rollback(p, out) == End(p, out) /\ UNCHANGED rows

GoTo(p, stage) ==
    /\ pc' = [pc EXCEPT ![p] = stage]
    /\ UNCHANGED <<status, rows, req, answer>>

Put(f, k, row) == [i \in DOMAIN f \cup {k} |-> IF i = k THEN row ELSE f[i]]

TerminalEvent(out) == IF out = "COMPLETED" THEN "payment.completed" ELSE "payment.failed"

\* Mutant: the decided slot is saved, the payment row stays PENDING.
DecideForgetsPayment(p, out) ==
    /\ records' = Put(records, Key(p), [fp |-> Body(p), status |-> out])
    /\ payments' = Put(payments, Key(p), [body |-> Body(p), status |-> "PENDING"])
    /\ events' = events \cup {[event |-> e, key |-> Key(p)] :
                              e \in {"payment.created", TerminalEvent(out)}}
    /\ End(p, out)

\* Mutant: the failure is announced on the success path as well.
DecideAnnouncesFailure(p, out) ==
    /\ records' = Put(records, Key(p), [fp |-> Body(p), status |-> out])
    /\ payments' = Put(payments, Key(p), [body |-> Body(p), status |-> out])
    /\ events' = events \cup {[event |-> e, key |-> Key(p)] :
                              e \in {"payment.created", "payment.failed"}}
    /\ End(p, out)

\* The rows a decided payment commits: slot, payment and its outbox rows.
Decide(p, out) ==
    /\ records' = Put(records, Key(p), [fp |-> Body(p), status |-> out])
    /\ payments' = Put(payments, Key(p), [body |-> Body(p), status |-> out])
    /\ events' = events \cup {[event |-> e, key |-> Key(p)] :
                              e \in {"payment.created", TerminalEvent(out)}}
    /\ End(p, out)

-----------------------------------------------------------------------------
(* submitPayment *)

\* A request gets a connection and opens its transaction.
Begin(p, r) ==
    /\ ~Busy(p)
    /\ Spare
    /\ pc' = [pc EXCEPT ![p] = "slot"]
    /\ req' = [req EXCEPT ![p] = r]
    /\ answer' = [answer EXCEPT ![p] = NoAnswer]
    /\ UNCHANGED <<status, rows, approvals, locks>>

\* The caller owns the destination of a COLLECTION, else the source.
OwnedByActor(r) ==
    OwnerOf[IF r.body.type = "COLLECTION" THEN r.body.dst ELSE r.body.src] = r.actor

\* Mutant: the stored fingerprint is not compared.
SameRequestAlways(p) == TRUE

SameRequest(p) == records[Key(p)].fp = Body(p)

\* Mutant: a FAILED payment is tried again.
IsTerminalCompleted(row) == row.status = "COMPLETED"

IsTerminal(row) == row.status \in {"COMPLETED", "FAILED"}

\* findByIdempotencyKeyForUpdate: a committed row is locked, a miss locks nothing.
\* The stored outcome is the answer; an undecided payment would be resumed.
Slot(p) ==
    LET k == Key(p)
    IN /\ pc[p] = "slot"
       /\ \/ /\ k \notin DOMAIN records
             /\ GoTo(p, "insert")
             /\ UNCHANGED <<approvals, locks>>
          \/ /\ k \in DOMAIN records
             /\ SlotFree(p)
             /\ IF ~SameRequest(p) THEN Rollback(p, "conflict")
                ELSE IF ~OwnedByActor(req[p]) THEN Rollback(p, "rejected")
                ELSE IF IsTerminal(payments[k]) THEN Rollback(p, payments[k].status)
                ELSE /\ GoTo(p, "lock")
                     /\ slot' = [slot EXCEPT ![p] = k]
                     /\ UNCHANGED <<approvals, shared, held>>

\* INSERT of the PENDING slot waits for an uncommitted one with the same key.
\* When that one commits the answer is 23505, and PostgreSQL refuses every later
\* query of this transaction: the reload of the winner fails, the request too.
InsertSlot(p) ==
    /\ pc[p] = "insert"
    /\ SlotFree(p)
    /\ \/ /\ Key(p) \in DOMAIN records
          /\ Rollback(p, "duplicate")
       \/ /\ Key(p) \notin DOMAIN records
          /\ slot' = [slot EXCEPT ![p] = Key(p)]
          /\ GoTo(p, "share")
          /\ UNCHANGED <<approvals, shared, held>>

\* INSERT of the payment: its two foreign keys lock source, then destination,
\* FOR KEY SHARE.  The ownership check reads the row unlocked; it never changes.
InsertPayment(p) ==
    LET a == IF Body(p).src \in shared[p] THEN Body(p).dst ELSE Body(p).src
    IN /\ pc[p] = "share"
       /\ ShareFree(p, a)
       /\ \/ /\ status[a] = "NONE"
             /\ Rollback(p, "error")
          \/ /\ status[a] # "NONE"
             /\ IF ~(Legs(Body(p)) \subseteq shared[p] \cup {a})
                THEN /\ GoTo(p, "share")
                     /\ shared' = [shared EXCEPT ![p] = @ \cup {a}]
                     /\ UNCHANGED <<approvals, slot, held>>
                ELSE IF OwnedByActor(req[p])
                THEN /\ GoTo(p, "lock")
                     /\ shared' = [shared EXCEPT ![p] = @ \cup {a}]
                     /\ UNCHANGED <<approvals, slot, held>>
                ELSE Rollback(p, "rejected")

\* Mutant: only the source is checked.
ReadySourceOnly(b) == status[b.src] = "ACTIVE" /\ CurrencyOf[b.src] = b.cur

\* assertAccountsReady.
Ready(b) == \A a \in Legs(b) : status[a] = "ACTIVE" /\ CurrencyOf[a] = b.cur

Unlocked(p) == Legs(Body(p)) \ held[p]

IsNextLeg(p, a) == a \in Unlocked(p) /\ \A b \in Unlocked(p) : a <= b

\* loadPaymentAccountsLocked: FOR UPDATE in ascending id order, then the checks.
LockAccount(p, a) ==
    /\ pc[p] = "lock"
    /\ IsNextLeg(p, a)
    /\ LockFree(p, a)
    /\ \/ /\ Unlocked(p) # {a}
          /\ GoTo(p, "lock")
          /\ held' = [held EXCEPT ![p] = @ \cup {a}]
          /\ UNCHANGED <<approvals, slot, shared>>
       \/ /\ Unlocked(p) = {a} /\ Ready(Body(p))
          /\ GoTo(p, "fraud")
          /\ held' = [held EXCEPT ![p] = @ \cup {a}]
          /\ UNCHANGED <<approvals, slot, shared>>
       \/ /\ Unlocked(p) = {a} /\ ~Ready(Body(p))
          /\ Rollback(p, "rejected")

Verdicts == {"APPROVED", "REVIEW", "ACTION_REQUIRED", "BLOCKED"}

Approves(verdict) == verdict = "APPROVED"

\* evaluateSynchronously writes its decision in a transaction of its own, on
\* another connection, and commits it before the payment's transaction does.
Evaluate(p) ==
    /\ pc[p] = "fraud"
    /\ Spare
    /\ \E v \in Verdicts :
          /\ approvals' = IF v = "APPROVED" THEN approvals \cup {Key(p)} ELSE approvals
          /\ GoTo(p, IF Approves(v) THEN "post" ELSE "decline")
    /\ UNCHANGED locks

\* persistTerminalPaymentFailedForFraudDecision and COMMIT.
Decline(p) == pc[p] = "decline" /\ Decide(p, "FAILED") /\ UNCHANGED ledger

\* PROCESSING, the posting, the outcome it leads to, and COMMIT.
Post(p) ==
    /\ pc[p] = "post"
    /\ \/ /\ ledger' = ledger \cup {Key(p)}
          /\ Decide(p, "COMPLETED")
       \/ /\ UNCHANGED ledger
          /\ Decide(p, "FAILED")

-----------------------------------------------------------------------------
(* What happens to a request from outside *)

\* p waits for a lock that q holds.
WaitsFor(p, q) ==
    /\ p # q
    /\ \/ pc[p] = "slot" /\ Key(p) \in DOMAIN records /\ slot[q] = Key(p)
       \/ pc[p] = "insert" /\ slot[q] = Key(p)
       \/ /\ pc[p] = "share"
          /\ (IF Body(p).src \in shared[p] THEN Body(p).dst ELSE Body(p).src) \in held[q]
       \/ pc[p] = "lock" /\ \E a \in held[q] \cup shared[q] : IsNextLeg(p, a)

\* Every process of S waits for one of S, and one of S waits for it.
IsCycle(S) == \A p \in S : (\E q \in S : WaitsFor(p, q)) /\ (\E q \in S : WaitsFor(q, p))

\* PostgreSQL finds the cycle and aborts one of its transactions (40P01).
DeadlockVictim(p) ==
    /\ \E S \in SUBSET Procs : p \in S /\ IsCycle(S)
    /\ Rollback(p, "error")

\* The server dies, a query fails or the connection is lost: PostgreSQL rolls
\* back, all but the fraud decision, which has its own transaction.
Crash(p) == Busy(p) /\ Rollback(p, "error")

\* The account's status is updated by another request; its UPDATE waits for
\* FOR UPDATE locks and not for FOR KEY SHARE.
UpdateStatus(a, s) ==
    /\ status[a] # "NONE"
    /\ \A p \in Procs : a \notin held[p]
    /\ status' = [status EXCEPT ![a] = s]
    /\ UNCHANGED <<rows, approvals, pc, req, locks, answer>>

-----------------------------------------------------------------------------

\* The queries of the handler itself.
Handle(p) ==
    \/ Slot(p)
    \/ InsertSlot(p)
    \/ InsertPayment(p)
    \/ \E a \in Accounts : LockAccount(p, a)
    \/ Evaluate(p)
    \/ Decline(p)
    \/ Post(p)
    \/ DeadlockVictim(p)

Next ==
    \/ \E p \in Procs :
          \/ \E r \in Requests : Begin(p, r)
          \/ Handle(p)
          \/ Crash(p)
    \/ \E a \in Accounts, s \in {"ACTIVE", "FROZEN"} : UpdateStatus(a, s)

\* PostgreSQL's lock queues are first in, first out, and so is the pool's, so a
\* request that can proceed again and again does.  Nothing makes clients send.
Fairness == \A p \in Procs : SF_vars(Handle(p))

Spec == Init /\ [][Next]_vars

FairSpec == Spec /\ Fairness

-----------------------------------------------------------------------------
(* Properties *)

\* The four tables tell one story about a key: slot, payment, ledger transaction
\* and outbox rows agree, at every commit and after every crash.
TablesAgree ==
    /\ DOMAIN records = DOMAIN payments
    /\ \A k \in DOMAIN payments :
          /\ records[k] = [fp |-> payments[k].body, status |-> payments[k].status]
          /\ {e.event : e \in {x \in events : x.key = k}} =
                {"payment.created", TerminalEvent(payments[k].status)}
    /\ ledger = {k \in DOMAIN payments : payments[k].status = "COMPLETED"}
    /\ {e.key : e \in events} = DOMAIN payments

\* An outcome a client was told stays the outcome of its key, and it was told for
\* the very body it sent ("retries return the same outcome").
AnswersStayTrue ==
    \A p \in Procs :
        answer[p].out \in Decided =>
            /\ answer[p].key \in DOMAIN payments
            /\ payments[answer[p].key] = [body |-> answer[p].body, status |-> answer[p].out]

\* Money moves only with a committed approval and between accounts that are
\* ACTIVE in the right currency at that moment, although both were read earlier.
MovesOnlyWhenCleared ==
    [][\A k \in ledger' \ ledger :
          /\ k \in approvals
          /\ \A a \in Legs(payments'[k].body) :
                status[a] = "ACTIVE" /\ CurrencyOf[a] = payments'[k].body.cur]_vars

\* Each key is decided once and moves money at most once: the abstract promise.
Once == INSTANCE PaymentOnce
            WITH decided <- [k \in DOMAIN payments |->
                                [body |-> payments[k].body, outcome |-> payments[k].status]],
                 moved <- ledger

DecidedOnce == Once!OnceSpec

\* With a connection to spare every request ends, deadlocks included.
EveryRequestEnds == \A p \in Procs : Busy(p) ~> ~Busy(p)

\* "one writer wins; others load the same payment" (README, idempotency table):
\* a request that loses the race for its key gets the winner's outcome.
DuplicatesAreAnswered == \A p \in Procs : answer[p].out # "duplicate"
=============================================================================
