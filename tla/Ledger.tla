------------------------------- MODULE Ledger -------------------------------
(***************************************************************************)
(* Ledger postings, reversals and account status updates as concurrent     *)
(* database transactions (PostingService, ReversalService,                 *)
(* AccountsService).                                                       *)
(*                                                                         *)
(* A process is one request being served: it opens a transaction, takes    *)
(* row locks one query at a time and commits, rolls back or crashes.       *)
(* `ledger` and `accounts` hold committed rows.  Everything a posting      *)
(* writes happens while it holds FOR UPDATE locks on all rows it writes,   *)
(* so its inserts, its projections, its outbox row and the COMMIT are one  *)
(* step (Insert); the queries before them are steps of their own.          *)
(***************************************************************************)
EXTENDS Postings

CONSTANTS
    Procs,        \* requests in flight at the same time
    TxIds,        \* ids a ledger row may get; bounds the number of postings
    Correlations, \* correlation ids clients send
    CreatedAs,    \* statuses clients create accounts with
    Posts,        \* posting bodies clients send: [corr, net, cur]
    ReverseKeys,  \* correlation ids clients send to the reversal endpoint
    None

ASSUME LedgerAssumption ==
    /\ \A d \in Posts : d.corr \in Correlations /\ IsBundle(d)
    /\ ReverseKeys \subseteq Correlations
    /\ CreatedAs \subseteq Statuses \ {"NONE"}
    /\ None \notin TxIds

VARIABLES
    accounts,      \* rows of `accounts`
    ledger,        \* rows of `ledger_transactions` with their entries, by id
    ledgerEvents,  \* ledger rows of `outbox_events`
    announced,     \* last account event enqueued for each account
    pc,            \* next query of each process
    req,           \* posting a process is serving
    held,          \* account rows a process holds FOR UPDATE
    heldTx,        \* ledger rows a process holds FOR UPDATE
    job,           \* status update a process is serving
    prior          \* history: rows that had the correlation id of a process's
                   \* posting when that began

vars == <<accounts, ledger, ledgerEvents, announced, pc, req, held, heldTx, job, prior>>

-----------------------------------------------------------------------------

\* A posting to make, and the ledger row it becomes.
IsPosting(r) ==
    /\ r.corr \in Correlations
    /\ r.reverses \in TxIds \cup {None}
    /\ IsBundle(r)

Events == [key : {"ledger.transaction.posted", "ledger.transaction.reversed"}, tx : TxIds]

\* `read` is the entity findOne returned, `cols` the columns save() found changed.
Job == [account : Accounts \cup {None}, to : Statuses, read : AccountRow,
        cols : SUBSET {"status", "balance", "availableBalance"}]

NoJob == [account |-> None, to |-> "NONE", read |-> NoAccount, cols |-> {}]

Stages == {"idle", "lookup", "target", "lock", "insert", "reload", "write"}

\* One type invariant: every row, lock set and local variable has its shape.
TypeOK ==
    /\ accounts \in [Accounts -> AccountRow]
    /\ DOMAIN ledger \in SUBSET TxIds
    /\ \A id \in DOMAIN ledger : IsPosting(ledger[id])
    /\ ledgerEvents \in SUBSET Events
    /\ announced \in [Accounts -> {"none", "created", "frozen", "unfrozen"}]
    /\ pc \in [Procs -> Stages]
    /\ DOMAIN req = Procs
    /\ \A p \in Procs :
          pc[p] \in {"lookup", "target", "lock", "insert"} => IsPosting(req[p])
    /\ held \in [Procs -> SUBSET Accounts]
    /\ heldTx \in [Procs -> SUBSET TxIds]
    /\ job \in [Procs -> Job]
    /\ prior \in [Procs -> SUBSET TxIds]

Init ==
    /\ accounts = [a \in Accounts |-> NoAccount]
    /\ ledger = [id \in {} |-> None]
    /\ ledgerEvents = {}
    /\ announced = [a \in Accounts |-> "none"]
    /\ pc = [p \in Procs |-> "idle"]
    /\ req = [p \in Procs |-> None]
    /\ held = [p \in Procs |-> {}]
    /\ heldTx = [p \in Procs |-> {}]
    /\ job = [p \in Procs |-> NoJob]
    /\ prior = [p \in Procs |-> {}]

rows == <<accounts, ledger, ledgerEvents, announced>>

-----------------------------------------------------------------------------
(* Locks and unique keys *)

\* Mutant: readers and writers of an account row do not wait for its lock.
FreeAlways(p, a) == TRUE

\* No other transaction holds the account row, so FOR UPDATE or UPDATE proceeds.
Free(p, a) == \A q \in Procs \ {p} : a \notin held[q]

FreeTx(p, id) == \A q \in Procs \ {p} : id \notin heldTx[q]

\* Committed rows with a correlation id (unique column).
WithCorrelation(c) == {id \in DOMAIN ledger : ledger[id].corr = c}

\* Mutant: the reversal is looked for under the target's correlation id.
ReversalsOfWrongColumn(id) == {r \in DOMAIN ledger : ledger[r].reverses = ledger[id].corr}

\* Committed reversals of a transaction (partial unique index).
ReversalsOf(id) == {r \in DOMAIN ledger : ledger[r].reverses = id}

IsReversal(id) == ledger[id].reverses # None

\* The end of a transaction, by COMMIT, ROLLBACK or a lost connection: locks
\* go and the process can serve another request.
EndTransaction(p) ==
    /\ pc' = [pc EXCEPT ![p] = "idle"]
    /\ req' = [req EXCEPT ![p] = None]
    /\ held' = [held EXCEPT ![p] = {}]
    /\ heldTx' = [heldTx EXCEPT ![p] = {}]
    /\ job' = [job EXCEPT ![p] = NoJob]
    /\ prior' = [prior EXCEPT ![p] = {}]

Rollback(p) == EndTransaction(p) /\ UNCHANGED rows

-----------------------------------------------------------------------------
(* Accounts: creation and status *)

\* createAccount: balances start at zero, the status is the caller's choice.
CreateAccount(p, a, status) ==
    /\ pc[p] = "idle"
    /\ accounts[a].status = "NONE"
    /\ accounts' = [accounts EXCEPT ![a].status = status]
    /\ announced' = [announced EXCEPT ![a] = "created"]
    /\ UNCHANGED <<ledger, ledgerEvents, pc, req, held, heldTx, job, prior>>

\* updateAccountStatus reads the row WITHOUT a lock.
StatusRead(p, a, to) ==
    /\ pc[p] = "idle"
    /\ accounts[a].status # "NONE"
    /\ pc' = [pc EXCEPT ![p] = "reload"]
    /\ job' = [job EXCEPT ![p] =
                  [account |-> a, to |-> to, read |-> accounts[a], cols |-> {}]]
    /\ UNCHANGED <<accounts, ledger, ledgerEvents, announced, req, held, heldTx, prior>>

\* save() selects the row again and keeps the columns where the entity in
\* memory (the old read with the new status) differs from it.
ChangedColumns(j, row) ==
    {c \in {"status", "balance", "availableBalance"} :
        \/ c = "status" /\ j.to # row.status
        \/ c = "balance" /\ j.read.balance # row.balance
        \/ c = "availableBalance" /\ j.read.availableBalance # row.availableBalance}

StatusReload(p) ==
    /\ pc[p] = "reload"
    /\ pc' = [pc EXCEPT ![p] = "write"]
    /\ job' = [job EXCEPT ![p].cols = ChangedColumns(job[p], accounts[job[p].account])]
    /\ UNCHANGED <<accounts, ledger, ledgerEvents, announced, req, held, heldTx, prior>>

\* The row after UPDATE ... SET <changed columns>.
Saved(j, row) ==
    [status |-> IF "status" \in j.cols THEN j.to ELSE row.status,
     balance |-> IF "balance" \in j.cols THEN j.read.balance ELSE row.balance,
     availableBalance |-> IF "availableBalance" \in j.cols
                          THEN j.read.availableBalance ELSE row.availableBalance]

\* The event is chosen from the status read at the start.
StatusEvent(j) ==
    CASE j.to = "FROZEN" /\ j.read.status # "FROZEN" -> {"frozen"}
      [] j.to = "ACTIVE" /\ j.read.status = "FROZEN" -> {"unfrozen"}
      [] OTHER -> {}

\* UPDATE waits for the row's lock (no UPDATE is sent when nothing changed),
\* then the outbox row and COMMIT.
StatusWrite(p) ==
    LET j == job[p]
        a == job[p].account
    IN /\ pc[p] = "write"
       /\ j.cols # {} => Free(p, a)
       /\ accounts' = [accounts EXCEPT ![a] = Saved(j, @)]
       /\ announced' = IF StatusEvent(j) = {} THEN announced
                       ELSE [announced EXCEPT ![a] = CHOOSE e \in StatusEvent(j) : TRUE]
       /\ EndTransaction(p)
       /\ UNCHANGED <<ledger, ledgerEvents>>

-----------------------------------------------------------------------------
(* Postings and reversals *)

\* PostingService.post; with `orig` the body has type REVERSAL and its target.
BeginPost(p, d, orig) ==
    /\ pc[p] = "idle"
    /\ pc' = [pc EXCEPT ![p] = "lookup"]
    /\ req' = [req EXCEPT ![p] =
                  [corr |-> d.corr, reverses |-> orig, net |-> d.net, cur |-> d.cur]]
    /\ prior' = [prior EXCEPT ![p] = WithCorrelation(d.corr)]
    /\ UNCHANGED <<accounts, ledger, ledgerEvents, announced, held, heldTx, job>>

\* ReversalService.reverse: unlocked reads (a known key is answered at once),
\* then the mirrored lines go to PostingService.post.
BeginReverse(p, key, orig) ==
    /\ pc[p] = "idle"
    /\ WithCorrelation(key) = {}
    /\ orig \in DOMAIN ledger
    /\ ~IsReversal(orig)
    /\ pc' = [pc EXCEPT ![p] = "lookup"]
    /\ req' = [req EXCEPT ![p] =
                  [corr |-> key, reverses |-> orig,
                   net |-> Mirror(ledger[orig]).net, cur |-> Mirror(ledger[orig]).cur]]
    /\ UNCHANGED <<accounts, ledger, ledgerEvents, announced, held, heldTx, job, prior>>

\* Mutant: the lookup skips a locked row.
LookupSkipsLocked(p) ==
    LET hits == {id \in WithCorrelation(req[p].corr) : FreeTx(p, id)}
    IN /\ pc[p] = "lookup"
       /\ \/ hits # {} /\ Rollback(p)
          \/ /\ hits = {}
             /\ pc' = [pc EXCEPT ![p] = "target"]
             /\ UNCHANGED <<rows, req, held, heldTx, job, prior>>

\* SELECT ... FOR UPDATE by correlation id: a hit is the answer (a replay), once
\* its row lock is free; a miss locks nothing.
Lookup(p) ==
    LET hits == WithCorrelation(req[p].corr)
    IN /\ pc[p] = "lookup"
       /\ \A id \in hits : FreeTx(p, id)
       /\ \/ hits # {} /\ Rollback(p)
          \/ /\ hits = {}
             /\ pc' = [pc EXCEPT ![p] = "target"]
             /\ UNCHANGED <<rows, req, held, heldTx, job, prior>>

\* assertReversalTargetPosted locks the target and looks for a reversal of it.
TargetOK(p) ==
    LET t == req[p].reverses
    IN t # None => /\ t \in DOMAIN ledger
                   /\ ~IsReversal(t)
                   /\ ReversalsOf(t) = {}

\* Mutant: a posting without a target "locks" the missing row as well.
CheckTargetLocksNull(p) ==
    /\ pc[p] = "target"
    /\ TargetOK(p) /\ BalancedPerCurrency(req[p])
    /\ heldTx' = [heldTx EXCEPT ![p] = {req[p].reverses}]
    /\ pc' = [pc EXCEPT ![p] = "lock"]
    /\ UNCHANGED <<rows, req, held, job, prior>>

\* The target's checks, then the debit/credit balance of the lines.
CheckTarget(p) ==
    LET t == req[p].reverses
    IN /\ pc[p] = "target"
       /\ t \in DOMAIN ledger => FreeTx(p, t)
       /\ \/ /\ TargetOK(p) /\ BalancedPerCurrency(req[p])
             /\ heldTx' = [heldTx EXCEPT ![p] = {t} \ {None}]
             /\ pc' = [pc EXCEPT ![p] = "lock"]
             /\ UNCHANGED <<rows, req, held, job, prior>>
          \/ /\ ~(TargetOK(p) /\ BalancedPerCurrency(req[p]))
             /\ Rollback(p)

Unlocked(p) == Touched(req[p]) \ held[p]

\* Mutant: the debited account is locked first.
IsNextAccountPayerFirst(p, a) ==
    a \in Unlocked(p) /\ \A b \in Unlocked(p) : req[p].net[a] <= req[p].net[b]

\* Accounts are locked in ascending id order.
IsNextAccount(p, a) == a \in Unlocked(p) /\ \A b \in Unlocked(p) : a <= b

\* FOR UPDATE on the next account, then its checks.
LockAccount(p, a) ==
    /\ pc[p] = "lock"
    /\ IsNextAccount(p, a)
    /\ Free(p, a)
    /\ \/ /\ Accepts(accounts[a], a, req[p])
          /\ held' = [held EXCEPT ![p] = @ \cup {a}]
          /\ pc' = [pc EXCEPT ![p] = IF Unlocked(p) = {a} THEN "insert" ELSE "lock"]
          /\ UNCHANGED <<rows, req, heldTx, job, prior>>
       \/ /\ ~Accepts(accounts[a], a, req[p])
          /\ Rollback(p)

\* A unique index refuses the header row: 23505.  PostgreSQL then refuses every
\* later query of the transaction, so the winner is never reloaded in it.
UniqueViolation(p) ==
    \/ WithCorrelation(req[p].corr) # {}
    \/ req[p].reverses # None /\ ReversalsOf(req[p].reverses) # {}

\* Header, entries, projections, outbox row and COMMIT.
Insert(p) ==
    /\ pc[p] = "insert"
    /\ \/ UniqueViolation(p) /\ Rollback(p)
       \/ /\ ~UniqueViolation(p)
          /\ \E id \in TxIds \ DOMAIN ledger :
                /\ ledger' = [i \in DOMAIN ledger \cup {id} |->
                                 IF i = id THEN req[p] ELSE ledger[i]]
                /\ ledgerEvents' = ledgerEvents \cup
                      {[key |-> IF req[p].reverses = None
                                THEN "ledger.transaction.posted" ELSE "ledger.transaction.reversed",
                        tx |-> id]}
          /\ accounts' = Project(accounts, req[p])
          /\ EndTransaction(p)
          /\ UNCHANGED announced

\* The process dies or its connection is lost: PostgreSQL rolls back.
Crash(p) == pc[p] # "idle" /\ Rollback(p)

-----------------------------------------------------------------------------

\* One query of the request p serves, or the start of a request.
Step(p) ==
    \/ \E a \in Accounts, s \in CreatedAs : CreateAccount(p, a, s)
    \/ \E a \in Accounts, s \in {"FROZEN", "ACTIVE"} : StatusRead(p, a, s)
    \/ StatusReload(p)
    \/ StatusWrite(p)
    \/ \E d \in Posts, orig \in TxIds \cup {None} : BeginPost(p, d, orig)
    \/ \E k \in ReverseKeys, orig \in TxIds : BeginReverse(p, k, orig)
    \/ Lookup(p)
    \/ CheckTarget(p)
    \/ \E a \in Accounts : LockAccount(p, a)
    \/ Insert(p)
    \/ Crash(p)

Next == \E p \in Procs : Step(p)

Spec == Init /\ [][Next]_vars

-----------------------------------------------------------------------------
(* Properties *)

\* No account is ever left below its overdraft limit, although the check reads
\* a row that other postings and unlocked status saves write as well.
OverdraftFloor == \A a \in Accounts : accounts[a].availableBalance >= -Overdraft[a]

\* "retries return the same row" (posting.service.ts:62): a posting that begins
\* when a row has its correlation id never gets past the lookup, where it can only
\* be answered, although a reversal may hold that row for as long as it likes, and
\* no other row ever takes the id.  So 23505 on the id, after which the winner
\* cannot be reloaded, is met only by requests that overlapped the winner.
RepeatsGetTheRow ==
    \A p \in Procs : prior[p] # {} =>
        pc[p] = "lookup" /\ \E id \in prior[p] : WithCorrelation(req[p].corr) = {id}

\* Two reversals of one transaction cannot both be posted, whichever endpoint
\* and key they come by; and a reversal is never reversed.
ReversedAtMostOnce ==
    \A i, j \in DOMAIN ledger :
        ledger[i].reverses # None =>
            /\ ledger[j].reverses = ledger[i].reverses => i = j
            /\ ledger[j].reverses # i

\* A posting moves money only on accounts that are ACTIVE when it commits: a
\* freeze cannot slip in between the status check and the projection.
OnlyActiveAccountsMove ==
    [][\A id \in DOMAIN ledger' \ DOMAIN ledger :
          \A a \in Touched(ledger'[id]) : accounts[a].status = "ACTIVE"]_vars

EntriesOn(a) == {id \in DOMAIN ledger : a \in Touched(ledger[id])}

\* The sum of an account's ledger entries.
EntrySum(a) == SumFunction([id \in EntriesOn(a) |-> ledger[id].net[a]])

\* The books of every currency balance over all accounts.
DoubleEntry ==
    \A c \in Currencies :
        SumFunctionOnSet([a \in Accounts |-> EntrySum(a)],
                         {a \in Accounts : CurrencyOf[a] = c}) = 0

\* p waits for a row lock that q holds.
WaitsFor(p, q) ==
    /\ p # q
    /\ \/ pc[p] = "lookup" /\ \E id \in WithCorrelation(req[p].corr) : id \in heldTx[q]
       \/ pc[p] = "target" /\ req[p].reverses \in heldTx[q]
       \/ pc[p] = "lock" /\ \E a \in held[q] : IsNextAccount(p, a)
       \/ pc[p] = "write" /\ job[p].account \in held[q]

\* The sorted lock order works: no set of transactions waits in a cycle.
NoDeadlock ==
    \A S \in (SUBSET Procs) \ {{}} : \E p \in S : \A q \in S : ~WaitsFor(p, q)

\* How far each balance is from the sum of its entries.
Drift == [a \in Accounts |-> accounts[a].balance - EntrySum(a)]

\* The save of a status update that writes back balances it read earlier.
StaleSave(p) == pc[p] = "write" /\ "balance" \in job[p].cols

\* Nothing but a stale status save can part a projection from the ledger.
DriftOnlyByStaleSave ==
    [][Drift' = Drift \/ \E p \in Procs : StaleSave(p) /\ StatusWrite(p)]_vars

\* "`balance` and `availableBalance` are projections maintained with ledger
\* postings" (account.entity.ts): the balance is the sum of the entries.
ProjectionMatchesLedger == \A a \in Accounts : Drift[a] = 0
=============================================================================
