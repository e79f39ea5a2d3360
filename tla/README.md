# A TLA+ verification of nova-pay

nova-pay (`src/nova-pay`, NestJS on PostgreSQL, Redis and RabbitMQ) keeps accounts and a
double-entry ledger, and moves money for payments, payroll batches, loans and international
transfers. Its correctness rests on what happens *between* the queries of concurrent requests:
row locks, unique indexes, transactions that commit or roll back, retries with an idempotency
key, relay ticks that overlap. That is what these modules model. Paths below are relative to
`src/nova-pay/src/` unless they say otherwise.

## 1. Inventory

| Part | State it keeps | Operations that change it | Interacts with |
|---|---|---|---|
| Accounts (`modules/accounts`) | `accounts`: status, balance, available balance, overdraft limit | create, freeze/unfreeze/close, projection of a posting | called by the ledger inside its transaction; outbox |
| Ledger (`modules/ledger`) | `ledger_transactions` (unique correlation id, one reversal per original), `ledger_entries` | `post`, `postWithSharedManager`, `reverse` | accounts, outbox; called by payments, payroll, FX, HTTP |
| Payments (`modules/payments`) | `payments_idempotency_records`, `payments` | `submitPayment` | accounts, fraud, ledger, outbox; called by HTTP and loans |
| Fraud (`modules/fraud`) | `risk_decisions`, `fraud_logs`, known devices, hour profile, two sliding windows in Redis | `evaluateSynchronously` (five rules at once, side effects, decision in a transaction of its own), `resolveRiskDecision` | called by payments and HTTP; Redis; outbox |
| Payroll (`modules/payroll`) | `payroll_batches`, `payroll_items`, `payroll_funding_reservations` | create, process (a chain of transactions) | ledger, outbox |
| Loans (`modules/loans`) | `loans`, `loan_repayments` | apply, disburse, repay, overdue sweep | payments inside an outer transaction; outbox |
| FX (`modules/fx`) | `fx_rate_locks` | lock a rate, consume it in an international transfer, expire sweep | ledger, outbox, Redis |
| Outbox and relay (`infrastructure/outbox`) | `outbox_events`: PENDING, CLAIMED, PUBLISHED, FAILED | enqueue, reclaim, claim, publish, mark | every domain; RabbitMQ |
| Auth, users (`modules/auth`, `modules/users`) | users, refresh sessions | register, login, refresh, logout, update of a user | HTTP |
| HTTP surface, infrastructure, hit counter | none of their own | map requests and rows | all |

What is hard, and why a test hardly reaches it:

- *two transactions and one row*: a freeze reads an account without a lock and saves the whole
  entity; two postings, two reversals, two payments with one key meet at every possible pair of
  queries;
- *PostgreSQL's own rules*: a row that does not exist cannot be locked, a unique violation
  aborts the whole transaction, foreign keys take `FOR KEY SHARE` locks;
- *a window in Redis* that is pruned, read and added to in three calls, by rules that race each
  other and a time budget, and may be carried out after the caller has given up;
- *calls without any transaction* (sessions, users): what was read may be stale when used, and
  `save` writes whatever differs from the row by then;
- *a chain of transactions* (payroll) that decides on what it read before without a lock, and
  whose callers cannot tell a lost COMMIT from a failure;
- *at-least-once delivery* with overlapping ticks, claims that grow stale, crashes between the
  publish and the mark;
- *liveness*: deadlocks, a bounded connection pool, batches only a new call can finish.

`PROJECT.json` lists each hazard at its line with the properties that watch it.

What makes each part correct:

- Accounts and ledger: the books balance per currency; no account below its overdraft limit;
  a repeated posting gets the row it repeats and makes no other; one reversal per
  transaction; money moves only on ACTIVE accounts; balances are the sums of the entries; no
  lock cycles.
- Payments: one decision per key, for one body, and money moves exactly when the decision is
  COMPLETED; slot, payment, ledger and outbox tell one story after every crash; what a client
  was told stays true; money moves only with an approval; every request ends.
- Outbox: PUBLISHED is true; settled rows stay settled; two ticks do not hold one row; every
  row settles; delivery at least once.
- Payroll: rows and money agree; announcements stay true; one funding per key; settled lines
  stay; a funded batch ends; a failure is final.
- Loans: repayments and outstanding principal make up the principal; a disbursement or a
  repayment has a COMPLETED payment of its own, and the payment never stays without it; status
  never goes back; a matured loan is marked.
- FX: a rate lock is traded once or announced as expired once, never both; what has ended stays
  ended; every lock ends.
- Fraud: only what all five rules judged in time and without error, and found clean, is
  APPROVED; the window of a rule misses no attempt that was recorded; the hour profile never
  forgets a user altogether; row and events of a decision agree; an evaluation ends though
  Redis never answers.
- Sessions and users: one user per email; a token that was logged out or traded in opens
  nothing afterwards; a deactivation or a new password binds every later login and refresh.
- Amounts: a balance survives formatting, its column and parsing.

## 2. Modules

`Postings` → `Ledger`, and with `Decimals` → `LedgerProofs`; `PaymentOnce` and `Payments` →
`PaymentsProofs`; `Outbox` → `OutboxProofs`; `Payroll` → `PayrollProofs`; `Loans` →
`LoansProofs`; `Fx` → `FxProofs`; `Fraud` → `FraudProofs`; `Sessions` → `SessionsProofs`. Each
component `X` has an `MCX` that gives the constants their values; `MCLedger` also states what
TLC evaluates of `Postings` and `Decimals` over small data.

**Postings** is the pure part of `posting.service.ts` and of `applyLedgerPostingProjections`. A
bundle of ledger lines is kept by its effect: a signed net amount and a currency per account it
touches. `BundleOf` makes it from the lines of a request (`IsBody`: numbered apart, one
currency per account), `DebitsEqualCredits` is `assertBalancedPerCurrency` on those lines and
`Swapped` the lines that `ReversalService` builds. `BalancedPerCurrency` and `Mirror` are the
same two of a bundle; that they agree is proved for every body (section 5) and evaluated by
the ledger's runs over every body of three lines (`LinesAndBundles`). Amounts are integers
scaled by 10^4, as `parseScaledAmount` makes them. `Accepts` is the checks on one locked account
row, `Project` the new balances.

**Decimals** is how money crosses between decimal texts and integers: `Parse` and `Format` are
`parseScaledDecimal` and `formatScaledDecimal` (the same code stands in the accounts and the
posting service), `Stored` is what a `numeric(19,4)` column gives back. Proved for every
integer, evaluated by the ledger's runs up to two units of either sign.

**Ledger** is `PostingService`, `ReversalService` and the status half of `AccountsService`. A
process is one request. The steps of a posting are its queries: `Lookup` (locking read by
correlation id: a miss locks nothing), `CheckTarget` (lock and check the transaction to
reverse), `LockAccount` (one `FOR UPDATE` per account in ascending id order, with the account's
checks), `Insert`. By then the transaction holds `FOR UPDATE` locks on all rows it writes, so
header, entries, projections, outbox row and COMMIT are one step; a unique violation there
rolls back. `StatusRead`, `StatusReload`, `StatusWrite` are the three queries of
`updateAccountStatus`: `findOne` without a lock, the second SELECT that TypeORM's `save` makes
to find changed columns, and the UPDATE of those columns. `Crash` may come between any two
queries.

**PaymentOnce** is the abstract promise: a key is decided once, for one body, and its money
moves in the same step when the decision is COMPLETED. **Payments** is `submitPayment` query by
query: `Slot` (lock the idempotency row or find none), `InsertSlot` (wait for an uncommitted
twin, or lose to a committed one), `InsertPayment` (its foreign keys lock both accounts `FOR
KEY SHARE`), `LockAccount` (`FOR UPDATE`, ascending), `Evaluate` (the fraud decision, on a
second pooled connection and in its own transaction), `Decline` or `Post` with COMMIT.
Uncommitted rows are told by a request's stage and locks. The posting is reduced to its two
answers, posted or refused; it is the one of `Ledger`. PostgreSQL's deadlock detector
(`DeadlockVictim`) and lost connections (`Crash`) end a request with a rollback that leaves the
fraud decision in place. `UpdateStatus` is the status update of accounts as one step; the
detail of it is in `Ledger`.

**Outbox** is the repository and the relay. A worker is one cron tick, of this or another
server; ticks overlap because the cron starts one every five seconds. `Claim` is one step:
`SKIP LOCKED` lets two claims pass each other, and a row passed over is left to a later tick.
`PublishFails` may leave the message with the broker (a lost confirm). `MarkMisses` is an
attempt that updates no row or throws. `Abandon` is a crash or a throwing query: rows stay
CLAIMED until `Age` and `Reclaim`.

**Payroll** is `createPayrollBatch` in two steps, `Ask` (the key is looked up and the lines
must add up to the header) and `Persist` (one transaction, in which the unique index on
employer and key decides between two calls that both found the key unknown), and
`processPayrollBatch` as the chain of transactions it is: `Check`, `Reserve` (the funding under
the batch's lock), `FundingFailed`, `Disburse` (an UPDATE by id alone), `Reread`, `Pay` for one
line under its lock, `PayoutFailed`, `Finalize`. The branch after `Check` uses the status read
at `Start`. `Reserve` and `Pay` each have an alternative in which the COMMIT succeeds and its
answer is lost.

**Loans** is the outer transaction around a payment. A process is one disbursement or
repayment: `Lock` (the loan `FOR UPDATE` and the checks), `Pay` (an earlier COMPLETED payment
of this very body is found, or a new one is made in this transaction, or the call throws and
all is undone), `SaveDisbursement` or `SaveRepayment` with COMMIT. The loan id is part of the
payment's body because `payDto.correlationId` carries it into the fingerprint; two loans
therefore never share a payment. `PayDirectly` is the same body sent to `POST /payments`, which
leaves a payment the loan endpoints find later. `SweepRead` is the unlocked read of the cron
job, `SweepLoan` one candidate's transaction, `Mature` the passing of a maturity date.

**Fx** is the life of a rate lock. `LockRate` creates it; `Begin` is a transfer's `FOR UPDATE`
of the lock with all its checks, `Settle` everything the transfer writes with COMMIT, `Fail`
any rollback. `SweepClaim` picks a batch with `SKIP LOCKED`, `SweepCommit` expires and
announces it. The check compares amounts as strings: `Column` is how `numeric(19,4)` gives an
amount back, so a transfer that writes "5" for a lock of "5" is refused. The clock is explicit.

**Fraud** is one evaluation per process. `Begin` starts the five rules: the one about the
amount returns at once, two read PostgreSQL (`DeviceRule`, `HourRule`), two use a window in
Redis in three calls (`Prune`, `Read`, `Add`). The calls of one evaluation go over one
connection in the order they are sent, so its two window rules alternate (`InTurn`); the calls
of two evaluations interleave freely. `RedisFails` is a refused call, the last one perhaps
after it was carried out; `Timeout` is the budget that wins the race and aborts what was not
sent, `Catastrophe` a database error that ends the engine but not the rules in flight: `GiveUp`
is their common five ERROR rows. Then `RegisterDevice` against `BumpFind` and `BumpSave`, of
which the first failure ends the wait and not the other; then `Persist`. `ResolveLock` and
`ResolveEnd` are an operator's transaction. Payments call fraud without a device or a
fingerprint (`buildFraudEvaluationContext`): in the code too, the device rule acts only on
evaluations asked for over HTTP. In `Payments` an evaluation is the one step that commits its
decision; that a decision always comes is `EveryEvaluationEnds` here.

**Sessions** is `AuthService` and `UsersService`: every repository call is a step, for none of
them is in a transaction. `Find`, `LoadUser`, `Revoke`, `Open` are a refresh; `ReadUser`,
`Taken`, `Diff`, `WriteUser` an update, whose `save` reads the row a second time and writes the
columns in which the entity in memory differs (`Merged` is a row with some columns changed).
`Fail` may end a request anywhere, and the answer of the last write may be lost. A raw token is
named by the request that opened its session. Refresh, logout and `updateUser`, like the
resolution of a risk decision, are methods of the services that no controller exposes yet.

Variables that exist for the properties only: `direct` (Loans), `announced` (Ledger), `answer`
(Payments; what the client saw), `delivered` and `reclaimed` (Outbox; `delivered` is the
broker), `attempts`, `missed` and `flawed` (Fraud; `flawed` has the evaluations of which a
window rule found too much or any rule ended in ERROR), `before` (Sessions), `prior` (Ledger;
the rows that had a posting's correlation id when it began).

## 3. Runs

| Run | Instance | What it shows |
|---|---|---|
| `ledger` | 2 requests, 3 transaction ids, 3 keys, 2 accounts, one with overdraft 2 | all safety properties of postings, reversals and freezes; no lock cycles |
| `ledger_stale_save` | the same with 2 transaction ids | violation: a freeze writes back an old balance |
| `payments` | 2 requests, 2 keys, 3 accounts (one missing), pool of 3 | safety, refinement of PaymentOnce, termination |
| `payments_duplicate` | the same | violation: the loser of an insert race is not answered |
| `outbox` | 2 ticks with batch sizes 1 and 2, 2 rows, 2 mark attempts | safety and settlement of every row |
| `outbox_lost` | the same with 1 row | violation: an event is never delivered |
| `payroll` | 2 calls; a batch of two lines, a second with the same key, a third whose lines do not add up | safety, and the end of funded batches |
| `payroll_revived` | the same | violation: a FAILED batch is revived |
| `loans` | 2 calls, 1 sweep, 3 payment keys, a loan of 2 units and a second loan applied for with the same key | safety, and the marking of matured loans |
| `fx` | 2 transfers, 2 sweeps, 3 locks (two expire at once), batch size 0 | safety, and the end of every lock |
| `fraud` | 2 evaluations (of 600 and of 20000) of one user, recipient and device at an unusual hour; windows of 0 and 1 ticks, thresholds of 1, 2 operators | safety, and the end of every evaluation |
| `sessions` | any 4 of 9 requests, 3 at once: 2 sign-ups, a login, 2 refreshes and a logout of one token, 3 updates of one user | safety of tokens, users and updates |

Why the bounds are enough to be interesting: two requests give every pairwise race, and no
property needs a third party to be violated in this code (locks are per row and each race is
between a reader and one writer). In `ledger` the two transfers together exceed the overdraft
limit, their reversals move money the other way (so lock order matters), keys are reused with
another body, and one body does not balance. In `payments` keys are reused with another body
and by a foreign caller, and the transfers run in opposite directions. A second reversal needs
three transactions: the original and two reversals. In `loans` two units make partial and full
repayments, the keys are shared between disbursement and repayments and between bodies.
`MCOutbox` needs two rows so that a batch has a rest to lose. Two payroll lines give mixed
verdicts; a third call gave no new behaviour but 20 times the states. In `fraud` a threshold of
one makes the second attempt too many, the window of length zero makes an attempt leave it by
one tick, and the two evaluations compete for both windows, one device and one hour bucket:
600 is over the limits of the device and hour rules, so it is APPROVED only after the other
brought the device and used the hour, and 20000 is a large transaction. In `sessions`
four requests are a sign-up, an ending of its token, and two that race with it or follow it.
The bounds are `TxIds` (postings of the ledger), `Horizon` (the clocks of `Fx` and `Fraud`),
`Parallel` (requests in flight in `Fraud` and `Sessions`), `Made` (requests ever made in
`Sessions`) and `Resolvers` (operators at one decision); nothing else is cut. Symmetry is used
in the ledger and session runs only, where no liveness is checked. The `ledger` run leaves the
variable `announced` out of a state's fingerprint: no guard reads it, and no property but its
own conjunct of `TypeOK`.

**Fairness.** `Payments`: strong fairness of each request's own queries: PostgreSQL's lock
queues and the connection pool are first in first out, so a request that can proceed again and
again does. A pool larger than the number of requests is part of the instance: each payment
needs a second connection for its fraud decision while it keeps the first; with `PoolSize` at
most the number of requests they can all wait (the mutant `SpareTwo` shows it). `Outbox`: weak
fairness of a tick's own steps, strong fairness where the broker or the database may refuse now
and then, and the assumption that a live worker settles its rows before their claims turn stale
(300 s by default) from some time on. `Payroll`: a call that has begun goes on, crashes stop
some day, and an operator calls again for a batch that is not over; no code resumes one.
`Loans`: a request goes on to its end, the cron runs every minute, a sweep gets a row lock in
its turn (strong fairness), and the sweeps' transactions do not fail for ever. `Fx`: time
passes, transfers end, the cron runs, and a sweep tried again and again commits some day
(strong fairness). `Horizon` bounds its clock, beyond the last expiry nothing depends on time;
the run ends when no lock is left, so deadlock is not checked there. `Fraud`: as long as a
request waits for its timer or for PostgreSQL, one of them answers some day (`Progress`); of
Redis nothing is asked, it may be silent for ever (the mutant `EffectsSettledBoth`, which waits
for both side effects whatever fails, never ends). `Sessions` states no
liveness: its requests are short chains that wait for nobody. The runs of `payroll`, `fraud`
and `sessions` come to an end when every request is over, so deadlock is not checked there
either.

## 4. Findings

Each is a violation run; `PROJECT.json` quotes the lines.

1. `updateAccountStatus` reads an account unlocked and saves the entity: balances posted in
   between are overwritten (`accounts.service.ts:140`). `DriftOnlyByStaleSave` shows in the
   passing run that nothing else parts a balance from its entries.
2. The loser of an insert race for an idempotency key cannot reload the winner: its transaction
   is aborted (`payment-orchestrator.service.ts:265`).
3. One failed publish marks an event FAILED for good (`outbox-processor.service.ts:72`).
4. `processPayrollBatch` sets DISBURSING without looking at the status: a FAILED batch comes
   back, unfunded and stuck (`payroll-orchestrator.service.ts:112`).

Worth knowing, without a run of their own:

- The sorted `FOR UPDATE` order of payment legs does not rule deadlocks out: the INSERT of the
  payment takes `FOR KEY SHARE` on both accounts through its foreign keys
  (`payment-orchestrator.service.ts:390`), and two payments over one account can each wait for
  the other's share. PostgreSQL then aborts one (`DeadlockVictim`); all of `Payments`'
  properties hold with such aborts.
- Two refreshes that overlap can each turn one token into a session, since finding and revoking
  it are two calls (`modules/auth/service/auth.service.ts`); `TokensEndForGood` says how far
  this goes.
- An update of a user that overlaps another may put its old columns back; `UpdatesStick` names
  exactly that exception.

## 5. Proofs

`tlapm` checks these for every value of the constants, under the named assumptions of the
modules (`AccountsAssumption`, `LedgerAssumption`, `PaymentsAssumption`, `OutboxAssumption`,
`PayrollAssumption`, `LoansAssumption`, `FxAssumption`, `FraudAssumption`,
`SessionsAssumption`), which TLC evaluates in the passing runs. They give the constants their
types; the sets of accounts, of a body's lines, of requests to `Sessions` and of evaluations are
finite.

- **LedgerProofs**, on texts of amounts: `FormatLosesNothing`, a balance that is formatted,
  padded by its column and parsed again is the same integer.
- **LedgerProofs**, on sums: the books are kept by `SumFunctionOnSet`, a fold that takes the
  elements in the order `CHOOSE` gives. Induction over sets is out of reach, so what is needed
  of it (`SumEquation`, `SumTakeOut`, `SumAlike`, `SumPlus`, `SumUnion`, `SumByAccount`,
  `SumNegated`) is proved by a smallest counterexample: the subsets for which a lemma fails
  have a minimal one (`SmallestSubset`, from the well-founded order of the library), and the
  fold's equation refutes it.
- **LedgerProofs**, on lines and bundles: a body's bundle is one the requests of `Ledger` may
  carry (`BodiesMakeBundles`), it passes the balance check exactly when its lines do
  (`LinesBalanceAsBundles`), and the reversal's lines are the mirror of the original
  (`ReversalIsMirror`). The model keeps bundles only; these three say that it loses nothing.
- **LedgerProofs**, on behaviours: `TypeOK`, `OverdraftFloor`, `RepeatsGetTheRow`,
  `ReversedAtMostOnce`, `OnlyActiveAccountsMove`, `DoubleEntry`, `NoDeadlock`,
  `DriftOnlyByStaleSave`. The overdraft check is made when an account is locked and used when
  the bundle is inserted, so `OverdraftFloor` alone is not inductive. `IInv` adds that locks
  exclude each other, that a locked row still satisfies its checks (`HeldAccepted`), that an
  insert holds every account it touches, and that the balance a status save may write back
  respected the limit when it was read (`ReadFloor`). The stale save of finding 1 therefore
  breaks the projection but never the floor. `RepeatsGetTheRow` needs that a correlation id has
one row at most (`CorrelationUnique`, which the unique index gives at once) and that an insert
takes an id no row has, so the row a posting began with stays the answer of its lookup.
`ReversedAtMostOnce` needs `TargetsPosted`.
  `DoubleEntry` needs that the bundle about to be inserted was balanced when it was checked
  (`CheckedBalanced`), that its currencies are those of its accounts (`HeldAccepted`), and that
  an insert adds one finite term per account. `NoDeadlock` needs `AscendingLocks`, what a
  posting holds sorts before what it waits for, and `TargetsLocked`, a transaction row is held
  only by a posting that waits for accounts: so in any set of waiting postings one waits for
  none of the others. `DriftOnlyByStaleSave` compares, step by step, what `Project` adds to a
  balance with what the inserted entry adds to the sum.
- **PaymentsProofs**: `TypeOK`, `TablesAgree`, `AnswersStayTrue`, `MovesOnlyWhenCleared`, and
  that `Payments` implements `PaymentOnce` (`DecidedOnce`): every step is one `Decide` of the
  abstract specification or leaves its variables alone. `IInv` says that a request behind its
  slot holds the key alone and no row of it is committed, that its legs stay ready while they
  are locked, and that a posting has an approval.
- **OutboxProofs**: `TypeOK`, `PublishedWasDelivered`, `SettledIsFinal`, and `OneWorkerPerRow`
  (two ticks hold one row only if it was reclaimed; it carries the induction and no run repeats
  it). `IInv` adds that a worker about to mark has its row's confirm, and that a row of a batch
  is PENDING again only if it was reclaimed. That a batch has an oldest row (`OldestRow`) is
  the well-foundedness of `<`.
- **PayrollProofs**: `TypeOK`, `MoneyMatchesRows`, `VerdictsAreTrue`, `FundedOncePerKey`,
  `SettledLinesStay`. `IInv` adds that the batch of a call exists or adds up and is about to,
  that a call behind `Reread` works from a funding, that a DRAFT batch has none, and that only
  batches that add up were created, from which the amounts in `VerdictsAreTrue` follow.
- **LoansProofs**: `TypeOK`, `MoneyMatchesLoans`, `OutstandingAddsUp`, `StatusMovesForward`.
  `IInv` adds that a call holds its loan's row, that what it checked there still holds when it
  saves, that it saves either its own uncommitted payment or a COMPLETED one of its body, that
  only a disbursed loan names a payment or has repayments. `OutstandingAddsUp` counts what was
  repaid as the cardinality of a set of units (`UnitsRepaid`), which a repayment that is not
  there yet enlarges by exactly its amount (`UnitsAdded`).
- **FxProofs**: `TypeOK`, `EndsOneWay`, and `EndIsFinal` (nothing changes a lock that has
  ended), which no run repeats. `IInv` adds that a lock is held by one transaction at most and
  that a held lock is still ACTIVE.
- **FraudProofs**: `TypeOK`, `ApprovedMeansClean`, `ProfileNeverForgets`, `DecisionsAnnounced`.
  `IInv` says what the races turn on: `Windows` (a prune takes only what has left the window by
  the clock, so a later read misses nothing it must count), `Verdicts` (what a rule found is in
  the verdict once nobody waits for the rule any more, and an ERROR at once), `Effects` (a
  known device was brought by an evaluation that was through with its rules), `Profile` (the
  count a bump is about to save was counted), `Told` and `Held` (a decision is written at the
  end, and resolved by one operator).
- **SessionsProofs**: `TypeOK`, `TokensEndForGood`, `UpdatesStick`. Nothing is locked from one
  call to the next, so `IInv` speaks of what a request carries from row to row. For tokens: an
  answered logout or refresh leaves a dead token (`DeadToken`), and a refresh that began after
  one never gets past `Find` (`ComesTooLate`). For updates: what an answered update wrote is in
  the user's row (`AnsweredHolds`), in the columns an overlapping update may write back
  (`EntityHolds`), and among what an update will not write (`WriteHolds`), unless another
  update excuses it in the sense of the property (`Excused`, which once true stays true); and
  a login or refresh that is about to open a session relied on a row that agreed
  (`WillOpenBound`).

Every inductive invariant was evaluated by TLC on its run before it was proved.

Only model-checked: everything under fairness (`EveryRequestEnds`, `EveryRowSettles`,
`FundedBatchEnds`, `MaturedLoanIsMarked`, `EveryLockEnds`, `EveryEvaluationEnds`), for liveness
and ENABLED are out of this prover's reach. Every invariant and every action property of a
passing run is a theorem.

## 6. Not modelled

- The HTTP surface (controllers, DTOs, query handlers), guards, filters, the thin clients of
  PostgreSQL, Redis and RabbitMQ, the hit counter and the start-up: they keep no state of this
  system. Which requests can arrive, and which amounts, is taken from the DTOs.
- Access tokens: signed and verified without any state. Hashing and signing are library calls.
- The multiplication by an FX rate and the four settlement lines of a transfer: its posting is
  settled or refused. The provider stub.
- Memos, payload texts, logging; read-only reports and lists.
- The composition of `Payments` (and payroll, FX) with `Ledger`: a posting made inside their
  transactions is one step with two answers. In the code it uses the account locks that the
  payment already holds, and its lookup, insert and unique index are those of `Ledger`.
- The answer of a posting that overlaps the winner of its correlation id: after 23505 on the
  header the handler reloads the row inside the aborted transaction (`posting.service.ts:121`),
  so it fails, and `Ledger` has it roll back. Only such requests meet it (`RepeatsGetTheRow`);
  finding 2 is the same defect where a client sees it, in `Payments`.
- A posting by someone else that takes a `pr:` correlation id before payroll does.
- In `Fraud`, a device or a bump that was committed though its answer was lost: "registered"
  and "saved" mean committed, and the wait for them ends either way.
- More than one Redis connection per server, and skew between the clocks of two servers:
  `Fraud` has one clock, and so has `Fx`.

## 7. Plan

Done: Postings, Decimals, Ledger, PaymentOnce, Payments, Outbox, Payroll, Loans, Fx, Fraud and
Sessions, each with its proofs.

Left, in this order:

1. Lemmas a reader of the fairness arguments would want proved: that each step of a request or
   tick brings it nearer its end (a measure per component), so that only fairness itself is left
   to the runs.
2. A composition of `Payments` and `Ledger` over the account locks they share, with the answers
   that postings, loans and transfers give to retries.
3. The amounts of a transfer: the rate, its rounding and the four settlement lines.
