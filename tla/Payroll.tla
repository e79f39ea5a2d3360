------------------------------ MODULE Payroll ------------------------------
(***************************************************************************)
(* Payroll batches: one funding posting employer -> clearing, then one     *)
(* posting clearing -> employee for each line (PayrollOrchestratorService, *)
(* PayrollService).                                                        *)
(*                                                                         *)
(* A process is one call of createPayrollBatch or processPayrollBatch.     *)
(* Unlike a payment, processing is not one transaction but a chain of      *)
(* them, with unlocked reads between; each transaction that locks the row  *)
(* it decides about is one step.  The ledger posting is the one of module  *)
(* Ledger, reduced to its two answers.                                     *)
(***************************************************************************)
EXTENDS Naturals, FiniteSets, FiniteSetsExt

CONSTANTS
    Batches,   \* ids of `payroll_batches` rows
    KeyOf,     \* (employer_account_id, idempotency_key) of each batch
    Lines,     \* ids of `payroll_items` rows
    BatchOf,   \* payroll_items.batch_id
    Total,     \* payroll_batches.total_amount, scaled by 10^4
    Amount,    \* payroll_items.amount, scaled by 10^4
    Procs,     \* calls in flight at the same time
    None

ASSUME PayrollAssumption ==
    /\ BatchOf \in [Lines -> Batches]
    /\ \A b \in Batches : b \in DOMAIN KeyOf
    /\ Total \in [Batches -> Nat] /\ Amount \in [Lines -> Nat]
    /\ None \notin Batches \cup Lines

VARIABLES
    batch,    \* payroll_batches.status
    line,     \* payroll_items.status
    reserved, \* batches with a POSTED funding reservation
    funded,   \* batches with a ledger transaction `pr:f:{batch}`
    paid,     \* lines with a ledger transaction `pr:i:{line}`
    events,   \* payroll rows of `outbox_events`: [event, of]
    pc,       \* next transaction or read of each process
    job,      \* the batch it processes
    seen,     \* status of that batch when the call began
    todo,     \* lines it read as PENDING and has not come to
    current   \* the line whose payout failed

rows == <<batch, line, reserved, funded, paid, events>>

vars == <<rows, pc, job, seen, todo, current>>

-----------------------------------------------------------------------------

BatchStatus == {"NONE", "DRAFT", "FUNDING_RESERVED", "DISBURSING", "COMPLETED", "FAILED"}

BatchEvents == {"payroll.batch.created", "payroll.batch.funded",
                "payroll.batch.completed", "payroll.batch.failed"}

Events == [event : BatchEvents, of : Batches]
              \cup [event : {"payroll.item.completed"}, of : Lines]

Stages == {"idle", "create", "check", "reserve", "fundfail", "disburse", "reread",
           "pay", "payfail", "finalize"}

LinesOf(b) == {i \in Lines : BatchOf[i] = b}

PendingLines(b) == {i \in LinesOf(b) : line[i] = "PENDING"}

Over == {"COMPLETED", "FAILED"}

\* Shapes; a process works on lines of its own batch only.
TypeOK ==
    /\ batch \in [Batches -> BatchStatus]
    /\ line \in [Lines -> {"PENDING", "COMPLETED", "FAILED"}]
    /\ reserved \in SUBSET Batches
    /\ funded \in SUBSET Batches
    /\ paid \in SUBSET Lines
    /\ events \in SUBSET Events
    /\ pc \in [Procs -> Stages]
    /\ job \in [Procs -> Batches \cup {None}]
    /\ seen \in [Procs -> BatchStatus]
    /\ todo \in [Procs -> SUBSET Lines]
    /\ current \in [Procs -> Lines \cup {None}]
    /\ \A p \in Procs :
          /\ pc[p] # "idle" => job[p] \in Batches
          /\ pc[p] = "payfail" => current[p] \in Lines
          /\ \A i \in todo[p] : BatchOf[i] = job[p]

Init ==
    /\ batch = [b \in Batches |-> "NONE"]
    /\ line = [i \in Lines |-> "PENDING"]
    /\ reserved = {}
    /\ funded = {}
    /\ paid = {}
    /\ events = {}
    /\ pc = [p \in Procs |-> "idle"]
    /\ job = [p \in Procs |-> None]
    /\ seen = [p \in Procs |-> "NONE"]
    /\ todo = [p \in Procs |-> {}]
    /\ current = [p \in Procs |-> None]

-----------------------------------------------------------------------------

Emit(event, id) == events' = events \cup {[event |-> event, of |-> id]}

\* The process goes on with another transaction of its call.
GoTo(p, stage) ==
    /\ pc' = [pc EXCEPT ![p] = stage]
    /\ UNCHANGED <<job, seen>>

\* The call returns or throws.
Return(p) ==
    /\ pc' = [pc EXCEPT ![p] = "idle"]
    /\ job' = [job EXCEPT ![p] = None]
    /\ seen' = [seen EXCEPT ![p] = "NONE"]
    /\ todo' = [todo EXCEPT ![p] = {}]
    /\ current' = [current EXCEPT ![p] = None]

-----------------------------------------------------------------------------
(* createPayrollBatch *)

KeyTaken(b) == \E c \in Batches : KeyOf[c] = KeyOf[b] /\ batch[c] # "NONE"

AmountOf(I) == MapThenSumSet(LAMBDA i : Amount[i], I)

\* The lines add up to the header.
AddsUp(b) == AmountOf(LinesOf(b)) = Total[b]

\* assertCreateBatchValid.  An account that is missing, not ACTIVE or in another
\* currency refuses the call too, which then is not one of these.
IsValid(b) == LinesOf(b) # {} /\ AddsUp(b)

\* The key is looked up and the request validated, without a lock or a
\* transaction.  A key that is known answers the call with its batch.
Ask(p, b) ==
    /\ pc[p] = "idle"
    /\ ~KeyTaken(b)
    /\ IsValid(b)
    /\ pc' = [pc EXCEPT ![p] = "create"]
    /\ job' = [job EXCEPT ![p] = b]
    /\ UNCHANGED <<rows, seen, todo, current>>

\* Mutant: there is no unique index on employer and key.
RejectedNever(b) == batch[b] # "NONE"

\* The unique index decides between two calls that both found the key unknown.
Rejected(b) == KeyTaken(b)

\* persistNewBatchWithItems: header, lines and event in one transaction, which
\* may also fail.
Persist(p) ==
    LET b == job[p]
    IN /\ pc[p] = "create"
       /\ \/ /\ ~Rejected(b)
             /\ batch' = [batch EXCEPT ![b] = "DRAFT"]
             /\ Emit("payroll.batch.created", b)
          \/ UNCHANGED <<batch, events>>
       /\ Return(p)
       /\ UNCHANGED <<line, reserved, funded, paid>>

-----------------------------------------------------------------------------
(* processPayrollBatch *)

\* The batch is read without a lock.  COMPLETED is answered and FAILED refused
\* at once, which changes nothing.
Start(p, b) ==
    /\ pc[p] = "idle"
    /\ batch[b] \notin Over \cup {"NONE"}
    /\ pc' = [pc EXCEPT ![p] = "check"]
    /\ job' = [job EXCEPT ![p] = b]
    /\ seen' = [seen EXCEPT ![p] = batch[b]]
    /\ UNCHANGED <<rows, todo, current>>

\* The reservation and the lines are read, and the branch on the status that was
\* read before is checked against them.
AfterCheck(p) ==
    LET b == job[p]
    IN CASE seen[p] = "DRAFT" /\ IsValid(b) /\ PendingLines(b) = LinesOf(b) -> "reserve"
         [] seen[p] = "FUNDING_RESERVED" /\ b \in reserved -> "disburse"
         [] seen[p] = "DISBURSING" /\ b \in reserved /\ LinesOf(b) # {} -> "reread"
         [] OTHER -> "idle"

Check(p) ==
    /\ pc[p] = "check"
    /\ IF AfterCheck(p) = "idle" THEN Return(p)
       ELSE GoTo(p, AfterCheck(p)) /\ UNCHANGED <<todo, current>>
    /\ UNCHANGED rows

\* Mutant: the batch is not read again under its lock.
StillDraftAsSeen(p) == seen[p] = "DRAFT"

StillDraft(p) == batch[job[p]] = "DRAFT"

\* reserveEmployerFunds, one transaction under the batch's row lock.  When the
\* answer to its COMMIT is lost the caller takes it for a failure.
Reserve(p) ==
    LET b == job[p]
    IN /\ pc[p] = "reserve"
       /\ \/ /\ ~StillDraft(p)
             /\ GoTo(p, "disburse")
             /\ UNCHANGED rows
          \/ /\ StillDraft(p)
             /\ funded' = funded \cup {b}
             /\ reserved' = reserved \cup {b}
             /\ batch' = [batch EXCEPT ![b] = "FUNDING_RESERVED"]
             /\ Emit("payroll.batch.funded", b)
             /\ \E stage \in {"disburse", "fundfail"} : GoTo(p, stage)
             /\ UNCHANGED <<line, paid>>
          \/ /\ StillDraft(p)
             /\ GoTo(p, "fundfail")
             /\ UNCHANGED rows
       /\ UNCHANGED <<todo, current>>

MayFailFunding(b) == batch[b] = "DRAFT"

\* markBatchFundingFailed, then the error is thrown again.
FundingFailed(p) ==
    LET b == job[p]
    IN /\ pc[p] = "fundfail"
       /\ IF MayFailFunding(b)
          THEN /\ batch' = [batch EXCEPT ![b] = "FAILED"]
               /\ Emit("payroll.batch.failed", b)
          ELSE UNCHANGED <<batch, events>>
       /\ Return(p)
       /\ UNCHANGED <<line, reserved, funded, paid>>

\* updateBatchStatus: an UPDATE by id, whatever the status is by now.
Disburse(p) ==
    /\ pc[p] = "disburse"
    /\ batch' = [batch EXCEPT ![job[p]] = "DISBURSING"]
    /\ GoTo(p, "reread")
    /\ UNCHANGED <<line, reserved, funded, paid, events, todo, current>>

AfterLines(T) == IF T = {} THEN "finalize" ELSE "pay"

\* Mutant: the payouts do not ask for the funding.
HasFundsAlways(b) == TRUE

HasFunds(b) == b \in reserved

\* Mutant: the lines are read without asking for the batch.
ToPayOfAll(b) == {i \in Lines : line[i] = "PENDING"}

ToPay(b) == PendingLines(b)

\* Reservation, batch and lines are read again: the lines to pay are fixed here.
Reread(p) ==
    LET b == job[p]
    IN /\ pc[p] = "reread"
       /\ IF HasFunds(b)
          THEN /\ todo' = [todo EXCEPT ![p] = ToPay(b)]
               /\ GoTo(p, AfterLines(ToPay(b)))
               /\ UNCHANGED current
          ELSE Return(p)
       /\ UNCHANGED rows

\* Mutant: the line is not read again under its lock.
StillPendingAlways(i) == TRUE

StillPending(i) == line[i] = "PENDING"

\* The payout of one line, one transaction under the line's row lock.  All lines
\* have one created_at, so their order is arbitrary.
Pay(p, i) ==
    LET next == AfterLines(todo[p] \ {i})
    IN /\ pc[p] = "pay"
       /\ i \in todo[p]
       /\ todo' = [todo EXCEPT ![p] = @ \ {i}]
       /\ \/ /\ ~StillPending(i)
             /\ GoTo(p, next)
             /\ UNCHANGED <<rows, current>>
          \/ /\ StillPending(i)
             /\ paid' = paid \cup {i}
             /\ line' = [line EXCEPT ![i] = "COMPLETED"]
             /\ Emit("payroll.item.completed", i)
             /\ \/ GoTo(p, next) /\ UNCHANGED current
                \/ GoTo(p, "payfail") /\ current' = [current EXCEPT ![p] = i]
             /\ UNCHANGED <<batch, reserved, funded>>
          \/ /\ StillPending(i)
             /\ GoTo(p, "payfail")
             /\ current' = [current EXCEPT ![p] = i]
             /\ UNCHANGED rows

FailedLine(i) == IF line[i] = "PENDING" THEN [line EXCEPT ![i] = "FAILED"] ELSE line

\* markItemPayoutFailed, a transaction of its own; the loop goes on.
PayoutFailed(p) ==
    /\ pc[p] = "payfail"
    /\ line' = FailedLine(current[p])
    /\ current' = [current EXCEPT ![p] = None]
    /\ GoTo(p, AfterLines(todo[p]))
    /\ UNCHANGED <<batch, reserved, funded, paid, events, todo>>

\* Mutant: a failed line holds the verdict back.
MayConcludePaid(b) ==
    batch[b] = "DISBURSING" /\ \A i \in LinesOf(b) : line[i] = "COMPLETED"

MayConclude(b) == batch[b] = "DISBURSING" /\ PendingLines(b) = {}

Verdict(b) == IF \E i \in LinesOf(b) : line[i] = "FAILED" THEN "FAILED" ELSE "COMPLETED"

VerdictEvent(b) ==
    IF Verdict(b) = "FAILED" THEN "payroll.batch.failed" ELSE "payroll.batch.completed"

\* finalizePayrollBatchAfterDisbursement, under the batch's row lock.
Finalize(p) ==
    LET b == job[p]
    IN /\ pc[p] = "finalize"
       /\ IF MayConclude(b)
          THEN /\ batch' = [batch EXCEPT ![b] = Verdict(b)]
               /\ Emit(VerdictEvent(b), b)
          ELSE UNCHANGED <<batch, events>>
       /\ Return(p)
       /\ UNCHANGED <<line, reserved, funded, paid>>

\* The server dies, or a query outside the caught transactions throws.
Crash(p) == pc[p] # "idle" /\ Return(p) /\ UNCHANGED rows

-----------------------------------------------------------------------------

\* What a call does by itself once it has begun.
Work(p) ==
    \/ Persist(p)
    \/ Check(p)
    \/ Reserve(p)
    \/ FundingFailed(p)
    \/ Disburse(p)
    \/ Reread(p)
    \/ \E i \in Lines : Pay(p, i)
    \/ PayoutFailed(p)
    \/ Finalize(p)

Next ==
    \E p \in Procs :
        \/ \E b \in Batches : Ask(p, b)
        \/ \E b \in Batches : Start(p, b)
        \/ Work(p)
        \/ Crash(p)

Spec == Init /\ [][Next]_vars

\* A call that has begun goes on; an operator calls again for a batch that is not
\* over, for nothing else resumes one; and servers do not crash for ever.
Fairness ==
    /\ \A p \in Procs : WF_vars(Work(p))
    /\ \A b \in Batches : SF_vars(\E p \in Procs : Start(p, b))
    /\ <>[][\A p \in Procs : Crash(p) => Work(p)]_vars

FairSpec == Spec /\ Fairness

-----------------------------------------------------------------------------
(* Properties *)

\* Rows and money agree at every commit, also after a crash or a lost COMMIT: a
\* line is COMPLETED, announced and has a ledger transaction, or none of these;
\* so for a batch and its funding; and no line is paid from an unfunded batch.
MoneyMatchesRows ==
    /\ reserved = funded
    /\ funded = {b \in Batches : [event |-> "payroll.batch.funded", of |-> b] \in events}
    /\ paid = {i \in Lines : line[i] = "COMPLETED"}
    /\ paid = {i \in Lines : [event |-> "payroll.item.completed", of |-> i] \in events}
    /\ \A i \in paid : BatchOf[i] \in funded

\* A line that was paid is not marked failed by a slower call, nor one that failed
\* paid ("rerunning process can continue remaining lines", and those only).
SettledLinesStay ==
    [][\A i \in Lines : line[i] # "PENDING" => line'[i] = line[i]]_vars

\* What was announced of a batch is true and stays true, although batches are
\* finalized by several calls: completed means all lines are paid, to the last unit
\* of what the employer was debited; failed means nothing was funded, or every line
\* is settled and one of them failed.
VerdictsAreTrue ==
    \A b \in Batches :
        /\ [event |-> "payroll.batch.completed", of |-> b] \in events =>
              /\ b \in funded /\ LinesOf(b) \subseteq paid
              /\ AmountOf(LinesOf(b) \cap paid) = Total[b]
        /\ [event |-> "payroll.batch.failed", of |-> b] \in events =>
              IF b \in funded
              THEN PendingLines(b) = {} /\ ~(LinesOf(b) \subseteq paid)
              ELSE batch[b] # "DRAFT"

\* An employer's idempotency key is debited for one batch at most.
FundedOncePerKey == \A b, c \in funded : KeyOf[b] = KeyOf[c] => b = c

\* Called again often enough, a funded batch ends, and ends again if an old call
\* puts it back to DISBURSING.
FundedBatchEnds == \A b \in Batches : b \in funded ~> batch[b] \in Over

\* "Terminal failure before disbursement" (markBatchFundingFailed): a batch that
\* is FAILED stays FAILED.
FailureIsTerminal ==
    [][\A b \in Batches : batch[b] = "FAILED" => batch'[b] = "FAILED"]_vars
=============================================================================
