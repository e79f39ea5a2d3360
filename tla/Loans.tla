------------------------------- MODULE Loans -------------------------------
(***************************************************************************)
(* Loans: application, disbursement, repayment and the overdue sweep       *)
(* (LoanOrchestrationService, LoanOverdueService).                         *)
(*                                                                         *)
(* A process is one disbursement or repayment being served: it locks the   *)
(* loan, submits a payment inside its own transaction and commits loan and *)
(* payment together.  The payment is the one of module Payments, reduced   *)
(* to what its caller sees of it.  A sweeper is one run of the cron job.   *)
(***************************************************************************)
EXTENDS Naturals, FiniteSets

CONSTANTS
    LoanIds,
    ApplyKeyOf, \* (apply_idempotency_key, scope) of each loan
    Principal,  \* loans.principal_amount; both accounts of a loan are given
    Keys,       \* payment idempotency keys
    Requests,   \* what clients send: [kind, loan, key, amount]
    Procs,      \* disbursements and repayments in flight at the same time
    Sweepers,   \* runs of the sweep in flight at the same time
    None

Kinds == {"disburse", "repay"}

ASSUME LoansAssumption ==
    /\ Principal \in [LoanIds -> Nat \ {0}]
    /\ Requests \subseteq [kind : Kinds, loan : LoanIds, key : Keys, amount : Nat \ {0}]
    /\ \A r \in Requests : r.kind = "disburse" => r.amount = Principal[r.loan]
    /\ None \notin Keys \cup Procs

VARIABLES
    loan,       \* rows of `loans`: [status, outstanding, paidBy]
    matured,    \* loans whose maturity date has passed
    payments,   \* rows of `payments` of loans, by key: [body, status]
    direct,     \* history: keys whose payment came by POST /payments instead
    repayments, \* rows of `loan_repayments`: [loan, key, amount]
    overdue,    \* loans with a `loan.overdue` outbox row
    holder,     \* process that holds a loan row FOR UPDATE
    pc,         \* next step of each process
    req,        \* request it serves
    fresh,      \* its transaction has made the payment, and not found it
    todo        \* candidates a sweeper has not come to

loanRows == <<loan, matured, payments, direct, repayments, overdue>>

vars == <<loanRows, holder, pc, req, fresh, todo>>

-----------------------------------------------------------------------------

LoanStatus == {"NONE", "APPROVED", "ACTIVE", "OVERDUE", "CLOSED"}

LoanRow == [status : LoanStatus, outstanding : Nat, paidBy : Keys \cup {None}]

Repayment == [loan : LoanIds, key : Keys, amount : Nat \ {0}]

PaymentBody == [kind : Kinds, loan : LoanIds, amount : Nat \ {0}]

\* Shapes; no outstanding principal is negative.
TypeOK ==
    /\ loan \in [LoanIds -> LoanRow]
    /\ matured \in SUBSET LoanIds
    /\ DOMAIN payments \in SUBSET Keys
    /\ \A k \in DOMAIN payments :
          payments[k] \in [body : PaymentBody, status : {"COMPLETED", "FAILED"}]
    /\ direct \in SUBSET DOMAIN payments
    /\ repayments \in SUBSET Repayment
    /\ overdue \in SUBSET LoanIds
    /\ holder \in [LoanIds -> Procs \cup {None}]
    /\ pc \in [Procs -> {"idle", "pay", "save"}]
    /\ DOMAIN req = Procs
    /\ \A p \in Procs : pc[p] # "idle" => req[p] \in Requests
    /\ fresh \in [Procs -> BOOLEAN]
    /\ todo \in [Sweepers -> SUBSET LoanIds]

Init ==
    /\ loan = [l \in LoanIds |-> [status |-> "NONE", outstanding |-> 0, paidBy |-> None]]
    /\ matured = {}
    /\ payments = [k \in {} |-> None]
    /\ direct = {}
    /\ repayments = {}
    /\ overdue = {}
    /\ holder = [l \in LoanIds |-> None]
    /\ pc = [p \in Procs |-> "idle"]
    /\ req = [p \in Procs |-> None]
    /\ fresh = [p \in Procs |-> FALSE]
    /\ todo = [w \in Sweepers |-> {}]

-----------------------------------------------------------------------------
(* Application, time, and payments made past the loan endpoints *)

\* applyForLoan approves at once; the key's unique index decides a race.
Apply(l) ==
    /\ loan[l].status = "NONE"
    /\ \A m \in LoanIds : ApplyKeyOf[m] = ApplyKeyOf[l] => loan[m].status = "NONE"
    /\ loan' = [loan EXCEPT ![l].status = "APPROVED"]
    /\ UNCHANGED <<matured, payments, direct, repayments, overdue, holder, pc, req, fresh, todo>>

\* The maturity date passes.
Mature(l) ==
    /\ loan[l].status # "NONE"
    /\ l \notin matured
    /\ matured' = matured \cup {l}
    /\ UNCHANGED <<loan, payments, direct, repayments, overdue, holder, pc, req, fresh, todo>>

BodyOf(r) == [kind |-> r.kind, loan |-> r.loan, amount |-> r.amount]

\* A transaction that has reached its payment holds the key's idempotency row.
SlotFree(k) == \A q \in Procs : pc[q] = "save" => req[q].key # k

Paid(k, body, out) ==
    [i \in DOMAIN payments \cup {k} |->
        IF i = k THEN [body |-> body, status |-> out] ELSE payments[i]]

\* The same body sent to POST /payments under the same key: a payment that the
\* loan endpoints may find later.
PayDirectly(r, out) ==
    /\ loan[r.loan].status # "NONE"
    /\ r.key \notin DOMAIN payments
    /\ SlotFree(r.key)
    /\ payments' = Paid(r.key, BodyOf(r), out)
    /\ direct' = direct \cup {r.key}
    /\ UNCHANGED <<loan, matured, repayments, overdue, holder, pc, req, fresh, todo>>

-----------------------------------------------------------------------------
(* disburseApprovedToWallet and repayFromWallet *)

MayDisburse(r) == loan[r.loan].status = "APPROVED"

\* Mutant: the amount is not compared with the outstanding principal.
MayRepayAnyAmount(r) == loan[r.loan].status \in {"ACTIVE", "OVERDUE"}

MayRepay(r) ==
    /\ loan[r.loan].status \in {"ACTIVE", "OVERDUE"}
    /\ loan[r.loan].outstanding >= r.amount

MayServe(r) == IF r.kind = "disburse" THEN MayDisburse(r) ELSE MayRepay(r)

\* lockLoanById and the checks.  A request that fails them, or a disbursement of
\* a loan already disbursed, ends here and changes nothing.
Lock(p, r) ==
    /\ pc[p] = "idle"
    /\ holder[r.loan] = None
    /\ MayServe(r)
    /\ holder' = [holder EXCEPT ![r.loan] = p]
    /\ pc' = [pc EXCEPT ![p] = "pay"]
    /\ req' = [req EXCEPT ![p] = r]
    /\ UNCHANGED <<loanRows, fresh, todo>>

\* COMMIT or ROLLBACK: the loan's row lock goes.
End(p) ==
    /\ pc' = [pc EXCEPT ![p] = "idle"]
    /\ req' = [req EXCEPT ![p] = None]
    /\ fresh' = [fresh EXCEPT ![p] = FALSE]
    /\ holder' = [holder EXCEPT ![req[p].loan] = None]
    /\ UNCHANGED todo

Rollback(p) == End(p) /\ UNCHANGED loanRows

\* Mutant: the payment's status is not asked for.
ReplaysAny(p) ==
    /\ req[p].key \in DOMAIN payments
    /\ payments[req[p].key].body = BodyOf(req[p])

\* The key has a payment for this very body, and it is COMPLETED.
Replays(p) ==
    /\ req[p].key \in DOMAIN payments
    /\ payments[req[p].key] = [body |-> BodyOf(req[p]), status |-> "COMPLETED"]

\* submitPaymentWithSharedManager: an earlier payment is found, or a new one is
\* made; another body, a decline or a refused posting throws and undoes all.
\* The loser of an insert race for the key ends in an SQL error: see Crash.
Pay(p) ==
    /\ pc[p] = "pay"
    /\ SlotFree(req[p].key)
    /\ \/ /\ Replays(p)
          /\ pc' = [pc EXCEPT ![p] = "save"]
          /\ UNCHANGED <<loanRows, holder, req, fresh, todo>>
       \/ /\ req[p].key \notin DOMAIN payments
          /\ pc' = [pc EXCEPT ![p] = "save"]
          /\ fresh' = [fresh EXCEPT ![p] = TRUE]
          /\ UNCHANGED <<loanRows, holder, req, todo>>
       \/ ~Replays(p) /\ Rollback(p)

\* The payment, new or not, that the COMMIT leaves behind.
PaymentsAfter(p) ==
    IF fresh[p] THEN Paid(req[p].key, BodyOf(req[p]), "COMPLETED") ELSE payments

SaveDisbursement(p) ==
    LET r == req[p]
    IN /\ pc[p] = "save" /\ r.kind = "disburse"
       /\ loan' = [loan EXCEPT ![r.loan] =
                      [status |-> "ACTIVE", outstanding |-> r.amount, paidBy |-> r.key]]
       /\ payments' = PaymentsAfter(p)
       /\ End(p)
       /\ UNCHANGED <<matured, direct, repayments, overdue>>

\* Mutant: a repayment is not looked up by its payment.
CountedNever(r) == FALSE

\* dupeRepay: this payment already counts against this loan.
Counted(r) == \E x \in repayments : x.loan = r.loan /\ x.key = r.key

\* Outstanding principal, status and repayment row; when the payment counts
\* already the loan is answered as it is.
SaveRepayment(p) ==
    LET r == req[p]
        left == loan[r.loan].outstanding - r.amount
    IN /\ pc[p] = "save" /\ r.kind = "repay"
       /\ IF Counted(r) THEN UNCHANGED <<loan, repayments>>
          ELSE /\ loan' = [loan EXCEPT
                              ![r.loan].outstanding = left,
                              ![r.loan].status = IF left = 0 THEN "CLOSED" ELSE @]
               /\ repayments' = repayments \cup
                     {[loan |-> r.loan, key |-> r.key, amount |-> r.amount]}
       /\ payments' = PaymentsAfter(p)
       /\ End(p)
       /\ UNCHANGED <<matured, direct, overdue>>

\* The server dies or a query fails: loan and payment are rolled back.
Crash(p) == pc[p] # "idle" /\ Rollback(p)

-----------------------------------------------------------------------------
(* sweepOverdueLoans *)

\* Mutant: the dates are compared the wrong way round.
CandidatesNotMatured == {l \in LoanIds : loan[l].status = "ACTIVE" /\ l \notin matured}

Candidates == {l \in LoanIds : loan[l].status = "ACTIVE" /\ l \in matured}

\* findActiveLoansPastMaturity, without a lock.
SweepRead(w) ==
    /\ todo[w] = {}
    /\ todo' = [todo EXCEPT ![w] = Candidates]
    /\ UNCHANGED <<loanRows, holder, pc, req, fresh>>

\* Mutant: the candidate is not checked again under its lock.
StillOverdueAsRead(l) == TRUE

StillOverdue(l) == loan[l].status = "ACTIVE" /\ l \in matured

\* One candidate: lock, check again, mark, announce, COMMIT.
SweepLoan(w, l) ==
    /\ l \in todo[w]
    /\ holder[l] = None
    /\ todo' = [todo EXCEPT ![w] = @ \ {l}]
    /\ IF StillOverdue(l)
       THEN /\ loan' = [loan EXCEPT ![l].status = "OVERDUE"]
            /\ overdue' = overdue \cup {l}
       ELSE UNCHANGED <<loan, overdue>>
    /\ UNCHANGED <<matured, payments, direct, repayments, holder, pc, req, fresh>>

\* One candidate's transaction fails, or the server dies and the rest is lost.
SweepFails(w) ==
    /\ todo[w] # {}
    /\ \E l \in todo[w] : todo' \in {[todo EXCEPT ![w] = @ \ {l}], [todo EXCEPT ![w] = {}]}
    /\ UNCHANGED <<loanRows, holder, pc, req, fresh>>

-----------------------------------------------------------------------------

Serve(p) == Pay(p) \/ SaveDisbursement(p) \/ SaveRepayment(p)

Next ==
    \/ \E l \in LoanIds : Apply(l) \/ Mature(l)
    \/ \E r \in Requests, out \in {"COMPLETED", "FAILED"} : PayDirectly(r, out)
    \/ \E p \in Procs :
          \/ \E r \in Requests : Lock(p, r)
          \/ Serve(p)
          \/ Crash(p)
    \/ \E w \in Sweepers :
          \/ SweepRead(w)
          \/ \E l \in LoanIds : SweepLoan(w, l)
          \/ SweepFails(w)

Spec == Init /\ [][Next]_vars

\* A request goes on to its end; the cron runs; row locks are given in the order
\* they were asked for; and sweeps do not fail for ever.
Fairness ==
    /\ \A p \in Procs : WF_vars(Serve(p))
    /\ \A w \in Sweepers : WF_vars(SweepRead(w))
    /\ \A w \in Sweepers, l \in LoanIds : SF_vars(SweepLoan(w, l))
    /\ <>[][\A w \in Sweepers : ~SweepFails(w)]_vars

FairSpec == Spec /\ Fairness

-----------------------------------------------------------------------------
(* Properties *)

\* The units of money repaid of a loan, told apart by their repayment.
UnitsRepaid(l) == UNION {{x} \X (1..x.amount) : x \in {y \in repayments : y.loan = l}}

\* What was repaid and what is outstanding make up the principal, whatever was
\* repeated or rolled back, and a loan is CLOSED exactly when nothing is left.
OutstandingAddsUp ==
    \A l \in LoanIds : loan[l].paidBy # None =>
        /\ loan[l].outstanding + Cardinality(UnitsRepaid(l)) = Principal[l]
        /\ loan[l].status = "CLOSED" <=> loan[l].outstanding = 0

\* Loans and money agree: a disbursed loan and a counted repayment have a
\* COMPLETED payment of their own, and no payment a loan endpoint made is lost.
MoneyMatchesLoans ==
    /\ \A l \in LoanIds : loan[l].paidBy # None =>
          /\ loan[l].paidBy \in DOMAIN payments
          /\ payments[loan[l].paidBy] =
                [body |-> [kind |-> "disburse", loan |-> l, amount |-> Principal[l]],
                 status |-> "COMPLETED"]
    /\ \A x \in repayments :
          /\ x.key \in DOMAIN payments
          /\ payments[x.key] =
                [body |-> [kind |-> "repay", loan |-> x.loan, amount |-> x.amount],
                 status |-> "COMPLETED"]
    /\ \A k \in DOMAIN payments \ direct :
          LET b == payments[k].body
          IN IF b.kind = "disburse" THEN loan[b.loan].paidBy = k
             ELSE [loan |-> b.loan, key |-> k, amount |-> b.amount] \in repayments

Rank(status) ==
    CASE status = "NONE" -> 0
      [] status = "APPROVED" -> 1
      [] status = "ACTIVE" -> 2
      [] status = "OVERDUE" -> 3
      [] status = "CLOSED" -> 4

\* A loan's status never goes back: a sweep that read it ACTIVE cannot make a
\* CLOSED loan OVERDUE, nor a late disbursement an OVERDUE one ACTIVE.
StatusMovesForward ==
    [][\A l \in LoanIds : Rank(loan'[l].status) >= Rank(loan[l].status)]_vars

\* "Marks ACTIVE loans past maturityDate as OVERDUE": none stays ACTIVE for ever,
\* however busy its row is.
MaturedLoanIsMarked ==
    \A l \in LoanIds : loan[l].status = "ACTIVE" /\ l \in matured ~> loan[l].status # "ACTIVE"
=============================================================================
