----------------------------- MODULE LoansProofs -----------------------------
(***************************************************************************)
(* Theorems about Loans for every set of loans, keys, requests, calls and  *)
(* sweeps.  A call saves what it computed from a loan it read some queries *)
(* before; IInv says that the row lock kept the loan as it was, and that   *)
(* the payment it is about to commit is its own.                           *)
(***************************************************************************)
EXTENDS Loans, FiniteSetTheorems, TLAPS

\* A loan is paid out by a payment from its disbursement on, never before.
PaidOutWhenDisbursed ==
    \A l \in LoanIds : loan[l].status \in {"NONE", "APPROVED"} <=> loan[l].paidBy = None

\* Nothing is repaid of a loan that was never paid out.
RepaidOncePaidOut == \A x \in repayments : loan[x.loan].paidBy # None

FinitelyRepaid == \A l \in LoanIds : IsFiniteSet(UnitsRepaid(l))

RowInv ==
    /\ MoneyMatchesLoans
    /\ PaidOutWhenDisbursed
    /\ RepaidOncePaidOut
    /\ FinitelyRepaid
    /\ OutstandingAddsUp

HoldsItsLoan == \A p \in Procs : pc[p] # "idle" => holder[req[p].loan] = p

\* What a call checked when it locked the loan still holds.
ChecksStillHold == \A p \in Procs : pc[p] # "idle" => MayServe(req[p])

SavesItsPayment ==
    \A p \in Procs : pc[p] = "save" =>
        IF fresh[p] THEN req[p].key \notin DOMAIN payments ELSE Replays(p)

SlotAlone ==
    \A p, q \in Procs :
        pc[p] = "save" /\ pc[q] = "save" /\ req[p].key = req[q].key => p = q

FreshIsSaving == \A p \in Procs : fresh[p] => pc[p] = "save"

CallInv ==
    /\ HoldsItsLoan
    /\ ChecksStillHold
    /\ SavesItsPayment
    /\ SlotAlone
    /\ FreshIsSaving

IInv == TypeOK /\ CallInv /\ RowInv

-----------------------------------------------------------------------------

LEMMA InitEstablishes == Init => IInv
<1> SUFFICES ASSUME Init PROVE IInv
  OBVIOUS
<1>1. TypeOK
  BY LoansAssumption DEF Init, TypeOK, LoanRow, LoanStatus
<1>2. CallInv
  BY DEF Init, CallInv, HoldsItsLoan, ChecksStillHold, SavesItsPayment, SlotAlone,
         FreshIsSaving
<1>3. RowInv
  <2>1. \A l \in LoanIds : UnitsRepaid(l) = {}
    BY DEF Init, UnitsRepaid
  <2>2. FinitelyRepaid
    BY <2>1, FS_EmptySet DEF FinitelyRepaid
  <2>3. QED
    BY <2>2 DEF Init, RowInv, MoneyMatchesLoans, PaidOutWhenDisbursed, RepaidOncePaidOut,
                OutstandingAddsUp
<1>4. QED
  BY <1>1, <1>2, <1>3 DEF IInv

\* What the type invariant says of a call in progress.
LEMMA RequestTypes ==
    ASSUME TypeOK, NEW p \in Procs, pc[p] # "idle"
    PROVE  /\ req[p] \in Requests
           /\ req[p].kind \in Kinds /\ req[p].loan \in LoanIds /\ req[p].key \in Keys
           /\ req[p].amount \in Nat \ {0}
           /\ req[p].kind = "disburse" => req[p].amount = Principal[req[p].loan]
           /\ BodyOf(req[p]) \in PaymentBody
BY LoansAssumption DEF TypeOK, BodyOf, PaymentBody

\* Calls keep their facts while their own loan and payment stay as they are.
LEMMA CallsKept ==
    ASSUME CallInv, NEW Q \in SUBSET Procs,
           \A q \in Q :
              /\ pc'[q] = pc[q] /\ req'[q] = req[q] /\ fresh'[q] = fresh[q]
              /\ pc[q] # "idle" => /\ loan'[req[q].loan] = loan[req[q].loan]
                                   /\ holder'[req[q].loan] = holder[req[q].loan]
              /\ pc[q] = "save" =>
                    /\ req[q].key \in DOMAIN payments' <=> req[q].key \in DOMAIN payments
                    /\ req[q].key \in DOMAIN payments =>
                          payments'[req[q].key] = payments[req[q].key],
           \A p \in Procs \ Q : pc'[p] = "idle" /\ ~fresh'[p]
    PROVE  CallInv'
<1>1. HoldsItsLoan' /\ FreshIsSaving' /\ SlotAlone'
  BY DEF CallInv, HoldsItsLoan, FreshIsSaving, SlotAlone
<1>2. ChecksStillHold'
  BY DEF CallInv, ChecksStillHold, MayServe, MayDisburse, MayRepay
<1>3. SavesItsPayment'
  BY DEF CallInv, SavesItsPayment, Replays, BodyOf
<1>4. QED
  BY <1>1, <1>2, <1>3 DEF CallInv

LEMMA EndTypes ==
    ASSUME TypeOK, NEW p \in Procs, pc[p] # "idle", End(p)
    PROVE  /\ holder' \in [LoanIds -> Procs \cup {None}]
           /\ pc' \in [Procs -> {"idle", "pay", "save"}]
           /\ DOMAIN req' = Procs
           /\ \A q \in Procs : pc'[q] # "idle" => req'[q] \in Requests
           /\ fresh' \in [Procs -> BOOLEAN]
           /\ todo' \in [Sweepers -> SUBSET LoanIds]
           /\ pc'[p] = "idle" /\ ~fresh'[p]
           /\ \A q \in Procs \ {p} :
                 pc'[q] = pc[q] /\ req'[q] = req[q] /\ fresh'[q] = fresh[q]
           /\ \A l \in LoanIds \ {req[p].loan} : holder'[l] = holder[l]
BY DEF TypeOK, End

\* Two calls never work on one loan, nor two that save under one key.
LEMMA CallsApart ==
    ASSUME CallInv, NEW p \in Procs, NEW q \in Procs \ {p}, pc[p] # "idle", pc[q] # "idle"
    PROVE  /\ req[p].loan # req[q].loan
           /\ pc[p] = "save" /\ pc[q] = "save" => req[p].key # req[q].key
BY DEF CallInv, HoldsItsLoan, SlotAlone

\* A call that ends leaves every other call alone if it changes only its own loan
\* and commits only its own payment.
LEMMA EndKeepsCalls ==
    ASSUME TypeOK, CallInv, NEW p \in Procs, pc[p] # "idle", End(p),
           \A l \in LoanIds \ {req[p].loan} : loan'[l] = loan[l],
           \/ payments' = payments
           \/ pc[p] = "save" /\ payments' = PaymentsAfter(p)
    PROVE  CallInv'
<1> DEFINE Q == Procs \ {p}
<1>1. ASSUME NEW q \in Q, pc[q] # "idle"
      PROVE  /\ loan'[req[q].loan] = loan[req[q].loan]
             /\ holder'[req[q].loan] = holder[req[q].loan]
  BY <1>1, CallsApart, RequestTypes, EndTypes
<1>2. ASSUME NEW q \in Q, pc[q] = "save"
      PROVE  /\ req[q].key \in DOMAIN payments' <=> req[q].key \in DOMAIN payments
             /\ req[q].key \in DOMAIN payments =>
                   payments'[req[q].key] = payments[req[q].key]
  <2>1. CASE pc[p] = "save" /\ payments' = PaymentsAfter(p)
    <3>1. req[p].key # req[q].key
      BY <1>2, <2>1, CallsApart
    <3>2. QED
      BY <2>1, <3>1 DEF PaymentsAfter, Paid
  <2>2. QED
    BY <2>1
<1>3. \A q \in Q : pc'[q] = pc[q] /\ req'[q] = req[q] /\ fresh'[q] = fresh[q]
  BY EndTypes
<1>4. \A q \in Procs \ Q : pc'[q] = "idle" /\ ~fresh'[q]
  BY EndTypes
<1>5. QED
  BY <1>1, <1>2, <1>3, <1>4, CallsKept

-----------------------------------------------------------------------------
(* The units repaid *)

LEMMA UnitsKept ==
    ASSUME NEW l, {y \in repayments' : y.loan = l} = {y \in repayments : y.loan = l}
    PROVE  UnitsRepaid(l)' = UnitsRepaid(l)
BY DEF UnitsRepaid

LEMMA UnitsOfOne ==
    ASSUME NEW x, NEW n \in Nat
    PROVE  IsFiniteSet({x} \X (1..n)) /\ Cardinality({x} \X (1..n)) = n
<1>1. IsFiniteSet({x}) /\ Cardinality({x}) = 1
  BY FS_Singleton
<1>2. IsFiniteSet(1..n) /\ Cardinality(1..n) = n
  BY FS_Interval
<1> DEFINE V == {x} \X (1..n)
<1>3. IsFiniteSet(V) /\ Cardinality(V) = Cardinality({x}) * Cardinality(1..n)
  BY <1>1, <1>2, FS_Product
<1>4. QED
  BY <1>1, <1>2, <1>3

\* A repayment that is not there yet adds exactly its amount.
LEMMA UnitsAdded ==
    ASSUME TypeOK, NEW l \in LoanIds, IsFiniteSet(UnitsRepaid(l)),
           NEW x, x \notin repayments, x.loan = l, x.amount \in Nat,
           repayments' = repayments \cup {x}
    PROVE  /\ IsFiniteSet(UnitsRepaid(l)')
           /\ Cardinality(UnitsRepaid(l)') = Cardinality(UnitsRepaid(l)) + x.amount
<1> DEFINE U == UnitsRepaid(l)
           V == {x} \X (1..x.amount)
<1>1. UnitsRepaid(l)' = U \cup V
  BY DEF UnitsRepaid
<1>2. U \cap V = {}
  BY DEF UnitsRepaid
<1>3. IsFiniteSet(V) /\ Cardinality(V) = x.amount
  BY UnitsOfOne
<1> HIDE DEF U, V
<1>4. IsFiniteSet(U)
  BY DEF U
<1>5. /\ IsFiniteSet(U \cup V)
      /\ Cardinality(U \cup V) = Cardinality(U) + Cardinality(V) - Cardinality(U \cap V)
  BY <1>3, <1>4, FS_Union
<1>6. Cardinality(U \cap V) = 0 /\ Cardinality(U) \in Nat
  BY <1>2, <1>4, FS_EmptySet, FS_CardinalityType
<1>7. QED
  BY <1>1, <1>3, <1>5, <1>6 DEF U

-----------------------------------------------------------------------------
(* Applications, time and direct payments *)

\* The rows agree as long as no payment, repayment or `disbursement_payment_id`
\* changes and no loan passes from approved to disbursed.
LEMMA RowsAgreeStill ==
    ASSUME TypeOK, RowInv, UNCHANGED <<payments, direct, repayments>>,
           \A l \in LoanIds :
              /\ loan'[l].paidBy = loan[l].paidBy
              /\ loan'[l].outstanding = loan[l].outstanding
              /\ loan'[l].status \in {"NONE", "APPROVED"}
                    <=> loan[l].status \in {"NONE", "APPROVED"}
              /\ loan'[l].status = "CLOSED" <=> loan[l].status = "CLOSED"
    PROVE  RowInv'
<1>1. \A k \in DOMAIN payments : payments[k].body.loan \in LoanIds
  BY DEF TypeOK, PaymentBody
<1>2. MoneyMatchesLoans'
  BY <1>1 DEF RowInv, MoneyMatchesLoans
<1>3. PaidOutWhenDisbursed'
  BY DEF RowInv, PaidOutWhenDisbursed
<1>4. RepaidOncePaidOut'
  BY DEF RowInv, RepaidOncePaidOut, TypeOK, Repayment
<1>5. \A l \in LoanIds : UnitsRepaid(l)' = UnitsRepaid(l)
  BY UnitsKept
<1>6. FinitelyRepaid' /\ OutstandingAddsUp'
  BY <1>5 DEF RowInv, FinitelyRepaid, OutstandingAddsUp
<1>7. QED
  BY <1>2, <1>3, <1>4, <1>6 DEF RowInv

LEMMA ApplyPreserves == ASSUME IInv, NEW l \in LoanIds, Apply(l) PROVE IInv'
<1>1. loan' \in [LoanIds -> LoanRow]
      /\ \A m \in LoanIds : m # l => loan'[m] = loan[m]
      /\ loan'[l].paidBy = loan[l].paidBy /\ loan'[l].status = "APPROVED"
      /\ loan'[l].outstanding = loan[l].outstanding
  BY DEF IInv, TypeOK, Apply, LoanRow, LoanStatus
<1>2. TypeOK'
  BY <1>1 DEF IInv, TypeOK, Apply
<1>3. \A q \in Procs : pc[q] # "idle" => loan'[req[q].loan] = loan[req[q].loan]
  BY <1>1, RequestTypes
     DEF IInv, CallInv, ChecksStillHold, MayServe, MayDisburse, MayRepay, Apply
<1>4. CallInv'
  BY <1>3, CallsKept DEF IInv, Apply
<1>5. RowInv'
  BY <1>1, RowsAgreeStill DEF IInv, Apply
<1>6. QED
  BY <1>2, <1>4, <1>5 DEF IInv

LEMMA MaturePreserves == ASSUME IInv, NEW l \in LoanIds, Mature(l) PROVE IInv'
<1>1. TypeOK'
  BY DEF IInv, TypeOK, Mature
<1>2. CallInv'
  BY CallsKept DEF IInv, Mature
<1>3. RowInv'
  BY RowsAgreeStill DEF IInv, Mature
<1>4. QED
  BY <1>1, <1>2, <1>3 DEF IInv

LEMMA PayDirectlyPreserves ==
    ASSUME IInv, NEW r \in Requests, NEW out \in {"COMPLETED", "FAILED"}, PayDirectly(r, out)
    PROVE  IInv'
<1>1. r.key \in Keys /\ BodyOf(r) \in PaymentBody
  BY LoansAssumption DEF BodyOf, PaymentBody
<1>2. /\ DOMAIN payments' = DOMAIN payments \cup {r.key}
      /\ payments'[r.key] = [body |-> BodyOf(r), status |-> out]
      /\ \A k \in DOMAIN payments : payments'[k] = payments[k]
  BY DEF PayDirectly, Paid
<1>3. TypeOK'
  BY <1>1, <1>2 DEF IInv, TypeOK, PayDirectly
<1>4. \A q \in Procs : pc[q] = "save" => req[q].key # r.key
  BY DEF PayDirectly, SlotFree
<1>5. CallInv'
  BY <1>2, <1>4, CallsKept DEF IInv, PayDirectly
<1>6. MoneyMatchesLoans'
  <2>1. /\ \A l \in LoanIds : loan[l].paidBy # None => loan[l].paidBy \in DOMAIN payments
        /\ \A x \in repayments : x.key \in DOMAIN payments
    BY DEF IInv, RowInv, MoneyMatchesLoans
  <2>2. DOMAIN payments' \ direct' = DOMAIN payments \ direct
    BY <1>2 DEF PayDirectly, IInv, TypeOK
  <2>3. QED
    BY <1>2, <2>1, <2>2 DEF IInv, RowInv, MoneyMatchesLoans, PayDirectly
<1>7. RowInv'
  <2>1. \A l \in LoanIds : UnitsRepaid(l)' = UnitsRepaid(l)
    BY UnitsKept DEF PayDirectly
  <2>2. FinitelyRepaid' /\ OutstandingAddsUp'
    BY <2>1 DEF IInv, RowInv, FinitelyRepaid, OutstandingAddsUp, PayDirectly
  <2>3. QED
    BY <1>6, <2>2 DEF IInv, RowInv, PaidOutWhenDisbursed, RepaidOncePaidOut, PayDirectly
<1>8. QED
  BY <1>3, <1>5, <1>7 DEF IInv

-----------------------------------------------------------------------------
(* Calls *)

LEMMA LockPreserves == ASSUME IInv, NEW p \in Procs, NEW r \in Requests, Lock(p, r) PROVE IInv'
<1>1. r.loan \in LoanIds /\ p # None
  BY LoansAssumption
<1>2. /\ holder' \in [LoanIds -> Procs \cup {None}] /\ holder'[r.loan] = p
      /\ \A l \in LoanIds : l # r.loan => holder'[l] = holder[l]
      /\ pc' \in [Procs -> {"idle", "pay", "save"}] /\ pc'[p] = "pay"
      /\ req'[p] = r /\ DOMAIN req' = Procs
      /\ \A q \in Procs : q # p => pc'[q] = pc[q] /\ req'[q] = req[q]
  BY <1>1 DEF IInv, TypeOK, Lock
<1>3. TypeOK'
  BY <1>2 DEF IInv, TypeOK, Lock, loanRows
<1>4. HoldsItsLoan'
  <2>1. \A q \in Procs : q # p /\ pc[q] # "idle" => req[q].loan # r.loan
    BY LoansAssumption DEF IInv, CallInv, HoldsItsLoan, Lock
  <2>2. \A q \in Procs : pc[q] # "idle" => req[q].loan \in LoanIds
    BY RequestTypes DEF IInv
  <2>3. QED
    BY <1>2, <2>1, <2>2 DEF IInv, CallInv, HoldsItsLoan
<1>5. ChecksStillHold'
  BY <1>2 DEF IInv, CallInv, ChecksStillHold, MayServe, MayDisburse, MayRepay, Lock, loanRows
<1>6. SavesItsPayment' /\ SlotAlone' /\ FreshIsSaving'
  BY <1>2 DEF IInv, CallInv, SavesItsPayment, SlotAlone, FreshIsSaving, Replays, BodyOf,
              Lock, loanRows
<1>7. RowInv'
  BY RowsAgreeStill DEF IInv, Lock, loanRows
<1>8. QED
  BY <1>3, <1>4, <1>5, <1>6, <1>7 DEF IInv, CallInv

LEMMA RollbackPreserves ==
    ASSUME IInv, NEW p \in Procs, pc[p] # "idle", Rollback(p) PROVE IInv'
<1>1. TypeOK'
  BY EndTypes DEF IInv, TypeOK, Rollback, loanRows
<1>2. CallInv'
  BY EndKeepsCalls DEF IInv, Rollback, loanRows
<1>3. RowInv'
  BY RowsAgreeStill DEF IInv, Rollback, loanRows
<1>4. QED
  BY <1>1, <1>2, <1>3 DEF IInv

LEMMA PayPreserves == ASSUME IInv, NEW p \in Procs, Pay(p) PROVE IInv'
<1>1. CASE ~Replays(p) /\ Rollback(p)
  BY <1>1, RollbackPreserves DEF Pay
<1>2. CASE /\ pc' = [pc EXCEPT ![p] = "save"]
           /\ UNCHANGED <<loanRows, holder, req, todo>>
           /\ \/ Replays(p) /\ fresh' = fresh
              \/ req[p].key \notin DOMAIN payments /\ fresh' = [fresh EXCEPT ![p] = TRUE]
  <2>1. /\ pc' \in [Procs -> {"idle", "pay", "save"}] /\ fresh' \in [Procs -> BOOLEAN]
        /\ pc'[p] = "save" /\ pc[p] = "pay"
        /\ \A q \in Procs : q # p => pc'[q] = pc[q] /\ fresh'[q] = fresh[q]
    BY <1>2 DEF IInv, TypeOK, Pay
  <2>2. IF fresh'[p] THEN req[p].key \notin DOMAIN payments ELSE Replays(p)
    BY <1>2, <2>1 DEF IInv, TypeOK, CallInv, FreshIsSaving
  <2>3. TypeOK'
    BY <1>2, <2>1 DEF IInv, TypeOK, loanRows
  <2>4. HoldsItsLoan' /\ ChecksStillHold' /\ FreshIsSaving'
    BY <1>2, <2>1 DEF IInv, CallInv, HoldsItsLoan, ChecksStillHold, FreshIsSaving, MayServe,
                      MayDisburse, MayRepay, loanRows
  <2>5. SavesItsPayment'
    BY <1>2, <2>1, <2>2 DEF IInv, CallInv, SavesItsPayment, Replays, BodyOf, loanRows
  <2>6. SlotAlone'
    BY <1>2, <2>1 DEF IInv, CallInv, SlotAlone, Pay, SlotFree
  <2>7. RowInv'
    BY <1>2, RowsAgreeStill DEF IInv, loanRows
  <2>8. QED
    BY <2>3, <2>4, <2>5, <2>6, <2>7 DEF IInv, CallInv
<1>3. QED
  BY <1>1, <1>2 DEF Pay

\* A call that saves leaves a COMPLETED payment for its own body, and no other.
LEMMA PaymentCommitted ==
    ASSUME IInv, NEW p \in Procs, pc[p] = "save", payments' = PaymentsAfter(p)
    PROVE  /\ DOMAIN payments' = DOMAIN payments \cup {req[p].key}
           /\ payments'[req[p].key] = [body |-> BodyOf(req[p]), status |-> "COMPLETED"]
           /\ \A k \in DOMAIN payments : payments'[k] = payments[k]
           /\ req[p].key \in DOMAIN payments => payments' = payments
<1>1. IF fresh[p] THEN req[p].key \notin DOMAIN payments ELSE Replays(p)
  BY DEF IInv, CallInv, SavesItsPayment
<1>2. CASE fresh[p]
  BY <1>1, <1>2 DEF PaymentsAfter, Paid
<1>3. CASE ~fresh[p]
  BY <1>1, <1>3 DEF PaymentsAfter, Replays
<1>4. QED
  BY <1>2, <1>3

LEMMA PaymentTyped ==
    ASSUME IInv, NEW p \in Procs, pc[p] = "save", payments' = PaymentsAfter(p)
    PROVE  /\ DOMAIN payments' \in SUBSET Keys
           /\ \A k \in DOMAIN payments' :
                 payments'[k] \in [body : PaymentBody, status : {"COMPLETED", "FAILED"}]
<1>1. TypeOK
  BY DEF IInv
<1>2. req[p].key \in Keys /\ BodyOf(req[p]) \in PaymentBody
  BY <1>1, RequestTypes
<1>3. /\ DOMAIN payments \in SUBSET Keys
      /\ \A k \in DOMAIN payments :
            payments[k] \in [body : PaymentBody, status : {"COMPLETED", "FAILED"}]
  BY <1>1 DEF TypeOK
<1>4. /\ DOMAIN payments' = DOMAIN payments \cup {req[p].key}
      /\ payments'[req[p].key] = [body |-> BodyOf(req[p]), status |-> "COMPLETED"]
      /\ \A k \in DOMAIN payments : payments'[k] = payments[k]
  BY PaymentCommitted
<1>5. QED
  BY <1>2, <1>3, <1>4

LEMMA SaveDisbursementPreserves ==
    ASSUME IInv, NEW p \in Procs, SaveDisbursement(p) PROVE IInv'
<1> DEFINE r == req[p]
<1>1. /\ pc[p] = "save" /\ r.kind = "disburse" /\ End(p)
      /\ payments' = PaymentsAfter(p)
      /\ UNCHANGED <<matured, direct, repayments, overdue>>
  BY DEF SaveDisbursement
<1>paid. /\ DOMAIN payments' = DOMAIN payments \cup {r.key}
      /\ payments'[r.key] = [body |-> BodyOf(r), status |-> "COMPLETED"]
      /\ \A k \in DOMAIN payments : payments'[k] = payments[k]
  BY <1>1, PaymentCommitted
<1>2. /\ r.loan \in LoanIds /\ r.key \in Keys /\ r.amount \in Nat \ {0}
      /\ r.amount = Principal[r.loan]
  BY <1>1, RequestTypes DEF IInv
<1>3. /\ loan' \in [LoanIds -> LoanRow]
      /\ loan'[r.loan].status = "ACTIVE" /\ loan'[r.loan].paidBy = r.key
      /\ loan'[r.loan].outstanding = Principal[r.loan]
      /\ \A l \in LoanIds \ {r.loan} : loan'[l] = loan[l]
  BY <1>2 DEF IInv, TypeOK, SaveDisbursement, LoanRow, LoanStatus
<1>4. loan[r.loan].paidBy = None
  BY <1>1, <1>2 DEF IInv, CallInv, ChecksStillHold, MayServe, MayDisburse, RowInv,
                    PaidOutWhenDisbursed
<1>5. TypeOK'
  <2>1. direct' \in SUBSET DOMAIN payments'
    BY <1>1, <1>paid DEF IInv, TypeOK
  <2>2. QED
    BY <1>1, <1>3, <2>1, PaymentTyped, EndTypes DEF IInv, TypeOK
<1>6. CallInv'
  BY <1>1, <1>3, EndKeepsCalls DEF IInv
<1>7. MoneyMatchesLoans'
  <2>1. ASSUME NEW l \in LoanIds, loan'[l].paidBy # None
        PROVE  /\ loan'[l].paidBy \in DOMAIN payments'
               /\ payments'[loan'[l].paidBy] =
                     [body |-> [kind |-> "disburse", loan |-> l, amount |-> Principal[l]],
                      status |-> "COMPLETED"]
    <3>1. CASE l = r.loan
      BY <1>1, <1>2, <1>3, <3>1, <1>paid DEF BodyOf
    <3>2. CASE l # r.loan
      BY <1>1, <1>3, <2>1, <3>2, <1>paid DEF IInv, RowInv, MoneyMatchesLoans
    <3>3. QED
      BY <3>1, <3>2
  <2>2. \A x \in repayments' :
           /\ x.key \in DOMAIN payments'
           /\ payments'[x.key] =
                 [body |-> [kind |-> "repay", loan |-> x.loan, amount |-> x.amount],
                  status |-> "COMPLETED"]
    BY <1>1, <1>paid DEF IInv, RowInv, MoneyMatchesLoans
  <2>3. ASSUME NEW k \in DOMAIN payments' \ direct'
        PROVE  LET b == payments'[k].body
               IN IF b.kind = "disburse" THEN loan'[b.loan].paidBy = k
                  ELSE [loan |-> b.loan, key |-> k, amount |-> b.amount] \in repayments'
    <3>1. CASE k = r.key
      BY <1>1, <1>3, <3>1, <1>paid DEF BodyOf
    <3>2. CASE k # r.key
      <4>1. k \in DOMAIN payments \ direct /\ payments'[k] = payments[k]
        BY <1>1, <3>2, <1>paid
      <4>2. k # None /\ payments[k].body.loan \in LoanIds
        BY <4>1, LoansAssumption DEF IInv, TypeOK, PaymentBody
      <4>3. payments[k].body.kind = "disburse" => payments[k].body.loan # r.loan
        BY <1>4, <4>1, <4>2 DEF IInv, RowInv, MoneyMatchesLoans
      <4>4. QED
        BY <1>1, <1>3, <4>1, <4>2, <4>3 DEF IInv, RowInv, MoneyMatchesLoans
    <3>3. QED
      BY <3>1, <3>2
  <2>4. QED
    BY <2>1, <2>2, <2>3 DEF MoneyMatchesLoans
<1>8. PaidOutWhenDisbursed'
  BY <1>2, <1>3, LoansAssumption DEF IInv, RowInv, PaidOutWhenDisbursed
<1>9. RepaidOncePaidOut'
  BY <1>1, <1>2, <1>3, LoansAssumption
     DEF IInv, RowInv, RepaidOncePaidOut, TypeOK, Repayment
<1>10. \A l \in LoanIds : UnitsRepaid(l)' = UnitsRepaid(l)
  BY <1>1, UnitsKept
<1>11. UnitsRepaid(r.loan) = {}
  BY <1>4 DEF IInv, RowInv, RepaidOncePaidOut, UnitsRepaid
<1>12. FinitelyRepaid' /\ OutstandingAddsUp'
  <2>1. FinitelyRepaid'
    BY <1>10 DEF IInv, RowInv, FinitelyRepaid
  <2>2. ASSUME NEW l \in LoanIds, loan'[l].paidBy # None
        PROVE  /\ loan'[l].outstanding + Cardinality(UnitsRepaid(l)') = Principal[l]
               /\ loan'[l].status = "CLOSED" <=> loan'[l].outstanding = 0
    <3>1. CASE l = r.loan
      <4>1. Cardinality(UnitsRepaid(l)') = 0
        BY <1>10, <1>11, <3>1, FS_EmptySet
      <4>2. Principal[l] \in Nat \ {0}
        BY <3>1, <1>2
      <4>3. QED
        BY <1>3, <3>1, <4>1, <4>2
    <3>2. CASE l # r.loan
      BY <1>3, <1>10, <2>2, <3>2 DEF IInv, RowInv, OutstandingAddsUp
    <3>3. QED
      BY <3>1, <3>2
  <2>3. QED
    BY <2>1, <2>2 DEF OutstandingAddsUp
<1>13. QED
  BY <1>5, <1>6, <1>7, <1>8, <1>9, <1>12 DEF IInv, RowInv

\* A repayment that counts already changes no row at all.
LEMMA CountedIsCommitted ==
    ASSUME IInv, NEW p \in Procs, pc[p] = "save", Counted(req[p]) PROVE PaymentsAfter(p) = payments
<1>1. req[p].key \in DOMAIN payments
  BY DEF Counted, IInv, RowInv, MoneyMatchesLoans
<1>2. ~fresh[p]
  BY <1>1 DEF IInv, CallInv, SavesItsPayment
<1>3. QED
  BY <1>2 DEF PaymentsAfter

LEMMA SaveRepaymentPreserves ==
    ASSUME IInv, NEW p \in Procs, SaveRepayment(p) PROVE IInv'
<1> DEFINE r == req[p]
           left == loan[r.loan].outstanding - r.amount
<1>1. /\ pc[p] = "save" /\ r.kind = "repay" /\ End(p)
      /\ payments' = PaymentsAfter(p)
      /\ UNCHANGED <<matured, direct, overdue>>
  BY DEF SaveRepayment
<1>paid. /\ DOMAIN payments' = DOMAIN payments \cup {r.key}
      /\ payments'[r.key] = [body |-> BodyOf(r), status |-> "COMPLETED"]
      /\ \A k \in DOMAIN payments : payments'[k] = payments[k]
  BY <1>1, PaymentCommitted
<1>2. r.loan \in LoanIds /\ r.key \in Keys /\ r.amount \in Nat \ {0}
  BY <1>1, RequestTypes DEF IInv
<1>3. loan[r.loan].status \in {"ACTIVE", "OVERDUE"} /\ left \in Nat
  BY <1>1, <1>2 DEF IInv, TypeOK, LoanRow, CallInv, ChecksStillHold, MayServe, MayRepay
<1>4. direct' \in SUBSET DOMAIN payments'
  BY <1>1, <1>paid DEF IInv, TypeOK
<1>5. CASE Counted(r)
  <2>1. loan' = loan /\ repayments' = repayments /\ payments' = payments
    BY <1>1, <1>5, CountedIsCommitted DEF SaveRepayment
  <2>2. TypeOK'
    BY <1>1, <2>1, EndTypes DEF IInv, TypeOK
  <2>3. CallInv'
    BY <1>1, <2>1, EndKeepsCalls DEF IInv
  <2>4. RowInv'
    BY <1>1, <2>1, RowsAgreeStill DEF IInv
  <2>5. QED
    BY <2>2, <2>3, <2>4 DEF IInv
<1>6. CASE ~Counted(r)
  <2>1. /\ loan' = [loan EXCEPT ![r.loan].outstanding = left,
                                ![r.loan].status = IF left = 0 THEN "CLOSED" ELSE @]
        /\ repayments' = repayments \cup {[loan |-> r.loan, key |-> r.key, amount |-> r.amount]}
    BY <1>6 DEF SaveRepayment
  <2>2. /\ loan' \in [LoanIds -> LoanRow]
        /\ loan'[r.loan].status \in {"ACTIVE", "OVERDUE", "CLOSED"}
        /\ loan'[r.loan].paidBy = loan[r.loan].paidBy
        /\ loan'[r.loan].outstanding = left
        /\ loan'[r.loan].status = "CLOSED" <=> left = 0
        /\ \A l \in LoanIds \ {r.loan} : loan'[l] = loan[l]
    BY <1>2, <1>3, <2>1 DEF IInv, Repayment, TypeOK, LoanRow, LoanStatus
  <2>3. TypeOK'
    BY <1>1, <1>2, <1>4, <2>1, <2>2, PaymentTyped, EndTypes DEF IInv, Repayment, TypeOK
  <2>4. CallInv'
    BY <1>1, <2>2, EndKeepsCalls DEF IInv
  <2>5. \A l \in LoanIds : loan'[l].paidBy = loan[l].paidBy
    BY <2>2
  <2>6. MoneyMatchesLoans'
    <3>1. ASSUME NEW k \in DOMAIN payments' \ direct'
          PROVE  LET b == payments'[k].body
                 IN IF b.kind = "disburse" THEN loan'[b.loan].paidBy = k
                    ELSE [loan |-> b.loan, key |-> k, amount |-> b.amount] \in repayments'
      <4>1. CASE k = r.key
        BY <1>1, <2>1, <4>1, <1>paid DEF BodyOf
      <4>2. CASE k # r.key
        <5>1. k \in DOMAIN payments \ direct /\ payments'[k] = payments[k]
          BY <1>1, <4>2, <1>paid
        <5>2. payments[k].body.loan \in LoanIds
          BY <5>1 DEF IInv, TypeOK, PaymentBody
        <5>3. QED
          BY <2>1, <2>5, <5>1, <5>2 DEF IInv, RowInv, MoneyMatchesLoans
      <4>3. QED
        BY <4>1, <4>2
    <3>2. ASSUME NEW x \in repayments'
          PROVE  /\ x.key \in DOMAIN payments'
                 /\ payments'[x.key] =
                       [body |-> [kind |-> "repay", loan |-> x.loan, amount |-> x.amount],
                        status |-> "COMPLETED"]
      <4>1. CASE x \in repayments
        BY <1>paid, <4>1 DEF IInv, RowInv, MoneyMatchesLoans
      <4>2. CASE x = [loan |-> r.loan, key |-> r.key, amount |-> r.amount]
        BY <1>1, <1>paid, <4>2 DEF BodyOf
      <4>3. QED
        BY <2>1, <4>1, <4>2
    <3>3. QED
      BY <1>1, <2>5, <3>1, <3>2, <1>paid DEF IInv, RowInv, MoneyMatchesLoans
  <2>7. PaidOutWhenDisbursed'
    BY <1>3, <2>2 DEF IInv, RowInv, PaidOutWhenDisbursed
  <2>8. loan[r.loan].paidBy # None
    BY <1>2, <1>3 DEF IInv, RowInv, PaidOutWhenDisbursed
  <2>9. RepaidOncePaidOut'
    BY <2>1, <2>5, <2>8, <1>2 DEF IInv, RowInv, RepaidOncePaidOut, TypeOK, Repayment
  <2>10. \A l \in LoanIds \ {r.loan} : UnitsRepaid(l)' = UnitsRepaid(l)
    BY <2>1, UnitsKept
  <2>11. ASSUME NEW l \in LoanIds, l = r.loan
         PROVE  /\ IsFiniteSet(UnitsRepaid(l)')
                /\ Cardinality(UnitsRepaid(l)') = Cardinality(UnitsRepaid(l)) + r.amount
    <3>1. PICK x : x = [loan |-> r.loan, key |-> r.key, amount |-> r.amount]
      OBVIOUS
    <3>2. x \notin repayments /\ x.loan = l /\ x.amount = r.amount
      BY <1>6, <2>11, <3>1 DEF Counted
    <3>3. IsFiniteSet(UnitsRepaid(l)) /\ repayments' = repayments \cup {x}
      BY <2>1, <3>1 DEF IInv, RowInv, FinitelyRepaid
    <3>4. x.amount \in Nat /\ TypeOK
      BY <1>2, <3>2 DEF IInv
    <3>5. /\ IsFiniteSet(UnitsRepaid(l)')
          /\ Cardinality(UnitsRepaid(l)') = Cardinality(UnitsRepaid(l)) + x.amount
      BY <3>2, <3>3, <3>4, UnitsAdded
    <3>6. QED
      BY <3>2, <3>5
  <2>12. FinitelyRepaid' /\ OutstandingAddsUp'
    <3>1. FinitelyRepaid'
      BY <2>10, <2>11 DEF IInv, RowInv, FinitelyRepaid
    <3>2. ASSUME NEW l \in LoanIds, loan'[l].paidBy # None
          PROVE  /\ loan'[l].outstanding + Cardinality(UnitsRepaid(l)') = Principal[l]
                 /\ loan'[l].status = "CLOSED" <=> loan'[l].outstanding = 0
      <4>1. CASE l = r.loan
        <5>1. Cardinality(UnitsRepaid(l)) \in Nat
          BY FS_CardinalityType DEF IInv, RowInv, FinitelyRepaid
        <5>2. loan[l].outstanding + Cardinality(UnitsRepaid(l)) = Principal[l]
          BY <2>8, <4>1 DEF IInv, RowInv, OutstandingAddsUp
        <5>3. loan[l].outstanding \in Nat
          BY DEF IInv, TypeOK, LoanRow
        <5>4. QED
          BY <1>2, <2>2, <2>11, <4>1, <5>1, <5>2, <5>3
      <4>2. CASE l # r.loan
        BY <2>2, <2>10, <3>2, <4>2 DEF IInv, RowInv, OutstandingAddsUp
      <4>3. QED
        BY <4>1, <4>2
    <3>3. QED
      BY <3>1, <3>2 DEF OutstandingAddsUp
  <2>13. QED
    BY <2>3, <2>4, <2>6, <2>7, <2>9, <2>12 DEF IInv, RowInv
<1>7. QED
  BY <1>5, <1>6

-----------------------------------------------------------------------------
(* Sweeps, and the theorems *)

LEMMA SweepLoanPreserves ==
    ASSUME IInv, NEW w \in Sweepers, NEW l \in LoanIds, SweepLoan(w, l) PROVE IInv'
<1>1. /\ loan' \in [LoanIds -> LoanRow]
      /\ \A m \in LoanIds \ {l} : loan'[m] = loan[m]
      /\ loan'[l].paidBy = loan[l].paidBy /\ loan'[l].outstanding = loan[l].outstanding
      /\ loan'[l].status \in {"NONE", "APPROVED"} <=> loan[l].status \in {"NONE", "APPROVED"}
      /\ loan'[l].status = "CLOSED" <=> loan[l].status = "CLOSED"
  BY DEF IInv, TypeOK, SweepLoan, StillOverdue, LoanRow, LoanStatus
<1>2. TypeOK'
  BY <1>1 DEF IInv, TypeOK, SweepLoan
<1>3. \A q \in Procs : pc[q] # "idle" => req[q].loan \in LoanIds /\ req[q].loan # l
  BY RequestTypes, LoansAssumption DEF IInv, CallInv, HoldsItsLoan, SweepLoan
<1>4. CallInv'
  BY <1>1, <1>3, CallsKept DEF IInv, SweepLoan
<1>5. RowInv'
  BY <1>1, RowsAgreeStill DEF IInv, SweepLoan
<1>6. QED
  BY <1>2, <1>4, <1>5 DEF IInv

LEMMA StutterPreserves ==
    ASSUME IInv, UNCHANGED <<loanRows, holder, pc, req, fresh>>,
           todo' \in [Sweepers -> SUBSET LoanIds]
    PROVE  IInv'
<1>1. TypeOK'
  BY DEF IInv, TypeOK, loanRows
<1>2. CallInv'
  BY CallsKept DEF IInv, loanRows
<1>3. RowInv'
  BY RowsAgreeStill DEF IInv, loanRows
<1>4. QED
  BY <1>1, <1>2, <1>3 DEF IInv

LEMMA NextPreserves == IInv /\ [Next]_vars => IInv'
<1> SUFFICES ASSUME IInv, [Next]_vars PROVE IInv'
  OBVIOUS
<1>1. ASSUME NEW l \in LoanIds, Apply(l) \/ Mature(l) PROVE IInv'
  BY <1>1, ApplyPreserves, MaturePreserves
<1>2. ASSUME NEW r \in Requests, NEW out \in {"COMPLETED", "FAILED"}, PayDirectly(r, out)
      PROVE  IInv'
  BY <1>2, PayDirectlyPreserves
<1>3. ASSUME NEW p \in Procs, NEW r \in Requests, Lock(p, r) PROVE IInv'
  BY <1>3, LockPreserves
<1>4. ASSUME NEW p \in Procs, Serve(p) PROVE IInv'
  BY <1>4, PayPreserves, SaveDisbursementPreserves, SaveRepaymentPreserves DEF Serve
<1>5. ASSUME NEW p \in Procs, Crash(p) PROVE IInv'
  BY <1>5, RollbackPreserves DEF Crash
<1>6. ASSUME NEW w \in Sweepers, NEW l \in LoanIds, SweepLoan(w, l) PROVE IInv'
  BY <1>6, SweepLoanPreserves
<1>7. ASSUME NEW w \in Sweepers, SweepRead(w) \/ SweepFails(w) PROVE IInv'
  <2>1. todo' \in [Sweepers -> SUBSET LoanIds]
    BY <1>7 DEF IInv, TypeOK, SweepRead, SweepFails, Candidates
  <2>2. QED
    BY <1>7, <2>1, StutterPreserves DEF SweepRead, SweepFails
<1>8. CASE UNCHANGED vars
  BY <1>8, StutterPreserves DEF vars, IInv, TypeOK
<1>9. QED
  BY <1>1, <1>2, <1>3, <1>4, <1>5, <1>6, <1>7, <1>8 DEF Next

THEOREM Inductive == Spec => []IInv
<1>1. Init => IInv
  BY InitEstablishes
<1>2. QED
  BY <1>1, NextPreserves, PTL DEF Spec

\* Loans are well typed; no repayment takes the outstanding principal below zero,
\* although it is checked some queries before it is written.
THEOREM LoanTypes == Spec => []TypeOK
<1>1. IInv => TypeOK
  BY DEF IInv
<1>2. QED
  BY <1>1, Inductive, PTL

\* Disbursements, repayments and payments agree at every commit, for any number of
\* calls, retries, crashes and payments past the loan endpoints.
THEOREM LoansMatchMoney == Spec => []MoneyMatchesLoans
<1>1. IInv => MoneyMatchesLoans
  BY DEF IInv, RowInv
<1>2. QED
  BY <1>1, Inductive, PTL

\* What is outstanding and what was repaid always make up the principal: no retry,
\* replay or crash counts a repayment twice or loses one, and CLOSED means paid off.
THEOREM NothingRepaidTwice == Spec => []OutstandingAddsUp
<1>1. IInv => OutstandingAddsUp
  BY DEF IInv, RowInv
<1>2. QED
  BY <1>1, Inductive, PTL

\* No sweep or late disbursement takes a loan back to an earlier status.
THEOREM StatusForward == Spec => StatusMovesForward
<1> DEFINE A == \A l \in LoanIds : Rank(loan'[l].status) >= Rank(loan[l].status)
<1>1. IInv /\ [Next]_vars => [A]_vars
  <2> SUFFICES ASSUME IInv, [Next]_vars, NEW l \in LoanIds
               PROVE  Rank(loan'[l].status) >= Rank(loan[l].status)
    OBVIOUS
  <2>1. loan[l].status \in LoanStatus
    BY DEF IInv, TypeOK, LoanRow
  <2>2. CASE loan' = loan
    BY <2>1, <2>2 DEF Rank, LoanStatus
  <2>3. ASSUME NEW m \in LoanIds, Apply(m) PROVE Rank(loan'[l].status) >= Rank(loan[l].status)
    BY <2>1, <2>3 DEF Apply, IInv, TypeOK, LoanRow, LoanStatus, Rank
  <2>4. ASSUME NEW p \in Procs, SaveDisbursement(p)
        PROVE  Rank(loan'[l].status) >= Rank(loan[l].status)
    <3>1. loan[req[p].loan].status = "APPROVED"
      BY <2>4 DEF SaveDisbursement, IInv, CallInv, ChecksStillHold, MayServe, MayDisburse
    <3>2. QED
      BY <2>1, <2>4, <3>1 DEF SaveDisbursement, IInv, TypeOK, LoanRow, LoanStatus, Rank
  <2>5. ASSUME NEW p \in Procs, SaveRepayment(p)
        PROVE  Rank(loan'[l].status) >= Rank(loan[l].status)
    <3>1. loan'[l].status \in {loan[l].status, "CLOSED"}
      BY <2>5 DEF SaveRepayment, IInv, TypeOK, LoanRow
    <3>2. QED
      BY <2>1, <3>1 DEF LoanStatus, Rank
  <2>6. ASSUME NEW w \in Sweepers, NEW m \in LoanIds, SweepLoan(w, m)
        PROVE  Rank(loan'[l].status) >= Rank(loan[l].status)
    BY <2>1, <2>6 DEF SweepLoan, StillOverdue, IInv, TypeOK, LoanRow, LoanStatus, Rank
  <2>7. QED
    BY <2>2, <2>3, <2>4, <2>5, <2>6
       DEF Next, Serve, Mature, PayDirectly, Lock, Pay, Crash, Rollback, SweepRead,
           SweepFails, loanRows, vars
<1>2. QED
  BY <1>1, Inductive, PTL DEF Spec, StatusMovesForward
=============================================================================
