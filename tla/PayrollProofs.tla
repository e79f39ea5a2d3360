---------------------------- MODULE PayrollProofs ----------------------------
(***************************************************************************)
(* Theorems about Payroll for every set of batches, lines and calls.       *)
(* A call decides on unlocked reads, so little of what it has read can be  *)
(* relied on; IInv names what can: its batch exists, and a call that pays  *)
(* lines has seen a funding, which no step takes back.                     *)
(***************************************************************************)
EXTENDS Payroll, TLAPS

Has(event, id) == [event |-> event, of |-> id] \in events

\* The stages of a call that are behind the check for the funding.
Paying == {"pay", "payfail", "finalize"}

\* The batch of a call that creates one adds up; that of any other exists.
JobExists ==
    \A p \in Procs :
        /\ pc[p] = "create" => AddsUp(job[p])
        /\ pc[p] \notin {"idle", "create"} => batch[job[p]] # "NONE"

PaysFromFunding == \A p \in Procs : pc[p] \in Paying => job[p] \in reserved

\* Only a batch that exists has anything to show.
ShownExists ==
    \A b \in Batches :
        b \in funded \/ Has("payroll.batch.failed", b) => batch[b] # "NONE"

DraftIsUnfunded == \A b \in Batches : batch[b] = "DRAFT" => b \notin funded

\* The unique index on employer and key.
OneBatchPerKey ==
    \A b, c \in Batches :
        batch[b] # "NONE" /\ batch[c] # "NONE" /\ KeyOf[b] = KeyOf[c] => b = c

\* Only a batch that adds up was created.
CreatedAddsUp == \A b \in Batches : batch[b] # "NONE" => AddsUp(b)

\* A call that has ended has forgotten its lines.
IdleHasNoLines == \A p \in Procs : pc[p] = "idle" => todo[p] = {}

\* VerdictsAreTrue but for the amounts, which follow from CreatedAddsUp.
Verdicts ==
    \A b \in Batches :
        /\ Has("payroll.batch.completed", b) => b \in funded /\ LinesOf(b) \subseteq paid
        /\ Has("payroll.batch.failed", b) =>
              IF b \in funded
              THEN PendingLines(b) = {} /\ ~(LinesOf(b) \subseteq paid)
              ELSE batch[b] # "DRAFT"

\* What concerns the committed rows alone.
RowInv ==
    /\ MoneyMatchesRows
    /\ Verdicts
    /\ ShownExists
    /\ DraftIsUnfunded
    /\ OneBatchPerKey
    /\ CreatedAddsUp

IInv == TypeOK /\ JobExists /\ PaysFromFunding /\ IdleHasNoLines /\ RowInv

-----------------------------------------------------------------------------

LEMMA InitEstablishes == Init => IInv
<1> SUFFICES ASSUME Init PROVE IInv
  OBVIOUS
<1>1. TypeOK
  BY PayrollAssumption DEF Init, TypeOK, BatchStatus, Stages
<1>2. JobExists /\ PaysFromFunding /\ IdleHasNoLines
  BY DEF Init, JobExists, PaysFromFunding, Paying, IdleHasNoLines
<1>3. MoneyMatchesRows /\ Verdicts
  BY DEF Init, MoneyMatchesRows, Verdicts, Has
<1>4. ShownExists /\ DraftIsUnfunded /\ OneBatchPerKey /\ CreatedAddsUp
  BY DEF Init, ShownExists, DraftIsUnfunded, OneBatchPerKey, CreatedAddsUp, Has
<1>5. QED
  BY <1>1, <1>2, <1>3, <1>4 DEF IInv, RowInv

LEMMA RowsKept == ASSUME RowInv, UNCHANGED rows PROVE RowInv'
BY DEF RowInv, rows, MoneyMatchesRows, Verdicts, ShownExists, DraftIsUnfunded,
       OneBatchPerKey, CreatedAddsUp, Has, LinesOf, PendingLines

\* No step deletes a batch or a funding, and a call gets to paying by seeing one.
LEMMA CallsKept ==
    ASSUME JobExists, PaysFromFunding, reserved \subseteq reserved',
           \A b : batch[b] # "NONE" => batch'[b] # "NONE",
           NEW p \in Procs,
           \A q \in Procs \ {p} : pc'[q] = pc[q] /\ job'[q] = job[q],
           \/ pc'[p] = "idle"
           \/ /\ pc[p] \notin {"idle", "create"} /\ pc'[p] # "create"
              /\ job'[p] = job[p]
              /\ pc'[p] \in Paying => pc[p] \in Paying \/ job[p] \in reserved
    PROVE  JobExists' /\ PaysFromFunding'
<1>1. ASSUME NEW q \in Procs, pc'[q] # "idle"
      PROVE  /\ pc'[q] = "create" => AddsUp(job'[q])
             /\ pc'[q] # "create" => batch'[job'[q]] # "NONE"
             /\ pc'[q] \in Paying => job'[q] \in reserved'
  BY <1>1 DEF JobExists, PaysFromFunding, Paying
<1>2. QED
  BY <1>1 DEF JobExists, PaysFromFunding, Paying

LEMMA ReturnTypes ==
    ASSUME TypeOK, NEW p \in Procs, Return(p)
    PROVE  /\ pc' \in [Procs -> Stages]
           /\ job' \in [Procs -> Batches \cup {None}]
           /\ seen' \in [Procs -> BatchStatus]
           /\ todo' \in [Procs -> SUBSET Lines]
           /\ current' \in [Procs -> Lines \cup {None}]
           /\ pc'[p] = "idle" /\ todo'[p] = {}
           /\ \A q \in Procs \ {p} :
                 /\ pc'[q] = pc[q] /\ job'[q] = job[q]
                 /\ todo'[q] = todo[q] /\ current'[q] = current[q]
BY DEF TypeOK, Return, Stages, BatchStatus

\* A step whose call returns keeps IInv if its rows do and nothing is deleted.
LEMMA ReturnPreserves ==
    ASSUME IInv, NEW p \in Procs, Return(p), RowInv',
           batch' \in [Batches -> BatchStatus],
           line' \in [Lines -> {"PENDING", "COMPLETED", "FAILED"}],
           UNCHANGED <<reserved, funded, paid>>,
           events' \in SUBSET Events,
           \A b : batch[b] # "NONE" => batch'[b] # "NONE"
    PROVE  IInv'
<1>1. TypeOK'
  BY ReturnTypes DEF IInv, TypeOK
<1>2. JobExists' /\ PaysFromFunding'
  BY CallsKept, ReturnTypes DEF IInv
<1>3. IdleHasNoLines'
  BY ReturnTypes DEF IInv, IdleHasNoLines
<1>4. QED
  BY <1>1, <1>2, <1>3 DEF IInv

LEMMA GoToTypes ==
    ASSUME TypeOK, NEW p \in Procs, NEW stage \in Stages, GoTo(p, stage)
    PROVE  /\ pc' \in [Procs -> Stages]
           /\ UNCHANGED <<job, seen>>
           /\ pc'[p] = stage
           /\ \A q \in Procs \ {p} : pc'[q] = pc[q]
BY DEF TypeOK, GoTo

\* A step that changes no row and stays in its call.
LEMMA GoOnPreserves ==
    ASSUME IInv, NEW p \in Procs, NEW stage \in Stages, GoTo(p, stage),
           UNCHANGED <<rows, current>>, pc[p] \notin {"idle", "create"}, stage # "payfail",
           NEW T \in SUBSET LinesOf(job[p]), todo' = todo \/ todo' = [todo EXCEPT ![p] = T],
           stage \notin {"idle", "create"}, stage \in Paying => pc[p] \in Paying \/ job[p] \in reserved
    PROVE  IInv'
<1>1. UNCHANGED <<batch, line, reserved, funded, paid, events>>
  BY DEF rows
<1>2. todo' \in [Procs -> SUBSET Lines] /\ \A i \in todo'[p] : BatchOf[i] = job[p]
  BY DEF IInv, TypeOK, LinesOf
<1>3. \A q \in Procs \ {p} : todo'[q] = todo[q]
  BY DEF IInv, TypeOK
<1>4. TypeOK'
  BY <1>1, <1>2, <1>3, GoToTypes DEF IInv, TypeOK
<1>5. JobExists' /\ PaysFromFunding'
  BY <1>1, CallsKept, GoToTypes DEF IInv
<1>6. IdleHasNoLines'
  BY <1>3, GoToTypes DEF IInv, IdleHasNoLines
<1>7. QED
  BY <1>4, <1>5, <1>6, RowsKept DEF IInv

-----------------------------------------------------------------------------
(* The rows after each transaction *)

LEMMA AskPreserves ==
    ASSUME IInv, NEW p \in Procs, NEW b \in Batches, Ask(p, b)
    PROVE  IInv'
<1>1. /\ pc[p] = "idle" /\ AddsUp(b)
      /\ pc' = [pc EXCEPT ![p] = "create"]
      /\ job' = [job EXCEPT ![p] = b]
      /\ UNCHANGED <<batch, line, reserved, funded, paid, events, seen, todo, current>>
  BY DEF Ask, IsValid, rows
<1>2. ASSUME NEW i \in todo[p] PROVE FALSE
  BY <1>1, <1>2 DEF IInv, IdleHasNoLines
<1>3. TypeOK'
  BY <1>1, <1>2 DEF IInv, TypeOK, Stages
<1>4. JobExists' /\ PaysFromFunding'
  BY <1>1 DEF IInv, TypeOK, JobExists, PaysFromFunding, Paying
<1>5. RowInv'
  BY <1>1, RowsKept DEF IInv, rows
<1>6. IdleHasNoLines'
  BY <1>1 DEF IInv, IdleHasNoLines, TypeOK
<1>7. QED
  BY <1>3, <1>4, <1>5, <1>6 DEF IInv

LEMMA PersistPreserves ==
    ASSUME IInv, NEW p \in Procs, Persist(p)
    PROVE  IInv'
<1> DEFINE b == job[p]
<1>1. /\ pc[p] = "create" /\ b \in Batches /\ AddsUp(b) /\ Return(p)
      /\ UNCHANGED <<line, reserved, funded, paid>>
  BY DEF Persist, IInv, TypeOK, JobExists
<1>2. CASE UNCHANGED <<batch, events>>
  <2>1. UNCHANGED rows
    BY <1>1, <1>2 DEF rows
  <2>2. QED
    BY <1>1, <1>2, <2>1, RowsKept, ReturnPreserves DEF IInv, TypeOK
<1>3. CASE /\ ~KeyTaken(b)
           /\ batch' = [batch EXCEPT ![b] = "DRAFT"]
           /\ Emit("payroll.batch.created", b)
  <2>1. /\ batch[b] = "NONE"
        /\ events' = events \cup {[event |-> "payroll.batch.created", of |-> b]}
    BY <1>1, <1>3 DEF KeyTaken, Emit
  <2>2. /\ batch' \in [Batches -> BatchStatus] /\ events' \in SUBSET Events
        /\ line' \in [Lines -> {"PENDING", "COMPLETED", "FAILED"}]
        /\ \A c : batch[c] # "NONE" => batch'[c] # "NONE"
    BY <1>1, <1>3, <2>1 DEF IInv, TypeOK, BatchStatus, Events, BatchEvents
  <2>3. MoneyMatchesRows'
    BY <1>1, <2>1 DEF IInv, RowInv, MoneyMatchesRows
  <2>4. Verdicts'
    <3>1. \A c \in Batches : \A e \in {"payroll.batch.completed", "payroll.batch.failed"} :
            Has(e, c)' => Has(e, c)
      BY <2>1 DEF Has
    <3>2. ~Has("payroll.batch.failed", b)
      BY <1>1, <2>1 DEF IInv, RowInv, ShownExists
    <3>3. \A c \in Batches : c # b => batch'[c] = batch[c]
      BY <1>3 DEF IInv, TypeOK
    <3>4. \A c : LinesOf(c)' = LinesOf(c) /\ PendingLines(c)' = PendingLines(c)
      BY <1>1 DEF LinesOf, PendingLines
    <3>5. QED
      BY <1>1, <3>1, <3>2, <3>3, <3>4 DEF IInv, RowInv, Verdicts
  <2>5. ShownExists' /\ DraftIsUnfunded'
    BY <1>1, <1>3, <2>1 DEF IInv, RowInv, TypeOK, ShownExists, DraftIsUnfunded, Has
  <2>6. OneBatchPerKey' /\ CreatedAddsUp'
    BY <1>1, <1>3 DEF IInv, RowInv, TypeOK, OneBatchPerKey, KeyTaken, CreatedAddsUp
  <2>7. RowInv'
    BY <2>3, <2>4, <2>5, <2>6 DEF RowInv
  <2>8. QED
    BY <1>1, <2>2, <2>7, ReturnPreserves
<1>4. QED
  BY <1>2, <1>3 DEF Persist, Rejected

\* The funding of a DRAFT batch commits.
LEMMA FundedRows ==
    ASSUME IInv, NEW b \in Batches, batch[b] = "DRAFT",
           funded' = funded \cup {b}, reserved' = reserved \cup {b},
           batch' = [batch EXCEPT ![b] = "FUNDING_RESERVED"],
           Emit("payroll.batch.funded", b), UNCHANGED <<line, paid>>
    PROVE  RowInv'
<1> USE DEF IInv, RowInv, Emit
<1>1. MoneyMatchesRows'
  BY DEF MoneyMatchesRows, TypeOK
<1>2. Verdicts'
  BY DEF Verdicts, Has, LinesOf, PendingLines, TypeOK, DraftIsUnfunded
<1>3. ShownExists' /\ DraftIsUnfunded' /\ OneBatchPerKey' /\ CreatedAddsUp'
  BY DEF ShownExists, DraftIsUnfunded, OneBatchPerKey, CreatedAddsUp, Has, TypeOK
<1>4. QED
  BY <1>1, <1>2, <1>3

LEMMA ReservePreserves ==
    ASSUME IInv, NEW p \in Procs, Reserve(p)
    PROVE  IInv'
<1> DEFINE b == job[p]
<1>1. pc[p] = "reserve" /\ b \in Batches /\ UNCHANGED <<todo, current>>
  BY DEF Reserve, IInv, TypeOK
<1>2. ASSUME NEW stage \in {"disburse", "fundfail"}, GoTo(p, stage), UNCHANGED rows
      PROVE  IInv'
  BY <1>1, <1>2, GoOnPreserves DEF Stages, Paying
<1>3. ASSUME batch[b] = "DRAFT",
             funded' = funded \cup {b}, reserved' = reserved \cup {b},
             batch' = [batch EXCEPT ![b] = "FUNDING_RESERVED"],
             Emit("payroll.batch.funded", b), UNCHANGED <<line, paid>>,
             NEW stage \in {"disburse", "fundfail"}, GoTo(p, stage)
      PROVE  IInv'
  <2>1. RowInv'
    BY <1>1, <1>3, FundedRows
  <2>2. stage \in Stages /\ stage \notin Paying /\ stage # "payfail"
    BY DEF Stages, Paying
  <2>3. [event |-> "payroll.batch.funded", of |-> b] \in Events
    BY <1>1 DEF Events, BatchEvents
  <2>4. TypeOK'
    BY <1>1, <1>3, <2>2, <2>3, GoToTypes DEF IInv, TypeOK, BatchStatus, Emit
  <2>5. JobExists' /\ PaysFromFunding'
    BY <1>1, <1>3, <2>2, CallsKept, GoToTypes DEF IInv, TypeOK
  <2>6. IdleHasNoLines'
    BY <1>1, <1>3, <2>2, GoToTypes DEF IInv, IdleHasNoLines
  <2>7. QED
    BY <2>1, <2>4, <2>5, <2>6 DEF IInv
<1>4. QED
  BY <1>2, <1>3 DEF Reserve, StillDraft

LEMMA FundingFailedPreserves ==
    ASSUME IInv, NEW p \in Procs, FundingFailed(p)
    PROVE  IInv'
<1> DEFINE b == job[p]
<1>1. /\ pc[p] = "fundfail" /\ b \in Batches /\ Return(p)
      /\ UNCHANGED <<line, reserved, funded, paid>>
  BY DEF FundingFailed, IInv, TypeOK
<1>2. CASE UNCHANGED <<batch, events>>
  <2>1. UNCHANGED rows
    BY <1>1, <1>2 DEF rows
  <2>2. QED
    BY <1>1, <1>2, <2>1, RowsKept, ReturnPreserves DEF IInv, TypeOK
<1>3. CASE /\ batch[b] = "DRAFT"
           /\ batch' = [batch EXCEPT ![b] = "FAILED"]
           /\ Emit("payroll.batch.failed", b)
  <2>1. MoneyMatchesRows'
    BY <1>1, <1>3 DEF IInv, RowInv, MoneyMatchesRows, Emit
  <2>2. Verdicts'
    <3>1. \A c \in Batches :
            /\ [event |-> "payroll.batch.completed", of |-> c] \in events' =>
                  [event |-> "payroll.batch.completed", of |-> c] \in events
            /\ [event |-> "payroll.batch.failed", of |-> c] \in events' =>
                  [event |-> "payroll.batch.failed", of |-> c] \in events \/ c = b
      BY <1>3 DEF Emit
    <3>2. b \notin funded /\ batch'[b] = "FAILED"
      BY <1>1, <1>3 DEF IInv, RowInv, DraftIsUnfunded, TypeOK
    <3>3. \A c \in Batches : c # b => batch'[c] = batch[c]
      BY <1>3 DEF IInv, TypeOK
    <3>4. \A c : LinesOf(c)' = LinesOf(c) /\ PendingLines(c)' = PendingLines(c)
      BY <1>1 DEF LinesOf, PendingLines
    <3>5. \A c \in Batches : c = b => c \notin funded' /\ batch'[c] # "DRAFT"
      BY <1>1, <3>2
    <3>6. QED
      BY <1>1, <3>1, <3>3, <3>4, <3>5 DEF IInv, RowInv, Verdicts, Has
  <2>3. ShownExists' /\ DraftIsUnfunded' /\ OneBatchPerKey' /\ CreatedAddsUp'
    BY <1>1, <1>3 DEF IInv, RowInv, ShownExists, DraftIsUnfunded, OneBatchPerKey, CreatedAddsUp, Has,
                      Emit, TypeOK
  <2>4. batch' \in [Batches -> BatchStatus] /\ events' \in SUBSET Events
    BY <1>1, <1>3 DEF IInv, TypeOK, BatchStatus, Events, BatchEvents, Emit
  <2>5. line' \in [Lines -> {"PENDING", "COMPLETED", "FAILED"}]
        /\ \A c : batch[c] # "NONE" => batch'[c] # "NONE"
    BY <1>1, <1>3 DEF IInv, TypeOK
  <2>6. RowInv'
    BY <2>1, <2>2, <2>3 DEF RowInv
  <2>7. QED
    BY <1>1, <2>4, <2>5, <2>6, ReturnPreserves
<1>4. QED
  BY <1>2, <1>3 DEF FundingFailed, MayFailFunding

LEMMA DisbursePreserves ==
    ASSUME IInv, NEW p \in Procs, Disburse(p)
    PROVE  IInv'
<1> DEFINE b == job[p]
<1>1. /\ pc[p] = "disburse" /\ b \in Batches /\ batch[b] # "NONE"
      /\ batch' = [batch EXCEPT ![b] = "DISBURSING"]
      /\ GoTo(p, "reread")
      /\ UNCHANGED <<line, reserved, funded, paid, events, todo, current>>
  BY DEF Disburse, IInv, TypeOK, JobExists
<1>2. "reread" \in Stages \ Paying
  BY DEF Stages, Paying
<1>3. TypeOK'
  BY <1>1, <1>2, GoToTypes DEF IInv, TypeOK, BatchStatus
<1>4. JobExists' /\ PaysFromFunding'
  BY <1>1, <1>2, CallsKept, GoToTypes DEF IInv, TypeOK
<1>5. MoneyMatchesRows' /\ Verdicts'
  BY <1>1 DEF IInv, RowInv, MoneyMatchesRows, Verdicts, Has, LinesOf, PendingLines, TypeOK
<1>6. ShownExists' /\ DraftIsUnfunded' /\ OneBatchPerKey' /\ CreatedAddsUp'
  BY <1>1 DEF IInv, RowInv, ShownExists, DraftIsUnfunded, OneBatchPerKey, CreatedAddsUp, Has, TypeOK
<1>7. IdleHasNoLines'
  BY <1>1, <1>2, GoToTypes DEF IInv, IdleHasNoLines
<1>8. QED
  BY <1>3, <1>4, <1>5, <1>6, <1>7 DEF IInv, RowInv

\* A payout commits: a PENDING line of a funded batch is COMPLETED.
LEMMA PaidRows ==
    ASSUME IInv, NEW i \in Lines, line[i] = "PENDING", BatchOf[i] \in funded,
           paid' = paid \cup {i}, line' = [line EXCEPT ![i] = "COMPLETED"],
           Emit("payroll.item.completed", i), UNCHANGED <<batch, reserved, funded>>
    PROVE  RowInv'
<1> USE DEF IInv, RowInv, Emit
<1>1. MoneyMatchesRows'
  BY DEF MoneyMatchesRows, TypeOK
<1>2. Verdicts'
  <2>1. \A b \in Batches :
          /\ [event |-> "payroll.batch.completed", of |-> b] \in events' =>
                [event |-> "payroll.batch.completed", of |-> b] \in events
          /\ [event |-> "payroll.batch.failed", of |-> b] \in events' =>
                [event |-> "payroll.batch.failed", of |-> b] \in events
    OBVIOUS
  <2>2. \A b \in Batches : PendingLines(b) = {} => i \notin LinesOf(b)
    BY DEF PendingLines, LinesOf
  <2>3. \A b \in Batches : PendingLines(b)' \subseteq PendingLines(b)
    BY DEF PendingLines, LinesOf, TypeOK
  <2>4. \A b \in Batches :
          i \notin LinesOf(b) /\ LinesOf(b) \subseteq paid' => LinesOf(b) \subseteq paid
    OBVIOUS
  <2>5. \A b \in Batches : LinesOf(b)' = LinesOf(b)
    BY DEF LinesOf
  <2>6. QED
    BY <2>1, <2>2, <2>3, <2>4, <2>5 DEF Verdicts, Has
<1>3. ShownExists' /\ DraftIsUnfunded' /\ OneBatchPerKey' /\ CreatedAddsUp'
  BY DEF ShownExists, DraftIsUnfunded, OneBatchPerKey, CreatedAddsUp, Has
<1>4. QED
  BY <1>1, <1>2, <1>3

\* Stages and locals of a step of the payout loop; the rows are its caller's care.
LEMMA LoopTypes ==
    ASSUME IInv, NEW p \in Procs, pc[p] \in {"pay", "payfail"},
           NEW stage \in {"pay", "payfail", "finalize"}, GoTo(p, stage),
           NEW T \in SUBSET todo[p], todo' = [todo EXCEPT ![p] = T],
           NEW c \in Lines \cup {None}, current' = [current EXCEPT ![p] = c],
           stage = "payfail" => c \in Lines,
           UNCHANGED <<batch, reserved, funded>>,
           line' \in [Lines -> {"PENDING", "COMPLETED", "FAILED"}],
           paid' \in SUBSET Lines, events' \in SUBSET Events,
           RowInv'
    PROVE  IInv'
<1>1. stage \in Stages
  BY DEF Stages
<1>2. /\ todo' \in [Procs -> SUBSET Lines] /\ todo'[p] \subseteq todo[p]
      /\ \A q \in Procs \ {p} : todo'[q] = todo[q] /\ current'[q] = current[q]
      /\ current' \in [Procs -> Lines \cup {None}] /\ current'[p] = c
  BY DEF IInv, TypeOK
<1>3. TypeOK'
  BY <1>1, <1>2, GoToTypes DEF IInv, TypeOK
<1>4. JobExists' /\ PaysFromFunding'
  BY <1>1, CallsKept, GoToTypes DEF IInv, Paying
<1>5. IdleHasNoLines'
  BY <1>1, <1>2, GoToTypes DEF IInv, IdleHasNoLines
<1>6. QED
  BY <1>3, <1>4, <1>5 DEF IInv

LEMMA PayPreserves ==
    ASSUME IInv, NEW p \in Procs, NEW i \in Lines, Pay(p, i)
    PROVE  IInv'
<1> DEFINE next == AfterLines(todo[p] \ {i})
           T == todo[p] \ {i}
<1>1. /\ pc[p] = "pay" /\ i \in todo[p] /\ todo' = [todo EXCEPT ![p] = T]
      /\ next \in {"pay", "finalize"}
  BY DEF Pay, AfterLines
<1>2. current[p] \in Lines \cup {None} /\ current = [current EXCEPT ![p] = current[p]]
  BY DEF IInv, TypeOK
<1>3. BatchOf[i] \in funded
  BY <1>1 DEF IInv, PaysFromFunding, Paying, TypeOK, RowInv, MoneyMatchesRows
<1>4. [event |-> "payroll.item.completed", of |-> i] \in Events
  BY DEF Events
<1> HIDE DEF next, T
<1>5. T \in SUBSET todo[p]
  BY DEF T
<1>6. ASSUME UNCHANGED rows,
             NEW stage \in {"pay", "payfail", "finalize"}, GoTo(p, stage),
             NEW c \in Lines \cup {None}, current' = [current EXCEPT ![p] = c],
             stage = "payfail" => c \in Lines
      PROVE  IInv'
  <2>1. RowInv' /\ UNCHANGED <<batch, line, reserved, funded, paid, events>>
    BY <1>6, RowsKept DEF IInv, rows
  <2>2. QED
    BY <1>1, <1>5, <1>6, <2>1, LoopTypes DEF IInv, TypeOK
<1>7. ASSUME line[i] = "PENDING", paid' = paid \cup {i},
             line' = [line EXCEPT ![i] = "COMPLETED"],
             Emit("payroll.item.completed", i), UNCHANGED <<batch, reserved, funded>>,
             NEW stage \in {"pay", "payfail", "finalize"}, GoTo(p, stage),
             NEW c \in Lines \cup {None}, current' = [current EXCEPT ![p] = c],
             stage = "payfail" => c \in Lines
      PROVE  IInv'
  <2>1. RowInv'
    BY <1>3, <1>7, PaidRows
  <2>2. /\ line' \in [Lines -> {"PENDING", "COMPLETED", "FAILED"}]
        /\ paid' \in SUBSET Lines /\ events' \in SUBSET Events
    BY <1>4, <1>7 DEF IInv, TypeOK, Emit
  <2>3. QED
    BY <1>1, <1>5, <1>7, <2>1, <2>2, LoopTypes
<1>8. CASE ~StillPending(i)
  BY <1>1, <1>2, <1>6, <1>8 DEF Pay, next
<1>9. CASE /\ StillPending(i)
           /\ paid' = paid \cup {i}
           /\ line' = [line EXCEPT ![i] = "COMPLETED"]
           /\ Emit("payroll.item.completed", i)
           /\ \/ GoTo(p, next) /\ UNCHANGED current
              \/ GoTo(p, "payfail") /\ current' = [current EXCEPT ![p] = i]
           /\ UNCHANGED <<batch, reserved, funded>>
  BY <1>1, <1>2, <1>7, <1>9 DEF StillPending
<1>10. CASE /\ GoTo(p, "payfail")
            /\ current' = [current EXCEPT ![p] = i]
            /\ UNCHANGED rows
  BY <1>6, <1>10
<1>11. QED
  BY <1>8, <1>9, <1>10 DEF Pay, next

LEMMA PayoutFailedPreserves ==
    ASSUME IInv, NEW p \in Procs, PayoutFailed(p)
    PROVE  IInv'
<1> DEFINE i == current[p]
<1>1. /\ pc[p] = "payfail" /\ i \in Lines
      /\ line' = line \/ (line[i] = "PENDING" /\ line' = [line EXCEPT ![i] = "FAILED"])
      /\ current' = [current EXCEPT ![p] = None]
      /\ GoTo(p, AfterLines(todo[p]))
      /\ UNCHANGED <<batch, reserved, funded, paid, events, todo>>
  BY DEF PayoutFailed, FailedLine, IInv, TypeOK
<1>2. AfterLines(todo[p]) \in {"pay", "finalize"}
  BY DEF AfterLines
<1>3. todo[p] \in SUBSET todo[p] /\ todo' = [todo EXCEPT ![p] = todo[p]]
  BY <1>1 DEF IInv, TypeOK
<1>4. line' \in [Lines -> {"PENDING", "COMPLETED", "FAILED"}]
  BY <1>1 DEF IInv, TypeOK
<1>5. MoneyMatchesRows'
  BY <1>1 DEF IInv, RowInv, MoneyMatchesRows, TypeOK
<1>6. Verdicts'
  <2>1. \A b \in Batches : PendingLines(b)' \subseteq PendingLines(b)
    BY <1>1 DEF PendingLines, LinesOf, IInv, TypeOK
  <2>2. QED
    BY <1>1, <2>1 DEF IInv, RowInv, Verdicts, Has, LinesOf
<1>7. ShownExists' /\ DraftIsUnfunded' /\ OneBatchPerKey' /\ CreatedAddsUp'
  BY <1>1 DEF IInv, RowInv, ShownExists, DraftIsUnfunded, OneBatchPerKey, CreatedAddsUp, Has
<1>8. RowInv'
  BY <1>5, <1>6, <1>7 DEF RowInv
<1>9. paid' \in SUBSET Lines /\ events' \in SUBSET Events
  BY <1>1 DEF IInv, TypeOK
<1>10. QED
  BY <1>1, <1>2, <1>3, <1>4, <1>8, <1>9, LoopTypes

LEMMA FinalizePreserves ==
    ASSUME IInv, NEW p \in Procs, Finalize(p)
    PROVE  IInv'
<1> DEFINE b == job[p]
<1>1. /\ pc[p] = "finalize" /\ b \in Batches /\ Return(p)
      /\ UNCHANGED <<line, reserved, funded, paid>>
  BY DEF Finalize, IInv, TypeOK
<1>2. CASE UNCHANGED <<batch, events>>
  <2>1. UNCHANGED rows
    BY <1>1, <1>2 DEF rows
  <2>2. QED
    BY <1>1, <1>2, <2>1, RowsKept, ReturnPreserves DEF IInv, TypeOK
<1>3. CASE /\ MayConclude(b)
           /\ batch' = [batch EXCEPT ![b] = Verdict(b)]
           /\ Emit(VerdictEvent(b), b)
  <2>1. /\ Verdict(b) \in {"FAILED", "COMPLETED"}
        /\ VerdictEvent(b) \in {"payroll.batch.failed", "payroll.batch.completed"}
    BY DEF Verdict, VerdictEvent
  <2>2. batch[b] = "DISBURSING" /\ PendingLines(b) = {} /\ b \in funded
    BY <1>1, <1>3 DEF MayConclude, IInv, PaysFromFunding, Paying, RowInv, MoneyMatchesRows
  <2>3. VerdictEvent(b) = "payroll.batch.completed" => LinesOf(b) \subseteq paid
    <3>1. SUFFICES ASSUME Verdict(b) # "FAILED", NEW i \in LinesOf(b)
                   PROVE  i \in paid
      BY DEF VerdictEvent
    <3>2. line[i] # "FAILED" /\ line[i] # "PENDING" /\ i \in Lines
      BY <2>2, <3>1 DEF Verdict, PendingLines, LinesOf
    <3>3. QED
      BY <3>2 DEF IInv, TypeOK, RowInv, MoneyMatchesRows
  <2>4. VerdictEvent(b) = "payroll.batch.failed" => ~(LinesOf(b) \subseteq paid)
    BY DEF VerdictEvent, Verdict, LinesOf, IInv, RowInv, MoneyMatchesRows
  <2>5. MoneyMatchesRows'
    BY <1>1, <1>3, <2>1 DEF IInv, RowInv, MoneyMatchesRows, Emit
  <2>6. Verdicts'
    <3>1. \A c \in Batches :
            /\ [event |-> "payroll.batch.completed", of |-> c] \in events' =>
                  \/ [event |-> "payroll.batch.completed", of |-> c] \in events
                  \/ c = b /\ VerdictEvent(b) = "payroll.batch.completed"
            /\ [event |-> "payroll.batch.failed", of |-> c] \in events' =>
                  \/ [event |-> "payroll.batch.failed", of |-> c] \in events
                  \/ c = b /\ VerdictEvent(b) = "payroll.batch.failed"
      BY <1>3 DEF Emit
    <3>2. \A c \in Batches : batch'[c] = "DRAFT" => batch[c] = "DRAFT"
      BY <1>3, <2>1 DEF IInv, TypeOK
    <3>3. \A c : LinesOf(c)' = LinesOf(c) /\ PendingLines(c)' = PendingLines(c)
      BY <1>1 DEF LinesOf, PendingLines
    <3>4. QED
      BY <1>1, <2>2, <2>3, <2>4, <3>1, <3>2, <3>3 DEF IInv, RowInv, Verdicts, Has
  <2>7. ShownExists' /\ DraftIsUnfunded' /\ OneBatchPerKey' /\ CreatedAddsUp'
    BY <1>1, <1>3, <2>1, <2>2 DEF IInv, RowInv, ShownExists, DraftIsUnfunded,
                                  OneBatchPerKey, CreatedAddsUp, Has, Emit, TypeOK
  <2>8. batch' \in [Batches -> BatchStatus] /\ events' \in SUBSET Events
    BY <1>1, <1>3, <2>1 DEF IInv, TypeOK, BatchStatus, Events, BatchEvents, Emit
  <2>9. line' \in [Lines -> {"PENDING", "COMPLETED", "FAILED"}]
        /\ \A c : batch[c] # "NONE" => batch'[c] # "NONE"
    BY <1>1, <1>3, <2>1 DEF IInv, TypeOK
  <2>10. RowInv'
    BY <2>5, <2>6, <2>7 DEF RowInv
  <2>11. QED
    BY <1>1, <2>8, <2>9, <2>10, ReturnPreserves
<1>4. QED
  BY <1>2, <1>3 DEF Finalize

-----------------------------------------------------------------------------
(* The steps that only read *)

LEMMA QuietReturnPreserves ==
    ASSUME IInv, NEW p \in Procs, Return(p), UNCHANGED rows
    PROVE  IInv'
<1>1. UNCHANGED <<batch, line, reserved, funded, paid, events>>
  BY DEF rows
<1>2. RowInv'
  BY RowsKept DEF IInv
<1>3. QED
  BY <1>1, <1>2, ReturnPreserves DEF IInv, TypeOK

LEMMA StartPreserves ==
    ASSUME IInv, NEW p \in Procs, NEW b \in Batches, Start(p, b)
    PROVE  IInv'
<1>1. /\ pc[p] = "idle" /\ batch[b] # "NONE"
      /\ pc' = [pc EXCEPT ![p] = "check"]
      /\ job' = [job EXCEPT ![p] = b]
      /\ seen' = [seen EXCEPT ![p] = batch[b]]
      /\ UNCHANGED <<batch, line, reserved, funded, paid, events, todo, current>>
  BY DEF Start, rows
<1>2. ASSUME NEW i \in todo[p] PROVE FALSE
  BY <1>1, <1>2 DEF IInv, IdleHasNoLines
<1>3. TypeOK'
  BY <1>1, <1>2 DEF IInv, TypeOK, Stages
<1>4. JobExists' /\ PaysFromFunding'
  BY <1>1 DEF IInv, TypeOK, JobExists, PaysFromFunding, Paying
<1>5. RowInv'
  BY <1>1, RowsKept DEF IInv, rows
<1>6. IdleHasNoLines'
  BY <1>1 DEF IInv, IdleHasNoLines, TypeOK
<1>7. QED
  BY <1>3, <1>4, <1>5, <1>6 DEF IInv

LEMMA CheckPreserves ==
    ASSUME IInv, NEW p \in Procs, Check(p)
    PROVE  IInv'
<1>1. pc[p] = "check" /\ UNCHANGED rows
  BY DEF Check
<1>2. CASE AfterCheck(p) = "idle"
  BY <1>1, <1>2, QuietReturnPreserves DEF Check
<1>3. CASE AfterCheck(p) # "idle"
  <2>1. AfterCheck(p) \in {"idle", "reserve", "disburse", "reread"}
    BY DEF AfterCheck
  <2>2. GoTo(p, AfterCheck(p)) /\ UNCHANGED <<todo, current>>
    BY <1>3 DEF Check
  <2>3. {} \in SUBSET LinesOf(job[p])
    OBVIOUS
  <2>4. QED
    BY <1>1, <1>3, <2>1, <2>2, <2>3, GoOnPreserves DEF Stages, Paying
<1>4. QED
  BY <1>2, <1>3

LEMMA RereadPreserves ==
    ASSUME IInv, NEW p \in Procs, Reread(p)
    PROVE  IInv'
<1> DEFINE b == job[p]
<1>1. pc[p] = "reread" /\ UNCHANGED rows
  BY DEF Reread
<1>2. CASE ~HasFunds(b)
  BY <1>1, <1>2, QuietReturnPreserves DEF Reread
<1>3. CASE HasFunds(b)
  <2>1. /\ todo' = [todo EXCEPT ![p] = ToPay(b)]
        /\ GoTo(p, AfterLines(ToPay(b))) /\ UNCHANGED current
    BY <1>3 DEF Reread
  <2>2. ToPay(b) \in SUBSET LinesOf(b)
    BY DEF ToPay, PendingLines
  <2>3. AfterLines(ToPay(b)) \in {"pay", "finalize"}
    BY DEF AfterLines
  <2>4. QED
    BY <1>1, <1>3, <2>1, <2>2, <2>3, GoOnPreserves DEF HasFunds, Stages, Paying
<1>4. QED
  BY <1>2, <1>3

LEMMA NextPreserves == IInv /\ [Next]_vars => IInv'
<1> SUFFICES ASSUME IInv, [Next]_vars PROVE IInv'
  OBVIOUS
<1>1. ASSUME NEW p \in Procs, NEW b \in Batches, Ask(p, b) PROVE IInv'
  BY <1>1, AskPreserves
<1>2. ASSUME NEW p \in Procs, NEW b \in Batches, Start(p, b) PROVE IInv'
  BY <1>2, StartPreserves
<1>3. ASSUME NEW p \in Procs, Work(p) PROVE IInv'
  BY <1>3, PersistPreserves, CheckPreserves, ReservePreserves, FundingFailedPreserves, DisbursePreserves,
     RereadPreserves, PayPreserves, PayoutFailedPreserves, FinalizePreserves DEF Work
<1>4. ASSUME NEW p \in Procs, Crash(p) PROVE IInv'
  BY <1>4, QuietReturnPreserves DEF Crash
<1>5. CASE UNCHANGED vars
  <2>1. TypeOK' /\ RowInv'
    BY <1>5, RowsKept DEF vars, rows, IInv, TypeOK
  <2>2. JobExists' /\ PaysFromFunding' /\ IdleHasNoLines'
    BY <1>5 DEF vars, rows, IInv, JobExists, PaysFromFunding, IdleHasNoLines
  <2>3. QED
    BY <2>1, <2>2 DEF IInv
<1>6. QED
  BY <1>1, <1>2, <1>3, <1>4, <1>5 DEF Next

LEMMA Inductive == Spec => []IInv
BY InitEstablishes, NextPreserves, PTL DEF Spec

-----------------------------------------------------------------------------
(* The theorems *)

\* Every reachable state is well typed: a call never works on another batch's lines.
THEOREM PayrollTypes == Spec => []TypeOK
<1>1. IInv => TypeOK
  BY DEF IInv
<1>2. QED
  BY <1>1, Inductive, PTL

\* The rows of payroll and the ledger transactions of its fundings and payouts
\* agree at every commit, for any number of calls, crashes and lost COMMITs.
THEOREM MoneyAlwaysMatches == Spec => []MoneyMatchesRows
<1>1. IInv => MoneyMatchesRows
  BY DEF IInv, RowInv
<1>2. QED
  BY <1>1, Inductive, PTL

\* payroll.batch.completed and payroll.batch.failed are true when they are
\* enqueued and stay true.
THEOREM VerdictsStayTrue == Spec => []VerdictsAreTrue
<1>1. IInv => VerdictsAreTrue
  <2> SUFFICES ASSUME IInv, NEW b \in Batches
               PROVE  VerdictsAreTrue!(b)
    BY DEF VerdictsAreTrue
  <2>1. b \in funded => AmountOf(LinesOf(b)) = Total[b]
    BY DEF IInv, RowInv, ShownExists, CreatedAddsUp, AddsUp
  <2>2. LinesOf(b) \subseteq paid => LinesOf(b) \cap paid = LinesOf(b)
    OBVIOUS
  <2>3. QED
    BY <2>1, <2>2 DEF IInv, RowInv, Verdicts, Has
<1>2. QED
  BY <1>1, Inductive, PTL

\* One idempotency key of an employer funds one batch at most.
THEOREM OneFundingPerKey == Spec => []FundedOncePerKey
<1>1. IInv => FundedOncePerKey
  BY DEF IInv, RowInv, FundedOncePerKey, OneBatchPerKey, ShownExists, TypeOK
<1>2. QED
  BY <1>1, Inductive, PTL

\* No step of any call changes a line that is COMPLETED or FAILED.
THEOREM LinesSettleOnce == Spec => SettledLinesStay
<1> DEFINE Kept == \A i \in Lines : line[i] # "PENDING" => line'[i] = line[i]
<1>1. TypeOK /\ [Next]_vars => Kept
  <2> SUFFICES ASSUME TypeOK, [Next]_vars, NEW i \in Lines, line[i] # "PENDING"
               PROVE  line'[i] = line[i]
    OBVIOUS
  <2>1. ASSUME NEW p \in Procs, NEW b \in Batches, Ask(p, b) PROVE line'[i] = line[i]
    BY <2>1 DEF Ask, rows
  <2>2. ASSUME NEW p \in Procs, NEW b \in Batches, Start(p, b) PROVE line'[i] = line[i]
    BY <2>2 DEF Start, rows
  <2>3. ASSUME NEW p \in Procs, NEW j \in Lines, Pay(p, j) PROVE line'[i] = line[i]
    BY <2>3 DEF Pay, rows, StillPending, TypeOK
  <2>4. ASSUME NEW p \in Procs, PayoutFailed(p) PROVE line'[i] = line[i]
    BY <2>4 DEF PayoutFailed, FailedLine, TypeOK
  <2>5. ASSUME NEW p \in Procs, Work(p) PROVE line'[i] = line[i]
    <3>1. CASE Check(p) \/ Reread(p)
      BY <3>1 DEF Check, Reread, rows
    <3>2. CASE Reserve(p)
      BY <3>2 DEF Reserve, rows
    <3>3. CASE Persist(p) \/ FundingFailed(p) \/ Disburse(p) \/ Finalize(p)
      BY <3>3 DEF Persist, FundingFailed, Disburse, Finalize
    <3>4. QED
      BY <2>3, <2>4, <2>5, <3>1, <3>2, <3>3 DEF Work
  <2>6. ASSUME NEW p \in Procs, Crash(p) PROVE line'[i] = line[i]
    BY <2>6 DEF Crash, rows
  <2>7. CASE UNCHANGED vars
    BY <2>7 DEF vars, rows
  <2>8. QED
    BY <2>1, <2>2, <2>5, <2>6, <2>7 DEF Next
<1>2. Spec => []TypeOK
  BY PayrollTypes
<1>3. QED
  BY <1>1, <1>2, PTL DEF Spec, SettledLinesStay
=============================================================================
