--------------------------- MODULE PaymentsProofs ---------------------------
(***************************************************************************)
(* Theorems about Payments for every set of keys, requests and processes   *)
(* and every pool.  The inductive invariant IInv says what the key's slot  *)
(* and the account locks guarantee between their acquisition and COMMIT.   *)
(***************************************************************************)
EXTENDS Payments, TLAPS

\* The stages in which a request holds its key's slot.
InSlot == {"share", "lock", "fraud", "decline", "post"}

\* A request past the insert holds the slot of a key that is still undecided.
SlotHeld ==
    \A p \in Procs : pc[p] \in InSlot => slot[p] = Key(p) /\ Key(p) \notin DOMAIN payments

SlotsExclusive ==
    \A p, q \in Procs : p # q /\ slot[p] # None => slot[p] # slot[q]

\* Before the insert, and between requests, nothing is held.
NothingHeldEarly ==
    \A p \in Procs : pc[p] \notin InSlot => slot[p] = None /\ held[p] = {}

\* From the account checks to COMMIT both legs stay locked and ready.
LegsStayReady ==
    \A p \in Procs : pc[p] \in {"fraud", "decline", "post"} =>
        Legs(Body(p)) \subseteq held[p] /\ Ready(Body(p))

PostApproved == \A p \in Procs : pc[p] = "post" => Key(p) \in approvals

IInv ==
    /\ TypeOK
    /\ SlotHeld
    /\ SlotsExclusive
    /\ NothingHeldEarly
    /\ LegsStayReady
    /\ PostApproved
    /\ TablesAgree
    /\ AnswersStayTrue

-----------------------------------------------------------------------------
(* The initial state and the two shapes of a transaction's end *)

LEMMA InitEstablishes == Init => IInv
<1> SUFFICES ASSUME Init PROVE IInv
  OBVIOUS
<1> USE PaymentsAssumption DEF Init
<1>1. TypeOK
  BY DEF TypeOK, Stages, Busy, NoAnswer, Answers
<1>2. TablesAgree
  BY DEF TablesAgree
<1>3. AnswersStayTrue
  BY DEF AnswersStayTrue, NoAnswer, Decided
<1>4. QED
  BY <1>1, <1>2, <1>3 DEF IInv, SlotHeld, SlotsExclusive, NothingHeldEarly,
     LegsStayReady, PostApproved, InSlot

\* What the end of p's transaction does to the processes.
Ended(p, out) ==
    /\ pc'[p] = "idle" /\ slot'[p] = None /\ held'[p] = {}
    /\ answer'[p] = [key |-> Key(p), body |-> Body(p), out |-> out]
    /\ \A q \in Procs \ {p} :
          /\ pc'[q] = pc[q] /\ req'[q] = req[q] /\ slot'[q] = slot[q]
          /\ held'[q] = held[q] /\ answer'[q] = answer[q]
    /\ status' = status /\ approvals' = approvals

LEMMA EndLocals ==
    ASSUME TypeOK, NEW p \in Procs, NEW out \in Answers, End(p, out)
    PROVE  /\ Ended(p, out)
           /\ pc' \in [Procs -> Stages]
           /\ slot' \in [Procs -> Keys \cup {None}]
           /\ shared' \in [Procs -> SUBSET Accounts]
           /\ held' \in [Procs -> SUBSET Accounts]
           /\ DOMAIN req' = Procs
           /\ DOMAIN answer' = Procs
           /\ \A q \in Procs : pc'[q] # "idle" => pc[q] # "idle" /\ req'[q] = req[q]
           /\ \A q \in Procs : answer'[q].out \in Answers
BY DEF TypeOK, End, Stages, Ended

\* The part of IInv about processes survives the end of a transaction whatever
\* rows it writes, when other requests' keys stay undecided.
LEMMA EndKeepsLocals ==
    ASSUME IInv, NEW p \in Procs, NEW out \in Answers, End(p, out),
           \A q \in Procs \ {p} : pc[q] \in InSlot => Key(q) \notin DOMAIN payments'
    PROVE  /\ SlotHeld' /\ SlotsExclusive' /\ NothingHeldEarly'
           /\ LegsStayReady' /\ PostApproved'
<1>0. Ended(p, out)
  BY EndLocals DEF IInv
<1> USE <1>0 DEF IInv, Ended
<1>1. SlotHeld'
  BY DEF SlotHeld, InSlot, Key
<1>2. SlotsExclusive'
  BY DEF SlotsExclusive
<1>3. NothingHeldEarly'
  BY DEF NothingHeldEarly, InSlot
<1>4. LegsStayReady'
  BY DEF LegsStayReady, Legs, Body, Ready
<1>5. PostApproved'
  BY DEF PostApproved, Key
<1>6. QED
  BY <1>1, <1>2, <1>3, <1>4, <1>5

\* A rollback, whose answer is an outcome only if the key has it already.
LEMMA RollbackPreserves ==
    ASSUME IInv, NEW p \in Procs, NEW out \in Answers, Rollback(p, out),
           out \in Decided => /\ Key(p) \in DOMAIN payments
                              /\ payments[Key(p)] = [body |-> Body(p), status |-> out]
    PROVE  IInv'
<1> USE DEF IInv, Rollback, rows
<1>1. TypeOK'
  BY EndLocals DEF TypeOK, Busy, Ended
<1>2. \A q \in Procs \ {p} : pc[q] \in InSlot => Key(q) \notin DOMAIN payments'
  BY DEF SlotHeld
<1>3. TablesAgree'
  BY DEF TablesAgree
<1>4. AnswersStayTrue'
  <2>1. Ended(p, out)
    BY EndLocals
  <2>2. QED
    BY <2>1 DEF AnswersStayTrue, Ended
<1>5. QED
  BY <1>1, <1>2, <1>3, <1>4, EndKeepsLocals

-----------------------------------------------------------------------------
(* The commit of a decided payment *)

\* Decide from a stage that holds the slot: the four tables get their rows for a
\* key that had none.
LEMMA DecidePreserves ==
    ASSUME IInv, NEW p \in Procs, NEW out \in Decided, Decide(p, out),
           pc[p] \in InSlot,
           ledger' = ledger \cup (IF out = "COMPLETED" THEN {Key(p)} ELSE {})
    PROVE  IInv'
<1> DEFINE k == Key(p)
<1> USE DEF IInv
<1>1. /\ req[p] \in Requests /\ k \in Keys /\ Body(p) \in Bodies
      /\ out \in Answers /\ k \notin DOMAIN payments /\ End(p, out)
  BY PaymentsAssumption DEF TypeOK, Busy, InSlot, Key, Body, SlotHeld, Answers, Decide
<1>2. /\ DOMAIN payments' = DOMAIN payments \cup {k}
      /\ payments'[k] = [body |-> Body(p), status |-> out]
      /\ \A i \in DOMAIN payments : payments'[i] = payments[i]
  BY <1>1 DEF Decide, Put
<1>3. /\ DOMAIN records' = DOMAIN records \cup {k}
      /\ records'[k] = [fp |-> Body(p), status |-> out]
      /\ \A i \in DOMAIN records : i # k => records'[i] = records[i]
  BY <1>1 DEF Decide, Put
<1>4. events' = events \cup {[event |-> "payment.created", key |-> k],
                             [event |-> TerminalEvent(out), key |-> k]}
  BY DEF Decide
<1>5. TypeOK'
  <2>1. /\ DOMAIN records' \in SUBSET Keys
        /\ \A i \in DOMAIN records' : records'[i] \in [fp : Bodies, status : Decided]
    BY <1>1, <1>3 DEF TypeOK
  <2>2. /\ DOMAIN payments' \in SUBSET Keys
        /\ \A i \in DOMAIN payments' : payments'[i] \in [body : Bodies, status : Decided]
    BY <1>1, <1>2 DEF TypeOK
  <2>3. events' \in SUBSET [event : PaymentEvents, key : Keys]
    BY <1>1, <1>4 DEF TypeOK, PaymentEvents, TerminalEvent
  <2>4. ledger' \in SUBSET Keys
    BY <1>1 DEF TypeOK
  <2>5. QED
    BY <1>1, <2>1, <2>2, <2>3, <2>4, EndLocals DEF TypeOK, Busy, End
<1>6. \A q \in Procs \ {p} : pc[q] \in InSlot => Key(q) \notin DOMAIN payments'
  <2> SUFFICES ASSUME NEW q \in Procs \ {p}, pc[q] \in InSlot
               PROVE  Key(q) \notin DOMAIN payments'
    OBVIOUS
  <2>1. slot[q] = Key(q) /\ slot[p] = k /\ k # None
    BY <1>1, PaymentsAssumption DEF SlotHeld
  <2>2. Key(q) # k
    BY <2>1 DEF SlotsExclusive
  <2>3. QED
    BY <1>2, <2>2 DEF SlotHeld
<1>7. TablesAgree'
  <2>1. DOMAIN records' = DOMAIN payments'
    BY <1>2, <1>3 DEF TablesAgree
  <2>2. ASSUME NEW i \in DOMAIN payments'
        PROVE  /\ records'[i] = [fp |-> payments'[i].body, status |-> payments'[i].status]
               /\ {e.event : e \in {x \in events' : x.key = i}} =
                     {"payment.created", TerminalEvent(payments'[i].status)}
    <3>1. CASE i = k
      <4>1. {x \in events : x.key = k} = {}
        BY <1>1 DEF TablesAgree
      <4>2. {x \in events' : x.key = k} =
               {[event |-> "payment.created", key |-> k],
                [event |-> TerminalEvent(out), key |-> k]}
        BY <1>4, <4>1
      <4>3. {e.event : e \in {x \in events' : x.key = k}} =
               {"payment.created", TerminalEvent(out)}
        <5> DEFINE E == {x \in events' : x.key = k}
        <5>1. \A x \in E : x.event \in {"payment.created", TerminalEvent(out)}
          BY <4>2
        <5>2. /\ [event |-> "payment.created", key |-> k] \in E
              /\ [event |-> TerminalEvent(out), key |-> k] \in E
          BY <4>2
        <5> HIDE DEF E
        <5>3. {e.event : e \in E} = {"payment.created", TerminalEvent(out)}
          BY <5>1, <5>2
        <5>4. QED
          BY <5>3 DEF E
      <4>4. QED
        BY <1>2, <1>3, <3>1, <4>3
    <3>2. CASE i # k
      <4>1. i \in DOMAIN payments /\ payments'[i] = payments[i] /\ records'[i] = records[i]
        BY <1>2, <1>3, <3>2 DEF TablesAgree
      <4>2. {x \in events' : x.key = i} = {x \in events : x.key = i}
        BY <1>4, <3>2
      <4>3. QED
        BY <4>1, <4>2 DEF TablesAgree
    <3>3. QED
      BY <3>1, <3>2
  <2>3. ledger' = {i \in DOMAIN payments' : payments'[i].status = "COMPLETED"}
    BY <1>1, <1>2 DEF TablesAgree
  <2>4. {e.key : e \in events'} = DOMAIN payments'
    <3>1. {e.key : e \in events'} = {e.key : e \in events} \cup {k}
      <4> DEFINE N == {[event |-> "payment.created", key |-> k],
                       [event |-> TerminalEvent(out), key |-> k]}
      <4>1. \A x \in N : x.key = k
        OBVIOUS
      <4>2. N # {} /\ events' = events \cup N
        BY <1>4
      <4> HIDE DEF N
      <4>3. QED
        BY <4>1, <4>2
    <3>2. QED
      BY <1>2, <3>1 DEF TablesAgree
  <2>5. QED
    BY <2>1, <2>2, <2>3, <2>4 DEF TablesAgree
<1>8. AnswersStayTrue'
  <2>1. Ended(p, out)
    BY <1>1, EndLocals
  <2>2. QED
    BY <1>1, <1>2, <2>1 DEF AnswersStayTrue, Ended
<1>9. QED
  BY <1>1, <1>5, <1>6, <1>7, <1>8, EndKeepsLocals

-----------------------------------------------------------------------------
(* The steps of a request *)

LEMMA BeginPreserves ==
    ASSUME IInv, NEW p \in Procs, NEW r \in Requests, Begin(p, r)
    PROVE  IInv'
<1> USE DEF IInv, Begin, rows, locks
<1>1. /\ pc' \in [Procs -> Stages] /\ pc'[p] = "slot" /\ pc[p] = "idle"
      /\ DOMAIN req' = Procs /\ req'[p] = r
      /\ DOMAIN answer' = Procs /\ answer'[p] = NoAnswer
      /\ \A q \in Procs \ {p} :
            pc'[q] = pc[q] /\ req'[q] = req[q] /\ answer'[q] = answer[q]
  BY DEF TypeOK, Stages, Busy
<1>2. TypeOK'
  BY <1>1 DEF TypeOK, Busy, NoAnswer, Answers
<1>3. SlotHeld' /\ SlotsExclusive' /\ NothingHeldEarly'
  BY <1>1 DEF SlotHeld, SlotsExclusive, NothingHeldEarly, InSlot, Key
<1>4. LegsStayReady' /\ PostApproved'
  BY <1>1 DEF LegsStayReady, PostApproved, Legs, Body, Ready, Key
<1>5. TablesAgree'
  BY DEF TablesAgree
<1>6. AnswersStayTrue'
  BY <1>1 DEF AnswersStayTrue, NoAnswer, Decided
<1>7. QED
  BY <1>2, <1>3, <1>4, <1>5, <1>6

\* A step inside the transaction: p goes on to `stage` with its own locks.
LEMMA GoOnPreserves ==
    ASSUME IInv, NEW p \in Procs, NEW stage \in Stages \ {"idle"}, GoTo(p, stage),
           Busy(p),
           approvals' \in SUBSET Keys, approvals \subseteq approvals',
           slot' \in [Procs -> Keys \cup {None}],
           shared' \in [Procs -> SUBSET Accounts],
           held' \in [Procs -> SUBSET Accounts],
           \A q \in Procs \ {p} : slot'[q] = slot[q] /\ held'[q] = held[q],
           IF stage \in InSlot
           THEN /\ slot'[p] = Key(p) /\ Key(p) \notin DOMAIN payments
                /\ \A q \in Procs \ {p} : slot[q] # Key(p)
           ELSE slot'[p] = None /\ held'[p] = {},
           stage \in {"fraud", "decline", "post"} =>
              Legs(Body(p)) \subseteq held'[p] /\ Ready(Body(p)),
           stage = "post" => Key(p) \in approvals'
    PROVE  IInv'
<1> USE DEF IInv, GoTo, rows
<1>1. /\ pc' \in [Procs -> Stages] /\ pc'[p] = stage
      /\ \A q \in Procs \ {p} : pc'[q] = pc[q]
  BY DEF TypeOK
<1>2. TypeOK'
  BY <1>1 DEF TypeOK, Busy
<1>3. SlotHeld'
  BY <1>1 DEF SlotHeld, Key
<1>4. SlotsExclusive'
  BY <1>1 DEF SlotsExclusive
<1>5. NothingHeldEarly'
  BY <1>1 DEF NothingHeldEarly
<1>6. LegsStayReady'
  BY <1>1 DEF LegsStayReady, Legs, Body, Ready
<1>7. PostApproved'
  BY <1>1 DEF PostApproved, Key
<1>8. TablesAgree' /\ AnswersStayTrue'
  BY DEF TablesAgree, AnswersStayTrue
<1>9. QED
  BY <1>2, <1>3, <1>4, <1>5, <1>6, <1>7, <1>8

\* A committed slot answers with the outcome of the very request; an undecided
\* payment is never found.
LEMMA SlotPreserves ==
    ASSUME IInv, NEW p \in Procs, Slot(p)
    PROVE  IInv'
<1> DEFINE k == Key(p)
<1>0. pc[p] = "slot" /\ TypeOK /\ TablesAgree
  BY DEF IInv, Slot
<1>1. CASE k \notin DOMAIN records
  <2>1. GoTo(p, "insert") /\ UNCHANGED <<approvals, locks>>
    BY <1>1 DEF Slot
  <2>2. slot[p] = None /\ held[p] = {}
    BY <1>0 DEF IInv, NothingHeldEarly, InSlot
  <2>3. QED
    BY <1>0, <2>1, <2>2, GoOnPreserves DEF locks, Stages, InSlot, Busy, TypeOK
<1>2. CASE k \in DOMAIN records
  <2>1. k \in DOMAIN payments /\ IsTerminal(payments[k])
    BY <1>0, <1>2 DEF TypeOK, TablesAgree, IsTerminal, Decided
  <2>2. CASE ~SameRequest(p)
    BY <1>2, <2>2, RollbackPreserves DEF Slot, Answers, Decided
  <2>3. CASE SameRequest(p) /\ ~OwnedByActor(req[p])
    BY <1>2, <2>3, RollbackPreserves DEF Slot, Answers, Decided
  <2>4. CASE SameRequest(p) /\ OwnedByActor(req[p])
    <3>1. Rollback(p, payments[k].status)
      BY <1>2, <2>1, <2>4 DEF Slot
    <3>2. payments[k] = [body |-> Body(p), status |-> payments[k].status]
      BY <1>0, <2>1, <2>4 DEF TypeOK, TablesAgree, SameRequest
    <3>3. payments[k].status \in Answers
      BY <1>0, <2>1 DEF TypeOK, Answers
    <3>4. QED
      BY <2>1, <3>1, <3>2, <3>3, RollbackPreserves
  <2>5. QED
    BY <2>2, <2>3, <2>4
<1>3. QED
  BY <1>1, <1>2

LEMMA InsertSlotPreserves ==
    ASSUME IInv, NEW p \in Procs, InsertSlot(p)
    PROVE  IInv'
<1>0. pc[p] = "insert" /\ TypeOK /\ Key(p) \in Keys
  BY PaymentsAssumption DEF IInv, InsertSlot, TypeOK, Busy, Key
<1>1. CASE Rollback(p, "duplicate")
  BY <1>1, RollbackPreserves DEF Answers, Decided
<1>2. CASE /\ Key(p) \notin DOMAIN records /\ GoTo(p, "share")
           /\ slot' = [slot EXCEPT ![p] = Key(p)]
           /\ UNCHANGED <<approvals, shared, held>>
  <2>1. Key(p) \notin DOMAIN payments
    BY <1>2 DEF IInv, TablesAgree
  <2>2. \A q \in Procs \ {p} : slot[q] # Key(p)
    BY DEF InsertSlot, SlotFree
  <2>3. /\ slot' \in [Procs -> Keys \cup {None}] /\ slot'[p] = Key(p)
        /\ \A q \in Procs \ {p} : slot'[q] = slot[q]
    BY <1>0, <1>2 DEF TypeOK
  <2>4. QED
    BY <1>0, <1>2, <2>1, <2>2, <2>3, GoOnPreserves DEF Stages, InSlot, Busy, TypeOK
<1>3. QED
  BY <1>1, <1>2 DEF InsertSlot

\* What a request past the insert knows of its slot.
LEMMA SlotFacts ==
    ASSUME IInv, NEW p \in Procs, pc[p] \in InSlot
    PROVE  /\ slot[p] = Key(p) /\ Key(p) \in Keys /\ Key(p) \notin DOMAIN payments
           /\ \A q \in Procs \ {p} : slot[q] # Key(p)
           /\ Busy(p)
<1>1. slot[p] = Key(p) /\ Key(p) \notin DOMAIN payments /\ Busy(p)
  BY DEF IInv, SlotHeld, InSlot, Busy
<1>2. Key(p) \in Keys /\ Key(p) # None
  BY <1>1, PaymentsAssumption DEF IInv, TypeOK, Key
<1>3. QED
  BY <1>1, <1>2 DEF IInv, SlotsExclusive

LEMMA InsertPaymentPreserves ==
    ASSUME IInv, NEW p \in Procs, InsertPayment(p)
    PROVE  IInv'
<1> DEFINE a == IF Body(p).src \in shared[p] THEN Body(p).dst ELSE Body(p).src
<1>0. pc[p] = "share" /\ TypeOK /\ pc[p] \in InSlot
  BY DEF IInv, InsertPayment, InSlot
<1>1. a \in Accounts
  BY <1>0, PaymentsAssumption DEF TypeOK, Busy, Body
<1>2. CASE \E out \in {"error", "rejected"} : Rollback(p, out)
  BY <1>2, RollbackPreserves DEF Answers, Decided
<1>3. CASE \E stage \in {"share", "lock"} :
              /\ GoTo(p, stage)
              /\ shared' = [shared EXCEPT ![p] = @ \cup {a}]
              /\ UNCHANGED <<approvals, slot, held>>
  <2>1. shared' \in [Procs -> SUBSET Accounts]
    BY <1>0, <1>1, <1>3 DEF TypeOK
  <2>2. PICK stage \in {"share", "lock"} : GoTo(p, stage)
    BY <1>3
  <2>3. QED
    BY <1>0, <1>3, <2>1, <2>2, SlotFacts, GoOnPreserves DEF Stages, InSlot, TypeOK
<1>4. QED
  BY <1>2, <1>3 DEF InsertPayment

LEMMA LockAccountPreserves ==
    ASSUME IInv, NEW p \in Procs, NEW a \in Accounts, LockAccount(p, a)
    PROVE  IInv'
<1>0. pc[p] = "lock" /\ TypeOK /\ pc[p] \in InSlot
  BY DEF IInv, LockAccount, InSlot
<1>1. CASE Rollback(p, "rejected")
  BY <1>1, RollbackPreserves DEF Answers, Decided
<1>2. ASSUME NEW stage \in {"lock", "fraud"}, GoTo(p, stage),
             held' = [held EXCEPT ![p] = @ \cup {a}],
             UNCHANGED <<approvals, slot, shared>>,
             stage = "fraud" => Unlocked(p) = {a} /\ Ready(Body(p))
      PROVE  IInv'
  <2>1. /\ held' \in [Procs -> SUBSET Accounts] /\ held'[p] = held[p] \cup {a}
        /\ \A q \in Procs \ {p} : held'[q] = held[q]
    BY <1>0, <1>2 DEF TypeOK
  <2>2. stage = "fraud" => Legs(Body(p)) \subseteq held'[p]
    BY <1>2, <2>1 DEF Unlocked
  <2>3. stage \in Stages \ {"idle"} /\ stage \in InSlot
    BY DEF Stages, InSlot
  <2>4. QED
    BY <1>0, <1>2, <2>1, <2>2, <2>3, SlotFacts, GoOnPreserves DEF TypeOK
<1>3. QED
  BY <1>1, <1>2 DEF LockAccount

\* The verdict is committed before the payment goes on.
LEMMA EvaluatePreserves ==
    ASSUME IInv, NEW p \in Procs, Evaluate(p)
    PROVE  IInv'
<1>0. pc[p] = "fraud" /\ TypeOK /\ pc[p] \in InSlot
  BY DEF IInv, Evaluate, InSlot
<1>1. PICK v \in Verdicts :
        /\ approvals' = IF v = "APPROVED" THEN approvals \cup {Key(p)} ELSE approvals
        /\ GoTo(p, IF Approves(v) THEN "post" ELSE "decline")
  BY DEF Evaluate
<1> DEFINE stage == IF Approves(v) THEN "post" ELSE "decline"
<1>2. stage \in {"post", "decline"} /\ (stage = "post" => Key(p) \in approvals')
  BY <1>1 DEF Approves
<1>3. approvals' \in SUBSET Keys /\ approvals \subseteq approvals'
  BY <1>0, <1>1, SlotFacts DEF TypeOK
<1>4. Legs(Body(p)) \subseteq held[p] /\ Ready(Body(p))
  BY <1>0 DEF IInv, LegsStayReady
<1>5. UNCHANGED <<slot, shared, held>> /\ GoTo(p, stage)
  BY <1>1 DEF Evaluate, locks
<1> HIDE DEF stage
<1>6. QED
  BY <1>0, <1>2, <1>3, <1>4, <1>5, SlotFacts, GoOnPreserves DEF Stages, InSlot, TypeOK

LEMMA DecideSteps ==
    ASSUME IInv, NEW p \in Procs, Decline(p) \/ Post(p)
    PROVE  IInv'
<1>1. pc[p] \in InSlot
  BY DEF Decline, Post, InSlot
<1>2. PICK out \in Decided : /\ Decide(p, out)
                             /\ ledger' = ledger \cup
                                   (IF out = "COMPLETED" THEN {Key(p)} ELSE {})
  BY DEF Decline, Post, Decided
<1>3. QED
  BY <1>1, <1>2, DecidePreserves

\* A status update waits for FOR UPDATE, so it touches no leg that was checked.
LEMMA UpdateStatusPreserves ==
    ASSUME IInv, NEW a \in Accounts, NEW s \in {"ACTIVE", "FROZEN"}, UpdateStatus(a, s)
    PROVE  IInv'
<1> USE DEF IInv, UpdateStatus, rows, locks
<1>1. TypeOK'
  BY DEF TypeOK, Busy
<1>2. SlotHeld' /\ SlotsExclusive' /\ NothingHeldEarly' /\ PostApproved'
  BY DEF SlotHeld, SlotsExclusive, NothingHeldEarly, PostApproved, Key
<1>3. LegsStayReady'
  <2> SUFFICES ASSUME NEW p \in Procs, pc[p] \in {"fraud", "decline", "post"},
                      NEW b \in Legs(Body(p))
               PROVE  b \in held[p] /\ status'[b] = status[b]
                      /\ status[b] = "ACTIVE" /\ CurrencyOf[b] = Body(p).cur
    BY DEF LegsStayReady, Legs, Body, Ready
  <2>1. b \in held[p] /\ status[b] = "ACTIVE" /\ CurrencyOf[b] = Body(p).cur
    BY DEF LegsStayReady, Ready
  <2>2. b # a
    BY <2>1
  <2>3. QED
    BY <2>1, <2>2 DEF TypeOK
<1>4. TablesAgree' /\ AnswersStayTrue'
  BY DEF TablesAgree, AnswersStayTrue
<1>5. QED
  BY <1>1, <1>2, <1>3, <1>4

-----------------------------------------------------------------------------
(* The theorems *)

LEMMA HandlePreserves ==
    ASSUME IInv, NEW p \in Procs, Handle(p)
    PROVE  IInv'
<1>1. CASE Slot(p)
  BY <1>1, SlotPreserves
<1>2. CASE InsertSlot(p)
  BY <1>2, InsertSlotPreserves
<1>3. CASE InsertPayment(p)
  BY <1>3, InsertPaymentPreserves
<1>4. CASE \E a \in Accounts : LockAccount(p, a)
  BY <1>4, LockAccountPreserves
<1>5. CASE Evaluate(p)
  BY <1>5, EvaluatePreserves
<1>6. CASE Decline(p) \/ Post(p)
  BY <1>6, DecideSteps
<1>7. CASE DeadlockVictim(p)
  BY <1>7, RollbackPreserves DEF DeadlockVictim, Answers, Decided
<1>8. QED
  BY <1>1, <1>2, <1>3, <1>4, <1>5, <1>6, <1>7 DEF Handle

LEMMA NextPreserves == IInv /\ [Next]_vars => IInv'
<1> SUFFICES ASSUME IInv, [Next]_vars PROVE IInv'
  OBVIOUS
<1>1. ASSUME NEW p \in Procs, NEW r \in Requests, Begin(p, r) PROVE IInv'
  BY <1>1, BeginPreserves
<1>2. ASSUME NEW p \in Procs, Handle(p) PROVE IInv'
  BY <1>2, HandlePreserves
<1>3. ASSUME NEW p \in Procs, Crash(p) PROVE IInv'
  BY <1>3, RollbackPreserves DEF Crash, Answers, Decided
<1>4. ASSUME NEW a \in Accounts, NEW s \in {"ACTIVE", "FROZEN"}, UpdateStatus(a, s)
      PROVE  IInv'
  BY <1>4, UpdateStatusPreserves
<1>5. CASE UNCHANGED vars
  <2> USE <1>5 DEF vars, rows, locks, IInv
  <2>1. TypeOK'
    BY DEF TypeOK, Busy
  <2>2. SlotHeld' /\ SlotsExclusive' /\ NothingHeldEarly' /\ PostApproved'
    BY DEF SlotHeld, SlotsExclusive, NothingHeldEarly, PostApproved, Key
  <2>3. LegsStayReady'
    BY DEF LegsStayReady, Body, Legs, Ready
  <2>4. TablesAgree' /\ AnswersStayTrue'
    BY DEF TablesAgree, AnswersStayTrue
  <2>5. QED
    BY <2>1, <2>2, <2>3, <2>4
<1>6. QED
  BY <1>1, <1>2, <1>3, <1>4, <1>5 DEF Next

LEMMA Inductive == Spec => []IInv
<1>1. QED
  BY InitEstablishes, NextPreserves, PTL DEF Spec

\* Every reachable state has the types of TypeOK: above all, no undecided payment
\* is ever visible.
THEOREM PaymentTypes == Spec => []TypeOK
<1>1. IInv => TypeOK
  BY DEF IInv
<1>2. QED
  BY <1>1, Inductive, PTL

\* Slot, payment, ledger and outbox agree about every key at all times.
THEOREM TablesAlwaysAgree == Spec => []TablesAgree
<1>1. IInv => TablesAgree
  BY DEF IInv
<1>2. QED
  BY <1>1, Inductive, PTL

\* No outcome told to a client is ever taken back or told for another body.
THEOREM AnswersAlwaysTrue == Spec => []AnswersStayTrue
<1>1. IInv => AnswersStayTrue
  BY DEF IInv
<1>2. QED
  BY <1>1, Inductive, PTL

\* Only the two committing steps write rows: the decision on a key that had none.
LEMMA RowsChange ==
    ASSUME IInv, [Next]_vars, ~(UNCHANGED rows)
    PROVE  \E p \in Procs, out \in Decided :
              /\ Decide(p, out)
              /\ pc[p] \in {"decline", "post"}
              /\ out = "COMPLETED" => pc[p] = "post"
              /\ ledger' = ledger \cup (IF out = "COMPLETED" THEN {Key(p)} ELSE {})
<1>1. PICK p \in Procs : Handle(p)
  BY DEF Next, vars, rows, Begin, Crash, Rollback, UpdateStatus
<1>2. Decline(p) \/ Post(p)
  <2>1. ~Slot(p)
    BY DEF Slot, GoTo, Rollback
  <2>2. ~InsertSlot(p) /\ ~InsertPayment(p)
    BY DEF InsertSlot, InsertPayment, GoTo, Rollback
  <2>3. ~(\E a \in Accounts : LockAccount(p, a)) /\ ~Evaluate(p) /\ ~DeadlockVictim(p)
    BY DEF LockAccount, Evaluate, DeadlockVictim, GoTo, Rollback
  <2>4. QED
    BY <1>1, <2>1, <2>2, <2>3 DEF Handle
<1>3. QED
  BY <1>2 DEF Decline, Post, Decided

\* The detailed service implements the abstract promise: every key is decided
\* once, and its money moves in the very step that decides it COMPLETED.
THEOREM PaymentsImplementOnce == Spec => DecidedOnce
<1> DEFINE D == [k \in DOMAIN payments |->
                    [body |-> payments[k].body, outcome |-> payments[k].status]]
<1>1. Init => Once!OnceInit
  <2> SUFFICES ASSUME Init PROVE Once!OnceInit
    OBVIOUS
  <2>1. DOMAIN payments = {}
    BY DEF Init
  <2>2. QED
    BY <2>1 DEF Init, Once!OnceInit
<1>2. IInv /\ [Next]_vars => [Once!OnceNext]_<<D, ledger>>
  <2> SUFFICES ASSUME IInv, [Next]_vars PROVE [Once!OnceNext]_<<D, ledger>>
    OBVIOUS
  <2>1. CASE UNCHANGED rows
    BY <2>1 DEF rows
  <2>2. CASE ~(UNCHANGED rows)
    <3>1. PICK p \in Procs, out \in Decided :
            /\ Decide(p, out)
            /\ pc[p] \in {"decline", "post"}
            /\ ledger' = ledger \cup (IF out = "COMPLETED" THEN {Key(p)} ELSE {})
      BY <2>2, RowsChange
    <3> DEFINE k == Key(p)
    <3>2. k \in Keys /\ k \notin DOMAIN payments
      BY <3>1, SlotFacts DEF InSlot
    <3>3. Body(p) \in Bodies
      BY <3>1, PaymentsAssumption DEF IInv, TypeOK, Busy, Body
    <3>4. /\ DOMAIN payments' = DOMAIN payments \cup {k}
          /\ payments'[k] = [body |-> Body(p), status |-> out]
          /\ \A i \in DOMAIN payments : payments'[i] = payments[i]
      BY <3>1, <3>2 DEF Decide, Put
    <3>5. D' = [i \in DOMAIN D \cup {k} |->
                  IF i = k THEN [body |-> Body(p), outcome |-> out] ELSE D[i]]
      BY <3>2, <3>4
    <3>6. ledger' = IF out = "COMPLETED" THEN ledger \cup {k} ELSE ledger
      BY <3>1
    <3>7. k \notin DOMAIN D
      BY <3>2
    <3>8. Once!Decide(k, Body(p), out)
      BY <3>5, <3>6, <3>7 DEF Once!Decide
    <3>9. out \in Once!Outcomes
      BY DEF Decided, Once!Outcomes
    <3>10. QED
      BY <3>2, <3>3, <3>8, <3>9 DEF Once!OnceNext
  <2>3. QED
    BY <2>1, <2>2
<1>3. QED
  BY <1>1, <1>2, Inductive, PTL DEF Spec, DecidedOnce, Once!OnceSpec

\* Money moves only with a committed approval and between accounts that are
\* ready at that moment: what was checked under the locks still holds.
THEOREM MovesCleared == Spec => MovesOnlyWhenCleared
<1> DEFINE A == \A k \in ledger' \ ledger :
                   /\ k \in approvals
                   /\ \A a \in Legs(payments'[k].body) :
                         status[a] = "ACTIVE" /\ CurrencyOf[a] = payments'[k].body.cur
<1>1. IInv /\ [Next]_vars => [A]_vars
  <2> SUFFICES ASSUME IInv, [Next]_vars, NEW k \in ledger' \ ledger
               PROVE  /\ k \in approvals
                      /\ \A a \in Legs(payments'[k].body) :
                            status[a] = "ACTIVE" /\ CurrencyOf[a] = payments'[k].body.cur
    OBVIOUS
  <2>1. PICK p \in Procs, out \in Decided :
          /\ Decide(p, out)
          /\ out = "COMPLETED" => pc[p] = "post"
          /\ ledger' = ledger \cup (IF out = "COMPLETED" THEN {Key(p)} ELSE {})
    BY RowsChange DEF rows
  <2>2. pc[p] = "post" /\ k = Key(p)
    BY <2>1
  <2>3. payments'[k].body = Body(p)
    BY <2>1, <2>2 DEF Decide, Put
  <2>4. k \in approvals /\ Ready(payments'[k].body)
    BY <2>2, <2>3 DEF IInv, PostApproved, LegsStayReady
  <2>5. QED
    BY <2>4 DEF Ready
<1>2. QED
  BY <1>1, Inductive, PTL DEF Spec, MovesOnlyWhenCleared
=============================================================================
