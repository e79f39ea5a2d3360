------------------------------- MODULE Fraud --------------------------------
(***************************************************************************)
(* Synchronous fraud evaluation (FraudService, FraudRuleEngineService,     *)
(* FraudRuleLogService).                                                   *)
(*                                                                         *)
(* An evaluation starts five rules at once and waits for all of them or    *)
(* for its time budget, whichever is first.  Two rules keep a sliding      *)
(* window in Redis and use it in three calls (prune, read, add); two read  *)
(* PostgreSQL; one only looks at the amount.  Then come the side effects,  *)
(* then the decision with its outbox row in a transaction of its own.      *)
(* Redis or the database may refuse any call or never answer it, and calls *)
(* already sent when the budget runs out may still be carried out.         *)
(***************************************************************************)
EXTENDS Integers, Sequences, FiniteSets

CONSTANTS
    Evaluations,   \* evaluations that may be asked for, each once
    Ctx,           \* context of each evaluation
    Window,        \* length of the window of each of the two window rules
    VELOCITY_THRESHOLD, RECIPIENT_DISTINCT_SENDER_THRESHOLD,
    Resolvers,     \* bound on the requests in flight to resolve one decision
    Parallel,      \* bound on the evaluations in flight at once
    Horizon,       \* bound on the clock
    None           \* no device, no decision

LARGE_AMOUNT_USD == 10000
NEW_DEVICE_AMOUNT == 500
UNUSUAL_HOUR_AMOUNT == 200
UNUSUAL_HOUR_BUCKETS == {2, 3, 4}

WindowRules == {"VELOCITY", "RECIPIENT_VELOCITY"}
DatabaseRules == {"NEW_DEVICE_LARGE_AMOUNT", "UNUSUAL_HOUR_PATTERN"}
RuleTypes == WindowRules \cup DatabaseRules \cup {"LARGE_TRANSACTION"}

Decisions == {"APPROVED", "REVIEW", "ACTION_REQUIRED", "BLOCKED"}

\* What a caller passes.  `device` is the fingerprint, or else the device id;
\* a payment passes none.
IsContext(c) ==
    /\ DOMAIN c = {"user", "sender", "recipient", "ref", "amount", "device", "hour"}
    /\ c.amount \in Nat
    /\ c.hour \in 0..23

ASSUME FraudAssumption ==
    /\ IsFiniteSet(Evaluations) /\ Parallel \in Nat /\ Horizon \in Nat
    /\ DOMAIN Ctx = Evaluations /\ \A e \in Evaluations : IsContext(Ctx[e])
    /\ Window \in [WindowRules -> Nat]
    /\ VELOCITY_THRESHOLD \in Nat /\ RECIPIENT_DISTINCT_SENDER_THRESHOLD \in Nat
    /\ Resolvers \in Nat \ {0} /\ None \notin Decisions

VARIABLES
    clock,
    windows,    \* entries of all Redis sorted sets
    known,      \* rows of `fraud_known_devices`
    history,    \* transaction_count per user and hour; 0 where there is no row
    decided,    \* final_decision of each evaluation's row, or None
    announced,  \* fraud rows of `outbox_events`, per evaluation
    stage,      \* where each evaluation is
    began,      \* the `now` of each evaluation
    call,       \* next Redis call of each window rule of each evaluation
    found,      \* window rules that read too much in their window and have yet to add
    waiting,    \* rules an evaluation still waits for
    worst,      \* worst contribution of the others
    device,     \* registering the device
    bump,       \* adding to the hour profile
    seen,       \* the count that was read for it, until it is saved
    resolving,  \* operators' transactions that hold each decision FOR UPDATE
    attempts,   \* every entry ever added: `windows` had nothing been pruned
    missed,     \* evaluations that did not find too many where there were
    flawed      \* evaluations with a rule that found too much in its window, or in ERROR

shared == <<windows, known, history, decided, announced>>
local == <<began, call, found, waiting, worst, device, bump, seen>>
vars == <<clock, shared, stage, local, resolving, attempts, missed, flawed>>

-----------------------------------------------------------------------------

\* The sorted set a rule looks at, and the member it adds to it.
Key(e, r) == IF r = "VELOCITY" THEN Ctx[e].user ELSE Ctx[e].recipient
Member(e, r) == IF r = "VELOCITY" THEN <<Ctx[e].ref>> ELSE <<Ctx[e].sender, Ctx[e].ref>>

Entry(e, r) == [rule |-> r, key |-> Key(e, r), member |-> Member(e, r), at |-> began[e]]

MinScore(e, r) == began[e] - Window[r]

OfKey(e, r, W) == {w \in W : w.rule = r /\ w.key = Key(e, r)}

\* ZREMRANGEBYSCORE 0 .. minScore - 1
Expired(e, r) == {w \in OfKey(e, r, windows) : w.at < MinScore(e, r)}

\* ZCOUNT and ZRANGEBYSCORE minScore .. now
InWindow(e, r, W) == {w \in OfKey(e, r, W) : MinScore(e, r) <= w.at /\ w.at <= began[e]}

\* ZADD: a member has one score.
Added(e, r, W) == {w \in OfKey(e, r, W) : w.member = Member(e, r)}

TooManyAttempts(W) == Cardinality(W) >= VELOCITY_THRESHOLD

TooManySenders(e, W) ==
    Cardinality({w.member[1] : w \in W} \cup {Ctx[e].sender})
        > RECIPIENT_DISTINCT_SENDER_THRESHOLD

TooMany(e, r, W) ==
    IF r = "VELOCITY" THEN TooManyAttempts(W) ELSE TooManySenders(e, W)

\* A row of the hour profile.
Bucket(e) == <<Ctx[e].user, Ctx[e].hour>>
Buckets == {Bucket(e) : e \in Evaluations}
Device(e) == <<Ctx[e].user, Ctx[e].device>>

HasDevice(e) == Ctx[e].device # None
NewDeviceAmount(e) == HasDevice(e) /\ Ctx[e].amount > NEW_DEVICE_AMOUNT
UnusualHour(e) ==
    Ctx[e].hour \in UNUSUAL_HOUR_BUCKETS /\ Ctx[e].amount > UNUSUAL_HOUR_AMOUNT
HasHistory(u) == \E b \in Buckets : b[1] = u /\ b[2] \in UNUSUAL_HOUR_BUCKETS /\ history[b] > 0

RANK == [d \in Decisions |->
    CASE d = "APPROVED" -> 1 [] d = "REVIEW" -> 2 [] d = "ACTION_REQUIRED" -> 3 [] OTHER -> 4]

\* aggregate: a contribution counts if it outranks the decision so far.
Worse(d, c) == IF RANK[c] > RANK[d] THEN c ELSE d

\* Fails open: a rule in ERROR raises nothing.
OfErrorOpen == "APPROVED"

\* What a rule in ERROR contributes.
OfError == "BLOCKED"

\* The event enqueued with a new decision.
Announcement(d) ==
    CASE d = "BLOCKED" -> <<"fraud.risk.blocked">>
      [] d = "ACTION_REQUIRED" -> <<"fraud.risk.action_required">>
      [] d = "REVIEW" -> <<"fraud.risk.review_triggered">>
      [] OTHER -> <<>>

Resolvable == {"BLOCKED", "REVIEW"}
-----------------------------------------------------------------------------

Events == {"fraud.risk.blocked", "fraud.risk.action_required",
           "fraud.risk.review_triggered", "fraud.flag.resolved"}

Entries == [rule : WindowRules, at : Nat,
            key : {Key(e, r) : e \in Evaluations, r \in WindowRules},
            member : {Member(e, r) : e \in Evaluations, r \in WindowRules}]

\* One type invariant; an evaluation past its rules waits for none.
TypeOK ==
    /\ clock \in Nat
    /\ windows \subseteq Entries /\ attempts \subseteq Entries
    /\ known \subseteq {Device(e) : e \in Evaluations}
    /\ history \in [Buckets -> Nat]
    /\ decided \in [Evaluations -> Decisions \cup {None}]
    /\ announced \in [Evaluations -> Seq(Events)]
    /\ stage \in [Evaluations -> {"new", "rules", "effects", "persist", "over"}]
    /\ began \in [Evaluations -> Nat]
    /\ call \in [Evaluations -> [WindowRules -> {"prune", "read", "add", "stray", "over"}]]
    /\ found \in [Evaluations -> SUBSET WindowRules]
    /\ missed \subseteq Evaluations /\ flawed \subseteq Evaluations
    /\ waiting \in [Evaluations -> SUBSET RuleTypes]
    /\ worst \in [Evaluations -> Decisions]
    /\ device \in [Evaluations -> {"none", "register", "registered", "failed"}]
    /\ bump \in [Evaluations -> {"none", "find", "save", "saved", "failed"}]
    /\ seen \in [Evaluations -> Nat]
    /\ resolving \in [Evaluations -> 0..Resolvers]
    /\ \A e \in Evaluations : stage[e] \notin {"new", "rules"} => waiting[e] = {}

Init ==
    /\ clock = 0
    /\ windows = {} /\ attempts = {} /\ missed = {} /\ flawed = {} /\ known = {}
    /\ history = [b \in Buckets |-> 0]
    /\ decided = [e \in Evaluations |-> None]
    /\ announced = [e \in Evaluations |-> <<>>]
    /\ stage = [e \in Evaluations |-> "new"]
    /\ began = [e \in Evaluations |-> 0]
    /\ call = [e \in Evaluations |-> [r \in WindowRules |-> "prune"]]
    /\ found = [e \in Evaluations |-> {}]
    /\ waiting = [e \in Evaluations |-> RuleTypes]
    /\ worst = [e \in Evaluations |-> "APPROVED"]
    /\ device = [e \in Evaluations |-> "none"]
    /\ bump = [e \in Evaluations |-> "none"]
    /\ seen = [e \in Evaluations |-> 0]
    /\ resolving = [e \in Evaluations |-> 0]
-----------------------------------------------------------------------------
(* The rules. *)

Tick ==
    /\ clock < Horizon
    /\ clock' = clock + 1
    /\ UNCHANGED <<shared, stage, local, resolving, attempts, missed, flawed>>

\* Rules that have something to await: the others return at once.
Awaiting(e) ==
    {r \in RuleTypes :
        /\ r # "LARGE_TRANSACTION"
        /\ r = "NEW_DEVICE_LARGE_AMOUNT" => HasDevice(e)
        /\ r = "UNUSUAL_HOUR_PATTERN" => UnusualHour(e)}

\* The one rule that has nothing to await.
LargeTransaction(e) ==
    IF Ctx[e].amount > LARGE_AMOUNT_USD THEN "ACTION_REQUIRED" ELSE "APPROVED"

Begin(e) ==
    /\ stage[e] = "new"
    /\ Cardinality({d \in Evaluations : stage[d] \notin {"new", "over"}}) < Parallel
    /\ stage' = [stage EXCEPT ![e] = "rules"]
    /\ began' = [began EXCEPT ![e] = clock]
    /\ waiting' = [waiting EXCEPT ![e] = Awaiting(e)]
    /\ worst' = [worst EXCEPT ![e] = LargeTransaction(e)]
    /\ UNCHANGED <<clock, shared, call, found, device, bump, seen,
                   resolving, attempts, missed, flawed>>

\* A rule's verdict counts only while the evaluation waits for it.
Verdict(e, r, d) ==
    /\ waiting' = [waiting EXCEPT ![e] = @ \ {r}]
    /\ worst' = IF r \in waiting[e] THEN [worst EXCEPT ![e] = Worse(@, d)] ELSE worst

\* One connection carries the calls of both rules in the order they are sent:
\* both prunes, both reads, both adds, the velocity rule first.
Place == [c \in {"stray", "prune", "read", "add", "over"} |->
    CASE c = "read" -> 2 [] c = "add" -> 3 [] c = "over" -> 4 [] OTHER -> 1]

InTurn(e, r) ==
    \A q \in WindowRules \ {r} :
        \/ Place[call[e][r]] < Place[call[e][q]]
        \/ Place[call[e][r]] = Place[call[e][q]] /\ r = "VELOCITY"

Pending(e, r, c) == stage[e] # "new" /\ call[e][r] = c /\ InTurn(e, r)

Prune(e, r) ==
    /\ Pending(e, r, "prune") \/ Pending(e, r, "stray")
    /\ windows' = windows \ Expired(e, r)
    /\ call' = [call EXCEPT ![e][r] = IF @ = "prune" THEN "read" ELSE "over"]
    /\ UNCHANGED <<clock, known, history, decided, announced, stage, began, found,
                   waiting, worst, device, bump, seen, resolving, attempts, missed, flawed>>

\* Entries of `attempts` that have left the window by now may be pruned already.
Recent(e, r) == {w \in InWindow(e, r, attempts) : clock - Window[r] <= w.at}

Read(e, r) ==
    /\ Pending(e, r, "read")
    /\ IF r \in waiting[e] /\ TooMany(e, r, InWindow(e, r, windows))
       THEN found' = [found EXCEPT ![e] = @ \cup {r}] /\ flawed' = flawed \cup {e}
       ELSE UNCHANGED <<found, flawed>>
    /\ missed' = IF TooMany(e, r, Recent(e, r)) /\ ~TooMany(e, r, InWindow(e, r, windows))
                 THEN missed \cup {e} ELSE missed
    /\ call' = [call EXCEPT ![e][r] = "add"]
    /\ UNCHANGED <<clock, shared, stage, began, waiting, worst, device, bump, seen,
                   resolving, attempts>>

AddEntry(e, r) ==
    /\ windows' = (windows \ Added(e, r, windows)) \cup {Entry(e, r)}
    /\ attempts' = (attempts \ Added(e, r, attempts)) \cup {Entry(e, r)}

Add(e, r) ==
    /\ Pending(e, r, "add")
    /\ AddEntry(e, r)
    /\ call' = [call EXCEPT ![e][r] = "over"]
    /\ Verdict(e, r, IF r \in found[e] THEN "REVIEW" ELSE "APPROVED")
    /\ found' = [found EXCEPT ![e] = @ \ {r}]
    /\ UNCHANGED <<clock, known, history, decided, announced, stage, began,
                   device, bump, seen, resolving, missed, flawed>>

\* Redis is disabled or a call fails, the last one perhaps after it was carried
\* out: the rule ends in ERROR, if the evaluation still waits for it.
RedisFails(e, r) ==
    /\ r \in waiting[e] /\ stage[e] = "rules" /\ InTurn(e, r)
    /\ \/ UNCHANGED <<windows, attempts>>
       \/ call[e][r] = "add" /\ AddEntry(e, r)
    /\ call' = [call EXCEPT ![e][r] = "over"]
    /\ Verdict(e, r, OfError)
    /\ found' = [found EXCEPT ![e] = @ \ {r}]
    /\ flawed' = flawed \cup {e}
    /\ UNCHANGED <<clock, known, history, decided, announced, stage, began,
                   device, bump, seen, resolving, missed>>

\* The two rules that read PostgreSQL.
Waits(e, r) == stage[e] = "rules" /\ r \in waiting[e]

DeviceRule(e) ==
    /\ Waits(e, "NEW_DEVICE_LARGE_AMOUNT")
    /\ Verdict(e, "NEW_DEVICE_LARGE_AMOUNT",
               IF Device(e) \notin known /\ NewDeviceAmount(e) THEN "REVIEW" ELSE "APPROVED")
    /\ UNCHANGED <<clock, shared, stage, began, call, found, device, bump, seen,
                   resolving, attempts, missed, flawed>>

HourRule(e) ==
    /\ Waits(e, "UNUSUAL_HOUR_PATTERN")
    /\ Verdict(e, "UNUSUAL_HOUR_PATTERN",
               IF HasHistory(Ctx[e].user) THEN "APPROVED" ELSE "REVIEW")
    /\ UNCHANGED <<clock, shared, stage, began, call, found, device, bump, seen,
                   resolving, attempts, missed, flawed>>

\* Five rows in ERROR, whatever the rules have found so far.
GiveUp(e) ==
    /\ waiting' = [waiting EXCEPT ![e] = {}]
    /\ worst' = [worst EXCEPT ![e] = OfError]
    /\ flawed' = flawed \cup {e}
    /\ found' = [found EXCEPT ![e] = {}]
    /\ stage' = [stage EXCEPT ![e] = "persist"]

\* A query of theirs throws, and with it the whole engine; the window rules are
\* not aborted and go on.
Catastrophe(e) ==
    /\ \E r \in DatabaseRules : Waits(e, r)
    /\ GiveUp(e)
    /\ UNCHANGED <<clock, shared, began, call, device, bump, seen,
                   resolving, attempts, missed>>

\* The budget wins the race: the engine gives up and aborts the window rules,
\* which look at the signal after each answer.  A prune or an add that was sent
\* may still be carried out; a read no longer matters.
Timeout(e) ==
    /\ stage[e] = "rules"
    /\ GiveUp(e)
    /\ call' = [call EXCEPT ![e] = [r \in WindowRules |->
          CASE @[r] = "prune" -> "stray" [] @[r] = "read" -> "over" [] OTHER -> @[r]]]
    /\ UNCHANGED <<clock, shared, began, device, bump, seen,
                   resolving, attempts, missed>>
-----------------------------------------------------------------------------
(* The side effects, started at once; the first to fail is swallowed. *)

\* The rules that read PostgreSQL left out of the Promise.all.
RulesDoneRedis(e) == waiting[e] \cap WindowRules = {}

RulesDone(e) == waiting[e] = {}

StartEffects(e) ==
    /\ stage[e] = "rules" /\ RulesDone(e)
    /\ stage' = [stage EXCEPT ![e] = "effects"]
    /\ device' = [device EXCEPT ![e] = IF HasDevice(e) THEN "register" ELSE "registered"]
    /\ bump' = [bump EXCEPT ![e] = "find"]
    /\ UNCHANGED <<clock, shared, began, call, found, waiting, worst, seen,
                   resolving, attempts, missed, flawed>>

\* A row found, a row inserted, or the unique index hit by a twin, whose 23505
\* is swallowed: the device is known.  "registered", like "saved" below, is what
\* is committed; a failed call has written nothing.
RegisterDevice(e) ==
    /\ device[e] = "register"
    /\ \/ known' = known \cup {Device(e)} /\ device' = [device EXCEPT ![e] = "registered"]
       \/ UNCHANGED known /\ device' = [device EXCEPT ![e] = "failed"]
    /\ UNCHANGED <<clock, windows, history, decided, announced, stage, began, call,
                   found, waiting, worst, bump, seen, resolving, attempts, missed, flawed>>

BumpFind(e) ==
    /\ bump[e] = "find"
    /\ seen' = [seen EXCEPT ![e] = history[Bucket(e)]]
    /\ bump' = [bump EXCEPT ![e] = "save"]
    /\ UNCHANGED <<clock, shared, stage, began, call, found, waiting, worst, device,
                   resolving, attempts, missed, flawed>>

\* An insert without its transactionCount takes the column's default.
BumpedDefault(e) == IF seen[e] = 0 THEN 0 ELSE seen[e] + 1

\* The count this evaluation saves: of a row it found, or of a new one.
Bumped(e) == IF seen[e] = 0 THEN 1 ELSE seen[e] + 1

\* A twin inserted the row first: uq_fraud_hour_profile_user_bucket.
InsertLost(e) == seen[e] = 0 /\ history[Bucket(e)] > 0

BumpSave(e) ==
    /\ bump[e] = "save" /\ ~InsertLost(e)
    /\ history' = [history EXCEPT ![Bucket(e)] = Bumped(e)]
    /\ bump' = [bump EXCEPT ![e] = "saved"]
    /\ seen' = [seen EXCEPT ![e] = 0]
    /\ UNCHANGED <<clock, windows, known, decided, announced, stage, began, call,
                   found, waiting, worst, device, resolving, attempts, missed, flawed>>

\* The insert is lost, or a query fails.
BumpFails(e) ==
    /\ bump[e] \in {"find", "save"}
    /\ bump' = [bump EXCEPT ![e] = "failed"]
    /\ seen' = [seen EXCEPT ![e] = 0]
    /\ UNCHANGED <<clock, shared, stage, began, call, found, waiting, worst, device,
                   resolving, attempts, missed, flawed>>

\* Waits for both, whatever fails.
EffectsSettledBoth(e) == device[e] = "registered" /\ bump[e] = "saved"

\* Promise.all: both have succeeded, or one has failed; the other goes on.
EffectsSettled(e) ==
    \/ device[e] = "registered" /\ bump[e] = "saved"
    \/ "failed" \in {device[e], bump[e]}

EndEffects(e) ==
    /\ stage[e] = "effects" /\ EffectsSettled(e)
    /\ stage' = [stage EXCEPT ![e] = "persist"]
    /\ UNCHANGED <<clock, shared, local, resolving, attempts, missed, flawed>>
-----------------------------------------------------------------------------
(* The decision, and its resolution by an operator. *)

SaveDecision(e) ==
    /\ decided' = [decided EXCEPT ![e] = worst[e]]
    /\ announced' = [announced EXCEPT ![e] = Announcement(worst[e])]

\* Decision, five signals and outbox row in one transaction.
Persist(e) ==
    /\ stage[e] = "persist"
    /\ SaveDecision(e)
    /\ stage' = [stage EXCEPT ![e] = "over"]
    /\ UNCHANGED <<clock, windows, known, history, local, resolving, attempts, missed, flawed>>

\* It throws to the caller, rolled back or with the answer of its COMMIT lost.
PersistFails(e) ==
    /\ stage[e] = "persist"
    /\ SaveDecision(e) \/ UNCHANGED <<decided, announced>>
    /\ stage' = [stage EXCEPT ![e] = "over"]
    /\ UNCHANGED <<clock, windows, known, history, local, resolving, attempts, missed, flawed>>

\* The row read without the lock.
FreeAlways(e) == resolving[e] < Resolvers

\* No other transaction holds the decision FOR UPDATE.
Free(e) == resolving[e] = 0

ResolveLock(e) ==
    /\ Free(e)
    /\ decided[e] \in Resolvable
    /\ resolving' = [resolving EXCEPT ![e] = @ + 1]
    /\ UNCHANGED <<clock, shared, stage, local, attempts, missed, flawed>>

\* The save, the outbox row and COMMIT, or a rollback.
ResolveEnd(e) ==
    /\ resolving[e] > 0
    /\ \/ /\ decided' = [decided EXCEPT ![e] = "APPROVED"]
          /\ announced' = [announced EXCEPT ![e] = Append(@, "fraud.flag.resolved")]
       \/ UNCHANGED <<decided, announced>>
    /\ resolving' = [resolving EXCEPT ![e] = @ - 1]
    /\ UNCHANGED <<clock, windows, known, history, stage, local, attempts, missed, flawed>>

RuleStep(e) ==
    \/ \E r \in WindowRules : Prune(e, r) \/ Read(e, r) \/ Add(e, r) \/ RedisFails(e, r)
    \/ DeviceRule(e) \/ HourRule(e) \/ Catastrophe(e) \/ Timeout(e)

EffectStep(e) ==
    \/ StartEffects(e) \/ RegisterDevice(e)
    \/ BumpFind(e) \/ BumpSave(e) \/ BumpFails(e) \/ EndEffects(e)

Next ==
    \/ Tick
    \/ \E e \in Evaluations :
          \/ Begin(e) \/ RuleStep(e) \/ EffectStep(e) \/ Persist(e) \/ PersistFails(e)
          \/ ResolveLock(e) \/ ResolveEnd(e)

Spec == Init /\ [][Next]_vars

\* Timers fire and PostgreSQL answers; of Redis nothing is asked.
Progress(e) ==
    \/ Timeout(e)
    \/ RegisterDevice(e) \/ BumpFind(e) \/ BumpSave(e) \/ BumpFails(e) \/ EndEffects(e)
    \/ Persist(e) \/ PersistFails(e)

Fairness == \A e \in Evaluations : WF_vars(Progress(e))

FairSpec == Spec /\ Fairness
-----------------------------------------------------------------------------
(* Properties. *)

\* Another evaluation of this user was through with its rules in time.
Earlier(e, d) ==
    d # e /\ Ctx[d].user = Ctx[e].user /\ bump[d] # "none"

\* "fraud never returns APPROVED when the engine cannot prove the attempt is
\* clean" (fraud.service.ts:38): whatever raced with it or failed, an evaluation
\* that is APPROVED and was not resolved waits for no rule, none of its rules
\* ended in ERROR (all five gave a result in time) or found too much in its
\* window, it missed no attempt that was recorded when its window was read, and
\* it has a device and an hour that an earlier evaluation of the user had used.
ApprovedMeansClean ==
    \A e \in Evaluations :
        decided[e] = "APPROVED" /\ announced[e] = <<>> =>
            /\ e \notin missed /\ e \notin flawed /\ waiting[e] = {}
            /\ Ctx[e].amount <= LARGE_AMOUNT_USD
            /\ NewDeviceAmount(e) =>
                  \E d \in Evaluations : Earlier(e, d) /\ Device(d) = Device(e)
            /\ UnusualHour(e) =>
                  \E d \in Evaluations :
                      Earlier(e, d) /\ Ctx[d].hour \in UNUSUAL_HOUR_BUCKETS /\ bump[d] = "saved"

\* Bumps of one bucket that were saved.
Saved(b) == {e \in Evaluations : Bucket(e) = b /\ bump[e] = "saved"}

\* Bumps race without a lock, and the profile may lose some of them; but it never
\* counts what was not there, and never falls back to no history at all, which is
\* all the unusual-hour rule asks.
ProfileNeverForgets ==
    \A b \in Buckets :
        /\ history[b] <= Cardinality(Saved(b))
        /\ Saved(b) # {} => history[b] > 0

\* Decision, signals and events tell one story: the row says the worst verdict
\* and was announced as that once, or an operator has resolved it once; what an
\* OTP must answer (ACTION_REQUIRED) no operator resolves.
DecisionsAnnounced ==
    \A e \in Evaluations :
        LET w == worst[e] IN
        \/ decided[e] = None /\ announced[e] = <<>>
        \/ decided[e] = w /\ announced[e] = Announcement(w)
        \/ /\ decided[e] = "APPROVED" /\ w \in Resolvable
           /\ announced[e] = Append(Announcement(w), "fraud.flag.resolved")

\* The payment that waits for a decision gets one, or an error, though Redis
\* never answers: again and again no evaluation is in flight (each is asked for
\* once, so none of them ever stays in flight).
EveryEvaluationEnds == []<>(\A e \in Evaluations : stage[e] \in {"new", "over"})
=============================================================================
