---------------------------- MODULE FraudProofs -----------------------------
(***************************************************************************)
(* Theorems about Fraud for all evaluations, contexts, window lengths and  *)
(* thresholds.  IInv adds what the races turn on: a prune takes only what  *)
(* has left the window by the clock (Kept), what a rule found is in the    *)
(* verdict once nobody waits for the rule any more (FoundTold and its      *)
(* kin), and the count a bump is about to save was counted (Profile).      *)
(***************************************************************************)
EXTENDS Fraud, FiniteSetTheorems, TLAPS

\* No `now` lies ahead of the clock.
Times == \A e \in Evaluations : began[e] <= clock

\* An attempt that may still count has not been pruned.
Kept == \A w \in attempts : clock - Window[w.rule] <= w.at => w \in windows

Windows == Times /\ Kept /\ IsFiniteSet(windows) /\ missed = {}

\* What a window rule found is told before the evaluation stops waiting for it;
\* what ended in ERROR is told at once.
FoundTold ==
    \A e \in Evaluations :
        /\ found[e] \subseteq waiting[e]
        /\ e \in flawed =>
              stage[e] # "new" /\ (worst[e] # "APPROVED" \/ found[e] # {})

Clean(e) == stage[e] # "new" /\ worst[e] = "APPROVED"

AmountTold == \A e \in Evaluations : Clean(e) => Ctx[e].amount <= LARGE_AMOUNT_USD

\* The device and the hour of an evaluation were used by an earlier one.
UsedDevice(e) == \E d \in Evaluations : Earlier(e, d) /\ Device(d) = Device(e)
UsedHour(e) ==
    \E d \in Evaluations :
        Earlier(e, d) /\ Ctx[d].hour \in UNUSUAL_HOUR_BUCKETS /\ bump[d] = "saved"

DeviceTold ==
    \A e \in Evaluations :
        Clean(e) /\ NewDeviceAmount(e) /\ "NEW_DEVICE_LARGE_AMOUNT" \notin waiting[e]
            => UsedDevice(e)

HourTold ==
    \A e \in Evaluations :
        Clean(e) /\ UnusualHour(e) /\ "UNUSUAL_HOUR_PATTERN" \notin waiting[e] => UsedHour(e)

Verdicts == FoundTold /\ AmountTold /\ DeviceTold /\ HourTold

\* Every known device was brought by an evaluation that was through with its rules.
KnownFrom == \A k \in known : \E d \in Evaluations : bump[d] # "none" /\ Device(d) = k

Effects ==
    /\ KnownFrom
    /\ \A e \in Evaluations : stage[e] \in {"new", "rules"} => bump[e] = "none"
    /\ \A e \in Evaluations : device[e] = "register" => bump[e] # "none"

\* The count a bump has read was there.
Profile ==
    /\ ProfileNeverForgets
    /\ \A e \in Evaluations : bump[e] = "save" => seen[e] <= Cardinality(Saved(Bucket(e)))

\* A decision is written at the end, and held by one operator at most.
Told ==
    /\ DecisionsAnnounced
    /\ \A e \in Evaluations : stage[e] # "over" => decided[e] = None /\ announced[e] = <<>>

Held ==
    \A e \in Evaluations :
        resolving[e] <= 1 /\ (resolving[e] > 0 => decided[e] \in Resolvable)

IInv == TypeOK /\ Windows /\ Verdicts /\ Effects /\ Profile /\ Told /\ Held

-----------------------------------------------------------------------------

LEMMA InitEstablishes == Init => IInv
<1> SUFFICES ASSUME Init PROVE IInv
  OBVIOUS
<1> USE DEF Init
<1>1. TypeOK
  <2>1. announced \in [Evaluations -> Seq(Events)]
    OBVIOUS
  <2>2. resolving \in [Evaluations -> 0..Resolvers]
    BY FraudAssumption
  <2>3. worst \in [Evaluations -> Decisions] /\ clock \in Nat
    BY DEF Decisions
  <2>4. call \in [Evaluations -> [WindowRules -> {"prune", "read", "add", "stray", "over"}]]
    OBVIOUS
  <2>5. waiting \in [Evaluations -> SUBSET RuleTypes] /\ found \in [Evaluations -> SUBSET WindowRules]
    OBVIOUS
  <2>6. QED
    BY <2>1, <2>2, <2>3, <2>4, <2>5 DEF TypeOK
<1>2. Windows
  BY FS_EmptySet DEF Windows, Times, Kept
<1>3. Verdicts
  BY DEF Verdicts, FoundTold, AmountTold, DeviceTold, HourTold, Clean
<1>4. Effects
  BY DEF Effects, KnownFrom
<1>5. Profile
  <2>1. \A b \in Buckets : history[b] = 0 /\ Saved(b) = {}
    BY DEF Saved
  <2>2. \A b \in Buckets : Cardinality(Saved(b)) = 0
    BY <2>1, FS_EmptySet
  <2>3. ProfileNeverForgets
    BY <2>1, <2>2 DEF ProfileNeverForgets
  <2>4. QED
    BY <2>3 DEF Profile
<1>6. Told
  BY DEF Told, DecisionsAnnounced
<1>7. Held
  BY DEF Held
<1>8. QED
  BY <1>1, <1>2, <1>3, <1>4, <1>5, <1>6, <1>7 DEF IInv

-----------------------------------------------------------------------------
(* Types *)

LEMMA EntryTypes ==
    ASSUME TypeOK, NEW e \in Evaluations, NEW r \in WindowRules
    PROVE  Entry(e, r) \in Entries
BY DEF TypeOK, Entry, Entries

LEMMA WorseTypes ==
    ASSUME NEW c \in Decisions, NEW d \in Decisions
    PROVE  /\ Worse(c, d) \in Decisions
           /\ Worse(c, d) = "APPROVED" => c = "APPROVED" /\ d = "APPROVED"
BY DEF Worse, RANK, Decisions

\* The steps that change a verdict keep its types.
LEMMA VerdictTypes ==
    ASSUME TypeOK, NEW e \in Evaluations, NEW r \in RuleTypes, NEW d \in Decisions,
           Verdict(e, r, d)
    PROVE  /\ waiting' \in [Evaluations -> SUBSET RuleTypes]
           /\ worst' \in [Evaluations -> Decisions]
           /\ \A f \in Evaluations : waiting'[f] \subseteq waiting[f]
<1>1. Worse(worst[e], d) \in Decisions
  BY WorseTypes DEF TypeOK
<1>2. QED
  BY <1>1 DEF Verdict, TypeOK

LEMMA AddTypes ==
    ASSUME TypeOK, NEW e \in Evaluations, NEW r \in WindowRules, AddEntry(e, r)
    PROVE  windows' \subseteq Entries /\ attempts' \subseteq Entries
BY EntryTypes DEF AddEntry, TypeOK

LEMMA AnnouncementTypes ==
    ASSUME NEW d \in Decisions
    PROVE  Announcement(d) \in Seq(Events)
<1>1. CASE d = "BLOCKED"
  BY <1>1 DEF Announcement, Events
<1>2. CASE d = "ACTION_REQUIRED"
  BY <1>2 DEF Announcement, Events
<1>3. CASE d = "REVIEW"
  BY <1>3 DEF Announcement, Events
<1>4. CASE d = "APPROVED"
  BY <1>4 DEF Announcement, Events
<1>5. QED
  BY <1>1, <1>2, <1>3, <1>4 DEF Decisions

LEMMA TypesPreserved ==
    ASSUME TypeOK, Next
    PROVE  TypeOK'
<1>1. CASE Tick
  BY <1>1 DEF Tick, TypeOK, shared, local
<1>2. ASSUME NEW e \in Evaluations, Begin(e)
      PROVE  TypeOK'
  <2>1. Awaiting(e) \subseteq RuleTypes
    BY DEF Awaiting
  <2>2. QED
    BY <1>2, <2>1 DEF Begin, LargeTransaction, TypeOK, shared, Decisions
<1>3. ASSUME NEW e \in Evaluations, NEW r \in WindowRules, Prune(e, r)
      PROVE  TypeOK'
  BY <1>3 DEF Prune, TypeOK
<1>4. ASSUME NEW e \in Evaluations, NEW r \in WindowRules, Read(e, r)
      PROVE  TypeOK'
  <2>1. /\ found' \in [Evaluations -> SUBSET WindowRules]
        /\ missed' \subseteq Evaluations /\ flawed' \subseteq Evaluations
    <3>1. /\ found \in [Evaluations -> SUBSET WindowRules]
          /\ missed \subseteq Evaluations /\ flawed \subseteq Evaluations
      BY DEF TypeOK
    <3>2. /\ missed' = missed \/ missed' = missed \cup {e}
          /\ flawed' = flawed \/ flawed' = flawed \cup {e}
          /\ found' = found \/ found' = [found EXCEPT ![e] = @ \cup {r}]
      BY <1>4 DEF Read
    <3>3. found' \in [Evaluations -> SUBSET WindowRules]
      BY <3>1, <3>2
    <3>4. QED
      BY <3>1, <3>2, <3>3
  <2>2. call' \in [Evaluations ->
                     [WindowRules -> {"prune", "read", "add", "stray", "over"}]]
    BY <1>4 DEF Read, TypeOK
  <2>3. QED
    BY <1>4, <2>1, <2>2 DEF Read, TypeOK, shared
<1>5. ASSUME NEW e \in Evaluations, NEW r \in WindowRules, Add(e, r)
      PROVE  TypeOK'
  <2>1. r \in RuleTypes
    BY DEF RuleTypes
  <2>2. PICK d \in Decisions : Verdict(e, r, d)
    BY <1>5 DEF Add, Decisions
  <2>3. QED
    BY <1>5, <2>1, <2>2, VerdictTypes, AddTypes DEF Add, TypeOK
<1>6. ASSUME NEW e \in Evaluations, NEW r \in WindowRules, RedisFails(e, r)
      PROVE  TypeOK'
  <2>1. r \in RuleTypes /\ OfError \in Decisions
    BY DEF RuleTypes, OfError, Decisions
  <2>2. windows' \subseteq Entries /\ attempts' \subseteq Entries
    BY <1>6, AddTypes DEF RedisFails, TypeOK
  <2>3. QED
    BY <1>6, <2>1, <2>2, VerdictTypes DEF RedisFails, TypeOK
<1>7. ASSUME NEW e \in Evaluations, DeviceRule(e) \/ HourRule(e)
      PROVE  TypeOK'
  <2>1. PICK r \in RuleTypes, d \in Decisions : Verdict(e, r, d)
    BY <1>7 DEF DeviceRule, HourRule, RuleTypes, DatabaseRules, Decisions
  <2>2. UNCHANGED <<clock, shared, stage, began, call, found, device, bump, seen,
                    resolving, attempts, missed, flawed>>
    BY <1>7 DEF DeviceRule, HourRule
  <2>3. QED
    BY <2>1, <2>2, VerdictTypes DEF TypeOK, shared
<1>8. ASSUME NEW e \in Evaluations, Catastrophe(e) \/ Timeout(e)
      PROVE  TypeOK'
  <2> DEFINE C == {"prune", "read", "add", "stray", "over"}
             F == [r \in WindowRules |-> CASE call[e][r] = "prune" -> "stray"
                     [] call[e][r] = "read" -> "over" [] OTHER -> call[e][r]]
  <2>0. F \in [WindowRules -> C]
    BY DEF TypeOK
  <2>1. call' \in [Evaluations -> [WindowRules -> C]]
    BY <1>8, <2>0 DEF Catastrophe, Timeout, TypeOK
  <2>2. GiveUp(e) /\ UNCHANGED <<clock, shared, began, device, bump, seen, resolving,
                                attempts, missed>>
    BY <1>8 DEF Catastrophe, Timeout
  <2>3. QED
    BY <2>1, <2>2 DEF GiveUp, OfError, TypeOK, shared, Decisions
<1>9. ASSUME NEW e \in Evaluations, StartEffects(e)
      PROVE  TypeOK'
  BY <1>9 DEF StartEffects, RulesDone, TypeOK, shared
<1>10. ASSUME NEW e \in Evaluations, RegisterDevice(e)
       PROVE  TypeOK'
  BY <1>10 DEF RegisterDevice, TypeOK
<1>11. ASSUME NEW e \in Evaluations, BumpFind(e) \/ BumpFails(e)
       PROVE  TypeOK'
  <2>1. Bucket(e) \in Buckets /\ history[Bucket(e)] \in Nat
    BY DEF Buckets, TypeOK
  <2>2. seen' \in [Evaluations -> Nat]
    <3>1. PICK n \in Nat : seen' = [seen EXCEPT ![e] = n]
      BY <1>11, <2>1 DEF BumpFind, BumpFails
    <3>2. QED
      BY <3>1 DEF TypeOK
  <2>3. bump' \in [Evaluations -> {"none", "find", "save", "saved", "failed"}]
    BY <1>11 DEF BumpFind, BumpFails, TypeOK
  <2>4. UNCHANGED <<clock, shared, stage, began, call, found, waiting, worst, device,
                    resolving, attempts, missed, flawed>>
    BY <1>11 DEF BumpFind, BumpFails
  <2>5. QED
    BY <2>2, <2>3, <2>4 DEF TypeOK, shared
<1>12. ASSUME NEW e \in Evaluations, BumpSave(e)
       PROVE  TypeOK'
  <2>1. Bumped(e) \in Nat
    BY DEF Bumped, TypeOK
  <2>2. QED
    BY <1>12, <2>1 DEF BumpSave, TypeOK
<1>13. ASSUME NEW e \in Evaluations, EndEffects(e)
       PROVE  TypeOK'
  BY <1>13 DEF EndEffects, TypeOK, shared, local
<1>14. ASSUME NEW e \in Evaluations, Persist(e) \/ PersistFails(e)
       PROVE  TypeOK'
  <2>1. worst[e] \in Decisions
    BY DEF TypeOK
  <2>2. Announcement(worst[e]) \in Seq(Events)
    BY <2>1, AnnouncementTypes
  <2>3. stage' \in [Evaluations -> {"new", "rules", "effects", "persist", "over"}]
    BY <1>14 DEF Persist, PersistFails, TypeOK
  <2>4. \A f \in Evaluations : stage'[f] \notin {"new", "rules"} => waiting[f] = {}
    BY <1>14 DEF Persist, PersistFails, TypeOK
  <2>5. decided' \in [Evaluations -> Decisions \cup {None}]
    <3>1. decided \in [Evaluations -> Decisions \cup {None}]
      BY DEF TypeOK
    <3>2. decided' = decided \/ decided' = [decided EXCEPT ![e] = worst[e]]
      BY <1>14 DEF Persist, PersistFails, SaveDecision
    <3>3. QED
      BY <2>1, <3>1, <3>2
  <2>6. announced' \in [Evaluations -> Seq(Events)]
    <3>1. announced \in [Evaluations -> Seq(Events)]
      BY DEF TypeOK
    <3>2. \/ announced' = announced
          \/ announced' = [announced EXCEPT ![e] = Announcement(worst[e])]
      BY <1>14 DEF Persist, PersistFails, SaveDecision
    <3>3. QED
      BY <2>2, <3>1, <3>2
  <2>7. UNCHANGED <<clock, windows, known, history, local, resolving, attempts, missed, flawed>>
    BY <1>14 DEF Persist, PersistFails
  <2>8. QED
    BY <2>3, <2>4, <2>5, <2>6, <2>7 DEF TypeOK, local
<1>15. ASSUME NEW e \in Evaluations, ResolveLock(e)
       PROVE  TypeOK'
  BY <1>15, FraudAssumption DEF ResolveLock, Free, TypeOK, shared, local
<1>16. ASSUME NEW e \in Evaluations, ResolveEnd(e)
       PROVE  TypeOK'
  <2>1. Append(announced[e], "fraud.flag.resolved") \in Seq(Events)
    BY DEF TypeOK, Events
  <2>2. decided' \in [Evaluations -> Decisions \cup {None}]
    BY <1>16 DEF ResolveEnd, TypeOK, Decisions
  <2>3. announced' \in [Evaluations -> Seq(Events)]
    BY <1>16, <2>1 DEF ResolveEnd, TypeOK
  <2>4. resolving' \in [Evaluations -> 0..Resolvers]
    BY <1>16, FraudAssumption DEF ResolveEnd, TypeOK
  <2>5. QED
    BY <1>16, <2>2, <2>3, <2>4 DEF ResolveEnd, TypeOK, local
<1>17. QED
  BY <1>1, <1>2, <1>3, <1>4, <1>5, <1>6, <1>7, <1>8, <1>9, <1>10, <1>11, <1>12, <1>13,
     <1>14, <1>15, <1>16 DEF Next, RuleStep, EffectStep

-----------------------------------------------------------------------------
(* Windows *)

\* A larger window is not judged more leniently.
LEMMA TooManyMonotone ==
    ASSUME NEW e \in Evaluations, NEW r \in WindowRules, NEW W, IsFiniteSet(W),
           NEW V \in SUBSET W, TooMany(e, r, V)
    PROVE  TooMany(e, r, W)
<1>1. CASE r = "VELOCITY"
  <2>1. Cardinality(V) <= Cardinality(W) /\ Cardinality(V) \in Int /\ Cardinality(W) \in Int
    BY FS_Subset, FS_CardinalityType
  <2>2. QED
    BY <1>1, <2>1, FraudAssumption DEF TooMany, TooManyAttempts
<1>2. CASE r # "VELOCITY"
  <2> DEFINE A == {w.member[1] : w \in V} \cup {Ctx[e].sender}
             S == {w.member[1] : w \in W}
             B == S \cup {Ctx[e].sender}
             f == [w \in W |-> w.member[1]]
  <2>1. f \in Surjection(W, S)
    BY DEF Surjection
  <2>2. IsFiniteSet(S)
    <3> HIDE DEF f, S
    <3> QED
      BY <2>1, FS_Surjection
  <2>3. IsFiniteSet(B)
    <3> HIDE DEF S
    <3> QED
      BY <2>2, FS_AddElement
  <2>4. A \in SUBSET B
    OBVIOUS
  <2>5. Cardinality(A) <= Cardinality(B) /\ Cardinality(A) \in Int /\ Cardinality(B) \in Int
    <3> HIDE DEF A, B
    <3> QED
      BY <2>3, <2>4, FS_Subset, FS_CardinalityType
  <2>6. Cardinality(A) > RECIPIENT_DISTINCT_SENDER_THRESHOLD
    BY <1>2 DEF TooMany, TooManySenders
  <2>7. Cardinality(B) > RECIPIENT_DISTINCT_SENDER_THRESHOLD
    <3> HIDE DEF A, B
    <3> QED
      BY <2>5, <2>6, FraudAssumption
  <2>8. QED
    BY <1>2, <2>7 DEF TooMany, TooManySenders
<1>3. QED
  BY <1>1, <1>2

\* What a prune takes has left the window by the clock too.
LEMMA PruneKeeps ==
    ASSUME TypeOK, Windows, NEW e \in Evaluations, NEW r \in WindowRules, Prune(e, r)
    PROVE  Windows'
<1>1. Times' /\ missed' = {}
  BY DEF Prune, Windows, Times
<1>2. IsFiniteSet(windows')
  BY FS_Subset DEF Prune, Windows
<1>3. Kept'
  <2> SUFFICES ASSUME NEW w \in attempts, clock - Window[w.rule] <= w.at
               PROVE  w \in windows \ Expired(e, r)
    BY DEF Prune, Kept
  <2>1. w \in windows
    BY DEF Windows, Kept
  <2>2. w \notin Expired(e, r)
    <3>1. w.at \in Nat /\ Window[r] \in Nat /\ began[e] \in Nat /\ clock \in Nat
      BY FraudAssumption DEF TypeOK, Entries
    <3>2. began[e] <= clock
      BY DEF Windows, Times
    <3>3. w.rule = r => ~(w.at < began[e] - Window[r])
      BY <3>1, <3>2
    <3>4. QED
      BY <3>3 DEF Expired, OfKey, MinScore
  <2>3. QED
    BY <2>1, <2>2
<1>4. QED
  BY <1>1, <1>2, <1>3 DEF Windows

\* Whatever the reads of others did before, a read sees what still counts.
LEMMA ReadMissesNothing ==
    ASSUME TypeOK, Windows, NEW e \in Evaluations, NEW r \in WindowRules, Read(e, r)
    PROVE  Windows'
<1>1. Recent(e, r) \in SUBSET InWindow(e, r, windows)
  <2> SUFFICES ASSUME NEW w \in Recent(e, r) PROVE w \in InWindow(e, r, windows)
    OBVIOUS
  <2>1. w \in attempts /\ w.rule = r /\ clock - Window[r] <= w.at
    BY DEF Recent, InWindow, OfKey
  <2>2. w \in windows
    BY <2>1 DEF Windows, Kept
  <2>3. QED
    BY <2>2 DEF Recent, InWindow, OfKey
<1>2. IsFiniteSet(InWindow(e, r, windows))
  <2>1. InWindow(e, r, windows) \in SUBSET windows
    BY DEF InWindow, OfKey
  <2>2. QED
    BY <2>1, FS_Subset DEF Windows
<1>3. TooMany(e, r, Recent(e, r)) => TooMany(e, r, InWindow(e, r, windows))
  BY <1>1, <1>2, TooManyMonotone
<1>4. missed' = {}
  BY <1>3 DEF Read, Windows
<1>5. QED
  BY <1>4 DEF Read, shared, Windows, Times, Kept

\* An add replaces the same entry in what is kept and in what ever was.
LEMMA AddKeeps ==
    ASSUME Windows, NEW e \in Evaluations, NEW r \in WindowRules, AddEntry(e, r),
           UNCHANGED <<clock, began, missed>>
    PROVE  Windows'
<1>1. Times' /\ missed' = {}
  BY DEF Windows, Times
<1>2. IsFiniteSet(windows')
  <2>1. IsFiniteSet(windows \ Added(e, r, windows))
    BY FS_Subset DEF Windows
  <2>2. QED
    BY <2>1, FS_AddElement DEF AddEntry
<1>3. Kept'
  BY DEF AddEntry, Added, OfKey, Windows, Kept
<1>4. QED
  BY <1>1, <1>2, <1>3 DEF Windows

LEMMA WindowsPreserved ==
    ASSUME TypeOK, Windows, [Next]_vars
    PROVE  Windows'
<1> DEFINE group == <<clock, windows, attempts, missed, began>>
<1>0. ASSUME UNCHANGED group PROVE Windows'
  BY <1>0 DEF Windows, Times, Kept
<1>1. CASE Tick
  <2>1. UNCHANGED <<windows, attempts, missed, began>> /\ clock' = clock + 1
    BY <1>1 DEF Tick, shared, local
  <2>2. Times'
    BY <2>1 DEF Windows, Times, TypeOK
  <2>3. ASSUME NEW w \in attempts, clock' - Window[w.rule] <= w.at
        PROVE  w \in windows
    <3>1. w.at \in Nat /\ Window[w.rule] \in Nat /\ clock \in Nat
      BY FraudAssumption DEF TypeOK, Entries
    <3>2. clock - Window[w.rule] <= w.at
      BY <2>1, <2>3, <3>1
    <3>3. QED
      BY <3>2 DEF Windows, Kept
  <2>4. Kept'
    BY <2>1, <2>3 DEF Kept
  <2>5. QED
    BY <2>1, <2>2, <2>4 DEF Windows
<1>2. ASSUME NEW e \in Evaluations, Begin(e)
      PROVE  Windows'
  <2>1. Times'
    BY <1>2 DEF Begin, Windows, Times, TypeOK
  <2>2. QED
    BY <1>2, <2>1 DEF Begin, shared, Windows, Kept
<1>3. ASSUME NEW e \in Evaluations, NEW r \in WindowRules, RedisFails(e, r)
      PROVE  Windows'
  <2>1. CASE AddEntry(e, r)
    BY <1>3, <2>1, AddKeeps DEF RedisFails
  <2>2. CASE UNCHANGED <<windows, attempts>>
    BY <1>3, <2>2, <1>0 DEF RedisFails
  <2>3. QED
    BY <1>3, <2>1, <2>2 DEF RedisFails
<1>4. ASSUME NEW e \in Evaluations, RuleStep(e)
      PROVE  Windows'
  <2>1. ASSUME NEW r \in WindowRules, Prune(e, r) \/ Read(e, r) \/ Add(e, r)
        PROVE  Windows'
    BY <2>1, PruneKeeps, ReadMissesNothing, AddKeeps DEF Add
  <2>2. CASE DeviceRule(e) \/ HourRule(e) \/ Catastrophe(e) \/ Timeout(e)
    BY <2>2, <1>0 DEF DeviceRule, HourRule, Catastrophe, Timeout, shared
  <2>3. QED
    BY <1>4, <1>3, <2>1, <2>2 DEF RuleStep
<1>5. ASSUME NEW e \in Evaluations, EffectStep(e)
      PROVE  Windows'
  BY <1>5, <1>0 DEF EffectStep, StartEffects, RegisterDevice, BumpFind, BumpSave, BumpFails,
                    EndEffects, shared, local
<1>6. ASSUME NEW e \in Evaluations,
             Persist(e) \/ PersistFails(e) \/ ResolveLock(e) \/ ResolveEnd(e)
      PROVE  Windows'
  BY <1>6, <1>0 DEF Persist, PersistFails, ResolveLock, ResolveEnd, shared, local
<1>7. CASE UNCHANGED vars
  BY <1>7, <1>0 DEF vars, shared, local
<1>8. QED
  BY <1>1, <1>2, <1>4, <1>5, <1>6, <1>7 DEF Next

-----------------------------------------------------------------------------
(* Side effects *)

\* A side effect that was started is never as if it had not been.
LEMMA BumpsGrow ==
    ASSUME TypeOK, Effects, [Next]_vars, NEW d \in Evaluations
    PROVE  /\ bump[d] # "none" => bump'[d] # "none"
           /\ bump[d] = "saved" => bump'[d] = "saved"
<1>1. ASSUME NEW e \in Evaluations, StartEffects(e)
      PROVE  /\ bump[d] # "none" => bump'[d] # "none"
             /\ bump[d] = "saved" => bump'[d] = "saved"
  BY <1>1 DEF StartEffects, Effects, TypeOK
<1>2. ASSUME NEW e \in Evaluations, BumpFind(e) \/ BumpSave(e) \/ BumpFails(e)
      PROVE  /\ bump[d] # "none" => bump'[d] # "none"
             /\ bump[d] = "saved" => bump'[d] = "saved"
  BY <1>2 DEF BumpFind, BumpSave, BumpFails, TypeOK
<1>3. ASSUME NEW e \in Evaluations, RuleStep(e)
      PROVE  bump' = bump
  BY <1>3 DEF RuleStep, Prune, Read, Add, RedisFails, DeviceRule, HourRule, Catastrophe, Timeout
<1>4. ASSUME NEW e \in Evaluations, RegisterDevice(e) \/ EndEffects(e) \/ Begin(e)
      PROVE  bump' = bump
  BY <1>4 DEF RegisterDevice, EndEffects, Begin, local
<1>5. ASSUME NEW e \in Evaluations,
             Persist(e) \/ PersistFails(e) \/ ResolveLock(e) \/ ResolveEnd(e)
      PROVE  bump' = bump
  BY <1>5 DEF Persist, PersistFails, ResolveLock, ResolveEnd, local
<1>6. CASE Tick \/ UNCHANGED vars
  BY <1>6 DEF Tick, vars, local
<1>7. QED
  BY <1>1, <1>2, <1>3, <1>4, <1>5, <1>6 DEF Next, EffectStep

LEMMA EffectsPreserved ==
    ASSUME TypeOK, Effects, [Next]_vars
    PROVE  Effects'
<1> DEFINE group == <<known, device, bump, stage>>
<1>0. ASSUME UNCHANGED group PROVE Effects'
  BY <1>0 DEF Effects, KnownFrom
<1>1. ASSUME UNCHANGED <<known, device, bump>>, NEW e \in Evaluations, NEW t,
             stage' = [stage EXCEPT ![e] = t],
             t \in {"new", "rules"} => stage[e] \in {"new", "rules"}
      PROVE  Effects'
  BY <1>1 DEF Effects, KnownFrom, TypeOK
<1>2. ASSUME NEW e \in Evaluations, RuleStep(e)
      PROVE  Effects'
  <2>1. ASSUME NEW r \in WindowRules, Prune(e, r) \/ Read(e, r) \/ Add(e, r) \/ RedisFails(e, r)
        PROVE  Effects'
    BY <2>1, <1>0 DEF Prune, Read, Add, RedisFails, shared
  <2>2. CASE DeviceRule(e) \/ HourRule(e)
    BY <2>2, <1>0 DEF DeviceRule, HourRule, shared
  <2>3. CASE Catastrophe(e) \/ Timeout(e)
    BY <2>3, <1>1 DEF Catastrophe, Timeout, GiveUp, shared
  <2>4. QED
    BY <1>2, <2>1, <2>2, <2>3 DEF RuleStep
<1>3. ASSUME NEW e \in Evaluations, StartEffects(e)
      PROVE  Effects'
  <2>1. KnownFrom'
    BY <1>3 DEF StartEffects, shared, Effects, KnownFrom, TypeOK
  <2>2. QED
    BY <1>3, <2>1 DEF StartEffects, Effects, TypeOK
<1>4. ASSUME NEW e \in Evaluations, RegisterDevice(e)
      PROVE  Effects'
  <2>1. bump[e] # "none"
    BY <1>4 DEF RegisterDevice, Effects
  <2>2. KnownFrom'
    BY <1>4, <2>1 DEF RegisterDevice, Effects, KnownFrom
  <2>3. QED
    BY <1>4, <2>2 DEF RegisterDevice, Effects, TypeOK
<1>5. ASSUME NEW e \in Evaluations, BumpFind(e) \/ BumpSave(e) \/ BumpFails(e)
      PROVE  Effects'
  <2>1. UNCHANGED <<known, device, stage>> /\ bump[e] # "none"
    BY <1>5 DEF BumpFind, BumpSave, BumpFails, shared
  <2>2. PICK t \in {"save", "saved", "failed"} : bump' = [bump EXCEPT ![e] = t]
    BY <1>5 DEF BumpFind, BumpSave, BumpFails
  <2>3. KnownFrom'
    BY <2>1, <2>2 DEF Effects, KnownFrom, TypeOK
  <2>4. QED
    BY <2>1, <2>2, <2>3 DEF Effects, TypeOK
<1>6. ASSUME NEW e \in Evaluations,
             Begin(e) \/ EndEffects(e) \/ Persist(e) \/ PersistFails(e)
      PROVE  Effects'
  BY <1>6, <1>1 DEF Begin, EndEffects, Persist, PersistFails, shared, local
<1>7. ASSUME NEW e \in Evaluations, ResolveLock(e) \/ ResolveEnd(e)
      PROVE  Effects'
  BY <1>7, <1>0 DEF ResolveLock, ResolveEnd, shared, local
<1>8. CASE Tick \/ UNCHANGED vars
  BY <1>8, <1>0 DEF Tick, vars, shared, local
<1>9. QED
  BY <1>2, <1>3, <1>4, <1>5, <1>6, <1>7, <1>8 DEF Next, EffectStep

-----------------------------------------------------------------------------
(* Profile *)

\* One bump more has been saved, and counted once.
LEMMA SaveCounts ==
    ASSUME TypeOK, TypeOK', Profile, NEW e \in Evaluations, BumpSave(e)
    PROVE  Profile'
<1> DEFINE b == Bucket(e)
<1>1. /\ Saved(b)' = Saved(b) \cup {e} /\ e \notin Saved(b)
      /\ \A c \in Buckets : c # b => Saved(c)' = Saved(c)
  BY DEF BumpSave, Saved, TypeOK
<1>2. \A c \in Buckets : IsFiniteSet(Saved(c)) /\ Cardinality(Saved(c)) \in Nat
  <2>1. \A c \in Buckets : Saved(c) \in SUBSET Evaluations
    BY DEF Saved
  <2>2. QED
    BY <2>1, FS_Subset, FS_CardinalityType, FraudAssumption
<1>3. b \in Buckets
  BY DEF Buckets
<1>4. Cardinality(Saved(b) \cup {e}) = Cardinality(Saved(b)) + 1
  BY <1>1, <1>2, <1>3, FS_AddElement
<1>5. \A c \in Buckets : Cardinality(Saved(c)) <= Cardinality(Saved(c)')
  BY <1>1, <1>2, <1>4
<1>6. /\ history'[b] = Bumped(e) /\ Bumped(e) \in Nat /\ Bumped(e) > 0
      /\ \A c \in Buckets : c # b => history'[c] = history[c]
  BY <1>3 DEF BumpSave, Bumped, TypeOK
<1>7. Bumped(e) <= Cardinality(Saved(b)) + 1
  <2>1. seen[e] <= Cardinality(Saved(b)) /\ seen[e] \in Nat
    BY DEF BumpSave, Profile, TypeOK
  <2>2. QED
    BY <2>1, <1>2, <1>3 DEF Bumped
<1>8. ProfileNeverForgets'
  <2> SUFFICES ASSUME NEW c \in Buckets
               PROVE  /\ history'[c] <= Cardinality(Saved(c)')
                      /\ Saved(c)' # {} => history'[c] > 0
    BY DEF ProfileNeverForgets
  <2>1. CASE c = b
    BY <2>1, <1>1, <1>4, <1>6, <1>7
  <2>2. CASE c # b
    BY <2>2, <1>1, <1>6 DEF Profile, ProfileNeverForgets
  <2>3. QED
    BY <2>1, <2>2
<1>9. ASSUME NEW d \in Evaluations, bump'[d] = "save"
      PROVE  seen'[d] <= Cardinality(Saved(Bucket(d))')
  <2>1. bump[d] = "save" /\ seen'[d] = seen[d] /\ seen[d] \in Nat
    BY <1>9, BumpSave(e) DEF BumpSave, TypeOK
  <2>2. seen[d] <= Cardinality(Saved(Bucket(d))) /\ Bucket(d) \in Buckets
    BY <2>1 DEF Profile, Buckets
  <2>3. Cardinality(Saved(Bucket(d))') \in Nat
    BY <1>1, <1>2, <1>4, <2>2
  <2>4. QED
    BY <2>1, <2>2, <2>3, <1>2, <1>5
<1>10. QED
  BY <1>8, <1>9 DEF Profile, Bucket

LEMMA ProfilePreserved ==
    ASSUME TypeOK, TypeOK', Effects, Profile, [Next]_vars
    PROVE  Profile'
<1> DEFINE group == <<history, bump, seen>>
<1>0. ASSUME UNCHANGED group PROVE Profile'
  <2>1. \A b : Saved(b)' = Saved(b)
    BY <1>0 DEF Saved, Bucket
  <2>2. QED
    BY <1>0, <2>1 DEF Profile, ProfileNeverForgets, Bucket, Buckets
<1>1. ASSUME NEW e \in Evaluations, StartEffects(e) \/ BumpFind(e) \/ BumpFails(e)
      PROVE  Profile'
  <2>1. bump[e] # "saved" /\ history' = history
    BY <1>1 DEF StartEffects, BumpFind, BumpFails, Effects, shared
  <2>2. PICK t \in {"find", "save", "failed"} : bump' = [bump EXCEPT ![e] = t]
    BY <1>1 DEF StartEffects, BumpFind, BumpFails
  <2>3. \A b : Saved(b)' = Saved(b)
    BY <2>1, <2>2 DEF Saved, Bucket, TypeOK
  <2>4. ProfileNeverForgets'
    BY <2>1, <2>3 DEF Profile, ProfileNeverForgets, Bucket, Buckets
  <2>5. ASSUME NEW d \in Evaluations, bump'[d] = "save"
        PROVE  seen'[d] <= Cardinality(Saved(Bucket(d))')
    <3>1. CASE bump[d] = "save" /\ seen'[d] = seen[d]
      BY <3>1, <2>3 DEF Profile
    <3>2. CASE BumpFind(e) /\ d = e
      <4>1. seen'[d] = history[Bucket(d)] /\ Bucket(d) \in Buckets
        BY <3>2 DEF BumpFind, TypeOK, Buckets
      <4>2. QED
        BY <4>1, <2>3 DEF Profile, ProfileNeverForgets
    <3>3. CASE d # e
      <4>1. bump'[d] = bump[d]
        BY <2>2, <3>3 DEF TypeOK
      <4>2. seen' = seen \/ \E n : seen' = [seen EXCEPT ![e] = n]
        BY <1>1 DEF StartEffects, BumpFind, BumpFails
      <4>3. seen'[d] = seen[d]
        BY <3>3, <4>2 DEF TypeOK
      <4>4. QED
        BY <2>5, <3>1, <4>1, <4>3
    <3>4. CASE d = e /\ ~BumpFind(e)
      BY <1>1, <2>5, <3>4 DEF StartEffects, BumpFails, TypeOK
    <3>5. QED
      BY <3>2, <3>3, <3>4
  <2>6. QED
    BY <2>4, <2>5 DEF Profile, Bucket
<1>2. ASSUME NEW e \in Evaluations, RuleStep(e)
      PROVE  Profile'
  BY <1>2, <1>0 DEF RuleStep, Prune, Read, Add, RedisFails, DeviceRule, HourRule,
                    Catastrophe, Timeout, shared
<1>3. ASSUME NEW e \in Evaluations,
             RegisterDevice(e) \/ EndEffects(e) \/ Begin(e) \/ Persist(e) \/ PersistFails(e)
                \/ ResolveLock(e) \/ ResolveEnd(e)
      PROVE  Profile'
  BY <1>3, <1>0 DEF RegisterDevice, EndEffects, Begin, Persist, PersistFails, ResolveLock,
                    ResolveEnd, shared, local
<1>4. CASE Tick \/ UNCHANGED vars
  BY <1>4, <1>0 DEF Tick, vars, shared, local
<1>5. QED
  BY <1>1, <1>2, <1>3, <1>4, SaveCounts DEF Next, EffectStep

-----------------------------------------------------------------------------
(* Verdicts *)

\* The earlier use of a device or an hour stays.
LEMMA UsesStay ==
    ASSUME TypeOK, Effects, [Next]_vars, NEW e \in Evaluations
    PROVE  /\ UsedDevice(e) => UsedDevice(e)'
           /\ UsedHour(e) => UsedHour(e)'
BY BumpsGrow DEF UsedDevice, UsedHour, Earlier, Device

\* Nothing is told or awaited that was not before.
LEMMA VerdictsStand ==
    ASSUME TypeOK, Effects, Verdicts, [Next]_vars,
           UNCHANGED <<found, waiting, worst, flawed>>,
           \A e \in Evaluations : stage[e] = "new" <=> stage'[e] = "new"
    PROVE  Verdicts'
<1>1. \A e \in Evaluations : Clean(e)' <=> Clean(e)
  BY DEF Clean
<1>2. FoundTold' /\ AmountTold'
  BY <1>1 DEF Verdicts, FoundTold, AmountTold
<1>3. DeviceTold' /\ HourTold'
  BY <1>1, UsesStay DEF Verdicts, DeviceTold, HourTold, NewDeviceAmount, HasDevice, UnusualHour
<1>4. QED
  BY <1>2, <1>3 DEF Verdicts

\* A verdict that counts is in the worst from then on.
LEMMA VerdictCounts ==
    ASSUME TypeOK, Effects, Verdicts, [Next]_vars,
           NEW e \in Evaluations, NEW r \in RuleTypes, NEW d \in Decisions, Verdict(e, r, d),
           UNCHANGED stage,
           \A f \in Evaluations :
               found'[f] = IF f = e THEN found[e] \ {r} ELSE found[f],
           r \in found[e] => d # "APPROVED",
           \A f \in flawed' \ flawed :
               f = e /\ stage[e] # "new" /\ r \in waiting[e] /\ d # "APPROVED",
           /\ r = "NEW_DEVICE_LARGE_AMOUNT" /\ r \in waiting[e]
              /\ d = "APPROVED" /\ NewDeviceAmount(e) => UsedDevice(e),
           /\ r = "UNUSUAL_HOUR_PATTERN" /\ r \in waiting[e]
              /\ d = "APPROVED" /\ UnusualHour(e) => UsedHour(e)
    PROVE  Verdicts'
<1>1. ASSUME NEW f \in Evaluations, worst'[f] = "APPROVED"
      PROVE  worst[f] = "APPROVED" /\ (f = e /\ r \in waiting[e] => d = "APPROVED")
  BY <1>1, WorseTypes DEF Verdict, TypeOK
<1>2. \A f \in Evaluations : \A q : q \notin waiting'[f] =>
          q \notin waiting[f] \/ (f = e /\ q = r /\ r \in waiting[e])
  BY DEF Verdict, TypeOK
<1>3. FoundTold'
  <2> SUFFICES ASSUME NEW f \in Evaluations
               PROVE  /\ found'[f] \subseteq waiting'[f]
                      /\ f \in flawed' =>
                            stage[f] # "new" /\ (worst'[f] # "APPROVED" \/ found'[f] # {})
    BY DEF FoundTold
  <2>1. found[f] \subseteq waiting[f]
    BY DEF Verdicts, FoundTold
  <2>2. found'[f] \subseteq waiting'[f]
    BY <2>1 DEF Verdict, TypeOK
  <2>3. ASSUME f \in flawed
        PROVE  stage[f] # "new" /\ (worst'[f] # "APPROVED" \/ found'[f] # {})
    <3>1. stage[f] # "new" /\ (worst[f] # "APPROVED" \/ found[f] # {})
      BY <2>3 DEF Verdicts, FoundTold
    <3>2. CASE f = e /\ r \in found[e]
      BY <1>1, <2>1, <3>1, <3>2
    <3>3. CASE ~(f = e /\ r \in found[e])
      BY <1>1, <3>1, <3>3
    <3>4. QED
      BY <3>2, <3>3
  <2>4. QED
    BY <1>1, <2>2, <2>3
<1>4. AmountTold'
  BY <1>1 DEF Verdicts, AmountTold, Clean
<1>5. DeviceTold'
  <2> SUFFICES ASSUME NEW f \in Evaluations, Clean(f)', NewDeviceAmount(f),
                      "NEW_DEVICE_LARGE_AMOUNT" \notin waiting'[f]
               PROVE  UsedDevice(f)'
    BY DEF DeviceTold, NewDeviceAmount, HasDevice
  <2>1. Clean(f)
    BY <1>1 DEF Clean
  <2>2. UsedDevice(f)
    BY <1>1, <1>2, <2>1 DEF Verdicts, DeviceTold, Clean
  <2>3. QED
    BY <2>2, UsesStay
<1>6. HourTold'
  <2> SUFFICES ASSUME NEW f \in Evaluations, Clean(f)', UnusualHour(f),
                      "UNUSUAL_HOUR_PATTERN" \notin waiting'[f]
               PROVE  UsedHour(f)'
    BY DEF HourTold, UnusualHour
  <2>1. Clean(f)
    BY <1>1 DEF Clean
  <2>2. UsedHour(f)
    BY <1>1, <1>2, <2>1 DEF Verdicts, HourTold, Clean
  <2>3. QED
    BY <2>2, UsesStay
<1>7. QED
  BY <1>3, <1>4, <1>5, <1>6 DEF Verdicts

LEMMA BeginClean ==
    ASSUME TypeOK, Effects, Verdicts, [Next]_vars, NEW e \in Evaluations, Begin(e)
    PROVE  Verdicts'
<1>1. /\ \A f \in Evaluations : f # e =>
            /\ Clean(f)' <=> Clean(f)
            /\ waiting'[f] = waiting[f] /\ worst'[f] = worst[f] /\ stage'[f] = stage[f]
      /\ found' = found /\ flawed' = flawed
      /\ stage[e] = "new" /\ waiting'[e] = Awaiting(e)
      /\ worst'[e] = IF Ctx[e].amount > LARGE_AMOUNT_USD THEN "ACTION_REQUIRED" ELSE "APPROVED"
  BY DEF Begin, LargeTransaction, Clean, TypeOK
<1>2. found[e] \subseteq Awaiting(e) /\ e \notin flawed
  <2>1. found[e] \subseteq WindowRules
    BY DEF TypeOK
  <2>2. WindowRules \subseteq Awaiting(e)
    BY DEF Awaiting, WindowRules, RuleTypes
  <2>3. QED
    BY <1>1, <2>1, <2>2 DEF Verdicts, FoundTold
<1>3. FoundTold'
  BY <1>1, <1>2 DEF Verdicts, FoundTold
<1>4. AmountTold'
  <2>1. Ctx[e].amount \in Nat
    BY FraudAssumption DEF IsContext
  <2>2. Clean(e)' => Ctx[e].amount <= LARGE_AMOUNT_USD
    BY <1>1, <2>1 DEF Clean, LARGE_AMOUNT_USD
  <2>3. QED
    BY <1>1, <2>2 DEF Verdicts, AmountTold
<1>5. /\ "NEW_DEVICE_LARGE_AMOUNT" \notin waiting'[e] => ~NewDeviceAmount(e)
      /\ "UNUSUAL_HOUR_PATTERN" \notin waiting'[e] => ~UnusualHour(e)
  BY <1>1 DEF Awaiting, RuleTypes, DatabaseRules, NewDeviceAmount
<1>6. DeviceTold'
  <2>1. \A f \in Evaluations : NewDeviceAmount(f)' <=> NewDeviceAmount(f)
    BY DEF NewDeviceAmount, HasDevice
  <2>2. QED
    BY <1>1, <1>5, <2>1, UsesStay DEF Verdicts, DeviceTold
<1>7. HourTold'
  <2>1. \A f \in Evaluations : UnusualHour(f)' <=> UnusualHour(f)
    BY DEF UnusualHour
  <2>2. QED
    BY <1>1, <1>5, <2>1, UsesStay DEF Verdicts, HourTold
<1>8. QED
  BY <1>3, <1>4, <1>6, <1>7 DEF Verdicts

LEMMA GiveUpIsNotClean ==
    ASSUME TypeOK, Effects, Verdicts, [Next]_vars, NEW e \in Evaluations, GiveUp(e),
           stage[e] = "rules"
    PROVE  Verdicts'
<1>1. /\ \A f \in Evaluations : f # e =>
            /\ Clean(f)' <=> Clean(f)
            /\ waiting'[f] = waiting[f] /\ worst'[f] = worst[f] /\ stage'[f] = stage[f]
            /\ found'[f] = found[f]
      /\ found'[e] = {} /\ ~Clean(e)' /\ worst'[e] # "APPROVED" /\ stage'[e] # "new"
      /\ flawed' = flawed \cup {e}
  BY DEF GiveUp, OfError, Clean, TypeOK
<1>2. FoundTold'
  BY <1>1 DEF Verdicts, FoundTold
<1>3. AmountTold'
  BY <1>1 DEF Verdicts, AmountTold
<1>4. DeviceTold' /\ HourTold'
  <2>1. \A f \in Evaluations : /\ NewDeviceAmount(f)' <=> NewDeviceAmount(f)
                               /\ UnusualHour(f)' <=> UnusualHour(f)
    BY DEF NewDeviceAmount, HasDevice, UnusualHour
  <2>2. QED
    BY <1>1, <2>1, UsesStay DEF Verdicts, DeviceTold, HourTold
<1>5. QED
  BY <1>2, <1>3, <1>4 DEF Verdicts

LEMMA ReadIsTold ==
    ASSUME TypeOK, Effects, Verdicts, [Next]_vars,
           NEW e \in Evaluations, NEW r \in WindowRules, Read(e, r)
    PROVE  Verdicts'
<1>1. UNCHANGED <<waiting, worst, stage>> /\ stage[e] # "new"
  BY DEF Read, Pending, shared
<1>2. \/ UNCHANGED <<found, flawed>>
      \/ /\ found' = [found EXCEPT ![e] = @ \cup {r}] /\ r \in waiting[e]
         /\ flawed' = flawed \cup {e}
  BY DEF Read
<1>3. FoundTold'
  <2>1. CASE UNCHANGED <<found, flawed>>
    BY <1>1, <2>1 DEF Verdicts, FoundTold
  <2>2. CASE /\ found' = [found EXCEPT ![e] = @ \cup {r}] /\ r \in waiting[e]
             /\ flawed' = flawed \cup {e}
    <3>1. /\ found'[e] = found[e] \cup {r}
          /\ \A f \in Evaluations : f # e => found'[f] = found[f]
      BY <2>2 DEF TypeOK
    <3>2. QED
      BY <1>1, <2>2, <3>1 DEF Verdicts, FoundTold
  <2>3. QED
    BY <1>2, <2>1, <2>2
<1>4. AmountTold'
  BY <1>1 DEF Verdicts, AmountTold, Clean
<1>5. DeviceTold' /\ HourTold'
  BY <1>1, UsesStay DEF Verdicts, DeviceTold, HourTold, NewDeviceAmount, HasDevice,
                        UnusualHour, Clean
<1>6. QED
  BY <1>3, <1>4, <1>5 DEF Verdicts

LEMMA DeviceRuleCounts ==
    ASSUME TypeOK, Effects, Verdicts, [Next]_vars, NEW e \in Evaluations, DeviceRule(e)
    PROVE  Verdicts'
<1> DEFINE d == IF Device(e) \notin known /\ NewDeviceAmount(e) THEN "REVIEW" ELSE "APPROVED"
<1>1. /\ Verdict(e, "NEW_DEVICE_LARGE_AMOUNT", d) /\ UNCHANGED <<stage, found, flawed>>
      /\ d \in Decisions /\ stage[e] = "rules"
  BY DEF DeviceRule, Waits, Decisions
<1>2. "NEW_DEVICE_LARGE_AMOUNT" \in RuleTypes /\ "NEW_DEVICE_LARGE_AMOUNT" \notin found[e]
  BY DEF RuleTypes, DatabaseRules, WindowRules, TypeOK
<1>3. d = "APPROVED" /\ NewDeviceAmount(e) => UsedDevice(e)
  <2> SUFFICES ASSUME Device(e) \in known PROVE UsedDevice(e)
    OBVIOUS
  <2>1. PICK c \in Evaluations : bump[c] # "none" /\ Device(c) = Device(e)
    BY DEF Effects, KnownFrom
  <2>2. bump[e] = "none"
    BY <1>1 DEF Effects
  <2>3. Ctx[c].user = Ctx[e].user
    BY <2>1 DEF Device
  <2>4. QED
    BY <2>1, <2>2, <2>3 DEF UsedDevice, Earlier
<1>4. QED
  <2> HIDE DEF d
  <2> QED
    BY <1>1, <1>2, <1>3, VerdictCounts

LEMMA HourRuleCounts ==
    ASSUME TypeOK, Effects, Verdicts, Profile, [Next]_vars, NEW e \in Evaluations, HourRule(e)
    PROVE  Verdicts'
<1> DEFINE d == IF HasHistory(Ctx[e].user) THEN "APPROVED" ELSE "REVIEW"
<1>1. /\ Verdict(e, "UNUSUAL_HOUR_PATTERN", d) /\ UNCHANGED <<stage, found, flawed>>
      /\ d \in Decisions /\ stage[e] = "rules"
  BY DEF HourRule, Waits, Decisions
<1>2. "UNUSUAL_HOUR_PATTERN" \in RuleTypes /\ "UNUSUAL_HOUR_PATTERN" \notin found[e]
  BY DEF RuleTypes, DatabaseRules, WindowRules, TypeOK
<1>3. d = "APPROVED" => UsedHour(e)
  <2> SUFFICES ASSUME HasHistory(Ctx[e].user) PROVE UsedHour(e)
    OBVIOUS
  <2>1. PICK b \in Buckets : b[1] = Ctx[e].user /\ b[2] \in UNUSUAL_HOUR_BUCKETS /\ history[b] > 0
    BY DEF HasHistory
  <2>2. Saved(b) # {}
    <3> SUFFICES ASSUME Saved(b) = {} PROVE FALSE
      OBVIOUS
    <3>1. history[b] <= 0 /\ history[b] \in Nat
      BY FS_EmptySet DEF Profile, ProfileNeverForgets, TypeOK
    <3>2. QED
      BY <2>1, <3>1
  <2>3. PICK c \in Evaluations : Bucket(c) = b /\ bump[c] = "saved"
    BY <2>2 DEF Saved
  <2>4. Ctx[c].user = Ctx[e].user /\ Ctx[c].hour \in UNUSUAL_HOUR_BUCKETS
    BY <2>1, <2>3 DEF Bucket
  <2>5. bump[e] = "none"
    BY <1>1 DEF Effects
  <2>6. QED
    BY <2>3, <2>4, <2>5 DEF UsedHour, Earlier
<1>4. QED
  <2> HIDE DEF d
  <2> QED
    BY <1>1, <1>2, <1>3, VerdictCounts

LEMMA VerdictsPreserved ==
    ASSUME TypeOK, Effects, Profile, Verdicts, [Next]_vars
    PROVE  Verdicts'
<1>1. ASSUME NEW e \in Evaluations, NEW r \in WindowRules, Add(e, r)
      PROVE  Verdicts'
  <2>1. r \in RuleTypes /\ r \notin DatabaseRules
    BY DEF RuleTypes, WindowRules, DatabaseRules
  <2>2. PICK d \in Decisions : Verdict(e, r, d) /\ (r \in found[e] => d = "REVIEW")
    BY <1>1 DEF Add, Decisions
  <2>3. /\ UNCHANGED <<stage, flawed>>
        /\ \A f \in Evaluations :
              found'[f] = IF f = e THEN found[e] \ {r} ELSE found[f]
    BY <1>1 DEF Add, TypeOK
  <2>4. QED
    BY <2>1, <2>2, <2>3, VerdictCounts DEF DatabaseRules
<1>2. ASSUME NEW e \in Evaluations, NEW r \in WindowRules, RedisFails(e, r)
      PROVE  Verdicts'
  <2>1. r \in RuleTypes /\ r \notin DatabaseRules /\ "BLOCKED" \in Decisions
    BY DEF RuleTypes, WindowRules, DatabaseRules, Decisions
  <2>2. /\ Verdict(e, r, "BLOCKED") /\ UNCHANGED stage
        /\ r \in waiting[e] /\ stage[e] # "new" /\ flawed' = flawed \cup {e}
        /\ \A f \in Evaluations :
              found'[f] = IF f = e THEN found[e] \ {r} ELSE found[f]
    BY <1>2 DEF RedisFails, OfError, TypeOK
  <2>3. QED
    BY <2>1, <2>2, VerdictCounts DEF DatabaseRules
<1>3. ASSUME NEW e \in Evaluations, NEW r \in WindowRules, Prune(e, r)
      PROVE  Verdicts'
  BY <1>3, VerdictsStand DEF Prune
<1>4. ASSUME NEW e \in Evaluations, Catastrophe(e) \/ Timeout(e)
      PROVE  Verdicts'
  BY <1>4, GiveUpIsNotClean DEF Catastrophe, Timeout, Waits
<1>5. ASSUME NEW e \in Evaluations, RuleStep(e)
      PROVE  Verdicts'
  BY <1>1, <1>2, <1>3, <1>4, <1>5, ReadIsTold, DeviceRuleCounts, HourRuleCounts DEF RuleStep
<1>6. ASSUME NEW e \in Evaluations,
             StartEffects(e) \/ EndEffects(e) \/ Persist(e) \/ PersistFails(e)
      PROVE  Verdicts'
  <2>1. /\ UNCHANGED <<found, waiting, worst, flawed>>
        /\ \A f \in Evaluations : stage[f] = "new" <=> stage'[f] = "new"
    BY <1>6 DEF StartEffects, EndEffects, Persist, PersistFails, local, TypeOK
  <2>2. QED
    BY <2>1, VerdictsStand
<1>7. ASSUME NEW e \in Evaluations,
             RegisterDevice(e) \/ BumpFind(e) \/ BumpSave(e) \/ BumpFails(e)
                \/ ResolveLock(e) \/ ResolveEnd(e)
      PROVE  Verdicts'
  <2>1. UNCHANGED <<found, waiting, worst, stage, flawed>>
    BY <1>7 DEF RegisterDevice, BumpFind, BumpSave, BumpFails, ResolveLock, ResolveEnd,
                shared, local
  <2>2. QED
    BY <2>1, VerdictsStand
<1>8. CASE Tick \/ UNCHANGED vars
  <2>1. UNCHANGED <<found, waiting, worst, stage, flawed>>
    BY <1>8 DEF Tick, vars, shared, local
  <2>2. QED
    BY <2>1, VerdictsStand
<1>9. QED
  BY <1>5, <1>6, <1>7, <1>8, BeginClean DEF Next, EffectStep

-----------------------------------------------------------------------------
(* Decisions *)

LEMMA ToldPreserved ==
    ASSUME TypeOK, Told, Held, [Next]_vars
    PROVE  Told'
<1>1. ASSUME UNCHANGED <<decided, announced>>,
             \A e \in Evaluations : stage'[e] # "over" \/ stage[e] = "over",
             \A e \in Evaluations : stage[e] = "over" =>
                 worst'[e] = worst[e] /\ stage'[e] = "over"
      PROVE  Told'
  <2>1. \A e \in Evaluations : stage'[e] # "over" => decided[e] = None /\ announced[e] = <<>>
    BY <1>1 DEF Told
  <2>2. \A e \in Evaluations : stage'[e] = "over" => worst'[e] = worst[e]
    BY <1>1
  <2>3. DecisionsAnnounced'
    <3> SUFFICES ASSUME NEW e \in Evaluations
                 PROVE  \/ decided[e] = None /\ announced[e] = <<>>
                        \/ decided[e] = worst'[e] /\ announced[e] = Announcement(worst'[e])
                        \/ /\ decided[e] = "APPROVED" /\ worst'[e] \in Resolvable
                           /\ announced[e] = Append(Announcement(worst'[e]), "fraud.flag.resolved")
      BY <1>1 DEF DecisionsAnnounced
    <3>1. CASE stage'[e] # "over"
      BY <3>1, <2>1
    <3>2. CASE stage'[e] = "over"
      BY <3>2, <2>2 DEF Told, DecisionsAnnounced
    <3>3. QED
      BY <3>1, <3>2
  <2>4. QED
    BY <1>1, <2>1, <2>3 DEF Told
<1>2. ASSUME NEW e \in Evaluations, Begin(e)
      PROVE  Told'
  BY <1>2, <1>1 DEF Begin, shared, TypeOK
<1>3. ASSUME NEW e \in Evaluations, NEW r, NEW d, Verdict(e, r, d),
             UNCHANGED <<decided, announced, stage>>
      PROVE  Told'
  <2>1. \A f \in Evaluations : stage[f] = "over" => worst'[f] = worst[f]
    BY <1>3 DEF Verdict, TypeOK
  <2>2. QED
    BY <1>1, <1>3, <2>1
<1>4. ASSUME NEW e \in Evaluations, RuleStep(e)
      PROVE  Told'
  <2>1. ASSUME NEW r \in WindowRules, Prune(e, r) \/ Read(e, r)
        PROVE  Told'
    BY <2>1, <1>1 DEF Prune, Read, shared
  <2>2. ASSUME NEW r \in WindowRules, Add(e, r) \/ RedisFails(e, r)
        PROVE  Told'
    BY <2>2, <1>3 DEF Add, RedisFails
  <2>3. CASE DeviceRule(e) \/ HourRule(e)
    BY <2>3, <1>3 DEF DeviceRule, HourRule, shared
  <2>4. CASE Catastrophe(e) \/ Timeout(e)
    <3>1. GiveUp(e) /\ stage[e] = "rules" /\ UNCHANGED <<decided, announced>>
      BY <2>4 DEF Catastrophe, Timeout, Waits, shared
    <3>2. QED
      BY <3>1, <1>1 DEF GiveUp, TypeOK
  <2>5. QED
    BY <1>4, <2>1, <2>2, <2>3, <2>4 DEF RuleStep
<1>5. ASSUME NEW e \in Evaluations, StartEffects(e) \/ EndEffects(e)
      PROVE  Told'
  BY <1>5, <1>1 DEF StartEffects, EndEffects, shared, local, TypeOK
<1>6. ASSUME NEW e \in Evaluations,
             RegisterDevice(e) \/ BumpFind(e) \/ BumpSave(e) \/ BumpFails(e) \/ ResolveLock(e)
      PROVE  Told'
  BY <1>6, <1>1 DEF RegisterDevice, BumpFind, BumpSave, BumpFails, ResolveLock, shared, local
<1>7. ASSUME NEW e \in Evaluations, Persist(e) \/ PersistFails(e)
      PROVE  Told'
  <2>1. /\ stage[e] = "persist" /\ stage' = [stage EXCEPT ![e] = "over"] /\ worst' = worst
        /\ SaveDecision(e) \/ UNCHANGED <<decided, announced>>
    BY <1>7 DEF Persist, PersistFails, local
  <2>2. \A f \in Evaluations : f # e =>
            /\ decided'[f] = decided[f] /\ announced'[f] = announced[f]
            /\ stage'[f] = stage[f]
    BY <2>1 DEF SaveDecision, TypeOK
  <2>3. \/ decided'[e] = worst[e] /\ announced'[e] = Announcement(worst[e])
        \/ decided'[e] = None /\ announced'[e] = <<>>
    BY <2>1 DEF SaveDecision, TypeOK, Told
  <2>4. stage'[e] = "over"
    BY <2>1 DEF TypeOK
  <2>5. QED
    BY <2>1, <2>2, <2>3, <2>4 DEF Told, DecisionsAnnounced
<1>8. ASSUME NEW e \in Evaluations, ResolveEnd(e)
      PROVE  Told'
  <2>1. /\ UNCHANGED <<stage, worst>> /\ resolving[e] > 0
        /\ \A f \in Evaluations : f # e =>
              decided'[f] = decided[f] /\ announced'[f] = announced[f]
    BY <1>8 DEF ResolveEnd, local, TypeOK
  <2>2. decided[e] \in Resolvable /\ worst[e] \in Decisions
    BY <2>1 DEF Held, TypeOK
  <2>3. decided[e] # None /\ decided[e] # "APPROVED"
    BY <2>2, FraudAssumption DEF Resolvable, Decisions
  <2>4. decided[e] = worst[e] /\ announced[e] = Announcement(worst[e]) /\ stage[e] = "over"
    BY <2>3 DEF Told, DecisionsAnnounced
  <2>5. CASE UNCHANGED <<decided, announced>>
    BY <2>1, <2>5, <1>1
  <2>6. CASE /\ decided'[e] = "APPROVED"
             /\ announced'[e] = Append(announced[e], "fraud.flag.resolved")
    BY <2>1, <2>2, <2>4, <2>6 DEF Told, DecisionsAnnounced
  <2>7. QED
    BY <1>8, <2>5, <2>6 DEF ResolveEnd, TypeOK
<1>9. CASE Tick \/ UNCHANGED vars
  BY <1>9, <1>1 DEF Tick, vars, shared, local
<1>10. QED
  BY <1>2, <1>4, <1>5, <1>6, <1>7, <1>8, <1>9 DEF Next, EffectStep

\* A decision that an operator holds is written by nobody else.
LEMMA HeldPreserved ==
    ASSUME TypeOK, Told, Held, [Next]_vars
    PROVE  Held'
<1>0. ASSUME UNCHANGED <<resolving, decided>> PROVE Held'
  BY <1>0 DEF Held
<1>1. ASSUME NEW e \in Evaluations, Persist(e) \/ PersistFails(e)
      PROVE  Held'
  <2>1. /\ stage[e] = "persist" /\ resolving' = resolving
        /\ SaveDecision(e) \/ UNCHANGED decided
    BY <1>1 DEF Persist, PersistFails
  <2>2. decided[e] = None /\ resolving[e] \in Nat
    BY <2>1, FraudAssumption DEF Told, TypeOK
  <2>3. ~(resolving[e] > 0)
    BY <2>2, FraudAssumption DEF Held, Resolvable, Decisions
  <2>4. QED
    BY <2>1, <2>3 DEF SaveDecision, Held, TypeOK
<1>2. ASSUME NEW e \in Evaluations, ResolveLock(e)
      PROVE  Held'
  BY <1>2 DEF ResolveLock, Free, Held, TypeOK, shared
<1>3. ASSUME NEW e \in Evaluations, ResolveEnd(e)
      PROVE  Held'
  <2>1. /\ resolving[e] = 1 /\ resolving' = [resolving EXCEPT ![e] = @ - 1]
        /\ \A f \in Evaluations : f # e => decided'[f] = decided[f]
    <3>1. resolving[e] \in Int
      BY FraudAssumption DEF TypeOK
    <3>2. QED
      BY <1>3, <3>1 DEF ResolveEnd, Held, TypeOK
  <2>2. resolving'[e] = 0 /\ \A f \in Evaluations : f # e => resolving'[f] = resolving[f]
    BY <2>1 DEF TypeOK
  <2>3. QED
    BY <2>1, <2>2 DEF Held
<1>4. ASSUME NEW e \in Evaluations, Begin(e) \/ RuleStep(e) \/ EffectStep(e)
      PROVE  Held'
  BY <1>4, <1>0 DEF Begin, RuleStep, Prune, Read, Add, RedisFails, DeviceRule, HourRule,
                    Catastrophe, Timeout, EffectStep, StartEffects, RegisterDevice, BumpFind,
                    BumpSave, BumpFails, EndEffects, shared
<1>5. CASE Tick \/ UNCHANGED vars
  BY <1>5, <1>0 DEF Tick, vars, shared
<1>6. QED
  BY <1>1, <1>2, <1>3, <1>4, <1>5 DEF Next

-----------------------------------------------------------------------------
(* The theorems *)

LEMMA NextPreserves == IInv /\ [Next]_vars => IInv'
<1> SUFFICES ASSUME IInv, [Next]_vars PROVE IInv'
  OBVIOUS
<1> USE DEF IInv
<1>1. TypeOK'
  <2>1. CASE UNCHANGED vars
    BY <2>1 DEF vars, shared, local, TypeOK
  <2>2. QED
    BY <2>1, TypesPreserved
<1>2. QED
  BY <1>1, WindowsPreserved, VerdictsPreserved, EffectsPreserved, ProfilePreserved,
     ToldPreserved, HeldPreserved

LEMMA Inductive == Spec => []IInv
BY InitEstablishes, NextPreserves, PTL DEF Spec

\* The tables, the sorted sets and every evaluation stay well typed, and an
\* evaluation that is past its rules waits for none of them.
THEOREM FraudTypes == Spec => []TypeOK
<1>1. IInv => TypeOK
  BY DEF IInv
<1>2. QED
  BY <1>1, Inductive, PTL

\* FraudService never stores APPROVED for an evaluation that did not see all it
\* should have seen: for any number of racing evaluations, any window lengths
\* and thresholds, and whatever Redis and the timers do.
THEOREM ApprovedClean == Spec => []ApprovedMeansClean
<1>1. IInv => ApprovedMeansClean
  <2> SUFFICES ASSUME IInv, NEW e \in Evaluations, decided[e] = "APPROVED", announced[e] = <<>>
               PROVE  /\ e \notin missed /\ e \notin flawed /\ waiting[e] = {}
                      /\ Ctx[e].amount <= LARGE_AMOUNT_USD
                      /\ NewDeviceAmount(e) => UsedDevice(e)
                      /\ UnusualHour(e) => UsedHour(e)
    BY DEF ApprovedMeansClean, UsedDevice, UsedHour
  <2>1. stage[e] = "over" /\ decided[e] # None
    BY FraudAssumption DEF IInv, Told, Decisions
  <2>2. waiting[e] = {}
    BY <2>1 DEF IInv, TypeOK
  <2>3. worst[e] = "APPROVED"
    <3>1. \A s \in Seq(Events) : \A x : Append(s, x) # <<>>
      OBVIOUS
    <3>2. Announcement(worst[e]) \in Seq(Events)
      BY AnnouncementTypes DEF IInv, TypeOK
    <3>3. QED
      BY <2>1, <3>1, <3>2 DEF IInv, Told, DecisionsAnnounced
  <2>4. QED
    BY <2>1, <2>2, <2>3 DEF IInv, Windows, Verdicts, FoundTold, AmountTold, DeviceTold,
                            HourTold, Clean, TypeOK
<1>2. QED
  BY <1>1, Inductive, PTL

\* bumpHourProfile may lose an increment to a race, never the history.
THEOREM ProfileKept == Spec => []ProfileNeverForgets
<1>1. IInv => ProfileNeverForgets
  BY DEF IInv, Profile
<1>2. QED
  BY <1>1, Inductive, PTL

\* A decision and its outbox rows tell one story, resolved at most once.
THEOREM DecisionsTold == Spec => []DecisionsAnnounced
<1>1. IInv => DecisionsAnnounced
  BY DEF IInv, Told
<1>2. QED
  BY <1>1, Inductive, PTL
=============================================================================
