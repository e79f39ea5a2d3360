------------------------------- MODULE Outbox -------------------------------
(***************************************************************************)
(* The transactional outbox and its relay (OutboxRepository,               *)
(* OutboxProcessorService, OutboxRelayCronService).                        *)
(*                                                                         *)
(* A worker is one cron tick in flight, in this or another server: a tick  *)
(* starts every five seconds whether or not the last one has ended.  Each  *)
(* query is one step, and so is each publish.                              *)
(***************************************************************************)
EXTENDS Naturals, FiniteSets

CONSTANTS
    Events,      \* outbox row ids; numbers, in the order of created_at
    Workers,     \* relay ticks in flight at the same time
    BatchSize,   \* OUTBOX_RELAY_BATCH_SIZE of each worker's server
    MarkRetries  \* OUTBOX_MARK_PUBLISHED_RETRIES

ASSUME OutboxAssumption ==
    /\ Events \subseteq Nat
    /\ BatchSize \in [Workers -> Nat \ {0}]
    /\ MarkRetries \in Nat \ {0}

VARIABLES
    row,       \* status of each row, "ABSENT" before its transaction commits
    stale,     \* rows claimed longer ago than OUTBOX_STALE_CLAIM_SECONDS
    pc,        \* next query of each worker
    batch,     \* rows of the worker's batch it has not finished
    tries,     \* failed attempts to mark the current row PUBLISHED
    delivered, \* rows the broker has accepted a message of
    reclaimed  \* history: rows that were reclaimed at least once

vars == <<row, stale, pc, batch, tries, delivered, reclaimed>>

Status == {"ABSENT", "PENDING", "CLAIMED", "PUBLISHED", "FAILED"}

\* Shapes; only claimed rows carry a claim's age.
TypeOK ==
    /\ row \in [Events -> Status]
    /\ stale \in SUBSET {e \in Events : row[e] = "CLAIMED"}
    /\ pc \in [Workers -> {"idle", "claim", "publish", "fail", "mark"}]
    /\ batch \in [Workers -> SUBSET Events]
    /\ tries \in [Workers -> 0..(MarkRetries - 1)]
    /\ delivered \in SUBSET Events
    /\ reclaimed \in SUBSET Events

Init ==
    /\ row = [e \in Events |-> "ABSENT"]
    /\ stale = {}
    /\ pc = [w \in Workers |-> "idle"]
    /\ batch = [w \in Workers |-> {}]
    /\ tries = [w \in Workers |-> 0]
    /\ delivered = {}
    /\ reclaimed = {}

-----------------------------------------------------------------------------

\* A domain transaction commits the row it enqueued.
Enqueue(e) ==
    /\ row[e] = "ABSENT"
    /\ row' = [row EXCEPT ![e] = "PENDING"]
    /\ UNCHANGED <<stale, pc, batch, tries, delivered, reclaimed>>

\* Time passes the limit for a claim.
Age(e) ==
    /\ row[e] = "CLAIMED"
    /\ e \notin stale
    /\ stale' = stale \cup {e}
    /\ UNCHANGED <<row, pc, batch, tries, delivered, reclaimed>>

\* Mutant: the cutoff is never reached.
IsStaleNever(e) == FALSE

IsStale(e) == row[e] = "CLAIMED" /\ e \in stale

\* A tick begins: reclaimStaleClaimed.
Reclaim(w) ==
    LET R == {e \in Events : IsStale(e)}
    IN /\ pc[w] = "idle"
       /\ row' = [e \in Events |-> IF e \in R THEN "PENDING" ELSE row[e]]
       /\ stale' = stale \ R
       /\ reclaimed' = reclaimed \cup R
       /\ pc' = [pc EXCEPT ![w] = "claim"]
       /\ UNCHANGED <<batch, tries, delivered>>

Pending == {e \in Events : row[e] = "PENDING"}

\* The oldest pending rows, at most `limit` of them.
IsBatch(B, limit) ==
    /\ B \subseteq Pending
    /\ Cardinality(B) <= limit
    /\ Cardinality(B) < limit => B = Pending
    /\ \A e \in B, f \in Pending \ B : e < f

Claimed(B) == [e \in Events |-> IF e \in B THEN "CLAIMED" ELSE row[e]]

\* claimPendingBatchForRelay: SKIP LOCKED lets two claims pass each other, and
\* each takes its rows and sets them CLAIMED in one transaction.
Claim(w) ==
    /\ pc[w] = "claim"
    /\ \E B \in SUBSET Pending :
          /\ IsBatch(B, BatchSize[w])
          /\ batch' = [batch EXCEPT ![w] = B]
          /\ row' = Claimed(B)
          /\ pc' = [pc EXCEPT ![w] = IF B = {} THEN "idle" ELSE "publish"]
    /\ UNCHANGED <<stale, tries, delivered, reclaimed>>

\* The row the worker's loop is at.
Current(w) == CHOOSE e \in batch[w] : \A f \in batch[w] : e <= f

\* The loop goes on with the next row, or the tick ends.
NextRow(w) ==
    /\ batch' = [batch EXCEPT ![w] = @ \ {Current(w)}]
    /\ tries' = [tries EXCEPT ![w] = 0]
    /\ pc' = [pc EXCEPT ![w] = IF batch[w] = {Current(w)} THEN "idle" ELSE "publish"]

\* The broker confirms the message.
PublishConfirmed(w) ==
    /\ pc[w] = "publish"
    /\ delivered' = delivered \cup {Current(w)}
    /\ pc' = [pc EXCEPT ![w] = "mark"]
    /\ UNCHANGED <<row, stale, batch, tries, reclaimed>>

\* Mutant: the publish error is caught and the row marked all the same.
AfterPublishErrorMark == "mark"

AfterPublishError == "fail"

\* Publishing throws; when only the confirm is lost the broker has the message.
PublishFails(w) ==
    /\ pc[w] = "publish"
    /\ \E reached \in BOOLEAN :
          delivered' = IF reached THEN delivered \cup {Current(w)} ELSE delivered
    /\ pc' = [pc EXCEPT ![w] = AfterPublishError]
    /\ UNCHANGED <<row, stale, batch, tries, reclaimed>>

\* Mutant: the UPDATE does not ask for status CLAIMED.
SetFromAny(e, s) ==
    /\ row' = [row EXCEPT ![e] = s]
    /\ stale' = stale \ {e}

\* UPDATE ... WHERE id = e AND status = CLAIMED: zero rows is no error here.  The
\* claim may by now be another worker's: nothing says whose it is.
SetFromClaimed(e, s) ==
    /\ row' = IF row[e] = "CLAIMED" THEN [row EXCEPT ![e] = s] ELSE row
    /\ stale' = stale \ {e}

MarkFailed(w) ==
    /\ pc[w] = "fail"
    /\ SetFromClaimed(Current(w), "FAILED")
    /\ NextRow(w)
    /\ UNCHANGED <<delivered, reclaimed>>

\* assertMarkPublishedExactlyOne updates its one row.
MarkPublished(w) ==
    /\ pc[w] = "mark"
    /\ row[Current(w)] = "CLAIMED"
    /\ SetFromClaimed(Current(w), "PUBLISHED")
    /\ NextRow(w)
    /\ UNCHANGED <<delivered, reclaimed>>

\* Mutant: one attempt too many.
LastTryLate(w) == tries[w] = MarkRetries

LastTry(w) == tries[w] + 1 = MarkRetries

\* It updates no row, or the query fails: again after a pause, until the last
\* attempt, when the row is left as it is.
MarkMisses(w) ==
    /\ pc[w] = "mark"
    /\ \/ /\ ~LastTry(w)
          /\ tries' = [tries EXCEPT ![w] = @ + 1]
          /\ UNCHANGED <<pc, batch>>
       \/ LastTry(w) /\ NextRow(w)
    /\ UNCHANGED <<row, stale, delivered, reclaimed>>

\* The server dies or a query of the tick throws: the batch is forgotten and its
\* rows stay CLAIMED.
Abandon(w) ==
    /\ pc[w] # "idle"
    /\ pc' = [pc EXCEPT ![w] = "idle"]
    /\ batch' = [batch EXCEPT ![w] = {}]
    /\ tries' = [tries EXCEPT ![w] = 0]
    /\ UNCHANGED <<row, stale, delivered, reclaimed>>

-----------------------------------------------------------------------------

Tick(w) ==
    \/ Reclaim(w)
    \/ Claim(w)
    \/ PublishConfirmed(w)
    \/ PublishFails(w)
    \/ MarkFailed(w)
    \/ MarkPublished(w)
    \/ MarkMisses(w)
    \/ Abandon(w)

Next ==
    \/ \E e \in Events : Enqueue(e) \/ Age(e)
    \/ \E w \in Workers : Tick(w)

Spec == Init /\ [][Next]_vars

\* Time passes; the cron starts ticks and a running tick goes on; neither the
\* broker nor the database refuses for ever at the same point; and a live worker
\* comes, in the end, to settle its rows before their claims turn stale (300 s).
Fairness ==
    /\ \A e \in Events : WF_vars(Age(e))
    /\ \A w \in Workers :
          /\ WF_vars(Reclaim(w))
          /\ SF_vars(Claim(w))
          /\ SF_vars(PublishConfirmed(w))
          /\ WF_vars(MarkFailed(w))
          /\ SF_vars(MarkPublished(w))
          /\ WF_vars(MarkMisses(w))
    /\ <>[][\A e \in Events : Age(e) => \A w \in Workers : e \notin batch[w]]_vars

FairSpec == Spec /\ Fairness

-----------------------------------------------------------------------------
(* Properties *)

\* PUBLISHED is never a lie: "marks PUBLISHED only after waitForConfirms
\* succeeds", whichever worker's claim it was.
PublishedWasDelivered == \A e \in Events : row[e] = "PUBLISHED" => e \in delivered

\* A late worker cannot undo what another has settled.
SettledIsFinal ==
    [][\A e \in Events : row[e] \in {"PUBLISHED", "FAILED"} => row'[e] = row[e]]_vars

\* "Safe for multiple relay workers": two ticks never hold the same row, unless a
\* claim outlived its time limit.
OneWorkerPerRow ==
    \A v, w \in Workers : v # w => batch[v] \cap batch[w] \subseteq reclaimed

\* No row stays PENDING or CLAIMED for ever, whatever dies in between.
EveryRowSettles ==
    \A e \in Events : row[e] # "ABSENT" ~> row[e] \in {"PUBLISHED", "FAILED"}

\* "consumers see at-least-once delivery" (README, outbox section).
AtLeastOnce == \A e \in Events : row[e] # "ABSENT" ~> e \in delivered
=============================================================================
