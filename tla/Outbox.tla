------------------------------- MODULE Outbox -------------------------------
(***************************************************************************)
(* The transactional outbox of ride-service: HTTP handlers and workers     *)
(* insert a row of outbox_events in the transaction that changes a trip;   *)
(* OutboxWorkers (one per replica of the service) poll the unpublished     *)
(* rows every two seconds, append each to the Redis stream ride_events and *)
(* mark its row.  The Redis client repeats a command whose reply was lost, *)
(* Redis and Postgres calls fail and workers crash, at most MaxFaults      *)
(* times altogether; the clocks of the replicas need not agree.            *)
(***************************************************************************)
EXTENDS Naturals, Sequences, FiniteSets

CONSTANTS
  Events,       \* the ids of the outbox rows (uuid.New() in the handlers)
  Workers,      \* the replicas of ride-service, each with one OutboxWorker
  Times,        \* what time.Now() returns: any of them, on any replica
  BatchLimit,   \* the LIMIT of GetUnpublishedEvents (10 in the code)
  MaxFaults,    \* bound on failed calls and crashes together
  NoUpdate      \* a worker that has no UPDATE to issue

Updates == [event : Events, status : {"PUBLISHED", "FAILED"}]

ASSUME EventsFinite  == IsFiniteSet(Events)
ASSUME WorkersFinite == IsFiniteSet(Workers)
ASSUME TimesNatural  == Times \subseteq Nat /\ Times # {}
ASSUME LimitPositive == BatchLimit \in Nat \ {0}
ASSUME FaultsBound   == MaxFaults \in Nat
ASSUME NoUpdateFresh == NoUpdate \notin Updates

VARIABLES
  row,         \* outbox_events.status, with the states before the commit
  createdAt,   \* outbox_events.created_at: the inserting replica's clock
  stream,      \* the entries of ride_events by event id, oldest first
  batch,       \* the rows a worker fetched and has not tried to publish
  update,      \* the UPDATE a worker is about to issue
  faults,      \* calls failed and workers crashed so far
  earlier,     \* history: the events committed before this one's tx began
  refused,     \* history: the events whose XADD returned an error once
  unmarked,    \* history: entries appended that no PUBLISHED mark followed
  overwritten  \* history: the FAILED marks over a PUBLISHED row

vars == <<row, createdAt, stream, batch, update, faults, earlier, refused,
          unmarked, overwritten>>

history == <<earlier, refused, unmarked, overwritten>>

RowStates == {"none", "open", "rolledback", "PENDING", "FAILED", "PUBLISHED"}

\* Mutants of Unpublished: published rows are selected again; rows of open
\* transactions are visible; FAILED rows are never retried.
SelectsPublished == {e \in Events : row[e] \in {"PENDING", "FAILED", "PUBLISHED"}}
SelectsOpen      == {e \in Events : row[e] \in {"open", "PENDING", "FAILED"}}
SelectsPending   == {e \in Events : row[e] = "PENDING"}

Unpublished == {e \in Events : row[e] \in {"PENDING", "FAILED"}}

Committed == {e \in Events : row[e] \in {"PENDING", "FAILED", "PUBLISHED"}}

InStream(e) == \E i \in DOMAIN stream : stream[i] = e

-----------------------------------------------------------------------------
Init ==
  /\ row       = [e \in Events |-> "none"]
  /\ createdAt = [e \in Events |-> 0]
  /\ stream    = <<>>
  /\ batch     = [w \in Workers |-> {}]
  /\ update    = [w \in Workers |-> NoUpdate]
  /\ faults    = 0
  /\ earlier   = [e \in Events |-> {}]
  /\ refused   = {}
  /\ unmarked  = [e \in Events |-> 0]
  /\ overwritten = [e \in Events |-> 0]

\* A handler opens its transaction and inserts the row, with the time.Now()
\* of its replica: later transactions may carry earlier or equal times.
BeginTx(e) ==
  /\ row[e] = "none"
  /\ row' = [row EXCEPT ![e] = "open"]
  /\ \E t \in Times : createdAt' = [createdAt EXCEPT ![e] = t]
  /\ earlier' = [earlier EXCEPT ![e] = Committed]
  /\ UNCHANGED <<stream, batch, update, faults, refused, unmarked, overwritten>>

\* tx.Commit() makes the trip change and the row visible together.
CommitTx(e) ==
  /\ row[e] = "open"
  /\ row' = [row EXCEPT ![e] = "PENDING"]
  /\ UNCHANGED <<createdAt, stream, batch, update, faults, history>>

\* An error on the way to Commit: the deferred Rollback drops both.
RollbackTx(e) ==
  /\ row[e] = "open"
  /\ row' = [row EXCEPT ![e] = "rolledback"]
  /\ UNCHANGED <<createdAt, stream, batch, update, faults, history>>

-----------------------------------------------------------------------------
Idle(w) == batch[w] = {} /\ update[w] = NoUpdate

\* ORDER BY created_at ASC LIMIT BatchLimit over the unpublished rows: what
\* is left out is not older, and only left out when the batch is full.
Oldest(B) ==
  /\ B \subseteq Unpublished
  /\ Cardinality(B) <= BatchLimit
  /\ B # Unpublished => Cardinality(B) = BatchLimit
  /\ \A e \in B, d \in Unpublished \ B : createdAt[e] <= createdAt[d]

\* The tick of the worker: one SELECT, no row lock, so replicas overlap.
Fetch(w) ==
  /\ Idle(w)
  /\ \E B \in SUBSET Unpublished \ {{}} :
       Oldest(B) /\ batch' = [batch EXCEPT ![w] = B]
  /\ UNCHANGED <<row, createdAt, stream, update, faults, history>>

\* Mutant of IsNext: the batch is not in order.
InBatch(w, e) == update[w] = NoUpdate /\ e \in batch[w]

\* The loop of processEvents takes the rows of the batch oldest first.
IsNext(w, e) ==
  /\ update[w] = NoUpdate
  /\ e \in batch[w]
  /\ \A d \in batch[w] : createdAt[e] <= createdAt[d]

\* XADD succeeds: the row is to be marked PUBLISHED.
Publish(w, e) ==
  /\ IsNext(w, e)
  /\ stream' = Append(stream, e)
  /\ batch' = [batch EXCEPT ![w] = @ \ {e}]
  /\ update' = [update EXCEPT ![w] = [event |-> e, status |-> "PUBLISHED"]]
  /\ UNCHANGED <<row, createdAt, faults, history>>

\* XADD took effect, its reply was lost and go-redis sends it again (MaxRetries
\* is 3): the entry is in the stream twice and the program sees no error.
PublishRepeated(w, e) ==
  /\ IsNext(w, e)
  /\ faults < MaxFaults
  /\ faults' = faults + 1
  /\ stream' = Append(stream, e)
  /\ unmarked' = [unmarked EXCEPT ![e] = @ + 1]
  /\ UNCHANGED <<row, createdAt, batch, update, earlier, refused, overwritten>>

\* Mutant of PublishError: the error of XADD is not looked at.
PublishUnchecked(w, e) ==
  /\ IsNext(w, e)
  /\ faults < MaxFaults
  /\ faults' = faults + 1
  /\ batch' = [batch EXCEPT ![w] = @ \ {e}]
  /\ update' = [update EXCEPT ![w] = [event |-> e, status |-> "PUBLISHED"]]
  /\ UNCHANGED <<row, createdAt, stream, history>>

\* XADD returns an error, the entry appended (the reply was lost) or not:
\* the row is to be marked FAILED and the loop continues with the next row.
PublishError(w, e) ==
  /\ IsNext(w, e)
  /\ faults < MaxFaults
  /\ faults' = faults + 1
  /\ refused' = refused \cup {e}
  /\ \/ /\ stream' = Append(stream, e)
        /\ unmarked' = [unmarked EXCEPT ![e] = @ + 1]
     \/ UNCHANGED <<stream, unmarked>>
  /\ batch' = [batch EXCEPT ![w] = @ \ {e}]
  /\ update' = [update EXCEPT ![w] = [event |-> e, status |-> "FAILED"]]
  /\ UNCHANGED <<row, createdAt, earlier, overwritten>>

\* Mutant of Mark: a status no query knows.
MarkUnknown(w) ==
  /\ update[w] # NoUpdate
  /\ row' = [row EXCEPT ![update[w].event] = "PROCESSED"]
  /\ update' = [update EXCEPT ![w] = NoUpdate]
  /\ UNCHANGED <<createdAt, stream, batch, faults, history>>

\* UpdateEventStatus: by id alone, whatever another replica wrote before.
Mark(w) ==
  /\ update[w] # NoUpdate
  /\ row' = [row EXCEPT ![update[w].event] = update[w].status]
  /\ update' = [update EXCEPT ![w] = NoUpdate]
  /\ overwritten' =
       IF row[update[w].event] = "PUBLISHED" /\ update[w].status = "FAILED"
       THEN [overwritten EXCEPT ![update[w].event] = @ + 1]
       ELSE overwritten
  /\ UNCHANGED <<createdAt, stream, batch, faults, earlier, refused, unmarked>>

\* An entry that was appended and whose PUBLISHED mark is lost.
Forget(w) ==
  unmarked' = IF update[w] # NoUpdate /\ update[w].status = "PUBLISHED"
              THEN [unmarked EXCEPT ![update[w].event] = @ + 1]
              ELSE unmarked

\* UpdateEventStatus fails: the error is logged or dropped, the row stays.
MarkError(w) ==
  /\ update[w] # NoUpdate
  /\ faults < MaxFaults
  /\ faults' = faults + 1
  /\ update' = [update EXCEPT ![w] = NoUpdate]
  /\ Forget(w)
  /\ UNCHANGED <<row, createdAt, stream, batch, earlier, refused, overwritten>>

\* The process dies and restarts: all it held was in memory.
Crash(w) ==
  /\ ~Idle(w)
  /\ faults < MaxFaults
  /\ faults' = faults + 1
  /\ batch' = [batch EXCEPT ![w] = {}]
  /\ update' = [update EXCEPT ![w] = NoUpdate]
  /\ Forget(w)
  /\ UNCHANGED <<row, createdAt, stream, earlier, refused, overwritten>>

Next ==
  \/ \E e \in Events : BeginTx(e) \/ CommitTx(e) \/ RollbackTx(e)
  \/ \E w \in Workers : Fetch(w) \/ Mark(w) \/ MarkError(w) \/ Crash(w)
  \/ \E w \in Workers, e \in Events :
       Publish(w, e) \/ PublishRepeated(w, e) \/ PublishError(w, e)

Spec == Init /\ [][Next]_vars

\* The ticker fires forever and each iteration runs to its end: a worker
\* that has something to do does it.  Nothing is assumed of the faults.
WorkerStep(w) ==
  Fetch(w) \/ Mark(w) \/ \E e \in Events : Publish(w, e)

FairSpec == Spec /\ \A w \in Workers : WF_vars(WorkerStep(w))

-----------------------------------------------------------------------------
\* Every variable has its type: the statuses are the ones the queries name.
TypeOK ==
  /\ row \in [Events -> RowStates]
  /\ createdAt \in [Events -> Nat]
  /\ stream \in Seq(Events)
  /\ batch \in [Workers -> SUBSET Events]
  /\ update \in [Workers -> Updates \cup {NoUpdate}]
  /\ faults \in 0 .. MaxFaults
  /\ earlier \in [Events -> SUBSET Events]
  /\ refused \subseteq Events
  /\ unmarked \in [Events -> Nat]
  /\ overwritten \in [Events -> Nat]

\* A row marked PUBLISHED was appended to the stream, whichever replicas
\* fetched it, whatever failed and whoever crashed (processEvents marks
\* after XADD, and only when XADD returned no error).
NothingLost == \A e \in Events : row[e] = "PUBLISHED" => InStream(e)

\* An event is overtaken by the event of a transaction that began after its
\* commit only if one of its own XADDs returned an error (the `continue` of
\* processEvents), or the clocks gave the later row no later created_at.
InOrder ==
  \A i \in DOMAIN stream : \A e \in earlier[stream[i]] :
    \/ e \in refused
    \/ createdAt[stream[i]] <= createdAt[e]
    \/ \E j \in 1 .. i - 1 : stream[j] = e

\* An event is appended at most once per replica, again once per replica for
\* each FAILED that overwrote its PUBLISHED, and once for every entry that no
\* PUBLISHED mark followed: an XADD repeated or answered by an error, a crash,
\* a failed UPDATE.  The missing row lock alone makes no more copies.
DuplicatesExplained ==
  \A e \in Events :
    Cardinality({i \in DOMAIN stream : stream[i] = e})
      <= Cardinality(Workers) * (1 + overwritten[e]) + unmarked[e]

\* Once the faults are over every committed row ends PUBLISHED for good,
\* even when a replica's late FAILED overwrote another's PUBLISHED.
EventuallyMarked ==
  \A e \in Events : (row[e] = "PENDING") ~> [](row[e] = "PUBLISHED")

Channel == INSTANCE EventChannel WITH committed <- Committed, log <- stream

\* The outbox implements the at-least-once channel.
ImplementsChannel == Channel!Spec

\* Every committed event reaches the stream.
EveryCommitDelivered == Channel!EveryCommitDelivered

-----------------------------------------------------------------------------
(***************************************************************************)
(* The inductive invariant.  NothingLost and InOrder speak of the table    *)
(* and the stream alone; what makes them inductive is what the workers     *)
(* hold between two calls: an UPDATE to PUBLISHED is only in flight for an *)
(* event already in the stream, and a batch that holds an event holds, or  *)
(* leaves behind published or refused, every event committed before it.    *)
(***************************************************************************)
\* An UPDATE in flight is for a committed event, and to PUBLISHED only after
\* the XADD.
UpdateEarned ==
  \A w \in Workers : update[w] # NoUpdate =>
    /\ update[w].event \in Committed
    /\ update[w].status = "PUBLISHED" => InStream(update[w].event)

\* Nothing is fetched or published before its transaction committed.
OnlyCommitted ==
  /\ \A w \in Workers : batch[w] \subseteq Committed
  /\ \A i \in DOMAIN stream : stream[i] \in Committed

\* The events committed before a transaction began are committed.
EarlierCommitted == \A e \in Events : earlier[e] \subseteq Committed

\* What a batch leaves out, among the older events that were committed
\* before, needs no publication before it.
BatchOrdered ==
  \A w \in Workers : \A e \in batch[w] : \A d \in earlier[e] :
    \/ d \in batch[w]
    \/ d \in refused
    \/ createdAt[e] <= createdAt[d]
    \/ InStream(d)

\* NothingLost and InOrder with the five facts that carry them over a step.
IInv == /\ TypeOK
        /\ UpdateEarned
        /\ NothingLost
        /\ OnlyCommitted
        /\ EarlierCommitted
        /\ BatchOrdered
        /\ InOrder
=============================================================================
