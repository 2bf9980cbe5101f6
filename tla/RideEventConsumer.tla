------------------------- MODULE RideEventConsumer --------------------------
(***************************************************************************)
(* The consumers of dispatch_group on the stream ride_events: one per      *)
(* replica of dispatch-service, each a loop that claims entries idle for   *)
(* 30 s in the group's pending list, reads new ones and takes every entry  *)
(* through the idempotency check, the handler, the retry counter, the dead *)
(* letter queue, the processed key and the acknowledgement.  Every call to *)
(* Redis is an action, because a crash or an error may fall between any    *)
(* two; go-redis sends a call again when its reply was lost (MaxRetries is *)
(* 3).  What a handler does to drivers and trips is in other modules.      *)
(***************************************************************************)
EXTENDS Naturals, Sequences, FiniteSets

CONSTANTS
  NumEntries,   \* the entries of the stream are 1 .. NumEntries
  Events,       \* event ids: the outbox may append an event more than once
  EventOf,      \* the event id an entry carries
  Poison,       \* entries of unknown type or with a malformed payload
  Flaky,        \* entries whose handler may fail on Redis
  Consumers,    \* the consumers of the group
  ReadCount,    \* COUNT of XREADGROUP and XAUTOCLAIM (10 in the code)
  MaxRetries,   \* maxEventRetries (3 in the code)
  MaxFaults     \* bound on failed calls, stalls and crashes together

Entries == 1 .. NumEntries

ASSUME NumEntriesNat == NumEntries \in Nat
ASSUME EventOfType   == EventOf \in [Entries -> Events]
ASSUME PoisonEntries == Poison \subseteq Entries /\ Flaky \subseteq Entries
ASSUME ConsumersFin  == IsFiniteSet(Consumers)
ASSUME CountPositive == ReadCount \in Nat \ {0}
ASSUME RetriesNat    == MaxRetries \in Nat \ {0}
ASSUME FaultsNat     == MaxFaults \in Nat

VARIABLES
  lastRead,    \* last-delivered-id of the group
  acked,       \* entries removed from the pending list by XACK
  queue,       \* what a consumer's last claim or read returned, not yet done
  pc,          \* what a consumer does next with the least entry of its queue
  processed,   \* events with a processed_event:dispatch: key
  retry,       \* event:retry:<entry>
  dlq,         \* the stream ride_events_dlq, by original entry
  faults,      \* failed calls, stalls and crashes so far
  effects,     \* history: the successful runs of the handler, in order
  failures,    \* history: retryable failures of the entry's handler
  deferred,    \* history: entries given up, or stalled on, before their XACK
  recounted,   \* history: INCRs of an entry's counter that were sent again
  lost         \* history: outcomes repeated by the client, or given up before
               \* the processed key was set

vars == <<lastRead, acked, queue, pc, processed, retry, dlq, faults,
          effects, failures, deferred, recounted, lost>>

Pending == {m \in 1 .. lastRead : m \notin acked}

Runs == [entry : Entries, by : Consumers]

Held == UNION {queue[c] : c \in Consumers}

\* Mutant of IsCurrent: the batch is handled in any order.
IsHeld(c, m) == m \in queue[c]

\* The entry a consumer works on: batches are handled in stream order.
IsCurrent(c, m) == m \in queue[c] /\ \A k \in queue[c] : m <= k

Steps == {"check", "handle", "count", "bury", "clear", "record", "ack"}

-----------------------------------------------------------------------------
Init ==
  /\ lastRead  = 0
  /\ acked     = {}
  /\ queue     = [c \in Consumers |-> {}]
  /\ pc        = [c \in Consumers |-> "check"]
  /\ processed = {}
  /\ retry     = [m \in Entries |-> 0]
  /\ dlq       = <<>>
  /\ faults    = 0
  /\ effects   = <<>>
  /\ failures  = [m \in Entries |-> 0]
  /\ deferred  = {}
  /\ recounted = [m \in Entries |-> 0]
  /\ lost      = [e \in Events |-> 0]

Fault == faults < MaxFaults /\ faults' = faults + 1

\* XREADGROUP ">": the next entries go to this consumer, as many as arrived.
Read(c) ==
  /\ queue[c] = {}
  /\ \E last \in lastRead + 1 .. NumEntries :
       /\ last - lastRead <= ReadCount
       /\ lastRead' = last
       /\ queue' = [queue EXCEPT ![c] = lastRead + 1 .. last]
  /\ UNCHANGED <<acked, pc, processed, retry, dlq, faults, effects, failures,
                 deferred, recounted, lost>>

\* The reply of XREADGROUP is lost, and the next one, or the same call sent
\* again, returns later entries: nobody works on these before they are claimed.
ReadLost(c) ==
  /\ queue[c] = {}
  /\ \E last \in lastRead + 1 .. NumEntries :
       /\ last - lastRead <= ReadCount
       /\ lastRead' = last
       /\ deferred' = deferred \cup (lastRead + 1 .. last)
  /\ Fault
  /\ UNCHANGED <<acked, queue, pc, processed, retry, dlq, effects, failures,
                 recounted, lost>>

\* Mutant of Claim: consume() reads new entries only.
NeverClaim(c) == c \notin Consumers /\ UNCHANGED vars

\* XAUTOCLAIM 0-0 MINIDLE 30 s: pending entries nobody works on go to this
\* consumer, its own earlier ones included.
Claim(c) ==
  /\ queue[c] = {}
  /\ \E S \in SUBSET (Pending \ Held) :
       /\ S # {} /\ Cardinality(S) <= ReadCount
       /\ queue' = [queue EXCEPT ![c] = S]
  /\ UNCHANGED <<lastRead, acked, pc, processed, retry, dlq, faults, effects,
                 failures, deferred, recounted, lost>>

\* The same when the holder stalled for 30 s: both now work on the entry.
ClaimFromStalled(c) ==
  /\ queue[c] = {}
  /\ \E m \in Pending \cap Held :
       /\ queue' = [queue EXCEPT ![c] = {m}]
       /\ deferred' = deferred \cup {m}
  /\ Fault
  /\ UNCHANGED <<lastRead, acked, pc, processed, retry, dlq, effects,
                 failures, recounted, lost>>

-----------------------------------------------------------------------------
\* consumeMessage returns: the loop goes on with the next entry.
Finish(c, m) ==
  /\ queue' = [queue EXCEPT ![c] = @ \ {m}]
  /\ pc' = [pc EXCEPT ![c] = "check"]

Goto(c, step) ==
  /\ pc' = [pc EXCEPT ![c] = step]
  /\ UNCHANGED queue

\* consumeMessage returns before XACK: the entry stays pending.
GiveUp(c, m) ==
  /\ Finish(c, m)
  /\ deferred' = deferred \cup {m}

\* Mutant of Check: no idempotency check.
CheckNothing(c, m) ==
  /\ pc[c] = "check" /\ IsCurrent(c, m)
  /\ Goto(c, "handle")
  /\ UNCHANGED <<lastRead, acked, processed, retry, dlq, faults, effects,
                 failures, deferred, recounted, lost>>

\* EXISTS processed_event:dispatch:<event>.
Check(c, m) ==
  /\ pc[c] = "check" /\ IsCurrent(c, m)
  /\ Goto(c, IF EventOf[m] \in processed THEN "ack" ELSE "handle")
  /\ UNCHANGED <<lastRead, acked, processed, retry, dlq, faults, effects,
                 failures, deferred, recounted, lost>>

\* The handler succeeds.
HandleOk(c, m) ==
  /\ pc[c] = "handle" /\ IsCurrent(c, m)
  /\ m \notin Poison
  /\ effects' = Append(effects, [entry |-> m, by |-> c])
  /\ Goto(c, "clear")
  /\ UNCHANGED <<lastRead, acked, processed, retry, dlq, faults, failures,
                 deferred, recounted, lost>>

\* Mutant of HandleRetryable: the failure is taken for a terminal result.
SwallowFailure(c, m) ==
  /\ pc[c] = "handle" /\ IsCurrent(c, m)
  /\ m \in Flaky \ Poison
  /\ failures' = [failures EXCEPT ![m] = @ + 1]
  /\ Goto(c, "record")
  /\ UNCHANGED <<lastRead, acked, processed, retry, dlq, faults, effects,
                 deferred, recounted, lost>>

\* The handler fails in a way worth retrying.
HandleRetryable(c, m) ==
  /\ pc[c] = "handle" /\ IsCurrent(c, m)
  /\ m \in Flaky \ Poison
  /\ failures' = [failures EXCEPT ![m] = @ + 1]
  /\ Goto(c, "count")
  /\ UNCHANGED <<lastRead, acked, processed, retry, dlq, faults, effects,
                 deferred, recounted, lost>>

\* Unknown type (no handler runs) or malformed payload.
HandlePermanent(c, m) ==
  /\ pc[c] = "handle" /\ IsCurrent(c, m)
  /\ m \in Poison
  /\ Goto(c, "bury")
  /\ UNCHANGED <<lastRead, acked, processed, retry, dlq, faults, effects,
                 failures, deferred, recounted, lost>>

\* Mutant of CountRetry: one retry too few.
CountRetryShort(c, m) ==
  /\ pc[c] = "count" /\ IsCurrent(c, m)
  /\ retry' = [retry EXCEPT ![m] = @ + 1]
  /\ IF retry[m] + 2 < MaxRetries
     THEN GiveUp(c, m)
     ELSE Goto(c, "bury") /\ UNCHANGED deferred
  /\ UNCHANGED <<lastRead, acked, processed, dlq, faults, effects, failures,
                 recounted, lost>>

\* INCR event:retry:<entry>; below the limit the entry is left pending.
CountRetry(c, m) ==
  /\ pc[c] = "count" /\ IsCurrent(c, m)
  /\ retry' = [retry EXCEPT ![m] = @ + 1]
  /\ IF retry[m] + 1 < MaxRetries
     THEN GiveUp(c, m)
     ELSE Goto(c, "bury") /\ UNCHANGED deferred
  /\ UNCHANGED <<lastRead, acked, processed, dlq, faults, effects, failures,
                 recounted, lost>>

\* INCR took effect, its reply was lost, and it is sent again.
CountRepeated(c, m) ==
  /\ pc[c] = "count" /\ IsCurrent(c, m)
  /\ Fault
  /\ retry' = [retry EXCEPT ![m] = @ + 1]
  /\ recounted' = [recounted EXCEPT ![m] = @ + 1]
  /\ UNCHANGED <<lastRead, acked, queue, pc, processed, dlq, effects, failures,
                 deferred, lost>>

\* XADD took effect, its reply was lost, and it is sent again.
BuryRepeated(c, m) ==
  /\ pc[c] = "bury" /\ IsCurrent(c, m)
  /\ Fault
  /\ dlq' = Append(dlq, m)
  /\ lost' = [lost EXCEPT ![EventOf[m]] = @ + 1]
  /\ UNCHANGED <<lastRead, acked, queue, pc, processed, retry, effects,
                 failures, deferred, recounted>>

\* XADD ride_events_dlq; after a permanent failure no counter to clear.
Bury(c, m) ==
  /\ pc[c] = "bury" /\ IsCurrent(c, m)
  /\ dlq' = Append(dlq, m)
  /\ Goto(c, IF m \in Poison THEN "record" ELSE "clear")
  /\ UNCHANGED <<lastRead, acked, processed, retry, faults, effects,
                 failures, deferred, recounted, lost>>

\* DEL event:retry:<entry>; its error is ignored.
Clear(c, m) ==
  /\ pc[c] = "clear" /\ IsCurrent(c, m)
  /\ \/ retry' = [retry EXCEPT ![m] = 0] /\ UNCHANGED faults
     \/ UNCHANGED retry /\ Fault
  /\ Goto(c, "record")
  /\ UNCHANGED <<lastRead, acked, processed, dlq, effects, failures,
                 deferred, recounted, lost>>

\* SET processed_event:dispatch:<event>.
Record(c, m) ==
  /\ pc[c] = "record" /\ IsCurrent(c, m)
  /\ processed' = processed \cup {EventOf[m]}
  /\ Goto(c, "ack")
  /\ UNCHANGED <<lastRead, acked, retry, dlq, faults, effects, failures,
                 deferred, recounted, lost>>

\* XACK.
Ack(c, m) ==
  /\ pc[c] = "ack" /\ IsCurrent(c, m)
  /\ acked' = acked \cup {m}
  /\ Finish(c, m)
  /\ UNCHANGED <<lastRead, processed, retry, dlq, faults, effects, failures,
                 deferred, recounted, lost>>

\* An entry with an outcome is given up before its processed key is set.
LoseRecord(c, m) ==
  lost' = IF pc[c] \in {"clear", "record"}
          THEN [lost EXCEPT ![EventOf[m]] = @ + 1]
          ELSE lost

\* EXISTS, INCR, XADD, SET or XACK returns an error: consumeMessage returns.
CallFails(c, m) ==
  /\ pc[c] \in {"check", "count", "bury", "record", "ack"} /\ IsCurrent(c, m)
  /\ Fault
  /\ GiveUp(c, m)
  /\ LoseRecord(c, m)
  /\ UNCHANGED <<lastRead, acked, processed, retry, dlq, effects, failures,
                 recounted>>

\* The call took effect in Redis but the consumer saw an error in the end.
ReplyLost(c, m) ==
  /\ IsCurrent(c, m)
  /\ Fault
  /\ GiveUp(c, m)
  /\ \/ /\ pc[c] = "count"
        /\ retry' = [retry EXCEPT ![m] = @ + 1]
        /\ UNCHANGED <<acked, processed, dlq, lost>>
     \/ /\ pc[c] = "bury"
        /\ dlq' = Append(dlq, m)
        /\ lost' = [lost EXCEPT ![EventOf[m]] = @ + 1]
        /\ UNCHANGED <<acked, processed, retry>>
     \/ /\ pc[c] = "record"
        /\ processed' = processed \cup {EventOf[m]}
        /\ UNCHANGED <<acked, retry, dlq, lost>>
     \/ /\ pc[c] = "ack"
        /\ acked' = acked \cup {m}
        /\ UNCHANGED <<processed, retry, dlq, lost>>
  /\ UNCHANGED <<lastRead, effects, failures, recounted>>

\* The replica dies: its batch stays pending, a new consumer id starts.
Crash(c) ==
  /\ Fault
  /\ \E m \in queue[c] : IsCurrent(c, m) /\ LoseRecord(c, m)
  /\ deferred' = deferred \cup queue[c]
  /\ queue' = [queue EXCEPT ![c] = {}]
  /\ pc' = [pc EXCEPT ![c] = "check"]
  /\ UNCHANGED <<lastRead, acked, processed, retry, dlq, effects, failures,
                 recounted>>

Work(c, m) ==
  \/ Check(c, m)
  \/ HandleOk(c, m) \/ HandleRetryable(c, m) \/ HandlePermanent(c, m)
  \/ CountRetry(c, m) \/ Bury(c, m) \/ Clear(c, m)
  \/ Record(c, m) \/ Ack(c, m)

Next ==
  \E c \in Consumers :
    \/ Read(c) \/ ReadLost(c) \/ Claim(c) \/ ClaimFromStalled(c) \/ Crash(c)
    \/ \E m \in Entries :
         \/ Work(c, m)
         \/ CountRepeated(c, m) \/ BuryRepeated(c, m)
         \/ CallFails(c, m) \/ ReplyLost(c, m)

Spec == Init /\ [][Next]_vars

\* consume() alternates a claim and a read forever and finishes its batch.
FairSpec ==
  Spec /\ \A c \in Consumers : /\ WF_vars(Read(c))
                               /\ WF_vars(Claim(c))
                               /\ WF_vars(\E m \in Entries : Work(c, m))

-----------------------------------------------------------------------------
\* Every variable has its type.
TypeOK ==
  /\ lastRead \in 0 .. NumEntries
  /\ acked \subseteq 1 .. lastRead
  /\ queue \in [Consumers -> SUBSET (1 .. lastRead)]
  /\ pc \in [Consumers -> Steps]
  /\ processed \subseteq Events
  /\ retry \in [Entries -> Nat]
  /\ dlq \in Seq(Entries)
  /\ faults \in 0 .. MaxFaults
  /\ effects \in Seq(Runs)
  /\ failures \in [Entries -> Nat]
  /\ deferred \subseteq Entries
  /\ recounted \in [Entries -> Nat]
  /\ lost \in [Events -> Nat]

Handled(m) == \E i \in DOMAIN effects : effects[i].entry = m

Buried(m) == \E i \in DOMAIN dlq : dlq[i] = m

HasOutcome(e) ==
  \E m \in Entries : EventOf[m] = e /\ (Handled(m) \/ Buried(m))

Times(e) == Cardinality({i \in DOMAIN effects : EventOf[effects[i].entry] = e})

Burials(e) == Cardinality({i \in DOMAIN dlq : EventOf[dlq[i]] = e})

\* An entry leaves the pending list only when its event was handled
\* successfully or quarantined, however many replicas raced for it and
\* whatever failed: nothing is dropped silently (consumeMessage).
NothingDropped == \A m \in acked : HasOutcome(EventOf[m])

\* A well-formed entry is quarantined only after its handler failed, and as
\* often as maxEventRetries but for the INCRs that the client sent again.
QuarantineEarned ==
  \A m \in Entries \ Poison :
    Buried(m) => failures[m] > 0 /\ failures[m] + recounted[m] >= MaxRetries

\* An event has at most one outcome per replica, a run of its handler or a
\* quarantine, and one more for every outcome that was given up before the
\* processed key was set, or written again by the client: the check-then-SET
\* of consumeMessage excludes no other duplicate, and no more of them.
OutcomesExplained ==
  \A e \in Events : Times(e) + Burials(e) <= Cardinality(Consumers) + lost[e]

\* A replica handles an entry after a later one only if the entry had been
\* given up, stalled on or lost on the way to its reader: a retry, a failed
\* call, a crash, a slow handler.
OvertakenOnlyIfDeferred ==
  \A i, j \in DOMAIN effects :
    /\ i < j /\ effects[i].by = effects[j].by
    /\ effects[i].entry > effects[j].entry
    => effects[j].entry \in deferred

\* Every entry is acknowledged in the end, a poisonous one included.
EveryEntryAcked == <>(acked = Entries)

-----------------------------------------------------------------------------
(***************************************************************************)
(* The inductive invariant: what a consumer past its check owes, by the    *)
(* step it is at.                                                          *)
(***************************************************************************)
\* A processed key is set only for an event with an outcome.
ProcessedHasOutcome == \A e \in processed : HasOutcome(e)

\* An acknowledged entry's event has its processed key.
AckedIsProcessed == \A m \in acked : EventOf[m] \in processed

\* A consumer with nothing to do is at the head of its loop.
IdleAtCheck == \A c \in Consumers : queue[c] = {} => pc[c] = "check"

\* What being at a step presupposes of the entry.
Earned(step, m) ==
  /\ step = "ack" => EventOf[m] \in processed
  /\ step \in {"clear", "record"} => HasOutcome(EventOf[m])
  /\ step = "count" => m \notin Poison /\ failures[m] > 0
  /\ step = "bury" =>
       \/ m \in Poison
       \/ failures[m] > 0 /\ failures[m] + recounted[m] >= MaxRetries

StepEarned ==
  \A c \in Consumers, m \in Entries : IsCurrent(c, m) => Earned(pc[c], m)

\* The consumers about to count a failure of the entry.
Counting(m) == {c \in Consumers : pc[c] = "count" /\ IsCurrent(c, m)}

\* The counter never runs ahead of the failures and the repeated INCRs, even
\* while several consumers have a failure to count.
RetriesAreFailures ==
  \A m \in Entries :
    retry[m] + Cardinality(Counting(m)) <= failures[m] + recounted[m]

IInv == /\ TypeOK
        /\ ProcessedHasOutcome
        /\ AckedIsProcessed
        /\ IdleAtCheck
        /\ StepEarned
        /\ RetriesAreFailures
        /\ QuarantineEarned
=============================================================================
