# A TLA+ model of vroom-services

Vroom is a ride-hailing demonstrator: four Go services that coordinate through
PostgreSQL and one Redis stream, a React page, and a Python agent that diagnoses
incidents of the cluster. This directory models the saga that matters, from the
request of a trip to its end: the trips of ride-service, the outbox that
publishes their events, the consumer group that delivers them to
dispatch-service, the matching of drivers there, and the notification service
that pushes them to browsers. Beside the saga stand the registration of
user-service and the investigations of the agent, which share no state with
it. TLC checks the modules on
small instances, TLAPS proves the central invariants for all instances.

## 1. Inventory

| Part | State | Operations | Speaks with |
|---|---|---|---|
| ride: trips (`ride/internal/{domain,service,handler,repository}`) | table `trips` | request, accept, start, complete, reject, cancel | HTTP; writes an outbox row in the same transaction |
| ride: outbox worker (`worker/outbox_worker.go`) | table `outbox_events` | every 2 s: select 10 unpublished rows, XADD, mark | stream `ride_events` |
| ride: timeout worker (`worker/trip_timeout_worker.go`) | none | every 10 s: cancel trips requested for 60 s, reject expired offers, cancel trips accepted for 5 min | `trips`, outbox |
| ride: update worker (`worker/trip_update_worker.go`) | table `inbox_events` | apply Trip.Matched and Trip.MatchFailed | group `ride_update_group` on the stream |
| dispatch: consumer (`dispatch/internal/worker/ride_event_consumer.go`) | pending list of `dispatch_group`, processed keys, retry counters, dead letter stream | claim, read, check, handle, retry or quarantine, record, acknowledge | the stream |
| dispatch: matching (same file, `service/dispatch_service.go`, `domain/pool.go`) | `driver_status`, `driver_last_seen`, `drivers_location`, `trip_rejections` in Redis | match, reserve, confirm, release, record a rejection; heartbeats | XADD of Trip.Matched and Trip.MatchFailed to the stream |
| notification: consumer (`notification/internal/worker/notification_worker.go`) | pending list of `notification_group`, `notification_history`, retry counters | claim, read, save, push, acknowledge | the stream, the hub |
| notification: hub (`internal/service/hub.go`, `internal/handler/notification_handler.go`) | `clients`, `userClients`, a Send channel per connection | register, unregister, broadcast, send to a user, write and read pumps | browsers |
| user (`user/internal/{service,repository,handler}`) | tables `users`, `outbox_events` | register, log in | HTTP |
| incident diagnosis agent (`incident-diagnosis/agent`) | knowledge document, incident records and their index in Redis; a copy of the document in the process | collect, retrieve, decide, criticise, refine, store; list and get | HTTP, Prometheus, a language model, reviewers |
| kubectl executor, dashboard, evaluation, frontend, middleware | - | - | - |

What is hard in it:

* An operation of ride-service reads a row, checks the state machine on the
  copy, and updates by id in a later transaction. Six writers share the row
  and none takes a lock or compares a version.
* dispatch-service answers through the stream: Trip.Matched and
  Trip.MatchFailed arrive late, after the trip has moved on.
* Outbox, stream and consumer group deliver at least once, in an order that
  errors, replicas and retries disturb. The replicas of dispatch-service
  share Redis keys without transactions.
* go-redis sends a command again when its reply was lost: the clients are built
  with an address alone (`ride/main.go:64-66`, `dispatch/main.go:40-42`,
  `notification/main.go:60-62`), so `MaxRetries` is 3. An XADD or an INCR may
  be applied twice and the program sees no error.
* `created_at` of an outbox row is the `time.Now()` of the replica that inserts
  it; nothing makes the clocks of two replicas agree.
* The state machine lets any driver accept a requested trip that has no driver
  (`trip.go:59-62`); the matching may be under way for it.
* A driver's reservation is a key with a TTL that three different events write
  unconditionally.
* The hub's registries are changed by two goroutines, and its channels closed
  by either while two more goroutines per connection use them.
* Registration checks an address and inserts it later; only the unique column
  keeps two of them apart, and a COMMIT may take effect and fail. Every error
  is answered 409, whatever it is.
* An investigation works on a copy of the approved knowledge that reviewers
  replace meanwhile, publishes what an arbitrary language model answers, and
  saves it in three calls without a transaction.
* Everything is meant to be cleared up by timeouts in the end.

For each part the properties that make it correct: nothing committed is lost
and no order broken without an error (outbox); nothing acknowledged without an
outcome, quarantine only when earned, duplicates bounded (consumer); no accepted
trip without a driver, no silent cancellation, no trip left behind (trips); one
driver one trip, no offer to who refused it, an answer to every request
(matching); an event pushed once, recorded before it is shown, and in order
(notification consumer); no send on a closed channel, no gap, no client left
behind (hub); one account per address, and answers that are true (user); no
cause without an approval, nothing published that the gates refused, nothing
answered and then lost (agent). `PROJECT.json` lists the hazards line by line with the properties
aimed at each.

## 2. Modules

    Trip ──────────┬─> TripService ──> MCTripService     TripServiceProofs
                   └─> DriverMatching ──> MCDriverMatching   DriverMatchingProofs
    EventChannel <── Outbox ──> MCOutbox                 OutboxProofs
    RideEventConsumer ──> MCRideEventConsumer            RideEventConsumerProofs
    Hub ──> NotificationWorker ──> MCNotificationWorker  NotificationWorkerProofs
                                                         └─> NotificationDeliveryProofs
    Registration ──> MCRegistration                      RegistrationProofs
    IncidentAgent ──> MCIncidentAgent                    IncidentAgentProofs

**Trip** is one row: the guards of the domain methods (`MayAccept` ...), the
UPDATE statements (`SetAccepted` ...) and the WHERE clauses of the timeout
queries (`IsStuck` ...). Timestamps are reduced to the side of the cutoff they
are on. Two modules use it.

**TripService** is ride-service. `ReadTrip` is the read and the domain check of
an operation, `WriteProgress`, `WriteReject` and `WriteCancel` its transaction,
which looks at nothing. The timeout worker is `SelectStuck`, `SelectExpired`,
`SelectAccepted`, each followed by one transaction per selected row. The update
worker applies Trip.Matched in its two statements (`AssignDriver`,
`AssignDeadline`) and Trip.MatchFailed in one. dispatch-service is reduced to the answers it may give:
any driver not refused yet, or none. Events and answers are sets, so every delay and
reordering of the outbox and the groups is possible. Faults: a failing or
crashing write, a crash of a sweep, an answer lost (`ride_update_group` is never
claimed from and its entries are acknowledged whatever the handler returned), an
event lost to the dead letter queue, an event handled twice.

**EventChannel** says what the outbox promises: an event enters the log only
after its commit, and every committed event does.

**Outbox** is `CreateWithOutbox` and its siblings (`BeginTx`, `CommitTx`,
`RollbackTx`) and the worker, call by call: `Fetch`, `Publish`, `Mark`, with
errors before and after an effect, the XADD that the client sends again without
an error (`PublishRepeated`), and crashes. `BeginTx` takes `created_at` from
any of `Times`: it precedes the commit, so commits overtake each other, and it
is the clock of one replica, so a later transaction may carry an earlier or an
equal time. Several replicas poll one table. Four history variables record what
the properties speak of: `earlier` (the events committed before a transaction
began), `refused` (events with an XADD error), `unmarked` (entries that no
PUBLISHED mark followed: repeated by the client, appended and answered by an
error, cut off by a crash or a failed UPDATE) and `overwritten` (the FAILED
marks over a PUBLISHED row).

**RideEventConsumer** is the delivery half of dispatch's consumer, one action
per Redis call. `queue[c]` is the batch a replica works on and `pc[c]` the call
that comes next for its least entry. `ClaimFromStalled` is XAUTOCLAIM taking an
entry from a replica that is slow and not dead. An entry is *flaky* when its
handler may return an error worth retrying, *poisonous* when its type is
unknown or its payload malformed: Trip.Started is such an entry, because ride
publishes it and `isKnownEventType` does not list it. `CountRepeated` and
`BuryRepeated` are INCR and the XADD to the dead letter stream sent again by the
client. The histories are `failures` of the handler, `recounted` (the INCRs sent
again), `deferred` (entries given up, stalled on or lost on the way to their
reader) and `lost` (outcomes repeated by the client, or given up before the
processed key was set).

**DriverMatching** is the handler half: each call `handleMessage` and
`DispatchService` make to Redis is an action, so the handlers of two replicas
interleave call by call: `Search` (GEOSEARCH), `ReadRejections` (SMEMBERS),
`Skip` and `LooksFree` (GET), `Keep` and `FindStale` (EXISTS), `Evict` (ZREM),
`AnswerTrip` (XADD), `Reserve` (SET). An EXISTS that fails leaves its zero, so
`FindStale` covers it and `Evict` follows. `task[c]` holds the event, the call
that comes next, the candidates left, those `MatchDriver` passes over without a
call (they were out of the index when it searched, or in the rejection list it
read) and the driver found. `index` is the sorted set of locations, `seen` the
drivers with a freshness key.

An interrupted event is handled again (`Interrupt`) or counted in `retries` and
handled again (`FailAgain`), and at the limit it goes to the dead letter stream
(`Quarantine`, `QuarantineFails`). `HandledAgain` and `AnswerRepeated` are a claim
from a slow replica and an XADD sent again. `LoseAnswer` is the answer that
`trip_update_worker.go:96` acknowledges although its UPDATE failed. TTLs expire at
any time, but the expiry of a reservation still needed (35 s for an offer of
10 s, 4 h for a trip) counts as a fault.

ride-service closes the loop with one atomic step per operation; its events
enter the stream once and in the order of their commits, because Outbox has the
rest. Any driver may accept a requested trip that has no driver
(`AcceptUnoffered`); the histories `disturbed` and `irregular` name the trips
and the drivers this touches, and `irregular` too the drivers whom a late
Trip.Matched makes the driver of a trip that is already accepted. `abandoned`
names the trips one of whose events was quarantined or one of whose answers was
lost.

**Hub** is the WebSocket hub. `Hub.Run` takes from a channel (`TakeRegister`,
`TakeUnregister`, `TakeBroadcast`) and applies under the mutex (`Enrol`, `Expel`,
`Fanout`) in two steps, because its callers go on in between. `SendToUser` runs
in the caller under the same mutex. A connection has a read pump (`ReadFails`,
then `TakeUnregister`) and a write pump (`Write`, `WriteFails`, `WriteEnds`).
A critical section never blocks, so it is one action.

**NotificationWorker** extends it with the consumer, which feeds the hub one call
at a time: `Count` (INCR), `Save`, `SendToTarget` for each user the payload
names, `Broadcast`, `Ack`. A malformed entry goes through `Overlook` or `Bury`
instead. The code ignores every error, so a failed call is the same step, its
effect missing or its reply lost (`CountFails`, `SaveFails`, `BuryFails`,
`AckFails`); an INCR may be sent again by the client (`CountRepeated`). `Crash` takes hub and
connections along. Each replica has browsers of its own; one is modelled.

**Registration** is `AuthService.Register` call by call: `LookupFree` or
`LookupTaken` (GetByEmail), `CreateUser`, `CreateEvent` and `Commit`
(CreateWithOutbox), `Answer`. `users` holds the committed accounts, `inserted`
those of open transactions. The INSERT follows PostgreSQL: while another
transaction holds the key it waits (`Waits`), then it succeeds or violates
the constraint (`ViolatesUnique`). Every error is `Refuse`, because the handler
answers 409 to each, with the deferred Rollback. `RefusedBy` says which check
refuses the data of a request, if any: the format of the address or the phone
number (`NewEmail`, `NewPhoneNumber`), bcrypt for a password of more than 72
bytes, or a column of the table that is too narrow. Faults: a failing
call (the signing of the tokens after the COMMIT too), a COMMIT whose reply is
lost, a request abandoned by its caller or by a
crash. Login reads and is the operator `LogsIn`. The replicas of user-service
share nothing but the tables, so a request stands for one on any of them.

**IncidentAgent** follows the single request a gunicorn worker serves: `Build`
reads the document (`corpus`), `RetrieveExact` confirms an approved cause,
`RetrieveAdvice` leads to `Generate`, the gates (`Validate`, `Criticise`,
`CriticPasses`, `CriticRejects`), one `Refine`, `Finalize` when it is rejected
again, and `Set`, `Push`, `Trim`, `Answer`. A draft is what the gates distinguish
of it: its shape, what its hypothesis and its `evidence_refs` cite, the kind of
its action; the critic is arbitrary. `Downgrade` is `finalize_diagnosis`: the
cause, the remediation and a hypothesis on unknown evidence go, while
`evidence_refs`, the citations of an empty hypothesis and a hypothesis that cites
nothing stay and are `Published`. Three answers end in `Raise`: an action that
is text, a citation that is an object, and a verdict of the critic that is a list
or an object, which `critic.py:51` looks up in a set outside its `try`.
Reviewers (`Curate`) replace the document at any time.
Faults: a failing call, the repetition of LPUSH by the client library when its
reply is lost (the calls before and after it are idempotent), a
restart. A record is kept as its `Verdict`, the part that later properties
speak of; ids are numbers in the order of SET.

Two ways of reading an answer follow from the cut between TripService and
DriverMatching: TripService has all the
races of the row and an arbitrary dispatch; DriverMatching has all the races of the keys
and an atomic ride-service. A hazard that needs both is in neither.

## 3. Runs

| Run | Instance | Shows |
|---|---|---|
| `outbox` | 2 events, 2 replicas, clocks of 2 values, 2 faults, fair | `NothingLost`, `InOrder`, `DuplicatesExplained`, `ImplementsChannel` (refinement), `EveryCommitDelivered`, `EventuallyMarked` |
| `consumer` | 3 entries (a duplicate pair and a poisonous one), 2 replicas, 2 retries, 1 fault, fair | `NothingDropped`, `QuarantineEarned`, `OutcomesExplained`, `OvertakenOnlyIfDeferred`, `EveryEntryAcked` |
| `trip_races` | 1 trip, 1 driver, 1 operation in flight and 3 in all, both workers, 1 fault, fair | `AcceptedHasDriver`, `NoSilentCancel`, `RequestedResolves`, `AcceptedResolves` |
| `matching_single` | 1 replica, 2 trips, 2 drivers, no fault, 1 unoffered acceptance | `NoDoubleBooking`, `AcceptedDriverIsOnTrip` |
| `matching_live` | 2 replicas, 1 trip, 1 driver, a limit of 2 failures, 2 faults, fair | `TypeOK`, `RejectedNotOfferedAgain`, `WaitingTripAnswered` |
| `hub` | 2 connections (of a user, of nobody), 3 entries, channels of 2, no fault, fair | `NoSendOnClosed`, `NoGaps`, `OnlyTargetedOvertakes`, `GoneClientsLeave` |
| `notification` | 1 connection, 3 entries (one malformed), channels of 1, 2 retries, 2 faults, fair | `PushedOnce`, `HistoryBeforePush`, `PassedOverOnlyAfterFault`, `QuarantineNeedsFaults`, `EveryEntryAcked` |
| `registration` | 6 requests, 4 of them for one address, 3 refused by a check, 2 faults, fair | `TypeOK`, `OneAccountOneEvent`, `ConflictMeansTaken`, `CreatedCanLogIn`, `RegistrationEnds` |
| `incident` | 3 alerts, 2 fingerprints, 2 families, 4 documents, 6 drafts and the fallbacks, an index of 2, 1 fault, fair | `TypeOK`, `ConfirmationApproved`, `UnreviewedWithheld`, `AnsweredIsKept`, `UnansweredExplained`, `InvestigationEnds` |
| `trip_cancel_race` | 2 operations, no worker, no fault | violation of `CancelledStaysCancelled` |
| `matching_double_booking` | 2 replicas, 2 trips, 1 driver, no fault | violation of `NoDoubleBooking` |
| `matching_completed` | 1 replica, 1 trip, no fault | violation of `CompletedDriverIsReleased` |

**Bounds.** `MaxFaults` bounds errors, crashes, stalls and unexpected expiries
together: the arguments fail at a single badly placed fault (the mutants show that
each does), so one fault finds them. `BatchLimit` and `ReadCount` are 10 in the
code and 2 here: what matters is a batch of more than one, and (in the consumers) entries
beyond it; the outbox proofs hold for every limit. `maxEventRetries` is 3 in the code, 2 here: a retry and the last
one. A Send channel holds 256 messages in
the code, 1 or 2 here, so that it fills up: a connection that never reads makes
the difference, not the number. The two notification runs divide the work: faults are those of the worker, and the
hub meets them only through `Crash`, so two connections need none and the faults
one connection.
Two replicas race as three would, since every race is between two writes.
Three rivals for an address suffice for one that wins, one that waits and one that
finds it taken; the two faults let two of them go wrong. The fourth has a password
that bcrypt refuses, and two requests for another address are refused by their
format and by a column. An index of 2 instead of
100 and three alerts displace a record. The four documents are an example without
its family, a family without its example, both, and an ambiguous example:
joining two versions matters only between these.
`MaxRequests` bounds the operations that reach their write; three are an
acceptance, a start and a completion. In `trip_races` one operation is in
flight at a time and races with the workers; `trip_cancel_race` and the proofs
have several. One trip is enough for TripService because
no statement touches two rows; DriverMatching needs two trips for double
booking and has them. `Times` has two values, which suffice for one clock ahead of
another and for a tie. In the matching runs `Roaming` names the drivers whose location
and heartbeat come and go (the first driver), `MaxUnoffered` bounds the
acceptances of a trip that was not offered, and `Ids` the events under way at a
time: two, and an id is used again when its event is done. In `matching_live` the
second failure of a handler quarantines its event, so that two faults reach the dead letter
queue, and no trip is accepted unoffered: with one trip that acceptance would
take the trip out of what `RejectedNotOfferedAgain` speaks of.
The events, entries and heartbeats themselves are not bounded by a
counter: the state spaces are finite without.

**What one module assumes of another.** Clocks that disagree, an XADD of the outbox
that fails or is repeated and a FAILED over a PUBLISHED are in Outbox, so the order of events in
DriverMatching is that of the commits; an event that is in the stream twice is
handled again there (`HandledAgain`), and in TripService too (`DispatchMatches`
may leave it).

**Fairness.** The outbox worker's ticker and loop (`WorkerStep`), the loop of
`consume` (`Read`, `Claim`, `Work`), the handlers of dispatch (`Handle`) and the
update worker's loop (`ApplyAnswer`) run forever, so they are weakly fair. In TripService the requests in
flight finish, the timeout worker ticks and time passes; nothing is assumed of passengers, drivers,
dispatch or the update worker, because the timeouts are there for their absence.
A handler of a registration and the agent's worker run to their
end; nothing is assumed of callers, alerts and reviewers.
In notification the worker, `Hub.Run` and the read pumps run; a write
pump need not, because `WriteMessage` has no deadline and may wait for ever for a
browser that does not read.
No fairness is assumed of a fault. Deadlock is not checked: all these systems
rest when there is nothing to do.

**Type invariants.** All are proved for all instances (section 4). Those of
Outbox, RideEventConsumer, TripService, Hub and NotificationWorker are left out
of the runs.

**Mutants.** Every checked property has a mutated definition beside the
one it replaces ("Mutant of ...") that breaks it: FAILED rows never
retried, a missing idempotency check, an ignored error, a swapped status.

## 4. Proofs

Checked by TLAPS for every number of events, trips, replicas, connections,
requests and faults. Every invariant of a passing run, and every action property
without fairness, is stated by a theorem. Before a strengthening was proved
inductive it was checked by TLC as an invariant of the run it belongs to.

* **OutboxProofs.** `IInv` is inductive. `NothingLost` speaks of the table and
  the stream; it needs `UpdateEarned`: an UPDATE to PUBLISHED is only under way
  for an event already in the stream. `InOrder` needs `BatchOrdered`: a batch
  that holds an event holds every event committed before it, unless that one is
  in the stream, had an error or carries no earlier `created_at`, which rests on
  the selection of the oldest rows. No assumption is made of the clocks.
  `DuplicatesExplained` counts: an entry of the
  stream is owed by a replica that is about to mark it or is one that no mark
  followed, until the row is PUBLISHED, and afterwards only replicas that selected it
  before may append it again, as they may once more after each FAILED that
  overwrote the PUBLISHED. Theorems `TypeCorrect`, `PublishedIsInStream`,
  `OvertakingExplained`, `DuplicatesAreExplained`, and
  `OutboxImplementsChannel`: each step is a step of EventChannel or a stutter.
* **RideEventConsumerProofs.** `StepEarned` says what a replica owes at each
  program point (at `ack` the processed key is set; at `record` the event has an
  outcome), `RetriesAreFailures` that the counter, plus the increments under
  way, never exceeds the failures of the handler and the INCRs the client sent
  again. `OutcomesCounted` has two
  halves, as the idempotency key has: until the key is set every outcome belongs
  to a replica that is about to set it, was given up or was repeated by the
  client; afterwards only
  replicas that passed the check before can add one. `Handling` keeps
  the batch of a replica ahead of what it handled, but for the entries it gave
  up. Theorems `TypeCorrect`, `AckedHasOutcome`,
  `QuarantineIsEarned`, `OutcomesAreExplained`, `OvertakingIsExplained`.
* **TripServiceProofs.** An acceptance between its read and its write names a
  driver; a Trip.MatchFailed on its way was announced. With these the two
  invariants survive every interleaving, because the late writes of the driver
  and of the status happen to be harmless to them: SetRejected clears both, and nothing else clears the driver.
  Theorems `TypeCorrect`, `AcceptedTripHasDriver`, `CancellationIsAnnounced`.
* **DriverMatchingProofs.** `RejectedNotOfferedAgain` holds for any number of
  replicas and faults because one thing at a time drives the search of an open,
  undisturbed trip (`OneSearch`): an event in the stream, a replica, an answer
  or the offer. Each stage hands over to the next, so that the list of
  rejections is complete when it is read (`Remembered`) and no stage holds who
  is in it (`Avoided`). A trip that was accepted unoffered counts as disturbed: the
  search for it goes on, and the driver may have rejected it before.
  The other two invariants are false with two replicas (section 5),
  so their theorems assume `OneReplica`: one replica and no fault, as in
  `matching_single`, and any trips, drivers and unoffered acceptances. They speak
  of *regular* drivers, whom only offers bind. A regular driver is *engaged* by a
  trip from the answer that
  names the driver to the last event that does; one trip at most engages a
  regular driver (`OneEngagement`), and an engaged driver is free only while the replica
  is about to make the reservation (`EngagedIsNotFree`), which is why it cannot
  search in between. `LastWord` adds that nothing in the stream after a
  rejection or a cancellation names the driver for that trip, so that no late release
  undoes a confirmation (`AcceptanceApplied`); for a driver who rejects a trip
  and accepts it unoffered it is false. Theorems `TypeCorrect`,
  `RejectedStaysAway`, `OneTripPerDriver`, `AcceptedIsOnTrip`.
* **NotificationWorkerProofs.** `NoSendOnClosed` alone is not inductive: it must
  be known that both registries agree (`Drop` looks at one of them), and that a client that is
  being registered has an open channel and is not registered yet. `Registered` says
  so. `Recorded` carries `HistoryBeforePush` back to the entry in process, the
  broadcast in the hands of `Hub.Run` and the channels. Theorems `TypeCorrect`,
  `ChannelsAreOpen`, `PushIsRecorded`.
* **NotificationDeliveryProofs** continues with what reaches a browser, one
  invariant (`Delivery`) in parts. `Batch` says where an entry that was read can
  be: in the batch, in process, acknowledged, or pending because of a fault, the
  one in process being the oldest. On it rest `Handed` (an entry of the history was
  pushed, is being pushed, or was left pending), `Counted` (each counted delivery
  but the last was ended by a fault, or counted twice by one) and `UpTo` (nothing sent is younger
  than what is still to be sent). `Gapless` and `InOrder` take the browser and
  its channel together, so that `Write` changes nothing of them. `Budget` counts the
  messages of an event that were sent, are in the hub or are still to be sent
  against the inserts that reported no duplicate. Theorems `NoBroadcastMissed`,
  `PassedOverExplained`, `OrderKept`, `PushesExplained`, and
  `QuarantineExplained`, which bounds the faults of a quarantine for every limit.
* **RegistrationProofs.** Uniqueness of the committed accounts is not
  inductive: `Distinct` extends it to the open transactions, and `HoldsRow` says
  that a transaction about to commit has its row among them. `Stored` ties the
  201 to the account. `ConflictIsReal` exempts the requests one of whose calls
  failed or whose data a check refused, because the handler does not tell them apart. Theorems `TypeCorrect`, `OneRegistrationWins`,
  `ConflictIsReal`, `RegisteredLogsIn`.
* **IncidentAgentProofs.** `Progress` says what the request holds at each step,
  `Approval` carries an approval from the document over the copy and the response to
  the record, `Ordered` follows the newest id to the front of the index.
  `RejectedIsWithheld` promises of a rejected draft only what `finalize_diagnosis`
  takes away; of a draft that passed, that all it cites was collected.
  Theorems `TypeCorrect`, `CauseIsApproved`, `RejectedIsWithheld`,
  `AnswerIsKept`, and the action property `NoAnswerIsExplained`.

The assumptions are those of the constants, stated in the modules: numbers are
naturals; what stands for nothing is none of the things (`NoDriver`, `NoUser`, `NoUpdate`,
`None`, and `NoTask` and `NoJob` for an idle consumer and hub:
`NoTaskFresh`, `WorkerIdle`, `HubIdle`); replicas are finitely many where they are
counted (`WorkersFinite`, `ConsumersFin`); clocks give naturals (`TimesNatural`); who
roams is a driver (`RoamingDrivers`); limits are positive. One is a
hypothesis of theorems, `OneReplica`.

Only model-checked: the liveness properties, which need fairness and so
ENABLED, out of this prover's reach (`EveryCommitDelivered`,
`EventuallyMarked`, `EveryEntryAcked` of both consumers, `RequestedResolves` and
`AcceptedResolves`, `WaitingTripAnswered`, `GoneClientsLeave`,
`RegistrationEnds`, `InvestigationEnds`). The refinement of EventChannel is
proved for its safety part; `EveryCommitDelivered` is its liveness.

## 5. What the model shows of the code

Confirmed by a run (`findings` in `PROJECT.json`):

1. *A cancelled trip becomes accepted.* `AcceptTrip` checks a row that a
   cancellation then overtakes. The domain test says "Cannot accept from CANCELLED".
2. *Two replicas offer one driver two trips.* The reservation follows the
   publication, and the status was read long before.
3. *A completed trip keeps its driver ON_TRIP for 4 h.* `CompleteTrip` puts no
   `driver_id` in the payload. The choreography test builds its own event with one.

Seen while modelling, without a run of their own:

* The 60 s check cancels a trip under offer: `trip_timeout_worker.go:50` speaks
  of trips "with no driver", the query (`query.sql:44`) does not look at the
  driver, and `IsStuck` follows the query. Nobody releases the driver. The code
  does so in every run that lets 60 s pass, so no property speaks of it.
* Any driver may accept a requested trip without a driver while a search for it is under
  way, even one who has rejected it, and two such trips. The Trip.Matched of that
  search is then applied to the accepted trip and replaces its driver
  (`trip_update_worker.go:130`): the first loses the trip, the second has
  a trip nobody asked about. The properties of DriverMatching exempt both, and say so.
* A Trip.MatchFailed that comes late cancels a trip that was accepted unoffered.
* A heartbeat between EXISTS and ZREM is lost to the index until the next location
  (`dispatch_service.go:67-73`); so is a driver whose EXISTS fails. A
  driver may be skipped, so no property forbids it.
* go-redis may put an event into the stream twice without an error, count one
  failure twice, and write an entry twice to the dead letter stream:
  `DuplicatesExplained`, `QuarantineEarned`, `OutcomesExplained` and
  `QuarantineNeedsFaults` say how many.
* Replicas whose clocks disagree publish in the order of the clocks, without
  an error: `InOrder` exempts what the clocks reversed.
* Without faults a malformed entry is dropped by notification after one attempt,
  where README.md:69 promises the dead letter stream after three;
  `QuarantineNeedsFaults` states what the code does.
* Registration answers 409 to every error: `ConflictMeansTaken` has to exempt
  the requests one of whose calls failed, and those with a malformed address or
  phone number, a password too long for bcrypt or a name too long for its column.
  A COMMIT with a lost reply is a 409 to
  the owner of the new account, whose second try is a 409 too; the login works.
* Addresses are compared as typed (`NewEmail` lowers them for the format check
  only), so two spellings of one address are two accounts.
* Each replica of user-service signs with a key drawn at start
  (`user/main.go:75-81`, "dev only"), while the others validate with one
  `JWT_PUBLIC_KEY_PEM` (README.md:71): tokens of a second replica, or from before
  a restart, are refused.
* A rejected answer keeps a hypothesis that cites nothing: `finalize_diagnosis`
  drops one whose citations are not all collected evidence, and no citation is
  none too many (`diagnosis.py:84`). `docs/incident-diagnosis-agent.md` says that a
  hypothesis "must cite valid supporting observations" (202) and that a
  downgrade leaves "a cited hypothesis" (205).
* `finalize_diagnosis` leaves `evidence_refs`, and the citations of an empty
  hypothesis, as the language model wrote them, and `presentation.py:17-18`
  publishes both: a rejected answer may cite evidence nobody collected.
  `UnreviewedWithheld` promises that for the hypothesis only.
* A first draft whose action is text, a draft whose citations are objects and a
  verdict of the critic that is a list or an object (`critic.py:51`) are not
  downgraded but raise: 500, and nothing is saved (`UnansweredExplained`).
* `docs/incident-diagnosis-agent.md` says that no overlap gives an evidence-only response; the
  code asks the language model all the same. It says that later retrieval
  consults the knowledge store; a running process consults its copy.
* `PUT /knowledge` always answers 503 and `GET /knowledge` is always empty,
  because `create_app` is started without a store; `GET /incidents` is empty from a restart
  to the next investigation, for the same reason.
* With two replicas a late ReserveDriver overwrites ON_TRIP with a 35 s
  ON_OFFER: `AcceptedDriverIsOnTrip` holds for one replica only.
* RejectOfferWithOutbox leaves `offer_deadline` in the row: a new offer is
  rejected by the next tick if it comes between the two statements of the update worker.
* Without the exemption of interrupted trips, `RejectedNotOfferedAgain` fails
  after one crash: Trip.Requested is handled again and its rejection list read too early.
* `services/dispatch/tests/consumer/consumer_test.go:115` speaks of SetNX; the
  consumer does EXISTS, then the handler, then SET
  (`ride_event_consumer.go:179-195`), which is why `OutcomesExplained` counts
  one outcome per replica.
* Trip.Started has no handler in dispatch and ends in its dead letter stream.
* A targeted message may overtake the broadcast of an earlier event, because
  `BroadcastEvent` returns before it is applied; `OnlyTargetedOvertakes` says that
  nothing else does.
* A crash between `SaveEvent` and the push loses the push: the entry is taken
  for a duplicate when it is claimed. `GET` of the history shows it.
* user-service writes outbox rows that no worker publishes.

## 6. Not modelled

Reset endpoints (they truncate tables and flush Redis); the 24 h expiry of
processed keys and retry counters and the 1 h expiry of rejection lists; the
recreation of a missing consumer group; prices, addresses, coordinates beyond the
order of distance; the limit of ten candidates; the inbox table of the update
worker, which stops an answer that was sent again under the same id if its read
succeeds and no other replica has the first in hand, and does not stop the answer of an event handled
again, which has an id of its own (both models have the application of
two answers); telemetry; authentication, and with it the keys and claims of tokens;
the methods no caller uses (`GetByID` and `Update` of users); the collection and
normalization of evidence, the BM25 ranking and the prompts, which choose what the
language model reads and not what is decided. The kubectl executor, the dashboard,
the evaluation and the frontend keep no state the services rely on.

## 7. Plan

Done: Trip, Outbox with EventChannel, RideEventConsumer, TripService,
DriverMatching, Hub, NotificationWorker, Registration and IncidentAgent, with
twelve runs and the proofs of section 4, which state every safety property of the runs. Next:

1. `OneTripPerDriver` and `AcceptedIsOnTrip` with faults that do not end a
   reservation early (a failed search, a crash before the answer).
2. What a driver sees who accepts a trip unoffered: which of the two drivers of
   the trip dispatch holds ON_TRIP, and for how long.
3. What the outbox and the consumer group promise together: the stream of Outbox
   as the entries of RideEventConsumer.
4. A missing consumer group: its recreation at `0` delivers the stream again.
