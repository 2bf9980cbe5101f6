--------------------------- MODULE DriverMatching ---------------------------
(***************************************************************************)
(* What the replicas of dispatch-service do to drivers and trips while     *)
(* they handle the events of ride_events: every call of handleMessage,     *)
(* MatchDriver, RecordRejection, ReserveDriver, ConfirmDriverOnTrip and    *)
(* ReleaseDriver on Redis is an action, so the handlers of two replicas    *)
(* interleave call by call.  The keys are driver_status (with its TTL),    *)
(* driver_last_seen, drivers_location, trip_rejections and event:retry.    *)
(*                                                                         *)
(* ride-service is the other half of the loop and is reduced to one atomic *)
(* step per operation; TripService has its races, and Outbox what may put  *)
(* two events out of the order in which they were committed.  Reading,     *)
(* acknowledgement and idempotency keys are in RideEventConsumer: here an  *)
(* event is handled to its end and gone, interrupted and handled again, or *)
(* quarantined.                                                            *)
(***************************************************************************)
EXTENDS Trip, Naturals, Sequences

CONSTANTS
  Trips,        \* the trips that may be requested
  Nearness,     \* for each trip the drivers in its radius, nearest first
  Roaming,      \* bound: the drivers who come, go and fall silent
  Consumers,    \* the replicas of dispatch-service
  Ids,          \* entry ids: the events that may be under way at a time
  MaxRetries,   \* maxEventRetries (3 in the code)
  MaxFaults,    \* bound on failed or repeated calls, crashes, late expiries
  MaxUnoffered, \* bound on acceptances of a trip that was not offered
  NoTask        \* a consumer between two events

ASSUME NearnessSeqs   == Nearness \in [Trips -> Seq(Drivers)]
ASSUME RoamingDrivers == Roaming \subseteq Drivers
ASSUME MatchingFaults == MaxFaults \in Nat
ASSUME RetryLimit     == MaxRetries \in Nat \ {0}
ASSUME UnofferedBound == MaxUnoffered \in Nat

VARIABLES
  trips,       \* the rows of ride-service
  stream,      \* events the group has not read yet, oldest first
  retries,     \* event:retry:<entry>, by the number of the entry
  pending,     \* events interrupted and not yet claimed again
  answers,     \* Trip.Matched and Trip.MatchFailed not yet applied
  status,      \* driver_status:<driver>
  index,       \* the drivers in drivers_location
  seen,        \* the drivers with a key driver_last_seen
  rejections,  \* trip_rejections:<trip>
  task,        \* what a consumer is doing
  refused,     \* history: the drivers whose rejection of the trip committed
  disturbed,   \* history: trips with an event interrupted, a list unread, or
               \* an acceptance that was not offered
  irregular,   \* history: drivers who accepted a trip they were not offered,
               \* or were matched to one that another had accepted meanwhile
  abandoned,   \* history: trips with an event quarantined or an answer lost
  unoffered,   \* acceptances so far of a trip that was not offered
  faults       \* faults so far

vars == <<trips, stream, retries, pending, answers, status, index, seen,
          rejections, task, refused, disturbed, irregular, abandoned,
          unoffered, faults>>

AnyDriver == Drivers \cup {NoDriver}

Types == {"Trip.Requested", "Trip.OfferRejected", "Trip.Accepted",
          "Trip.Cancelled", "Trip.Completed"}

Event == [id : Ids, type : Types, trip : Trips, driver : AnyDriver]

Answer == [trip : Trips, driver : AnyDriver]

\* The call a consumer makes next, the drivers in the radius that MatchDriver
\* has still to look at, those it passes over without a call (not in the index
\* when it searched, or in the rejection list it read) and the nearest driver
\* it found.
Steps == {"record", "release", "search", "list", "probe", "fresh", "evict",
          "reserve", "confirm", "forget"}

Task == [event : Event, step : Steps, left : Seq(Drivers),
         excluded : SUBSET Drivers, best : AnyDriver]

ASSUME NoTaskFresh == NoTask \notin Task

Rows == DOMAIN trips

IsOpen(t) ==
  t \in Rows /\ trips[t].status \in {"REQUESTED", "ACCEPTED", "IN_PROGRESS"}

InSeq(x, s) == \E i \in DOMAIN s : s[i] = x

Busy == {c \in Consumers : task[c] # NoTask}

\* The events not handled to their end.
InFlight ==
  {stream[i] : i \in DOMAIN stream} \cup pending
    \cup {task[c].event : c \in Busy}

\* The driver is offered the trip, or about to be, or has accepted it.
Promised(t, d) ==
  /\ IsOpen(t)
  /\ trips[t].driver = d \/ InSeq([trip |-> t, driver |-> d], answers)

\* The driver is promised to a trip, or an event about the driver is under way.
Bound(d) ==
  (\E t \in Trips : Promised(t, d)) \/ (\E k \in InFlight : k.driver = d)

-----------------------------------------------------------------------------
Init ==
  /\ trips      = [t \in {} |-> NewRow]
  /\ stream     = <<>>
  /\ retries    = [i \in Ids |-> 0]
  /\ pending    = {}
  /\ answers    = <<>>
  /\ status     = [d \in Drivers |-> "free"]
  /\ index      \in SUBSET Drivers
  /\ seen       = index
  /\ rejections = [t \in Trips |-> {}]
  /\ task       = [c \in Consumers |-> NoTask]
  /\ refused    = [t \in Trips |-> {}]
  /\ disturbed  = {}
  /\ irregular  = {}
  /\ abandoned  = {}
  /\ unoffered  = 0
  /\ faults     = 0

Fault == faults < MaxFaults /\ faults' = faults + 1

redis == <<status, index, seen, rejections>>

(* ride-service. *)

FreeIds == Ids \ {k.id : k \in InFlight}

\* The next entry; the ids of entries that are done are used again.
Emit(type, t, d) ==
  /\ FreeIds # {}
  /\ stream' = Append(stream,
                       [id   |-> CHOOSE i \in FreeIds : TRUE, type |-> type,
                        trip |-> t, driver |-> d])

Write(t, row) == trips' = [trips EXCEPT ![t] = row]

RideOnly ==
  UNCHANGED <<retries, pending, answers, redis, task, abandoned, faults>>

Offers == UNCHANGED <<disturbed, irregular, unoffered>>

Request(t) ==
  /\ t \notin Rows
  /\ trips' = [x \in Rows \cup {t} |-> IF x = t THEN NewRow ELSE trips[x]]
  /\ Emit("Trip.Requested", t, NoDriver)
  /\ RideOnly /\ Offers /\ UNCHANGED refused

\* Trip.Matched writes the driver, Trip.MatchFailed cancels, both whatever
\* the row holds.
ApplyAnswer ==
  /\ answers # <<>>
  /\ LET a == Head(answers)
         Late == a.driver # NoDriver
                 /\ trips[a.trip].status \in {"ACCEPTED", "IN_PROGRESS"} IN
       /\ Write(a.trip, IF a.driver # NoDriver
                        THEN SetDriver(trips[a.trip], a.driver)
                        ELSE SetStatus(trips[a.trip], "CANCELLED"))
       /\ irregular' = irregular \cup (IF Late THEN {a.driver} ELSE {})
  /\ answers' = Tail(answers)
  /\ UNCHANGED <<stream, retries, pending, redis, task, refused, disturbed,
                 abandoned, unoffered, faults>>

\* The UPDATE fails, or the replica dies with the entry in hand: it is marked
\* and acknowledged all the same, or never claimed.
LoseAnswer ==
  /\ answers # <<>>
  /\ Fault
  /\ abandoned' = abandoned \cup {Head(answers).trip}
  /\ answers' = Tail(answers)
  /\ UNCHANGED <<trips, stream, retries, pending, redis, task, refused,
                 disturbed, irregular, unoffered>>

\* The driver the trip was offered to accepts.
Accept(t) ==
  /\ t \in Rows /\ trips[t].driver # NoDriver
  /\ MayAccept(trips[t], trips[t].driver)
  /\ Write(t, SetAccepted(trips[t], trips[t].driver))
  /\ Emit("Trip.Accepted", t, trips[t].driver)
  /\ RideOnly /\ Offers /\ UNCHANGED refused

\* Any driver accepts a requested trip that no driver is assigned to.
AcceptUnoffered(t, d) ==
  /\ t \in Rows /\ trips[t].driver = NoDriver
  /\ MayAccept(trips[t], d)
  /\ unoffered < MaxUnoffered /\ unoffered' = unoffered + 1
  /\ Write(t, SetAccepted(trips[t], d))
  /\ Emit("Trip.Accepted", t, d)
  /\ disturbed' = disturbed \cup {t}
  /\ irregular' = irregular \cup {d}
  /\ RideOnly /\ UNCHANGED refused

\* The driver rejects, or the offer expires.
Reject(t) ==
  /\ t \in Rows /\ trips[t].driver # NoDriver
  /\ MayReject(trips[t], trips[t].driver)
  /\ Write(t, SetRejected(trips[t]))
  /\ Emit("Trip.OfferRejected", t, trips[t].driver)
  /\ refused' = [refused EXCEPT ![t] = @ \cup {trips[t].driver}]
  /\ RideOnly /\ Offers

\* By the passenger, without the driver in the event; or by the timeout
\* worker 5 minutes after the acceptance, with it.
Cancel(t) ==
  /\ t \in Rows /\ MayCancel(trips[t])
  /\ Write(t, SetStatus(trips[t], "CANCELLED"))
  /\ \/ Emit("Trip.Cancelled", t, NoDriver)
     \/ /\ trips[t].status = "ACCEPTED"
        /\ Emit("Trip.Cancelled", t, trips[t].driver)
  /\ RideOnly /\ Offers /\ UNCHANGED refused

\* By the timeout worker 60 s after the request: dispatch ignores the event.
CancelStuck(t) ==
  /\ t \in Rows /\ trips[t].status = "REQUESTED"
  /\ Write(t, SetStatus(trips[t], "CANCELLED"))
  /\ RideOnly /\ Offers /\ UNCHANGED <<stream, refused>>

\* Trip.Started goes to dispatch's dead letter queue without a handler.
Start(t) ==
  /\ t \in Rows /\ MayStart(trips[t])
  /\ Write(t, SetStatus(trips[t], "IN_PROGRESS"))
  /\ RideOnly /\ Offers /\ UNCHANGED <<stream, refused>>

\* The payload of Trip.Completed names no driver.
Complete(t) ==
  /\ t \in Rows /\ MayComplete(trips[t])
  /\ Write(t, SetStatus(trips[t], "COMPLETED"))
  /\ Emit("Trip.Completed", t, NoDriver)
  /\ RideOnly /\ Offers /\ UNCHANGED refused

-----------------------------------------------------------------------------
(* Drivers and time. *)

RideIdle == UNCHANGED <<trips, stream, refused, irregular, unoffered>>

WorldOnly ==
  RideIdle /\ UNCHANGED <<retries, pending, answers, rejections, task,
                          disturbed, abandoned>>

\* UpdateDriverLocation: GEOADD.
Locate(d) ==
  /\ d \in Roaming \ index
  /\ index' = index \cup {d}
  /\ WorldOnly /\ UNCHANGED <<status, seen, faults>>

\* UpdateDriverLocation: SET driver_last_seen.
Heartbeat(d) ==
  /\ d \in index \ seen
  /\ seen' = seen \cup {d}
  /\ WorldOnly /\ UNCHANGED <<status, index, faults>>

\* 30 s without a heartbeat.
LastSeenExpires(d) ==
  /\ d \in Roaming \cap seen
  /\ seen' = seen \ {d}
  /\ WorldOnly /\ UNCHANGED <<status, index, faults>>

\* Mutant of StatusExpires: ON_TRIP has the 35 s of ON_OFFER.
StatusExpiresOnTrip(d) ==
  /\ status[d] # "free"
  /\ status' = [status EXCEPT ![d] = "free"]
  /\ IF status[d] = "ON_OFFER" THEN Fault ELSE UNCHANGED faults
  /\ WorldOnly /\ UNCHANGED <<index, seen>>

\* The TTL of driver_status runs out: 35 s and 4 h are longer than an offer
\* and a trip, so it counts as a fault while the driver is still promised to
\* a trip or an event about the driver is under way.  ON_OFFER is not longer
\* than a trip: for a driver matched to an accepted one it is no fault.
StatusExpires(d) ==
  /\ status[d] # "free"
  /\ status' = [status EXCEPT ![d] = "free"]
  /\ IF d \notin irregular /\ Bound(d) THEN Fault ELSE UNCHANGED faults
  /\ WorldOnly /\ UNCHANGED <<index, seen>>

-----------------------------------------------------------------------------
(* dispatch-service: handleMessage. *)

\* Mutant of FirstStep: a rejection is released without being recorded.
FirstStepUnrecorded(type) ==
  CASE type = "Trip.Requested"     -> "search"
    [] type = "Trip.OfferRejected" -> "release"
    [] type = "Trip.Accepted"      -> "confirm"
    [] type = "Trip.Cancelled"     -> "forget"

\* The branch on the type; a Trip.Completed without a driver does nothing.
FirstStep(type) ==
  CASE type = "Trip.Requested"     -> "search"
    [] type = "Trip.OfferRejected" -> "record"
    [] type = "Trip.Accepted"      -> "confirm"
    [] type = "Trip.Cancelled"     -> "forget"

Begin(c, k) ==
  task' = [task EXCEPT ![c] =
    IF k.type = "Trip.Completed" THEN NoTask
    ELSE [event |-> k, step |-> FirstStep(k.type), left |-> <<>>,
          excluded |-> {}, best |-> NoDriver]]

Goto(c, step) == task' = [task EXCEPT ![c].step = step]
Done(c) == task' = [task EXCEPT ![c] = NoTask]

\* The handler is through: DEL event:retry.
Finish(c) == Done(c) /\ retries' = [retries EXCEPT ![task[c].event.id] = 0]

At(c, step) == task[c] # NoTask /\ task[c].step = step

RedisOnly == RideIdle /\ UNCHANGED <<pending, answers, abandoned>>

\* The handler goes on.
Inside == RedisOnly /\ UNCHANGED retries

Calm == UNCHANGED <<disturbed, faults>>

Disturb(c) == disturbed' = disturbed \cup {task[c].event.trip}

\* Mutant of SetDriverStatus: a released driver is set to AVAILABLE, not
\* deleted.
SetAvailable(d, s) ==
  status' = [status EXCEPT ![d] = IF s = "free" THEN "AVAILABLE" ELSE s]

SetDriverStatus(d, s) == status' = [status EXCEPT ![d] = s]

\* The next entry of the stream.
Take(c) ==
  /\ task[c] = NoTask /\ stream # <<>>
  /\ stream' = Tail(stream)
  /\ Begin(c, Head(stream))
  /\ Calm
  /\ UNCHANGED <<trips, retries, pending, answers, redis, refused, irregular,
                 abandoned, unoffered>>

\* An entry left pending by a failure or a crash.
Reclaim(c, k) ==
  /\ task[c] = NoTask
  /\ pending' = pending \ {k}
  /\ Begin(c, k)
  /\ RideIdle /\ Calm /\ UNCHANGED <<retries, answers, redis, abandoned>>

\* RecordRejection: SADD trip_rejections.
Record(c) ==
  /\ At(c, "record")
  /\ LET k == task[c].event IN
       rejections' = [rejections EXCEPT ![k.trip] = @ \cup {k.driver}]
  /\ Goto(c, "release")
  /\ Inside /\ Calm /\ UNCHANGED <<status, index, seen>>

\* ReleaseDriver: DEL driver_status, whoever set it.  A rejection is matched
\* again, a cancellation ends here.
Release(c) ==
  /\ At(c, "release")
  /\ SetDriverStatus(task[c].event.driver, "free")
  /\ IF task[c].event.type = "Trip.OfferRejected"
     THEN Goto(c, "search") /\ UNCHANGED retries
     ELSE Finish(c)
  /\ RedisOnly /\ Calm /\ UNCHANGED <<index, seen, rejections>>

\* MatchDriver: GEOSEARCH, nearest first.
Search(c) ==
  /\ At(c, "search")
  /\ task' = [task EXCEPT ![c].step = "list",
                          ![c].left = Nearness[task[c].event.trip],
                          ![c].excluded = Drivers \ index]
  /\ Inside /\ Calm /\ UNCHANGED redis

\* MatchDriver: SMEMBERS trip_rejections, whose error is ignored.
ReadRejections(c) ==
  LET Continue(rejected) ==
        task' = [task EXCEPT ![c].step = "probe",
                             ![c].excluded = @ \cup rejected]
  IN
  /\ At(c, "list")
  /\ \/ Continue(rejections[task[c].event.trip]) /\ Calm
     \/ Continue({}) /\ Fault /\ Disturb(c)
  /\ Inside /\ UNCHANGED redis

Candidate(c) == Head(task[c].left)

\* MatchDriver goes on to its next candidate.
Pass(c) == task' = [task EXCEPT ![c].step = "probe", ![c].left = Tail(@)]

\* MatchDriver: the candidate is in the rejection list, or GET driver_status
\* finds a value.
Skip(c) ==
  /\ At(c, "probe") /\ task[c].left # <<>>
  /\ Candidate(c) \in task[c].excluded \/ status[Candidate(c)] # "free"
  /\ Pass(c)
  /\ Inside /\ Calm /\ UNCHANGED redis

\* Mutant of LooksFree: driver_status is not read.
LooksUnread(c) ==
  /\ At(c, "probe") /\ task[c].left # <<>>
  /\ Candidate(c) \notin task[c].excluded
  /\ Goto(c, "fresh")
  /\ Inside /\ Calm /\ UNCHANGED redis

\* MatchDriver: GET driver_status finds none; its error reads the same.
LooksFree(c) ==
  /\ At(c, "probe") /\ task[c].left # <<>>
  /\ Candidate(c) \notin task[c].excluded
  /\ IF status[Candidate(c)] = "free" THEN UNCHANGED faults ELSE Fault
  /\ Goto(c, "fresh")
  /\ Inside /\ UNCHANGED <<redis, disturbed>>

\* MatchDriver: EXISTS driver_last_seen; DriverPool.Nearest keeps the first
\* fresh candidate.
Keep(c) ==
  /\ At(c, "fresh") /\ Candidate(c) \in seen
  /\ task' = [task EXCEPT
       ![c].step = "probe",
       ![c].left = Tail(@),
       ![c].best = IF @ = NoDriver THEN Candidate(c) ELSE @]
  /\ Inside /\ Calm /\ UNCHANGED redis

\* The key is gone, or EXISTS fails and leaves its zero: the candidate is
\* about to be dropped from the index.
FindStale(c) ==
  /\ At(c, "fresh")
  /\ IF Candidate(c) \in seen THEN Fault ELSE UNCHANGED faults
  /\ Goto(c, "evict")
  /\ Inside /\ UNCHANGED <<redis, disturbed>>

\* ZREM drivers_location, although a heartbeat may have come in between; its
\* error is ignored.
Evict(c) ==
  /\ At(c, "evict")
  /\ \/ index' = index \ {Candidate(c)} /\ UNCHANGED faults
     \/ UNCHANGED index /\ Fault
  /\ Pass(c)
  /\ Inside /\ UNCHANGED <<status, seen, rejections, disturbed>>

\* MatchDriver has looked at every candidate.
Searched(c) == At(c, "probe") /\ task[c].left = <<>>

Publish(c) ==
  answers' = Append(answers, [trip   |-> task[c].event.trip,
                              driver |-> task[c].best])

\* XADD Trip.Matched, the reservation to follow, or XADD Trip.MatchFailed.
AnswerTrip(c) ==
  /\ Searched(c)
  /\ Publish(c)
  /\ IF task[c].best # NoDriver
     THEN Goto(c, "reserve") /\ UNCHANGED retries
     ELSE Finish(c)
  /\ RideIdle /\ Calm /\ UNCHANGED <<pending, redis, abandoned>>

\* XADD took effect, its reply was lost, and go-redis sends it again; the
\* inbox of ride-service does not stop the second entry (it could not be
\* read, or another replica has the first in hand).
AnswerRepeated(c) ==
  /\ Searched(c)
  /\ Fault
  /\ Publish(c)
  /\ Disturb(c)
  /\ RideIdle /\ UNCHANGED <<retries, pending, redis, task, abandoned>>

\* ReserveDriver: SET driver_status ON_OFFER, whatever it is by then.
Reserve(c) ==
  /\ At(c, "reserve")
  /\ SetDriverStatus(task[c].best, "ON_OFFER")
  /\ Finish(c)
  /\ RedisOnly /\ Calm /\ UNCHANGED <<index, seen, rejections>>

\* Trip.Accepted, ConfirmDriverOnTrip: SET driver_status ON_TRIP.
Confirm(c) ==
  /\ At(c, "confirm")
  /\ SetDriverStatus(task[c].event.driver, "ON_TRIP")
  /\ Finish(c)
  /\ RedisOnly /\ Calm /\ UNCHANGED <<index, seen, rejections>>

\* Trip.Cancelled: DEL trip_rejections, and the driver if the event has one.
ForgetRejections(c) ==
  /\ At(c, "forget")
  /\ rejections' = [rejections EXCEPT ![task[c].event.trip] = {}]
  /\ IF task[c].event.driver # NoDriver
     THEN Goto(c, "release") /\ UNCHANGED retries
     ELSE Finish(c)
  /\ RedisOnly /\ Calm /\ UNCHANGED <<status, index, seen>>

-----------------------------------------------------------------------------
(* dispatch-service: what goes wrong. *)

\* The consumer has the event no longer; XADD may have taken effect.
Drop(c) ==
  /\ Done(c)
  /\ Disturb(c)
  /\ UNCHANGED answers \/ (Searched(c) /\ Publish(c))
  /\ UNCHANGED <<trips, stream, redis, refused, irregular, unoffered>>

Repend(c) == pending' = pending \cup {task[c].event} /\ UNCHANGED abandoned

\* Mutant of Interrupt: acknowledged before it is handled.
InterruptAcked(c) ==
  /\ task[c] # NoTask
  /\ Fault
  /\ Drop(c)
  /\ UNCHANGED <<retries, pending, abandoned>>

\* The replica dies, or a call fails and so does INCR: the entry stays
\* pending and the failure is not counted.
Interrupt(c) ==
  /\ task[c] # NoTask
  /\ Fault
  /\ Drop(c)
  /\ Repend(c) /\ UNCHANGED retries

\* The next call is one whose error the handler returns.
Fallible(c) ==
  \/ Searched(c)
  \/ task[c] # NoTask /\ task[c].step \notin {"list", "probe", "fresh", "evict"}

\* The handler fails and INCR counts it, more than once when its reply is
\* lost and go-redis sends it again.  Below the limit the entry stays pending.
FailAgain(c, n) ==
  LET k == task[c].event IN
  /\ Fallible(c)
  /\ faults + n <= MaxFaults /\ faults' = faults + n
  /\ retries[k.id] + n < MaxRetries
  /\ retries' = [retries EXCEPT ![k.id] = @ + n]
  /\ Drop(c)
  /\ Repend(c)

\* At the limit the entry goes to ride_events_dlq and is acknowledged.
Quarantine(c, n) ==
  LET k == task[c].event IN
  /\ Fallible(c)
  /\ faults + n <= MaxFaults /\ faults' = faults + n
  /\ retries[k.id] + n >= MaxRetries
  /\ retries' = [retries EXCEPT ![k.id] = 0]
  /\ abandoned' = abandoned \cup {k.trip}
  /\ Drop(c)
  /\ UNCHANGED pending

\* At the limit XADD ride_events_dlq fails too, for the same reason: the entry
\* stays pending, its counter at the limit.
QuarantineFails(c, n) ==
  LET k == task[c].event IN
  /\ Fallible(c)
  /\ faults + n <= MaxFaults /\ faults' = faults + n
  /\ retries[k.id] + n >= MaxRetries
  /\ retries' = [retries EXCEPT ![k.id] = @ + n]
  /\ Drop(c)
  /\ Repend(c)

\* The handler goes on, but the entry will be handled again: it is slow and
\* another replica claims the entry, SET processed_event fails in the end, or
\* the outbox wrote the event twice.
HandledAgain(c) ==
  /\ task[c] # NoTask
  /\ Fault
  /\ Disturb(c)
  /\ Repend(c)
  /\ RideIdle /\ UNCHANGED <<retries, answers, redis, task>>

-----------------------------------------------------------------------------
Handle(c) ==
  \/ Take(c) \/ \E k \in pending : Reclaim(c, k)
  \/ Record(c) \/ Release(c) \/ Search(c) \/ ReadRejections(c)
  \/ Skip(c) \/ LooksFree(c) \/ Keep(c) \/ FindStale(c) \/ Evict(c)
  \/ AnswerTrip(c) \/ Reserve(c) \/ Confirm(c) \/ ForgetRejections(c)

GoWrong(c) ==
  \/ Interrupt(c) \/ HandledAgain(c) \/ AnswerRepeated(c)
  \/ \E n \in 1 .. MaxFaults :
       FailAgain(c, n) \/ Quarantine(c, n) \/ QuarantineFails(c, n)

Ride(t) ==
  \/ Request(t) \/ Accept(t) \/ Reject(t) \/ Cancel(t) \/ CancelStuck(t)
  \/ Start(t) \/ Complete(t)
  \/ \E d \in Drivers : AcceptUnoffered(t, d)

Next ==
  \/ \E t \in Trips : Ride(t)
  \/ ApplyAnswer \/ LoseAnswer
  \/ \E d \in Drivers :
       Locate(d) \/ Heartbeat(d) \/ LastSeenExpires(d) \/ StatusExpires(d)
  \/ \E c \in Consumers : Handle(c) \/ GoWrong(c)

Spec == Init /\ [][Next]_vars

\* The consumers keep reading and handling and the update worker keeps
\* applying; passengers, drivers and time need not do anything.
FairSpec ==
  /\ Spec
  /\ WF_vars(ApplyAnswer)
  /\ \A c \in Consumers : WF_vars(Handle(c))

-----------------------------------------------------------------------------
\* Every variable has its type.
TypeOK ==
  /\ Rows \subseteq Trips /\ trips \in [Rows -> Row]
  /\ stream \in Seq(Event)
  /\ retries \in [Ids -> Nat]
  /\ pending \subseteq Event
  /\ answers \in Seq(Answer)
  /\ status \in [Drivers -> {"free", "ON_OFFER", "ON_TRIP"}]
  /\ index \subseteq Drivers /\ seen \subseteq Drivers
  /\ rejections \in [Trips -> SUBSET Drivers]
  /\ task \in [Consumers -> Task \cup {NoTask}]
  /\ refused \in [Trips -> SUBSET Drivers]
  /\ disturbed \subseteq Trips /\ abandoned \subseteq Trips
  /\ irregular \subseteq Drivers
  /\ unoffered \in 0 .. MaxUnoffered
  /\ faults \in 0 .. MaxFaults

\* choreography_test.go:627 "all matched driver IDs must be distinct (no
\* double-booking)": a driver whom only offers bind is promised to one open
\* trip at a time.  It holds with one replica and no fault, although the
\* reservation follows the publication of Trip.Matched and other drivers
\* accept trips that were never offered to them.
NoDoubleBooking ==
  \A d \in Drivers \ irregular, t, u \in Trips :
    Promised(t, d) /\ Promised(u, d) => t = u

\* choreography_test.go:238 "driver must be ON_TRIP after acceptance": once
\* the events of an accepted trip are handled its driver, if only offers bind
\* the driver, is ON_TRIP.  It holds with one replica and no fault.
AcceptedDriverIsOnTrip ==
  \A t \in Rows :
    /\ trips[t].status \in {"ACCEPTED", "IN_PROGRESS"}
    /\ trips[t].driver \notin irregular
    /\ \A k \in InFlight : k.trip # t
    => status[trips[t].driver] = "ON_TRIP"

\* A trip is not offered again to a driver who rejected it (RecordRejection
\* before MatchDriver), however many replicas handle its events, unless one
\* of them was interrupted or handled twice or could not read the list (a
\* Trip.Requested handled again after its own offer was rejected finds the
\* list too early), or a driver accepted the trip unoffered.
RejectedNotOfferedAgain ==
  \A t \in Rows \ disturbed : IsOpen(t) => trips[t].driver \notin refused[t]

\* A trip that waits for a driver gets an offer or is closed, whichever
\* replica handles its event and whatever failed before, unless an event of
\* the trip was quarantined or an answer to it was lost.
WaitingTripAnswered ==
  LET Waits(t) == /\ t \in Rows
                  /\ trips[t].status = "REQUESTED"
                  /\ trips[t].driver = NoDriver
  IN \A t \in Trips : Waits(t) ~> ~Waits(t) \/ t \in abandoned

\* choreography_test.go:275 "driver_status key must be deleted after
\* completion".
CompletedDriverIsReleased ==
  \A t \in Rows :
    /\ trips[t].status = "COMPLETED"
    /\ \A k \in InFlight : k.trip # t
    => status[trips[t].driver] # "ON_TRIP"
=============================================================================
