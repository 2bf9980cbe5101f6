---------------------------- MODULE TripService -----------------------------
(***************************************************************************)
(* ride-service: the HTTP operations on trips, the TripTimeoutWorker and   *)
(* the TripUpdateWorker of every replica, over one table of trips.  An     *)
(* operation reads the row, checks it in the domain method and writes in a *)
(* later transaction; a timeout check selects rows and writes them one by  *)
(* one; an update worker applies dispatch's answers with statements that   *)
(* look at nothing.  No row lock and no version spans a read and a write.  *)
(*                                                                         *)
(* dispatch-service appears as the answers it gives to the events that ask *)
(* for a driver; RideEventConsumer and DriverMatching model it.  Events    *)
(* travel through unordered sets, which allows every delay and reordering  *)
(* of the outbox and of several replicas.                                  *)
(***************************************************************************)
EXTENDS Trip, Naturals, FiniteSets

CONSTANTS
  Trips,         \* the trips that may be requested
  Callers,       \* HTTP requests that may be in flight at once
  Sweepers,      \* the replicas' TripTimeoutWorkers
  Updaters,      \* the replicas' TripUpdateWorkers
  MaxRequests,   \* bound on the HTTP operations that reach their write
  MaxFaults      \* bound on failed writes, lost or repeated events and crashes

ASSUME RequestsNat == MaxRequests \in Nat
ASSUME FaultsNat   == MaxFaults \in Nat

VARIABLES
  trips,       \* the table: the rows of the trips requested so far
  request,     \* an operation between its read and its write
  sweep,       \* what a timeout check has selected and not yet written
  update,      \* the answer an update worker is applying
  events,      \* the events dispatch has not handled yet
  answers,     \* Trip.Matched and Trip.MatchFailed not yet read
  declined,    \* dispatch's rejection list of a trip
  announced,   \* trips with a Trip.Cancelled or Trip.MatchFailed published
  requests,    \* operations that reached their write
  faults       \* faults so far

vars == <<trips, request, sweep, update, events, answers, declined, announced,
          requests, faults>>

AnyDriver == Drivers \cup {NoDriver}

Ops == {"accept", "start", "complete", "reject", "cancel"}

Operation == [op : Ops, trip : Trips, driver : AnyDriver]
NoOp == [op |-> "none"]

\* An event dispatch reacts to, with the driver its payload names if any.
Event == [type   : {"Trip.Requested", "Trip.OfferRejected", "Trip.Cancelled"},
          trip   : Trips,
          driver : AnyDriver]

\* Trip.Matched with its driver, or Trip.MatchFailed with none; also a row
\* a timeout query selected.
TripDriver == [trip : Trips, driver : AnyDriver]

Phases == {"idle", "stuck", "expired", "accepted"}

Rows == DOMAIN trips

-----------------------------------------------------------------------------
Init ==
  /\ trips     = [t \in {} |-> NewRow]
  /\ request   = [c \in Callers |-> NoOp]
  /\ sweep     = [s \in Sweepers |-> [phase |-> "idle", todo |-> {}]]
  /\ update    = [u \in Updaters |-> {}]
  /\ events      = {}
  /\ answers   = {}
  /\ declined  = [t \in Trips |-> {}]
  /\ announced = {}
  /\ requests  = 0
  /\ faults    = 0

Fault == faults < MaxFaults /\ faults' = faults + 1

Write(t, row) == trips' = [trips EXCEPT ![t] = row]

\* The outbox row of the same transaction, on its way to dispatch.
Emit(type, t, d) ==
  events' = events \cup {[type |-> type, trip |-> t, driver |-> d]}

\* TripService.RequestTrip: the row and Trip.Requested in one transaction.
RequestTrip(t) ==
  /\ t \notin Rows
  /\ trips' = [x \in Rows \cup {t} |-> IF x = t THEN NewRow ELSE trips[x]]
  /\ Emit("Trip.Requested", t, NoDriver)
  /\ UNCHANGED <<request, sweep, update, answers, declined, announced,
                 requests, faults>>

\* The guard of the domain method an operation calls.
Permitted(o) ==
  LET row == trips[o.trip] IN
  \/ o.op = "accept"   /\ o.driver # NoDriver /\ MayAccept(row, o.driver)
  \/ o.op = "start"    /\ o.driver = NoDriver /\ MayStart(row)
  \/ o.op = "complete" /\ o.driver = NoDriver /\ MayComplete(row)
  \/ o.op = "reject"   /\ o.driver # NoDriver /\ MayReject(row, o.driver)
  \/ o.op = "cancel"   /\ o.driver = NoDriver /\ MayCancel(row)

\* GetByID and the domain check; an operation refused here ends in an error.
ReadTrip(c, o) ==
  /\ request[c] = NoOp
  /\ requests < MaxRequests
  /\ o.trip \in Rows
  /\ Permitted(o)
  /\ requests' = requests + 1
  /\ request' = [request EXCEPT ![c] = o]
  /\ UNCHANGED <<trips, sweep, update, events, answers, declined, announced,
                 faults>>

Respond(c) ==
  /\ request' = [request EXCEPT ![c] = NoOp]
  /\ UNCHANGED <<sweep, update, answers, requests>>

\* AcceptWithOutbox, StartWithOutbox and CompleteWithOutbox.
WriteProgress(c, o) ==
  /\ request[c] = o
  /\ \/ o.op = "accept"   /\ Write(o.trip, SetAccepted(trips[o.trip], o.driver))
     \/ o.op = "start"    /\ Write(o.trip, SetStatus(trips[o.trip], "IN_PROGRESS"))
     \/ o.op = "complete" /\ Write(o.trip, SetStatus(trips[o.trip], "COMPLETED"))
  /\ Respond(c)
  /\ UNCHANGED <<events, declined, announced, faults>>

\* RejectOfferWithOutbox: Trip.OfferRejected events dispatch for another driver.
WriteReject(c, o) ==
  /\ request[c] = o /\ o.op = "reject"
  /\ Write(o.trip, SetRejected(trips[o.trip]))
  /\ Emit("Trip.OfferRejected", o.trip, o.driver)
  /\ Respond(c)
  /\ UNCHANGED <<declined, announced, faults>>

\* CancelWithOutbox: Trip.Cancelled, without the driver.
WriteCancel(c, o) ==
  /\ request[c] = o /\ o.op = "cancel"
  /\ Write(o.trip, SetStatus(trips[o.trip], "CANCELLED"))
  /\ announced' = announced \cup {o.trip}
  /\ Emit("Trip.Cancelled", o.trip, NoDriver)
  /\ Respond(c)
  /\ UNCHANGED <<declined, faults>>

\* The transaction fails or the replica dies before it.
RequestFails(c) ==
  /\ request[c] # NoOp
  /\ Fault
  /\ Respond(c)
  /\ UNCHANGED <<trips, events, declined, announced>>

-----------------------------------------------------------------------------
(* TripTimeoutWorker.checkTimeouts: three selections, each followed by the *)
(* transactions for the rows it returned.                                  *)

Select(s, from, to, selected) ==
  /\ sweep[s] = [phase |-> from, todo |-> {}]
  /\ sweep' = [sweep EXCEPT ![s] =
       [phase |-> to,
        todo  |-> {[trip |-> t, driver |-> trips[t].driver] : t \in selected}]]
  /\ UNCHANGED <<trips, request, update, events, answers, declined, announced,
                 requests, faults>>

SelectStuck(s) ==
  Select(s, "idle", "stuck", {t \in Rows : IsStuck(trips[t])})
SelectExpired(s) ==
  Select(s, "stuck", "expired", {t \in Rows : IsExpiredOffer(trips[t])})
SelectAccepted(s) ==
  Select(s, "expired", "accepted", {t \in Rows : IsStuckAccepted(trips[t])})

\* The end of the tick.
SweepDone(s) ==
  /\ sweep[s] = [phase |-> "accepted", todo |-> {}]
  /\ sweep' = [sweep EXCEPT ![s].phase = "idle"]
  /\ UNCHANGED <<trips, request, update, events, answers, declined, announced,
                 requests, faults>>

SweepRow(s, x, phase) ==
  /\ sweep[s].phase = phase
  /\ x \in sweep[s].todo
  /\ sweep' = [sweep EXCEPT ![s].todo = @ \ {x}]
  /\ UNCHANGED <<request, update, requests>>

\* Mutant of CancelStuck: the status alone, no outbox row.
CancelStuckSilently(s, x) ==
  /\ SweepRow(s, x, "stuck")
  /\ Write(x.trip, SetStatus(trips[x.trip], "CANCELLED"))
  /\ UNCHANGED <<events, answers, declined, announced, faults>>

\* cancelStuckRequested: Trip.MatchFailed, which the update workers of
\* ride-service read back as well.
CancelStuck(s, x) ==
  /\ SweepRow(s, x, "stuck")
  /\ Write(x.trip, SetStatus(trips[x.trip], "CANCELLED"))
  /\ announced' = announced \cup {x.trip}
  /\ answers' = answers \cup {[trip |-> x.trip, driver |-> NoDriver]}
  /\ UNCHANGED <<events, declined, faults>>

\* rejectExpiredOffers: the event names the driver selected.
RejectExpired(s, x) ==
  /\ SweepRow(s, x, "expired")
  /\ Write(x.trip, SetRejected(trips[x.trip]))
  /\ Emit("Trip.OfferRejected", x.trip, x.driver)
  /\ UNCHANGED <<answers, declined, announced, faults>>

\* cancelStuckAccepted: Trip.Cancelled with the driver selected.
CancelAccepted(s, x) ==
  /\ SweepRow(s, x, "accepted")
  /\ Write(x.trip, SetStatus(trips[x.trip], "CANCELLED"))
  /\ announced' = announced \cup {x.trip}
  /\ Emit("Trip.Cancelled", x.trip, x.driver)
  /\ UNCHANGED <<answers, declined, faults>>

\* A transaction of the sweep fails: logged, the next row follows.
SweepWriteFails(s, x) ==
  /\ SweepRow(s, x, sweep[s].phase)
  /\ Fault
  /\ UNCHANGED <<trips, events, answers, declined, announced>>

SweepCrash(s) ==
  /\ sweep[s].phase # "idle"
  /\ Fault
  /\ sweep' = [sweep EXCEPT ![s] = [phase |-> "idle", todo |-> {}]]
  /\ UNCHANGED <<trips, request, update, events, answers, declined, announced,
                 requests>>

-----------------------------------------------------------------------------
(* TripUpdateWorker.handleMessage, for the answers on the stream. *)

\* Trip.Matched, first statement: the driver, whatever the status is.
AssignDriver(u, a) ==
  /\ update[u] = {} /\ a \in answers /\ a.driver # NoDriver
  /\ answers' = answers \ {a}
  /\ Write(a.trip, SetDriver(trips[a.trip], a.driver))
  /\ update' = [update EXCEPT ![u] = {a}]
  /\ UNCHANGED <<request, sweep, events, declined, announced, requests, faults>>

\* Trip.Matched, second statement: the offer's deadline.
AssignDeadline(u, a) ==
  /\ update[u] = {a}
  /\ Write(a.trip, SetDeadline(trips[a.trip]))
  /\ update' = [update EXCEPT ![u] = {}]
  /\ UNCHANGED <<request, sweep, events, answers, declined, announced, requests,
                 faults>>

\* Trip.MatchFailed: cancelled, whatever the status is; no event follows.
MatchFailed(u, a) ==
  /\ update[u] = {} /\ a \in answers /\ a.driver = NoDriver
  /\ answers' = answers \ {a}
  /\ Write(a.trip, SetStatus(trips[a.trip], "CANCELLED"))
  /\ UNCHANGED <<request, sweep, update, events, declined, announced, requests,
                 faults>>

\* A statement fails (the entry is marked and acknowledged all the same), or
\* the replica dies (nobody claims the entry from its pending list).
AnswerLost(u, a) ==
  /\ Fault
  /\ \/ update[u] = {} /\ a \in answers
        /\ answers' = answers \ {a} /\ UNCHANGED update
     \/ update[u] = {a}
        /\ update' = [update EXCEPT ![u] = {}] /\ UNCHANGED answers
  /\ UNCHANGED <<trips, request, sweep, events, declined, announced, requests>>

-----------------------------------------------------------------------------
(* dispatch-service. *)

\* handleMessage of Trip.Requested and Trip.OfferRejected: the rejection is
\* recorded, then some driver that has not declined is matched, or none.  The
\* event may come again.
DispatchMatches(k, d) ==
  LET refusing == declined[k.trip] \cup ({k.driver} \ {NoDriver}) IN
  /\ k \in events /\ k.type # "Trip.Cancelled"
  /\ d \notin refusing
  /\ \/ events' = events \ {k} /\ UNCHANGED faults
     \/ UNCHANGED events /\ Fault
  /\ declined' = [declined EXCEPT ![k.trip] = refusing]
  /\ answers' = answers \cup {[trip |-> k.trip, driver |-> d]}
  /\ announced' = IF d = NoDriver THEN announced \cup {k.trip} ELSE announced
  /\ UNCHANGED <<trips, request, sweep, update, requests>>

\* handleMessage of Trip.Cancelled: the rejections of the trip are forgotten.
DispatchForgets(k) ==
  /\ k \in events /\ k.type = "Trip.Cancelled"
  /\ events' = events \ {k}
  /\ declined' = [declined EXCEPT ![k.trip] = {}]
  /\ UNCHANGED <<trips, request, sweep, update, answers, announced, requests,
                 faults>>

\* The event is quarantined, a Trip.Requested.v2 for one.
EventLost(k) ==
  /\ k \in events
  /\ Fault
  /\ events' = events \ {k}
  /\ UNCHANGED <<trips, request, sweep, update, answers, declined, announced,
                 requests>>

(* Time: a timestamp falls behind the cutoff of its query. *)
TimePasses(t) ==
  /\ t \in Rows
  /\ \/ trips[t].createdAt = "recent"
        /\ Write(t, [trips[t] EXCEPT !.createdAt = "old"])
     \/ trips[t].offerDeadline = "ahead"
        /\ Write(t, [trips[t] EXCEPT !.offerDeadline = "past"])
     \/ trips[t].acceptedAt = "recent"
        /\ Write(t, [trips[t] EXCEPT !.acceptedAt = "old"])
  /\ UNCHANGED <<request, sweep, update, events, answers, declined, announced,
                 requests, faults>>

-----------------------------------------------------------------------------
Passenger == \E t \in Trips : RequestTrip(t)

Serve(c) ==
  \E o \in Operation : WriteProgress(c, o) \/ WriteReject(c, o) \/ WriteCancel(c, o)

Sweep(s) ==
  \/ SelectStuck(s) \/ SelectExpired(s) \/ SelectAccepted(s) \/ SweepDone(s)
  \/ \E x \in TripDriver : CancelStuck(s, x) \/ RejectExpired(s, x) \/ CancelAccepted(s, x)

Apply(u) ==
  \E a \in TripDriver : AssignDriver(u, a) \/ AssignDeadline(u, a) \/ MatchFailed(u, a)

Dispatch ==
  \E k \in Event : DispatchForgets(k) \/ \E d \in AnyDriver : DispatchMatches(k, d)

Faults ==
  \/ \E c \in Callers : RequestFails(c)
  \/ \E s \in Sweepers : SweepCrash(s) \/ \E x \in TripDriver : SweepWriteFails(s, x)
  \/ \E u \in Updaters, a \in TripDriver : AnswerLost(u, a)
  \/ \E k \in Event : EventLost(k)

Next ==
  \/ Passenger
  \/ \E c \in Callers : Serve(c) \/ \E o \in Operation : ReadTrip(c, o)
  \/ \E s \in Sweepers : Sweep(s)
  \/ \E u \in Updaters : Apply(u)
  \/ Dispatch
  \/ Faults
  \/ \E t \in Trips : TimePasses(t)

Spec == Init /\ [][Next]_vars

\* Requests in flight finish, the ticker of the timeout worker keeps firing
\* and time passes.  Nobody has to call, answer or read the stream.
FairSpec ==
  /\ Spec
  /\ \A c \in Callers : WF_vars(Serve(c))
  /\ \A s \in Sweepers : WF_vars(Sweep(s))
  /\ \A t \in Trips : WF_vars(TimePasses(t))

-----------------------------------------------------------------------------
\* Every variable has its type.
TypeOK ==
  /\ Rows \subseteq Trips /\ trips \in [Rows -> Row]
  /\ request \in [Callers -> Operation \cup {NoOp}]
  /\ sweep \in [Sweepers -> [phase : Phases, todo : SUBSET TripDriver]]
  /\ update \in [Updaters -> SUBSET TripDriver]
  /\ events \subseteq Event
  /\ answers \subseteq TripDriver
  /\ declined \in [Trips -> SUBSET Drivers]
  /\ announced \subseteq Trips
  /\ requests \in 0 .. MaxRequests
  /\ faults \in 0 .. MaxFaults

\* An accepted trip has a driver, although the driver and the status are
\* written by five statements that look at neither and interleave freely.
AcceptedHasDriver ==
  \A t \in Rows : trips[t].status = "ACCEPTED" => trips[t].driver # NoDriver

\* No trip is cancelled behind the passenger's back: a Trip.Cancelled or a
\* Trip.MatchFailed of the trip is on its way, even where the update worker
\* cancels without an outbox row of its own.
NoSilentCancel ==
  \A t \in Rows : trips[t].status = "CANCELLED" => t \in announced

HasStatus(t, st) == t \in Rows /\ trips[t].status = st

\* A requested trip leaves REQUESTED, whatever happens to its events: the
\* 60 s check needs no answer from dispatch and no driver.
RequestedResolves ==
  \A t \in Trips :
    HasStatus(t, "REQUESTED") ~> ~HasStatus(t, "REQUESTED")

\* An accepted trip is started, rejected or cancelled in the end.
AcceptedResolves ==
  \A t \in Trips :
    HasStatus(t, "ACCEPTED") ~> ~HasStatus(t, "ACCEPTED")

\* README.md:44 "Domain-driven trip state machine (REQUESTED -> ACCEPTED ->
\* IN_PROGRESS -> COMPLETED)" and trip_test.go:54 "Cannot accept from
\* CANCELLED".
CancelledStaysCancelled ==
  [][\A t \in Rows : trips[t].status = "CANCELLED"
       => trips'[t].status = "CANCELLED"]_vars

-----------------------------------------------------------------------------
(***************************************************************************)
(* The inductive invariant.  Whatever is going to write ACCEPTED carries a *)
(* driver, and whatever is going to cancel without announcing it has been  *)
(* announced already.                                                      *)
(***************************************************************************)
\* An acceptance between its read and its write names its driver.
AcceptNamesDriver ==
  \A c \in Callers :
    request[c] # NoOp /\ request[c].op = "accept" => request[c].driver # NoDriver

\* A Trip.MatchFailed on its way back was published for its trip.
FailureAnnounced ==
  \A a \in answers : a.driver = NoDriver => a.trip \in announced

IInv == /\ TypeOK
        /\ AcceptNamesDriver
        /\ FailureAnnounced
        /\ AcceptedHasDriver
        /\ NoSilentCancel
=============================================================================
