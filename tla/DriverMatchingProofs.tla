------------------------ MODULE DriverMatchingProofs -------------------------
(***************************************************************************)
(* For any numbers of trips, drivers, replicas, faults and unoffered       *)
(* acceptances: no trip is offered again to a driver who rejected it,      *)
(* unless one of its events was interrupted or handled twice, or it was    *)
(* accepted unoffered.  With one replica and no fault, for any numbers of  *)
(* trips, drivers and unoffered acceptances: no driver whom only offers    *)
(* bind is promised to two open trips, and such a driver of an accepted    *)
(* trip is ON_TRIP.                                                        *)
(***************************************************************************)
EXTENDS DriverMatching, TLAPS

-----------------------------------------------------------------------------
(***************************************************************************)
(* The inductive invariant behind RejectedNotOfferedAgain.  While a trip   *)
(* is open and undisturbed one thing at most drives its search: a queued   *)
(* event, a replica, an answer or the offer.  So no replica reads the list *)
(* of a trip while a rejection of it waits to be recorded by another.      *)
(***************************************************************************)
Searching(k) == k.type \in {"Trip.Requested", "Trip.OfferRejected"}

Queued(t) ==
  {i \in DOMAIN stream : stream[i].trip = t /\ Searching(stream[i])}

Working(t) ==
  {c \in Busy : /\ task[c].event.trip = t /\ Searching(task[c].event)
                /\ task[c].step # "reserve"}

Answered(t) == {i \in DOMAIN answers : answers[i].trip = t}

Offered(t) == trips[t].driver # NoDriver

\* One search, at one stage.
OneSearch(t) ==
  /\ \A i, j \in Queued(t) : i = j
  /\ \A c, e \in Working(t) : c = e
  /\ \A i, j \in Answered(t) : i = j
  /\ Queued(t) # {} => Working(t) = {} /\ Answered(t) = {} /\ ~Offered(t)
  /\ Working(t) # {} => Answered(t) = {} /\ ~Offered(t)
  /\ Answered(t) # {} => ~Offered(t)

\* A committed rejection is in the list or on its way into it.
Remembered(t) ==
  \A d \in refused[t] :
    \/ d \in rejections[t]
    \/ \E i \in Queued(t) : stream[i].driver = d
    \/ \E c \in Working(t) : task[c].step = "record" /\ task[c].event.driver = d

\* The steps of MatchDriver after the rejection list was read.
Looking == {"probe", "fresh", "evict"}

\* No stage of the search holds a driver who rejected the trip.
Avoided(t) ==
  /\ \A c \in Working(t) : task[c].step \in Looking =>
       refused[t] \subseteq task[c].excluded /\ task[c].best \notin refused[t]
  /\ \A i \in Answered(t) : answers[i].driver \notin refused[t]
  /\ trips[t].driver \notin refused[t]

\* A cancelled trip is closed: its list is not deleted while it is open.
NotCancelled(t) == \A k \in InFlight : k.trip = t => k.type # "Trip.Cancelled"

\* A consumer is at a step of its event.
StepFits(x) ==
  /\ x.step \in {"search", "list", "reserve"} \cup Looking => Searching(x.event)
  /\ x.step = "record" => x.event.type = "Trip.OfferRejected"
  /\ x.step = "release" => x.event.type \in {"Trip.OfferRejected", "Trip.Cancelled"}
  /\ x.step = "confirm" => x.event.type = "Trip.Accepted"
  /\ x.step = "forget" => x.event.type = "Trip.Cancelled"
  /\ x.step \in {"fresh", "evict"} => x.left # <<>> /\ Head(x.left) \notin x.excluded
  /\ x.step = "reserve" => x.best # NoDriver
  /\ x.step \in {"record", "release", "search", "list", "forget"} => x.best = NoDriver

Fits == \A c \in Busy : StepFits(task[c])

\* An acceptance and a rejection name the driver, a request names none.
Named ==
  \A k \in InFlight :
    /\ k.type \in {"Trip.Accepted", "Trip.OfferRejected"} => k.driver # NoDriver
    /\ k.type = "Trip.Requested" => k.driver = NoDriver

\* Events and answers are about rows; an event to be handled again leaves a
\* mark.
Grounded ==
  /\ \A k \in InFlight : k.trip \in Rows
  /\ \A i \in DOMAIN answers : answers[i].trip \in Rows
  /\ \A t \in Trips \ Rows : refused[t] = {}
  /\ \A k \in pending : k.trip \in disturbed

\* The search of a trip is in order.
InSearch(t) == OneSearch(t) /\ Remembered(t) /\ Avoided(t)

OpenTrips ==
  /\ \A t \in Rows : IsOpen(t) => NotCancelled(t)
  /\ \A t \in Rows \ disturbed : IsOpen(t) => InSearch(t)

IInv == TypeOK /\ Fits /\ Named /\ Grounded /\ OpenTrips

-----------------------------------------------------------------------------
(***************************************************************************)
(* The inductive invariant behind NoDoubleBooking and                      *)
(* AcceptedDriverIsOnTrip, with one replica and no fault.  A driver whom   *)
(* only offers bind is engaged by a trip from the answer that names the    *)
(* driver to the last event that does, and is not free meanwhile.          *)
(***************************************************************************)
Regular == Drivers \ irregular

\* An event that names the driver has still to be applied to driver_status.
Naming == {"record", "release", "confirm", "forget"}

Concerned(t, d) ==
  \/ \E i \in DOMAIN stream : stream[i].trip = t /\ stream[i].driver = d
  \/ \E c \in Busy : /\ task[c].event.trip = t /\ task[c].event.driver = d
                     /\ task[c].step \in Naming

Engaged(t, d) == Promised(t, d) \/ Concerned(t, d)

OneEngagement ==
  \A d \in Regular, t, u \in Trips : Engaged(t, d) /\ Engaged(u, d) => t = u

ToReserve(d) == \E c \in Busy : task[c].step = "reserve" /\ task[c].best = d

EngagedIsNotFree ==
  \A d \in Regular, t \in Trips :
    Engaged(t, d) => status[d] # "free" \/ ToReserve(d)

\* A driver MatchDriver found is free until it is reserved, and so is the
\* candidate whose status it has just read.
FoundIsFree ==
  \A c \in Busy :
    /\ task[c].step \in Looking \cup {"reserve"} /\ task[c].best # NoDriver
         => status[task[c].best] = "free"
    /\ task[c].step = "fresh" => status[Candidate(c)] = "free"

\* One answer at most offers the open trip to the driver, and none does once
\* it is applied.
Offering(t, d) == {i \in DOMAIN answers : answers[i] = [trip |-> t, driver |-> d]}

OfferedOnce ==
  \A t \in Rows, d \in Regular :
    IsOpen(t) => /\ \A i, j \in Offering(t, d) : i = j
                 /\ trips[t].driver = d => Offering(t, d) = {}

\* A rejection or a cancellation that names a driver ends the promise, and no
\* later event of the trip names the driver.
Ends(k) == k.type \in {"Trip.OfferRejected", "Trip.Cancelled"}

Ending == {c \in Busy : /\ Ends(task[c].event)
                        /\ task[c].step \in {"record", "release", "forget"}}

NoPromise(k) == k.driver \in Regular => ~Promised(k.trip, k.driver)

Ended ==
  /\ \A i \in DOMAIN stream : Ends(stream[i]) => NoPromise(stream[i])
  /\ \A c \in Ending : NoPromise(task[c].event)

NotNamedAfter(k, m) ==
  m.trip = k.trip /\ k.driver \in Regular => m.driver # k.driver

LastWord ==
  /\ \A i, j \in DOMAIN stream :
       i < j /\ Ends(stream[i]) => NotNamedAfter(stream[i], stream[j])
  /\ \A c \in Ending, j \in DOMAIN stream : NotNamedAfter(task[c].event, stream[j])

\* The acceptance of trip t by driver d is confirmed, or waits to be.
AcceptanceOf(k, t, d) == k.type = "Trip.Accepted" /\ k.trip = t /\ k.driver = d

Confirms(t, d) ==
  \/ status[d] = "ON_TRIP"
  \/ \E i \in DOMAIN stream : AcceptanceOf(stream[i], t, d)
  \/ \E c \in Busy : task[c].step = "confirm" /\ AcceptanceOf(task[c].event, t, d)

AcceptanceApplied ==
  \A t \in Rows : trips[t].status \in {"ACCEPTED", "IN_PROGRESS"} =>
    /\ trips[t].driver # NoDriver
    /\ trips[t].driver \in Regular => Confirms(t, trips[t].driver)

\* One replica, and no fault.
OneReplica == MaxFaults = 0 /\ \A c, e \in Consumers : c = e

CalmInv ==
  /\ IInv
  /\ pending = {}
  /\ OneEngagement
  /\ EngagedIsNotFree
  /\ FoundIsFree
  /\ OfferedOnce
  /\ Ended
  /\ LastWord
  /\ AcceptanceApplied

-----------------------------------------------------------------------------
(* Sequences and rows. *)

LEMMA AppendSeq ==
  ASSUME NEW S, NEW s \in Seq(S), NEW x \in S
  PROVE  /\ Append(s, x) \in Seq(S)
         /\ DOMAIN Append(s, x) = DOMAIN s \cup {Len(s) + 1}
         /\ Len(s) + 1 \notin DOMAIN s
         /\ Append(s, x)[Len(s) + 1] = x
         /\ \A i \in DOMAIN s : Append(s, x)[i] = s[i] /\ i < Len(s) + 1 /\ i \in Nat
         /\ Len(s) \in Nat
OBVIOUS

LEMMA AppendIsInjective ==
  ASSUME NEW S, NEW s \in Seq(S), NEW x \in S, NEW y \in S, Append(s, x) = Append(s, y)
  PROVE  x = y
<1>1. Append(s, x)[Len(s) + 1] = x
  OBVIOUS
<1>2. Append(s, y)[Len(s) + 1] = y
  BY s \in Seq(S), y \in S, AppendSeq
<1>3. QED  BY <1>1, <1>2

LEMMA TailSeq ==
  ASSUME NEW S, NEW s \in Seq(S), s # <<>>
  PROVE  /\ Tail(s) \in Seq(S) /\ Head(s) \in S
         /\ Head(s) = s[1] /\ 1 \in DOMAIN s
         /\ \A i \in DOMAIN Tail(s) :
              i \in Nat /\ i + 1 \in DOMAIN s /\ i + 1 > 1 /\ Tail(s)[i] = s[i + 1]
         /\ \A i \in DOMAIN s : i # 1 => i - 1 \in DOMAIN Tail(s) /\ i > 1
         /\ DOMAIN s \subseteq Nat
OBVIOUS

\* A row stays a row, and this is what becomes of its status and driver.
LEMMA RowOps ==
  ASSUME NEW row \in Row, NEW d \in Drivers, NEW s \in Statuses
  PROVE  /\ SetAccepted(row, d) \in Row
         /\ SetAccepted(row, d).status = "ACCEPTED" /\ SetAccepted(row, d).driver = d
         /\ SetStatus(row, s) \in Row
         /\ SetStatus(row, s).status = s /\ SetStatus(row, s).driver = row.driver
         /\ SetRejected(row) \in Row
         /\ SetRejected(row).status = "REQUESTED" /\ SetRejected(row).driver = NoDriver
         /\ SetDriver(row, d) \in Row
         /\ SetDriver(row, d).status = row.status /\ SetDriver(row, d).driver = d
BY DEF Row, SetAccepted, SetStatus, SetRejected, SetDriver, Statuses

LEMMA NewRowType ==
  NewRow \in Row /\ NewRow.status = "REQUESTED" /\ NewRow.driver = NoDriver
BY DEF NewRow, Row, Statuses

\* A write touches one row.
LEMMA WriteRow ==
  ASSUME trips \in [Rows -> Row], NEW t \in Rows, NEW row \in Row, Write(t, row)
  PROVE  /\ Rows' = Rows /\ trips' \in [Rows -> Row] /\ trips'[t] = row
         /\ \A u \in Rows : u # t => trips'[u] = trips[u]
BY DEF Write, Rows

-----------------------------------------------------------------------------
(* What a step of ride-service does to a trip. *)

\* A step of ride-service.
RideStep == \E t \in Trips : Ride(t)

RowBecomes(t, s, d) ==
  /\ t \in Rows /\ Rows' = Rows /\ trips' \in [Rows -> Row]
  /\ trips'[t].status = s /\ trips'[t].driver = d
  /\ \A u \in Rows : u # t => trips'[u] = trips[u]

\* An event is added to the stream.
Appended(type, t, d) ==
  \E k \in Event : /\ k.type = type /\ k.trip = t /\ k.driver = d
                   /\ stream' = Append(stream, k)

Asks(t) ==
  /\ t \notin Rows /\ Rows' = Rows \cup {t} /\ trips' \in [Rows' -> Row]
  /\ trips'[t].status = "REQUESTED" /\ trips'[t].driver = NoDriver
  /\ \A u \in Rows : trips'[u] = trips[u]
  /\ Appended("Trip.Requested", t, NoDriver)
  /\ UNCHANGED refused /\ Offers

Accepts(t) ==
  /\ trips[t].status = "REQUESTED" /\ trips[t].driver \in Drivers
  /\ RowBecomes(t, "ACCEPTED", trips[t].driver)
  /\ Appended("Trip.Accepted", t, trips[t].driver)
  /\ UNCHANGED refused /\ Offers

\* A driver accepts a trip that was offered to none.
Volunteers(t, d) ==
  /\ trips[t].status = "REQUESTED" /\ trips[t].driver = NoDriver /\ d \in Drivers
  /\ RowBecomes(t, "ACCEPTED", d)
  /\ Appended("Trip.Accepted", t, d)
  /\ disturbed' = disturbed \cup {t}
  /\ irregular' = irregular \cup {d}
  /\ unoffered' \in 0 .. MaxUnoffered
  /\ UNCHANGED refused

Rejects(t) ==
  /\ trips[t].status \in {"REQUESTED", "ACCEPTED"} /\ trips[t].driver \in Drivers
  /\ RowBecomes(t, "REQUESTED", NoDriver)
  /\ Appended("Trip.OfferRejected", t, trips[t].driver)
  /\ refused'[t] = refused[t] \cup {trips[t].driver}
  /\ \A u \in Trips : u # t => refused'[u] = refused[u]
  /\ refused' \in [Trips -> SUBSET Drivers]
  /\ Offers

Closes(t) ==
  /\ IsOpen(t)
  /\ \E s \in {"CANCELLED", "COMPLETED"} : RowBecomes(t, s, trips[t].driver)
  /\ \/ UNCHANGED stream
     \/ \E d \in {NoDriver, trips[t].driver} : Appended("Trip.Cancelled", t, d)
     \/ Appended("Trip.Completed", t, NoDriver)
  /\ UNCHANGED refused /\ Offers

Starts(t) ==
  /\ trips[t].status = "ACCEPTED"
  /\ RowBecomes(t, "IN_PROGRESS", trips[t].driver)
  /\ UNCHANGED <<stream, refused>> /\ Offers

Operation(t) ==
  \/ Asks(t) \/ Accepts(t) \/ Rejects(t) \/ Closes(t) \/ Starts(t)
  \/ \E d \in Drivers : Volunteers(t, d)

LEMMA EmitType ==
  ASSUME NEW type \in Types, NEW t \in Trips, NEW d \in AnyDriver, Emit(type, t, d)
  PROVE  Appended(type, t, d)
<1> DEFINE i == CHOOSE i \in FreeIds : TRUE
           k == [id |-> i, type |-> type, trip |-> t, driver |-> d]
<1>1. i \in Ids /\ stream' = Append(stream, k)
  BY DEF Emit, FreeIds
<1> HIDE DEF i
<1>2. k \in Event /\ k.type = type /\ k.trip = t /\ k.driver = d
  BY <1>1 DEF Event
<1>3. QED  BY <1>1, <1>2 DEF Appended

LEMMA RideEffect ==
  ASSUME TypeOK, NEW t \in Trips, Ride(t)
  PROVE  RideOnly /\ Operation(t)
<1>1. trips \in [Rows -> Row]
  BY DEF TypeOK
<1>2. t \in Rows => trips[t] \in Row /\ trips[t].driver \in AnyDriver
  BY <1>1 DEF Row, AnyDriver
<1>3. ASSUME NEW type \in Types, NEW d \in AnyDriver, Emit(type, t, d)
      PROVE  Appended(type, t, d)
  BY <1>3, EmitType
<1>4. ASSUME t \in Rows, NEW row \in Row, Write(t, row)
      PROVE  RowBecomes(t, row.status, row.driver)
  BY <1>1, <1>4, WriteRow DEF RowBecomes
<1>5. CASE Request(t)
  <2>1. trips' = [x \in Rows \cup {t} |-> IF x = t THEN NewRow ELSE trips[x]]
        /\ t \notin Rows /\ UNCHANGED refused /\ Offers /\ RideOnly
        /\ Emit("Trip.Requested", t, NoDriver)
    BY <1>5 DEF Request
  <2>2. Appended("Trip.Requested", t, NoDriver)
    BY <1>3, <2>1 DEF Types, AnyDriver
  <2>3. Rows' = Rows \cup {t} /\ trips'[t] = NewRow /\ trips' \in [Rows' -> Row]
        /\ \A u \in Rows : trips'[u] = trips[u]
    BY <1>1, <2>1, NewRowType DEF Rows
  <2>4. QED  BY <2>1, <2>2, <2>3, NewRowType DEF Asks, Operation
<1>6. ASSUME NEW d \in Drivers, t \in Rows, Write(t, SetAccepted(trips[t], d))
      PROVE  RowBecomes(t, "ACCEPTED", d)
  <2> DEFINE row == SetAccepted(trips[t], d)
  <2>1. row \in Row /\ row.status = "ACCEPTED" /\ row.driver = d
    BY <1>2, <1>6 DEF SetAccepted, Row, Statuses
  <2>2. Write(t, row)
    BY <1>6
  <2> HIDE DEF row
  <2>3. RowBecomes(t, row.status, row.driver)
    BY <1>4, <1>6, <2>1, <2>2
  <2>4. QED  BY <2>1, <2>3
<1>7. CASE Accept(t)
  <2>1. t \in Rows /\ trips[t].driver \in Drivers /\ trips[t].status = "REQUESTED"
    BY <1>2, <1>7 DEF Accept, AnyDriver, MayAccept
  <2>2. RowBecomes(t, "ACCEPTED", trips[t].driver)
    BY <1>6, <1>7, <2>1 DEF Accept
  <2>3. Appended("Trip.Accepted", t, trips[t].driver)
    BY <1>2, <1>3, <1>7, <2>1 DEF Accept, Types
  <2>4. QED  BY <1>7, <2>1, <2>2, <2>3 DEF Accept, Accepts, Operation
<1>8. ASSUME NEW d \in Drivers, AcceptUnoffered(t, d) PROVE RideOnly /\ Volunteers(t, d)
  <2>1. /\ t \in Rows /\ trips[t].driver = NoDriver /\ trips[t].status = "REQUESTED"
        /\ disturbed' = disturbed \cup {t} /\ irregular' = irregular \cup {d}
        /\ UNCHANGED refused /\ RideOnly
    BY <1>8 DEF AcceptUnoffered, MayAccept
  <2>2. RowBecomes(t, "ACCEPTED", d)
    BY <1>6, <1>8, <2>1 DEF AcceptUnoffered
  <2>3. Appended("Trip.Accepted", t, d)
    BY <1>3, <1>8 DEF AcceptUnoffered, Types, AnyDriver
  <2>4. unoffered' \in 0 .. MaxUnoffered
    BY <1>8, UnofferedBound DEF AcceptUnoffered, TypeOK
  <2>5. QED  BY <2>1, <2>2, <2>3, <2>4 DEF Volunteers
<1>9. CASE Reject(t)
  <2>1. t \in Rows /\ trips[t].driver \in Drivers
        /\ trips[t].status \in {"REQUESTED", "ACCEPTED"}
    BY <1>2, <1>9 DEF Reject, AnyDriver, MayReject
  <2>2. RowBecomes(t, "REQUESTED", NoDriver)
    <3> DEFINE row == SetRejected(trips[t])
    <3>1. row \in Row /\ row.status = "REQUESTED" /\ row.driver = NoDriver
      BY <1>2, <2>1, RowOps DEF Statuses
    <3>2. Write(t, row)
      BY <1>9 DEF Reject
    <3> HIDE DEF row
    <3>3. RowBecomes(t, row.status, row.driver)
      BY <1>4, <2>1, <3>1, <3>2
    <3>4. QED  BY <3>1, <3>3
  <2>3. Appended("Trip.OfferRejected", t, trips[t].driver)
    BY <1>2, <1>3, <1>9, <2>1 DEF Reject, Types
  <2>4. /\ refused'[t] = refused[t] \cup {trips[t].driver}
        /\ \A u \in Trips : u # t => refused'[u] = refused[u]
        /\ refused' \in [Trips -> SUBSET Drivers]
    BY <1>9, <2>1 DEF Reject, TypeOK
  <2>5. QED  BY <1>9, <2>1, <2>2, <2>3, <2>4 DEF Reject, Rejects, Operation
<1>10. ASSUME t \in Rows, NEW s \in Statuses, Write(t, SetStatus(trips[t], s))
       PROVE  RowBecomes(t, s, trips[t].driver)
  <2> DEFINE row == SetStatus(trips[t], s)
  <2>1. row \in Row /\ row.status = s /\ row.driver = trips[t].driver
    BY <1>2, <1>10 DEF SetStatus, Row
  <2>2. Write(t, row)
    BY <1>10
  <2> HIDE DEF row
  <2>3. RowBecomes(t, row.status, row.driver)
    BY <1>4, <1>10, <2>1, <2>2
  <2>4. QED  BY <2>1, <2>3
<1>11. CASE Cancel(t)
  <2>1. t \in Rows /\ IsOpen(t)
    BY <1>11 DEF Cancel, MayCancel, IsOpen
  <2>2. RowBecomes(t, "CANCELLED", trips[t].driver)
    BY <1>10, <1>11, <2>1 DEF Cancel, Statuses
  <2>3. \E d \in {NoDriver, trips[t].driver} : Appended("Trip.Cancelled", t, d)
    BY <1>2, <1>3, <1>11, <2>1 DEF Cancel, Types, AnyDriver
  <2>4. QED  BY <1>11, <2>1, <2>2, <2>3 DEF Cancel, Closes, Operation
<1>12. CASE CancelStuck(t)
  <2>1. t \in Rows /\ IsOpen(t)
    BY <1>12 DEF CancelStuck, IsOpen
  <2>2. RowBecomes(t, "CANCELLED", trips[t].driver)
    BY <1>10, <1>12, <2>1 DEF CancelStuck, Statuses
  <2>3. QED  BY <1>12, <2>1, <2>2 DEF CancelStuck, Closes, Operation
<1>13. CASE Complete(t)
  <2>1. t \in Rows /\ IsOpen(t)
    BY <1>13 DEF Complete, MayComplete, IsOpen
  <2>2. RowBecomes(t, "COMPLETED", trips[t].driver)
    BY <1>10, <1>13, <2>1 DEF Complete, Statuses
  <2>3. Appended("Trip.Completed", t, NoDriver)
    BY <1>3, <1>13 DEF Complete, Types, AnyDriver
  <2>4. QED  BY <1>13, <2>1, <2>2, <2>3 DEF Complete, Closes, Operation
<1>14. CASE Start(t)
  <2>1. RowBecomes(t, "IN_PROGRESS", trips[t].driver)
    BY <1>10, <1>14 DEF Start, Statuses
  <2>2. QED  BY <1>14, <2>1 DEF Start, MayStart, Starts, Operation
<1>15. QED  BY <1>5, <1>7, <1>8, <1>9, <1>11, <1>12, <1>13, <1>14 DEF Ride, Operation

\* The update worker writes the driver, or cancels for want of one.
Applies(a) ==
  /\ a = Head(answers) /\ a \in Answer /\ answers # <<>> /\ answers' = Tail(answers)
  /\ IF a.driver = NoDriver THEN RowBecomes(a.trip, "CANCELLED", trips[a.trip].driver)
     ELSE /\ RowBecomes(a.trip, trips[a.trip].status, a.driver)
          /\ trips[a.trip].status \in {"ACCEPTED", "IN_PROGRESS"} => a.driver \in irregular'
  /\ irregular \subseteq irregular' /\ irregular' \subseteq irregular \cup ({a.driver} \ {NoDriver})
  /\ UNCHANGED <<stream, retries, pending, redis, task, refused, disturbed, abandoned,
                 unoffered, faults>>

LEMMA ApplyEffect ==
  ASSUME TypeOK, Grounded, ApplyAnswer
  PROVE  Applies(Head(answers))
<1> DEFINE a == Head(answers)
           row == IF a.driver # NoDriver THEN SetDriver(trips[a.trip], a.driver)
                  ELSE SetStatus(trips[a.trip], "CANCELLED")
<1>1. answers # <<>> /\ a \in Answer /\ a = answers[1] /\ 1 \in DOMAIN answers
  BY TailSeq DEF ApplyAnswer, TypeOK
<1>2. a.trip \in Rows /\ a.driver \in AnyDriver
  BY <1>1 DEF Grounded, Answer
<1>3. trips \in [Rows -> Row] /\ trips[a.trip] \in Row
  BY <1>2 DEF TypeOK
<1>4. Write(a.trip, row)
  BY DEF ApplyAnswer
<1>5. /\ row \in Row
      /\ a.driver # NoDriver => row.status = trips[a.trip].status /\ row.driver = a.driver
      /\ a.driver = NoDriver => row.status = "CANCELLED"
                                /\ row.driver = trips[a.trip].driver
  BY <1>2, <1>3 DEF AnyDriver, Row, SetDriver, SetStatus, Statuses
<1> HIDE DEF row
<1>6. RowBecomes(a.trip, row.status, row.driver)
  BY <1>2, <1>3, <1>4, <1>5, WriteRow DEF RowBecomes
<1>7. irregular' = irregular \cup
        (IF a.driver # NoDriver /\ trips[a.trip].status \in {"ACCEPTED", "IN_PROGRESS"}
         THEN {a.driver} ELSE {})
  BY DEF ApplyAnswer
<1>8. NoDriver \notin irregular
  BY NoDriverFresh DEF TypeOK
<1>9. QED  BY <1>1, <1>5, <1>6, <1>7, <1>8 DEF ApplyAnswer, Applies

-----------------------------------------------------------------------------
(* The steps, and what each kind leaves alone. *)

\* A step of drivers or time.
World ==
  \E d \in Drivers : Locate(d) \/ Heartbeat(d) \/ LastSeenExpires(d) \/ StatusExpires(d)

\* A step of a consumer within its event.
Within(c) ==
  \/ Record(c) \/ Release(c) \/ Search(c) \/ ReadRejections(c)
  \/ Skip(c) \/ LooksFree(c) \/ Keep(c) \/ FindStale(c) \/ Evict(c)
  \/ AnswerTrip(c) \/ Reserve(c) \/ Confirm(c) \/ ForgetRejections(c)

\* Neither trips nor events take part in the step.
Aside ==
  UNCHANGED <<trips, stream, pending, answers, rejections, task, refused, disturbed,
              irregular>>

\* What is common to everything that goes wrong: the event is dropped or kept,
\* the answer published or not, and the trip disturbed.
Astray(c) ==
  /\ task[c] # NoTask
  /\ Done(c) \/ UNCHANGED task
  /\ UNCHANGED answers \/ Publish(c)
  /\ pending' \subseteq pending \cup {task[c].event}
  /\ Disturb(c)
  /\ UNCHANGED <<trips, stream, redis, refused, irregular, unoffered>>

LEMMA NextCases ==
  ASSUME [Next]_vars
  PROVE  \/ RideStep \/ ApplyAnswer \/ LoseAnswer \/ World \/ UNCHANGED vars
         \/ \E c \in Consumers : \/ Take(c) \/ Within(c) \/ GoWrong(c)
                                 \/ \E k \in pending : Reclaim(c, k)
BY DEF Next, Handle, RideStep, World, Within

LEMMA WorldFrame == ASSUME World \/ UNCHANGED vars PROVE Aside
BY DEF World, Aside, Locate, Heartbeat, LastSeenExpires, StatusExpires, WorldOnly, RideIdle,
   vars

LEMMA AstrayEffect ==
  ASSUME TypeOK, NEW c \in Consumers, GoWrong(c)
  PROVE  /\ Astray(c)
         /\ retries' \in [Ids -> Nat] /\ faults' \in 0 .. MaxFaults
         /\ abandoned' \subseteq abandoned \cup {task[c].event.trip}
<1>1. CASE Interrupt(c)
  BY <1>1, MatchingFaults
     DEF Interrupt, Drop, Repend, Astray, Fault, TypeOK
<1>2. CASE HandledAgain(c)
  BY <1>2, MatchingFaults DEF HandledAgain, Repend, Astray, Fault, RideIdle, TypeOK, redis
<1>3. CASE AnswerRepeated(c)
  BY <1>3, MatchingFaults
     DEF AnswerRepeated, Searched, At, Astray, Fault, RideIdle, TypeOK, redis
<1>4. ASSUME NEW n \in 1 .. MaxFaults,
             FailAgain(c, n) \/ Quarantine(c, n) \/ QuarantineFails(c, n)
      PROVE  /\ Astray(c)
             /\ retries' \in [Ids -> Nat] /\ faults' \in 0 .. MaxFaults
             /\ abandoned' \subseteq abandoned \cup {task[c].event.trip}
  <2>1. n \in Nat /\ faults \in Nat /\ retries \in [Ids -> Nat]
    BY MatchingFaults DEF TypeOK
  <2>2. task[c] # NoTask
    BY <1>4 DEF FailAgain, Quarantine, QuarantineFails, Fallible, Searched, At
  <2>3. Astray(c)
    BY <1>4, <2>2
       DEF FailAgain, Quarantine, QuarantineFails, Drop, Repend, Astray, TypeOK
  <2>4. retries' \in [Ids -> Nat]
    BY <1>4, <2>1 DEF FailAgain, Quarantine, QuarantineFails
  <2>5. faults' \in 0 .. MaxFaults
    BY <1>4, <2>1, MatchingFaults DEF FailAgain, Quarantine, QuarantineFails
  <2>6. abandoned' \subseteq abandoned \cup {task[c].event.trip}
    BY <1>4 DEF FailAgain, Quarantine, QuarantineFails, Repend, Drop
  <2>7. QED  BY <2>3, <2>4, <2>5, <2>6
<1>5. QED  BY <1>1, <1>2, <1>3, <1>4 DEF GoWrong

LEMMA WithinFrame ==
  ASSUME NEW c \in Consumers, Within(c)
  PROVE  /\ task[c] # NoTask
         /\ UNCHANGED <<trips, stream, pending, refused, irregular, abandoned, unoffered>>
         /\ \/ UNCHANGED answers
            \/ AnswerTrip(c) /\ Publish(c)
         /\ \/ disturbed' = disturbed
            \/ Fault /\ disturbed' = disturbed \cup {task[c].event.trip}
         /\ Fault \/ UNCHANGED faults
         /\ \/ UNCHANGED retries
            \/ retries' = [retries EXCEPT ![task[c].event.id] = 0]
<1> USE DEF At, Calm, Inside, RedisOnly, RideIdle, Disturb
<1>1. CASE Record(c) \/ Search(c) \/ ReadRejections(c)
  BY <1>1 DEF Record, Search, ReadRejections
<1>2. CASE Skip(c) \/ LooksFree(c)
  BY <1>2 DEF Skip, LooksFree
<1>3. CASE Keep(c) \/ FindStale(c) \/ Evict(c)
  BY <1>3 DEF Keep, FindStale, Evict
<1>4. CASE Release(c) \/ Reserve(c)
  BY <1>4 DEF Release, Reserve, Finish
<1>5. CASE Confirm(c) \/ ForgetRejections(c)
  BY <1>5 DEF Confirm, ForgetRejections, Finish
<1>6. CASE AnswerTrip(c)
  BY <1>6 DEF AnswerTrip, Searched, Finish
<1>7. QED  BY <1>1, <1>2, <1>3, <1>4, <1>5, <1>6 DEF Within

\* The steps of an event, by the step the consumer is at.
LEMMA WithinAt ==
  ASSUME NEW c \in Consumers, Within(c)
  PROVE  \/ task[c].step = "record"  /\ Record(c)
         \/ task[c].step = "release" /\ Release(c)
         \/ task[c].step = "search"  /\ Search(c)
         \/ task[c].step = "list"    /\ ReadRejections(c)
         \/ task[c].step = "probe"   /\ (Skip(c) \/ LooksFree(c) \/ AnswerTrip(c))
         \/ task[c].step = "fresh"   /\ (Keep(c) \/ FindStale(c))
         \/ task[c].step = "evict"   /\ Evict(c)
         \/ task[c].step = "reserve" /\ Reserve(c)
         \/ task[c].step = "confirm" /\ Confirm(c)
         \/ task[c].step = "forget"  /\ ForgetRejections(c)
<1>1. CASE Record(c) \/ Release(c) \/ Search(c) \/ ReadRejections(c)
  BY <1>1 DEF Record, Release, Search, ReadRejections, At
<1>2. CASE Skip(c) \/ LooksFree(c) \/ AnswerTrip(c)
  BY <1>2 DEF Skip, LooksFree, AnswerTrip, Searched, At
<1>3. CASE Keep(c) \/ FindStale(c) \/ Evict(c)
  BY <1>3 DEF Keep, FindStale, Evict, At
<1>4. CASE Reserve(c) \/ Confirm(c) \/ ForgetRejections(c)
  BY <1>4 DEF Reserve, Confirm, ForgetRejections, At
<1>5. QED  BY <1>1, <1>2, <1>3, <1>4 DEF Within

-----------------------------------------------------------------------------
(* Type correctness. *)

\* What the consumers hold.
LEMMA TaskTypes ==
  ASSUME TypeOK, Fits, NEW c \in Consumers, task[c] # NoTask
  PROVE  /\ task[c] \in Task /\ StepFits(task[c])
         /\ task[c].event \in Event /\ task[c].event.trip \in Trips
         /\ task[c].event.driver \in AnyDriver /\ task[c].event.type \in Types
         /\ task[c].event.id \in Ids
         /\ task[c].left \in Seq(Drivers) /\ task[c].excluded \subseteq Drivers
         /\ task[c].best \in AnyDriver /\ task[c].step \in Steps
         /\ Busy \subseteq Consumers /\ c \in Busy /\ task[c].event \in InFlight
BY DEF TypeOK, Fits, Task, Event, Busy, InFlight

LEMMA FaultType == ASSUME TypeOK, Fault \/ UNCHANGED faults PROVE faults' \in 0 .. MaxFaults
BY MatchingFaults DEF TypeOK, Fault

LEMMA AppendedType ==
  ASSUME TypeOK, NEW type, NEW t, NEW d, Appended(type, t, d)
  PROVE  stream' \in Seq(Event)
BY AppendSeq DEF TypeOK, Appended

LEMMA RideType ==
  ASSUME TypeOK, RideStep
  PROVE  TypeOK'
<1>1. PICK t \in Trips : RideOnly /\ Operation(t)
  BY RideEffect DEF RideStep
<1>2. stream' \in Seq(Event)
  <2>1. UNCHANGED stream \/ \E type, d : Appended(type, t, d)
    BY <1>1 DEF Operation, Asks, Accepts, Volunteers, Rejects, Closes, Starts
  <2>2. QED  BY <2>1, AppendedType DEF TypeOK
<1>3. Rows' \subseteq Trips /\ trips' \in [Rows' -> Row]
  BY <1>1 DEF Operation, Asks, Accepts, Volunteers, Rejects, Closes, Starts, RowBecomes,
     TypeOK
<1>4. refused' \in [Trips -> SUBSET Drivers]
  BY <1>1 DEF Operation, Asks, Accepts, Volunteers, Rejects, Closes, Starts, TypeOK
<1>5. /\ disturbed' \subseteq Trips /\ irregular' \subseteq Drivers
      /\ unoffered' \in 0 .. MaxUnoffered
  BY <1>1 DEF Operation, Asks, Accepts, Volunteers, Rejects, Closes, Starts, Offers, TypeOK
<1>6. QED  BY <1>1, <1>2, <1>3, <1>4, <1>5 DEF TypeOK, RideOnly, redis, Task

LEMMA WorldType ==
  ASSUME TypeOK, World
  PROVE  TypeOK'
<1>1. faults' \in 0 .. MaxFaults
  BY FaultType DEF World, Locate, Heartbeat, LastSeenExpires, StatusExpires
<1>2. /\ status' \in [Drivers -> {"free", "ON_OFFER", "ON_TRIP"}]
      /\ index' \subseteq Drivers /\ seen' \subseteq Drivers
  BY DEF TypeOK, World, Locate, Heartbeat, LastSeenExpires, StatusExpires
<1>3. UNCHANGED <<retries, abandoned, unoffered>>
  BY DEF World, Locate, Heartbeat, LastSeenExpires, StatusExpires, WorldOnly, RideIdle
<1>4. Aside
  BY WorldFrame
<1>5. QED  BY <1>1, <1>2, <1>3, <1>4 DEF TypeOK, Aside, Rows, Task

LEMMA ApplyType ==
  ASSUME TypeOK, Grounded, ApplyAnswer
  PROVE  TypeOK'
<1> DEFINE a == Head(answers)
<1>1. Applies(a)
  BY ApplyEffect
<1>2. answers' \in Seq(Answer)
  BY <1>1, TailSeq DEF Applies, TypeOK
<1>3. Rows' = Rows /\ trips' \in [Rows -> Row]
  BY <1>1 DEF Applies, RowBecomes
<1>4. irregular' \subseteq Drivers
  BY <1>1 DEF Applies, Answer, AnyDriver, TypeOK
<1>5. QED  BY <1>1, <1>2, <1>3, <1>4 DEF Applies, TypeOK, redis, Task

LEMMA LoseType ==
  ASSUME TypeOK, LoseAnswer
  PROVE  /\ TypeOK'
         /\ answers # <<>> /\ answers' = Tail(answers)
         /\ UNCHANGED <<trips, stream, pending, redis, task, refused, disturbed, irregular>>
<1>1. /\ answers # <<>> /\ answers' = Tail(answers)
      /\ abandoned' = abandoned \cup {Head(answers).trip}
      /\ UNCHANGED <<trips, stream, retries, pending, redis, task, refused, disturbed,
                     irregular, unoffered>>
  BY DEF LoseAnswer
<1>2. Head(answers).trip \in Trips /\ answers' \in Seq(Answer)
  <2>1. Head(answers) \in Answer /\ answers' \in Seq(Answer)
    BY <1>1, TailSeq DEF TypeOK
  <2>2. QED  BY <2>1 DEF Answer
<1>3. faults' \in 0 .. MaxFaults
  BY FaultType DEF LoseAnswer
<1>4. QED  BY <1>1, <1>2, <1>3 DEF TypeOK, redis, Rows, Task

\* The tasks of the others.
OthersStay(c) ==
  /\ task' \in [Consumers -> Task \cup {NoTask}]
  /\ \A e \in Consumers : e # c => task'[e] = task[e]

\* The task a consumer begins.
LEMMA BeginTask ==
  ASSUME TypeOK, NEW c \in Consumers, NEW k \in Event, Begin(c, k)
  PROVE  /\ OthersStay(c)
         /\ task'[c] # NoTask =>
              /\ task'[c] \in Task /\ StepFits(task'[c]) /\ task'[c].event = k
              /\ k.type # "Trip.Completed"
              /\ task'[c].step =
                   CASE k.type = "Trip.Requested"     -> "search"
                     [] k.type = "Trip.OfferRejected" -> "record"
                     [] k.type = "Trip.Accepted"      -> "confirm"
                     [] k.type = "Trip.Cancelled"     -> "forget"
         /\ task'[c] = NoTask => k.type = "Trip.Completed"
<1>1. CASE k.type = "Trip.Completed"
  BY <1>1 DEF Begin, TypeOK, OthersStay
<1>2. CASE k.type # "Trip.Completed"
  <2> DEFINE x == [event |-> k, step |-> FirstStep(k.type), left |-> <<>>,
                   excluded |-> {}, best |-> NoDriver]
  <2>1. task' = [task EXCEPT ![c] = x]
    BY <1>2 DEF Begin
  <2>2. k.type \in Types
    BY DEF Event
  <2>3. FirstStep(k.type) \in Steps
    BY <1>2, <2>2 DEF FirstStep, Types, Steps
  <2>4. x \in Task
    BY <2>3 DEF Task, AnyDriver
  <2>5. StepFits(x)
    BY <1>2, <2>2 DEF StepFits, FirstStep, Types, Searching, Looking
  <2>6. task'[c] = x /\ x # NoTask /\ x.event = k /\ x.step = FirstStep(k.type)
    BY <2>1, <2>4, NoTaskFresh DEF TypeOK
  <2>7. task' \in [Consumers -> Task \cup {NoTask}]
    BY <2>1, <2>4 DEF TypeOK
  <2>8. \A e \in Consumers : e # c => task'[e] = task[e]
    BY <2>1 DEF TypeOK
  <2> HIDE DEF x
  <2>9. QED  BY <1>2, <2>4, <2>5, <2>6, <2>7, <2>8 DEF FirstStep, OthersStay
<1>3. QED  BY <1>1, <1>2

\* A consumer goes on to another step of its event, or is done with it.
MovesTo(c, s) ==
  /\ task'[c] \in Task /\ task'[c].step = s
  /\ task'[c].event = task[c].event
  /\ task'[c].excluded = task[c].excluded /\ task'[c].best = task[c].best

LEMMA GotoTask ==
  ASSUME TypeOK, NEW c \in Consumers, task[c] # NoTask, NEW s \in Steps, Goto(c, s)
  PROVE  MovesTo(c, s) /\ OthersStay(c) /\ task'[c].left = task[c].left
<1>1. task[c] \in Task
  BY DEF TypeOK
<1>2. task' = [task EXCEPT ![c] = [task[c] EXCEPT !.step = s]]
  BY DEF Goto, TypeOK
<1>3. [task[c] EXCEPT !.step = s] \in Task
  BY <1>1 DEF Task
<1>4. QED  BY <1>1, <1>2, <1>3 DEF MovesTo, OthersStay, TypeOK, Task

LEMMA DoneTask ==
  ASSUME TypeOK, NEW c \in Consumers, Done(c)
  PROVE  OthersStay(c) /\ task'[c] = NoTask
BY DEF TypeOK, Done, OthersStay

LEMMA PassTask ==
  ASSUME TypeOK, NEW c \in Consumers, task[c] # NoTask, task[c].left # <<>>, Pass(c)
  PROVE  MovesTo(c, "probe") /\ OthersStay(c)
<1>1. task[c] \in Task /\ Tail(task[c].left) \in Seq(Drivers)
  BY TailSeq DEF TypeOK, Task
<1>2. task' = [task EXCEPT ![c] = [task[c] EXCEPT !.step = "probe", !.left = Tail(@)]]
  BY DEF Pass, TypeOK
<1>3. [task[c] EXCEPT !.step = "probe", !.left = Tail(@)] \in Task
  BY <1>1 DEF Task, Steps
<1>4. QED  BY <1>1, <1>2, <1>3 DEF MovesTo, OthersStay, TypeOK, Task

\* MatchDriver has found its first fresh candidate, or goes on.
LEMMA KeepTask ==
  ASSUME TypeOK, Fits, NEW c \in Consumers, Keep(c)
  PROVE  /\ OthersStay(c) /\ task'[c] \in Task /\ task'[c].step = "probe"
         /\ task'[c].event = task[c].event
         /\ task'[c].excluded = task[c].excluded
         /\ task'[c].best \in {task[c].best, Candidate(c)}
         /\ task[c].best # NoDriver => task'[c].best = task[c].best
         /\ Candidate(c) \in Drivers /\ Candidate(c) \notin task[c].excluded
<1>1. /\ task[c] # NoTask /\ task[c].step = "fresh"
      /\ task[c] \in Task /\ StepFits(task[c])
  BY TaskTypes DEF Keep, At
<1>2. /\ Tail(task[c].left) \in Seq(Drivers)
      /\ Candidate(c) \in Drivers /\ Candidate(c) \notin task[c].excluded
  BY <1>1, TailSeq DEF StepFits, Candidate, Task
<1> DEFINE b == IF task[c].best = NoDriver THEN Candidate(c) ELSE task[c].best
<1>3. task' = [task EXCEPT ![c] = [task[c] EXCEPT !.step = "probe", !.left = Tail(@),
                                                  !.best = b]]
  BY DEF Keep, TypeOK
<1>4. b \in AnyDriver
  BY <1>1, <1>2 DEF AnyDriver, Task
<1> HIDE DEF b
<1>5. [task[c] EXCEPT !.step = "probe", !.left = Tail(@), !.best = b] \in Task
  BY <1>1, <1>2, <1>4 DEF Task, Steps
<1>6. /\ task'[c] = [task[c] EXCEPT !.step = "probe", !.left = Tail(@), !.best = b]
      /\ OthersStay(c)
  BY <1>3, <1>5 DEF OthersStay, TypeOK
<1>7. QED  BY <1>1, <1>2, <1>5, <1>6 DEF b, Task

\* MatchDriver has read the index.
LEMMA SearchTask ==
  ASSUME TypeOK, Fits, NEW c \in Consumers, Search(c)
  PROVE  /\ OthersStay(c) /\ task'[c] \in Task /\ task'[c].step = "list"
         /\ task'[c].event = task[c].event /\ task'[c].best = task[c].best
<1> DEFINE t == task[c].event.trip
           x == [task[c] EXCEPT !.step = "list", !.left = Nearness[t],
                                !.excluded = Drivers \ index]
<1>1. task[c] \in Task /\ t \in Trips
  BY TaskTypes DEF Search, At
<1>2. task' = [task EXCEPT ![c] = x]
  BY <1>1 DEF Search, TypeOK
<1>3. x \in Task
  <2>1. Drivers \ index \subseteq Drivers /\ Nearness[t] \in Seq(Drivers)
    BY <1>1, NearnessSeqs
  <2> HIDE DEF t
  <2>2. QED  BY <1>1, <2>1 DEF Task, Steps
<1>4. x.step = "list" /\ x.event = task[c].event /\ x.best = task[c].best
  BY <1>1 DEF Task
<1> HIDE DEF x
<1>5. QED  BY <1>2, <1>3, <1>4 DEF OthersStay, TypeOK

\* MatchDriver has read, but for an error, the rejection list.
LEMMA ListTask ==
  ASSUME TypeOK, Fits, NEW c \in Consumers, ReadRejections(c)
  PROVE  /\ OthersStay(c) /\ task'[c] \in Task /\ task'[c].step = "probe"
         /\ task'[c].event = task[c].event /\ task'[c].best = task[c].best
         /\ \/ Calm /\ rejections[task[c].event.trip] \subseteq task'[c].excluded
            \/ Fault /\ disturbed' = disturbed \cup {task[c].event.trip}
<1> DEFINE t == task[c].event.trip
           x(r) == [task[c] EXCEPT !.step = "probe", !.excluded = @ \cup r]
<1>1. task[c] \in Task /\ t \in Trips /\ rejections[t] \subseteq Drivers
  BY TaskTypes DEF ReadRejections, At, TypeOK
<1>2. PICK r \in {rejections[t], {}} :
        /\ task' = [task EXCEPT ![c].step = "probe", ![c].excluded = @ \cup r]
        /\ \/ Calm /\ r = rejections[t]
           \/ Fault /\ disturbed' = disturbed \cup {t}
  BY DEF ReadRejections, Disturb
<1>3. task' = [task EXCEPT ![c] = x(r)]
  BY <1>1, <1>2 DEF TypeOK
<1>4. r \subseteq Drivers
  BY <1>1, <1>2
<1>5. x(r) \in Task
  BY <1>1, <1>4 DEF Task, Steps
<1>6. /\ x(r).step = "probe" /\ x(r).event = task[c].event /\ x(r).best = task[c].best
      /\ x(r).excluded = task[c].excluded \cup r
  BY <1>1 DEF Task
<1> HIDE DEF x
<1>7. OthersStay(c) /\ task'[c] = x(r)
  BY <1>3, <1>5 DEF OthersStay, TypeOK
<1>8. r = rejections[t] => rejections[t] \subseteq task'[c].excluded
  BY <1>6, <1>7
<1>9. QED  BY <1>2, <1>5, <1>6, <1>7, <1>8

\* What a step inside an event does to the tasks.
LEMMA WithinTask ==
  ASSUME TypeOK, Fits, NEW c \in Consumers, Within(c)
  PROVE  /\ OthersStay(c)
         /\ task'[c] # NoTask =>
              /\ task'[c] \in Task /\ StepFits(task'[c])
              /\ task'[c].event = task[c].event
<1>1. task[c] # NoTask
  BY WithinFrame
<1>2. StepFits(task[c]) /\ task[c] \in Task
  BY <1>1, TaskTypes
<1>3. CASE Record(c) \/ Release(c) \/ LooksFree(c) \/ FindStale(c) \/ AnswerTrip(c)
           \/ Reserve(c) \/ Confirm(c) \/ ForgetRejections(c)
  <2>1. \/ Done(c)
        \/ Record(c) /\ Goto(c, "release")
        \/ Release(c) /\ task[c].event.type = "Trip.OfferRejected" /\ Goto(c, "search")
        \/ LooksFree(c) /\ Goto(c, "fresh")
        \/ FindStale(c) /\ Goto(c, "evict")
        \/ AnswerTrip(c) /\ task[c].best # NoDriver /\ Goto(c, "reserve")
        \/ ForgetRejections(c) /\ Goto(c, "release")
    BY <1>3 DEF Record, Release, LooksFree, FindStale, AnswerTrip, Reserve, Confirm,
       ForgetRejections, Finish
  <2>2. CASE Done(c)
    BY <1>1, <2>2, DoneTask
  <2>3. CASE ~Done(c)
    <3>1. \E s \in Steps : Goto(c, s)
      BY <2>1, <2>3 DEF Steps
    <3>2. \E s \in Steps : MovesTo(c, s) /\ OthersStay(c) /\ task'[c].left = task[c].left
                           /\ Goto(c, s)
      BY <1>1, <3>1, GotoTask
    <3>3. \A s \in Steps : Goto(c, s) => MovesTo(c, s)
      BY <1>1, GotoTask
    <3>4. /\ task'[c] \in Task /\ task'[c].event = task[c].event /\ OthersStay(c)
          /\ task'[c].left = task[c].left /\ task'[c].best = task[c].best
          /\ task'[c].excluded = task[c].excluded
      BY <3>2 DEF MovesTo
    <3>5. \/ /\ task[c].step = "record" /\ task'[c].step = "release"
          \/ /\ task[c].step = "release" /\ task'[c].step = "search"
             /\ task[c].event.type = "Trip.OfferRejected"
          \/ /\ task[c].step = "probe" /\ task'[c].step = "fresh"
             /\ task[c].left # <<>> /\ Head(task[c].left) \notin task[c].excluded
          \/ /\ task[c].step = "fresh" /\ task'[c].step = "evict"
          \/ /\ task[c].step = "probe" /\ task'[c].step = "reserve"
             /\ task[c].best # NoDriver
          \/ /\ task[c].step = "forget" /\ task'[c].step = "release"
      BY <2>1, <2>3, <3>3 DEF MovesTo, Steps, Record, Release, LooksFree, FindStale,
         AnswerTrip, Searched, ForgetRejections, At, Candidate
    <3>6. StepFits(task'[c])
      BY <1>2, <3>4, <3>5 DEF StepFits, Searching, Looking
    <3>7. QED  BY <3>4, <3>6
  <2>4. QED  BY <2>2, <2>3
<1>4. CASE Search(c)
  BY <1>1, <1>2, <1>4, SearchTask DEF StepFits, Searching, Looking, Search, At
<1>5. CASE ReadRejections(c)
  BY <1>1, <1>2, <1>5, ListTask DEF StepFits, Searching, Looking, ReadRejections, At
<1>6. CASE Skip(c)
  BY <1>1, <1>2, <1>6, PassTask DEF Skip, At, MovesTo, StepFits, Searching, Looking
<1>7. CASE Keep(c)
  BY <1>1, <1>2, <1>7, KeepTask DEF StepFits, Searching, Looking, Keep, At
<1>8. CASE Evict(c)
  BY <1>1, <1>2, <1>8, PassTask DEF MovesTo, StepFits, Searching, Looking, Evict, At
<1>9. QED  BY <1>3, <1>4, <1>5, <1>6, <1>7, <1>8 DEF Within

LEMMA PublishType ==
  ASSUME TypeOK, Fits, NEW c \in Consumers, task[c] # NoTask, Publish(c)
  PROVE  /\ [trip |-> task[c].event.trip, driver |-> task[c].best] \in Answer
         /\ answers' \in Seq(Answer)
BY TaskTypes, AppendSeq DEF Publish, TypeOK, Answer

LEMMA WithinRedis ==
  ASSUME TypeOK, Fits, Named, NEW c \in Consumers, Within(c)
  PROVE  /\ status' \in [Drivers -> {"free", "ON_OFFER", "ON_TRIP"}]
         /\ index' \subseteq Drivers /\ UNCHANGED seen
         /\ rejections' \in [Trips -> SUBSET Drivers]
<1>1. task[c] # NoTask
  BY WithinFrame
<1>2. CASE Record(c)
  <2>1. task[c].event.driver \in Drivers \/ task[c].event.driver = NoDriver
    BY <1>1, TaskTypes DEF AnyDriver
  <2>2. task[c].event.type = "Trip.OfferRejected" /\ task[c].event \in InFlight
    BY <1>1, <1>2, TaskTypes DEF Record, At, StepFits
  <2>3. task[c].event.driver \in Drivers /\ task[c].event.trip \in Trips
    BY <1>1, <2>1, <2>2, TaskTypes DEF Named
  <2>4. QED  BY <1>2, <2>3 DEF Record, TypeOK
<1>3. CASE Evict(c)
  BY <1>3 DEF Evict, TypeOK
<1>4. CASE ~Record(c) /\ ~Evict(c)
  <2>1. UNCHANGED <<index, seen>>
    BY <1>4 DEF Within, Release, Search, ReadRejections, Skip, LooksFree, Keep, FindStale,
       AnswerTrip, Reserve, Confirm, ForgetRejections, redis
  <2>2. status' \in [Drivers -> {"free", "ON_OFFER", "ON_TRIP"}]
    BY <1>4 DEF Within, Release, Search, ReadRejections, Skip, LooksFree, Keep, FindStale,
       AnswerTrip, Reserve, Confirm, ForgetRejections, SetDriverStatus, redis, TypeOK
  <2>3. rejections' \in [Trips -> SUBSET Drivers]
    BY <1>4 DEF Within, Release, Search, ReadRejections, Skip, LooksFree, Keep, FindStale,
       AnswerTrip, Reserve, Confirm, ForgetRejections, redis, TypeOK
  <2>4. QED  BY <2>1, <2>2, <2>3 DEF TypeOK
<1>5. QED  BY <1>2, <1>3, <1>4

LEMMA WithinType ==
  ASSUME TypeOK, Fits, Named, NEW c \in Consumers, Within(c)
  PROVE  TypeOK'
<1>1. task[c] # NoTask /\ task' \in [Consumers -> Task \cup {NoTask}]
  BY WithinFrame, WithinTask DEF OthersStay
<1>2. answers' \in Seq(Answer)
  BY <1>1, WithinFrame, PublishType DEF TypeOK
<1>3. disturbed' \subseteq Trips
  <2>1. task[c].event.trip \in Trips
    BY <1>1, TaskTypes
  <2>2. disturbed' = disturbed \/ disturbed' = disturbed \cup {task[c].event.trip}
    BY WithinFrame
  <2>3. QED  BY <2>1, <2>2 DEF TypeOK
<1>4. UNCHANGED <<trips, stream, pending, refused, irregular, abandoned, unoffered>>
  BY WithinFrame
<1>5. faults' \in 0 .. MaxFaults /\ retries' \in [Ids -> Nat]
  <2>1. Fault \/ UNCHANGED faults
    BY WithinFrame
  <2>2. UNCHANGED retries \/ retries' = [retries EXCEPT ![task[c].event.id] = 0]
    BY WithinFrame
  <2>3. QED  BY <2>1, <2>2, FaultType DEF TypeOK
<1>6. QED  BY <1>1, <1>2, <1>3, <1>4, <1>5, WithinRedis DEF TypeOK, Rows, Task

LEMMA TakeType ==
  ASSUME TypeOK, NEW c \in Consumers, Take(c)
  PROVE  /\ TypeOK' /\ Head(stream) \in Event /\ Begin(c, Head(stream))
         /\ stream \in Seq(Event) /\ stream # <<>> /\ stream' = Tail(stream)
         /\ task[c] = NoTask
         /\ UNCHANGED <<trips, pending, answers, redis, refused, disturbed, irregular>>
<1>1. /\ Head(stream) \in Event /\ Begin(c, Head(stream)) /\ stream' = Tail(stream)
      /\ stream' \in Seq(Event) /\ task[c] = NoTask
  BY TailSeq DEF Take, TypeOK
<1>2. task' \in [Consumers -> Task \cup {NoTask}]
  BY <1>1, BeginTask DEF OthersStay
<1>3. QED  BY <1>1, <1>2 DEF Take, TypeOK, Rows, Task, redis, Calm

LEMMA ReclaimType ==
  ASSUME TypeOK, NEW c \in Consumers, NEW k \in pending, Reclaim(c, k)
  PROVE  /\ TypeOK' /\ k \in Event /\ Begin(c, k) /\ task[c] = NoTask
         /\ pending' \subseteq pending
         /\ UNCHANGED <<trips, stream, answers, redis, refused, disturbed, irregular>>
<1>1. k \in Event /\ task' \in [Consumers -> Task \cup {NoTask}]
  BY BeginTask DEF Reclaim, OthersStay, TypeOK
<1>2. QED  BY <1>1 DEF Reclaim, TypeOK, Rows, Task, redis, Calm, RideIdle

LEMMA AstrayTask ==
  ASSUME TypeOK, Fits, NEW c \in Consumers, Astray(c)
  PROVE  /\ OthersStay(c) /\ task'[c] \in {task[c], NoTask}
         /\ task[c].event \in Event /\ task[c].event.trip \in Trips
         /\ task[c].event \in InFlight
         /\ answers' \in Seq(Answer)
<1>1. /\ task[c] # NoTask /\ task[c].event \in Event /\ task[c].event.trip \in Trips
      /\ task[c].event \in InFlight
  BY TaskTypes DEF Astray
<1>2. answers' \in Seq(Answer)
  BY <1>1, PublishType DEF Astray, TypeOK
<1>3. OthersStay(c) /\ task'[c] \in {task[c], NoTask}
  BY DoneTask DEF Astray, OthersStay, TypeOK
<1>4. QED  BY <1>1, <1>2, <1>3

LEMMA AstrayType ==
  ASSUME TypeOK, Fits, NEW c \in Consumers, GoWrong(c)
  PROVE  TypeOK'
<1>1. /\ Astray(c) /\ retries' \in [Ids -> Nat] /\ faults' \in 0 .. MaxFaults
      /\ abandoned' \subseteq abandoned \cup {task[c].event.trip}
  BY AstrayEffect
<1>2. /\ OthersStay(c) /\ task[c].event \in Event /\ task[c].event.trip \in Trips
      /\ answers' \in Seq(Answer)
  BY <1>1, AstrayTask
<1>3. task' \in [Consumers -> Task \cup {NoTask}]
  BY <1>2 DEF OthersStay
<1>4. /\ pending' \subseteq Event /\ disturbed' \subseteq Trips /\ abandoned' \subseteq Trips
      /\ UNCHANGED <<trips, stream, redis, refused, irregular, unoffered>>
  BY <1>1, <1>2 DEF Astray, Disturb, TypeOK
<1>5. QED  BY <1>1, <1>2, <1>3, <1>4 DEF TypeOK, Rows, Task, redis

LEMMA TypeStep ==
  ASSUME TypeOK, Fits, Named, Grounded, [Next]_vars
  PROVE  TypeOK'
<1>1. CASE UNCHANGED vars
  BY <1>1 DEF vars, TypeOK, Rows, Task
<1>2. QED
  BY <1>1, NextCases, RideType, WorldType, ApplyType, LoseType, TakeType, ReclaimType,
     WithinType, AstrayType

\* The tasks fit their events after a step.
LEMMA FitsStep ==
  ASSUME TypeOK, Fits, Grounded, [Next]_vars
  PROVE  Fits'
<1>1. CASE UNCHANGED task
  BY <1>1 DEF Fits, Busy, StepFits, Searching
<1>2. ASSUME NEW c \in Consumers, OthersStay(c),
             task'[c] # NoTask => StepFits(task'[c])
      PROVE  Fits'
  <2> SUFFICES ASSUME NEW e \in Consumers, task'[e] # NoTask PROVE StepFits(task'[e])
    BY DEF Fits, Busy, StepFits, Searching
  <2>1. CASE e = c
    BY <1>2, <2>1
  <2>2. CASE e # c
    BY <1>2, <2>2 DEF OthersStay, Fits, Busy
  <2>3. QED  BY <2>1, <2>2
<1>3. ASSUME NEW c \in Consumers, Take(c) PROVE Fits'
  BY <1>2, <1>3, TakeType, BeginTask
<1>4. ASSUME NEW c \in Consumers, NEW k \in pending, Reclaim(c, k) PROVE Fits'
  BY <1>2, <1>4, ReclaimType, BeginTask
<1>5. ASSUME NEW c \in Consumers, Within(c) PROVE Fits'
  BY <1>2, <1>5, WithinTask
<1>6. ASSUME NEW c \in Consumers, GoWrong(c) PROVE Fits'
  <2>1. OthersStay(c) /\ task'[c] \in {task[c], NoTask} /\ task[c] # NoTask
    BY <1>6, AstrayEffect, AstrayTask DEF Astray
  <2>2. StepFits(task[c])
    BY <2>1, TaskTypes
  <2>3. QED  BY <1>2, <2>1, <2>2
<1>7. ASSUME RideStep PROVE UNCHANGED task
  BY <1>7, RideEffect DEF RideStep, RideOnly
<1>8. ASSUME ApplyAnswer \/ LoseAnswer PROVE UNCHANGED task
  BY <1>8 DEF ApplyAnswer, LoseAnswer
<1>9. ASSUME World \/ UNCHANGED vars PROVE UNCHANGED task
  BY <1>9, WorldFrame DEF Aside
<1>10. QED  BY <1>1, <1>3, <1>4, <1>5, <1>6, <1>7, <1>8, <1>9, NextCases

-----------------------------------------------------------------------------
(* Events. *)

\* Only ride-service makes events; whatever else happens hands them on.
LEMMA InFlightStep ==
  ASSUME TypeOK, Fits, [Next]_vars, NEW k \in InFlight'
  PROVE  \/ k \in InFlight
         \/ \E t \in Trips : Ride(t) /\ k \in Event /\ stream' = Append(stream, k)
<1>1. CASE UNCHANGED <<stream, pending, task>>
  BY <1>1 DEF InFlight, Busy
<1>2. ASSUME NEW t \in Trips, Ride(t)
      PROVE  k \in InFlight \/ (k \in Event /\ stream' = Append(stream, k))
  <2>1. UNCHANGED <<pending, task>>
    BY <1>2, RideEffect DEF RideOnly
  <2>2. stream' = stream \/ \E x \in Event : stream' = Append(stream, x)
    BY <1>2, RideEffect
       DEF Operation, Asks, Accepts, Volunteers, Rejects, Closes, Starts, Appended
  <2>3. ASSUME NEW x \in Event, stream' = Append(stream, x)
        PROVE  k \in InFlight \/ k = x
    BY <2>1, <2>3, AppendSeq DEF InFlight, Busy, TypeOK
  <2>4. QED  BY <1>1, <2>1, <2>2, <2>3
<1>3. ASSUME NEW c \in Consumers, OthersStay(c), NEW x \in InFlight,
             task'[c] # NoTask => task'[c].event = x,
             \A i \in DOMAIN stream' : stream'[i] \in InFlight,
             pending' \subseteq InFlight
      PROVE  k \in InFlight
  BY <1>3 DEF InFlight, Busy, OthersStay
<1>4. (\A i \in DOMAIN stream : stream[i] \in InFlight) /\ pending \subseteq InFlight
  BY DEF InFlight
<1>5. ASSUME NEW c \in Consumers, Take(c) PROVE k \in InFlight
  <2>1. /\ stream # <<>> /\ stream \in Seq(Event) /\ stream' = Tail(stream)
        /\ Begin(c, Head(stream)) /\ Head(stream) \in Event /\ UNCHANGED pending
    BY <1>5, TakeType
  <2>2. Head(stream) \in InFlight
    BY <1>4, <2>1, TailSeq
  <2>3. \A i \in DOMAIN stream' : stream'[i] \in InFlight
    BY <1>4, <2>1, TailSeq
  <2>4. pending' \subseteq InFlight
    BY <1>4, <2>1
  <2>5. OthersStay(c) /\ (task'[c] # NoTask => task'[c].event = Head(stream))
    BY <2>1, BeginTask
  <2>6. QED  BY <1>3, <2>2, <2>3, <2>4, <2>5
<1>6. ASSUME NEW c \in Consumers, NEW x \in pending, Reclaim(c, x) PROVE k \in InFlight
  <2>1. /\ x \in InFlight /\ x \in Event /\ pending' \subseteq InFlight /\ stream' = stream
        /\ Begin(c, x)
    BY <1>4, <1>6, ReclaimType
  <2>2. OthersStay(c) /\ (task'[c] # NoTask => task'[c].event = x)
    BY <2>1, BeginTask
  <2>3. QED  BY <1>3, <1>4, <2>1, <2>2
<1>7. ASSUME NEW c \in Consumers, Within(c) PROVE k \in InFlight
  <2>1. task[c].event \in InFlight /\ UNCHANGED <<stream, pending>>
    BY <1>7, WithinFrame, TaskTypes
  <2>2. OthersStay(c) /\ (task'[c] # NoTask => task'[c].event = task[c].event)
    BY <1>7, WithinTask
  <2>3. QED  BY <1>3, <1>4, <2>1, <2>2
<1>8. ASSUME NEW c \in Consumers, GoWrong(c) PROVE k \in InFlight
  <2>1. Astray(c) /\ OthersStay(c) /\ task'[c] \in {task[c], NoTask}
        /\ task[c].event \in InFlight
    BY <1>8, AstrayEffect, AstrayTask
  <2>2. stream' = stream /\ pending' \subseteq pending \cup {task[c].event}
    BY <2>1 DEF Astray
  <2>3. task'[c] # NoTask => task'[c].event = task[c].event
    BY <2>1
  <2>4. QED  BY <1>3, <1>4, <2>1, <2>2, <2>3
<1>9. ASSUME ApplyAnswer \/ LoseAnswer \/ World \/ UNCHANGED vars PROVE k \in InFlight
  BY <1>1, <1>9, WorldFrame DEF ApplyAnswer, LoseAnswer, Aside
<1>10. QED  BY <1>2, <1>5, <1>6, <1>7, <1>8, <1>9, NextCases DEF RideStep

\* A step of ride-service, the update worker, or neither.
LEMMA TripsCases ==
  ASSUME TypeOK, [Next]_vars
  PROVE  \/ ApplyAnswer
         \/ UNCHANGED trips
         \/ \E t \in Trips : Ride(t) /\ RideOnly /\ Operation(t)
<1>1. ASSUME LoseAnswer \/ World \/ UNCHANGED vars PROVE UNCHANGED trips
  BY <1>1, WorldFrame DEF LoseAnswer, Aside
<1>2. ASSUME NEW c \in Consumers, Take(c) \/ Within(c) \/ GoWrong(c)
      PROVE  UNCHANGED trips
  BY <1>2, TakeType, WithinFrame, AstrayEffect DEF Astray
<1>3. ASSUME NEW c \in Consumers, NEW k \in pending, Reclaim(c, k) PROVE UNCHANGED trips
  BY <1>3, ReclaimType
<1>4. QED  BY <1>1, <1>2, <1>3, NextCases, RideEffect DEF RideStep

\* Rows are never deleted, and histories only grow.
LEMMA RowsStay ==
  ASSUME TypeOK, Grounded, [Next]_vars
  PROVE  /\ Rows \subseteq Rows' /\ disturbed \subseteq disturbed'
         /\ irregular \subseteq irregular'
<1>1. CASE ApplyAnswer
  BY <1>1, ApplyEffect DEF Applies, RowBecomes
<1>2. ASSUME NEW t \in Trips, Ride(t)
      PROVE  /\ Rows \subseteq Rows' /\ disturbed \subseteq disturbed'
             /\ irregular \subseteq irregular'
  BY <1>2, RideEffect
     DEF Operation, Asks, Accepts, Volunteers, Rejects, Closes, Starts, RowBecomes, Offers
<1>3. ASSUME UNCHANGED trips PROVE Rows \subseteq Rows'
  BY <1>3 DEF Rows
<1>4. ASSUME LoseAnswer \/ World \/ UNCHANGED vars
      PROVE  UNCHANGED <<disturbed, irregular>>
  BY <1>4, WorldFrame DEF LoseAnswer, Aside
<1>5. ASSUME NEW c \in Consumers, Take(c) \/ Within(c) \/ GoWrong(c)
      PROVE  disturbed \subseteq disturbed' /\ UNCHANGED irregular
  <2>1. CASE Take(c)
    BY <2>1, TakeType
  <2>2. CASE Within(c)
    BY <2>2, WithinFrame
  <2>3. CASE GoWrong(c)
    BY <2>3, AstrayEffect DEF Astray, Disturb
  <2>4. QED  BY <1>5, <2>1, <2>2, <2>3
<1>6. ASSUME NEW c \in Consumers, NEW k \in pending, Reclaim(c, k)
      PROVE  UNCHANGED <<disturbed, irregular>>
  BY <1>6, ReclaimType
<1>7. UNCHANGED trips \/ ApplyAnswer \/ \E t \in Trips : Ride(t)
  BY TripsCases
<1>8. QED  BY <1>1, <1>2, <1>3, <1>4, <1>5, <1>6, <1>7, NextCases DEF RideStep

LEMMA AppendedIs ==
  ASSUME TypeOK, NEW k \in Event, stream' = Append(stream, k),
         NEW type, NEW t, NEW d, Appended(type, t, d)
  PROVE  k.type = type /\ k.trip = t /\ k.driver = d
<1>1. PICK x \in Event : /\ x.type = type /\ x.trip = t /\ x.driver = d
                         /\ stream' = Append(stream, x)
  BY DEF Appended
<1>2. Append(stream, x) = Append(stream, k) /\ stream \in Seq(Event)
  BY <1>1 DEF TypeOK
<1>3. x = k
  BY ONLY <1>2, x \in Event, k \in Event, AppendIsInjective
<1>4. QED  BY <1>1, <1>3

\* What ride-service emits is about the row it writes.
LEMMA EmittedIs ==
  ASSUME TypeOK, NEW t \in Trips, Ride(t), NEW k \in Event, stream' = Append(stream, k)
  PROVE  /\ k.trip = t /\ t \in Rows'
         /\ \/ Asks(t) /\ k.type = "Trip.Requested" /\ k.driver = NoDriver
            \/ Accepts(t) /\ k.type = "Trip.Accepted" /\ k.driver = trips[t].driver
            \/ \E d \in Drivers :
                 Volunteers(t, d) /\ k.type = "Trip.Accepted" /\ k.driver = d
            \/ Rejects(t) /\ k.type = "Trip.OfferRejected" /\ k.driver = trips[t].driver
            \/ Closes(t) /\ k.type \in {"Trip.Cancelled", "Trip.Completed"}
                         /\ k.driver \in {NoDriver, trips[t].driver}
<1>1. stream' # stream
  BY AppendSeq DEF TypeOK
<1>2. Operation(t)
  BY RideEffect
<1>3. t \in Rows'
  BY <1>2 DEF Operation, Asks, Accepts, Volunteers, Rejects, Closes, Starts, RowBecomes
<1>4. ASSUME NEW type, NEW d, Appended(type, t, d)
      PROVE  k.type = type /\ k.trip = t /\ k.driver = d
  BY <1>4, AppendedIs
<1>5. QED  BY <1>1, <1>2, <1>3, <1>4
           DEF Operation, Asks, Accepts, Volunteers, Rejects, Closes, Starts

LEMMA NamedStep ==
  ASSUME TypeOK, Fits, Named, [Next]_vars
  PROVE  Named'
<1> DEFINE Good(k) ==
      /\ k.type \in {"Trip.Accepted", "Trip.OfferRejected"} => k.driver # NoDriver
      /\ k.type = "Trip.Requested" => k.driver = NoDriver
<1> SUFFICES ASSUME NEW k \in InFlight' PROVE Good(k)
  BY DEF Named
<1>1. CASE k \in InFlight
  BY <1>1 DEF Named
<1>2. ASSUME NEW t \in Trips, Ride(t), k \in Event, stream' = Append(stream, k)
      PROVE  Good(k)
  BY <1>2, EmittedIs, NoDriverFresh DEF Accepts, Volunteers, Rejects
<1>3. QED  BY <1>1, <1>2, InFlightStep

LEMMA GroundedStep ==
  ASSUME TypeOK, Fits, Grounded, [Next]_vars
  PROVE  Grounded'
<1>1. Rows \subseteq Rows' /\ disturbed \subseteq disturbed'
  BY RowsStay
<1>2. ASSUME NEW k \in InFlight' PROVE k.trip \in Rows'
  <2>1. CASE k \in InFlight
    BY <1>1, <2>1 DEF Grounded
  <2>2. ASSUME NEW t \in Trips, Ride(t), k \in Event, stream' = Append(stream, k)
        PROVE  k.trip \in Rows'
    BY <2>2, EmittedIs
  <2>3. QED  BY <2>1, <2>2, InFlightStep
<1>3. ASSUME NEW i \in DOMAIN answers' PROVE answers'[i].trip \in Rows'
  <2>1. CASE UNCHANGED answers
    BY <1>1, <2>1 DEF Grounded
  <2>2. CASE ApplyAnswer \/ LoseAnswer
    <3>1. answers \in Seq(Answer) /\ answers # <<>> /\ answers' = Tail(answers)
      BY <2>2 DEF ApplyAnswer, LoseAnswer, TypeOK
    <3>2. i + 1 \in DOMAIN answers /\ answers'[i] = answers[i + 1]
      BY <3>1, TailSeq
    <3>3. QED  BY <1>1, <3>2 DEF Grounded
  <2>3. ASSUME NEW c \in Consumers, task[c] # NoTask, Publish(c)
        PROVE  answers'[i].trip \in Rows'
    <3>1. task[c].event.trip \in Rows
      BY <2>3, TaskTypes DEF Grounded
    <3>2. answers \in Seq(Answer)
          /\ [trip |-> task[c].event.trip, driver |-> task[c].best] \in Answer
      BY <2>3, PublishType DEF TypeOK
    <3>3. \/ i \in DOMAIN answers /\ answers'[i] = answers[i]
          \/ answers'[i] = [trip |-> task[c].event.trip, driver |-> task[c].best]
      BY <2>3, <3>2, AppendSeq DEF Publish
    <3>4. QED  BY <1>1, <3>1, <3>3 DEF Grounded
  <2>4. \/ UNCHANGED answers
        \/ ApplyAnswer \/ LoseAnswer
        \/ \E c \in Consumers : task[c] # NoTask /\ Publish(c)
    <3>1. ASSUME NEW c \in Consumers, Within(c) \/ GoWrong(c)
          PROVE  UNCHANGED answers \/ (task[c] # NoTask /\ Publish(c))
      BY <3>1, WithinFrame, AstrayEffect DEF Astray
    <3>2. ASSUME NEW c \in Consumers, Take(c) PROVE UNCHANGED answers
      BY <3>2, TakeType
    <3>3. ASSUME NEW c \in Consumers, NEW k \in pending, Reclaim(c, k)
          PROVE  UNCHANGED answers
      BY <3>3, ReclaimType
    <3>4. ASSUME RideStep PROVE UNCHANGED answers
      BY <3>4, RideEffect DEF RideStep, RideOnly
    <3>5. ASSUME World \/ UNCHANGED vars PROVE UNCHANGED answers
      BY <3>5, WorldFrame DEF Aside
    <3>6. QED  BY <3>1, <3>2, <3>3, <3>4, <3>5, NextCases
  <2>5. QED  BY <2>1, <2>2, <2>3, <2>4
<1>4. ASSUME NEW t \in Trips \ Rows' PROVE refused'[t] = {}
  <2>1. t \notin Rows
    BY <1>1
  <2>2. CASE UNCHANGED refused
    BY <2>1, <2>2 DEF Grounded
  <2>3. ASSUME NEW u \in Trips, Rejects(u) PROVE refused'[t] = {}
    BY <2>1, <2>3 DEF Grounded, Rejects, RowBecomes
  <2>4. UNCHANGED refused \/ \E u \in Trips : Rejects(u)
    <3>1. ASSUME NEW c \in Consumers, Within(c) \/ GoWrong(c) \/ Take(c)
          PROVE  UNCHANGED refused
      BY <3>1, WithinFrame, AstrayEffect, TakeType DEF Astray
    <3>2. ASSUME NEW c \in Consumers, NEW k \in pending, Reclaim(c, k)
          PROVE  UNCHANGED refused
      BY <3>2, ReclaimType
    <3>3. ASSUME NEW u \in Trips, Ride(u) PROVE UNCHANGED refused \/ Rejects(u)
      BY <3>3, RideEffect DEF Operation, Asks, Accepts, Volunteers, Closes, Starts
    <3>4. ASSUME ApplyAnswer \/ LoseAnswer \/ World \/ UNCHANGED vars
          PROVE  UNCHANGED refused
      BY <3>4, WorldFrame DEF ApplyAnswer, LoseAnswer, Aside
    <3>5. QED  BY <3>1, <3>2, <3>3, <3>4, NextCases DEF RideStep
  <2>5. QED  BY <2>2, <2>3, <2>4
<1>5. ASSUME NEW k \in pending' PROVE k.trip \in disturbed'
  <2>1. ASSUME NEW c \in Consumers, GoWrong(c) PROVE k.trip \in disturbed'
    BY <2>1, AstrayEffect DEF Astray, Disturb, Grounded
  <2>2. CASE pending' \subseteq pending
    BY <1>1, <2>2 DEF Grounded
  <2>3. pending' \subseteq pending \/ \E c \in Consumers : GoWrong(c)
    <3>1. ASSUME NEW c \in Consumers, Within(c) \/ Take(c) PROVE UNCHANGED pending
      BY <3>1, WithinFrame, TakeType
    <3>2. ASSUME NEW c \in Consumers, NEW x \in pending, Reclaim(c, x)
          PROVE  pending' \subseteq pending
      BY <3>2, ReclaimType
    <3>3. ASSUME RideStep PROVE UNCHANGED pending
      BY <3>3, RideEffect DEF RideStep, RideOnly
    <3>4. ASSUME ApplyAnswer \/ LoseAnswer \/ World \/ UNCHANGED vars
          PROVE  UNCHANGED pending
      BY <3>4, WorldFrame DEF ApplyAnswer, LoseAnswer, Aside
    <3>5. QED  BY <3>1, <3>2, <3>3, <3>4, NextCases
  <2>4. QED  BY <2>1, <2>2, <2>3
<1>6. QED  BY <1>2, <1>3, <1>4, <1>5 DEF Grounded

-----------------------------------------------------------------------------
(* The search of a trip. *)

\* A closed trip stays closed.
LEMMA StaysClosed ==
  ASSUME TypeOK, Grounded, [Next]_vars, NEW t \in Rows, IsOpen(t)'
  PROVE  IsOpen(t)
<1>1. CASE UNCHANGED trips
  BY <1>1 DEF IsOpen, Rows
<1>2. CASE ApplyAnswer
  BY <1>2, ApplyEffect DEF Applies, RowBecomes, IsOpen
<1>3. ASSUME NEW u \in Trips, Operation(u) PROVE IsOpen(t)
  BY <1>3 DEF Operation, Asks, Accepts, Volunteers, Rejects, Closes, Starts, RowBecomes,
     IsOpen
<1>4. QED  BY <1>1, <1>2, <1>3, TripsCases

LEMMA NotCancelledStep ==
  ASSUME IInv, [Next]_vars, NEW t \in Rows', IsOpen(t)'
  PROVE  NotCancelled(t)'
<1> USE DEF IInv
<1> SUFFICES ASSUME NEW k \in InFlight', k.trip = t PROVE k.type # "Trip.Cancelled"
  BY DEF NotCancelled
<1>1. CASE k \in InFlight
  BY <1>1, StaysClosed DEF Grounded, OpenTrips, NotCancelled
<1>2. ASSUME NEW u \in Trips, Ride(u), k \in Event, stream' = Append(stream, k),
             k.type = "Trip.Cancelled"
      PROVE  FALSE
  <2>1. Closes(u) /\ u = t
    BY <1>2, EmittedIs
  <2>2. QED  BY <2>1 DEF Closes, RowBecomes, IsOpen
<1>3. QED  BY <1>1, <1>2, InFlightStep

\* A stage of the search of trip t is as it was, up to its place in a queue.
QueueKept(t) ==
  /\ \A i, j \in Queued(t)' : i = j
  /\ Queued(t)' # {} => Queued(t) # {}
  /\ \A i \in Queued(t) : \E j \in Queued(t)' : stream'[j].driver = stream[i].driver

WorkKept(t) ==
  Working(t)' = Working(t) /\ \A c \in Working(t) : task'[c] = task[c]

AnswersKept(t) ==
  /\ \A i, j \in Answered(t)' : i = j
  /\ \A i \in Answered(t)' : \E j \in Answered(t) : answers[j].driver = answers'[i].driver

RowKept(t) == trips'[t].driver = trips[t].driver

ListKept(t) == refused'[t] = refused[t] /\ rejections[t] \subseteq rejections'[t]

LEMMA KeptSearch ==
  ASSUME NEW t, InSearch(t), QueueKept(t), WorkKept(t), AnswersKept(t), RowKept(t),
         ListKept(t)
  PROVE  InSearch(t)'
<1>1. OneSearch(t)'
  BY DEF InSearch, OneSearch, QueueKept, WorkKept, AnswersKept, RowKept, Offered
<1>2. Remembered(t)'
  BY DEF InSearch, Remembered, QueueKept, WorkKept, ListKept
<1>3. Avoided(t)'
  BY DEF InSearch, Avoided, WorkKept, AnswersKept, RowKept, ListKept
<1>4. QED  BY <1>1, <1>2, <1>3 DEF InSearch

LEMMA SameStream == ASSUME NEW t, InSearch(t), UNCHANGED stream PROVE QueueKept(t)
BY DEF InSearch, OneSearch, Queued, QueueKept, Searching

LEMMA SameAnswers == ASSUME NEW t, InSearch(t), UNCHANGED answers PROVE AnswersKept(t)
BY DEF InSearch, OneSearch, Answered, AnswersKept

LEMMA SameTasks == ASSUME NEW t, UNCHANGED task PROVE WorkKept(t)
BY DEF Working, WorkKept, Busy, Searching

\* An event of another trip, or one that starts no search.
LEMMA OtherEvent ==
  ASSUME TypeOK, NEW t, InSearch(t), NEW type, NEW u, NEW d, Appended(type, u, d),
         u # t \/ type \notin {"Trip.Requested", "Trip.OfferRejected"}
  PROVE  QueueKept(t)
<1>1. PICK k \in Event : /\ k.type = type /\ k.trip = u
                         /\ stream' = Append(stream, k)
  BY DEF Appended
<1>2. k.trip # t \/ ~Searching(k)
  BY <1>1 DEF Searching
<1>3. /\ DOMAIN stream' = DOMAIN stream \cup {Len(stream) + 1}
      /\ stream'[Len(stream) + 1] = k
      /\ \A i \in DOMAIN stream : stream'[i] = stream[i]
  BY <1>1, AppendSeq DEF TypeOK
<1>4. Queued(t)' = Queued(t)
  BY <1>2, <1>3 DEF Queued, Searching
<1>5. QED  BY <1>3, <1>4 DEF InSearch, OneSearch, QueueKept, Queued

\* The head of the stream is not about the search of trip t.
LEMMA OtherHead ==
  ASSUME TypeOK, NEW t, InSearch(t), stream # <<>>, stream' = Tail(stream),
         1 \notin Queued(t)
  PROVE  QueueKept(t)
<1>1. stream \in Seq(Event)
  BY DEF TypeOK
<1>2. \A i \in DOMAIN stream' :
        i \in Nat /\ i + 1 \in DOMAIN stream /\ stream'[i] = stream[i + 1]
  BY <1>1, TailSeq
<1>3. \A i \in DOMAIN stream : i # 1 => i \in Nat /\ i - 1 \in DOMAIN stream'
  BY <1>1, TailSeq
<1>4. \A i \in Queued(t)' : i + 1 \in Queued(t) /\ i \in Nat
  BY <1>2 DEF Queued, Searching
<1>5. \A i \in Queued(t) : i - 1 \in Queued(t)' /\ stream'[i - 1] = stream[i]
  BY <1>2, <1>3 DEF Queued, Searching
<1>6. \A i, j \in Queued(t)' : i = j
  BY <1>4 DEF InSearch, OneSearch
<1>7. QED  BY <1>4, <1>5, <1>6 DEF QueueKept

\* The answer applied or lost is for another trip, or was the only one.
LEMMA OtherAnswer ==
  ASSUME TypeOK, NEW t, InSearch(t), answers # <<>>, answers' = Tail(answers)
  PROVE  AnswersKept(t) /\ (Head(answers).trip = t => Answered(t)' = {})
<1>1. answers \in Seq(Answer)
  BY DEF TypeOK
<1>2. \A i \in DOMAIN answers' :
        /\ i \in Nat /\ i + 1 \in DOMAIN answers /\ i + 1 > 1
        /\ answers'[i] = answers[i + 1]
  BY <1>1, TailSeq
<1>3. \A i \in Answered(t)' : /\ i + 1 \in Answered(t) /\ i \in Nat /\ i + 1 > 1
                              /\ answers'[i] = answers[i + 1]
  BY <1>2 DEF Answered
<1>4. \A i, j \in Answered(t)' : i = j
  BY <1>3 DEF InSearch, OneSearch
<1>5. Head(answers).trip = t => 1 \in Answered(t)
  BY <1>1, TailSeq DEF Answered
<1>6. Head(answers).trip = t => Answered(t)' = {}
  BY <1>3, <1>5 DEF InSearch, OneSearch
<1>7. QED  BY <1>3, <1>4, <1>6 DEF AnswersKept

\* A published answer is for another trip.
LEMMA OtherPublished ==
  ASSUME TypeOK, Fits, NEW t, InSearch(t), NEW c \in Consumers, task[c] # NoTask,
         Publish(c), task[c].event.trip # t
  PROVE  AnswersKept(t)
<1> DEFINE a == [trip |-> task[c].event.trip, driver |-> task[c].best]
<1>1. a \in Answer /\ answers' = Append(answers, a) /\ a.trip # t
  BY PublishType DEF Publish
<1> HIDE DEF a
<1>2. /\ DOMAIN answers' = DOMAIN answers \cup {Len(answers) + 1}
      /\ answers'[Len(answers) + 1] = a
      /\ \A i \in DOMAIN answers : answers'[i] = answers[i]
  BY <1>1, AppendSeq DEF TypeOK
<1>3. Answered(t)' = Answered(t)
  BY <1>1, <1>2 DEF Answered
<1>4. QED  BY <1>2, <1>3 DEF InSearch, OneSearch, AnswersKept, Answered

\* A consumer that is not searching for trip t, before or after the step.
LEMMA OtherTask ==
  ASSUME TypeOK, NEW t, NEW c \in Consumers, OthersStay(c), c \notin Working(t),
         task'[c] # NoTask =>
           \/ task'[c].event.trip # t \/ ~Searching(task'[c].event)
           \/ task'[c].step = "reserve"
  PROVE  WorkKept(t)
BY DEF Working, WorkKept, Busy, Searching, OthersStay

\* A new trip has one stage, its first event.
LEMMA SearchBegins ==
  ASSUME IInv, NEW t \in Trips, Asks(t), RideOnly
  PROVE  InSearch(t)'
<1> USE DEF IInv
<1>1. PICK k \in Event : /\ k.type = "Trip.Requested" /\ k.trip = t
                         /\ stream' = Append(stream, k)
  BY DEF Asks, Appended
<1>2. /\ DOMAIN stream' = DOMAIN stream \cup {Len(stream) + 1}
      /\ stream'[Len(stream) + 1] = k
      /\ \A i \in DOMAIN stream : stream'[i] = stream[i]
  BY <1>1, AppendSeq DEF TypeOK
<1>3. \A x \in InFlight : x.trip # t
  BY DEF Asks, Grounded
<1>4. \A i, j \in Queued(t)' : i = j
  BY <1>2, <1>3 DEF Queued, InFlight
<1>5. Working(t)' = {}
  BY <1>3 DEF Working, Busy, RideOnly, InFlight
<1>6. Answered(t)' = {}
  BY DEF Answered, Asks, RideOnly, Grounded
<1>7. trips'[t].driver = NoDriver /\ refused'[t] = {}
  BY DEF Asks, Grounded
<1>8. QED  BY <1>4, <1>5, <1>6, <1>7 DEF InSearch, OneSearch, Remembered, Avoided, Offered

LEMMA RideSearch ==
  ASSUME IInv, NEW u \in Trips, RideOnly, Operation(u), NEW t \in Rows, t \notin disturbed',
         InSearch(t), IsOpen(t)'
  PROVE  InSearch(t)'
<1> USE DEF IInv
<1>1. UNCHANGED <<answers, rejections, task>>
  BY DEF RideOnly, redis
<1>2. WorkKept(t) /\ AnswersKept(t)
  BY <1>1, SameTasks, SameAnswers
<1>3. t \in Trips
  BY DEF TypeOK
<1>4. \A d : ~(Volunteers(u, d) /\ u = t)
  BY DEF Volunteers
<1>5. CASE Rejects(u) /\ u = t
  <2> DEFINE d == trips[t].driver
  <2>1. Queued(t) = {} /\ Working(t) = {} /\ Answered(t) = {}
    BY <1>5, NoDriverFresh DEF Rejects, InSearch, OneSearch, Offered
  <2>2. PICK k \in Event : /\ k.type = "Trip.OfferRejected" /\ k.trip = t /\ k.driver = d
                           /\ stream' = Append(stream, k)
    BY <1>5 DEF Rejects, Appended
  <2>3. Searching(k)
    BY <2>2 DEF Searching
  <2>4. /\ DOMAIN stream' = DOMAIN stream \cup {Len(stream) + 1}
        /\ stream'[Len(stream) + 1] = k
        /\ \A i \in DOMAIN stream : stream'[i] = stream[i]
    BY <2>2, AppendSeq DEF TypeOK
  <2>5. Queued(t)' = {Len(stream) + 1}
    BY <2>1, <2>2, <2>3, <2>4 DEF Queued, Searching
  <2>6. Working(t)' = {} /\ Answered(t)' = {}
    BY <1>1, <2>1 DEF Working, Busy, Answered, Searching
  <2>7. trips'[t].driver = NoDriver /\ refused'[t] = refused[t] \cup {d}
    BY <1>5 DEF Rejects, RowBecomes
  <2>8. \A x \in refused[t] : x \in rejections[t]
    BY <2>1 DEF InSearch, Remembered
  <2>9. Remembered(t)'
    BY <1>1, <2>2, <2>4, <2>5, <2>7, <2>8 DEF Remembered
  <2>10. NoDriver \notin refused'[t]
    BY <1>3, <1>5, <2>7, NoDriverFresh DEF Rejects, TypeOK
  <2>11. QED  BY <2>5, <2>6, <2>7, <2>9, <2>10 DEF InSearch, OneSearch, Avoided, Offered
<1>6. CASE ~(Rejects(u) /\ u = t)
  <2>1. RowKept(t)
    BY <1>4, <1>6
       DEF RowKept, Operation, Asks, Accepts, Volunteers, Rejects, Closes, Starts, RowBecomes
  <2>2. ListKept(t)
    BY <1>1, <1>3, <1>6
       DEF ListKept, Operation, Asks, Accepts, Volunteers, Rejects, Closes, Starts
  <2>3. QueueKept(t)
    <3>1. ASSUME NEW type, NEW d, Appended(type, u, d),
                 u # t \/ type \notin {"Trip.Requested", "Trip.OfferRejected"}
          PROVE  QueueKept(t)
      BY <3>1, OtherEvent
    <3>2. CASE UNCHANGED stream
      BY <3>2, SameStream
    <3>3. Asks(u) => u # t
      BY DEF Asks
    <3>4. QED  BY <1>6, <3>1, <3>2, <3>3
               DEF Operation, Asks, Accepts, Volunteers, Rejects, Closes, Starts
  <2>4. QED  BY <1>2, <2>1, <2>2, <2>3, KeptSearch
<1>7. QED  BY <1>5, <1>6

LEMMA ApplySearch ==
  ASSUME IInv, ApplyAnswer, NEW t \in Rows, InSearch(t), IsOpen(t)'
  PROVE  InSearch(t)'
<1> USE DEF IInv
<1> DEFINE a == Head(answers)
<1>1. Applies(a)
  BY ApplyEffect
<1>2. /\ UNCHANGED <<stream, rejections, task, refused>>
      /\ answers # <<>> /\ answers' = Tail(answers) /\ answers \in Seq(Answer)
  BY <1>1 DEF Applies, redis, TypeOK
<1>3. QueueKept(t) /\ WorkKept(t) /\ ListKept(t)
  BY <1>2, SameStream, SameTasks DEF ListKept
<1>4. AnswersKept(t) /\ (a.trip = t => Answered(t)' = {})
  BY <1>2, OtherAnswer
<1>5. CASE a.trip # t
  <2>1. RowKept(t)
    BY <1>1, <1>5 DEF Applies, RowKept, RowBecomes
  <2>2. QED  BY <1>3, <1>4, <2>1, KeptSearch
<1>6. CASE a.trip = t
  <2>1. 1 \in Answered(t) /\ a = answers[1]
    BY <1>2, <1>6, TailSeq DEF Answered
  <2>2. Queued(t) = {} /\ Working(t) = {}
    BY <2>1 DEF InSearch, OneSearch
  <2>3. a.driver # NoDriver
    BY <1>1, <1>6 DEF Applies, RowBecomes, IsOpen
  <2>4. trips'[t].driver = a.driver /\ a.driver \notin refused[t]
    BY <1>1, <1>6, <2>1, <2>3 DEF Applies, RowBecomes, InSearch, Avoided
  <2>5. Queued(t)' = {} /\ Working(t)' = {} /\ Answered(t)' = {}
    BY <1>2, <1>4, <1>6, <2>2 DEF Queued, Working, Busy, Searching
  <2>6. Remembered(t)'
    BY <1>2, <2>2 DEF InSearch, Remembered
  <2>7. QED  BY <1>2, <2>4, <2>5, <2>6 DEF InSearch, OneSearch, Avoided, Offered
<1>7. QED  BY <1>5, <1>6

\* A lost answer ends the search: the trip waits for the timeout worker.
LEMMA LoseSearch ==
  ASSUME IInv, LoseAnswer, NEW t \in Rows, InSearch(t)
  PROVE  InSearch(t)'
<1>1. /\ answers # <<>> /\ answers' = Tail(answers)
      /\ UNCHANGED <<trips, stream, rejections, task, refused>>
  BY LoseType DEF IInv, redis
<1>2. AnswersKept(t)
  BY <1>1, OtherAnswer DEF IInv
<1>3. QED  BY <1>1, <1>2, SameStream, SameTasks, KeptSearch DEF ListKept, RowKept

\* Drivers and time have no part in the search.
LEMMA AsideSearch ==
  ASSUME Aside, NEW t \in Rows, InSearch(t)
  PROVE  InSearch(t)'
BY SameStream, SameTasks, SameAnswers, KeptSearch DEF Aside, ListKept, RowKept

LEMMA TakeSearch ==
  ASSUME IInv, NEW c \in Consumers, Take(c), NEW t \in Rows, InSearch(t)
  PROVE  InSearch(t)'
<1> USE DEF IInv
<1> DEFINE k == Head(stream)
<1>1. /\ k \in Event /\ Begin(c, k) /\ stream' = Tail(stream) /\ stream # <<>>
      /\ k = stream[1] /\ 1 \in DOMAIN stream /\ task[c] = NoTask
      /\ UNCHANGED <<trips, answers, rejections, refused>>
  BY TakeType, TailSeq DEF redis
<1>2. /\ OthersStay(c)
      /\ task'[c] # NoTask => task'[c] \in Task /\ task'[c].event = k
      /\ task'[c] = NoTask => k.type = "Trip.Completed"
      /\ k.type = "Trip.Requested" => task'[c].step = "search"
      /\ k.type = "Trip.OfferRejected" => task'[c].step = "record"
  BY <1>1, BeginTask
<1>3. c \notin Working(t)
  BY <1>1 DEF Working, Busy
<1>4. AnswersKept(t) /\ RowKept(t) /\ ListKept(t)
  BY <1>1, SameAnswers DEF RowKept, ListKept
<1>5. CASE 1 \notin Queued(t)
  <2>1. QueueKept(t)
    BY <1>1, <1>5, OtherHead
  <2>2. k.trip # t \/ ~Searching(k)
    BY <1>1, <1>5 DEF Queued
  <2>3. WorkKept(t)
    BY <1>2, <1>3, <2>2, OtherTask
  <2>4. QED  BY <1>4, <2>1, <2>3, KeptSearch
<1>6. CASE 1 \in Queued(t)
  <2>1. k.trip = t /\ Searching(k) /\ Queued(t) = {1}
    BY <1>1, <1>6 DEF Queued, InSearch, OneSearch
  <2>2. Working(t) = {} /\ Answered(t) = {} /\ ~Offered(t)
    BY <1>6 DEF InSearch, OneSearch
  <2>3. Queued(t)' = {}
    <3>1. \A i \in DOMAIN stream' :
            i \in Nat /\ i + 1 \in DOMAIN stream /\ i + 1 > 1 /\ stream'[i] = stream[i + 1]
      BY <1>1, TailSeq DEF TypeOK
    <3>2. \A i \in Queued(t)' : i + 1 \in Queued(t) /\ i \in Nat /\ i + 1 > 1
      BY <3>1 DEF Queued, Searching
    <3>3. QED  BY <2>1, <3>2
  <2>4. task'[c] # NoTask /\ task'[c].event = k /\ task'[c].step \in {"search", "record"}
        /\ (k.type = "Trip.OfferRejected" => task'[c].step = "record")
    BY <1>2, <2>1 DEF Searching
  <2>5. Working(t)' = {c}
    BY <1>2, <2>1, <2>2, <2>4 DEF Working, Busy, OthersStay, Searching
  <2>6. Answered(t)' = {} /\ ~Offered(t)'
    BY <1>1, <2>2 DEF Answered, Offered
  <2>7. \A d \in refused[t] : d \in rejections[t] \/ d = k.driver
    BY <1>1, <2>1, <2>2 DEF InSearch, Remembered
  <2>8. k.type = "Trip.Requested" \/ k.type = "Trip.OfferRejected"
    BY <2>1 DEF Searching
  <2>9. Remembered(t)'
    <3>1. CASE k.type = "Trip.OfferRejected"
      BY <1>1, <2>4, <2>5, <2>7, <3>1 DEF Remembered
    <3>2. CASE k.type = "Trip.Requested"
      <4>1. \A d \in refused[t] : d \in rejections[t]
        <5>1. k \in InFlight
          BY <1>1 DEF InFlight
        <5>2. k.driver = NoDriver
          BY <3>2, <5>1 DEF Named
        <5>3. NoDriver \notin refused[t]
          BY NoDriverFresh DEF TypeOK
        <5>4. QED  BY <2>7, <5>2, <5>3
      <4>2. QED  BY <1>1, <4>1 DEF Remembered
    <3>3. QED  BY <2>8, <3>1, <3>2
  <2>10. Avoided(t)'
    BY <1>1, <2>4, <2>5, <2>6 DEF Avoided, InSearch, Looking
  <2>11. QED  BY <2>3, <2>5, <2>6, <2>9, <2>10 DEF InSearch, OneSearch
<1>7. QED  BY <1>5, <1>6

LEMMA ReclaimSearch ==
  ASSUME IInv, NEW c \in Consumers, NEW k \in pending, Reclaim(c, k),
         NEW t \in Rows \ disturbed, InSearch(t)
  PROVE  InSearch(t)'
<1> USE DEF IInv
<1>1. /\ Begin(c, k) /\ k \in Event /\ k.trip # t /\ task[c] = NoTask
      /\ UNCHANGED <<trips, stream, answers, rejections, refused>>
  BY ReclaimType DEF Grounded, redis
<1>2. OthersStay(c) /\ (task'[c] # NoTask => task'[c].event = k)
  BY <1>1, BeginTask
<1>3. WorkKept(t)
  BY <1>1, <1>2, OtherTask DEF Working, Busy
<1>4. QED  BY <1>1, <1>3, SameStream, SameAnswers, KeptSearch DEF RowKept, ListKept

\* What goes wrong disturbs the trip of the event.
LEMMA AstraySearch ==
  ASSUME IInv, NEW c \in Consumers, GoWrong(c), NEW t \in Rows \ disturbed',
         InSearch(t)
  PROVE  InSearch(t)'
<1> USE DEF IInv
<1>1. /\ Astray(c) /\ task[c] # NoTask /\ task[c].event.trip # t
      /\ UNCHANGED <<trips, stream, rejections, refused>>
  BY AstrayEffect DEF Astray, Disturb, redis
<1>2. OthersStay(c) /\ task'[c] \in {task[c], NoTask}
  BY <1>1, AstrayTask
<1>3. WorkKept(t)
  BY <1>1, <1>2, OtherTask DEF Working
<1>4. AnswersKept(t)
  BY <1>1, SameAnswers, OtherPublished DEF Astray
<1>5. QED  BY <1>1, <1>3, <1>4, SameStream, KeptSearch DEF RowKept, ListKept

\* A step inside an event that is not of this search.
LEMMA ElsewhereSearch ==
  ASSUME IInv, NEW c \in Consumers, Within(c), NEW t \in Rows, NotCancelled(t),
         InSearch(t), c \notin Working(t)
  PROVE  InSearch(t)'
<1> USE DEF IInv
<1>1. /\ task[c] # NoTask /\ OthersStay(c) /\ StepFits(task[c])
      /\ task'[c] # NoTask => StepFits(task'[c]) /\ task'[c].event = task[c].event
      /\ UNCHANGED <<trips, stream, refused>>
      /\ task[c].event \in InFlight
  BY WithinTask, WithinFrame, TaskTypes
<1>2. \/ task[c].event.trip # t \/ ~Searching(task[c].event)
      \/ task[c].step = "reserve"
  BY <1>1 DEF Working, Busy
<1>3. WorkKept(t)
  <2>1. task[c].step = "reserve" => task'[c] = NoTask
    <3>1. task[c].step = "reserve" => Reserve(c)
      BY WithinAt
    <3>2. QED  BY <3>1, DoneTask DEF Reserve, Finish
  <2>2. QED  BY <1>1, <1>2, <2>1, OtherTask
<1>4. AnswersKept(t)
  <2>1. CASE UNCHANGED answers
    BY <2>1, SameAnswers
  <2>2. CASE AnswerTrip(c) /\ Publish(c)
    <3>1. task[c].step = "probe" /\ Searching(task[c].event)
      BY <1>1, <2>2 DEF AnswerTrip, Searched, At, StepFits, Looking
    <3>2. task[c].event.trip # t
      BY <1>2, <3>1
    <3>3. QED  BY <1>1, <2>2, <3>2, OtherPublished
  <2>3. QED  BY <2>1, <2>2, WithinFrame
<1>5. rejections[t] \subseteq rejections'[t]
  <2>1. CASE ForgetRejections(c)
    <3>1. task[c].event.trip # t
      BY <1>1, <2>1 DEF ForgetRejections, At, StepFits, NotCancelled
    <3>2. QED  BY <2>1, <3>1 DEF ForgetRejections, TypeOK
  <2>2. CASE ~ForgetRejections(c)
    BY <2>2 DEF Within, Record, Release, Search, ReadRejections, Skip, LooksFree, Keep,
       FindStale, Evict, AnswerTrip, Reserve, Confirm, redis, TypeOK
  <2>3. QED  BY <2>1, <2>2
<1>6. QED  BY <1>1, <1>3, <1>4, <1>5, SameStream, KeptSearch DEF RowKept, ListKept

\* The search goes on in the same consumer.
LEMMA StillSearching ==
  ASSUME IInv, NEW c \in Consumers, NEW t \in Rows, InSearch(t), c \in Working(t),
         OthersStay(c), task'[c] # NoTask, task'[c].event = task[c].event,
         task'[c].step # "reserve",
         UNCHANGED <<trips, stream, answers, refused>>,
         \A d \in refused[t] :
           d \in rejections'[t] \/ (task'[c].step = "record" /\ task'[c].event.driver = d),
         task'[c].step \in Looking =>
           refused[t] \subseteq task'[c].excluded /\ task'[c].best \notin refused[t]
  PROVE  InSearch(t)'
<1>1. /\ Working(t) = {c} /\ Queued(t) = {} /\ Answered(t) = {} /\ ~Offered(t)
      /\ task[c].event.trip = t /\ Searching(task[c].event)
  BY DEF InSearch, OneSearch, Working
<1>2. Queued(t)' = {} /\ Answered(t)' = {} /\ ~Offered(t)'
  BY <1>1 DEF Queued, Answered, Offered, Searching
<1>3. Working(t)' = {c}
  BY <1>1 DEF Working, Busy, OthersStay, Searching
<1>4. Remembered(t)'
  BY <1>3 DEF Remembered
<1>5. Avoided(t)'
  BY <1>2, <1>3 DEF Avoided, InSearch
<1>6. QED  BY <1>2, <1>3, <1>4, <1>5 DEF InSearch, OneSearch

\* Trip.Matched is published with the driver found, or Trip.MatchFailed.
LEMMA SearchAnswered ==
  ASSUME IInv, NEW c \in Consumers, AnswerTrip(c), NEW t \in Rows, InSearch(t),
         c \in Working(t)
  PROVE  InSearch(t)'
<1> USE DEF IInv
<1> DEFINE a == [trip |-> task[c].event.trip, driver |-> task[c].best]
<1>1. /\ task[c] # NoTask /\ task[c].step = "probe"
      /\ Working(t) = {c} /\ Queued(t) = {} /\ Answered(t) = {} /\ ~Offered(t)
      /\ task[c].event.trip = t
      /\ UNCHANGED <<trips, stream, refused, rejections>>
  BY DEF AnswerTrip, Searched, At, InSearch, OneSearch, Working, redis, RideIdle
<1>2. /\ a \in Answer /\ answers' = Append(answers, a) /\ answers \in Seq(Answer)
      /\ a.trip = t /\ a.driver = task[c].best
  BY <1>1, PublishType DEF AnswerTrip, Publish, TypeOK
<1> HIDE DEF a
<1>3. /\ DOMAIN answers' = DOMAIN answers \cup {Len(answers) + 1}
      /\ answers'[Len(answers) + 1] = a
      /\ \A i \in DOMAIN answers : answers'[i] = answers[i]
  BY <1>2, AppendSeq
<1>4. Answered(t)' = {Len(answers) + 1}
  BY <1>1, <1>2, <1>3 DEF Answered
<1>5. OthersStay(c) /\ (task'[c] # NoTask => task'[c].step = "reserve")
  BY <1>1, DoneTask, GotoTask DEF AnswerTrip, Finish, Steps, MovesTo
<1>6. Working(t)' = {} /\ Queued(t)' = {} /\ ~Offered(t)'
  BY <1>1, <1>5 DEF Working, Busy, OthersStay, Queued, Offered, Searching
<1>7. Remembered(t)'
  BY <1>1 DEF InSearch, Remembered
<1>8. Avoided(t)'
  BY <1>1, <1>2, <1>3, <1>4, <1>6 DEF InSearch, Avoided, Looking
<1>9. QED  BY <1>4, <1>6, <1>7, <1>8 DEF InSearch, OneSearch

LEMMA WithinSearch ==
  ASSUME IInv, NEW c \in Consumers, Within(c), NEW t \in Rows \ disturbed',
         InSearch(t), c \in Working(t)
  PROVE  InSearch(t)'
<1> USE DEF IInv
<1>1. /\ task[c] # NoTask /\ OthersStay(c) /\ StepFits(task[c])
      /\ task[c].event.trip = t /\ Searching(task[c].event)
      /\ task[c].step # "reserve"
      /\ UNCHANGED <<trips, stream, refused>>
      /\ UNCHANGED answers \/ AnswerTrip(c)
      /\ task'[c] # NoTask => task'[c].event = task[c].event
  BY WithinTask, WithinFrame, TaskTypes DEF Working
<1>2. Queued(t) = {} /\ Working(t) = {c}
  BY DEF InSearch, OneSearch
<1>3. \A d \in refused[t] :
        d \in rejections[t] \/ (task[c].step = "record" /\ task[c].event.driver = d)
  BY <1>2 DEF InSearch, Remembered
<1>4. task[c].step \in Looking =>
        refused[t] \subseteq task[c].excluded /\ task[c].best \notin refused[t]
  BY <1>2 DEF InSearch, Avoided
<1>5. NoDriver \notin refused[t] /\ t \in Trips
  BY NoDriverFresh DEF TypeOK
\* MatchDriver goes on with the same list and the same driver.
<1>6. ASSUME NEW s \in Looking, MovesTo(c, s), UNCHANGED <<answers, rejections>>,
             task[c].step \in Looking
      PROVE  InSearch(t)'
  <2>1. /\ task'[c] # NoTask /\ task'[c].step = s /\ s \notin {"reserve", "record"}
        /\ task'[c].event = task[c].event
        /\ task'[c].excluded = task[c].excluded /\ task'[c].best = task[c].best
    BY <1>6, NoTaskFresh DEF MovesTo, Looking
  <2>2. \A d \in refused[t] : d \in rejections'[t]
    BY <1>3, <1>6 DEF Looking
  <2>3. QED  BY <1>1, <1>4, <1>6, <2>1, <2>2, StillSearching
<1>7. CASE Record(c)
  <2>1. MovesTo(c, "release") /\ UNCHANGED answers
    BY <1>1, <1>7, GotoTask DEF Record, Steps, Inside, RedisOnly
  <2>2. rejections'[t] = rejections[t] \cup {task[c].event.driver}
    BY <1>1, <1>5, <1>7 DEF Record, TypeOK
  <2>3. QED  BY <1>1, <1>3, <2>1, <2>2, StillSearching, NoTaskFresh DEF MovesTo, Looking
<1>8. CASE Release(c)
  <2>1. MovesTo(c, "search") /\ UNCHANGED <<answers, rejections>> /\ task[c].step = "release"
    BY <1>1, <1>8, GotoTask DEF Release, Steps, RedisOnly, StepFits, Searching, At
  <2>2. QED  BY <1>1, <1>3, <2>1, StillSearching, NoTaskFresh DEF MovesTo, Looking
<1>9. CASE Search(c)
  <2>1. /\ task[c].step = "search" /\ UNCHANGED <<answers, rejections>>
    BY <1>9 DEF Search, At, Inside, RedisOnly, redis
  <2>2. task'[c] \in Task /\ task'[c].step = "list"
    BY <1>9, SearchTask
  <2>3. QED  BY <1>1, <1>3, <2>1, <2>2, StillSearching, NoTaskFresh DEF Looking
<1>10. CASE ReadRejections(c)
  <2>1. /\ task[c].step = "list" /\ task[c].best = NoDriver
        /\ UNCHANGED <<answers, rejections>>
    BY <1>1, <1>10 DEF ReadRejections, At, StepFits, Inside, RedisOnly, redis
  <2>2. /\ task'[c] \in Task /\ task'[c].step = "probe"
        /\ task'[c].best = task[c].best
        /\ rejections[t] \subseteq task'[c].excluded
    BY <1>1, <1>10, ListTask
  <2>3. refused[t] \subseteq task'[c].excluded /\ task'[c].best \notin refused[t]
    BY <1>3, <1>5, <2>1, <2>2
  <2>4. QED  BY <1>1, <1>3, <2>1, <2>2, <2>3, StillSearching, NoTaskFresh
<1>11. CASE Skip(c) \/ Evict(c)
  <2>1. task[c].step \in {"probe", "evict"} /\ Pass(c) /\ task[c].left # <<>>
        /\ UNCHANGED <<answers, rejections>>
    BY <1>1, <1>11 DEF Skip, Evict, At, StepFits, Inside, RedisOnly, redis
  <2>2. MovesTo(c, "probe")
    BY <1>1, <2>1, PassTask
  <2>3. QED  BY <1>6, <2>1, <2>2 DEF Looking
<1>12. CASE LooksFree(c) \/ FindStale(c)
  <2>1. /\ task[c].step \in Looking /\ UNCHANGED <<answers, rejections>>
        /\ Goto(c, "fresh") \/ Goto(c, "evict")
    BY <1>12 DEF LooksFree, FindStale, At, Inside, RedisOnly, redis, Looking
  <2>2. MovesTo(c, "fresh") \/ MovesTo(c, "evict")
    BY <1>1, <2>1, GotoTask DEF Steps
  <2>3. QED  BY <1>6, <2>1, <2>2 DEF Looking
<1>13. CASE Keep(c)
  <2>1. task[c].step = "fresh" /\ UNCHANGED <<answers, rejections>>
    BY <1>13 DEF Keep, At, Inside, RedisOnly, redis
  <2>2. /\ task'[c] \in Task /\ task'[c].step = "probe"
        /\ task'[c].excluded = task[c].excluded
        /\ task'[c].best \notin refused[t]
    BY <1>4, <1>13, <2>1, KeepTask DEF Looking
  <2>3. QED  BY <1>1, <1>3, <1>4, <2>1, <2>2, StillSearching, NoTaskFresh DEF Looking
<1>14. CASE AnswerTrip(c)
  BY <1>14, SearchAnswered
<1>15. ~Reserve(c) /\ ~Confirm(c) /\ ~ForgetRejections(c)
  BY <1>1 DEF Reserve, Confirm, ForgetRejections, At, StepFits, Searching
<1>16. QED  BY <1>7, <1>8, <1>9, <1>10, <1>11, <1>12, <1>13, <1>14, <1>15 DEF Within

\* The search of a trip is in order after every step that leaves the trip
\* open and undisturbed.
LEMMA SearchStep ==
  ASSUME IInv, [Next]_vars, NEW t \in (Rows \ disturbed)', IsOpen(t)'
  PROVE  InSearch(t)'
<1>1. disturbed \subseteq disturbed' /\ t \notin disturbed /\ t \notin disturbed'
  BY RowsStay DEF IInv
<1>2. ASSUME t \in Rows
      PROVE  NotCancelled(t) /\ InSearch(t)
  <2>1. IsOpen(t)
    BY <1>2, StaysClosed DEF IInv
  <2>2. QED  BY <1>1, <1>2, <2>1 DEF IInv, OpenTrips
<1>3. ASSUME NEW u \in Trips, RideOnly, Operation(u) PROVE InSearch(t)'
  <2>1. CASE t \in Rows
    BY <1>1, <1>2, <1>3, <2>1, RideSearch
  <2>2. CASE t \notin Rows
    <3>1. Asks(u) /\ u = t
      BY <1>3, <2>2
         DEF Operation, Asks, Accepts, Volunteers, Rejects, Closes, Starts, RowBecomes
    <3>2. QED  BY <1>3, <3>1, SearchBegins
  <2>3. QED  BY <2>1, <2>2
<1>4. CASE RideStep
  BY <1>3, <1>4, RideEffect DEF RideStep, IInv
<1>5. CASE UNCHANGED trips \/ ApplyAnswer
  <2>1. t \in Rows
    BY <1>5, ApplyEffect DEF Applies, RowBecomes, Rows, IInv
  <2>2. NotCancelled(t) /\ InSearch(t)
    BY <1>2, <2>1
  <2>3. CASE World \/ UNCHANGED vars
    BY <2>1, <2>2, <2>3, WorldFrame, AsideSearch
  <2>4. ASSUME NEW c \in Consumers, Within(c) PROVE InSearch(t)'
    BY <1>1, <2>1, <2>2, <2>4, ElsewhereSearch, WithinSearch
  <2>5. CASE ApplyAnswer
    BY <2>1, <2>2, <2>5, ApplySearch
  <2>6. CASE LoseAnswer
    BY <2>1, <2>2, <2>6, LoseSearch
  <2>7. ASSUME NEW c \in Consumers, Take(c) PROVE InSearch(t)'
    BY <2>1, <2>2, <2>7, TakeSearch
  <2>8. ASSUME NEW c \in Consumers, GoWrong(c) PROVE InSearch(t)'
    BY <1>1, <2>1, <2>2, <2>8, AstraySearch
  <2>9. ASSUME NEW c \in Consumers, NEW k \in pending, Reclaim(c, k) PROVE InSearch(t)'
    BY <1>1, <2>1, <2>2, <2>9, ReclaimSearch
  <2>10. QED  BY <1>4, <2>3, <2>4, <2>5, <2>6, <2>7, <2>8, <2>9, NextCases
<1>6. QED  BY <1>4, <1>5, TripsCases DEF RideStep, IInv

-----------------------------------------------------------------------------
(* For any number of replicas and faults. *)

LEMMA InitInv == Init => IInv
<1> SUFFICES ASSUME Init PROVE IInv
  OBVIOUS
<1>1. Rows = {} /\ stream = <<>> /\ answers = <<>> /\ pending = {} /\ Busy = {}
  BY DEF Init, Rows, Busy
<1>2. TypeOK
  BY <1>1, MatchingFaults, UnofferedBound DEF Init, TypeOK
<1>3. InFlight = {}
  BY <1>1 DEF InFlight
<1>4. Fits /\ Named /\ Grounded /\ OpenTrips
  BY <1>1, <1>3 DEF Init, Fits, Named, Grounded, OpenTrips
<1>5. QED  BY <1>2, <1>4 DEF IInv

LEMMA NextInv == IInv /\ [Next]_vars => IInv'
<1> SUFFICES ASSUME IInv, [Next]_vars PROVE IInv'
  OBVIOUS
<1>1. TypeOK' /\ Fits' /\ Named' /\ Grounded'
  BY TypeStep, FitsStep, NamedStep, GroundedStep DEF IInv
<1>2. OpenTrips'
  BY NotCancelledStep, SearchStep DEF OpenTrips
<1>3. QED  BY <1>1, <1>2 DEF IInv

\* The invariant of the matching loop, for any trips, drivers, replicas and
\* faults.
THEOREM Invariance == Spec => []IInv
BY InitInv, NextInv, PTL DEF Spec

\* Every variable has its type: every write of driver_status, of the index, of
\* driver_last_seen and of trip_rejections, and every event, is of a driver or
\* a trip there is, whatever fails and however often a failure is counted.
THEOREM TypeCorrect == Spec => []TypeOK
<1>1. IInv => TypeOK
  BY DEF IInv
<1>2. QED  BY <1>1, Invariance, PTL

\* RecordRejection before MatchDriver keeps a trip from a driver who rejected
\* it, whichever replicas handle its events and however they interleave,
\* although answers are lost and other trips are accepted unoffered; unless an
\* event of this trip was interrupted or handled twice, its list could not be
\* read, or it was accepted unoffered itself.
THEOREM RejectedStaysAway == Spec => []RejectedNotOfferedAgain
<1>1. IInv => RejectedNotOfferedAgain
  BY DEF IInv, OpenTrips, InSearch, Avoided, RejectedNotOfferedAgain
<1>2. QED  BY <1>1, Invariance, PTL

-----------------------------------------------------------------------------
(* With one replica and no fault. *)

LEMMA CalmCases ==
  ASSUME OneReplica, CalmInv, [Next]_vars
  PROVE  /\ ~Fault /\ pending' = {} /\ Regular' \subseteq Regular
         /\ \/ RideStep \/ ApplyAnswer \/ World \/ UNCHANGED vars
            \/ \E c \in Consumers : Take(c) \/ Within(c)
<1>1. ~Fault
  BY DEF Fault, OneReplica, CalmInv, IInv, TypeOK
<1>2. 1 .. MaxFaults = {}
  BY DEF OneReplica
<1>3. \A c \in Consumers : ~GoWrong(c)
  BY <1>1, <1>2 DEF GoWrong, Interrupt, HandledAgain, AnswerRepeated
<1>4. ~LoseAnswer /\ pending = {}
  BY <1>1 DEF LoseAnswer, CalmInv
<1>5. \/ RideStep \/ ApplyAnswer \/ World \/ UNCHANGED vars
      \/ \E c \in Consumers : Take(c) \/ Within(c)
  BY <1>3, <1>4, NextCases
<1>6. UNCHANGED pending
  <2>1. ASSUME NEW c \in Consumers, Take(c) \/ Within(c) PROVE UNCHANGED pending
    BY <2>1, TakeType, WithinFrame DEF CalmInv, IInv
  <2>2. ASSUME RideStep PROVE UNCHANGED pending
    BY <2>2, RideEffect DEF RideStep, RideOnly, CalmInv, IInv
  <2>3. ASSUME ApplyAnswer PROVE UNCHANGED pending
    BY <2>3 DEF ApplyAnswer
  <2>4. ASSUME World \/ UNCHANGED vars PROVE UNCHANGED pending
    BY <2>4, WorldFrame DEF Aside
  <2>5. QED  BY <1>5, <2>1, <2>2, <2>3, <2>4
<1>7. Regular' \subseteq Regular
  BY RowsStay DEF Regular, CalmInv, IInv
<1>8. QED  BY <1>1, <1>4, <1>5, <1>6, <1>7

\* The steps of an event, one after the other.
LEMMA WithinStages ==
  ASSUME TypeOK, Fits, NEW c \in Consumers, Within(c), task'[c] # NoTask
  PROVE  /\ task'[c].step \in Naming => task[c].step \in {"record", "forget"}
         /\ task'[c].step = "reserve" => AnswerTrip(c)
         /\ task'[c].step = "fresh" => LooksFree(c) /\ task'[c].left = task[c].left
         /\ task'[c].step \in Looking \cup {"reserve"} /\ task'[c].best # NoDriver =>
              \/ task[c].step \in Looking /\ task'[c].best = task[c].best
              \/ Keep(c) /\ task'[c].best = Candidate(c)
<1>1. task[c] # NoTask /\ StepFits(task[c])
  BY WithinFrame, TaskTypes
<1>2. ~Done(c)
  BY DoneTask
<1>3. CASE Record(c)
  <2>1. MovesTo(c, "release") /\ task[c].step = "record"
    BY <1>1, <1>3, GotoTask DEF Record, Steps, At
  <2>2. QED  BY <2>1 DEF MovesTo, Naming, Looking
<1>4. CASE Release(c)
  <2>1. MovesTo(c, "search")
    BY <1>1, <1>2, <1>4, GotoTask DEF Release, Finish, Steps
  <2>2. QED  BY <2>1 DEF MovesTo, Naming, Looking
<1>5. CASE Search(c)
  BY <1>5, SearchTask DEF Naming, Looking
<1>6. CASE ReadRejections(c)
  BY <1>1, <1>6, ListTask DEF ReadRejections, At, StepFits, Naming, Looking
<1>7. CASE Skip(c) \/ Evict(c)
  <2>1. task[c].step \in {"probe", "evict"} /\ Pass(c) /\ task[c].left # <<>>
    BY <1>1, <1>7 DEF Skip, Evict, At, StepFits
  <2>2. MovesTo(c, "probe")
    BY <1>1, <2>1, PassTask
  <2>3. QED  BY <2>1, <2>2 DEF MovesTo, Naming, Looking
<1>8. CASE LooksFree(c)
  <2>1. MovesTo(c, "fresh") /\ task'[c].left = task[c].left /\ task[c].step = "probe"
    BY <1>1, <1>8, GotoTask DEF LooksFree, Steps, At
  <2>2. QED  BY <1>8, <2>1 DEF MovesTo, Naming, Looking
<1>9. CASE FindStale(c)
  <2>1. MovesTo(c, "evict") /\ task[c].step = "fresh"
    BY <1>1, <1>9, GotoTask DEF FindStale, Steps, At
  <2>2. QED  BY <2>1 DEF MovesTo, Naming, Looking
<1>10. CASE Keep(c)
  BY <1>10, KeepTask DEF Keep, At, Naming, Looking
<1>11. CASE AnswerTrip(c)
  <2>1. MovesTo(c, "reserve") /\ task[c].step = "probe"
    BY <1>1, <1>2, <1>11, GotoTask DEF AnswerTrip, Searched, Finish, Steps, At
  <2>2. QED  BY <1>11, <2>1 DEF MovesTo, Naming, Looking
<1>12. CASE ForgetRejections(c)
  <2>1. MovesTo(c, "release") /\ task[c].step = "forget"
    BY <1>1, <1>2, <1>12, GotoTask DEF ForgetRejections, Finish, Steps, At
  <2>2. QED  BY <2>1 DEF MovesTo, Naming, Looking
<1>13. ~Reserve(c) /\ ~Confirm(c)
  BY <1>2 DEF Reserve, Confirm, Finish
<1>14. QED  BY <1>3, <1>4, <1>5, <1>6, <1>7, <1>8, <1>9, <1>10, <1>11, <1>12, <1>13
            DEF Within

\* What a step inside an event does to driver_status.
LEMMA WithinStatus ==
  ASSUME CalmInv, NEW c \in Consumers, Within(c)
  PROVE  \/ UNCHANGED status
         \/ /\ Release(c) /\ c \in Ending
            /\ \A d \in Drivers : status'[d] = IF d = task[c].event.driver THEN "free"
                                               ELSE status[d]
         \/ /\ Reserve(c) /\ task[c].step = "reserve" /\ task'[c] = NoTask
            /\ status[task[c].best] = "free"
            /\ \A d \in Drivers : status'[d] = IF d = task[c].best THEN "ON_OFFER"
                                               ELSE status[d]
         \/ /\ Confirm(c) /\ task[c].step = "confirm" /\ task'[c] = NoTask
            /\ \A d \in Drivers : status'[d] = IF d = task[c].event.driver THEN "ON_TRIP"
                                               ELSE status[d]
<1> USE DEF CalmInv, IInv
<1>1. task[c] # NoTask /\ StepFits(task[c]) /\ c \in Busy
  BY WithinFrame, TaskTypes
<1>2. CASE Release(c)
  BY <1>1, <1>2 DEF Release, SetDriverStatus, At, StepFits, Ending, Ends, TypeOK
<1>3. CASE Reserve(c)
  <2>1. /\ task[c].step = "reserve" /\ task[c].best # NoDriver /\ task'[c] = NoTask
        /\ status' = [status EXCEPT ![task[c].best] = "ON_OFFER"]
    BY <1>1, <1>3, DoneTask DEF Reserve, Finish, SetDriverStatus, At, StepFits
  <2>2. status[task[c].best] = "free"
    BY <1>1, <2>1 DEF FoundIsFree
  <2>3. QED  BY <1>3, <2>1, <2>2 DEF TypeOK
<1>4. CASE Confirm(c)
  <2>1. /\ task[c].step = "confirm" /\ task'[c] = NoTask
        /\ status' = [status EXCEPT ![task[c].event.driver] = "ON_TRIP"]
    BY <1>4, DoneTask DEF Confirm, Finish, SetDriverStatus, At
  <2>2. QED  BY <1>4, <2>1 DEF TypeOK
<1>5. CASE ~Release(c) /\ ~Reserve(c) /\ ~Confirm(c)
  BY <1>5 DEF Within, Record, Search, ReadRejections, Skip, LooksFree, Keep, FindStale,
     Evict, AnswerTrip, ForgetRejections, redis
<1>6. QED  BY <1>2, <1>3, <1>4, <1>5

\* What becomes of driver_status when its key expires.
LEMMA ExpiryFrees ==
  ASSUME TypeOK, World \/ UNCHANGED vars
  PROVE  \A x \in Drivers : status[x] = "free" => status'[x] = "free"
BY DEF World, Locate, Heartbeat, LastSeenExpires, StatusExpires, TypeOK, vars

\* No key expires early.
LEMMA BoundStays ==
  ASSUME OneReplica, CalmInv, [Next]_vars, World \/ UNCHANGED vars, NEW d \in Regular,
         Bound(d)
  PROVE  status'[d] = status[d]
<1>1. ~Fault /\ d \notin irregular /\ d \in Drivers /\ TypeOK
  BY CalmCases DEF Regular, CalmInv, IInv
<1>2. ASSUME NEW e \in Drivers, StatusExpires(e) PROVE status'[d] = status[d]
  <2>1. e # d
    BY <1>1, <1>2 DEF StatusExpires
  <2>2. QED  BY <1>1, <1>2, <2>1 DEF StatusExpires, TypeOK
<1>3. QED  BY <1>2 DEF World, Locate, Heartbeat, LastSeenExpires, vars

\* An engagement begins with an answer.
Answers(c, t, d) == AnswerTrip(c) /\ task[c].event.trip = t /\ task[c].best = d

\* A driver promised to the trip it is offered, or an event names.
LEMMA OfferedIsPromised ==
  ASSUME NEW t, t \in Rows, trips[t].status \in {"REQUESTED", "ACCEPTED", "IN_PROGRESS"}
  PROVE  IsOpen(t) /\ Promised(t, trips[t].driver)
BY DEF IsOpen, Promised

\* What ride-service emits names a driver promised to the trip, or one whom an
\* unoffered acceptance has just made irregular.
LEMMA EmittedNames ==
  ASSUME TypeOK, NEW t \in Trips, Ride(t), NEW k \in Event, stream' = Append(stream, k),
         k.driver \in Regular'
  PROVE  k.trip = t /\ Promised(t, k.driver)
<1>1. k.driver # NoDriver /\ k.driver \notin irregular'
  BY NoDriverFresh DEF Regular
<1>2. \A d \in Drivers : Volunteers(t, d) => d \in irregular'
  BY DEF Volunteers
<1>3. /\ k.trip = t /\ k.driver = trips[t].driver
      /\ Accepts(t) \/ Rejects(t) \/ Closes(t)
  BY <1>1, <1>2, EmittedIs
<1>4. t \in Rows /\ trips[t].status \in {"REQUESTED", "ACCEPTED", "IN_PROGRESS"}
  BY <1>3 DEF Accepts, Rejects, Closes, RowBecomes, IsOpen
<1>5. QED  BY <1>3, <1>4, OfferedIsPromised

LEMMA PromisedStep ==
  ASSUME OneReplica, CalmInv, [Next]_vars, NEW t \in Trips, NEW d \in Regular',
         Promised(t, d)'
  PROVE  Promised(t, d) \/ \E c \in Consumers : Answers(c, t, d)
<1> USE DEF CalmInv, IInv
<1> DEFINE x == [trip |-> t, driver |-> d]
<1>1. x \in Answer /\ d # NoDriver /\ d \notin irregular'
  BY NoDriverFresh DEF Answer, AnyDriver, Regular
<1>2. IsOpen(t)' /\ (trips'[t].driver = d \/ InSeq(x, answers)')
  BY DEF Promised
<1>3. ASSUME NEW u \in Trips, Ride(u) PROVE Promised(t, d)
  <2>1. UNCHANGED answers /\ Operation(u)
    BY <1>3, RideEffect DEF RideOnly
  <2>2. Asks(u) => u # t
    BY <1>1, <1>2, <2>1 DEF Asks, InSeq, Grounded
  <2>3. t \in Rows
    BY <1>2, <2>1, <2>2
       DEF Operation, Asks, Accepts, Volunteers, Rejects, Closes, Starts, RowBecomes, IsOpen
  <2>4. IsOpen(t)
    BY <1>2, <2>3, StaysClosed
  <2>5. \/ trips'[t].driver = trips[t].driver
        \/ trips'[t].driver \in {NoDriver} \cup irregular'
    BY <2>1, <2>2, <2>3
       DEF Operation, Asks, Accepts, Volunteers, Rejects, Closes, Starts, RowBecomes
  <2>6. QED  BY <1>1, <1>2, <2>1, <2>4, <2>5 DEF Promised, InSeq
<1>4. CASE ApplyAnswer
  <2>1. Applies(Head(answers)) /\ answers \in Seq(Answer)
    BY <1>4, ApplyEffect DEF TypeOK
  <2>2. t \in Rows
    BY <1>2, <2>1 DEF IsOpen, Applies, RowBecomes
  <2>3. IsOpen(t)
    BY <1>2, <2>2, StaysClosed
  <2>4. InSeq(x, answers)' => InSeq(x, answers)
    BY <2>1, TailSeq DEF Applies, InSeq
  <2>5. trips'[t].driver # trips[t].driver =>
          Head(answers) = [trip |-> t, driver |-> trips'[t].driver]
    BY <1>2, <2>1, <2>2 DEF Applies, RowBecomes, IsOpen, Answer
  <2>6. InSeq(Head(answers), answers)
    BY <2>1, TailSeq DEF Applies, InSeq
  <2>7. QED  BY <1>2, <2>3, <2>4, <2>5, <2>6 DEF Promised
<1>5. CASE UNCHANGED <<trips, answers>>
  BY <1>5 DEF Promised, IsOpen, Rows, InSeq
<1>6. ASSUME NEW c \in Consumers, Within(c), answers' # answers
      PROVE  Promised(t, d) \/ Answers(c, t, d)
  <2> DEFINE a == [trip |-> task[c].event.trip, driver |-> task[c].best]
  <2>1. AnswerTrip(c) /\ Publish(c) /\ task[c] # NoTask /\ UNCHANGED trips
    BY <1>6, WithinFrame
  <2>2. a \in Answer /\ answers \in Seq(Answer) /\ answers' = Append(answers, a)
    BY <2>1, PublishType DEF Publish, TypeOK
  <2>3. x = a => Answers(c, t, d)
    BY <2>1 DEF Answers
  <2> HIDE DEF a, x
  <2>4. InSeq(x, answers)' => InSeq(x, answers) \/ x = a
    BY <2>2, AppendSeq DEF InSeq
  <2>5. QED  BY <1>2, <2>1, <2>3, <2>4 DEF Promised, IsOpen, Rows, x
<1>7. ASSUME NEW c \in Consumers, Within(c) PROVE UNCHANGED trips
  BY <1>7, WithinFrame
<1>8. ASSUME World \/ UNCHANGED vars PROVE UNCHANGED <<trips, answers>>
  BY <1>8, WorldFrame DEF Aside
<1>9. ASSUME NEW c \in Consumers, Take(c) PROVE UNCHANGED <<trips, answers>>
  BY <1>9, TakeType
<1>10. QED  BY <1>3, <1>4, <1>5, <1>6, <1>7, <1>8, <1>9, CalmCases DEF RideStep

\* An event names a driver the row had, or one an event named before.
LEMMA ConcernedStep ==
  ASSUME OneReplica, CalmInv, [Next]_vars, NEW t \in Trips, NEW d \in Regular',
         Concerned(t, d)'
  PROVE  Engaged(t, d)
<1> USE DEF CalmInv, IInv
<1>1. CASE UNCHANGED <<stream, task>>
  BY <1>1 DEF Concerned, Engaged, Busy
<1>2. ASSUME NEW u \in Trips, Ride(u) PROVE Engaged(t, d)
  <2>1. UNCHANGED task /\ Operation(u)
    BY <1>2, RideEffect DEF RideOnly
  <2>2. UNCHANGED stream \/ \E k \in Event : stream' = Append(stream, k)
    BY <2>1 DEF Operation, Asks, Accepts, Volunteers, Rejects, Closes, Starts, Appended
  <2>3. ASSUME NEW k \in Event, stream' = Append(stream, k) PROVE Engaged(t, d)
    <3>1. \A i \in DOMAIN stream' :
            \/ i \in DOMAIN stream /\ stream'[i] = stream[i]
            \/ stream'[i] = k
      BY <2>3, AppendSeq DEF TypeOK
    <3>2. Concerned(t, d) \/ (k.trip = t /\ k.driver = d)
      BY <2>1, <3>1 DEF Concerned, Busy
    <3>3. QED  BY <1>2, <2>3, <3>2, EmittedNames DEF Engaged
  <2>4. QED  BY <1>1, <2>1, <2>2, <2>3
<1>3. ASSUME NEW c \in Consumers, Take(c) PROVE Engaged(t, d)
  <2>1. /\ stream \in Seq(Event) /\ stream # <<>> /\ stream' = Tail(stream)
        /\ OthersStay(c) /\ (task'[c] # NoTask => task'[c].event = Head(stream))
    BY <1>3, TakeType, BeginTask
  <2>2. \A i \in DOMAIN stream' : \E j \in DOMAIN stream : stream'[i] = stream[j]
    BY <2>1, TailSeq
  <2>3. \E j \in DOMAIN stream : Head(stream) = stream[j]
    BY <2>1, TailSeq
  <2>4. QED  BY <2>1, <2>2, <2>3 DEF Concerned, Engaged, Busy, OthersStay
<1>4. ASSUME NEW c \in Consumers, Within(c) PROVE Engaged(t, d)
  <2>1. /\ task[c] # NoTask /\ OthersStay(c) /\ UNCHANGED stream
        /\ task'[c] # NoTask => task'[c].event = task[c].event
    BY <1>4, WithinTask, WithinFrame
  <2>2. task'[c] # NoTask /\ task'[c].step \in Naming => task[c].step \in Naming
    BY <1>4, WithinStages DEF Naming
  <2>3. QED  BY <2>1, <2>2 DEF Concerned, Engaged, Busy, OthersStay
<1>5. ASSUME ApplyAnswer \/ World \/ UNCHANGED vars PROVE UNCHANGED <<stream, task>>
  BY <1>5, WorldFrame DEF Aside, ApplyAnswer
<1>6. QED  BY <1>1, <1>2, <1>3, <1>4, <1>5, CalmCases DEF RideStep

LEMMA EngagedStep ==
  ASSUME OneReplica, CalmInv, [Next]_vars, NEW t \in Trips, NEW d \in Regular',
         Engaged(t, d)'
  PROVE  Engaged(t, d) \/ \E c \in Consumers : Answers(c, t, d)
BY PromisedStep, ConcernedStep DEF Engaged

\* A driver in an answer was free, and so engaged by no trip.
LEMMA AnsweredWasFree ==
  ASSUME OneReplica, CalmInv, NEW c \in Consumers, NEW t \in Trips, NEW d \in Regular,
         Answers(c, t, d)
  PROVE  /\ \A u \in Trips : ~Engaged(u, d)
         /\ ToReserve(d)'
<1> USE DEF CalmInv, IInv
<1>1. /\ task[c] # NoTask /\ task[c].step = "probe" /\ task[c].best = d /\ d # NoDriver
      /\ c \in Busy
  BY NoDriverFresh DEF Answers, AnswerTrip, Searched, At, Busy, Regular
<1>2. status[d] = "free"
  BY <1>1 DEF FoundIsFree, Looking
<1>3. ~ToReserve(d)
  BY <1>1 DEF ToReserve, Busy, OneReplica
<1>4. MovesTo(c, "reserve")
  BY <1>1, GotoTask DEF Answers, AnswerTrip, Steps
<1>5. ToReserve(d)'
  BY <1>1, <1>4, NoTaskFresh DEF ToReserve, Busy, MovesTo
<1>6. QED  BY <1>2, <1>3, <1>5 DEF EngagedIsNotFree

LEMMA OneEngagementStep ==
  ASSUME OneReplica, CalmInv, [Next]_vars
  PROVE  OneEngagement'
<1> SUFFICES ASSUME NEW d \in Regular', NEW t \in Trips, NEW u \in Trips,
                    Engaged(t, d)', Engaged(u, d)'
             PROVE  t = u
  BY DEF OneEngagement
<1>1. d \in Regular
  BY CalmCases
<1>2. Engaged(t, d) \/ \E c \in Consumers : Answers(c, t, d)
  BY EngagedStep
<1>3. Engaged(u, d) \/ \E c \in Consumers : Answers(c, u, d)
  BY EngagedStep
<1>4. \A c, e \in Consumers : c = e
  BY DEF OneReplica
<1>5. CASE Engaged(t, d) /\ Engaged(u, d)
  BY <1>1, <1>5 DEF CalmInv, OneEngagement
<1>6. \A c \in Consumers : Answers(c, t, d) => ~Engaged(u, d)
  BY <1>1, AnsweredWasFree
<1>7. \A c \in Consumers : Answers(c, u, d) => ~Engaged(t, d)
  BY <1>1, AnsweredWasFree
<1>8. \A c, e \in Consumers : Answers(c, t, d) /\ Answers(e, u, d) => t = u
  BY <1>4 DEF Answers
<1>9. QED  BY <1>2, <1>3, <1>5, <1>6, <1>7, <1>8

\* ReleaseDriver ends the only engagement of the driver.
LEMMA ReleaseEnds ==
  ASSUME OneReplica, CalmInv, NEW c \in Consumers, Release(c), c \in Ending,
         NEW d \in Regular, task[c].event.driver = d, NEW t \in Trips
  PROVE  ~Promised(t, d) /\ ~Concerned(t, d)'
<1> USE DEF CalmInv, IInv
<1> DEFINE u == task[c].event.trip
<1>1. task[c] # NoTask /\ task[c].step = "release" /\ UNCHANGED stream /\ u \in Trips
      /\ c \in Busy
  BY TaskTypes DEF Release, At, RedisOnly, RideIdle
<1>2. Concerned(u, d) /\ Engaged(u, d)
  BY <1>1 DEF Concerned, Engaged, Naming
<1>3. Within(c)
  BY DEF Within
<1>4. ~Promised(u, d)
  BY DEF Ended, NoPromise
<1>5. ~Promised(t, d)
  BY <1>1, <1>2, <1>4 DEF OneEngagement, Engaged
<1>6. ~Concerned(t, d)'
  <2>1. \A j \in DOMAIN stream : stream[j].trip = u => stream[j].driver # d
    BY DEF LastWord, NotNamedAfter
  <2>2. \A e \in Consumers : e = c
    BY DEF OneReplica
  <2>3. task'[c] # NoTask => task'[c].step \notin Naming
    BY <1>1, <1>3, WithinStages
  <2>4. \A j \in DOMAIN stream : stream[j].trip = t => stream[j].driver # d
    <3> SUFFICES ASSUME NEW j \in DOMAIN stream, stream[j].trip = t, stream[j].driver = d
                 PROVE  FALSE
      OBVIOUS
    <3>1. Engaged(t, d)
      BY DEF Engaged, Concerned
    <3>2. t = u
      BY <1>1, <1>2, <3>1 DEF OneEngagement
    <3>3. QED  BY <2>1, <3>2
  <2>5. QED  BY <1>1, <2>2, <2>3, <2>4 DEF Concerned, Busy
<1>7. QED  BY <1>5, <1>6

LEMMA EngagedIsNotFreeStep ==
  ASSUME OneReplica, CalmInv, [Next]_vars
  PROVE  EngagedIsNotFree'
<1> SUFFICES ASSUME NEW d \in Regular', NEW t \in Trips, Engaged(t, d)'
             PROVE  status'[d] # "free" \/ ToReserve(d)'
  BY DEF EngagedIsNotFree
<1>1. d \in Regular /\ d \in Drivers /\ TypeOK /\ Fits
  BY CalmCases DEF Regular, CalmInv, IInv
<1>2. CASE \E c \in Consumers : Answers(c, t, d)
  BY <1>1, <1>2, AnsweredWasFree
<1>3. CASE ~ \E c \in Consumers : Answers(c, t, d)
  <2>1. Engaged(t, d)
    BY <1>3, EngagedStep
  <2>2. status[d] # "free" \/ ToReserve(d)
    BY <1>1, <2>1 DEF CalmInv, EngagedIsNotFree
  <2>3. CASE UNCHANGED <<status, task>>
    BY <2>2, <2>3 DEF ToReserve, Busy
  <2>4. ASSUME World \/ UNCHANGED vars PROVE UNCHANGED task /\ status'[d] = status[d]
    <3>1. Bound(d)
      BY <2>1 DEF Bound, Engaged, Concerned, InFlight
    <3>2. QED  BY <1>1, <2>4, <3>1, BoundStays, WorldFrame DEF Aside
  <2>5. ASSUME NEW c \in Consumers, Take(c)
        PROVE  status'[d] # "free" \/ ToReserve(d)'
    <3>1. UNCHANGED status /\ ~ToReserve(d)
      BY <1>1, <2>5, TakeType DEF redis, ToReserve, Busy, OneReplica
    <3>2. QED  BY <2>2, <3>1
  <2>6. ASSUME NEW c \in Consumers, Within(c)
        PROVE  status'[d] # "free" \/ ToReserve(d)'
    <3>1. CASE Release(c) /\ c \in Ending /\ task[c].event.driver = d
      <4>1. ~Promised(t, d) /\ ~Concerned(t, d)'
        BY <1>1, <3>1, ReleaseEnds
      <4>2. ~Promised(t, d)'
        BY <1>3, <4>1, PromisedStep
      <4>3. QED  BY <4>1, <4>2 DEF Engaged
    <3>2. CASE ~(Release(c) /\ c \in Ending /\ task[c].event.driver = d)
      <4>1. status[d] # "free" => status'[d] # "free"
        BY <1>1, <2>6, <3>2, WithinStatus
      <4>2. CASE ToReserve(d)
        <5>1. task[c].step = "reserve" /\ task[c].best = d
          BY <4>2 DEF ToReserve, Busy, OneReplica
        <5>2. Reserve(c)
          BY <2>6, <5>1, WithinAt
        <5>3. status'[d] = "ON_OFFER"
          BY <1>1, <5>1, <5>2 DEF Reserve, SetDriverStatus, TypeOK
        <5>4. QED  BY <5>3
      <4>3. QED  BY <2>2, <4>1, <4>2
    <3>3. QED  BY <3>1, <3>2
  <2>7. ASSUME RideStep PROVE UNCHANGED <<status, task>>
    BY <1>1, <2>7, RideEffect DEF RideStep, RideOnly, redis
  <2>8. ASSUME ApplyAnswer PROVE UNCHANGED <<status, task>>
    BY <2>8 DEF ApplyAnswer, redis
  <2>9. QED  BY <2>2, <2>3, <2>4, <2>5, <2>6, <2>7, <2>8, CalmCases DEF ToReserve, Busy
<1>4. QED  BY <1>2, <1>3

\* Only the one replica takes a free driver.
LEMMA FoundIsFreeStep ==
  ASSUME OneReplica, CalmInv, [Next]_vars
  PROVE  FoundIsFree'
<1> USE DEF CalmInv, IInv
\* The drivers a consumer has to find free.
<1> DEFINE Found(c, d) ==
      \/ task[c].step \in Looking \cup {"reserve"} /\ task[c].best = d /\ d # NoDriver
      \/ task[c].step = "fresh" /\ Head(task[c].left) = d
<1> SUFFICES ASSUME NEW c \in Consumers, task'[c] # NoTask, NEW d, Found(c, d)'
             PROVE  status'[d] = "free"
  BY DEF FoundIsFree, Busy, Candidate
<1>1. \A e \in Consumers : \A x : task[e] # NoTask /\ Found(e, x) => status[x] = "free"
  BY DEF FoundIsFree, Busy, Candidate
<1>2. TypeOK' /\ Fits'
  BY TypeStep, FitsStep
<1>3. d \in Drivers
  <2>1. task'[c] \in Task /\ StepFits(task'[c])
    BY <1>2 DEF TypeOK, Fits, Busy, StepFits, Searching
  <2>2. task'[c].best \in AnyDriver /\ task'[c].left \in Seq(Drivers)
    BY <2>1 DEF Task
  <2>3. task'[c].step = "fresh" => task'[c].left # <<>>
    BY <2>1 DEF StepFits
  <2>4. QED  BY <2>2, <2>3, TailSeq DEF AnyDriver
<1>4. ASSUME UNCHANGED task PROVE status[d] = "free"
  BY <1>1, <1>4
<1>5. CASE UNCHANGED <<status, task>>
  BY <1>4, <1>5
<1>6. ASSUME World \/ UNCHANGED vars PROVE status'[d] = "free"
  BY <1>3, <1>4, <1>6, ExpiryFrees, WorldFrame DEF Aside
<1>7. ASSUME NEW e \in Consumers, Take(e) PROVE FALSE
  <2>1. Begin(c, Head(stream)) /\ Head(stream) \in Event
    BY <1>7, TakeType DEF OneReplica
  <2>2. task'[c].step \notin Looking \cup {"reserve"}
    BY <2>1, BeginTask DEF Event, Types, Looking
  <2>3. QED  BY <2>2 DEF Looking
<1>8. ASSUME NEW e \in Consumers, Within(e) PROVE status'[d] = "free"
  <2>1. e = c /\ Within(c) /\ ~Fault /\ task[c] # NoTask
    BY <1>8, CalmCases, WithinFrame DEF OneReplica
  <2>2. \/ task[c].step \in Looking /\ task[c].best = d /\ d # NoDriver
        \/ Keep(c) /\ d = Candidate(c)
        \/ LooksFree(c) /\ d = Candidate(c)
    BY <2>1, WithinStages DEF Candidate
  <2>3. status[d] = "free"
    <3>1. CASE Keep(c) /\ d = Candidate(c)
      BY <1>1, <2>1, <3>1 DEF Keep, At, Candidate
    <3>2. CASE LooksFree(c) /\ d = Candidate(c)
      BY <2>1, <3>2 DEF LooksFree
    <3>3. CASE task[c].step \in Looking /\ task[c].best = d /\ d # NoDriver
      BY <1>1, <2>1, <3>3
    <3>4. QED  BY <2>2, <3>1, <3>2, <3>3
  <2>4. task[c].step \in Looking
    BY <2>2 DEF Keep, LooksFree, At, Looking
  <2>5. UNCHANGED status
    BY <2>1, <2>4, WithinStatus DEF Release, At, Looking
  <2>6. QED  BY <2>3, <2>5
<1>9. ASSUME RideStep PROVE UNCHANGED <<status, task>>
  BY <1>9, RideEffect DEF RideStep, RideOnly, redis
<1>10. ASSUME ApplyAnswer PROVE UNCHANGED <<status, task>>
  BY <1>10 DEF ApplyAnswer, redis
<1>11. QED  BY <1>5, <1>6, <1>7, <1>8, <1>9, <1>10, CalmCases


\* An answer offers the trip to a driver who was free, and so neither had the
\* trip nor an answer for it.
LEMMA OfferedOnceStep ==
  ASSUME OneReplica, CalmInv, [Next]_vars
  PROVE  OfferedOnce'
<1> USE DEF CalmInv, IInv
<1> SUFFICES ASSUME NEW t \in Rows', NEW d \in Regular', IsOpen(t)'
             PROVE  /\ \A i, j \in Offering(t, d)' : i = j
                    /\ trips'[t].driver = d => Offering(t, d)' = {}
  BY DEF OfferedOnce
<1> DEFINE x == [trip |-> t, driver |-> d]
<1>1. d \in Regular /\ d \in Drivers /\ d # NoDriver /\ d \notin irregular'
  BY CalmCases, NoDriverFresh DEF Regular
<1>2. ASSUME t \in Rows
      PROVE  /\ IsOpen(t) /\ t \in Trips
             /\ \A i, j \in Offering(t, d) : i = j
             /\ trips[t].driver = d => Offering(t, d) = {}
  <2>1. IsOpen(t)
    BY <1>2, StaysClosed
  <2>2. QED  BY <1>1, <1>2, <2>1 DEF OfferedOnce, TypeOK
<1>3. CASE t \in Rows /\ UNCHANGED answers /\ (trips'[t].driver = d => trips[t].driver = d)
  BY <1>2, <1>3 DEF Offering
<1>4. CASE UNCHANGED <<trips, answers>>
  BY <1>3, <1>4 DEF Rows
<1>5. ASSUME NEW u \in Trips, Ride(u)
      PROVE  /\ \A i, j \in Offering(t, d)' : i = j
             /\ trips'[t].driver = d => Offering(t, d)' = {}
  <2>1. UNCHANGED answers /\ Operation(u)
    BY <1>5, RideEffect DEF RideOnly
  <2>2. CASE Asks(u) /\ u = t
    BY <2>1, <2>2 DEF Asks, Offering, Grounded
  <2>3. CASE ~(Asks(u) /\ u = t)
    <3>1. t \in Rows /\ (trips'[t].driver = d => trips[t].driver = d)
      BY <1>1, <2>1, <2>3
         DEF Operation, Asks, Accepts, Volunteers, Rejects, Closes, Starts, RowBecomes
    <3>2. QED  BY <1>3, <2>1, <3>1
  <2>4. QED  BY <2>2, <2>3
<1>6. CASE ApplyAnswer
  <2>1. Applies(Head(answers)) /\ answers \in Seq(Answer)
    BY <1>6, ApplyEffect DEF TypeOK
  <2>2. t \in Rows
    BY <2>1 DEF Applies, RowBecomes
  <2>3. ASSUME NEW i \in Offering(t, d)'
        PROVE  i + 1 \in Offering(t, d) /\ i \in Nat
    BY <2>1, <2>3, TailSeq DEF Applies, Offering
  <2>4. trips'[t].driver = d /\ trips[t].driver # d => 1 \in Offering(t, d)
    <3>1. trips'[t].driver = d /\ trips[t].driver # d => Head(answers) = x
      BY <1>1, <2>1, <2>2 DEF Applies, RowBecomes, Answer
    <3>2. Head(answers) = answers[1] /\ 1 \in DOMAIN answers
      BY <2>1, TailSeq DEF Applies
    <3>3. QED  BY <3>1, <3>2 DEF Offering
  <2>5. ASSUME NEW i \in Offering(t, d)', NEW j \in Offering(t, d)' PROVE i = j
    <3>1. i + 1 = j + 1
      BY <1>2, <2>2, <2>3, <2>5
    <3>2. QED  BY <2>3, <2>5, <3>1
  <2>6. ASSUME trips'[t].driver = d, NEW i \in Offering(t, d)' PROVE FALSE
    <3>1. i + 1 \in Offering(t, d) /\ i + 1 # 1
      <4>1. i + 1 \in Offering(t, d) /\ i \in Nat /\ i \in DOMAIN Tail(answers)
        BY <2>1, <2>3, <2>6 DEF Applies, Offering
      <4>2. QED  BY <2>1, <4>1, TailSeq DEF Applies
    <3>2. QED  BY <1>2, <2>2, <2>4, <2>6, <3>1
  <2>7. QED  BY <2>5, <2>6
<1>7. ASSUME NEW c \in Consumers, Within(c), answers' # answers
      PROVE  /\ \A i, j \in Offering(t, d)' : i = j
             /\ trips'[t].driver = d => Offering(t, d)' = {}
  <2> DEFINE a == [trip |-> task[c].event.trip, driver |-> task[c].best]
  <2>1. AnswerTrip(c) /\ Publish(c) /\ task[c] # NoTask /\ UNCHANGED trips /\ t \in Rows
    BY <1>7, WithinFrame DEF Rows
  <2>2. a \in Answer /\ answers \in Seq(Answer) /\ answers' = Append(answers, a)
    BY <2>1, PublishType DEF Publish, TypeOK
  <2>3. x = a => Answers(c, t, d)
    BY <2>1 DEF Answers
  <2>4. x = a => trips[t].driver # d /\ Offering(t, d) = {}
    <3>1. x = a => ~Promised(t, d)
      BY <1>1, <1>2, <2>1, <2>3, AnsweredWasFree DEF Engaged
    <3>2. QED  BY <1>2, <2>1, <3>1 DEF Promised, InSeq, Offering
  <2> HIDE DEF a, x
  <2>5. \A i \in DOMAIN answers' :
          \/ i \in DOMAIN answers /\ answers'[i] = answers[i]
          \/ i = Len(answers) + 1 /\ answers'[i] = a
    BY <2>2, AppendSeq
  <2>6. \A i \in Offering(t, d)' :
          i \in Offering(t, d) \/ (i = Len(answers) + 1 /\ x = a)
    BY <2>5 DEF Offering, x
  <2>7. QED  BY <1>2, <2>1, <2>4, <2>6
<1>8. ASSUME NEW c \in Consumers, Within(c) PROVE UNCHANGED trips
  BY <1>8, WithinFrame
<1>9. ASSUME World \/ UNCHANGED vars PROVE UNCHANGED <<trips, answers>>
  BY <1>9, WorldFrame DEF Aside
<1>10. ASSUME NEW c \in Consumers, Take(c) PROVE UNCHANGED <<trips, answers>>
  BY <1>10, TakeType
<1>11. QED  BY <1>4, <1>5, <1>6, <1>7, <1>8, <1>9, <1>10, CalmCases DEF RideStep

\* A rejection or cancellation still to be applied.
Final(k) ==
  Ends(k) /\ \/ \E i \in DOMAIN stream : stream[i] = k
             \/ \E c \in Ending : task[c].event = k

LEMMA FinalStep ==
  ASSUME OneReplica, CalmInv, [Next]_vars, NEW k, Final(k)'
  PROVE  \/ Final(k)
         \/ \E u \in Trips : Ride(u) /\ k \in Event /\ stream' = Append(stream, k)
<1> USE DEF CalmInv, IInv
<1>1. CASE UNCHANGED <<stream, task>>
  BY <1>1 DEF Final, Ends, Ending, Busy
<1>2. ASSUME NEW u \in Trips, Ride(u)
      PROVE  Final(k) \/ (k \in Event /\ stream' = Append(stream, k))
  <2>1. UNCHANGED task /\ Operation(u)
    BY <1>2, RideEffect DEF RideOnly
  <2>2. UNCHANGED stream \/ \E m \in Event : stream' = Append(stream, m)
    BY <2>1 DEF Operation, Asks, Accepts, Volunteers, Rejects, Closes, Starts, Appended
  <2>3. ASSUME NEW m \in Event, stream' = Append(stream, m) PROVE Final(k) \/ k = m
    <3>1. \A i \in DOMAIN stream' :
            \/ i \in DOMAIN stream /\ stream'[i] = stream[i]
            \/ stream'[i] = m
      BY <2>3, AppendSeq DEF TypeOK
    <3>2. QED  BY <2>1, <3>1 DEF Final, Ends, Ending, Busy
  <2>4. QED  BY <1>1, <2>1, <2>2, <2>3
<1>3. ASSUME NEW c \in Consumers, Take(c) PROVE Final(k)
  <2>1. /\ stream \in Seq(Event) /\ stream # <<>> /\ stream' = Tail(stream)
        /\ OthersStay(c) /\ (task'[c] # NoTask => task'[c].event = Head(stream))
    BY <1>3, TakeType, BeginTask
  <2>2. \A i \in DOMAIN stream' : \E j \in DOMAIN stream : stream'[i] = stream[j]
    BY <2>1, TailSeq
  <2>3. \E j \in DOMAIN stream : Head(stream) = stream[j]
    BY <2>1, TailSeq
  <2>4. QED  BY <2>1, <2>2, <2>3 DEF Final, Ends, Ending, Busy, OthersStay
<1>4. ASSUME NEW c \in Consumers, Within(c) PROVE Final(k)
  <2>1. /\ task[c] # NoTask /\ OthersStay(c) /\ UNCHANGED stream
        /\ task'[c] # NoTask => task'[c].event = task[c].event
    BY <1>4, WithinTask, WithinFrame
  <2>2. task'[c] # NoTask /\ task'[c].step \in Naming => task[c].step \in {"record", "forget"}
    BY <1>4, WithinStages
  <2>3. QED  BY <2>1, <2>2 DEF Final, Ends, Ending, Busy, OthersStay, Naming
<1>5. ASSUME ApplyAnswer \/ World \/ UNCHANGED vars PROVE UNCHANGED <<stream, task>>
  BY <1>5, WorldFrame DEF Aside, ApplyAnswer
<1>6. QED  BY <1>1, <1>2, <1>3, <1>4, <1>5, CalmCases DEF RideStep

LEMMA FinalIs ==
  ASSUME CalmInv, NEW k, Final(k), k.driver \in Regular
  PROVE  /\ k.trip \in Trips /\ Engaged(k.trip, k.driver)
         /\ ~Promised(k.trip, k.driver)
<1> USE DEF CalmInv, IInv
<1>1. CASE \E i \in DOMAIN stream : stream[i] = k
  <2>1. k \in Event
    BY <1>1 DEF TypeOK
  <2>2. QED  BY <1>1, <2>1 DEF Final, Ended, NoPromise, Engaged, Concerned, Event
<1>2. ASSUME NEW c \in Ending, task[c].event = k
      PROVE  /\ k.trip \in Trips /\ Engaged(k.trip, k.driver)
             /\ ~Promised(k.trip, k.driver)
  <2>1. c \in Busy /\ task[c].step \in Naming
    BY <1>2 DEF Ending, Naming
  <2>2. k.trip \in Trips
    BY <1>2, <2>1, TaskTypes DEF Busy
  <2>3. QED  BY <1>2, <2>1, <2>2 DEF Ended, NoPromise, Engaged, Concerned
<1>3. QED  BY <1>1, <1>2 DEF Final

\* A promise that ended does not come back while an event about it is under
\* way: the driver is engaged, and MatchDriver finds only drivers who are not.
LEMMA EndedStep ==
  ASSUME OneReplica, CalmInv, [Next]_vars
  PROVE  Ended'
<1> USE DEF CalmInv, IInv
<1>1. ASSUME NEW k, Final(k)', k.driver \in Regular'
      PROVE  ~Promised(k.trip, k.driver)'
  <2>1. k.driver \in Regular /\ k.driver # NoDriver
    BY <1>1, CalmCases, NoDriverFresh DEF Regular
  <2>2. CASE Final(k)
    <3>1. k.trip \in Trips /\ Engaged(k.trip, k.driver) /\ ~Promised(k.trip, k.driver)
      BY <2>1, <2>2, FinalIs
    <3>2. \A c \in Consumers : ~Answers(c, k.trip, k.driver)
      BY <2>1, <3>1, AnsweredWasFree
    <3>3. QED  BY <1>1, <3>1, <3>2, PromisedStep
  <2>3. ASSUME NEW u \in Trips, Ride(u), k \in Event, stream' = Append(stream, k)
        PROVE  ~Promised(k.trip, k.driver)'
    <3>1. Ends(k) /\ UNCHANGED answers
      BY <1>1, <2>3, RideEffect DEF Final, Ends, RideOnly
    <3>2. k.trip = u /\ \/ Rejects(u) /\ k.driver = trips[u].driver
                        \/ Closes(u)
      BY <2>3, <3>1, EmittedIs DEF Ends
    <3>3. CASE Closes(u)
      BY <3>2, <3>3 DEF Closes, RowBecomes, Promised, IsOpen
    <3>4. CASE Rejects(u) /\ k.driver = trips[u].driver
      <4>1. u \in Rows /\ trips'[u].driver = NoDriver /\ IsOpen(u)
        BY <3>4 DEF Rejects, RowBecomes, IsOpen
      <4>2. Offering(u, k.driver) = {}
        BY <2>1, <3>4, <4>1 DEF OfferedOnce
      <4>3. QED  BY <2>1, <3>1, <3>2, <4>1, <4>2 DEF Promised, InSeq, Offering
    <3>5. QED  BY <3>2, <3>3, <3>4
  <2>4. QED  BY <1>1, <2>2, <2>3, FinalStep
<1>2. ASSUME NEW i \in DOMAIN stream', Ends(stream[i])' PROVE NoPromise(stream[i])'
  BY <1>1, <1>2 DEF Final, Ends, NoPromise
<1>3. ASSUME NEW c \in Ending' PROVE NoPromise(task[c].event)'
  BY <1>1, <1>3 DEF Final, Ends, NoPromise, Ending
<1>4. QED  BY <1>2, <1>3 DEF Ended

LEMMA LastWordStep ==
  ASSUME OneReplica, CalmInv, [Next]_vars
  PROVE  LastWord'
<1> USE DEF CalmInv, IInv
<1>1. \A k, m : NotNamedAfter(k, m) => NotNamedAfter(k, m)'
  BY CalmCases DEF NotNamedAfter
<1>2. CASE UNCHANGED <<stream, task>>
  BY <1>1, <1>2 DEF LastWord, Ending, Busy, Ends
<1>3. ASSUME NEW u \in Trips, Ride(u) PROVE LastWord'
  <2>1. UNCHANGED task /\ Operation(u)
    BY <1>3, RideEffect DEF RideOnly
  <2>2. ASSUME NEW k \in Event, stream' = Append(stream, k) PROVE LastWord'
    <3>1. /\ DOMAIN stream' = DOMAIN stream \cup {Len(stream) + 1}
          /\ stream'[Len(stream) + 1] = k
          /\ Len(stream) \in Nat
          /\ \A i \in DOMAIN stream :
               stream'[i] = stream[i] /\ i < Len(stream) + 1 /\ i \in Nat
      BY <2>2, AppendSeq DEF TypeOK
    <3>2. ASSUME NEW x, Final(x) PROVE NotNamedAfter(x, k)'
      <4> SUFFICES ASSUME k.trip = x.trip, x.driver \in Regular', k.driver = x.driver
                   PROVE  FALSE
        BY DEF NotNamedAfter
      <4>1. Promised(x.trip, x.driver)
        BY <1>3, <2>2, EmittedNames
      <4>2. QED  BY <3>2, <4>1, CalmCases, FinalIs
    <3>3. ASSUME NEW i \in DOMAIN stream', NEW j \in DOMAIN stream', i < j,
                 Ends(stream'[i])
          PROVE  NotNamedAfter(stream[i], stream[j])'
      <4>1. i \in DOMAIN stream
        BY <3>1, <3>3
      <4>2. Final(stream[i])
        BY <3>1, <3>3, <4>1 DEF Final
      <4>3. CASE j = Len(stream) + 1
        BY <3>1, <3>2, <4>1, <4>2, <4>3 DEF NotNamedAfter
      <4>4. CASE j \in DOMAIN stream
        BY <1>1, <3>1, <3>3, <4>1, <4>4 DEF LastWord, NotNamedAfter
      <4>5. QED  BY <3>1, <4>3, <4>4
    <3>4. Ending' = Ending
      BY <2>1 DEF Ending, Busy, Ends
    <3>5. ASSUME NEW c \in Ending, NEW j \in DOMAIN stream'
          PROVE  NotNamedAfter(task[c].event, stream[j])'
      <4>1. Final(task[c].event)
        BY DEF Final, Ending
      <4>2. CASE j = Len(stream) + 1
        BY <2>1, <3>1, <3>2, <4>1, <4>2 DEF NotNamedAfter
      <4>3. CASE j \in DOMAIN stream
        BY <1>1, <2>1, <3>1, <4>3 DEF LastWord, NotNamedAfter
      <4>4. QED  BY <3>1, <4>2, <4>3
    <3>6. QED  BY <3>3, <3>4, <3>5 DEF LastWord, Ends
  <2>3. UNCHANGED stream \/ \E k \in Event : stream' = Append(stream, k)
    BY <2>1 DEF Operation, Asks, Accepts, Volunteers, Rejects, Closes, Starts, Appended
  <2>4. QED  BY <1>2, <2>1, <2>2, <2>3
<1>4. ASSUME NEW c \in Consumers, Take(c) PROVE LastWord'
  <2>1. /\ stream \in Seq(Event) /\ stream # <<>> /\ stream' = Tail(stream)
        /\ OthersStay(c) /\ (task'[c] # NoTask => task'[c].event = stream[1])
    BY <1>4, TakeType, BeginTask, TailSeq
  <2>2. /\ 1 \in DOMAIN stream
        /\ \A i \in DOMAIN stream' :
             i \in Nat /\ i + 1 \in DOMAIN stream /\ i + 1 > 1 /\ stream'[i] = stream[i + 1]
    BY <2>1, TailSeq
  <2>3. ASSUME NEW i \in DOMAIN stream', NEW j \in DOMAIN stream', i < j, Ends(stream'[i])
        PROVE  NotNamedAfter(stream[i], stream[j])'
    <3>1. i + 1 < j + 1
      BY <2>2, <2>3
    <3>2. NotNamedAfter(stream[i + 1], stream[j + 1])
      BY <2>2, <2>3, <3>1 DEF LastWord
    <3>3. QED  BY <1>1, <2>2, <3>2 DEF NotNamedAfter
  <2>4. ASSUME NEW e \in Consumers, e \in Ending', NEW j \in DOMAIN stream'
        PROVE  NotNamedAfter(task[e].event, stream[j])'
    <3>1. e = c /\ Ends(stream[1]) /\ task'[e].event = stream[1]
      BY <2>1, <2>4 DEF OneReplica, Ending, Busy, Ends
    <3>2. NotNamedAfter(stream[1], stream[j + 1])
      BY <2>2, <3>1 DEF LastWord
    <3>3. QED  BY <1>1, <2>2, <3>1, <3>2 DEF NotNamedAfter
  <2>5. Ending' \subseteq Consumers
    BY DEF Ending, Busy
  <2>6. QED  BY <2>3, <2>4, <2>5 DEF LastWord, Ends
<1>5. ASSUME NEW c \in Consumers, Within(c) PROVE LastWord'
  <2>1. /\ task[c] # NoTask /\ OthersStay(c) /\ UNCHANGED stream
        /\ task'[c] # NoTask => task'[c].event = task[c].event
    BY <1>5, WithinTask, WithinFrame
  <2>2. task'[c] # NoTask /\ task'[c].step \in Naming => task[c].step \in {"record", "forget"}
    BY <1>5, WithinStages
  <2>3. Ending' \subseteq Ending /\ \A e \in Ending' : task'[e].event = task[e].event
    BY <2>1, <2>2 DEF Ending, Busy, Ends, OthersStay, Naming
  <2>4. QED  BY <1>1, <2>1, <2>3 DEF LastWord, Ends, NotNamedAfter
<1>6. ASSUME ApplyAnswer \/ World \/ UNCHANGED vars PROVE UNCHANGED <<stream, task>>
  BY <1>6, WorldFrame DEF Aside, ApplyAnswer
<1>7. QED  BY <1>2, <1>3, <1>4, <1>5, <1>6, CalmCases DEF RideStep

\* While the driver is promised to the trip, ConfirmDriverOnTrip stands.
LEMMA ConfirmsStep ==
  ASSUME OneReplica, CalmInv, [Next]_vars, NEW t \in Trips, NEW d \in Regular',
         Confirms(t, d), Promised(t, d)
  PROVE  Confirms(t, d)'
<1> USE DEF CalmInv, IInv
<1>1. d \in Regular /\ d \in Drivers
  BY CalmCases DEF Regular
<1>2. CASE UNCHANGED <<stream, task, status>>
  BY <1>2 DEF Confirms, Busy
<1>3. ASSUME NEW u \in Trips, Ride(u) PROVE Confirms(t, d)'
  <2>1. UNCHANGED <<task, status>> /\ Operation(u)
    BY <1>3, RideEffect DEF RideOnly, redis
  <2>2. UNCHANGED stream \/ \E k \in Event : stream' = Append(stream, k)
    BY <2>1 DEF Operation, Asks, Accepts, Volunteers, Rejects, Closes, Starts, Appended
  <2>3. \A i \in DOMAIN stream : i \in DOMAIN stream' /\ stream'[i] = stream[i]
    BY <2>2, AppendSeq DEF TypeOK
  <2>4. QED  BY <2>1, <2>3 DEF Confirms, Busy
<1>4. ASSUME World \/ UNCHANGED vars PROVE Confirms(t, d)'
  <2>1. UNCHANGED <<stream, task>> /\ status'[d] = status[d]
    BY <1>1, <1>4, BoundStays, WorldFrame DEF Aside, Bound
  <2>2. QED  BY <2>1 DEF Confirms, Busy
<1>5. ASSUME NEW c \in Consumers, Take(c) PROVE Confirms(t, d)'
  <2>1. /\ stream \in Seq(Event) /\ stream # <<>> /\ stream' = Tail(stream)
        /\ Head(stream) \in Event /\ Begin(c, Head(stream)) /\ UNCHANGED status
        /\ task[c] = NoTask
    BY <1>5, TakeType DEF redis
  <2>2. Busy = {}
    BY <2>1 DEF Busy, OneReplica
  <2>3. CASE AcceptanceOf(Head(stream), t, d)
    <3>1. task'[c] # NoTask /\ task'[c].event = Head(stream) /\ task'[c].step = "confirm"
      BY <2>1, <2>3, BeginTask DEF AcceptanceOf
    <3>2. QED  BY <2>3, <3>1 DEF Confirms, Busy, AcceptanceOf
  <2>4. CASE ~AcceptanceOf(Head(stream), t, d)
    <3>1. \A i \in DOMAIN stream : AcceptanceOf(stream[i], t, d) =>
            i - 1 \in DOMAIN stream' /\ stream'[i - 1] = stream[i]
      BY <2>1, <2>4, TailSeq
    <3>2. QED  BY <2>1, <2>2, <3>1 DEF Confirms, AcceptanceOf
  <2>5. QED  BY <2>3, <2>4
<1>6. ASSUME NEW c \in Consumers, Within(c) PROVE Confirms(t, d)'
  <2>1. /\ task[c] # NoTask /\ Busy = {c} /\ UNCHANGED stream
    BY <1>6, WithinFrame DEF Busy, OneReplica
  <2>2. CASE task[c].step = "confirm" /\ task[c].event.driver = d
    <3>1. Confirm(c)
      BY <1>6, <2>2, WithinAt
    <3>2. status'[d] = "ON_TRIP"
      BY <1>1, <2>2, <3>1 DEF Confirm, SetDriverStatus, TypeOK
    <3>3. QED  BY <3>2 DEF Confirms
  <2>3. CASE status[d] = "ON_TRIP"
    <3>1. ~(Release(c) /\ c \in Ending /\ task[c].event.driver = d)
      BY <1>1, ReleaseEnds
    <3>2. status'[d] = "ON_TRIP"
      BY <1>1, <1>6, <2>3, <3>1, WithinStatus
    <3>3. QED  BY <3>2 DEF Confirms
  <2>4. QED  BY <2>1, <2>2, <2>3 DEF Confirms, AcceptanceOf
<1>7. ASSUME ApplyAnswer PROVE UNCHANGED <<stream, task, status>>
  BY <1>7 DEF ApplyAnswer, redis
<1>8. QED  BY <1>2, <1>3, <1>4, <1>5, <1>6, <1>7, CalmCases DEF RideStep

LEMMA AcceptanceAppliedStep ==
  ASSUME OneReplica, CalmInv, [Next]_vars
  PROVE  AcceptanceApplied'
<1> USE DEF CalmInv, IInv
<1> DEFINE Live == {"ACCEPTED", "IN_PROGRESS"}
<1> SUFFICES ASSUME NEW t \in Rows', trips'[t].status \in Live, NEW d,
                    trips'[t].driver = d
             PROVE  d # NoDriver /\ (d \in Regular' => Confirms(t, d)')
  BY DEF AcceptanceApplied, Confirms, AcceptanceOf, Busy
<1>1. ASSUME t \in Rows, trips[t].status \in Live, trips[t].driver = d
      PROVE  d # NoDriver /\ (d \in Regular' => Confirms(t, d)')
  <2>1. d # NoDriver /\ (d \in Regular => Confirms(t, d)) /\ t \in Trips
    BY <1>1 DEF AcceptanceApplied, TypeOK
  <2>2. Promised(t, d)
    BY <1>1, OfferedIsPromised
  <2>3. QED  BY <2>1, <2>2, CalmCases, ConfirmsStep
<1>2. CASE UNCHANGED trips
  BY <1>1, <1>2 DEF Rows
<1>3. ASSUME NEW u \in Trips, Ride(u)
      PROVE  d # NoDriver /\ (d \in Regular' => Confirms(t, d)')
  <2>1. Operation(u)
    BY <1>3, RideEffect
  <2>2. CASE Accepts(u) /\ u = t
    <3>1. d = trips[t].driver /\ d \in Drivers /\ Appended("Trip.Accepted", t, d)
      BY <2>2 DEF Accepts, RowBecomes
    <3>2. PICK k \in Event : AcceptanceOf(k, t, d) /\ stream' = Append(stream, k)
      BY <3>1 DEF Appended, AcceptanceOf
    <3>3. Len(stream) + 1 \in DOMAIN stream' /\ stream'[Len(stream) + 1] = k
      BY <3>2, AppendSeq DEF TypeOK
    <3>4. QED  BY <3>1, <3>2, <3>3, NoDriverFresh DEF Confirms, AcceptanceOf
  <2>3. ASSUME NEW e \in Drivers, Volunteers(u, e), u = t
        PROVE  d # NoDriver /\ d \notin Regular'
    BY <2>3, NoDriverFresh DEF Volunteers, RowBecomes, Regular
  <2>4. CASE ~(u = t /\ (Accepts(u) \/ \E e \in Drivers : Volunteers(u, e)))
    <3>1. t \in Rows /\ trips[t].status \in Live /\ trips[t].driver = d
      BY <2>1, <2>4
         DEF Operation, Asks, Accepts, Volunteers, Rejects, Closes, Starts, RowBecomes
    <3>2. QED  BY <1>1, <3>1
  <2>5. QED  BY <2>2, <2>3, <2>4
<1>4. ASSUME ApplyAnswer
      PROVE  d # NoDriver /\ (d \in Regular' => Confirms(t, d)')
  <2> DEFINE a == Head(answers)
  <2>1. Applies(a)
    BY <1>4, ApplyEffect
  <2>2. t \in Rows
    BY <2>1 DEF Applies, RowBecomes
  <2>3. CASE a.trip # t
    BY <1>1, <2>1, <2>2, <2>3 DEF Applies, RowBecomes
  <2>4. CASE a.trip = t
    <3>1. a.driver # NoDriver /\ d = a.driver /\ d \in irregular'
      BY <2>1, <2>4 DEF Applies, RowBecomes
    <3>2. QED  BY <3>1 DEF Regular
  <2>5. QED  BY <2>3, <2>4
<1>5. ASSUME NEW c \in Consumers, Within(c) \/ Take(c) PROVE UNCHANGED trips
  BY <1>5, WithinFrame, TakeType
<1>6. ASSUME World \/ UNCHANGED vars PROVE UNCHANGED trips
  BY <1>6, WorldFrame DEF Aside
<1>7. QED  BY <1>2, <1>3, <1>4, <1>5, <1>6, CalmCases DEF RideStep

LEMMA InitCalm == Init => CalmInv
<1> SUFFICES ASSUME Init PROVE CalmInv
  OBVIOUS
<1>1. /\ Rows = {} /\ stream = <<>> /\ answers = <<>> /\ pending = {}
      /\ Busy = {} /\ Ending = {}
  BY DEF Init, Rows, Busy, Ending
<1>2. IInv
  BY InitInv
<1>3. \A t, d : ~Engaged(t, d)
  BY <1>1 DEF Engaged, Promised, Concerned, IsOpen
<1>4. QED  BY <1>1, <1>2, <1>3 DEF CalmInv, OneEngagement, EngagedIsNotFree, FoundIsFree,
           OfferedOnce, Ended, LastWord, AcceptanceApplied

\* The invariant of one replica without faults, for any trips, drivers and
\* unoffered acceptances.
THEOREM CalmInvariance ==
  ASSUME OneReplica
  PROVE  Spec => []CalmInv
<1>1. CalmInv /\ [Next]_vars => CalmInv'
  <2> SUFFICES ASSUME CalmInv, [Next]_vars PROVE CalmInv'
    OBVIOUS
  <2>1. IInv' /\ pending' = {}
    BY NextInv, CalmCases DEF CalmInv
  <2>2. /\ OneEngagement' /\ EngagedIsNotFree' /\ FoundIsFree' /\ OfferedOnce'
        /\ Ended' /\ LastWord' /\ AcceptanceApplied'
    BY OneEngagementStep, EngagedIsNotFreeStep, FoundIsFreeStep, OfferedOnceStep,
       EndedStep, LastWordStep, AcceptanceAppliedStep
  <2>3. QED  BY <2>1, <2>2 DEF CalmInv
<1>2. QED  BY <1>1, InitCalm, PTL DEF Spec

\* choreography_test.go:627: with one replica and no fault no driver whom only
\* offers bind is promised to two open trips, although ReserveDriver follows
\* the publication of Trip.Matched and other drivers accept trips that were
\* not offered: the driver is engaged from the answer on, and the replica
\* reserves it before it searches again.
THEOREM OneTripPerDriver ==
  ASSUME OneReplica
  PROVE  Spec => []NoDoubleBooking
<1>1. CalmInv => NoDoubleBooking
  BY DEF CalmInv, OneEngagement, Engaged, Regular, NoDoubleBooking
<1>2. QED  BY <1>1, CalmInvariance, PTL

\* choreography_test.go:238: with one replica and no fault the driver of an
\* accepted trip, if only offers bind the driver, is ON_TRIP once the events
\* of the trip are handled: no release and no reservation of the same driver
\* comes in between, whichever trips others accept unoffered.
THEOREM AcceptedIsOnTrip ==
  ASSUME OneReplica
  PROVE  Spec => []AcceptedDriverIsOnTrip
<1>1. CalmInv => AcceptedDriverIsOnTrip
  <2> SUFFICES ASSUME CalmInv, NEW t \in Rows,
                      trips[t].status \in {"ACCEPTED", "IN_PROGRESS"},
                      trips[t].driver \notin irregular,
                      \A k \in InFlight : k.trip # t
               PROVE  status[trips[t].driver] = "ON_TRIP"
    BY DEF AcceptedDriverIsOnTrip
  <2>1. trips[t].driver \in Regular
    BY DEF CalmInv, IInv, TypeOK, Row, Regular, AcceptanceApplied
  <2>2. Confirms(t, trips[t].driver)
    BY <2>1 DEF CalmInv, AcceptanceApplied
  <2>3. QED  BY <2>2 DEF Confirms, AcceptanceOf, InFlight
<1>2. QED  BY <1>1, CalmInvariance, PTL
=============================================================================
