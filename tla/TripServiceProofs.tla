-------------------------- MODULE TripServiceProofs -------------------------
(***************************************************************************)
(* TripService keeps its types and its two safety invariants, for any      *)
(* numbers of trips, drivers, requests in flight and workers.  No lock     *)
(* holds between a read and a write, so nothing can be said of the row a   *)
(* statement finds: the proofs rest on what the statement writes and on    *)
(* what the writer carries.                                                *)
(***************************************************************************)
EXTENDS TripService, TLAPS

\* A row stays a row under every UPDATE.
LEMMA RowOps ==
  ASSUME NEW row \in Row, NEW d \in Drivers, NEW s \in Statuses
  PROVE  /\ SetAccepted(row, d) \in Row
         /\ SetStatus(row, s) \in Row
         /\ SetRejected(row) \in Row
         /\ SetDriver(row, d) \in Row
         /\ SetDeadline(row) \in Row
BY DEF Row, SetAccepted, SetStatus, SetRejected, SetDriver, SetDeadline,
       Statuses

\* A write keeps the table's rows and their type.
LEMMA WriteType ==
  ASSUME trips \in [Rows -> Row], NEW t, NEW row,
         t \in Rows => row \in Row, Write(t, row)
  PROVE  Rows' = Rows /\ trips' \in [Rows' -> Row]
BY DEF Write, Rows

LEMMA NewRowType == NewRow \in Row
BY DEF NewRow, Row, Statuses

LEMMA TypeInit == Init => TypeOK
BY RequestsNat, FaultsNat, NewRowType
   DEF Init, TypeOK, Rows, Operation, NoOp, Phases

\* What each UPDATE makes of the two columns the invariants speak of.
LEMMA RowColumns ==
  ASSUME NEW row \in Row, NEW d \in Drivers, NEW s \in Statuses
  PROVE  /\ SetAccepted(row, d).status = "ACCEPTED"
         /\ SetAccepted(row, d).driver = d
         /\ SetStatus(row, s).status = s
         /\ SetRejected(row).status = "REQUESTED"
         /\ SetDriver(row, d).status = row.status
         /\ SetDriver(row, d).driver = d
         /\ SetDeadline(row).status = row.status
         /\ SetDeadline(row).driver = row.driver
BY DEF Row, SetAccepted, SetStatus, SetRejected, SetDriver, SetDeadline

\* A row that may replace the one of trip t without harm to either invariant.
Harmless(t, row) ==
  \/ /\ row.status = trips[t].status
     /\ row.driver \in {trips[t].driver} \cup Drivers
  \/ row.status = "ACCEPTED" /\ row.driver \in Drivers
  \/ row.status \in Statuses \ {"ACCEPTED", "CANCELLED"}
  \/ row.status = "CANCELLED" /\ t \in announced'

\* The step writes at most one row of the table, harmlessly.
Writes(t, row) ==
  Write(t, row) /\ (t \in Rows => row \in Row /\ Harmless(t, row))

\* Rejections and announced cancellations are harmless.
LEMMA RejectHarmless ==
  ASSUME NEW t, trips[t] \in Row
  PROVE  SetRejected(trips[t]) \in Row /\ Harmless(t, SetRejected(trips[t]))
BY DEF SetRejected, Row, Harmless, Statuses

LEMMA CancelHarmless ==
  ASSUME NEW t, trips[t] \in Row, t \in announced'
  PROVE  /\ SetStatus(trips[t], "CANCELLED") \in Row
         /\ Harmless(t, SetStatus(trips[t], "CANCELLED"))
BY DEF SetStatus, Row, Harmless, Statuses

\* A trip requested now.
Requests(t) ==
  /\ t \in Trips \ Rows
  /\ trips' = [x \in Rows \cup {t} |-> IF x = t THEN NewRow ELSE trips[x]]

-----------------------------------------------------------------------------
\* The three writes of an operation in flight.
LEMMA ServeWrites ==
  ASSUME TypeOK, AcceptNamesDriver, NEW c \in Callers, NEW o \in Operation,
         WriteProgress(c, o) \/ WriteReject(c, o) \/ WriteCancel(c, o)
  PROVE  \E row : Writes(o.trip, row)
<1>1. o.trip \in Trips /\ o.driver \in AnyDriver /\ o.op \in Ops
  BY DEF Operation
<1>2. o.trip \in Rows => trips[o.trip] \in Row
  BY DEF TypeOK
<1>3. o # NoOp
  BY <1>1 DEF NoOp, Ops, Operation
<1>4. ASSUME WriteProgress(c, o), o.op = "accept" PROVE \E row : Writes(o.trip, row)
  <2>1. o.driver \in Drivers
    BY <1>1, <1>3, <1>4 DEF WriteProgress, AcceptNamesDriver, AnyDriver
  <2>2. Write(o.trip, SetAccepted(trips[o.trip], o.driver))
    BY <1>4 DEF WriteProgress
  <2>3. o.trip \in Rows =>
          /\ SetAccepted(trips[o.trip], o.driver) \in Row
          /\ Harmless(o.trip, SetAccepted(trips[o.trip], o.driver))
    BY <1>2, <2>1, RowOps, RowColumns DEF Harmless, Statuses
  <2>4. QED  BY <2>2, <2>3 DEF Writes
<1>5. ASSUME WriteProgress(c, o), o.op # "accept" PROVE \E row : Writes(o.trip, row)
  <2>1. PICK st \in {"IN_PROGRESS", "COMPLETED"} :
               Write(o.trip, SetStatus(trips[o.trip], st))
    BY <1>5 DEF WriteProgress
  <2>2. st \in Statuses \ {"ACCEPTED", "CANCELLED"}
    BY DEF Statuses
  <2>3. o.trip \in Rows => /\ SetStatus(trips[o.trip], st) \in Row
                           /\ Harmless(o.trip, SetStatus(trips[o.trip], st))
    <3>1. SUFFICES ASSUME o.trip \in Rows
                   PROVE  /\ SetStatus(trips[o.trip], st) \in Row
                          /\ Harmless(o.trip, SetStatus(trips[o.trip], st))
      OBVIOUS
    <3>2. SetStatus(trips[o.trip], st) \in Row
      BY <1>2, <2>2, <3>1 DEF Row, SetStatus
    <3>3. SetStatus(trips[o.trip], st).status = st
      BY <1>2, <3>1 DEF Row, SetStatus
    <3>4. QED  BY <2>2, <3>2, <3>3 DEF Harmless
  <2>4. QED  BY <2>1, <2>3 DEF Writes
<1>6. ASSUME WriteReject(c, o) PROVE \E row : Writes(o.trip, row)
  <2>1. Write(o.trip, SetRejected(trips[o.trip]))
    BY <1>6 DEF WriteReject
  <2>2. QED  BY <1>2, <2>1, RejectHarmless DEF Writes
<1>7. ASSUME WriteCancel(c, o) PROVE \E row : Writes(o.trip, row)
  <2>1. /\ Write(o.trip, SetStatus(trips[o.trip], "CANCELLED"))
        /\ o.trip \in announced'
    BY <1>7 DEF WriteCancel
  <2>2. QED  BY <1>2, <2>1, CancelHarmless DEF Writes
<1>8. QED  BY <1>4, <1>5, <1>6, <1>7

\* The three writes of a timeout check.
LEMMA SweepWrites ==
  ASSUME TypeOK, NEW s \in Sweepers, NEW x \in TripDriver,
         CancelStuck(s, x) \/ RejectExpired(s, x) \/ CancelAccepted(s, x)
  PROVE  \E row : Writes(x.trip, row)
<1>1. x.trip \in Rows => trips[x.trip] \in Row
  BY DEF TypeOK
<1>2. CASE RejectExpired(s, x)
  <2>1. Write(x.trip, SetRejected(trips[x.trip]))
    BY <1>2 DEF RejectExpired
  <2>2. QED  BY <1>1, <2>1, RejectHarmless DEF Writes
<1>3. CASE CancelStuck(s, x) \/ CancelAccepted(s, x)
  <2>1. /\ Write(x.trip, SetStatus(trips[x.trip], "CANCELLED"))
        /\ x.trip \in announced'
    BY <1>3 DEF CancelStuck, CancelAccepted
  <2>2. QED  BY <1>1, <2>1, CancelHarmless DEF Writes
<1>4. QED  BY <1>2, <1>3

\* The writes of an update worker: the driver or the deadline of a match, or
\* the cancellation of a failed one, announced when dispatch published it.
LEMMA ApplyWrites ==
  ASSUME TypeOK, FailureAnnounced, NEW u \in Updaters, NEW a \in TripDriver,
         AssignDriver(u, a) \/ AssignDeadline(u, a) \/ MatchFailed(u, a)
  PROVE  \E row : Writes(a.trip, row)
<1>1. a.trip \in Rows => trips[a.trip] \in Row
  BY DEF TypeOK
<1>2. CASE AssignDriver(u, a)
  <2>1. a.driver \in Drivers
    BY <1>2 DEF AssignDriver, TripDriver, AnyDriver
  <2>2. Write(a.trip, SetDriver(trips[a.trip], a.driver))
    BY <1>2 DEF AssignDriver
  <2>3. a.trip \in Rows =>
          /\ SetDriver(trips[a.trip], a.driver) \in Row
          /\ Harmless(a.trip, SetDriver(trips[a.trip], a.driver))
    BY <1>1, <2>1 DEF Harmless, Row, SetDriver
  <2>4. QED  BY <2>2, <2>3 DEF Writes
<1>3. CASE AssignDeadline(u, a)
  <2>1. Write(a.trip, SetDeadline(trips[a.trip]))
    BY <1>3 DEF AssignDeadline
  <2>2. a.trip \in Rows => /\ SetDeadline(trips[a.trip]) \in Row
                           /\ Harmless(a.trip, SetDeadline(trips[a.trip]))
    BY <1>1 DEF Harmless, Row, SetDeadline
  <2>3. QED  BY <2>1, <2>2 DEF Writes
<1>4. CASE MatchFailed(u, a)
  <2>1. /\ Write(a.trip, SetStatus(trips[a.trip], "CANCELLED"))
        /\ a.trip \in announced'
    BY <1>4 DEF MatchFailed, FailureAnnounced
  <2>2. QED  BY <1>1, <2>1, CancelHarmless DEF Writes
<1>5. QED  BY <1>2, <1>3, <1>4

\* Time touches neither the status nor the driver.
LEMMA TimeWrites ==
  ASSUME TypeOK, NEW t \in Trips, TimePasses(t)
  PROVE  \E row : Writes(t, row)
<1>1. t \in Rows /\ trips[t] \in Row
  BY DEF TimePasses, TypeOK
<1>2. PICK row \in {[trips[t] EXCEPT !.createdAt = "old"],
                    [trips[t] EXCEPT !.offerDeadline = "past"],
                    [trips[t] EXCEPT !.acceptedAt = "old"]} : Write(t, row)
  BY DEF TimePasses
<1>3. row \in Row /\ row.status = trips[t].status /\ row.driver = trips[t].driver
  BY <1>1 DEF Row
<1>4. QED  BY <1>2, <1>3 DEF Writes, Harmless

-----------------------------------------------------------------------------
\* Every step leaves the table alone, requests a trip, or writes a row
\* harmlessly.
LEMMA StepTrips ==
  ASSUME TypeOK, AcceptNamesDriver, FailureAnnounced, [Next]_vars
  PROVE  \/ trips' = trips
         \/ \E t \in Trips : Requests(t) \/ \E row : Writes(t, row)
<1>1. \A o \in Operation : o.trip \in Trips
  BY DEF Operation
<1>2. \A x \in TripDriver : x.trip \in Trips
  BY DEF TripDriver
<1>3. CASE Passenger
  BY <1>3 DEF Passenger, RequestTrip, Requests
<1>4. CASE \E c \in Callers : Serve(c)
  BY <1>1, <1>4, ServeWrites DEF Serve
<1>5. CASE \E c \in Callers, o \in Operation : ReadTrip(c, o)
  BY <1>5 DEF ReadTrip
<1>6. ASSUME NEW s \in Sweepers, Sweep(s)
      PROVE  trips' = trips \/ \E t \in Trips : \E row : Writes(t, row)
  BY <1>2, <1>6, SweepWrites
     DEF Sweep, SelectStuck, SelectExpired, SelectAccepted, Select, SweepDone
<1>7. CASE \E u \in Updaters : Apply(u)
  BY <1>2, <1>7, ApplyWrites DEF Apply
<1>8. CASE Dispatch
  BY <1>8 DEF Dispatch, DispatchForgets, DispatchMatches
<1>9. CASE Faults
  BY <1>9 DEF Faults, RequestFails, SweepCrash, SweepWriteFails, AnswerLost,
             EventLost
<1>10. CASE \E t \in Trips : TimePasses(t)
  BY <1>10, TimeWrites
<1>11. CASE UNCHANGED vars
  BY <1>11 DEF vars
<1>12. QED
  BY <1>3, <1>4, <1>5, <1>6, <1>7, <1>8, <1>9, <1>10, <1>11 DEF Next

\* The table keeps its type.
LEMMA TableType ==
  ASSUME TypeOK, AcceptNamesDriver, FailureAnnounced, [Next]_vars
  PROVE  Rows \subseteq Rows' /\ Rows' \subseteq Trips /\ trips' \in [Rows' -> Row]
<1>1. Rows \subseteq Trips /\ trips \in [Rows -> Row]
  BY DEF TypeOK
<1>2. CASE trips' = trips
  BY <1>1, <1>2 DEF Rows
<1>3. ASSUME NEW t \in Trips, Requests(t)
      PROVE  Rows \subseteq Rows' /\ Rows' \subseteq Trips /\ trips' \in [Rows' -> Row]
  <2>1. Rows' = Rows \cup {t}
    BY <1>3 DEF Requests, Rows
  <2>2. \A x \in Rows' : trips'[x] \in Row
    BY <1>1, <1>3, <2>1, NewRowType DEF Requests
  <2>3. trips' = [x \in Rows' |-> trips'[x]]
    BY <1>3, <2>1 DEF Requests
  <2>4. QED  BY <1>1, <2>1, <2>2, <2>3
<1>4. ASSUME NEW t \in Trips, NEW row, Writes(t, row)
      PROVE  Rows \subseteq Rows' /\ Rows' \subseteq Trips /\ trips' \in [Rows' -> Row]
  BY <1>1, <1>4, WriteType DEF Writes
<1>5. QED  BY <1>2, <1>3, <1>4, StepTrips

\* The other variables keep their types.
LEMMA TypeStep ==
  ASSUME TypeOK, AcceptNamesDriver, FailureAnnounced, [Next]_vars
  PROVE  TypeOK'
<1> USE TableType, RequestsNat, FaultsNat DEF TypeOK
<1>1. CASE Passenger
  BY <1>1 DEF Passenger, RequestTrip, Emit, Event, AnyDriver
<1>2. ASSUME NEW c \in Callers, NEW o \in Operation, ReadTrip(c, o)
      PROVE  TypeOK'
  BY <1>2 DEF ReadTrip
<1>3. ASSUME NEW c \in Callers, NEW o \in Operation, WriteProgress(c, o)
      PROVE  TypeOK'
  BY <1>3 DEF WriteProgress, Respond
<1>4. ASSUME NEW c \in Callers, NEW o \in Operation, WriteReject(c, o)
      PROVE  TypeOK'
  BY <1>4 DEF WriteReject, Respond, Emit, Event, Operation
<1>5. ASSUME NEW c \in Callers, NEW o \in Operation, WriteCancel(c, o)
      PROVE  TypeOK'
  BY <1>5 DEF WriteCancel, Respond, Emit, Event, Operation, AnyDriver
<1>6. ASSUME NEW s \in Sweepers,
             SelectStuck(s) \/ SelectExpired(s) \/ SelectAccepted(s) \/ SweepDone(s)
      PROVE  TypeOK'
  <2>1. \A t \in Rows : [trip |-> t, driver |-> trips[t].driver] \in TripDriver
    BY DEF Row, TripDriver, AnyDriver
  <2>2. \A S \in SUBSET Rows :
          {[trip |-> t, driver |-> trips[t].driver] : t \in S} \subseteq TripDriver
    BY <2>1
  <2>3. sweep' \in [Sweepers -> [phase : Phases, todo : SUBSET TripDriver]]
    <3>1. CASE SweepDone(s)
      BY <3>1 DEF SweepDone, Phases
    <3>2. ASSUME NEW from, NEW to \in Phases, NEW S \in SUBSET Rows,
                 Select(s, from, to, S)
          PROVE  sweep' \in [Sweepers -> [phase : Phases, todo : SUBSET TripDriver]]
      BY <2>2, <3>2 DEF Select
    <3>3. \E from, to \in Phases, S \in SUBSET Rows :
            SweepDone(s) \/ Select(s, from, to, S)
      BY <1>6 DEF SelectStuck, SelectExpired, SelectAccepted, Phases
    <3>4. QED  BY <3>1, <3>2, <3>3
  <2>4. QED
    BY <1>6, <2>3 DEF SelectStuck, SelectExpired, SelectAccepted, Select, SweepDone
<1>7. ASSUME NEW s \in Sweepers, NEW x \in TripDriver,
             \/ CancelStuck(s, x) \/ RejectExpired(s, x)
             \/ CancelAccepted(s, x) \/ SweepWriteFails(s, x)
      PROVE  TypeOK'
  <2>1. sweep' \in [Sweepers -> [phase : Phases, todo : SUBSET TripDriver]]
    BY <1>7 DEF CancelStuck, RejectExpired, CancelAccepted, SweepWriteFails, SweepRow
  <2>2. x.trip \in Trips /\ x.driver \in AnyDriver
    BY DEF TripDriver
  <2>3. CASE CancelStuck(s, x)
    BY <2>1, <2>2, <2>3 DEF CancelStuck, SweepRow, TripDriver, AnyDriver
  <2>4. CASE RejectExpired(s, x)
    BY <2>1, <2>2, <2>4 DEF RejectExpired, SweepRow, Emit, Event
  <2>5. CASE CancelAccepted(s, x)
    BY <2>1, <2>2, <2>5 DEF CancelAccepted, SweepRow, Emit, Event
  <2>6. CASE SweepWriteFails(s, x)
    BY <2>1, <2>6 DEF SweepWriteFails, SweepRow, Fault
  <2>7. QED  BY <1>7, <2>3, <2>4, <2>5, <2>6
<1>8. ASSUME NEW u \in Updaters, NEW a \in TripDriver,
             \/ AssignDriver(u, a) \/ AssignDeadline(u, a)
             \/ MatchFailed(u, a) \/ AnswerLost(u, a)
      PROVE  TypeOK'
  <2>1. update' \in [Updaters -> SUBSET TripDriver]
    BY <1>8 DEF AssignDriver, AssignDeadline, MatchFailed, AnswerLost
  <2>2. QED
    BY <1>8, <2>1 DEF AssignDriver, AssignDeadline, MatchFailed, AnswerLost, Fault
<1>9. ASSUME NEW k \in Event, NEW d \in AnyDriver, DispatchMatches(k, d)
      PROVE  TypeOK'
  <2>1. k.trip \in Trips /\ k.driver \in AnyDriver
    BY DEF Event
  <2>2. [trip |-> k.trip, driver |-> d] \in TripDriver
    BY <2>1 DEF TripDriver
  <2>3. declined[k.trip] \cup ({k.driver} \ {NoDriver}) \subseteq Drivers
    BY <2>1 DEF AnyDriver
  <2>4. faults' \in 0 .. MaxFaults
    BY <1>9 DEF DispatchMatches, Fault
  <2>5. events' \subseteq Event
    BY <1>9 DEF DispatchMatches
  <2>6. QED  BY <1>9, <2>1, <2>2, <2>3, <2>4, <2>5 DEF DispatchMatches
<1>10. ASSUME NEW k \in Event, DispatchForgets(k) \/ EventLost(k)
      PROVE  TypeOK'
  BY <1>10 DEF DispatchForgets, EventLost, Fault
<1>11. ASSUME NEW c \in Callers, RequestFails(c)
       PROVE  TypeOK'
  BY <1>11 DEF RequestFails, Respond, Fault
<1>12. ASSUME NEW s \in Sweepers, SweepCrash(s)
       PROVE  TypeOK'
  BY <1>12 DEF SweepCrash, Fault, Phases
<1>13. CASE \E t \in Trips : TimePasses(t)
  BY <1>13 DEF TimePasses
<1>14. CASE UNCHANGED vars
  BY <1>14 DEF vars
<1>15. QED
  BY <1>1, <1>2, <1>3, <1>4, <1>5, <1>6, <1>7, <1>8, <1>9, <1>10, <1>11,
     <1>12, <1>13, <1>14
     DEF Next, Serve, Sweep, Apply, Dispatch, Faults

-----------------------------------------------------------------------------
\* Nothing announced is taken back.
LEMMA AnnouncedGrows == [Next]_vars => announced \subseteq announced'
BY DEF Next, vars, Passenger, RequestTrip, Serve, ReadTrip, WriteProgress,
       WriteReject, WriteCancel, Sweep, SelectStuck, SelectExpired,
       SelectAccepted, Select, SweepDone, CancelStuck, RejectExpired,
       CancelAccepted, Apply, AssignDriver, AssignDeadline, MatchFailed,
       Dispatch, DispatchMatches, DispatchForgets, Faults, RequestFails,
       SweepCrash, SweepWriteFails, AnswerLost, EventLost, TimePasses

\* An acceptance gets past the read only with a driver.
LEMMA AcceptNamesDriverStep ==
  ASSUME TypeOK, AcceptNamesDriver, [Next]_vars
  PROVE  AcceptNamesDriver'
<1>1. ASSUME NEW c \in Callers, NEW o \in Operation, ReadTrip(c, o)
      PROVE  AcceptNamesDriver'
  <2>1. o.op = "accept" => o.driver # NoDriver
    BY <1>1 DEF ReadTrip, Permitted
  <2>2. request' = [request EXCEPT ![c] = o]
    BY <1>1 DEF ReadTrip
  <2>3. QED  BY <2>1, <2>2 DEF AcceptNamesDriver, TypeOK
<1>2. ASSUME NEW c \in Callers, request' = [request EXCEPT ![c] = NoOp]
      PROVE  AcceptNamesDriver'
  BY <1>2 DEF AcceptNamesDriver, TypeOK
<1>3. CASE request' = request
  BY <1>3 DEF AcceptNamesDriver
<1>4. \/ request' = request
      \/ \E c \in Callers : request' = [request EXCEPT ![c] = NoOp]
      \/ \E c \in Callers, o \in Operation : ReadTrip(c, o)
  BY DEF Next, vars, Passenger, RequestTrip, Serve, WriteProgress,
         WriteReject, WriteCancel, Respond, Sweep, SelectStuck, SelectExpired,
         SelectAccepted, Select, SweepDone, CancelStuck, RejectExpired,
         CancelAccepted, SweepRow, Apply, AssignDriver, AssignDeadline,
         MatchFailed, Dispatch, DispatchMatches, DispatchForgets, Faults,
         RequestFails, SweepCrash, SweepWriteFails, AnswerLost, EventLost,
         TimePasses
<1>5. QED  BY <1>1, <1>2, <1>3, <1>4

\* A failure is announced by whoever publishes it.
LEMMA FailureAnnouncedStep ==
  ASSUME FailureAnnounced, [Next]_vars
  PROVE  FailureAnnounced'
<1>1. ASSUME NEW s \in Sweepers, NEW x \in TripDriver, CancelStuck(s, x)
      PROVE  FailureAnnounced'
  BY <1>1 DEF CancelStuck, FailureAnnounced
<1>2. ASSUME NEW k \in Event, NEW d \in AnyDriver, DispatchMatches(k, d)
      PROVE  FailureAnnounced'
  BY <1>2 DEF DispatchMatches, FailureAnnounced
<1>3. CASE answers' \subseteq answers
  BY <1>3, AnnouncedGrows DEF FailureAnnounced
<1>4. \/ answers' \subseteq answers
      \/ \E s \in Sweepers, x \in TripDriver : CancelStuck(s, x)
      \/ \E k \in Event, d \in AnyDriver : DispatchMatches(k, d)
  BY DEF Next, vars, Passenger, RequestTrip, Serve, ReadTrip, WriteProgress,
         WriteReject, WriteCancel, Respond, Sweep, SelectStuck, SelectExpired,
         SelectAccepted, Select, SweepDone, RejectExpired, CancelAccepted,
         Apply, AssignDriver, AssignDeadline, MatchFailed, Dispatch,
         DispatchForgets, Faults, RequestFails, SweepCrash, SweepWriteFails,
         AnswerLost, EventLost, TimePasses
<1>5. QED  BY <1>1, <1>2, <1>3, <1>4

LEMMA InvInit == Init => IInv
BY TypeInit
   DEF Init, IInv, AcceptNamesDriver, FailureAnnounced, AcceptedHasDriver,
       NoSilentCancel, Rows, NoOp

LEMMA InvStep == IInv /\ [Next]_vars => IInv'
<1> SUFFICES ASSUME IInv, [Next]_vars PROVE IInv'
  OBVIOUS
<1>1. TypeOK /\ AcceptNamesDriver /\ FailureAnnounced
  BY DEF IInv
<1>2. TypeOK' /\ AcceptNamesDriver' /\ FailureAnnounced'
  BY <1>1, TypeStep, AcceptNamesDriverStep, FailureAnnouncedStep
<1>3. trips \in [Rows -> Row] /\ announced \subseteq announced'
  BY <1>1, AnnouncedGrows DEF TypeOK
<1>4. /\ \A t \in Rows : trips[t].status = "ACCEPTED" => trips[t].driver # NoDriver
      /\ \A t \in Rows : trips[t].status = "CANCELLED" => t \in announced
  BY DEF IInv, AcceptedHasDriver, NoSilentCancel
<1>5. CASE trips' = trips
  <2>1. Rows' = Rows
    BY <1>5 DEF Rows
  <2>2. QED
    BY <1>2, <1>3, <1>4, <1>5, <2>1 DEF IInv, AcceptedHasDriver, NoSilentCancel
<1>6. ASSUME NEW t \in Trips, Requests(t)
      PROVE  IInv'
  <2>1. /\ Rows' = Rows \cup {t}
        /\ trips'[t].status = "REQUESTED"
        /\ \A x \in Rows : trips'[x] = trips[x]
    BY <1>6 DEF Requests, Rows, NewRow
  <2>2. QED
    BY <1>2, <1>3, <1>4, <2>1 DEF IInv, AcceptedHasDriver, NoSilentCancel
<1>7. ASSUME NEW t \in Trips, NEW row, Writes(t, row)
      PROVE  IInv'
  <2>1. /\ Rows' = Rows
        /\ \A x \in Rows \ {t} : trips'[x] = trips[x]
        /\ t \in Rows => trips'[t] = row /\ Harmless(t, row)
    BY <1>3, <1>7 DEF Writes, Write, Rows
  <2>2. t \in Rows => /\ row.status = "ACCEPTED" => row.driver # NoDriver
                      /\ row.status = "CANCELLED" => t \in announced'
    BY <1>3, <1>4, <2>1, NoDriverFresh DEF Harmless, Statuses
  <2>3. QED
    BY <1>2, <1>3, <1>4, <2>1, <2>2 DEF IInv, AcceptedHasDriver, NoSilentCancel
<1>8. QED  BY <1>1, <1>5, <1>6, <1>7, StepTrips

THEOREM Invariance == Spec => []IInv
BY InvInit, InvStep, PTL DEF Spec

(***************************************************************************)
(* Every variable keeps its type.                                          *)
(***************************************************************************)
THEOREM TypeCorrect == Spec => []TypeOK
<1>1. IInv => TypeOK
  BY DEF IInv
<1>2. QED  BY <1>1, Invariance, PTL

(***************************************************************************)
(* An accepted trip has a driver, however many operations, timeout checks  *)
(* and answers race for its row.                                           *)
(***************************************************************************)
THEOREM AcceptedTripHasDriver == Spec => []AcceptedHasDriver
<1>1. IInv => AcceptedHasDriver
  BY DEF IInv
<1>2. QED  BY <1>1, Invariance, PTL

(***************************************************************************)
(* A cancelled trip has been announced as cancelled or as unmatched,       *)
(* although the update worker cancels without an outbox row.               *)
(***************************************************************************)
THEOREM CancellationIsAnnounced == Spec => []NoSilentCancel
<1>1. IInv => NoSilentCancel
  BY DEF IInv
<1>2. QED  BY <1>1, Invariance, PTL
=============================================================================
