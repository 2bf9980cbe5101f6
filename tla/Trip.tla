-------------------------------- MODULE Trip --------------------------------
(***************************************************************************)
(* A row of the table trips: what the domain methods of ride-service       *)
(* require of the row they read, what the UPDATE statements write, and     *)
(* what the timeout queries select.  The domain methods check a snapshot;  *)
(* the statements are applied to the row by id, whatever it holds by then. *)
(***************************************************************************)
CONSTANTS
  Drivers,    \* the driver ids
  NoDriver    \* driver_id IS NULL

ASSUME NoDriverFresh == NoDriver \notin Drivers

Statuses ==
  {"REQUESTED", "ACCEPTED", "IN_PROGRESS", "COMPLETED", "CANCELLED"}

\* Timestamps matter only through the cutoffs the timeout worker compares
\* them with: 60 s for created_at, 5 min for accepted_at, now for deadlines.
Row == [status        : Statuses,
        driver        : Drivers \cup {NoDriver},
        createdAt     : {"recent", "old"},
        acceptedAt    : {"null", "recent", "old"},
        offerDeadline : {"null", "ahead", "past"}]

\* CreateTrip: a requested trip with no driver.
NewRow == [status |-> "REQUESTED", driver |-> NoDriver,
           createdAt |-> "recent", acceptedAt |-> "null",
           offerDeadline |-> "null"]

-----------------------------------------------------------------------------
(* The guards of the domain methods, on the row GetByID returned. *)

\* Trip.AcceptByDriver: no driver yet, or the one it was offered to.
MayAccept(row, d) ==
  row.status = "REQUESTED" /\ row.driver \in {NoDriver, d}

\* Trip.Start.
MayStart(row) == row.status = "ACCEPTED"

\* Trip.Complete.
MayComplete(row) == row.status = "IN_PROGRESS"

\* Trip.RejectOffer: by the driver assigned, even after accepting.
MayReject(row, d) ==
  row.status \in {"REQUESTED", "ACCEPTED"} /\ row.driver = d

\* Trip.Cancel.
MayCancel(row) == row.status \in {"REQUESTED", "ACCEPTED"}

-----------------------------------------------------------------------------
(* The UPDATE statements. *)

\* UPDATE ... SET driver_id, status = 'ACCEPTED', accepted_at = NOW().
SetAccepted(row, d) ==
  [row EXCEPT !.status = "ACCEPTED", !.driver = d, !.acceptedAt = "recent"]

\* UPDATE ... SET status: start, cancel, complete and Trip.MatchFailed.
SetStatus(row, s) == [row EXCEPT !.status = s]

\* Mutant of SetRejected: the status is left alone.
ClearDriver(row) == [row EXCEPT !.driver = NoDriver]

\* UPDATE ... SET driver_id = NULL, status = 'REQUESTED': the deadline and
\* accepted_at keep their values.
SetRejected(row) == [row EXCEPT !.status = "REQUESTED", !.driver = NoDriver]

\* UPDATE ... SET driver_id, for Trip.Matched.
SetDriver(row, d) == [row EXCEPT !.driver = d]

\* UPDATE ... SET offer_deadline = now + 10 s.
SetDeadline(row) == [row EXCEPT !.offerDeadline = "ahead"]

-----------------------------------------------------------------------------
(* The WHERE clauses of the timeout worker. *)

\* Mutant of IsStuck: AND driver_id IS NULL.
IsStuckUnoffered(row) ==
  row.status = "REQUESTED" /\ row.driver = NoDriver /\ row.createdAt = "old"

\* GetStuckTrips: requested over 60 s ago, with or without a driver.
IsStuck(row) == row.status = "REQUESTED" /\ row.createdAt = "old"

\* GetExpiredOffers.
IsExpiredOffer(row) ==
  /\ row.status = "REQUESTED"
  /\ row.driver # NoDriver
  /\ row.offerDeadline = "past"

\* Mutant of IsStuckAccepted: accepted_at compared the wrong way round.
IsNewlyAccepted(row) == row.status = "ACCEPTED" /\ row.acceptedAt = "recent"

\* GetStuckAcceptedTrips: accepted over 5 minutes ago.
IsStuckAccepted(row) == row.status = "ACCEPTED" /\ row.acceptedAt = "old"
=============================================================================
