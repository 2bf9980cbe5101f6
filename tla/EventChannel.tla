---------------------------- MODULE EventChannel ----------------------------
(***************************************************************************)
(* What the transactional outbox of ride-service promises to the readers   *)
(* of the ride_events stream, without workers, batches or row statuses: an *)
(* event enters the log only after its transaction committed, nothing is   *)
(* ever removed from the log, and every committed event reaches it at      *)
(* least once.  The Outbox module is shown to implement this one.          *)
(***************************************************************************)
EXTENDS Naturals, Sequences

CONSTANT Events

VARIABLES
  committed,   \* the events whose transaction committed
  log          \* the stream, oldest entry first

vars == <<committed, log>>

InLog(e) == \E i \in DOMAIN log : log[i] = e

Init == /\ committed = {}
        /\ log = <<>>

\* A business transaction commits together with its event.
Commit(e) == /\ e \notin committed
             /\ committed' = committed \cup {e}
             /\ UNCHANGED log

\* The event is appended to the log, for the first time or once more.
Deliver(e) == /\ e \in committed
              /\ log' = Append(log, e)
              /\ UNCHANGED committed

Next == \E e \in Events : Commit(e) \/ Deliver(e)

Spec == Init /\ [][Next]_vars

\* At-least-once delivery: whatever is committed reaches the log.
EveryCommitDelivered == \A e \in Events : (e \in committed) ~> InLog(e)
=============================================================================
