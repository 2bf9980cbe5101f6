------------------------ MODULE MCRideEventConsumer -------------------------
(* An instance of RideEventConsumer for TLC. *)
EXTENDS RideEventConsumer, TLC

CONSTANTS a, b

\* The outbox appended event a twice; event b is poisonous, a Trip.Started.
EventOfThree == 1 :> a @@ 2 :> a @@ 3 :> b
=============================================================================
