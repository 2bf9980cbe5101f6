--------------------------- MODULE MCTripService ----------------------------
(* Instances of TripService for TLC, with model values for every set. *)
EXTENDS TripService
=============================================================================
