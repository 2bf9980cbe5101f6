-------------------------- MODULE MCDriverMatching ---------------------------
(* Instances of DriverMatching for TLC. *)
EXTENDS DriverMatching, TLC

CONSTANTS d1, d2, t1, t2, c1, c2

\* Both trips have the same nearest driver, or the only one.
Contested == t1 :> <<d1, d2>> @@ t2 :> <<d1>>
OneTrip == t1 :> <<d1, d2>>
OneTripOneDriver == t1 :> <<d1>>
OneDriver == t1 :> <<d1>> @@ t2 :> <<d1>>
=============================================================================
