------------------------- MODULE MCNotificationWorker -------------------------
(* Instances of NotificationWorker for TLC: c1 is a browser of user u1, c2  *)
(* one without userId.                                                      *)
EXTENDS NotificationWorker

CONSTANTS u1, c1, c2

MCUserOf == [c \in Conns |-> IF c = c1 THEN u1 ELSE NoUser]

\* A core event of u1, an event of u1 that is not broadcast, and one that
\* names nobody.
HubTargets == <<<<u1>>, <<u1>>, <<>>>>
HubCore == {1}
HubMalformed == {}

\* A malformed entry, a core event that names u1 twice, and an event of u1
\* that is not broadcast.
FaultTargets == <<<<>>, <<u1, u1>>, <<u1>>>>
FaultCore == {2}
FaultMalformed == {1}
=============================================================================
