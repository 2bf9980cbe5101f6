\* Two replicas and two faults, the second failure quarantines: no driver is
\* asked twice and a waiting trip gets its answer.
SPECIFICATION FairSpec
CONSTANTS
  NoDriver = NoDriver
  NoTask = NoTask
  c1 = c1
  c2 = c2
  d1 = d1
  d2 = d2
  t1 = t1
  t2 = t2
  Drivers = {d1}
  Trips = {t1}
  Nearness <- OneTripOneDriver
  Roaming = {d1}
  Consumers = {c1, c2}
  Ids = {1, 2}
  MaxRetries = 2
  MaxFaults = 2
  MaxUnoffered = 0
INVARIANTS
  TypeOK
  RejectedNotOfferedAgain
PROPERTIES
  WaitingTripAnswered
CHECK_DEADLOCK FALSE
