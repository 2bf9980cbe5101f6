\* One replica, no fault: one trip to its completion.
SPECIFICATION Spec
CONSTANTS
  NoDriver = NoDriver
  NoTask = NoTask
  c1 = c1
  c2 = c2
  d1 = d1
  d2 = d2
  t1 = t1
  t2 = t2
  Drivers = {d1, d2}
  Trips = {t1}
  Nearness <- OneTrip
  Roaming = {d1}
  Consumers = {c1}
  Ids = {1, 2}
  MaxRetries = 2
  MaxFaults = 0
  MaxUnoffered = 0
INVARIANTS
  CompletedDriverIsReleased
CHECK_DEADLOCK FALSE
