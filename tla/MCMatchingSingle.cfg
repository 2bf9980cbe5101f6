\* One replica, no fault: two trips compete for the nearest driver, and a
\* driver accepts a trip unoffered.
SPECIFICATION Spec
CONSTANTS
  NoDriver = NoDriver
  NoTask = NoTask
  c1 = c1
  c2 = c2
  d1 = d1
  d2 = d2
  t1 = t1
  t2 = t2
  Drivers = {d1, d2}
  Trips = {t1, t2}
  Nearness <- Contested
  Roaming = {d1}
  Consumers = {c1}
  Ids = {1, 2}
  MaxRetries = 2
  MaxFaults = 0
  MaxUnoffered = 1
INVARIANTS
  NoDoubleBooking
  AcceptedDriverIsOnTrip
CHECK_DEADLOCK FALSE
