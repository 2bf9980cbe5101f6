\* Two replicas, no fault: both match the one driver.
SPECIFICATION Spec
CONSTANTS
  NoDriver = NoDriver
  NoTask = NoTask
  c1 = c1
  c2 = c2
  d1 = d1
  d2 = d2
  t1 = t1
  t2 = t2
  Drivers = {d1}
  Trips = {t1, t2}
  Nearness <- OneDriver
  Roaming = {d1}
  Consumers = {c1, c2}
  Ids = {1, 2}
  MaxRetries = 2
  MaxFaults = 0
  MaxUnoffered = 0
INVARIANTS
  NoDoubleBooking
CHECK_DEADLOCK FALSE
