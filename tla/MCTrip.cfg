\* One trip, a caller, both workers and one fault: safety and liveness.
SPECIFICATION FairSpec
CONSTANTS
  NoDriver = NoDriver
  Drivers = {d1}
  Trips = {t1}
  Callers = {c1}
  Sweepers = {s1}
  Updaters = {u1}
  MaxRequests = 3
  MaxFaults = 1
INVARIANTS
  AcceptedHasDriver
  NoSilentCancel
PROPERTIES
  RequestedResolves
  AcceptedResolves
CHECK_DEADLOCK FALSE
