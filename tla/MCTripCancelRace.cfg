\* An accept and a cancellation in flight together, no worker, no fault.
SPECIFICATION Spec
CONSTANTS
  NoDriver = NoDriver
  Drivers = {d1}
  Trips = {t1}
  Callers = {c1, c2}
  Sweepers = {}
  Updaters = {}
  MaxRequests = 2
  MaxFaults = 0
PROPERTIES
  CancelledStaysCancelled
CHECK_DEADLOCK FALSE
