\* The worker: two faults, one connection.
SPECIFICATION FairSpec
CONSTANTS
  NumEntries = 3
  u1 = u1
  c1 = c1
  c2 = c2
  Conns = {c1}
  Users = {u1}
  NoUser = NoUser
  UserOf <- MCUserOf
  Targets <- FaultTargets
  Core <- FaultCore
  Malformed <- FaultMalformed
  Capacity = 1
  NoJob = NoJob
  NoTask = NoTask
  ReadCount = 2
  MaxRetries = 2
  MaxFaults = 2
INVARIANTS
  PushedOnce
  HistoryBeforePush
  PassedOverOnlyAfterFault
  QuarantineNeedsFaults
PROPERTIES
  EveryEntryAcked
CHECK_DEADLOCK FALSE
