\* The hub: three pushes to two connections, no fault of the worker.
SPECIFICATION FairSpec
CONSTANTS
  NumEntries = 3
  u1 = u1
  c1 = c1
  c2 = c2
  Conns = {c1, c2}
  Users = {u1}
  NoUser = NoUser
  UserOf <- MCUserOf
  Targets <- HubTargets
  Core <- HubCore
  Malformed <- HubMalformed
  Capacity = 2
  NoJob = NoJob
  NoTask = NoTask
  ReadCount = 2
  MaxRetries = 2
  MaxFaults = 0
INVARIANTS
  NoSendOnClosed
  NoGaps
  OnlyTargetedOvertakes
PROPERTIES
  GoneClientsLeave
CHECK_DEADLOCK FALSE
