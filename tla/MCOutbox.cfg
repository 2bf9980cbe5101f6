\* Two replicas polling the same table, two transactions, two faults.
SPECIFICATION FairSpec
CONSTANTS
  NoUpdate = NoUpdate
  Events = {e1, e2}
  Workers = {w1, w2}
  Times = {1, 2}
  BatchLimit = 2
  MaxFaults = 2
INVARIANTS
  NothingLost
  InOrder
  DuplicatesExplained
PROPERTIES
  ImplementsChannel
  EveryCommitDelivered
  EventuallyMarked
CHECK_DEADLOCK FALSE
