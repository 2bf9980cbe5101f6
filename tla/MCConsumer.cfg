\* Two replicas, three entries, one fault: the safety properties and liveness.
SPECIFICATION FairSpec
CONSTANTS
  a = a
  b = b
  NumEntries = 3
  Events = {a, b}
  EventOf <- EventOfThree
  Poison = {3}
  Flaky = {1, 2}
  Consumers = {c1, c2}
  ReadCount = 2
  MaxRetries = 2
  MaxFaults = 1
INVARIANTS
  NothingDropped
  QuarantineEarned
  OutcomesExplained
  OvertakenOnlyIfDeferred
PROPERTIES
  EveryEntryAcked
CHECK_DEADLOCK FALSE
