\* Three alerts, an index of two records, one fault.
SPECIFICATION FairSpec
CONSTANTS
  f1 = f1
  f2 = f2
  k1 = k1
  k2 = k2
  Fingerprints = {f1, f2}
  Families = {k1, k2}
  Documents <- MCDocuments
  Drafts <- MCDrafts
  MaxRecords = 2
  MaxIncidents = 3
  MaxFaults = 1
  None = None
INVARIANTS
  TypeOK
  ConfirmationApproved
  UnreviewedWithheld
  AnsweredIsKept
PROPERTIES
  UnansweredExplained
  InvestigationEnds
CHECK_DEADLOCK FALSE
