\* Three folders, mail in one of them or in all, purging after every mail, two runs.
CONSTANTS
  Last = 3
  Uid <- MCUid
  Oversize <- NoneLarge
  MaxRuns = 2
  Accounts <- MCAccounts
  PurgeAfter = 1
  QueueHigh = 2

SPECIFICATION FairSpec

INVARIANTS
  DeletesOnlyDropped

PROPERTIES
  RunEnds
