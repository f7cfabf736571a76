\* An account of each kind; purging after every mail, three messages, two runs.
CONSTANTS
  MaxMessages = 3
  FirstMessages = 2
  MaxRuns = 2
  Accounts <- MCAccounts
  PurgeAfter = 1
  QueueHigh = 2
  DelBig = TRUE

SPECIFICATION FairSpec

INVARIANTS
  DeletesOnlyDropped
  FetchedOnce

PROPERTIES
  SettledNotFetchedAgain
  RunEnds
