\* Two groups, two articles at a time (queue-high's default), two runs.
CONSTANTS
  Last = 2
  MaxNo = 3
  MaxEpoch = 1
  MaxRuns = 2
  QueueHigh = 2
  DelBig = TRUE

SPECIFICATION NewsSpec

INVARIANTS
  PassedOverAreFew

PROPERTY CommittedNotFetchedAgain
