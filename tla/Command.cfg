\* Commands of every caller, a mail of two pieces, pipes that hold one.
CONSTANTS
  PipeSize = 1
  MaxLine = 2
  Size = 2
  MaxOut = 2
  Calls <- MCCalls

SPECIFICATION FairSpec

INVARIANTS
  OutputWhole
  NeverStuck

PROPERTY CommandEnds
