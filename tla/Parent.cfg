\* Undisturbed, or with children that die and a signal that comes at any point.
CONSTANTS
  a1 = a1
  a2 = a2
  Account = {a1, a2}
  MaxJobs = 2
  Worlds <- Either

SPECIFICATION FairSpec

INVARIANTS
  NoOrphans
  NothingLeft

PROPERTIES
  EveryRequestAnswered
  ParentEnds
