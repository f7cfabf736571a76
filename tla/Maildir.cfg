\* Two mails in new, one on its way; two fetches, a mail reader, kills.
CONSTANTS
  Deliverers = {d}
  Old = {m1, m2}
  Big = {m2}
  MaxClashes = 1
  MaxRuns = 2
  QueueHigh = 2

SPECIFICATION Spec

INVARIANTS
  FoundWhole
  FetchedOnce
  DroppedAreGone
