\* One delivery to a server in each setup.
CONSTANTS
  Setups <- MCSetups
  Char = {".", "a", "b", "c", "lf"}

SPECIFICATION NetSpec

INVARIANTS
  ReportedWasAccepted
  OnlyTheMailIsTaken
  NothingOfProxyLeft

PROPERTY DeliveryEnds
