\* Two deliveries and a fetch, with locks of each kind.
CONSTANTS
  Deliverers = {d1, d2}
  Fetcher = Fetcher
  None = None
  MaxTries = 2
  Setups <- MCSetups

SPECIFICATION FairSpec

INVARIANTS
  Exclusive
  WholeMails
  DeliveredStays

PROPERTY DeliveriesEnd
