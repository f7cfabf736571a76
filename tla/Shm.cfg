\* Two mails, rewritten at most once each.
CONSTANTS
  Mails = {m1, m2}
  MaxRewrites = 1
  Setups <- MCSetups

SPECIFICATION Spec

INVARIANTS
  RemovesWhatIsThere
  MailArrives
  NothingLeft
  ReadsFolded
