\* Two accounts with up to three mails, one cache; fdm is run twice.
\* Main files of up to three statements, or six with a block around, and one to include.
CONSTANTS
  m1 = m1
  m2 = m2
  m3 = m3
  A = A
  B = B
  Mails = {m1, m2, m3}
  Process = {A, B}
  Account <- MCAccount
  Key <- MCKey
  Age = 1
  MaxTime = 3
  MaxRuns = 2
  MaxByHand = 1
  Rule <- MCRule
  NoRule = "none"
  Ruleset <- MCRuleset
  FirstRule = "d1"
  ImplAct = "keep"
  Conds <- MCConds
  Acts <- MCActs
  Setups <- MCSetups
  Confs <- MCConfs

SPECIFICATION MCSpec

INVARIANTS
  DroppedWasDelivered
  RemembersText
  ReadAsWritten

PROPERTIES
  KeepsTexts

CHECK_DEADLOCK FALSE
