\* Three mails, a queue of two: the fetch loop of an account with a socket.
CONSTANTS
  Rule <- MCRule
  NoRule = NoRule
  Ruleset <- MCRuleset
  FirstRule = 1
  ImplAct = "keep"
  MaxMails = 3
  MaxAgain = 1
  QueueHigh = 2
  QueueLow = 1
  KeepAll = FALSE
  DelBig = TRUE
  HasSocket = TRUE
  NoMsg = NoMsg

SPECIFICATION FairSpec

INVARIANTS
  QueueBound
  OneOutstanding
  SleepsOnlyIfAllWait

PROPERTIES
  KeepsPromise
  FetchEnds
