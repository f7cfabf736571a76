\* Two mboxes of up to three mails, two runs that may be cut short anywhere.
CONSTANTS
  Boxes = 2
  MaxMails = 3
  MaxRuns = 2
  QueueHigh = 2

SPECIFICATION MboxSpec

PROPERTY NothingLost
