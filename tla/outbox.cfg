SPECIFICATION FairSpec
CONSTANTS
  Watches = {w1, w2}
  Alerts = {a1}
  None = None
  BATCH = 2
  TRIES = 2
  MaxRows = 3
  MaxFaults = 1
CHECK_DEADLOCK FALSE
INVARIANTS
  TypeOK
  MailsBounded
PROPERTIES
  NoMailLost
  OutboxDrains
