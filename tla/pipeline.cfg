SPECIFICATION Spec
CONSTANTS
  a1 = a1
  a2 = a2
  old = old
  e1 = e1
  probe = probe
  Alerts <- MCAlerts
  Events <- MCEvents
  Pushed <- MCPushed
  ByHand <- MCByHand
  Flow <- MCFlow
  Time <- MCTime
  Sig <- MCSig
  Severity <- MCSeverity
  What <- MCWhat
  HISTORY = 1
  None = None
  MaxInstances = 2
  MaxDays = 2
  MaxFaults = 1
CHECK_DEADLOCK FALSE
INVARIANTS
  TypeOK
  
  OneRulePerSignature
  OneRecordPerMissedAttack
  MissedAttacksGetRecorded
