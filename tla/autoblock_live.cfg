SPECIFICATION FairSpec
CONSTANTS
  Tasks = {t1}
  Devices = {d1}
  Presets = {p1}
  Drivers = {k1}
  Builtin = {k1}
  a1 = a1
  a2 = a2
  e1 = e1
  e2 = e2
  Addresses = {a1, a2}
  Networks = {}
  Alerts = {e1, e2}
  SourceIp <- MCSourceIp
  Handlers = {}
  Consumer = Consumer
  None = None
  MAX_ATTEMPTS = 2
  BATCH = 1
  MaxRows = 2
  MaxRecords = 2
  MaxFaults = 1
CHECK_DEADLOCK FALSE
PROPERTIES
  RowsLeave
