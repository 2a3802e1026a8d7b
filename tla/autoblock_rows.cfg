SPECIFICATION Spec
CONSTANTS
  Tasks = {t1}
  Devices = {d1, d2}
  Presets = {p1}
  Drivers = {k1}
  Builtin = {k1}
  a1 = a1
  a2 = a2
  e1 = e1
  e2 = e2
  Addresses = {a1}
  Networks = {}
  Alerts = {e1}
  SourceIp <- MCSourceIp
  Handlers = {}
  Consumer = Consumer
  None = None
  MAX_ATTEMPTS = 2
  BATCH = 2
  MaxRows = 2
  MaxRecords = 2
  MaxFaults = 1
CHECK_DEADLOCK FALSE
SYMMETRY DeviceSymmetry
INVARIANTS
  RetriesBounded
PROPERTIES
  NoSilentLoss
  Refines
