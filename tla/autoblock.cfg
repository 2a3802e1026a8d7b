SPECIFICATION Spec
CONSTANTS
  Tasks = {t1}
  Devices = {d1}
  Presets = {p1}
  Drivers = {k1}
  Builtin = {}
  a1 = a1
  a2 = a2
  e1 = e1
  e2 = e2
  Addresses = {a1}
  Networks <- MCNetworks
  Alerts = {e1}
  SourceIp <- MCSourceIp
  Handlers = {h1}
  Consumer = Consumer
  None = None
  MAX_ATTEMPTS = 2
  BATCH = 1
  MaxRows = 1
  MaxRecords = 2
  MaxFaults = 1
INVARIANTS
  TypeOK
  MarkedOnlyAfterSuccess
  BlockedIsLogged
  ProtectedNeverBlocked
  UnblockFollowsBlock
