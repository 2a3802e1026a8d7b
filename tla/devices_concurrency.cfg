SPECIFICATION DriversSpec
CONSTANTS
  Callers = {c1, c2}
  Addresses = {i1, i2}
  Firmwares <- MCFirmwares
  Nobody = Nobody
  MAX_ATTEMPTS = 2
  VERIFY_ATTEMPTS = 2
  MaxCalls = 2
  MaxTroubles = 0
CHECK_DEADLOCK FALSE
PROPERTIES
  OthersBlocksStay
