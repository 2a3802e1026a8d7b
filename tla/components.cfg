SPECIFICATION Spec
CONSTANTS
  \* AlertAnalysis
  f1 = f1
  f2 = f2
  r1 = r1
  r2 = r2
  s1 = s1
  Flows = {f1, f2}
  Rules = {r1, r2}
  Sources = {s1}
  Lacking = Lacking
  Alerts <- MCAlerts
  Handlers = {h1, h2}
  MAX_ENTRIES = 3
  CLEANUP_EVERY = 2
  MaxAnalyses = 3
  \* PercolatorSync
  Tasks = {task1}
  Devices = {device1}
  Presets = {preset1}
  Watches = {watch1}
  Filters = {old, new}
  Refused = {}
  Threads = {job1, job2}
  None = None
  Unused = Unused
  Gone = Gone
  MaxFaults = 1
  \* RuleReview
  Reviewers = {t1, t2}
  Generated <- MCGenerated
  History <- MCHistory
  MIN_PROBE_LEN = 4
  MaxOthers = 1
  LOOKBACK_DAYS = 7
  REJECT_HITS = 100
  REJECT_DISTINCT_SRC = 5
  REJECT_COMBO_RATIO = 50
  REJECT_HITS_ABSOLUTE = 50000
  REJECT_ABSOLUTE_RATIO = 5
  MIN_SINGLE_LEN = 10
  Retentions = {3, 30}
  Nothing = Nothing
  MaxReviews = 2
  MaxOutages = 1
  \* MissedAttacks
  page = page
  attack = attack
  scanner = scanner
  hidden = hidden
  Empty = Empty
  Keywords <- MCKeywords
  Semantics <- MCSemantics
  LongLabel = {hidden}
  Tunnel = {scanner}
  Numeric = {attack}
  LongName = {scanner}
  Candidates <- MCCandidates
  MaxLogs = 4
  \* DeviceDrivers
  Callers = {c1, c2}
  Addresses = {i1, i2}
  Firmwares <- MCFirmwares
  Nobody = Nobody
  MAX_ATTEMPTS = 2
  VERIFY_ATTEMPTS = 2
  MaxCalls = 3
  MaxTroubles = 1
  \* DriverRegistry
  Loop = loop
  Deleters = {d1, d2}
  Keys = {k1, k2}
  Scripts <- MCScripts
  BuiltinNames = {"own"}
  Missing = Missing
  MaxRequests = 3
  MaxMishaps = 1
  \* DeviceStore
  host = host
  key = key
  Fields = {host, key}
  Inputs = {"a", "b", "enc:x"}
  Lookalikes = {"enc:x"}
  Unfit <- MCUnfit
  Schemas <- MCSchemas
  Blank = Blank
  MaxSaves = 3
SYMMETRY Symmetry
CHECK_DEADLOCK FALSE
INVARIANTS
  TypeOK
  DroppedWithReason
  LookupIsComplete
  RepeatsBounded
  CleanJobIsRight
  CommonTrafficStaysOut
  UnreplayedForAReason
  FailedForAReason
  SuccessIsTrue
  QuietCallsSucceed
  NoDoubleEntries
  NamesDiffer
  RequestLeavesTruth
  ScriptGetsWhatWasSaved
  SecretsStayHidden
PROPERTIES
  DoubtReturnsForAReason
  BlocksChangeForAReason
