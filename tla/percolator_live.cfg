SPECIFICATION FairSyncSpec
CONSTANTS
  Tasks = {t1}
  Devices = {d1}
  Presets = {p1}
  Watches = {}
  Filters = {f1, f2}
  Refused = {}
  Threads = {s1, s2}
  None = None
  Unused = Unused
  Gone = Gone
  MaxFaults = 1
PROPERTIES
  TaskQueriesConverge
