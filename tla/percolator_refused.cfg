SPECIFICATION FairSyncSpec
CONSTANTS
  Tasks = {t1, t2}
  Devices = {d1}
  Presets = {p1, p2}
  Watches = {}
  Filters = {f1, f2}
  Refused = {f2}
  Threads = {s1}
  None = None
  Unused = Unused
  Gone = Gone
  MaxFaults = 0
PROPERTIES
  TaskQueriesConverge
