SPECIFICATION FairSpec
CONSTANTS
  good = good
  typo = typo
  c1 = c1
  c2 = c2
  t1 = t1
  t2 = t2
  Rules <- MCRules
  HandRules <- MCHandRules
  Contents <- MCContents
  Valid <- MCRules
  HandSid <- MCHandSid
  Tasks <- MCTasks
  Batch <- MCBatch
  None = None
  SID_MIN = 5
  ROUNDS = 2
  MaxInstances = 2
  MaxUpsets = 1
CHECK_DEADLOCK FALSE
INVARIANTS
  GeneratedSidsDiffer
  NoFeatureTwice
PROPERTIES
  HealingSparesGoodRules
  FileGetsLoaded
