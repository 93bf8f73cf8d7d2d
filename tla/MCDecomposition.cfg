CONSTANTS
  Tasks <- ThreeTasks
  Root = 0
  NoTask = NoTask
  e1 = e1
  e2 = e2
  Modes = {"benchmark"}
  Engines = {e1, e2}
  Capacity = 2
  MaxRetries = 0
  UserOps = {}
  PatchStatuses = {}
  MaxAttempts = 2
  MaxRequests = 0
  MaxCrashes = 0
  MaxFaults = 2
SPECIFICATION FairSpec
INVARIANTS FamilyAgrees
PROPERTIES RootRests
CHECK_DEADLOCK FALSE
