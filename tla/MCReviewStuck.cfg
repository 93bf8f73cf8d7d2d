CONSTANTS
  Tasks <- OneTask
  Root = 0
  NoTask = NoTask
  e1 = e1
  e2 = e2
  Modes = {"orchestrated"}
  Engines = {e1}
  Capacity = 1
  MaxRetries = 0
  UserOps = {}
  PatchStatuses = {}
  MaxAttempts = 2
  MaxRequests = 0
  MaxCrashes = 1
  MaxFaults = 1
SPECIFICATION Spec
INVARIANT ReviewReachesOwner
CHECK_DEADLOCK FALSE
