CONSTANTS
  Tasks <- OneTask
  Root = 0
  NoTask = NoTask
  e1 = e1
  e2 = e2
  Modes = {"direct", "orchestrated"}
  Engines = {e1}
  Capacity = 1
  MaxRetries = 1
  UserOps = {"start", "mode", "approve", "reject"}
  PatchStatuses = {}
  MaxAttempts = 5
  MaxRequests = 3
  MaxCrashes = 2
  MaxFaults = 0
SPECIFICATION FairSpec
INVARIANTS OwnerDecides
PROPERTIES WorkflowCompletes
CHECK_DEADLOCK FALSE
