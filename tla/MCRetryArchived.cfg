CONSTANTS
  Tasks <- OneTask
  Root = 0
  NoTask = NoTask
  e1 = e1
  e2 = e2
  Modes = {"orchestrated"}
  Engines = {e1}
  Capacity = 1
  MaxRetries = 1
  UserOps = {"backfill"}
  PatchStatuses = {}
  MaxAttempts = 2
  MaxRequests = 0
  MaxCrashes = 0
  MaxFaults = 0
SPECIFICATION Spec
INVARIANT RetryBeforeArchive
CHECK_DEADLOCK FALSE
