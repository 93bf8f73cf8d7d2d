CONSTANTS
  Tasks <- OneTask
  Root = 0
  NoTask = NoTask
  e1 = e1
  e2 = e2
  Modes = {"direct", "orchestrated"}
  Engines = {e1}
  Capacity = 1
  MaxRetries = 1
  UserOps = {"start", "patch", "mode", "reject", "evaluate", "backfill"}
  PatchStatuses = {"ready", "done", "backlog"}
  MaxAttempts = 5
  MaxRequests = 3
  MaxCrashes = 1
  MaxFaults = 1
SPECIFICATION FairSpec
INVARIANTS WorkflowTypeOK NoHiddenExecution ReviewPaidOnce RecordPinsAttempt
PROPERTIES FinalStatusReconciled
CHECK_DEADLOCK FALSE
