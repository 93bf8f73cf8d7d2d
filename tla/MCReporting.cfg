CONSTANTS
  MaxConfigs = 2
  Cases = {1, 2}
  Costs = {1}
  MaxCost = 2
  Setups <- AllSetups
  Ticks = {"sched", "api"}
  Requests = {"pause", "resume", "cancel", "retry", "add", "retire", "delete", "delete_child", "report"}
  Overlapping = {"pause", "resume"}
  MaxRatings = 2
  Clerks = {1, 2, 3}
  None = None
SPECIFICATION ReportingSpec
INVARIANTS TypeOK LedgerComplete OneTaskPerCell NothingStranded LimitsHeld ServedReportCurrent ReportingSound
PROPERTIES ExperimentSettles CellsKeepLifecycle
CHECK_DEADLOCK FALSE
