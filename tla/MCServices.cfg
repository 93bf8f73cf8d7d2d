CONSTANTS
  RunSetups <- SmallRuns
  RunTicks = {"api", "job"}
  PairSetups <- SmallPairs
  Judges = {"job", "api"}
  MaxPending = 2
  EventBuffer = 1
  HighWater = 1
  MaxCalls = 2
  MaxEvents = 1
  LogTools = {"search", "write"}
  MaxLogged = 2
  MaxJournal = 4
  Tools = {"search", "write"}
  MaxActions = 6
  StepSizes = {2, 9}
  MaxSteps = 4
  Budgets = {5, 10, 17}
  EvalSetups <- SmallEvals
  AnnotationSetups <- SmallAnnotations
SPECIFICATION ServicesSpec
INVARIANTS RunsCounted PairSound ExchangeSound TracesSound TrajectoriesSound EvaluationsSound AnnotationsSound VerdictsSound
PROPERTIES ServicesEnd
CHECK_DEADLOCK FALSE
