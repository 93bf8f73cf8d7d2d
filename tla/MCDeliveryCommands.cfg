CONSTANTS
  MaxAttempts = 1
  MaxSeq = 1
  Bodies <- Records
  abort = abort
  feedback = feedback
  c1 = c1
  Configs = {c1}
  NoConfig = NoConfig
  NoId = NoId
  Commands = {abort, feedback}
  AbortCommands = {abort}
  Verdicts = {"success", "failed"}
  BatchLimit = 1
  MaxWire = 1
  MaxCrashes = 1
  MaxFaults = 1
  MaxLosses = 1
  Replicas = FALSE
SPECIFICATION DeliverySpec
INVARIANTS AbortExcludesSuccess CommandsExecuteOnce
PROPERTIES Spec
CHECK_DEADLOCK FALSE
