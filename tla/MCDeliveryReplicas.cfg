CONSTANTS
  MaxAttempts = 2
  MaxSeq = 1
  Bodies <- Records
  abort = abort
  feedback = feedback
  c1 = c1
  Configs = {c1}
  NoConfig = NoConfig
  NoId = NoId
  Commands = {}
  AbortCommands = {}
  Verdicts = {"success"}
  BatchLimit = 2
  MaxWire = 0
  MaxCrashes = 0
  MaxFaults = 0
  MaxLosses = 0
  Replicas = TRUE
SPECIFICATION DeliverySpec
INVARIANTS SuccessIsEarned OneConnectorExecutes
CHECK_DEADLOCK FALSE
