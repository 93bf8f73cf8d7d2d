CONSTANTS
  MaxAttempts = 1
  MaxSeq = 3
  Bodies <- Records
  abort = abort
  feedback = feedback
  c1 = c1
  Configs = {c1}
  NoConfig = NoConfig
  NoId = NoId
  Commands = {}
  AbortCommands = {}
  Verdicts = {"success", "failed"}
  BatchLimit = 2
  MaxWire = 2
  MaxCrashes = 2
  MaxFaults = 0
  MaxLosses = 2
  Replicas = FALSE
SPECIFICATION FairDeliverySpec
INVARIANTS DeliveryTypeOK EvidenceDelivered
PROPERTIES AttemptsEnd
CHECK_DEADLOCK FALSE
