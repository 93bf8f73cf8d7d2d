CONSTANTS
  MaxAttempts = 2
  MaxSeq = 2
  Bodies <- ManyBodies
  abort = abort
  feedback = feedback
  c1 = c1
  c2 = c2
  Configs = {c1, c2}
  NoConfig = NoConfig
  Commands = {abort}
  AbortCommands = {abort}
SPECIFICATION Spec
INVARIANTS TypeOK OneCurrentAttempt EndSettlesAttempt
PROPERTIES HistoryFrozen LifecycleSpec
CHECK_DEADLOCK FALSE
