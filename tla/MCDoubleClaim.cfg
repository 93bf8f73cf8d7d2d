CONSTANTS
  MaxConfigs = 2
  Cases = {1, 2}
  Costs = {1}
  MaxCost = 2
  Setups <- PlainOnly
  Ticks = {"sched", "api"}
  Requests = {}
  Overlapping = {"tick"}
SPECIFICATION Spec
INVARIANTS OnePopulation
CHECK_DEADLOCK FALSE
