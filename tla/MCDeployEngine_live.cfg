SPECIFICATION FairEngineSpec
CONSTANTS
  MaxRuns = 2
  Envs = {"prod"}
  Production = {"prod"}
  Paths = {}
  Keys = {}
  Requests <- MCRequests
  HeavyBudget = 1
  LightBudget = 2
  TTL = 1
  MaxTime = 2
  MaxTokens = 3
  Plan <- MCUnskippedPlan
  MaxCrashes = 1
  MaxStops = 1
  MaxCancels = 0
  MaxFaults = 0
  Stalls = FALSE
PROPERTY RunsEnd
CHECK_DEADLOCK FALSE
