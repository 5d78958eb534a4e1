SPECIFICATION FairEngineSpec
CONSTANTS
  MaxRuns = 1
  Envs = {"prod"}
  Production = {"prod"}
  Paths = {}
  Keys = {}
  Requests <- MCRequests
  HeavyBudget = 1
  LightBudget = 2
  TTL = 1
  MaxTime = 0
  MaxTokens = 1
  Plan <- MCSkippedPlan
  MaxCrashes = 0
  MaxStops = 0
  MaxCancels = 0
  MaxFaults = 0
  Stalls = FALSE
PROPERTY InapplicableStepsConverge
CHECK_DEADLOCK FALSE
