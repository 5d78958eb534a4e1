SPECIFICATION EngineSpec
CONSTANTS
  MaxRuns = 1
  Envs = {"prod"}
  Production = {"prod"}
  Paths = {}
  Keys = {}
  Requests <- MCRequests
  HeavyBudget = 1
  LightBudget = 2
  TTL = 1
  MaxTime = 4
  MaxTokens = 3
  Plan <- MCPlan
  MaxCrashes = 2
  MaxStops = 1
  MaxCancels = 1
  MaxFaults = 1
  Stalls = TRUE
INVARIANTS SideEffectOnce ActivationUninterrupted EngineInv
PROPERTY EngineUsesQueue
CHECK_DEADLOCK FALSE
