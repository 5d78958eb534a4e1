SPECIFICATION Spec
CONSTANTS
  MaxRuns = 2
  Envs <- MCEnvs
  Production <- MCProduction
  Paths <- MCPaths
  Keys = {}
  Requests <- MCLeaseRequests
  HeavyBudget = 1
  LightBudget = 1
  TTL = 1
  MaxTime = 3
  MaxTokens = 3
INVARIANTS QueueInv
PROPERTIES FencedWrites ImplementsEnvironmentLock
CHECK_DEADLOCK FALSE
