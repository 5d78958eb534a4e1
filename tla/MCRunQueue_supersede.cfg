SPECIFICATION Spec
CONSTANTS
  MaxRuns = 4
  Envs <- MCEnvs
  Production <- MCProduction
  Paths <- MCPaths
  Keys <- MCKeys
  Requests <- MCRequests
  HeavyBudget = 1
  LightBudget = 1
  TTL = 1
  MaxTime = 0
  MaxTokens = 1
INVARIANTS IdempotencyUnique SupersededIsCovered
CHECK_DEADLOCK FALSE
