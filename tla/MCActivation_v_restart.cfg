SPECIFICATION ActSpec
CONSTANTS
  MaxReleases = 1
  MaxRestarts = 1
  MaxFaults = 0
  MaxCancels = 0
  MaxCrashes = 0
INVARIANT RestartFailsForCause
CHECK_DEADLOCK FALSE
