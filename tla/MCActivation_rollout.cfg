SPECIFICATION ActSpec
CONSTANTS
  MaxReleases = 2
  MaxRestarts = 1
  MaxFaults = 2
  MaxCancels = 1
  MaxCrashes = 1
INVARIANT RolloutInv
CHECK_DEADLOCK FALSE
