SPECIFICATION MCSpec
CONSTANTS
  d1 = d1
  q1 = q1
  q2 = q2
  e1 = e1
  e2 = e2
  Drafts = {d1}
  Reqs = {q1, q2}
  Intents <- MCIntents
  SourceInputs <- MCSources
  ConfigInputs <- MCConfigs
  Evidence <- MCEvidence
  Hosts <- MCHosts
  MaxRevision = 9
  MaxAsked = 9
  VarNames = {"A", "B"}
  VarValues <- MCValues
  PlanInputs <- MCPlans
  Editors = {e1, e2}
  RunIds = {1, 2}
  MaxDesired = 4
  MaxOwned = 2
  Modes = {"git", "local", "compose_local", "paste", "image", "import"}
  keptReleases = 2
  MaxPrepRuns = 3
  MaxIdentity = 2
  MaxPrepCrashes = 1
  TreeRoots = {"site"}
  TreeFiles = {"Containerfile", "package.json", "yarn.lock", "bun.lock", "go.mod", "requirements.txt", "index.html"}
  Manifests <- MCManifests
  Requirements = {"pinned", "loose"}
  DocServices <- MCDocs
  MaxDocuments = 1
  CheckPlans <- MCCheckPlans
  MaxTries = 2
  EnvKeys = {"K"}
  EnvValues = {"x"}
  Branches = {"main", "next"}
  MaxCommit = 2
  MaxLegacyRuns = 3
  MaxRowEdits = 1
  Deployments = {"p"}
  RemovalTargets <- MCTargets
  FirstClaims <- MCClaims
  RemovalClients = {"q", "r"}
  MaxClaimEdits = 2
  MaxRemovals = 2
INVARIANTS PlanningInv ReleasesKept  HealthyMeansPassed
PROPERTIES ConfigKept  
CHECK_DEADLOCK FALSE
