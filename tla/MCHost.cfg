SPECIFICATION MCSpec
SYMMETRY BoxSymmetry
CONSTANTS
  SiteSpecInputs <- MCSites
  StreamInputs <- MCStreamSites
  HandTexts <- MCHandTexts
  Unacceptable <- MCUnacceptable
  Debian = TRUE
  StreamsIncluded = TRUE
  Certs = {"c1"}
  Covers <- MCCovers
  Addresses = {"in", "host", "out"}
  AuthFiles = {f1}
  AuthUsers = {u1, u2}
  AuthRequests = {r1, r2}
  MaxProxyOps = 3
  q1 = q1
  Backends = {"ufw", "firewalld"}
  FirstRules <- MCFirstRules
  RuleRequests <- MCRules
  CallerIP = "me"
  SourceCovers <- MCSourceCovers
  FwRequests = {q1}
  MaxFwOps = 3
  MainFiles <- MCMainFiles
  EarlierDropIns <- MCEarlier
  PortNumber <- MCPortNumber
  SocketHosts = {TRUE, FALSE}
  SshChanges <- MCSshChanges
  HostUsers = {"root", "ann"}
  PubKeys = {"k1"}
  SshRequests = {p1}
  KeyRequests = {k1}
  MaxSshOps = 4
  JailNames = {"sshd", "web"}
  Shipped <- MCShipped
  ParamChanges <- MCParamChanges
  BannedAddresses = {"me", "you"}
  OwnAddress = "me"
  JailRequests = {j1}
  MaxJailOps = 3
  Loads <- MCLoads
  Mounts = {"root", "var"}
  Unread <- MCUnread
  IntervalAsked = 0
  RetentionAsked = 1
  MinInterval = 1
  MaxInterval = 3
  DefaultInterval = 1
  Hour = 2
  MaxClock = 5
  MaxTraffic = 1
  MaxReboots = 1
  Manifests <- MCManifests
  FirstVersion <- MCFirstVersion
  Listings <- MCListings
  Disk <- MCDisk
  explicitDir = ""
  CheckOnline = TRUE
  HealthKnown = TRUE
  Installers = {i1}
  Dismissers = {d1}
  MaxUpdateRuns = 2
  MaxBootings = 2
  BoxIds = {"b1", "b2", "b3"}
  FirstBoxes <- MCBoxes
  EditedSpecs <- MCSpecs
  AdminCaller = TRUE
  InFileRoots <- MCRoots
  BoxRequests = {c1, c2}
  MaxBoxCalls = 2
  Texts = {"one", "two", "broken"}
  FirstTexts = {"one", "none"}
  Declares <- MCDeclares
  Parses <- MCParses
  StackRequests = {s1}
  MaxStackCalls = 3
  MaxImages = 1
INVARIANTS     RecordsReal ChartsTell   
CHECK_DEADLOCK FALSE
