SPECIFICATION MCSpec
CONSTANTS
  Dsns = {"one", "two"}
  ConnIds = {1, 2}
  Drivers = {"postgres", "sqlite", "redis"}
  Queries <- MCQueries
  DbRows = {1, 2}
  DbCalls = {"q", "r"}
  Caps = {TRUE, FALSE}
  MaxDbCalls = 3
  Engines = {"postgres", "mysql", "mongo", "sqlite"}
  Listing <- MCListing
  ForeignKeys <- MCForeignKeys
  RowNumbers = {1, 2}
  Tools = {TRUE, FALSE}
  DumpCalls = {"c"}
  MaxAppWrites = 3
  MaxSecond = 2
  MaxRestores = 1
  PathNames = {"a", "b", "m"}
  MaxDepth = 2
  Roots <- MCRoots
  OnVolume <- MCOnVolume
  FirstTree <- MCTrees
  NewTexts = {"edited"}
  AskedPaths <- MCAskedPaths
  Archives <- MCArchives
  DiskUnits = 6
  minExtractFreeBytes = 2
  maxExtractBytes = 9
  maxExtractEntries = 3
  FileCalls = {"c1", "c2"}
  MaxFileOps = 2
  MaxOpened = 2
  maxSessions = 1
  Browsers = {b1}
  Uploads = {u1}
  chanChunks = 1
  maxBehind = 2
  MaxBytes = 3
  MaxBoots = 2
  Shells = {h1, h2}
  Folders = {"a", "b"}
  Clients = {c1}
  MaxWindows = 2
  MaxFolderOps = 2
  Users = {n1, n2}
  SessionIds = {s1, s2}
  TokenIds = {t1}
  Codes = {k1}
  Requests = {q1}
  maxFailedLogins = 2
  MaxChanges = 6
  BackupJobs = {1}
  JobTitles = {"web"}
  sanitise <- MCSanitise
  Retentions = {1}
  Targets = {"local", "s3"}
  Admins = {"a"}
  Readers = {"d"}
  MaxBackupRuns = 3
  MaxSeconds = 1
  MaxEdits = 2
  MaxRestarts = 1
INVARIANTS RestoreReproduces TerminalsInv AccountsInv BackupsInv
   
CHECK_DEADLOCK FALSE
