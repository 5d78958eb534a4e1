SPECIFICATION MCFairSpec
CONSTANTS
  c1 = c1
  Clients = {c1}
  MaxSeq = 4
  Buffer = 1
  BacklogLimit = 4
  Keep = 1
  MaxDrops = 2
  w1 = w1
  MaxStarts = 2
  Watchers = {w1}
  maxJobs = 1
  ChanSize = 1
  MaxOutput = 1
  MaxVisits = 1
  v1 = v1
  eventBufferSize = 2
  subBuffer = 1
  Viewers = {v1}
  Noise = {2}
  MaxEvents = 6
  MaxVisitsEv = 2
  LogSources = {"file", "pm2", "docker", "journal"}
  RecordKinds <- MCRecordKinds
  LogFilters <- MCLogFilters
  LogQueries <- MCLogQueries
  Wanted = 1
  Widening = 2
  PrefillCap = 2
  LogChan = 1
  OutChan = 1
  BatchSize = 2
  DateExt = FALSE
  RecentOnly = 2
  Widths <- MCWidths
  histogramBuckets = 1
  MaxRecords = 3
  MaxGenerations = 2
INVARIANTS StreamInv FeedInv LogsInv
PROPERTIES EndIsSeen JobsSettle TailLeaves
CHECK_DEADLOCK FALSE
