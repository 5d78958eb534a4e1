------------------------------ MODULE Backups ------------------------------
(***************************************************************************)
(* Backup jobs (backend/internal/backups and handlers_backups.go): the     *)
(* stored jobs and run records, the cron schedule built from them, runs    *)
(* that archive, deliver and prune, restores that read an artifact while   *)
(* runs prune, the gate a deployment asks, and restarts of the server.     *)
(*                                                                         *)
(* An artifact is named after the sanitised name of its job and the second *)
(* it was made in, and lies at the job's target.  Its content is the job   *)
(* whose sources it holds.  Ids are never used again.  Archive layout,     *)
(* object store protocol and log texts are left out.                       *)
(***************************************************************************)
EXTENDS Integers, Sequences, FiniteSets

CONSTANTS
  BackupJobs,     \* ids a backup job may have
  JobTitles,      \* names a job may have
  sanitise(_),    \* the file name a job's name is turned into
  Retentions,     \* retention counts the operator may set; 0 keeps everything
  Targets,        \* where artifacts may go: "local" or an object store
  Admins,         \* requests that may be changing jobs at the same time
  Readers,        \* requests that may be reading artifacts at the same time
  MaxBackupRuns,  \* bound: run records
  MaxSeconds,     \* bound: seconds that pass
  MaxEdits,       \* bound: changes of the stored jobs
  MaxRestarts     \* bound: restarts of the server

ASSUME BackupsAssumption ==
  /\ Retentions \subseteq Nat /\ MaxBackupRuns \in Nat /\ MaxSeconds \in Nat
  /\ MaxEdits \in Nat /\ MaxRestarts \in Nat /\ "none" \notin Targets /\ 0 \notin BackupJobs

VARIABLES
  stored,     \* backup_jobs: id -> configuration, or NoJob
  runRows,    \* backup_runs: id -> [job, started, status, artifact]
  artifacts,  \* artifacts at their targets: [at, holds]
  staging,    \* files in the staging directory: [name, holds]
  executing,  \* Runner.running and what the run of each job is doing and knows
  reading,    \* what each reader does with which run
  schedule,   \* Scheduler.entries: the jobs that will fire
  admin,      \* what each change request still has to do
  second,     \* the clock
  jobsMade,   \* the ids of jobs given so far
  runsMade,   \* the id of the last run
  given,      \* history: the archive names given to runs so far
  edits, restarts

backupVars == <<stored, runRows, artifacts, staging, executing, reading, schedule,
                admin, second, jobsMade, runsMade, given, edits, restarts>>

\* What Validate accepts.
Configs == [name : JobTitles, target : Targets, retention : Retentions, scheduled : BOOLEAN]
NoJob == [name |-> "none", target |-> "none", retention |-> 0, scheduled |-> FALSE]

ArchiveNames == [name : {sanitise(n) : n \in JobTitles}, second : 0..MaxSeconds]
Locations == [target : Targets, archive : ArchiveNames]
NoArchive == [name |-> "none", second |-> 0]
NoArtifact == [target |-> "none", archive |-> NoArchive]

RunIds == 1..MaxBackupRuns
NoRow == [job |-> 0, started |-> 0, status |-> "absent", artifact |-> NoArtifact]
NoVictim == [run |-> 0, artifact |-> NoArtifact]
Idle == [at |-> "idle", run |-> 0, cfg |-> NoJob, since |-> 0, archive |-> NoArchive,
         ok |-> FALSE, victims |-> {}, victim |-> NoVictim]
NotReading == [at |-> "idle", run |-> 0, to |-> "none"]
Waiting == [at |-> "idle", jobs |-> {}]

BackupsInit ==
  /\ stored = [j \in BackupJobs |-> NoJob]
  /\ runRows = [r \in RunIds |-> NoRow]
  /\ artifacts = {} /\ staging = {}
  /\ executing = [j \in BackupJobs |-> Idle]
  /\ reading = [d \in Readers |-> NotReading]
  /\ schedule = {}
  /\ admin = [a \in Admins |-> Waiting]
  /\ second = 0 /\ jobsMade = {} /\ runsMade = 0 /\ given = {} /\ edits = 0 /\ restarts = 0

Scheduled == {j \in BackupJobs : stored[j] # NoJob /\ stored[j].scheduled}

---------------------------------------------------------------------------
(* Changing jobs.  The handler saves, then Reload lists the jobs and only  *)
(* then takes the scheduler's lock and rebuilds its entries.               *)

SaveJob(a, j, c) ==
  /\ admin[a].at = "idle" /\ edits < MaxEdits
  /\ stored' = [stored EXCEPT ![j] = c]
  /\ admin' = [admin EXCEPT ![a].at = "saved"]
  /\ edits' = edits + 1
  /\ UNCHANGED <<artifacts, staging, executing, reading, schedule, second, runsMade, given, restarts>>

\* No two jobs have one name.
Free(name, j) == \A k \in BackupJobs \ {j} : stored[k] # NoJob => stored[k].name # name

handleBackupJobCreate(a, j) ==
  /\ j \notin jobsMade
  /\ jobsMade' = jobsMade \cup {j}
  /\ \E c \in Configs : Free(c.name, j) /\ SaveJob(a, j, c)
  /\ UNCHANGED runRows

handleBackupJobUpdate(a, j) ==
  /\ stored[j] # NoJob
  /\ \E c \in Configs : Free(c.name, j) /\ SaveJob(a, j, c)
  /\ UNCHANGED <<runRows, jobsMade>>

\* The run records go with the job (ON DELETE CASCADE), its artifacts stay.
handleBackupJobDelete(a, j) ==
  /\ stored[j] # NoJob
  /\ SaveJob(a, j, NoJob)
  /\ runRows' = [r \in RunIds |-> IF runRows[r].job = j THEN NoRow ELSE runRows[r]]
  /\ UNCHANGED jobsMade

ReloadLists(a) ==
  /\ admin[a].at = "saved"
  /\ admin' = [admin EXCEPT ![a] = [at |-> "listed", jobs |-> Scheduled]]
  /\ UNCHANGED <<stored, runRows, artifacts, staging, executing, reading, schedule,
                 second, jobsMade, runsMade, given, edits, restarts>>

ReloadRebuilds(a) ==
  /\ admin[a].at = "listed"
  /\ schedule' = admin[a].jobs
  /\ admin' = [admin EXCEPT ![a] = Waiting]
  /\ UNCHANGED <<stored, runRows, artifacts, staging, executing, reading, second, jobsMade, runsMade, given, edits, restarts>>

---------------------------------------------------------------------------
(* Runner.Execute.                                                         *)

\* A job that is already running is refused.
Execute(j) ==
  /\ executing[j] = Idle
  /\ executing' = [executing EXCEPT ![j].at = "entered"]
  /\ UNCHANGED <<stored, runRows, artifacts, staging, reading, schedule, admin, second, jobsMade, runsMade, given, edits, restarts>>

ScheduleFires(j) == j \in schedule /\ Execute(j)

handleBackupRunNow(j) == stored[j] # NoJob /\ Execute(j)

\* The gate of a deployment that requires a backup first: the job must exist and
\* cover what the deployment keeps, and the deployment waits for the run.  A gate
\* that only asks how old the last run is changes nothing.
Evaluate(j) == stored[j] # NoJob /\ Execute(j)

\* The job is read once; the run works from that copy.
StartRun(j) ==
  /\ executing[j].at = "entered"
  /\ \/ /\ stored[j] = NoJob
        /\ executing' = [executing EXCEPT ![j] = Idle] /\ UNCHANGED <<runRows, runsMade>>
     \/ /\ stored[j] # NoJob /\ runsMade < MaxBackupRuns
        /\ runsMade' = runsMade + 1
        /\ runRows' = [runRows EXCEPT ![runsMade + 1] =
             [job |-> j, started |-> second, status |-> "running", artifact |-> NoArtifact]]
        /\ executing' = [executing EXCEPT ![j].at = "started", ![j].run = runsMade + 1,
                                          ![j].cfg = stored[j], ![j].since = second]
  /\ UNCHANGED <<stored, artifacts, staging, reading, schedule, admin, second, jobsMade, given,
                 edits, restarts>>

StagedAs(archived) == {f \in staging : f.archive = archived}

\* archive truncates and writes the staging file; on an error the file is removed.
archive(j) ==
  LET e == executing[j]
      name == [name |-> sanitise(e.cfg.name), second |-> second]
  IN
  /\ e.at = "started"
  /\ given' = given \cup {[archive |-> name, run |-> e.run, job |-> j]}
  /\ \/ /\ staging' = (staging \ StagedAs(name)) \cup {[archive |-> name, holds |-> j]}
        /\ executing' = [executing EXCEPT ![j].at = "archived", ![j].archive = name]
     \/ /\ staging' = staging \ StagedAs(name)
        /\ executing' = [executing EXCEPT ![j].at = "performed"]
  /\ UNCHANGED <<stored, runRows, artifacts, reading, schedule, admin, second, jobsMade, runsMade,
                 edits, restarts>>

\* Where a run delivers its archive.
DeliveredAs(e) == [target |-> e.cfg.target, archive |-> e.archive]

\* Faulty variant: a delivery that fails is not reported to the run.
perform_IgnoresError(j) ==
  LET e == executing[j]
      file == StagedAs(e.archive)
      place == DeliveredAs(e)
  IN
  /\ e.at = "archived"
  /\ \/ artifacts' = {f \in artifacts : f.at # place}
                       \cup {[at |-> place, holds |-> f.holds] : f \in file}
     \/ UNCHANGED artifacts
  /\ staging' = staging \ file
  /\ executing' = [executing EXCEPT ![j].at = "performed", ![j].ok = TRUE]
  /\ UNCHANGED <<stored, runRows, reading, schedule, admin, second, jobsMade, runsMade, given, edits, restarts>>

\* The staged file is moved to a local target or uploaded and removed.  A file
\* another run has taken away meanwhile is an error, and so may anything else be.
perform(j) ==
  LET e == executing[j]
      file == StagedAs(e.archive)
      place == DeliveredAs(e)
  IN
  /\ e.at = "archived"
  /\ \/ /\ file # {}
        /\ artifacts' = {f \in artifacts : f.at # place}
                          \cup {[at |-> place, holds |-> f.holds] : f \in file}
        /\ staging' = staging \ file
        /\ executing' = [executing EXCEPT ![j].at = "performed", ![j].ok = TRUE]
     \/ /\ staging' = IF e.cfg.target = "local" THEN staging ELSE staging \ file
        /\ executing' = [executing EXCEPT ![j].at = "performed"]
        /\ UNCHANGED artifacts
  /\ UNCHANGED <<stored, runRows, reading, schedule, admin, second, jobsMade, runsMade, given, edits, restarts>>

\* The outcome is written under the run's own context: past its deadline the
\* write fails too, and the record keeps saying that the run is in progress.
FinishRun(j) ==
  LET e == executing[j] IN
  /\ e.at = "performed"
  /\ \/ /\ runRows' = IF runRows[e.run] = NoRow THEN runRows
                      ELSE [runRows EXCEPT ![e.run].status = IF e.ok THEN "success" ELSE "failed",
                                           ![e.run].artifact =
                                             IF e.ok THEN DeliveredAs(e) ELSE NoArtifact]
        /\ executing' = [executing EXCEPT ![j] = IF e.ok THEN [e EXCEPT !.at = "pruning"] ELSE Idle]
     \/ executing' = [executing EXCEPT ![j] = Idle] /\ UNCHANGED runRows
  /\ UNCHANGED <<stored, artifacts, staging, reading, schedule, admin, second, jobsMade, runsMade, given, edits, restarts>>

SuccessfulRuns(j) ==
  {r \in RunIds : runRows[r] # NoRow /\ runRows[r].job = j /\ runRows[r].status = "success"}

\* The successful runs beyond the keep count, newest first; runs of one second
\* come in either order.
Beyond(rs, keep) ==
  {v \in SUBSET rs : /\ Cardinality(v) = Cardinality(rs) - keep
                     /\ \A x \in v, y \in rs \ v : runRows[y].started >= runRows[x].started}

\* The listing may fail, which ends the run too.
PruneLists(j) ==
  LET e == executing[j]
      done == SuccessfulRuns(j)
  IN
  /\ e.at = "pruning"
  /\ \/ executing' = [executing EXCEPT ![j] = Idle]
     \/ /\ e.cfg.retention > 0 /\ Cardinality(done) > e.cfg.retention
        /\ \E v \in Beyond(done, e.cfg.retention) :
             executing' = [executing EXCEPT ![j].at = "checking",
               ![j].victims = {[run |-> r, artifact |-> runRows[r].artifact] : r \in v}]
  /\ UNCHANGED <<stored, runRows, artifacts, staging, reading, schedule, admin, second, jobsMade, runsMade, given, edits, restarts>>

beingRead(r) == \E d \in Readers : reading[d].at # "idle" /\ reading[d].run = r

PruneChecks(j) ==
  LET e == executing[j] IN
  /\ e.at = "checking"
  /\ \/ e.victims = {} /\ executing' = [executing EXCEPT ![j] = Idle]
     \/ \E v \in e.victims :
          executing' = [executing EXCEPT ![j].at = IF beingRead(v.run) THEN "checking" ELSE "removing",
                                         ![j].victims = e.victims \ {v}, ![j].victim = v]
  /\ UNCHANGED <<stored, runRows, artifacts, staging, reading, schedule, admin, second, jobsMade, runsMade, given, edits, restarts>>

\* An artifact is looked for where the job's present target would have put it.
\* A file that cannot be removed is left; an object store that refuses keeps the
\* record.
PruneRemoves(j) ==
  LET e == executing[j] IN
  /\ e.at = "removing"
  /\ \/ /\ artifacts' = {f \in artifacts : f.at # e.victim.artifact \/ f.at.target # e.cfg.target}
        /\ executing' = [executing EXCEPT ![j].at = "removed"]
     \/ /\ executing' = [executing EXCEPT ![j].at = IF e.cfg.target = "local" THEN "removed" ELSE "checking"]
        /\ UNCHANGED artifacts
  /\ UNCHANGED <<stored, runRows, staging, reading, schedule, admin, second, jobsMade, runsMade, given, edits, restarts>>

\* A record that cannot be deleted ends the run.
PruneForgets(j) ==
  LET e == executing[j] IN
  /\ e.at = "removed"
  /\ \/ /\ runRows' = [runRows EXCEPT ![e.victim.run] = NoRow]
        /\ executing' = [executing EXCEPT ![j].at = "checking"]
     \/ executing' = [executing EXCEPT ![j] = Idle] /\ UNCHANGED runRows
  /\ UNCHANGED <<stored, artifacts, staging, reading, schedule, admin, second, jobsMade, runsMade, given, edits, restarts>>

---------------------------------------------------------------------------
(* Restore and ListArchive.                                                *)

beginRead(d, r, to) ==
  /\ reading[d].at = "idle"
  /\ reading' = [reading EXCEPT ![d] = [at |-> "reading", run |-> r, to |-> to]]
  /\ UNCHANGED <<stored, runRows, artifacts, staging, executing, schedule, admin, second, jobsMade, runsMade, given, edits, restarts>>

handleBackupRestore(d, r) == beginRead(d, r, "restore")
handleBackupContents(d, r) == beginRead(d, r, "list")

\* A run that has no artifact is refused.
FindArtifact(d) ==
  LET row == runRows[reading[d].run] IN
  /\ reading[d].at = "reading"
  /\ reading' = [reading EXCEPT ![d].at =
       IF row = NoRow \/ row.status # "success" THEN "refused" ELSE "found"]
  /\ UNCHANGED <<stored, runRows, artifacts, staging, executing, schedule, admin, second, jobsMade, runsMade, given, edits, restarts>>

\* Opening or downloading it where the job's present target says.
OpenArtifact(d) ==
  LET row == runRows[reading[d].run] IN
  /\ reading[d].at = "found"
  /\ reading' = [reading EXCEPT ![d].at =
       IF /\ row # NoRow /\ stored[row.job] # NoJob
          /\ \E f \in artifacts : f.at = row.artifact /\ f.at.target = stored[row.job].target
       THEN "open" ELSE "lost"]
  /\ UNCHANGED <<stored, runRows, artifacts, staging, executing, schedule, admin, second, jobsMade, runsMade, given, edits, restarts>>

\* Whoever got the archive open unpacks it, entry by entry, or lists what is in
\* it; an archive that is opened can be read to its end though it is unlinked.
extractArchive(d) ==
  /\ reading[d].at = "open" /\ reading[d].to = "restore"
  /\ reading' = [reading EXCEPT ![d].at = "done"]
  /\ UNCHANGED <<stored, runRows, artifacts, staging, executing, schedule, admin, second, jobsMade, runsMade, given, edits, restarts>>

ListArchive(d) ==
  /\ reading[d].at = "open" /\ reading[d].to = "list"
  /\ reading' = [reading EXCEPT ![d].at = "done"]
  /\ UNCHANGED <<stored, runRows, artifacts, staging, executing, schedule, admin, second, jobsMade, runsMade, given, edits, restarts>>

EndRead(d) ==
  /\ reading[d].at \in {"done", "refused", "lost"}
  /\ reading' = [reading EXCEPT ![d] = NotReading]
  /\ UNCHANGED <<stored, runRows, artifacts, staging, executing, schedule, admin, second, jobsMade, runsMade, given, edits, restarts>>

---------------------------------------------------------------------------
(* Time and restarts.                                                      *)

NextSecond ==
  /\ second < MaxSeconds
  /\ second' = second + 1
  /\ UNCHANGED <<stored, runRows, artifacts, staging, executing, reading, schedule, admin,
                 jobsMade, runsMade, given, edits, restarts>>

\* The process ends wherever it is; the new one loads the schedule and leaves
\* the run records as they are.
RestartServer ==
  /\ restarts < MaxRestarts
  /\ restarts' = restarts + 1
  /\ executing' = [j \in BackupJobs |-> Idle]
  /\ reading' = [d \in Readers |-> NotReading]
  /\ admin' = [a \in Admins |-> Waiting]
  /\ schedule' = Scheduled
  /\ UNCHANGED <<stored, runRows, artifacts, staging, second, jobsMade, runsMade, given, edits>>

BackupsNext ==
  \/ \E a \in Admins : \/ \E j \in BackupJobs : \/ handleBackupJobCreate(a, j) \/ handleBackupJobUpdate(a, j)
                                                \/ handleBackupJobDelete(a, j)
                       \/ ReloadLists(a) \/ ReloadRebuilds(a)
  \/ \E j \in BackupJobs : \/ ScheduleFires(j) \/ handleBackupRunNow(j) \/ Evaluate(j)
                           \/ StartRun(j) \/ archive(j) \/ perform(j) \/ FinishRun(j)
                           \/ PruneLists(j) \/ PruneChecks(j) \/ PruneRemoves(j) \/ PruneForgets(j)
  \/ \E d \in Readers : \/ \E r \in RunIds : handleBackupRestore(d, r) \/ handleBackupContents(d, r)
                        \/ FindArtifact(d) \/ OpenArtifact(d)
                        \/ extractArchive(d) \/ ListArchive(d) \/ EndRead(d)
  \/ NextSecond \/ RestartServer

BackupsSpec == BackupsInit /\ [][BackupsNext]_backupVars

---------------------------------------------------------------------------
(* Properties.                                                             *)

\* A run whose archive was made in one second with another run's, under the same
\* name or of the same job.
Shared(names, r) ==
  \E x, y \in names :
    /\ x.run = r /\ y.run # r /\ x.archive.second = y.archive.second
    /\ x.archive = y.archive \/ x.job = y.job

Kept(r) == [at |-> runRows[r].artifact, holds |-> runRows[r].job] \in artifacts

\* The newest backup a job's history shows is really there and holds the job's
\* own files, whatever was pruned, edited, restored or interrupted meanwhile,
\* unless two archives of one second got into each other's way (perform,
\* prune and the staging directory together).
NewestBackupKept ==
  \A j \in BackupJobs : \A r \in SuccessfulRuns(j) :
    (\A q \in SuccessfulRuns(j) \ {r} : runRows[q].started < runRows[r].started) =>
      Shared(given, r) \/ Kept(r)

RunRows ==
  [job : BackupJobs \cup {0}, started : 0..MaxSeconds,
   status : {"absent", "running", "success", "failed"}, artifact : Locations \cup {NoArtifact}]
Victims == [run : RunIds, artifact : Locations \cup {NoArtifact}]
Stages == {"idle", "entered", "started", "archived", "performed", "pruning", "checking", "removing", "removed"}
Executions ==
  [at : Stages, run : RunIds \cup {0}, cfg : Configs \cup {NoJob}, since : 0..MaxSeconds,
   archive : ArchiveNames \cup {NoArchive}, ok : BOOLEAN, victims : SUBSET Victims,
   victim : Victims \cup {NoVictim}]
GivenNames == [archive : ArchiveNames, run : RunIds, job : BackupJobs]

BackupsTypeOK ==
  /\ stored \in [BackupJobs -> Configs \cup {NoJob}] /\ runRows \in [RunIds -> RunRows]
  /\ artifacts \subseteq [at : Locations, holds : BackupJobs]
  /\ staging \subseteq [archive : ArchiveNames, holds : BackupJobs]
  /\ executing \in [BackupJobs -> Executions]
  /\ reading \in [Readers -> [at : {"idle", "reading", "found", "refused", "open", "lost", "done"},
                              run : RunIds \cup {0}, to : {"none", "restore", "list"}]]
  /\ schedule \subseteq BackupJobs
  /\ admin \in [Admins -> [at : {"idle", "saved", "listed"}, jobs : SUBSET BackupJobs]]
  /\ second \in 0..MaxSeconds /\ jobsMade \subseteq BackupJobs /\ runsMade \in 0..MaxBackupRuns
  /\ given \subseteq GivenNames /\ edits \in 0..MaxEdits /\ restarts \in 0..MaxRestarts

Busy(j) == executing[j].at \notin {"idle", "entered"}
InProgress(j) == executing[j].at \in {"started", "archived", "performed"}
Pruning(j) == executing[j].at \in {"checking", "removing", "removed"}
Named(j) == Busy(j) /\ executing[j].at # "started" /\ (executing[j].at = "performed" => executing[j].ok)
Removed(j) == IF executing[j].at = "removed" THEN {executing[j].victim.run} ELSE {}
ToPrune(j) ==
  executing[j].victims \cup
    (IF executing[j].at \in {"removing", "removed"} THEN {executing[j].victim} ELSE {})

\* Ids are given in order, and a row belongs to a job that is stored (StartRun).
RowsPlace ==
  /\ \A r \in RunIds : r > runsMade => runRows[r] = NoRow
  /\ \A r \in RunIds : runRows[r] # NoRow =>
       runRows[r].job \in BackupJobs /\ stored[runRows[r].job] # NoJob
  /\ \A j \in BackupJobs : stored[j] # NoJob \/ Busy(j) => j \in jobsMade

\* A run under way and its row say the same, and no other run has its id.
RowSays(j, status) ==
  LET row == runRows[executing[j].run] IN
  row # NoRow => row.job = j /\ row.status = status /\ row.started = executing[j].since
RunPlace(j) ==
  /\ Busy(j) => executing[j].run \in 1..runsMade /\ executing[j].cfg \in Configs
  /\ executing[j].at \in {"entered", "started", "archived"} => ~executing[j].ok
  /\ (InProgress(j) \/ executing[j].at = "pruning") /\ stored[j] # NoJob =>
       runRows[executing[j].run] # NoRow
  /\ InProgress(j) => RowSays(j, "running")
  /\ Busy(j) /\ ~InProgress(j) => RowSays(j, "success") /\ executing[j].ok
  /\ \A i \in BackupJobs \ {j} : Busy(i) /\ Busy(j) => executing[i].run # executing[j].run

VictimPlace(j) ==
  Pruning(j) => \A v \in ToPrune(j) :
    /\ v.run \in 1..runsMade /\ v.artifact \in Locations
    /\ runRows[v.run] # NoRow =>
         /\ runRows[v.run].job = j /\ runRows[v.run].status = "success"
         /\ runRows[v.run].artifact = v.artifact
    /\ \A i \in BackupJobs : InProgress(i) => executing[i].run # v.run

\* Every archive a row, a run or a list of victims speaks of was named for its run.
GivenTo(r, archived, j) == [archive |-> archived, run |-> r, job |-> j] \in given
NamesGiven(j) ==
  /\ \A r \in SuccessfulRuns(j) :
       runRows[r].artifact \in Locations /\ GivenTo(r, runRows[r].artifact.archive, j)
  /\ Named(j) => executing[j].archive \in ArchiveNames /\ GivenTo(executing[j].run, executing[j].archive, j)
  /\ Pruning(j) => \A v \in ToPrune(j) : GivenTo(v.run, v.artifact.archive, j)

\* The staged file of a run is its own, and so is the one it has delivered.
FilesPlace(j) ==
  Named(j) /\ ~Shared(given, executing[j].run) =>
    /\ executing[j].at = "archived" => \A f \in StagedAs(executing[j].archive) : f.holds = j
    /\ executing[j].at = "performed" => [at |-> DeliveredAs(executing[j]), holds |-> j] \in artifacts

\* A job's runs follow one another.
InOrder(j) ==
  /\ \A r \in SuccessfulRuns(j) :
       /\ runRows[r].started <= runRows[r].artifact.archive.second
       /\ runRows[r].artifact.archive.second <= second
       /\ Busy(j) /\ r # executing[j].run =>
            runRows[r].artifact.archive.second <= executing[j].since
  /\ Busy(j) => executing[j].since <= second
  /\ Named(j) => /\ executing[j].since <= executing[j].archive.second
                 /\ executing[j].archive.second <= second

\* A record that has outlived its artifact is an old one: there is one of a run that
\* is no older, which the run that prunes now will not take away.
Orphaned(r) == ~Shared(given, r) /\ ~Kept(r)
OrphansOld(j) ==
  \A r \in SuccessfulRuns(j) : Orphaned(r) =>
    /\ runRows[r].started < second
    /\ \E q \in SuccessfulRuns(j) \ {r} : runRows[q].started >= runRows[r].started
    /\ Busy(j) /\ r \notin Removed(j) => runRows[r].started < executing[j].since

Survives(y, j) ==
  /\ runRows[y].started >= executing[j].since
  /\ \A v \in ToPrune(j) :
       v.run # y /\ (runRows[v.run] # NoRow => runRows[v.run].started <= runRows[y].started)
OneSurvives(j) == Pruning(j) /\ stored[j] # NoJob => \E y \in SuccessfulRuns(j) : Survives(y, j)

HistoryTrue ==
  \A j \in BackupJobs :
    /\ RunPlace(j) /\ VictimPlace(j) /\ NamesGiven(j) /\ FilesPlace(j) /\ InOrder(j)
    /\ OrphansOld(j) /\ OneSurvives(j)

\* The history never loses the newest backup, for a restart or a failure anywhere.
HistoryInv == BackupsTypeOK /\ RowsPlace /\ HistoryTrue
BackupsInv == HistoryInv /\ NewestBackupKept

\* "There is exactly one source of truth and no drift between what is stored
\* and what will fire": once no change is under way, the scheduler's entries
\* are the jobs stored as scheduled.
NoScheduleDrift == (\A a \in Admins : admin[a].at = "idle") => schedule = Scheduled
=============================================================================
