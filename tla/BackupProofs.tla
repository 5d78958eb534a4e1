--------------------------- MODULE BackupProofs ---------------------------
(***************************************************************************)
(* What is proved of the backups (Backups): the newest backup a job's      *)
(* history shows is there.  The argument follows one job at a time: an     *)
(* action of another job, the clock and a restart leave it alone (Aside),  *)
(* and each action of its own run is looked at by itself.                  *)
(***************************************************************************)
EXTENDS Backups, FiniteSetTheorems, TLAPS

JobTrue(j) ==
  RunPlace(j) /\ VictimPlace(j) /\ NamesGiven(j) /\ FilesPlace(j) /\ InOrder(j)
    /\ OrphansOld(j) /\ OneSurvives(j)

\* A step that leaves the successful runs of job j and what its run knows as they are,
\* or takes the run away.
RowsAside(j) ==
  /\ \A r \in RunIds : runRows'[r] # runRows[r] =>
       /\ runRows[r].job = j => runRows[r].status # "success"
       /\ runRows'[r].job = j => runRows'[r].status # "success"
       /\ r <= runsMade => runRows[r] # NoRow
  /\ runsMade' >= runsMade /\ second' >= second /\ given \subseteq given'
RunAside(j) ==
  \/ /\ executing'[j] = executing[j]
     /\ Busy(j) => runRows'[executing[j].run] = runRows[executing[j].run]
     /\ Busy(j) /\ stored'[j] # NoJob => stored[j] # NoJob
  \/ executing'[j].at \in {"idle", "entered"} /\ ~executing'[j].ok
Aside(j) == RowsAside(j) /\ RunAside(j)
\* What the ids of the runs under way may do: stay, or be new.
IdsAside ==
  \A k \in BackupJobs :
    /\ Busy(k)' => (Busy(k) /\ executing'[k].run = executing[k].run) \/ executing'[k].run > runsMade
    /\ InProgress(k)' => InProgress(k) \/ executing'[k].run > runsMade

---------------------------------------------------------------------------
(* Facts about what the records are made of.                               *)

LEMMA NoRowFacts ==
  /\ NoRow.status = "absent" /\ NoRow.job = 0 /\ NoRow.artifact = NoArtifact
  /\ NoRow.started = 0
  BY DEF NoRow

LEMMA IdleFacts == Idle.at = "idle" /\ ~Idle.ok /\ Idle.run = 0 /\ Idle.victims = {}
  BY DEF Idle

LEMMA NoJobFacts == NoJob \notin Configs
  BY BackupsAssumption DEF NoJob, Configs

LEMMA NoArtifactFacts == NoArtifact \notin Locations
  BY BackupsAssumption DEF NoArtifact, Locations

LEMMA NoRowIsRow == NoRow \in RunRows
  <1>. DEFINE Places == Locations \cup {NoArtifact}
  <1>. HIDE DEF Places
  <1>1. NoArtifact \in Places
    BY DEF Places
  <1>2. 0 \in 0..MaxSeconds
    BY BackupsAssumption
  <1>. QED BY <1>1, <1>2 DEF NoRow, RunRows, Places

LEMMA IdleIsExecution == Idle \in Executions
  <1>. DEFINE Runs == RunIds \cup {0}
              Cfgs == Configs \cup {NoJob}
              Names == ArchiveNames \cup {NoArchive}
              Vs == Victims \cup {NoVictim}
              Sets == SUBSET Victims
  <1>1. 0 \in Runs /\ NoJob \in Cfgs /\ NoArchive \in Names /\ NoVictim \in Vs /\ {} \in Sets
    OBVIOUS
  <1>2. 0 \in 0..MaxSeconds /\ "idle" \in Stages
    BY BackupsAssumption DEF Stages
  <1>3. Executions = [at : Stages, run : Runs, cfg : Cfgs, since : 0..MaxSeconds,
                      archive : Names, ok : BOOLEAN, victims : Sets, victim : Vs]
    BY DEF Executions
  <1>. HIDE DEF Runs, Cfgs, Names, Vs, Sets
  <1>. QED BY <1>1, <1>2, <1>3 DEF Idle

\* The fields of a run under way.
LEMMA ExecutionFields ==
  ASSUME NEW e \in Executions
  PROVE  /\ e.at \in Stages /\ e.run \in RunIds \cup {0} /\ e.cfg \in Configs \cup {NoJob}
         /\ e.since \in 0..MaxSeconds /\ e.archive \in ArchiveNames \cup {NoArchive}
         /\ e.ok \in BOOLEAN /\ e.victims \subseteq Victims /\ e.victim \in Victims \cup {NoVictim}
  <1>. DEFINE Runs == RunIds \cup {0}
              Cfgs == Configs \cup {NoJob}
              Names == ArchiveNames \cup {NoArchive}
              Vs == Victims \cup {NoVictim}
              Sets == SUBSET Victims
  <1>3. Executions = [at : Stages, run : Runs, cfg : Cfgs, since : 0..MaxSeconds,
                      archive : Names, ok : BOOLEAN, victims : Sets, victim : Vs]
    BY DEF Executions
  <1>. HIDE DEF Runs, Cfgs, Names, Vs, Sets
  <1>4. e.at \in Stages /\ e.run \in Runs /\ e.cfg \in Cfgs /\ e.since \in 0..MaxSeconds
          /\ e.archive \in Names /\ e.ok \in BOOLEAN /\ e.victims \in Sets /\ e.victim \in Vs
    BY <1>3
  <1>. QED BY <1>4 DEF Runs, Cfgs, Names, Vs, Sets

LEMMA VictimFields ==
  ASSUME NEW v \in Victims
  PROVE  v.run \in RunIds /\ v.artifact \in Locations \cup {NoArtifact}
  <1>. DEFINE Places == Locations \cup {NoArtifact}
  <1>1. Victims = [run : RunIds, artifact : Places]
    BY DEF Victims
  <1>. HIDE DEF Places
  <1>2. v.run \in RunIds /\ v.artifact \in Places
    BY <1>1
  <1>. QED BY <1>2 DEF Places

LEMMA RowFields ==
  ASSUME NEW r \in RunRows
  PROVE  /\ r.job \in BackupJobs \cup {0} /\ r.started \in 0..MaxSeconds
         /\ r.status \in {"absent", "running", "success", "failed"}
         /\ r.artifact \in Locations \cup {NoArtifact}
  <1>. DEFINE Places == Locations \cup {NoArtifact}
              Jobs == BackupJobs \cup {0}
              Statuses == {"absent", "running", "success", "failed"}
  <1>1. RunRows = [job : Jobs, started : 0..MaxSeconds, status : Statuses, artifact : Places]
    BY DEF RunRows
  <1>. HIDE DEF Places, Jobs, Statuses
  <1>2. r.job \in Jobs /\ r.started \in 0..MaxSeconds /\ r.status \in Statuses /\ r.artifact \in Places
    BY <1>1
  <1>. QED BY <1>2 DEF Places, Jobs, Statuses

LEMMA Seconds ==
  /\ \A a \in ArchiveNames : a.second \in Nat
  /\ \A p \in Locations : p.archive \in ArchiveNames /\ p.archive.second \in Nat
  <1>1. \A a \in ArchiveNames : a.second \in Nat
    BY BackupsAssumption DEF ArchiveNames
  <1>2. \A p \in Locations : p.archive \in ArchiveNames
    BY DEF Locations
  <1>. QED BY <1>1, <1>2

\* What the type invariant says of one row, one run and the clocks.
LEMMA Numbers ==
  ASSUME BackupsTypeOK
  PROVE  /\ second \in Nat /\ runsMade \in Nat /\ given \subseteq GivenNames
         /\ \A r \in RunIds : runRows[r] \in RunRows /\ r \in Nat /\ r > 0 /\ runRows[r].started \in Nat
         /\ \A j \in BackupJobs : executing[j] \in Executions /\ executing[j].since \in Nat
  <1>1. /\ second \in Nat /\ runsMade \in Nat /\ given \subseteq GivenNames
        /\ \A r \in RunIds : runRows[r] \in RunRows
        /\ \A j \in BackupJobs : executing[j] \in Executions
    BY BackupsAssumption DEF BackupsTypeOK
  <1>2. \A r \in RunIds : runRows[r].started \in Nat
    BY <1>1, RowFields, BackupsAssumption
  <1>3. \A j \in BackupJobs : executing[j].since \in Nat
    BY <1>1, ExecutionFields, BackupsAssumption
  <1>4. \A r \in RunIds : r \in Nat /\ r > 0
    BY BackupsAssumption DEF RunIds
  <1>. QED BY <1>1, <1>2, <1>3, <1>4

LEMMA SharedGrows ==
  ASSUME NEW old, NEW new, old \subseteq new, NEW r, Shared(old, r)
  PROVE  Shared(new, r)
  BY DEF Shared

\* Two runs whose archives are of one second and under one name, or of one job.
LEMMA BothShared ==
  ASSUME NEW names, NEW x \in names, NEW y \in names, x.run # y.run,
         x.archive.second = y.archive.second, x.archive = y.archive \/ x.job = y.job
  PROVE  Shared(names, x.run)
  BY DEF Shared

---------------------------------------------------------------------------
(* A step that leaves a job alone.                                         *)

LEMMA RowsKept ==
  ASSUME BackupsTypeOK, BackupsTypeOK', NEW j \in BackupJobs, RowsAside(j)
  PROVE  /\ SuccessfulRuns(j)' = SuccessfulRuns(j)
         /\ \A r \in SuccessfulRuns(j) : runRows'[r] = runRows[r]
  <1>1. \A r \in RunIds : r \in SuccessfulRuns(j)' => runRows'[r] = runRows[r]
    BY NoRowFacts DEF SuccessfulRuns, RowsAside
  <1>2. \A r \in RunIds : r \in SuccessfulRuns(j) => runRows'[r] = runRows[r]
    BY NoRowFacts DEF SuccessfulRuns, RowsAside
  <1>. QED BY <1>1, <1>2 DEF SuccessfulRuns

LEMMA NamesAside ==
  ASSUME BackupsTypeOK, BackupsTypeOK', NEW j \in BackupJobs, NamesGiven(j), Aside(j)
  PROVE  NamesGiven(j)'
  <1>1. /\ SuccessfulRuns(j)' = SuccessfulRuns(j)
        /\ \A r \in SuccessfulRuns(j) : runRows'[r] = runRows[r]
        /\ given \subseteq given'
    BY RowsKept DEF Aside, RowsAside
  <1>2. \A r \in SuccessfulRuns(j)' :
          runRows'[r].artifact \in Locations /\ GivenTo(r, runRows[r].artifact.archive, j)'
    BY <1>1 DEF NamesGiven, GivenTo
  <1>3. CASE executing'[j] = executing[j]
    <2>1. Named(j)' => executing'[j].archive \in ArchiveNames /\ GivenTo(executing[j].run, executing[j].archive, j)'
      BY <1>1, <1>3 DEF NamesGiven, GivenTo, Named, Busy
    <2>2. Pruning(j)' => \A v \in ToPrune(j)' : GivenTo(v.run, v.artifact.archive, j)'
      BY <1>1, <1>3 DEF NamesGiven, GivenTo, Pruning, ToPrune
    <2>. QED BY <1>2, <2>1, <2>2 DEF NamesGiven
  <1>4. CASE executing'[j].at \in {"idle", "entered"}
    BY <1>2, <1>4 DEF NamesGiven, Named, Busy, Pruning
  <1>. QED BY <1>3, <1>4 DEF Aside, RunAside

LEMMA OrderAside ==
  ASSUME BackupsTypeOK, BackupsTypeOK', NEW j \in BackupJobs, NamesGiven(j), InOrder(j), Aside(j)
  PROVE  InOrder(j)'
  <1>1. /\ SuccessfulRuns(j)' = SuccessfulRuns(j)
        /\ \A r \in SuccessfulRuns(j) : runRows'[r] = runRows[r]
        /\ second' >= second /\ second \in Nat /\ second' \in Nat
    <2>. second' \in Nat
      BY BackupsAssumption DEF BackupsTypeOK
    <2>. QED BY RowsKept, Numbers DEF Aside, RowsAside
  <1>2. \A r \in SuccessfulRuns(j) : runRows[r].artifact.archive.second \in Nat
    BY Seconds DEF NamesGiven
  <1>3. \A r \in SuccessfulRuns(j)' :
          /\ runRows'[r].started <= runRows'[r].artifact.archive.second
          /\ runRows'[r].artifact.archive.second <= second'
    BY <1>1, <1>2 DEF InOrder
  <1>4. CASE executing'[j] = executing[j]
    <2>1. executing[j].since \in Nat
      BY Numbers
    <2>2. Busy(j)' => Busy(j) /\ executing'[j].since <= second'
      BY <1>1, <1>4, <2>1 DEF InOrder, Busy
    <2>3. Named(j)' => /\ executing'[j].since <= executing'[j].archive.second
                       /\ executing'[j].archive.second <= second'
      BY <1>1, <1>4, Seconds DEF InOrder, Named, Busy, NamesGiven
    <2>4. \A r \in SuccessfulRuns(j)' : Busy(j)' /\ r # executing'[j].run =>
             runRows'[r].artifact.archive.second <= executing'[j].since
      BY <1>1, <1>4, <2>2 DEF InOrder
    <2>. QED BY <1>3, <2>2, <2>3, <2>4 DEF InOrder
  <1>5. CASE executing'[j].at \in {"idle", "entered"}
    BY <1>3, <1>5 DEF InOrder, Named, Busy
  <1>. QED BY <1>4, <1>5 DEF Aside, RunAside

LEMMA SurvivesAside ==
  ASSUME BackupsTypeOK, BackupsTypeOK', NEW j \in BackupJobs, RunPlace(j), VictimPlace(j), OneSurvives(j), Aside(j)
  PROVE  OneSurvives(j)'
  <1>1. /\ SuccessfulRuns(j)' = SuccessfulRuns(j)
        /\ \A r \in SuccessfulRuns(j) : runRows'[r] = runRows[r]
    BY RowsKept DEF Aside
  <1>2. CASE executing'[j].at \in {"idle", "entered"}
    BY <1>2 DEF OneSurvives, Pruning
  <1>3. CASE executing'[j] = executing[j]
              /\ (Busy(j) /\ stored'[j] # NoJob => stored[j] # NoJob)
    <2>. SUFFICES ASSUME Pruning(j)', stored'[j] # NoJob
                  PROVE  \E y \in SuccessfulRuns(j) : Survives(y, j)'
      BY <1>1 DEF OneSurvives
    <2>1. Pruning(j) /\ Busy(j) /\ stored[j] # NoJob
      BY <1>3 DEF Pruning, Busy
    <2>2. PICK y \in SuccessfulRuns(j) : Survives(y, j)
      BY <2>1 DEF OneSurvives
    <2>3. \A v \in ToPrune(j) : v.run \in RunIds
            /\ (runRows'[v.run] # NoRow => runRows'[v.run] = runRows[v.run])
      <3>. SUFFICES ASSUME NEW v \in ToPrune(j) PROVE v.run \in RunIds
                      /\ (runRows'[v.run] # NoRow => runRows'[v.run] = runRows[v.run])
        OBVIOUS
      <3>1. v.run \in 1..runsMade /\ v.run \in RunIds
        BY <2>1, BackupsAssumption DEF VictimPlace, BackupsTypeOK, RunIds
      <3>2. CASE runRows[v.run] = NoRow
        BY <3>1, <3>2, Numbers DEF Aside, RowsAside
      <3>3. CASE runRows[v.run] # NoRow
        <4>1. v.run \in SuccessfulRuns(j)
          BY <2>1, <3>1, <3>3 DEF VictimPlace, SuccessfulRuns
        <4>. QED BY <4>1, <3>1, <1>1
      <3>. QED BY <3>2, <3>3
    <2>4. ToPrune(j)' = ToPrune(j) /\ runRows'[y] = runRows[y] /\ executing'[j].since = executing[j].since
      BY <1>1, <1>3 DEF ToPrune
    <2>5. Survives(y, j)'
      BY <2>2, <2>3, <2>4 DEF Survives
    <2>. QED BY <2>5
  <1>. QED BY <1>2, <1>3 DEF Aside, RunAside

LEMMA VictimAside ==
  ASSUME BackupsTypeOK, BackupsTypeOK', NEW j \in BackupJobs, VictimPlace(j), Aside(j), IdsAside
  PROVE  VictimPlace(j)'
  <1>. SUFFICES ASSUME Pruning(j)', NEW v \in ToPrune(j)'
                PROVE  /\ v.run \in 1..runsMade' /\ v.artifact \in Locations
                       /\ runRows'[v.run] # NoRow =>
                            /\ runRows'[v.run].job = j /\ runRows'[v.run].status = "success"
                            /\ runRows'[v.run].artifact = v.artifact
                       /\ \A i \in BackupJobs : InProgress(i)' => executing'[i].run # v.run
    BY DEF VictimPlace
  <1>1. executing'[j] = executing[j] /\ Pruning(j) /\ v \in ToPrune(j)
    BY DEF Aside, RunAside, Pruning, ToPrune
  <1>2. runsMade \in Nat /\ runsMade' \in Nat /\ runsMade' >= runsMade
    BY BackupsAssumption DEF BackupsTypeOK, Aside, RowsAside
  <1>3. v.run \in 1..runsMade /\ v.artifact \in Locations /\ v.run \in RunIds
    BY <1>1, BackupsAssumption DEF VictimPlace, BackupsTypeOK, RunIds
  <1>6. runRows'[v.run] # NoRow =>
          /\ runRows'[v.run].job = j /\ runRows'[v.run].status = "success"
          /\ runRows'[v.run].artifact = v.artifact
    <2>1. CASE runRows[v.run] = NoRow
      BY <1>3, <2>1, <1>2 DEF Aside, RowsAside
    <2>2. CASE runRows[v.run] # NoRow
      <3>1. v.run \in SuccessfulRuns(j)
        BY <1>1, <1>3, <2>2 DEF VictimPlace, SuccessfulRuns
      <3>2. runRows'[v.run] = runRows[v.run]
        BY <3>1, RowsKept DEF Aside
      <3>. QED BY <1>1, <3>2, <2>2 DEF VictimPlace
    <2>. QED BY <2>1, <2>2
  <1>7. ASSUME NEW i \in BackupJobs, InProgress(i)' PROVE executing'[i].run # v.run
    <2>1. Busy(i)'
      BY <1>7 DEF Busy, InProgress
    <2>2. CASE executing'[i].run > runsMade
      BY <2>2, <1>3, <1>2
    <2>3. CASE InProgress(i) /\ executing'[i].run = executing[i].run
      BY <2>3, <1>1 DEF VictimPlace
    <2>. QED BY <1>7, <2>1, <2>2, <2>3 DEF IdsAside
  <1>. QED BY <1>3, <1>2, <1>6, <1>7

LEMMA RunAlone ==
  ASSUME BackupsTypeOK, BackupsTypeOK', NEW j \in BackupJobs, RunPlace(j), Aside(j), IdsAside
  PROVE  RunPlace(j)'
  <1>1. runsMade \in Nat /\ runsMade' \in Nat /\ runsMade' >= runsMade
    BY BackupsAssumption DEF BackupsTypeOK, Aside, RowsAside
  <1>2. CASE executing'[j].at \in {"idle", "entered"} /\ ~executing'[j].ok
    BY <1>2 DEF RunPlace, Busy, InProgress
  <1>3. CASE /\ executing'[j] = executing[j]
             /\ Busy(j) => runRows'[executing[j].run] = runRows[executing[j].run]
             /\ Busy(j) /\ stored'[j] # NoJob => stored[j] # NoJob
    <2>1. Busy(j)' => executing'[j].run \in 1..runsMade' /\ executing'[j].cfg \in Configs
      BY <1>1, <1>3 DEF RunPlace, Busy
    <2>2. executing'[j].at \in {"entered", "started", "archived"} => ~executing'[j].ok
      BY <1>3 DEF RunPlace
    <2>3. (InProgress(j)' \/ executing'[j].at = "pruning") /\ stored'[j] # NoJob =>
             runRows'[executing'[j].run] # NoRow
      BY <1>3 DEF RunPlace, InProgress, Busy
    <2>4. InProgress(j)' => RowSays(j, "running")'
      BY <1>3 DEF RunPlace, InProgress, Busy, RowSays
    <2>5. Busy(j)' /\ ~InProgress(j)' => RowSays(j, "success")' /\ executing'[j].ok
      BY <1>3 DEF RunPlace, InProgress, Busy, RowSays
    <2>6. \A i \in BackupJobs \ {j} : Busy(i)' /\ Busy(j)' => executing'[i].run # executing'[j].run
      <3>. SUFFICES ASSUME NEW i \in BackupJobs \ {j}, Busy(i)', Busy(j)'
                    PROVE  executing'[i].run # executing'[j].run
        OBVIOUS
      <3>1. Busy(j) /\ executing[j].run \in 1..runsMade
        BY <1>3 DEF Busy, RunPlace
      <3>2. CASE executing'[i].run > runsMade
        BY <3>1, <3>2, <1>1, <1>3
      <3>3. CASE Busy(i) /\ executing'[i].run = executing[i].run
        BY <3>1, <3>3, <1>3 DEF RunPlace
      <3>. QED BY <3>2, <3>3 DEF IdsAside
    <2>. QED BY <2>1, <2>2, <2>3, <2>4, <2>5, <2>6 DEF RunPlace
  <1>. QED BY <1>2, <1>3 DEF Aside, RunAside

\* The files of a run stay unless another run was given the same name.
LEMMA FilesAside ==
  ASSUME BackupsTypeOK, BackupsTypeOK', NEW j \in BackupJobs, FilesPlace(j), Aside(j),
         \A f \in staging' \ staging :
            Named(j) /\ f.archive = executing[j].archive => Shared(given', executing[j].run),
         \A f \in artifacts \ artifacts' :
            Named(j) /\ executing[j].at = "performed" /\ f.at = DeliveredAs(executing[j]) => Shared(given', executing[j].run)
  PROVE  FilesPlace(j)'
  <1>1. CASE executing'[j].at \in {"idle", "entered"}
    BY <1>1 DEF FilesPlace, Named, Busy
  <1>2. CASE executing'[j] = executing[j]
    <2>. SUFFICES ASSUME Named(j)', ~Shared(given', executing[j].run)
                  PROVE  /\ executing[j].at = "archived" =>
                              \A f \in staging' : f.archive = executing[j].archive => f.holds = j
                         /\ executing[j].at = "performed" => [at |-> DeliveredAs(executing[j]), holds |-> j] \in artifacts'
      BY <1>2 DEF FilesPlace, StagedAs, DeliveredAs
    <2>1. Named(j) /\ ~Shared(given, executing[j].run)
      BY <1>2, SharedGrows DEF Named, Busy, Aside, RowsAside
    <2>2. executing[j].at = "archived" =>
             \A f \in staging' : f.archive = executing[j].archive => f.holds = j
      BY <2>1 DEF FilesPlace, StagedAs
    <2>3. executing[j].at = "performed" => [at |-> DeliveredAs(executing[j]), holds |-> j] \in artifacts'
      <3>. DEFINE file == [at |-> DeliveredAs(executing[j]), holds |-> j]
      <3>1. file.at = DeliveredAs(executing[j])
        OBVIOUS
      <3>2. executing[j].at = "performed" => file \in artifacts
        BY <2>1 DEF FilesPlace
      <3>. HIDE DEF file
      <3>3. executing[j].at = "performed" => file \in artifacts'
        BY <2>1, <3>1, <3>2
      <3>. QED BY <3>3 DEF file
    <2>. QED BY <2>2, <2>3
  <1>. QED BY <1>1, <1>2 DEF Aside, RunAside

LEMMA OrphansAside ==
  ASSUME BackupsTypeOK, BackupsTypeOK', NEW j \in BackupJobs, OrphansOld(j), Aside(j),
         \A f \in artifacts \ artifacts' : \A r \in SuccessfulRuns(j) :
            f.at = runRows[r].artifact => Shared(given', r)
  PROVE  OrphansOld(j)'
  <1>1. /\ SuccessfulRuns(j)' = SuccessfulRuns(j)
        /\ \A r \in SuccessfulRuns(j) : runRows'[r] = runRows[r]
        /\ second' >= second /\ second \in Nat /\ second' \in Nat /\ given \subseteq given'
    <2>. second' \in Nat
      BY BackupsAssumption DEF BackupsTypeOK
    <2>. QED BY RowsKept, Numbers DEF Aside, RowsAside
  <1>. SUFFICES ASSUME NEW r \in SuccessfulRuns(j), ~Shared(given', r),
                       [at |-> runRows[r].artifact, holds |-> runRows[r].job] \notin artifacts'
                PROVE  /\ runRows[r].started < second'
                       /\ \E q \in SuccessfulRuns(j) \ {r} : runRows[q].started >= runRows[r].started
                       /\ Busy(j)' /\ r \notin Removed(j)' => runRows[r].started < executing'[j].since
    <2>1. ASSUME NEW r \in SuccessfulRuns(j)', Orphaned(r)'
          PROVE  /\ runRows'[r].started < second'
                 /\ \E q \in SuccessfulRuns(j)' \ {r} : runRows'[q].started >= runRows'[r].started
                 /\ Busy(j)' /\ r \notin Removed(j)' => runRows'[r].started < executing'[j].since
      BY <1>1, <2>1 DEF Orphaned, Kept
    <2>. QED BY <2>1 DEF OrphansOld
  <1>2. ~Shared(given, r)
    BY <1>1, SharedGrows
  <1>3. [at |-> runRows[r].artifact, holds |-> runRows[r].job] \notin artifacts
    <2>. DEFINE file == [at |-> runRows[r].artifact, holds |-> runRows[r].job]
    <2>1. file.at = runRows[r].artifact /\ file \notin artifacts'
      OBVIOUS
    <2>. HIDE DEF file
    <2>2. file \notin artifacts
      BY <2>1
    <2>. QED BY <2>2 DEF file
  <1>4. Orphaned(r)
    BY <1>2, <1>3 DEF Orphaned, Kept
  <1>5. runRows[r].started \in Nat
    BY Numbers DEF SuccessfulRuns
  <1>6. Busy(j)' /\ r \notin Removed(j)' => runRows[r].started < executing'[j].since
    BY <1>4 DEF OrphansOld, Aside, RunAside, Busy, Removed
  <1>. QED BY <1>1, <1>4, <1>5, <1>6 DEF OrphansOld

\* A step that leaves the job alone, and its files.
LEMMA JobAside ==
  ASSUME BackupsTypeOK, BackupsTypeOK', NEW j \in BackupJobs, JobTrue(j), Aside(j), IdsAside,
         \A f \in staging' \ staging :
            Named(j) /\ f.archive = executing[j].archive => Shared(given', executing[j].run),
         \A f \in artifacts \ artifacts' :
            /\ Named(j) /\ executing[j].at = "performed" /\ f.at = DeliveredAs(executing[j]) => Shared(given', executing[j].run)
            /\ \A r \in SuccessfulRuns(j) : f.at = runRows[r].artifact => Shared(given', r)
  PROVE  JobTrue(j)'
  BY NamesAside, OrderAside, SurvivesAside, VictimAside, RunAlone, FilesAside, OrphansAside DEF JobTrue

---------------------------------------------------------------------------
(* Types.                                                                  *)

\* The records a run goes through.
LEMMA ExecutionSteps ==
  ASSUME NEW e \in Executions
  PROVE  /\ \A at \in Stages : [e EXCEPT !.at = at] \in Executions
         /\ \A at \in Stages, ok \in BOOLEAN : [e EXCEPT !.at = at, !.ok = ok] \in Executions
         /\ \A at \in Stages, run \in RunIds, cfg \in Configs, since \in 0..MaxSeconds :
              [e EXCEPT !.at = at, !.run = run, !.cfg = cfg, !.since = since] \in Executions
         /\ \A at \in Stages, name \in ArchiveNames : [e EXCEPT !.at = at, !.archive = name] \in Executions
         /\ \A at \in Stages, vs \in SUBSET Victims : [e EXCEPT !.at = at, !.victims = vs] \in Executions
         /\ \A at \in Stages, vs \in SUBSET Victims, v \in Victims :
              [e EXCEPT !.at = at, !.victims = vs, !.victim = v] \in Executions
  <1>. DEFINE Runs == RunIds \cup {0}
              Cfgs == Configs \cup {NoJob}
              Names == ArchiveNames \cup {NoArchive}
              Vs == Victims \cup {NoVictim}
              Sets == SUBSET Victims
              Times == 0..MaxSeconds
  <1>1. Executions = [at : Stages, run : Runs, cfg : Cfgs, since : Times,
                      archive : Names, ok : BOOLEAN, victims : Sets, victim : Vs]
    BY DEF Executions
  <1>2. RunIds \subseteq Runs /\ Configs \subseteq Cfgs /\ ArchiveNames \subseteq Names /\ Victims \subseteq Vs
    OBVIOUS
  <1>. HIDE DEF Runs, Cfgs, Names, Vs, Sets, Times
  <1>3. \A at \in Stages : [e EXCEPT !.at = at] \in Executions
    BY <1>1
  <1>4. \A at \in Stages, ok \in BOOLEAN : [e EXCEPT !.at = at, !.ok = ok] \in Executions
    BY <1>1
  <1>5. \A at \in Stages, run \in RunIds, cfg \in Configs, since \in Times :
           [e EXCEPT !.at = at, !.run = run, !.cfg = cfg, !.since = since] \in Executions
    BY <1>1, <1>2
  <1>6. \A at \in Stages, name \in ArchiveNames : [e EXCEPT !.at = at, !.archive = name] \in Executions
    BY <1>1, <1>2
  <1>7. \A at \in Stages, vs \in Sets : [e EXCEPT !.at = at, !.victims = vs] \in Executions
    BY <1>1
  <1>8. \A at \in Stages, vs \in Sets, v \in Victims :
           [e EXCEPT !.at = at, !.victims = vs, !.victim = v] \in Executions
    BY <1>1, <1>2
  <1>. QED BY <1>3, <1>4, <1>5, <1>6, <1>7, <1>8 DEF Sets, Times

\* The rows a run is written as.
LEMMA RowSteps ==
  /\ \A j \in BackupJobs, t \in 0..MaxSeconds :
       [job |-> j, started |-> t, status |-> "running", artifact |-> NoArtifact] \in RunRows
  /\ \A row \in RunRows, p \in Locations \cup {NoArtifact}, s \in {"success", "failed"} :
       [row EXCEPT !.status = s, !.artifact = p] \in RunRows
  <1>. DEFINE Places == Locations \cup {NoArtifact}
              Jobs == BackupJobs \cup {0}
              Statuses == {"absent", "running", "success", "failed"}
              Times == 0..MaxSeconds
  <1>1. RunRows = [job : Jobs, started : Times, status : Statuses, artifact : Places]
    BY DEF RunRows
  <1>2. BackupJobs \subseteq Jobs /\ "running" \in Statuses /\ {"success", "failed"} \subseteq Statuses
          /\ NoArtifact \in Places
    OBVIOUS
  <1>. HIDE DEF Places, Jobs, Statuses, Times
  <1>3. \A j \in BackupJobs, t \in Times :
          [job |-> j, started |-> t, status |-> "running", artifact |-> NoArtifact] \in RunRows
    BY <1>1, <1>2
  <1>4. \A row \in RunRows, p \in Places, s \in {"success", "failed"} :
          [row EXCEPT !.status = s, !.artifact = p] \in RunRows
    BY <1>1, <1>2
  <1>. QED BY <1>3, <1>4 DEF Places, Times

LEMMA PlaceOf ==
  ASSUME NEW e \in Executions, e.cfg \in Configs, e.archive \in ArchiveNames
  PROVE  DeliveredAs(e) \in Locations
  BY DEF DeliveredAs, Locations, Configs

LEMMA JobsTyped ==
  ASSUME BackupsTypeOK, NEW a \in Admins, NEW j \in BackupJobs, NEW c \in Configs \cup {NoJob}, SaveJob(a, j, c),
         jobsMade' \in {jobsMade, jobsMade \cup {j}},
         \A r \in RunIds : runRows'[r] \in {runRows[r], NoRow}, DOMAIN runRows' = RunIds,
         runRows' = [r \in RunIds |-> runRows'[r]]
  PROVE  BackupsTypeOK'
  <1>1. runRows' \in [RunIds -> RunRows]
    BY NoRowIsRow DEF BackupsTypeOK
  <1>2. stored' \in [BackupJobs -> Configs \cup {NoJob}]
    <2>. DEFINE Cfgs == Configs \cup {NoJob}
    <2>1. stored \in [BackupJobs -> Cfgs] /\ c \in Cfgs /\ stored' = [stored EXCEPT ![j] = c]
      BY DEF BackupsTypeOK, SaveJob
    <2>. HIDE DEF Cfgs
    <2>2. stored' \in [BackupJobs -> Cfgs]
      BY <2>1
    <2>. QED BY <2>2 DEF Cfgs
  <1>3. admin' \in [Admins -> [at : {"idle", "saved", "listed"}, jobs : SUBSET BackupJobs]]
    BY DEF BackupsTypeOK, SaveJob
  <1>4. edits' \in 0..MaxEdits
    BY BackupsAssumption DEF BackupsTypeOK, SaveJob
  <1>5. jobsMade' \subseteq BackupJobs
    BY DEF BackupsTypeOK
  <1>. QED BY <1>1, <1>2, <1>3, <1>4, <1>5 DEF BackupsTypeOK, SaveJob

LEMMA ReloadTyped ==
  ASSUME BackupsTypeOK, NEW a \in Admins, ReloadLists(a) \/ ReloadRebuilds(a)
  PROVE  BackupsTypeOK'
  <1>1. Scheduled \subseteq BackupJobs
    BY DEF Scheduled
  <1>2. CASE ReloadLists(a)
    <2>1. admin' \in [Admins -> [at : {"idle", "saved", "listed"}, jobs : SUBSET BackupJobs]]
      BY <1>1, <1>2 DEF BackupsTypeOK, ReloadLists
    <2>. QED BY <1>2, <2>1 DEF BackupsTypeOK, ReloadLists
  <1>3. CASE ReloadRebuilds(a)
    <2>1. Waiting \in [at : {"idle", "saved", "listed"}, jobs : SUBSET BackupJobs]
      BY DEF Waiting
    <2>2. admin' \in [Admins -> [at : {"idle", "saved", "listed"}, jobs : SUBSET BackupJobs]]
            /\ schedule' \subseteq BackupJobs
      BY <1>3, <2>1 DEF BackupsTypeOK, ReloadRebuilds
    <2>. QED BY <1>3, <2>2 DEF BackupsTypeOK, ReloadRebuilds
  <1>. QED BY <1>2, <1>3

ReadStep(d) ==
  (\E r \in RunIds : handleBackupRestore(d, r) \/ handleBackupContents(d, r))
    \/ FindArtifact(d) \/ OpenArtifact(d) \/ extractArchive(d) \/ ListArchive(d) \/ EndRead(d)

LEMMA ReadTyped ==
  ASSUME BackupsTypeOK, NEW d \in Readers, ReadStep(d)
  PROVE  BackupsTypeOK' /\ UNCHANGED <<stored, runRows, artifacts, staging, executing, schedule, admin, second,
                                       jobsMade, runsMade, given, edits, restarts>>
  <1>. DEFINE Rs == [at : {"idle", "reading", "found", "refused", "open", "lost", "done"},
                     run : RunIds \cup {0}, to : {"none", "restore", "list"}]
  <1>1. reading \in [Readers -> Rs]
    BY DEF BackupsTypeOK
  <1>2. reading' \in [Readers -> Rs]
    <2>1. CASE \E r \in RunIds : handleBackupRestore(d, r) \/ handleBackupContents(d, r)
      BY <1>1, <2>1 DEF handleBackupRestore, handleBackupContents, beginRead
    <2>2. CASE FindArtifact(d)
      BY <1>1, <2>2 DEF FindArtifact
    <2>3. CASE OpenArtifact(d)
      BY <1>1, <2>3 DEF OpenArtifact
    <2>4. CASE extractArchive(d) \/ ListArchive(d)
      BY <1>1, <2>4 DEF extractArchive, ListArchive
    <2>5. CASE EndRead(d)
      BY <1>1, <2>5 DEF EndRead, NotReading
    <2>. QED BY <2>1, <2>2, <2>3, <2>4, <2>5 DEF ReadStep
  <1>3. UNCHANGED <<stored, runRows, artifacts, staging, executing, schedule, admin, second,
                    jobsMade, runsMade, given, edits, restarts>>
    BY DEF ReadStep, handleBackupRestore, handleBackupContents, beginRead, FindArtifact, OpenArtifact,
           extractArchive, ListArchive, EndRead
  <1>. HIDE DEF Rs
  <1>4. reading' \in [Readers -> Rs]
    BY <1>2
  <1>. QED BY <1>3, <1>4 DEF BackupsTypeOK, Rs

LEMMA RestartTyped ==
  ASSUME BackupsTypeOK, RestartServer
  PROVE  BackupsTypeOK'
  <1>1. restarts' \in 0..MaxRestarts /\ schedule' \subseteq BackupJobs
    BY BackupsAssumption DEF BackupsTypeOK, RestartServer, Scheduled
  <1>2. Waiting \in [at : {"idle", "saved", "listed"}, jobs : SUBSET BackupJobs]
    BY DEF Waiting
  <1>3. NotReading \in [at : {"idle", "reading", "found", "refused", "open", "lost", "done"},
                         run : RunIds \cup {0}, to : {"none", "restore", "list"}]
    BY DEF NotReading
  <1>4. executing' \in [BackupJobs -> Executions]
    BY IdleIsExecution DEF RestartServer
  <1>. QED BY <1>1, <1>2, <1>3, <1>4 DEF BackupsTypeOK, RestartServer

\* What a step of one run does to the map of all runs.
LEMMA ExecutingTyped ==
  ASSUME BackupsTypeOK, NEW j \in BackupJobs, NEW e \in Executions, executing' = [executing EXCEPT ![j] = e]
  PROVE  /\ executing' \in [BackupJobs -> Executions] /\ executing'[j] = e
         /\ \A i \in BackupJobs \ {j} : executing'[i] = executing[i]
  BY DEF BackupsTypeOK

LEMMA ExecuteTyped ==
  ASSUME BackupsTypeOK, NEW j \in BackupJobs, Execute(j)
  PROVE  /\ BackupsTypeOK' /\ executing'[j].at = "entered" /\ ~executing'[j].ok
         /\ \A i \in BackupJobs \ {j} : executing'[i] = executing[i]
  <1>. DEFINE e == [executing[j] EXCEPT !.at = "entered"]
  <1>1. executing[j] \in Executions /\ "entered" \in Stages
    BY Numbers DEF Stages
  <1>2. e \in Executions /\ e.at = "entered" /\ e.ok = executing[j].ok
    BY <1>1, ExecutionSteps DEF Executions
  <1>3. executing' = [executing EXCEPT ![j] = e]
    BY DEF Execute
  <1>. HIDE DEF e
  <1>4. executing' \in [BackupJobs -> Executions] /\ executing'[j] = e
          /\ \A i \in BackupJobs \ {j} : executing'[i] = executing[i]
    BY <1>2, <1>3, ExecutingTyped
  <1>5. BackupsTypeOK'
    BY <1>4 DEF BackupsTypeOK, Execute
  <1>. QED BY <1>2, <1>4, <1>5, IdleFacts DEF Execute

\* What a run that has ended leaves.
LEMMA EndsTyped ==
  ASSUME BackupsTypeOK, NEW j \in BackupJobs, executing' = [executing EXCEPT ![j] = Idle]
  PROVE  /\ executing' \in [BackupJobs -> Executions] /\ executing'[j].at = "idle" /\ ~executing'[j].ok
         /\ \A i \in BackupJobs \ {j} : executing'[i] = executing[i]
  BY IdleIsExecution, IdleFacts, ExecutingTyped

LEMMA StartTyped ==
  ASSUME BackupsTypeOK, NEW j \in BackupJobs, StartRun(j), stored[j] # NoJob, runsMade < MaxBackupRuns,
         runsMade' = runsMade + 1,
         runRows' = [runRows EXCEPT ![runsMade + 1] =
             [job |-> j, started |-> second, status |-> "running", artifact |-> NoArtifact]],
         executing' = [executing EXCEPT ![j].at = "started", ![j].run = runsMade + 1,
                                        ![j].cfg = stored[j], ![j].since = second]
  PROVE  /\ BackupsTypeOK' /\ executing'[j].at = "started" /\ executing'[j].run = runsMade + 1
         /\ executing'[j].cfg \in Configs /\ executing'[j].since = second /\ executing'[j].ok = executing[j].ok
         /\ \A i \in BackupJobs \ {j} : executing'[i] = executing[i]
         /\ runsMade + 1 \in RunIds
         /\ runRows'[runsMade + 1].job = j /\ runRows'[runsMade + 1].started = second
         /\ runRows'[runsMade + 1].status = "running"
         /\ \A r \in RunIds : r # runsMade + 1 => runRows'[r] = runRows[r]
  <1>. DEFINE e == [executing[j] EXCEPT !.at = "started", !.run = runsMade + 1, !.cfg = stored[j], !.since = second]
              row == [job |-> j, started |-> second, status |-> "running", artifact |-> NoArtifact]
  <1>1. executing[j] \in Executions /\ "started" \in Stages /\ runsMade + 1 \in RunIds
          /\ runsMade + 1 \in 0..MaxBackupRuns
          /\ stored[j] \in Configs /\ second \in 0..MaxSeconds
    BY Numbers, BackupsAssumption DEF Stages, BackupsTypeOK, RunIds
  <1>2. e \in Executions
    BY <1>1, ExecutionSteps
  <1>3. e.at = "started" /\ e.run = runsMade + 1 /\ e.cfg = stored[j] /\ e.since = second /\ e.ok = executing[j].ok
    BY <1>1 DEF Executions
  <1>4. row \in RunRows
    BY <1>1, RowSteps
  <1>5. row.job = j /\ row.started = second /\ row.status = "running"
    OBVIOUS
  <1>6. executing' = [executing EXCEPT ![j] = e] /\ runRows' = [runRows EXCEPT ![runsMade + 1] = row]
    OBVIOUS
  <1>. HIDE DEF e, row
  <1>7. executing' \in [BackupJobs -> Executions] /\ executing'[j] = e
          /\ \A i \in BackupJobs \ {j} : executing'[i] = executing[i]
    BY <1>2, <1>6, ExecutingTyped
  <1>8. runRows' \in [RunIds -> RunRows] /\ runRows'[runsMade + 1] = row
          /\ \A r \in RunIds : r # runsMade + 1 => runRows'[r] = runRows[r]
    BY <1>1, <1>4, <1>6 DEF BackupsTypeOK
  <1>9. BackupsTypeOK'
    BY <1>7, <1>8, <1>1 DEF BackupsTypeOK, StartRun
  <1>. QED BY <1>1, <1>3, <1>5, <1>7, <1>8, <1>9

LEMMA ArchiveTyped ==
  ASSUME BackupsTypeOK, NEW j \in BackupJobs, executing[j].cfg \in Configs, executing[j].run \in RunIds, archive(j)
  PROVE  /\ BackupsTypeOK'
         /\ \A i \in BackupJobs \ {j} : executing'[i] = executing[i]
         /\ [name |-> sanitise(executing[j].cfg.name), second |-> second] \in ArchiveNames
         /\ executing'[j].ok = executing[j].ok /\ executing'[j].run = executing[j].run
         /\ executing'[j].cfg = executing[j].cfg /\ executing'[j].since = executing[j].since
         /\ \/ executing'[j].at = "archived"
                  /\ executing'[j].archive = [name |-> sanitise(executing[j].cfg.name), second |-> second]
            \/ executing'[j].at = "performed"
  <1>. DEFINE name == [name |-> sanitise(executing[j].cfg.name), second |-> second]
              e1 == [executing[j] EXCEPT !.at = "archived", !.archive = name]
              e2 == [executing[j] EXCEPT !.at = "performed"]
              file == [archive |-> name, holds |-> j]
              taken == [archive |-> name, run |-> executing[j].run, job |-> j]
  <1>1. executing[j] \in Executions /\ "archived" \in Stages /\ "performed" \in Stages
    BY Numbers DEF Stages
  <1>2. name \in ArchiveNames
    BY DEF ArchiveNames, Configs, BackupsTypeOK
  <1>3. file \in [archive : ArchiveNames, holds : BackupJobs] /\ taken \in GivenNames
    BY <1>2 DEF GivenNames
  <1>. HIDE DEF name
  <1>4. e1 \in Executions /\ e2 \in Executions
    BY <1>1, <1>2, ExecutionSteps
  <1>5. /\ e1.at = "archived" /\ e1.archive = name /\ e2.at = "performed"
        /\ \A e \in {e1, e2} : e.ok = executing[j].ok /\ e.run = executing[j].run
                               /\ e.cfg = executing[j].cfg /\ e.since = executing[j].since
    BY <1>1 DEF Executions
  <1>6. \/ /\ staging' = (staging \ StagedAs(name)) \cup {file}
           /\ executing' = [executing EXCEPT ![j] = e1]
        \/ /\ staging' = staging \ StagedAs(name)
           /\ executing' = [executing EXCEPT ![j] = e2]
    BY DEF archive, name
  <1>7. given' = given \cup {taken}
    BY DEF archive, name
  <1>. HIDE DEF e1, e2, file, taken
  <1>8. executing' \in [BackupJobs -> Executions] /\ executing'[j] \in {e1, e2}
          /\ \A i \in BackupJobs \ {j} : executing'[i] = executing[i]
    BY <1>4, <1>6, ExecutingTyped
  <1>9. staging' \subseteq [archive : ArchiveNames, holds : BackupJobs] /\ given' \subseteq GivenNames
    <2>. DEFINE Fs == [archive : ArchiveNames, holds : BackupJobs]
    <2>1. staging \subseteq Fs /\ file \in Fs /\ given \subseteq GivenNames
      BY <1>3 DEF BackupsTypeOK
    <2>. HIDE DEF Fs
    <2>2. staging' \subseteq Fs
      BY <1>6, <2>1
    <2>. QED BY <1>3, <1>7, <2>1, <2>2 DEF Fs
  <1>10. BackupsTypeOK'
    BY <1>8, <1>9 DEF BackupsTypeOK, archive
  <1>11. \/ executing'[j].at = "archived" /\ executing'[j].archive = name
         \/ executing'[j].at = "performed"
    BY <1>5, <1>8
  <1>12. executing'[j].ok = executing[j].ok /\ executing'[j].run = executing[j].run
         /\ executing'[j].cfg = executing[j].cfg /\ executing'[j].since = executing[j].since
    BY <1>5, <1>8
  <1>. QED BY <1>2, <1>8, <1>10, <1>11, <1>12 DEF name

\* What a step that only goes on, and perhaps tells how it went, leaves of a run.
LEMMA GoesOn ==
  ASSUME BackupsTypeOK, NEW j \in BackupJobs, NEW at \in Stages, NEW ok \in BOOLEAN,
         executing' = [executing EXCEPT ![j] = [executing[j] EXCEPT !.at = at, !.ok = ok]]
  PROVE  /\ executing' \in [BackupJobs -> Executions]
         /\ \A i \in BackupJobs \ {j} : executing'[i] = executing[i]
         /\ executing'[j].at = at /\ executing'[j].ok = ok
         /\ executing'[j].run = executing[j].run /\ executing'[j].cfg = executing[j].cfg
         /\ executing'[j].since = executing[j].since /\ executing'[j].archive = executing[j].archive
         /\ executing'[j].victims = executing[j].victims /\ executing'[j].victim = executing[j].victim
  <1>. DEFINE e == [executing[j] EXCEPT !.at = at, !.ok = ok]
  <1>1. executing[j] \in Executions
    BY Numbers
  <1>2. e \in Executions
    BY <1>1, ExecutionSteps
  <1>3. /\ e.at = at /\ e.ok = ok
        /\ e.run = executing[j].run /\ e.cfg = executing[j].cfg
        /\ e.since = executing[j].since /\ e.archive = executing[j].archive
        /\ e.victims = executing[j].victims /\ e.victim = executing[j].victim
    BY <1>1 DEF Executions
  <1>4. executing' = [executing EXCEPT ![j] = e]
    OBVIOUS
  <1>. HIDE DEF e
  <1>. QED BY <1>2, <1>3, <1>4, ExecutingTyped

Delivers(j) ==
  LET e == executing[j]  file == StagedAs(e.archive) IN
  /\ file # {}
  /\ artifacts' = {f \in artifacts : f.at # DeliveredAs(e)}
                    \cup {[at |-> DeliveredAs(e), holds |-> f.holds] : f \in file}
  /\ staging' = staging \ file
  /\ executing'[j].ok

LEMMA PerformTyped ==
  ASSUME BackupsTypeOK, NEW j \in BackupJobs, executing[j].cfg \in Configs, executing[j].archive \in ArchiveNames, perform(j)
  PROVE  /\ BackupsTypeOK' /\ executing'[j].at = "performed"
         /\ \A i \in BackupJobs \ {j} : executing'[i] = executing[i]
         /\ executing'[j].run = executing[j].run /\ executing'[j].cfg = executing[j].cfg
         /\ executing'[j].since = executing[j].since /\ executing'[j].archive = executing[j].archive
         /\ \/ Delivers(j)
            \/ artifacts' = artifacts /\ staging' \subseteq staging /\ executing'[j].ok = executing[j].ok
  <1>1. executing[j] \in Executions /\ "performed" \in Stages
    BY Numbers DEF Stages
  <1>2. executing[j].ok \in BOOLEAN /\ DeliveredAs(executing[j]) \in Locations
    BY <1>1, ExecutionFields, PlaceOf
  <1>3. CASE /\ StagedAs(executing[j].archive) # {}
             /\ artifacts' = {f \in artifacts : f.at # DeliveredAs(executing[j])}
                               \cup {[at |-> DeliveredAs(executing[j]), holds |-> f.holds] : f \in StagedAs(executing[j].archive)}
             /\ staging' = staging \ StagedAs(executing[j].archive)
             /\ executing' = [executing EXCEPT ![j].at = "performed", ![j].ok = TRUE]
    <2>1. executing' = [executing EXCEPT ![j] = [executing[j] EXCEPT !.at = "performed", !.ok = TRUE]]
      BY <1>3
    <2>2. /\ executing' \in [BackupJobs -> Executions]
          /\ \A i \in BackupJobs \ {j} : executing'[i] = executing[i]
          /\ executing'[j].at = "performed" /\ executing'[j].ok = TRUE
          /\ executing'[j].run = executing[j].run /\ executing'[j].cfg = executing[j].cfg
          /\ executing'[j].since = executing[j].since /\ executing'[j].archive = executing[j].archive
      BY <1>1, <2>1, GoesOn
    <2>3. artifacts' \subseteq [at : Locations, holds : BackupJobs]
      <3>1. \A f \in StagedAs(executing[j].archive) : f.holds \in BackupJobs
        BY DEF StagedAs, BackupsTypeOK
      <3>2. artifacts \subseteq [at : Locations, holds : BackupJobs]
        BY DEF BackupsTypeOK
      <3>. QED BY <1>2, <1>3, <3>1, <3>2
    <2>4. Delivers(j)
      BY <1>3, <2>2 DEF Delivers
    <2>5. staging' \subseteq staging
      BY <1>3
    <2>. QED BY <2>2, <2>3, <2>4, <2>5 DEF BackupsTypeOK, perform
  <1>4. CASE /\ staging' = IF executing[j].cfg.target = "local" THEN staging
                            ELSE staging \ StagedAs(executing[j].archive)
             /\ executing' = [executing EXCEPT ![j].at = "performed"]
             /\ UNCHANGED artifacts
    <2>1. executing' = [executing EXCEPT ![j] = [executing[j] EXCEPT !.at = "performed", !.ok = executing[j].ok]]
      <3>1. [executing[j] EXCEPT !.at = "performed"] = [executing[j] EXCEPT !.at = "performed", !.ok = executing[j].ok]
        BY <1>1 DEF Executions
      <3>. QED BY <1>4, <3>1
    <2>2. /\ executing' \in [BackupJobs -> Executions]
          /\ \A i \in BackupJobs \ {j} : executing'[i] = executing[i]
          /\ executing'[j].at = "performed" /\ executing'[j].ok = executing[j].ok
          /\ executing'[j].run = executing[j].run /\ executing'[j].cfg = executing[j].cfg
          /\ executing'[j].since = executing[j].since /\ executing'[j].archive = executing[j].archive
      BY <1>1, <1>2, <2>1, GoesOn
    <2>3. staging' \subseteq staging
      BY <1>4
    <2>. QED BY <1>4, <2>2, <2>3 DEF BackupsTypeOK, perform
  <1>. QED BY <1>3, <1>4 DEF perform

FinishedRow(row, e) ==
  [row EXCEPT !.status = IF e.ok THEN "success" ELSE "failed", !.artifact = IF e.ok THEN DeliveredAs(e) ELSE NoArtifact]

LEMMA FinishTyped ==
  ASSUME BackupsTypeOK, NEW j \in BackupJobs, executing[j].run \in RunIds,
         executing[j].ok => executing[j].cfg \in Configs /\ executing[j].archive \in ArchiveNames, FinishRun(j)
  PROVE  /\ BackupsTypeOK'
         /\ \A i \in BackupJobs \ {j} : executing'[i] = executing[i]
         /\ \/ runRows' = runRows
            \/ /\ runRows[executing[j].run] # NoRow
               /\ runRows'[executing[j].run] = FinishedRow(runRows[executing[j].run], executing[j])
               /\ \A r \in RunIds : r # executing[j].run => runRows'[r] = runRows[r]
         /\ \/ executing'[j].at = "idle" /\ ~executing'[j].ok
               /\ (executing[j].ok => runRows' = runRows)
            \/ /\ executing[j].ok /\ executing'[j].ok /\ executing'[j].at = "pruning"
               /\ runRows' = runRows =>
                    runRows[executing[j].run] = NoRow \/ runRows[executing[j].run].status = "success"
               /\ executing'[j].run = executing[j].run /\ executing'[j].cfg = executing[j].cfg
               /\ executing'[j].since = executing[j].since /\ executing'[j].archive = executing[j].archive
  <1>1. executing[j] \in Executions /\ "pruning" \in Stages /\ executing[j].ok \in BOOLEAN
        /\ runRows[executing[j].run] \in RunRows
    BY Numbers, ExecutionFields DEF Stages
  <1>2. FinishedRow(runRows[executing[j].run], executing[j]) \in RunRows
    <2>1. CASE executing[j].ok
      BY <1>1, <2>1, PlaceOf, RowSteps DEF FinishedRow
    <2>2. CASE ~executing[j].ok
      BY <1>1, <2>2, RowSteps DEF FinishedRow
    <2>. QED BY <2>1, <2>2
  <1>3. \/ runRows' = runRows
        \/ /\ runRows[executing[j].run] # NoRow
           /\ runRows' = [runRows EXCEPT ![executing[j].run] = FinishedRow(runRows[executing[j].run], executing[j])]
    BY DEF FinishRun, FinishedRow
  <1>4. runRows' \in [RunIds -> RunRows]
    BY <1>2, <1>3 DEF BackupsTypeOK
  <1>5. \/ runRows' = runRows
        \/ /\ runRows[executing[j].run] # NoRow
           /\ runRows'[executing[j].run] = FinishedRow(runRows[executing[j].run], executing[j])
           /\ \A r \in RunIds : r # executing[j].run => runRows'[r] = runRows[r]
    BY <1>3 DEF BackupsTypeOK
  <1>6. CASE executing' = [executing EXCEPT ![j] = Idle] /\ (executing[j].ok => runRows' = runRows)
    <2>1. /\ executing' \in [BackupJobs -> Executions] /\ executing'[j].at = "idle" /\ ~executing'[j].ok
          /\ \A i \in BackupJobs \ {j} : executing'[i] = executing[i]
      BY <1>6, EndsTyped
    <2>. QED BY <1>4, <1>5, <1>6, <2>1 DEF BackupsTypeOK, FinishRun
  <1>7. CASE executing[j].ok /\ executing' = [executing EXCEPT ![j] = [executing[j] EXCEPT !.at = "pruning"]]
              /\ (runRows' = runRows =>
                   runRows[executing[j].run] = NoRow \/ runRows[executing[j].run].status = "success")
    <2>1. executing' = [executing EXCEPT ![j] = [executing[j] EXCEPT !.at = "pruning", !.ok = TRUE]]
      <3>1. [executing[j] EXCEPT !.at = "pruning"] = [executing[j] EXCEPT !.at = "pruning", !.ok = TRUE]
        BY <1>1, <1>7 DEF Executions
      <3>. QED BY <1>7, <3>1
    <2>2. /\ executing' \in [BackupJobs -> Executions]
          /\ \A i \in BackupJobs \ {j} : executing'[i] = executing[i]
          /\ executing'[j].at = "pruning" /\ executing'[j].ok = TRUE
          /\ executing'[j].run = executing[j].run /\ executing'[j].cfg = executing[j].cfg
          /\ executing'[j].since = executing[j].since /\ executing'[j].archive = executing[j].archive
      BY <1>1, <2>1, GoesOn
    <2>. QED BY <1>4, <1>5, <1>7, <2>2 DEF BackupsTypeOK, FinishRun
  <1>9. CASE executing[j].ok
    <2>1. CASE executing' = [executing EXCEPT ![j] = Idle] /\ UNCHANGED runRows
      BY <2>1, <1>6
    <2>2. CASE /\ runRows' = IF runRows[executing[j].run] = NoRow THEN runRows
                      ELSE [runRows EXCEPT ![executing[j].run] = FinishedRow(runRows[executing[j].run], executing[j])]
               /\ executing' = [executing EXCEPT ![j] = [executing[j] EXCEPT !.at = "pruning"]]
      <3>1. FinishedRow(runRows[executing[j].run], executing[j]).status = "success"
        BY <1>1, <1>9 DEF FinishedRow, RunRows
      <3>2. runRows' = runRows =>
              runRows[executing[j].run] = NoRow \/ runRows[executing[j].run].status = "success"
        BY <2>2, <3>1 DEF BackupsTypeOK
      <3>. QED BY <1>7, <1>9, <2>2, <3>2
    <2>. QED BY <2>1, <2>2, <1>9 DEF FinishRun, FinishedRow
  <1>10. CASE ~executing[j].ok
    BY <1>6, <1>10 DEF FinishRun
  <1>. QED BY <1>9, <1>10

\* What a step of pruning leaves of a run: all but the stage and the victims.
PrunesOn(j) ==
  /\ executing'[j].run = executing[j].run /\ executing'[j].cfg = executing[j].cfg
  /\ executing'[j].since = executing[j].since /\ executing'[j].archive = executing[j].archive
  /\ executing'[j].ok = executing[j].ok
  /\ \A i \in BackupJobs \ {j} : executing'[i] = executing[i]

LEMMA ListsTyped ==
  ASSUME BackupsTypeOK, NEW j \in BackupJobs, PruneLists(j)
  PROVE  /\ BackupsTypeOK'
         /\ \/ executing'[j].at = "idle" /\ ~executing'[j].ok
               /\ \A i \in BackupJobs \ {j} : executing'[i] = executing[i]
            \/ /\ PrunesOn(j) /\ executing'[j].at = "checking"
               /\ executing[j].cfg.retention > 0 /\ Cardinality(SuccessfulRuns(j)) > executing[j].cfg.retention
               /\ \E v \in Beyond(SuccessfulRuns(j), executing[j].cfg.retention) :
                    executing'[j].victims = {[run |-> r, artifact |-> runRows[r].artifact] : r \in v}
  <1>1. executing[j] \in Executions /\ "checking" \in Stages
    BY Numbers DEF Stages
  <1>2. CASE executing' = [executing EXCEPT ![j] = Idle]
    <2>1. executing' \in [BackupJobs -> Executions] /\ executing'[j].at = "idle" /\ ~executing'[j].ok
            /\ \A i \in BackupJobs \ {j} : executing'[i] = executing[i]
      BY <1>2, EndsTyped
    <2>. QED BY <2>1 DEF BackupsTypeOK, PruneLists
  <1>3. ASSUME executing[j].cfg.retention > 0, Cardinality(SuccessfulRuns(j)) > executing[j].cfg.retention,
               NEW v \in Beyond(SuccessfulRuns(j), executing[j].cfg.retention),
               executing' = [executing EXCEPT ![j].at = "checking",
                 ![j].victims = {[run |-> r, artifact |-> runRows[r].artifact] : r \in v}]
        PROVE  /\ BackupsTypeOK' /\ PrunesOn(j) /\ executing'[j].at = "checking"
               /\ executing'[j].victims = {[run |-> r, artifact |-> runRows[r].artifact] : r \in v}
    <2>. DEFINE vs == {[run |-> r, artifact |-> runRows[r].artifact] : r \in v}
                e == [executing[j] EXCEPT !.at = "checking", !.victims = vs]
    <2>1. v \subseteq RunIds
      BY DEF Beyond, SuccessfulRuns
    <2>2. \A r \in v : [run |-> r, artifact |-> runRows[r].artifact] \in Victims
      <3>. DEFINE Places == Locations \cup {NoArtifact}
      <3>1. \A r \in v : r \in RunIds /\ runRows[r].artifact \in Places
        BY <2>1, Numbers, RowFields
      <3>2. Victims = [run : RunIds, artifact : Places]
        BY DEF Victims
      <3>. HIDE DEF Places
      <3>. QED BY <3>1, <3>2
    <2>3. vs \in SUBSET Victims
      BY <2>2
    <2>4. executing' = [executing EXCEPT ![j] = e]
      BY <1>3
    <2>. HIDE DEF vs
    <2>5. e \in Executions
      BY <1>1, <2>3, ExecutionSteps
    <2>6. /\ e.at = "checking" /\ e.victims = vs /\ e.run = executing[j].run /\ e.cfg = executing[j].cfg
          /\ e.since = executing[j].since /\ e.archive = executing[j].archive /\ e.ok = executing[j].ok
      BY <1>1 DEF Executions
    <2>. HIDE DEF e
    <2>7. executing' \in [BackupJobs -> Executions] /\ executing'[j] = e
            /\ \A i \in BackupJobs \ {j} : executing'[i] = executing[i]
      BY <2>4, <2>5, ExecutingTyped
    <2>8. BackupsTypeOK'
      BY <2>7 DEF BackupsTypeOK, PruneLists
    <2>. QED BY <2>6, <2>7, <2>8 DEF PrunesOn, vs
  <1>. QED BY <1>2, <1>3 DEF PruneLists

LEMMA ChecksTyped ==
  ASSUME BackupsTypeOK, NEW j \in BackupJobs, PruneChecks(j)
  PROVE  /\ BackupsTypeOK'
         /\ \/ executing'[j].at = "idle" /\ ~executing'[j].ok
               /\ \A i \in BackupJobs \ {j} : executing'[i] = executing[i]
            \/ /\ PrunesOn(j) /\ executing'[j].at \in {"checking", "removing"}
               /\ executing'[j].victims \subseteq executing[j].victims
               /\ executing'[j].victim \in executing[j].victims
  <1>1. executing[j] \in Executions /\ {"checking", "removing"} \subseteq Stages
          /\ executing[j].victims \subseteq Victims
    BY Numbers, ExecutionFields DEF Stages
  <1>2. CASE executing' = [executing EXCEPT ![j] = Idle]
    <2>1. executing' \in [BackupJobs -> Executions] /\ executing'[j].at = "idle" /\ ~executing'[j].ok
            /\ \A i \in BackupJobs \ {j} : executing'[i] = executing[i]
      BY <1>2, EndsTyped
    <2>. QED BY <2>1 DEF BackupsTypeOK, PruneChecks
  <1>3. ASSUME NEW v \in executing[j].victims, NEW at \in {"checking", "removing"},
               executing' = [executing EXCEPT ![j].at = at,
                                         ![j].victims = executing[j].victims \ {v}, ![j].victim = v]
        PROVE  /\ BackupsTypeOK' /\ PrunesOn(j) /\ executing'[j].at \in {"checking", "removing"}
               /\ executing'[j].victims \subseteq executing[j].victims
               /\ executing'[j].victim \in executing[j].victims
    <2>. DEFINE vs == executing[j].victims \ {v}
                e == [executing[j] EXCEPT !.at = at, !.victims = vs, !.victim = v]
    <2>1. vs \in SUBSET Victims /\ v \in Victims /\ vs \subseteq executing[j].victims
      BY <1>1
    <2>2. executing' = [executing EXCEPT ![j] = e]
      BY <1>3
    <2>. HIDE DEF vs
    <2>5. e \in Executions
      BY <1>1, <2>1, ExecutionSteps
    <2>6. /\ e.at = at /\ e.victims = vs /\ e.victim = v /\ e.run = executing[j].run /\ e.cfg = executing[j].cfg
          /\ e.since = executing[j].since /\ e.archive = executing[j].archive /\ e.ok = executing[j].ok
      BY <1>1 DEF Executions
    <2>. HIDE DEF e
    <2>7. executing' \in [BackupJobs -> Executions] /\ executing'[j] = e
            /\ \A i \in BackupJobs \ {j} : executing'[i] = executing[i]
      BY <2>2, <2>5, ExecutingTyped
    <2>8. BackupsTypeOK'
      BY <2>7 DEF BackupsTypeOK, PruneChecks
    <2>. QED BY <2>1, <2>6, <2>7, <2>8 DEF PrunesOn
  <1>. QED BY <1>2, <1>3 DEF PruneChecks

LEMMA RemovesTyped ==
  ASSUME BackupsTypeOK, NEW j \in BackupJobs, PruneRemoves(j)
  PROVE  /\ BackupsTypeOK' /\ PrunesOn(j)
         /\ executing'[j].victims = executing[j].victims /\ executing'[j].victim = executing[j].victim
         /\ \/ executing'[j].at = "removed"
            \/ executing'[j].at = "checking" /\ artifacts' = artifacts
         /\ artifacts' \subseteq artifacts
         /\ \A f \in artifacts \ artifacts' : f.at = executing[j].victim.artifact
  <1>1. executing[j] \in Executions /\ {"checking", "removed"} \subseteq Stages
    BY Numbers DEF Stages
  <1>2. PICK at \in {"checking", "removed"} :
          /\ executing' = [executing EXCEPT ![j].at = at]
          /\ at = "checking" => artifacts' = artifacts
          /\ artifacts' \subseteq artifacts
          /\ \A f \in artifacts \ artifacts' : f.at = executing[j].victim.artifact
    BY DEF PruneRemoves
  <1>3. executing' = [executing EXCEPT ![j] = [executing[j] EXCEPT !.at = at, !.ok = executing[j].ok]]
    <2>1. [executing[j] EXCEPT !.at = at] = [executing[j] EXCEPT !.at = at, !.ok = executing[j].ok]
      BY <1>1 DEF Executions
    <2>. QED BY <1>2, <2>1
  <1>4. executing[j].ok \in BOOLEAN /\ at \in Stages
    BY <1>1, ExecutionFields
  <1>5. /\ executing' \in [BackupJobs -> Executions]
        /\ \A i \in BackupJobs \ {j} : executing'[i] = executing[i]
        /\ executing'[j].at = at /\ executing'[j].ok = executing[j].ok
        /\ executing'[j].run = executing[j].run /\ executing'[j].cfg = executing[j].cfg
        /\ executing'[j].since = executing[j].since /\ executing'[j].archive = executing[j].archive
        /\ executing'[j].victims = executing[j].victims /\ executing'[j].victim = executing[j].victim
    <2>1. CASE at = "removed"
      BY <1>3, <1>4, <2>1, GoesOn
    <2>2. CASE at = "checking"
      BY <1>3, <1>4, <2>2, GoesOn
    <2>. QED BY <2>1, <2>2
  <1>6. BackupsTypeOK'
    BY <1>2, <1>5 DEF BackupsTypeOK, PruneRemoves
  <1>. QED BY <1>2, <1>5, <1>6 DEF PrunesOn

LEMMA ForgetsTyped ==
  ASSUME BackupsTypeOK, NEW j \in BackupJobs, PruneForgets(j)
  PROVE  /\ BackupsTypeOK'
         /\ \/ executing'[j].at = "idle" /\ ~executing'[j].ok /\ runRows' = runRows
               /\ \A i \in BackupJobs \ {j} : executing'[i] = executing[i]
            \/ /\ PrunesOn(j) /\ executing'[j].at = "checking"
               /\ executing'[j].victims = executing[j].victims
               /\ executing[j].victim.run \in RunIds => runRows'[executing[j].victim.run] = NoRow
               /\ \A r \in RunIds : r # executing[j].victim.run => runRows'[r] = runRows[r]
  <1>1. executing[j] \in Executions /\ "checking" \in Stages /\ executing[j].ok \in BOOLEAN
    BY Numbers, ExecutionFields DEF Stages
  <1>2. CASE executing' = [executing EXCEPT ![j] = Idle] /\ UNCHANGED runRows
    <2>1. executing' \in [BackupJobs -> Executions] /\ executing'[j].at = "idle" /\ ~executing'[j].ok
            /\ \A i \in BackupJobs \ {j} : executing'[i] = executing[i]
      BY <1>2, EndsTyped
    <2>. QED BY <1>2, <2>1 DEF BackupsTypeOK, PruneForgets
  <1>3. CASE /\ runRows' = [runRows EXCEPT ![executing[j].victim.run] = NoRow]
             /\ executing' = [executing EXCEPT ![j].at = "checking"]
    <2>1. executing' = [executing EXCEPT ![j] = [executing[j] EXCEPT !.at = "checking", !.ok = executing[j].ok]]
      <3>1. [executing[j] EXCEPT !.at = "checking"] = [executing[j] EXCEPT !.at = "checking", !.ok = executing[j].ok]
        BY <1>1 DEF Executions
      <3>. QED BY <1>3, <3>1
    <2>2. /\ executing' \in [BackupJobs -> Executions]
          /\ \A i \in BackupJobs \ {j} : executing'[i] = executing[i]
          /\ executing'[j].at = "checking" /\ executing'[j].ok = executing[j].ok
          /\ executing'[j].run = executing[j].run /\ executing'[j].cfg = executing[j].cfg
          /\ executing'[j].since = executing[j].since /\ executing'[j].archive = executing[j].archive
          /\ executing'[j].victims = executing[j].victims
      BY <1>1, <2>1, GoesOn
    <2>3. runRows' \in [RunIds -> RunRows]
      BY <1>3, NoRowIsRow DEF BackupsTypeOK
    <2>4. /\ executing[j].victim.run \in RunIds => runRows'[executing[j].victim.run] = NoRow
          /\ \A r \in RunIds : r # executing[j].victim.run => runRows'[r] = runRows[r]
      BY <1>3 DEF BackupsTypeOK
    <2>5. BackupsTypeOK'
      BY <2>2, <2>3 DEF BackupsTypeOK, PruneForgets
    <2>. QED BY <2>2, <2>4, <2>5 DEF PrunesOn
  <1>. QED BY <1>2, <1>3 DEF PruneForgets

---------------------------------------------------------------------------
(* The steps that leave every job alone.                                   *)

LEMMA HistoryParts == HistoryTrue <=> \A j \in BackupJobs : JobTrue(j)
  BY DEF HistoryTrue, JobTrue

LEMMA PartsAfter ==
  ASSUME BackupsTypeOK', RowsPlace', \A j \in BackupJobs : JobTrue(j)'
  PROVE  HistoryInv'
  BY DEF HistoryInv, HistoryTrue, JobTrue

LEMMA AllAside ==
  ASSUME BackupsTypeOK, BackupsTypeOK', HistoryTrue, staging' = staging, artifacts' = artifacts, IdsAside,
         NEW j \in BackupJobs, Aside(j)
  PROVE  JobTrue(j)'
  <1>1. JobTrue(j)
    BY HistoryParts
  <1>. QED BY <1>1, JobAside

LEMMA PlaceKept ==
  ASSUME BackupsTypeOK, BackupsTypeOK', RowsPlace,
         \A r \in RunIds : runRows'[r] \in {runRows[r], NoRow}
                           \/ (runRows[r] # NoRow /\ runRows'[r].job = runRows[r].job),
         runsMade' = runsMade, \A j \in BackupJobs : Busy(j)' => Busy(j),
         \A j \in BackupJobs : stored[j] # NoJob => stored'[j] # NoJob,
         \A j \in BackupJobs : stored'[j] # NoJob => stored[j] # NoJob \/ j \in jobsMade',
         jobsMade \subseteq jobsMade'
  PROVE  RowsPlace'
  <1>1. \A r \in RunIds : runRows'[r] # NoRow => runRows[r] # NoRow /\ runRows'[r].job = runRows[r].job
    OBVIOUS
  <1>2. \A r \in RunIds : r > runsMade' => runRows'[r] = NoRow
    BY <1>1 DEF RowsPlace
  <1>3. \A r \in RunIds : runRows'[r] # NoRow =>
          runRows'[r].job \in BackupJobs /\ stored'[runRows'[r].job] # NoJob
    BY <1>1 DEF RowsPlace
  <1>4. \A j \in BackupJobs : stored'[j] # NoJob \/ Busy(j)' => j \in jobsMade'
    BY DEF RowsPlace
  <1>. QED BY <1>2, <1>3, <1>4 DEF RowsPlace

\* Changing a job does not touch what its runs left.
LEMMA EditInv ==
  ASSUME HistoryInv, NEW a \in Admins, NEW i \in BackupJobs,
         handleBackupJobCreate(a, i) \/ handleBackupJobUpdate(a, i)
  PROVE  HistoryInv'
  <1>1. PICK c \in Configs : SaveJob(a, i, c)
    BY DEF handleBackupJobCreate, handleBackupJobUpdate
  <1>2. /\ UNCHANGED <<runRows, artifacts, staging, executing, second, runsMade, given>>
        /\ jobsMade' \in {jobsMade, jobsMade \cup {i}} /\ (jobsMade' = jobsMade \cup {i} \/ stored[i] # NoJob)
        /\ i \in jobsMade => stored[i] # NoJob
    BY <1>1 DEF SaveJob, handleBackupJobCreate, handleBackupJobUpdate
  <1>3. BackupsTypeOK /\ RowsPlace /\ HistoryTrue
    BY DEF HistoryInv
  <1>4. BackupsTypeOK'
    <2>1. DOMAIN runRows' = RunIds /\ runRows' = [r \in RunIds |-> runRows'[r]]
      BY <1>2, <1>3 DEF BackupsTypeOK
    <2>. QED BY <1>1, <1>2, <1>3, <2>1, JobsTyped
  <1>5. stored'[i] = c /\ c # NoJob /\ \A j \in BackupJobs : j # i => stored'[j] = stored[j]
    BY <1>1, <1>3, NoJobFacts DEF SaveJob, BackupsTypeOK
  <1>6. RowsPlace'
    <2>1. \A j \in BackupJobs : Busy(j)' => Busy(j)
      BY <1>2 DEF Busy
    <2>2. \A j \in BackupJobs : stored'[j] # NoJob => stored[j] # NoJob \/ j \in jobsMade'
      BY <1>2, <1>5
    <2>3. \A j \in BackupJobs : stored[j] # NoJob => stored'[j] # NoJob
      BY <1>5
    <2>. QED BY <1>2, <1>3, <1>4, <2>1, <2>2, <2>3, PlaceKept
  <1>7. ASSUME NEW j \in BackupJobs PROVE Aside(j)
    <2>1. Busy(j) /\ stored'[j] # NoJob => stored[j] # NoJob
      BY <1>2, <1>3, <1>5 DEF RowsPlace
    <2>2. second \in Nat /\ runsMade \in Nat
      BY <1>3, Numbers
    <2>. QED BY <1>2, <2>1, <2>2 DEF Aside, RowsAside, RunAside
  <1>8. IdsAside
    BY <1>2 DEF IdsAside, Busy, InProgress
  <1>9. \A j \in BackupJobs : JobTrue(j)'
    BY <1>2, <1>3, <1>4, <1>7, <1>8, AllAside
  <1>. QED BY <1>4, <1>6, <1>9, PartsAfter

\* Steps that change neither a job, a run nor a file.
LEMMA QuietInv ==
  ASSUME HistoryInv, BackupsTypeOK',
         UNCHANGED <<stored, runRows, artifacts, staging, jobsMade, runsMade, given>>, second' >= second,
         \A j \in BackupJobs :
            executing'[j] = executing[j] \/ (executing'[j].at \in {"idle", "entered"} /\ ~executing'[j].ok)
  PROVE  HistoryInv'
  <1>1. BackupsTypeOK /\ RowsPlace /\ HistoryTrue
    BY DEF HistoryInv
  <1>2. \A j \in BackupJobs : Aside(j)
    BY <1>1, Numbers DEF Aside, RowsAside, RunAside
  <1>3. \A j \in BackupJobs : Busy(j)' => Busy(j) /\ executing'[j] = executing[j]
    BY DEF Busy
  <1>4. IdsAside
    BY <1>3 DEF IdsAside, InProgress, Busy
  <1>5. RowsPlace'
    BY <1>1, <1>3, PlaceKept
  <1>6. \A j \in BackupJobs : JobTrue(j)'
    BY <1>1, <1>2, <1>4, AllAside
  <1>. QED BY <1>5, <1>6, PartsAfter

LEMMA SecondInv ==
  ASSUME HistoryInv, NextSecond
  PROVE  HistoryInv'
  <1>1. BackupsTypeOK
    BY DEF HistoryInv
  <1>2. second' \in 0..MaxSeconds /\ second' >= second
    BY <1>1, BackupsAssumption DEF BackupsTypeOK, NextSecond
  <1>3. BackupsTypeOK'
    BY <1>1, <1>2 DEF BackupsTypeOK, NextSecond
  <1>. QED BY <1>2, <1>3, QuietInv DEF NextSecond

LEMMA RestartInv ==
  ASSUME HistoryInv, RestartServer
  PROVE  HistoryInv'
  <1>1. BackupsTypeOK
    BY DEF HistoryInv
  <1>2. BackupsTypeOK'
    BY <1>1, RestartTyped
  <1>3. \A j \in BackupJobs : executing'[j].at = "idle" /\ ~executing'[j].ok
    BY IdleFacts DEF RestartServer
  <1>4. second' >= second
    BY <1>1, Numbers DEF RestartServer
  <1>. QED BY <1>2, <1>3, <1>4, QuietInv DEF RestartServer

LEMMA ExecuteInv ==
  ASSUME HistoryInv, NEW i \in BackupJobs, Execute(i)
  PROVE  HistoryInv'
  <1>1. BackupsTypeOK
    BY DEF HistoryInv
  <1>2. second' >= second
    BY <1>1, Numbers DEF Execute
  <1>3. BackupsTypeOK' /\ \A j \in BackupJobs :
            executing'[j] = executing[j] \/ (executing'[j].at \in {"idle", "entered"} /\ ~executing'[j].ok)
    BY <1>1, ExecuteTyped
  <1>. QED BY <1>2, <1>3, QuietInv DEF Execute

---------------------------------------------------------------------------
(* The steps that touch a job or its run.                                  *)

LEMMA NoOwnRow ==
  ASSUME BackupsTypeOK, NEW j \in BackupJobs
  PROVE  /\ j # 0 /\ NoRow.job # j /\ NoRow.status # "success"
         /\ \A r \in SuccessfulRuns(j) : runRows[r] # NoRow /\ runRows[r].job = j
  BY NoRowFacts, BackupsAssumption DEF SuccessfulRuns

LEMMA DeleteInv ==
  ASSUME HistoryInv, NEW a \in Admins, NEW i \in BackupJobs, handleBackupJobDelete(a, i)
  PROVE  HistoryInv'
  <1>1. BackupsTypeOK /\ RowsPlace /\ HistoryTrue
    BY DEF HistoryInv
  <1>2. /\ UNCHANGED <<artifacts, staging, executing, second, runsMade, given, jobsMade>>
        /\ SaveJob(a, i, NoJob)
        /\ runRows' = [r \in RunIds |-> IF runRows[r].job = i THEN NoRow ELSE runRows[r]]
    BY DEF handleBackupJobDelete, SaveJob
  <1>3. /\ \A r \in RunIds : runRows[r].job = i => runRows'[r] = NoRow
        /\ \A r \in RunIds : runRows[r].job # i => runRows'[r] = runRows[r]
    BY <1>2
  <1>4. BackupsTypeOK'
    <2>1. \A r \in RunIds : runRows'[r] \in {runRows[r], NoRow}
      BY <1>3
    <2>2. DOMAIN runRows' = RunIds /\ runRows' = [r \in RunIds |-> runRows'[r]]
      BY <1>2
    <2>. QED BY <1>1, <1>2, <2>1, <2>2, JobsTyped
  <1>5. stored'[i] = NoJob /\ \A j \in BackupJobs : j # i => stored'[j] = stored[j]
    BY <1>1, <1>2 DEF SaveJob, BackupsTypeOK
  <1>6. RowsPlace'
    <2>1. \A r \in RunIds : runRows'[r] # NoRow => runRows'[r] = runRows[r] /\ runRows[r].job # i
      BY <1>3
    <2>2. \A r \in RunIds : r > runsMade' => runRows'[r] = NoRow
      BY <1>1, <1>2, <2>1 DEF RowsPlace
    <2>3. \A r \in RunIds : runRows'[r] # NoRow =>
            runRows'[r].job \in BackupJobs /\ stored'[runRows'[r].job] # NoJob
      BY <1>1, <1>5, <2>1 DEF RowsPlace
    <2>4. \A j \in BackupJobs : stored'[j] # NoJob \/ Busy(j)' => j \in jobsMade'
      BY <1>1, <1>2, <1>5 DEF RowsPlace, Busy
    <2>. QED BY <2>2, <2>3, <2>4 DEF RowsPlace
  <1>7. IdsAside
    BY <1>2 DEF IdsAside, Busy, InProgress
  <1>8. second \in Nat /\ runsMade \in Nat
    BY <1>1, Numbers
  <1>9. ASSUME NEW j \in BackupJobs \ {i} PROVE JobTrue(j)'
    <2>1. RowsAside(j)
      BY <1>2, <1>3, <1>8, <1>1, NoOwnRow, NoRowFacts DEF RowsAside
    <2>2. Busy(j) => runRows'[executing[j].run] = runRows[executing[j].run]
      <3>1. JobTrue(j)
        BY <1>1, HistoryParts
      <3>2. Busy(j) => executing[j].run \in RunIds /\ (runRows[executing[j].run] # NoRow =>
                       runRows[executing[j].run].job = j)
        BY <3>1, <1>1, BackupsAssumption DEF JobTrue, RunPlace, RowSays, BackupsTypeOK, RunIds
      <3>. QED BY <1>3, <3>2
    <2>3. Aside(j)
      BY <1>2, <1>5, <2>1, <2>2 DEF Aside, RunAside
    <2>. QED BY <1>1, <1>2, <1>4, <1>7, <2>3, AllAside
  <1>10. JobTrue(i)'
    <2>1. JobTrue(i)
      BY <1>1, HistoryParts
    <2>2. SuccessfulRuns(i)' = {}
      BY <1>3, <1>1, NoOwnRow, NoRowFacts DEF SuccessfulRuns
    <2>3. Busy(i) => executing[i].run \in RunIds /\ runRows'[executing[i].run] = NoRow
      <3>1. Busy(i) => executing[i].run \in RunIds /\ (runRows[executing[i].run] # NoRow =>
                       runRows[executing[i].run].job = i)
        BY <2>1, <1>1, BackupsAssumption DEF JobTrue, RunPlace, RowSays, BackupsTypeOK, RunIds
      <3>. QED BY <1>3, <3>1
    <2>4. RunPlace(i)'
      BY <1>2, <1>5, <2>1, <2>3 DEF JobTrue, RunPlace, Busy, InProgress, RowSays
    <2>5. VictimPlace(i)'
      <3>1. \A v \in ToPrune(i) : Pruning(i) => v.run \in RunIds /\ runRows'[v.run] = NoRow
        BY <1>1, <1>3, <2>1, BackupsAssumption DEF JobTrue, VictimPlace, BackupsTypeOK, RunIds
      <3>. QED BY <1>2, <2>1, <3>1 DEF JobTrue, VictimPlace, Pruning, ToPrune, InProgress
    <2>6. NamesGiven(i)'
      BY <1>2, <2>1, <2>2 DEF JobTrue, NamesGiven, Named, Busy, Pruning, ToPrune, GivenTo
    <2>7. FilesPlace(i)'
      BY <1>2, <2>1 DEF JobTrue, FilesPlace, Named, Busy, StagedAs, DeliveredAs
    <2>8. InOrder(i)'
      BY <1>2, <2>1, <2>2 DEF JobTrue, InOrder, Named, Busy
    <2>9. OrphansOld(i)'
      BY <2>2 DEF OrphansOld
    <2>10. OneSurvives(i)'
      BY <1>5 DEF OneSurvives
    <2>. QED BY <2>4, <2>5, <2>6, <2>7, <2>8, <2>9, <2>10 DEF JobTrue
  <1>. QED BY <1>4, <1>6, <1>9, <1>10, PartsAfter

\* What every other job may take for granted while the run of job i takes a step.
LEMMA OthersAside ==
  ASSUME BackupsTypeOK, BackupsTypeOK', RowsPlace, HistoryTrue, NEW i \in BackupJobs,
         \A j \in BackupJobs \ {i} : executing'[j] = executing[j],
         \A r \in RunIds : runRows'[r] = runRows[r] \/ (r > runsMade /\ runRows'[r].job = i)
                           \/ (r <= runsMade /\ runRows[r].job = i /\ (runRows'[r] = NoRow \/ runRows'[r].job = i)),
         stored' = stored, runsMade' >= runsMade, second' = second, given \subseteq given',
         NEW j \in BackupJobs \ {i}
  PROVE  Aside(j) /\ JobTrue(j)
  <1>1. JobTrue(j)
    BY HistoryParts
  <1>2. second \in Nat
    BY Numbers
  <1>3. RowsAside(j)
    <2>1. \A r \in RunIds : r > runsMade => runRows[r] = NoRow
      BY DEF RowsPlace
    <2>2. \A r \in RunIds : r \in Nat
      BY Numbers
    <2>. QED BY <1>2, <2>1, <2>2, NoOwnRow, NoRowFacts, Numbers DEF RowsAside
  <1>4. Busy(j) => runRows'[executing[j].run] = runRows[executing[j].run]
    <2>1. Busy(j) => executing[j].run \in 1..runsMade /\ executing[j].run \in RunIds
      BY <1>1, BackupsAssumption DEF JobTrue, RunPlace, BackupsTypeOK, RunIds
    <2>2. Busy(j) => runRows[executing[j].run] = NoRow \/ runRows[executing[j].run].job = j
      BY <1>1 DEF JobTrue, RunPlace, RowSays
    <2>. QED BY <2>1, <2>2, NoOwnRow, Numbers
  <1>. QED BY <1>1, <1>3, <1>4 DEF Aside, RunAside

LEMMA StartInv ==
  ASSUME HistoryInv, NEW i \in BackupJobs, StartRun(i)
  PROVE  HistoryInv'
  <1>1. BackupsTypeOK /\ RowsPlace /\ HistoryTrue /\ second \in Nat /\ runsMade \in Nat
    BY Numbers DEF HistoryInv
  <1>2. CASE executing' = [executing EXCEPT ![i] = Idle] /\ UNCHANGED <<runRows, runsMade>>
    <2>1. executing' \in [BackupJobs -> Executions] /\ executing'[i].at = "idle" /\ ~executing'[i].ok
            /\ \A j \in BackupJobs \ {i} : executing'[j] = executing[j]
      BY <1>1, <1>2, EndsTyped
    <2>2. BackupsTypeOK'
      BY <1>1, <1>2, <2>1 DEF BackupsTypeOK, StartRun
    <2>. QED BY <1>1, <1>2, <2>1, <2>2, QuietInv DEF StartRun
  <1>3. CASE /\ stored[i] # NoJob /\ runsMade < MaxBackupRuns
             /\ runsMade' = runsMade + 1
             /\ runRows' = [runRows EXCEPT ![runsMade + 1] =
                  [job |-> i, started |-> second, status |-> "running", artifact |-> NoArtifact]]
             /\ executing' = [executing EXCEPT ![i].at = "started", ![i].run = runsMade + 1,
                                               ![i].cfg = stored[i], ![i].since = second]
    <2>. DEFINE new == runsMade + 1
    <2>1. /\ BackupsTypeOK' /\ executing'[i].at = "started" /\ executing'[i].run = new
          /\ executing'[i].cfg \in Configs /\ executing'[i].since = second /\ executing'[i].ok = executing[i].ok
          /\ \A j \in BackupJobs \ {i} : executing'[j] = executing[j]
          /\ new \in RunIds
          /\ runRows'[new].job = i /\ runRows'[new].started = second
          /\ runRows'[new].status = "running"
          /\ \A r \in RunIds : r # new => runRows'[r] = runRows[r]
      BY <1>1, <1>3, StartTyped
    <2>2. /\ UNCHANGED <<stored, artifacts, staging, second, jobsMade, given>>
          /\ executing[i].at = "entered" /\ runsMade' = runsMade + 1
      BY <1>3 DEF StartRun
    <2>3. new > runsMade /\ new \in Nat
      BY <1>1
    <2>. HIDE DEF new
    <2>4. runRows[new] = NoRow
      BY <1>1, <2>1, <2>3 DEF RowsPlace
    <2>5. \A r \in RunIds : r > runsMade' => runRows'[r] = NoRow
      BY <1>1, <2>1, <2>2, <2>3, Numbers DEF RowsPlace, new
    <2>6. RowsPlace'
      <3>1. \A r \in RunIds : runRows'[r] # NoRow =>
              runRows'[r].job \in BackupJobs /\ stored'[runRows'[r].job] # NoJob
        BY <1>1, <1>3, <2>1, <2>2 DEF RowsPlace
      <3>2. \A j \in BackupJobs : stored'[j] # NoJob \/ Busy(j)' => j \in jobsMade'
        BY <1>1, <1>3, <2>1, <2>2 DEF RowsPlace, Busy
      <3>. QED BY <2>5, <3>1, <3>2 DEF RowsPlace
    <2>7. IdsAside
      BY <2>1, <2>3 DEF IdsAside, Busy, InProgress
    <2>8. ASSUME NEW j \in BackupJobs \ {i} PROVE JobTrue(j)'
      <3>1. \A r \in RunIds : runRows'[r] = runRows[r] \/ (r > runsMade /\ runRows'[r].job = i)
        BY <2>1, <2>3
      <3>2. Aside(j)
        BY <1>1, <2>1, <2>2, <3>1, OthersAside
      <3>. QED BY <1>1, <2>1, <2>2, <2>7, <3>2, AllAside
    <2>9. JobTrue(i)'
      <3>1. JobTrue(i)
        BY <1>1, HistoryParts
      <3>2. SuccessfulRuns(i)' = SuccessfulRuns(i) /\ \A r \in SuccessfulRuns(i) : runRows'[r] = runRows[r] /\ r # new
        BY <2>1, <2>4, NoRowFacts DEF SuccessfulRuns
      <3>3. RunPlace(i)'
        <4>1. executing'[i].run \in 1..runsMade' /\ executing'[i].cfg \in Configs
          BY <1>1, <2>1, <2>2 DEF new
        <4>2. ~executing'[i].ok
          BY <2>1, <2>2, <3>1 DEF JobTrue, RunPlace
        <4>3. runRows'[executing'[i].run] # NoRow /\ RowSays(i, "running")' /\ InProgress(i)'
          BY <1>1, <2>1, NoOwnRow DEF RowSays, InProgress
        <4>4. \A j \in BackupJobs \ {i} : Busy(j)' => executing'[j].run # new
          <5>. SUFFICES ASSUME NEW j \in BackupJobs \ {i}, Busy(j)' PROVE executing'[j].run # new
            OBVIOUS
          <5>1. Busy(j) /\ executing'[j].run = executing[j].run /\ JobTrue(j)
            BY <1>1, <2>1, HistoryParts DEF Busy
          <5>. QED BY <5>1, <1>1, <2>3 DEF JobTrue, RunPlace
        <4>. QED BY <2>1, <4>1, <4>2, <4>3, <4>4 DEF RunPlace
      <3>4. VictimPlace(i)' /\ OneSurvives(i)'
        BY <2>1 DEF VictimPlace, OneSurvives, Pruning
      <3>5. NamesGiven(i)'
        BY <2>1, <2>2, <3>1, <3>2 DEF JobTrue, NamesGiven, Named, Pruning, GivenTo
      <3>6. FilesPlace(i)'
        BY <2>1 DEF FilesPlace, Named
      <3>7. InOrder(i)'
        <4>1. \A r \in SuccessfulRuns(i)' :
                /\ runRows'[r].started <= runRows'[r].artifact.archive.second
                /\ runRows'[r].artifact.archive.second <= second'
                /\ runRows'[r].artifact.archive.second <= executing'[i].since
          BY <2>1, <2>2, <3>1, <3>2 DEF JobTrue, InOrder
        <4>. QED BY <1>1, <2>1, <2>2, <4>1 DEF InOrder, Named
      <3>8. OrphansOld(i)'
        <4>1. \A r \in SuccessfulRuns(i) : Orphaned(r)' => Orphaned(r)
          BY <2>2, <3>2 DEF Orphaned, Kept
        <4>2. ASSUME NEW r \in SuccessfulRuns(i)', Orphaned(r)'
              PROVE  /\ runRows'[r].started < second'
                     /\ \E q \in SuccessfulRuns(i)' \ {r} : runRows'[q].started >= runRows'[r].started
                     /\ runRows'[r].started < executing'[i].since
          BY <2>1, <2>2, <3>1, <3>2, <4>1, <4>2 DEF JobTrue, OrphansOld
        <4>. QED BY <4>2 DEF OrphansOld
      <3>. QED BY <3>3, <3>4, <3>5, <3>6, <3>7, <3>8 DEF JobTrue
    <2>. QED BY <2>1, <2>6, <2>8, <2>9, PartsAfter
  <1>. QED BY <1>2, <1>3 DEF StartRun

LEMMA ArchiveInv ==
  ASSUME HistoryInv, NEW i \in BackupJobs, archive(i)
  PROVE  HistoryInv'
  <1>. DEFINE name == [name |-> sanitise(executing[i].cfg.name), second |-> second]
              taken == [archive |-> name, run |-> executing[i].run, job |-> i]
              file == [archive |-> name, holds |-> i]
  <1>1. BackupsTypeOK /\ RowsPlace /\ HistoryTrue /\ second \in Nat /\ runsMade \in Nat /\ JobTrue(i)
    BY Numbers, HistoryParts DEF HistoryInv
  <1>2. /\ UNCHANGED <<stored, runRows, artifacts, second, jobsMade, runsMade>>
        /\ executing[i].at = "started" /\ given' = given \cup {taken}
        /\ staging' \subseteq (staging \ StagedAs(name)) \cup {file}
    BY DEF archive
  <1>3. Busy(i) /\ InProgress(i) /\ executing[i].cfg \in Configs /\ executing[i].run \in RunIds /\ ~executing[i].ok
    BY <1>1, <1>2, BackupsAssumption DEF JobTrue, RunPlace, Busy, InProgress, BackupsTypeOK, RunIds
  <1>4. /\ BackupsTypeOK' /\ name \in ArchiveNames
        /\ \A j \in BackupJobs \ {i} : executing'[j] = executing[j]
        /\ ~executing'[i].ok /\ executing'[i].run = executing[i].run
        /\ executing'[i].cfg = executing[i].cfg /\ executing'[i].since = executing[i].since
        /\ executing'[i].at = "archived" => executing'[i].archive = name
        /\ executing'[i].at \in {"archived", "performed"}
    BY <1>1, <1>3, ArchiveTyped
  <1>5. taken.archive = name /\ taken.run = executing[i].run /\ taken.job = i
        /\ file.archive = name /\ file.holds = i /\ name.second = second
    OBVIOUS
  <1>6. taken = [archive |-> name, run |-> executing[i].run, job |-> i]
    OBVIOUS
  <1>. HIDE DEF name, taken, file
  <1>7. RowsPlace'
    <2>1. \A j \in BackupJobs : Busy(j)' => Busy(j)
      BY <1>2, <1>3, <1>4 DEF Busy
    <2>. QED BY <1>1, <1>2, <1>4, <2>1, PlaceKept
  <1>8. IdsAside
    BY <1>2, <1>3, <1>4 DEF IdsAside, Busy, InProgress
  <1>9. ASSUME NEW j \in BackupJobs \ {i} PROVE JobTrue(j)'
    <2>1. given \subseteq given'
      BY <1>2
    <2>2. Aside(j) /\ JobTrue(j)
      BY <1>1, <1>2, <1>4, <2>1, OthersAside
    <2>3. ASSUME NEW f \in staging' \ staging, Named(j), f.archive = executing[j].archive
          PROVE  Shared(given', executing[j].run)
      <3>. DEFINE other == [archive |-> executing[j].archive, run |-> executing[j].run, job |-> j]
      <3>1. f.archive = name
        BY <1>2, <1>5
      <3>2. other \in given' /\ taken \in given'
        BY <1>2, <2>2, <2>3 DEF JobTrue, NamesGiven, GivenTo
      <3>3. executing[j].run # executing[i].run
        BY <1>1, <1>3, <2>3 DEF JobTrue, RunPlace, Named
      <3>4. other.run = executing[j].run /\ other.archive = name
        BY <2>3, <3>1
      <3>. HIDE DEF other
      <3>5. Shared(given', other.run)
        BY <1>5, <3>2, <3>3, <3>4, BothShared
      <3>. QED BY <3>4, <3>5
    <2>. QED BY <1>1, <1>2, <1>4, <1>8, <2>2, <2>3, JobAside
  <1>10. JobTrue(i)'
    <2>2. SuccessfulRuns(i)' = SuccessfulRuns(i) /\ runRows' = runRows
      BY <1>2 DEF SuccessfulRuns
    <2>3. RunPlace(i)'
      <3>1. \A j \in BackupJobs \ {i} : Busy(j)' => executing'[j].run # executing'[i].run
        BY <1>1, <1>3, <1>4 DEF JobTrue, RunPlace, Busy
      <3>2. InProgress(i)' /\ RowSays(i, "running")'
        BY <1>1, <1>2, <1>3, <1>4 DEF JobTrue, RunPlace, RowSays, InProgress
      <3>3. stored'[i] # NoJob => runRows'[executing'[i].run] # NoRow
        BY <1>1, <1>2, <1>3, <1>4 DEF JobTrue, RunPlace
      <3>4. executing'[i].run \in 1..runsMade' /\ executing'[i].cfg \in Configs
        BY <1>1, <1>2, <1>3, <1>4 DEF JobTrue, RunPlace
      <3>. QED BY <1>4, <3>1, <3>2, <3>3, <3>4 DEF RunPlace
    <2>4. VictimPlace(i)' /\ OneSurvives(i)'
      BY <1>4 DEF VictimPlace, OneSurvives, Pruning
    <2>5. NamesGiven(i)'
      <3>1. \A r \in SuccessfulRuns(i)' :
              runRows'[r].artifact \in Locations /\ GivenTo(r, runRows[r].artifact.archive, i)'
        BY <1>1, <1>2, <2>2 DEF JobTrue, NamesGiven, GivenTo
      <3>2. executing'[i].at = "archived" =>
              executing'[i].archive \in ArchiveNames /\ [archive |-> executing'[i].archive, run |-> executing'[i].run, job |-> i] \in given'
        BY <1>2, <1>4, <1>6
      <3>3. Named(i)' => executing'[i].at = "archived"
        BY <1>2, <1>4 DEF Named
      <3>. QED BY <1>4, <2>2, <3>1, <3>2, <3>3 DEF NamesGiven, GivenTo, Pruning
    <2>6. FilesPlace(i)'
      <3>1. \A f \in staging' : f.archive = name => f.holds = i
        BY <1>2, <1>5 DEF StagedAs
      <3>. QED BY <1>2, <1>4, <3>1 DEF FilesPlace, StagedAs, Named
    <2>7. InOrder(i)'
      <3>1. executing[i].since <= second
        BY <1>1, <1>3 DEF JobTrue, InOrder
      <3>. QED BY <1>1, <1>2, <1>3, <1>4, <1>5, <2>2, <3>1 DEF JobTrue, InOrder, Named
    <2>8. OrphansOld(i)'
      <3>1. \A r \in RunIds : Orphaned(r)' => Orphaned(r)
        BY <1>2, SharedGrows DEF Orphaned, Kept
      <3>2. Removed(i)' = {} /\ Removed(i) = {}
        BY <1>2, <1>4 DEF Removed
      <3>3. SuccessfulRuns(i) \subseteq RunIds
        BY DEF SuccessfulRuns
      <3>. QED BY <1>1, <1>2, <1>3, <1>4, <2>2, <3>1, <3>2, <3>3 DEF JobTrue, OrphansOld
    <2>. QED BY <2>3, <2>4, <2>5, <2>6, <2>7, <2>8 DEF JobTrue
  <1>. QED BY <1>4, <1>7, <1>9, <1>10, PartsAfter

\* An artifact put over one that another run has left or is leaving there shares its name.
LEMMA SamePlace ==
  ASSUME BackupsTypeOK, HistoryTrue, NEW i \in BackupJobs, NEW j \in BackupJobs,
         NEW names, given \subseteq names, NEW run, NEW f,
         GivenTo(run, f.at.archive, i)
  PROVE  /\ Named(j) /\ f.at = DeliveredAs(executing[j]) /\ executing[j].run # run =>
              Shared(names, executing[j].run)
         /\ \A r \in SuccessfulRuns(j) : f.at = runRows[r].artifact /\ r # run => Shared(names, r)
  <1>. DEFINE taken == [archive |-> f.at.archive, run |-> run, job |-> i]
  <1>1. JobTrue(j) /\ taken \in names /\ taken.run = run /\ taken.archive = f.at.archive
    BY HistoryParts DEF GivenTo
  <1>. HIDE DEF taken
  <1>2. ASSUME Named(j), f.at = DeliveredAs(executing[j]), executing[j].run # run
        PROVE  Shared(names, executing[j].run)
    <2>. DEFINE other == [archive |-> executing[j].archive, run |-> executing[j].run, job |-> j]
    <2>1. other \in names
      BY <1>1, <1>2 DEF JobTrue, NamesGiven, GivenTo
    <2>2. other.run = executing[j].run /\ other.archive = f.at.archive
      BY <1>2 DEF DeliveredAs
    <2>. HIDE DEF other
    <2>3. Shared(names, other.run)
      BY <1>1, <1>2, <2>1, <2>2, BothShared
    <2>. QED BY <2>2, <2>3
  <1>3. ASSUME NEW r \in SuccessfulRuns(j), f.at = runRows[r].artifact, r # run
        PROVE  Shared(names, r)
    <2>. DEFINE other == [archive |-> runRows[r].artifact.archive, run |-> r, job |-> j]
    <2>1. other \in names
      BY <1>1 DEF JobTrue, NamesGiven, GivenTo
    <2>2. other.run = r /\ other.archive = f.at.archive
      BY <1>3
    <2>. HIDE DEF other
    <2>3. Shared(names, other.run)
      BY <1>1, <1>3, <2>1, <2>2, BothShared
    <2>. QED BY <2>2, <2>3
  <1>. QED BY <1>2, <1>3

LEMMA PerformInv ==
  ASSUME HistoryInv, NEW i \in BackupJobs, perform(i)
  PROVE  HistoryInv'
  <1>1. BackupsTypeOK /\ RowsPlace /\ HistoryTrue /\ second \in Nat /\ runsMade \in Nat /\ JobTrue(i)
    BY Numbers, HistoryParts DEF HistoryInv
  <1>2. /\ UNCHANGED <<stored, runRows, second, jobsMade, runsMade, given>>
        /\ executing[i].at = "archived"
    BY DEF perform
  <1>3. Busy(i) /\ InProgress(i) /\ Named(i) /\ executing[i].cfg \in Configs /\ executing[i].run \in RunIds /\ ~executing[i].ok
          /\ executing[i].archive \in ArchiveNames /\ GivenTo(executing[i].run, executing[i].archive, i)
    BY <1>1, <1>2, BackupsAssumption DEF JobTrue, RunPlace, NamesGiven, Busy, Named, InProgress, BackupsTypeOK, RunIds
  <1>4. /\ BackupsTypeOK' /\ executing'[i].at = "performed"
        /\ \A j \in BackupJobs \ {i} : executing'[j] = executing[j]
        /\ executing'[i].run = executing[i].run /\ executing'[i].cfg = executing[i].cfg
        /\ executing'[i].since = executing[i].since /\ executing'[i].archive = executing[i].archive
        /\ \/ Delivers(i)
           \/ artifacts' = artifacts /\ staging' \subseteq staging /\ executing'[i].ok = executing[i].ok
    BY <1>1, <1>3, PerformTyped
  <1>5. staging' \subseteq staging /\ \A f \in artifacts \ artifacts' : f.at = DeliveredAs(executing[i])
    BY <1>4 DEF Delivers
  <1>6. GivenTo(executing[i].run, DeliveredAs(executing[i]).archive, i)
    BY <1>3 DEF DeliveredAs
  <1>7. RowsPlace'
    <2>1. \A j \in BackupJobs : Busy(j)' => Busy(j)
      BY <1>2, <1>3, <1>4 DEF Busy
    <2>. QED BY <1>1, <1>2, <1>4, <2>1, PlaceKept
  <1>8. IdsAside
    BY <1>2, <1>3, <1>4 DEF IdsAside, Busy, InProgress
  <1>9. ASSUME NEW j \in BackupJobs \ {i} PROVE JobTrue(j)'
    <2>2. Aside(j) /\ JobTrue(j)
      BY <1>1, <1>2, <1>4, OthersAside
    <2>3. \A r \in SuccessfulRuns(j) : r # executing[i].run
      BY <1>1, <1>3, NoOwnRow DEF JobTrue, RunPlace, RowSays, SuccessfulRuns
    <2>4. Named(j) => executing[j].run # executing[i].run
      BY <1>1, <1>3 DEF JobTrue, RunPlace, Named
    <2>5. ASSUME NEW f \in artifacts \ artifacts'
          PROVE  /\ Named(j) /\ f.at = DeliveredAs(executing[j]) => Shared(given', executing[j].run)
                 /\ \A r \in SuccessfulRuns(j) : f.at = runRows[r].artifact => Shared(given', r)
      <3>1. GivenTo(executing[i].run, f.at.archive, i)
        BY <1>5, <1>6
      <3>2. /\ Named(j) /\ f.at = DeliveredAs(executing[j]) /\ executing[j].run # executing[i].run =>
                  Shared(given', executing[j].run)
            /\ \A r \in SuccessfulRuns(j) : f.at = runRows[r].artifact /\ r # executing[i].run => Shared(given', r)
        BY <1>1, <1>2, <3>1, SamePlace
      <3>. QED BY <3>2, <2>3, <2>4
    <2>. QED BY <1>1, <1>2, <1>4, <1>5, <1>8, <2>2, <2>5, JobAside
  <1>10. JobTrue(i)'
    <2>2. SuccessfulRuns(i)' = SuccessfulRuns(i) /\ runRows' = runRows
      BY <1>2 DEF SuccessfulRuns
    <2>3. RunPlace(i)'
      <3>1. \A j \in BackupJobs \ {i} : Busy(j)' => executing'[j].run # executing'[i].run
        BY <1>1, <1>3, <1>4 DEF JobTrue, RunPlace, Busy
      <3>2. InProgress(i)' /\ RowSays(i, "running")'
        BY <1>1, <1>2, <1>3, <1>4 DEF JobTrue, RunPlace, RowSays, InProgress
      <3>3. stored'[i] # NoJob => runRows'[executing'[i].run] # NoRow
        BY <1>1, <1>2, <1>3, <1>4 DEF JobTrue, RunPlace
      <3>4. executing'[i].run \in 1..runsMade' /\ executing'[i].cfg \in Configs
        BY <1>1, <1>2, <1>3, <1>4 DEF JobTrue, RunPlace
      <3>. QED BY <1>4, <3>1, <3>2, <3>3, <3>4 DEF RunPlace
    <2>4. VictimPlace(i)' /\ OneSurvives(i)'
      BY <1>4 DEF VictimPlace, OneSurvives, Pruning
    <2>5. NamesGiven(i)'
      <3>1. \A r \in SuccessfulRuns(i)' :
              runRows'[r].artifact \in Locations /\ GivenTo(r, runRows[r].artifact.archive, i)'
        BY <1>1, <1>2, <2>2 DEF JobTrue, NamesGiven, GivenTo
      <3>. QED BY <1>2, <1>3, <1>4, <3>1 DEF NamesGiven, GivenTo, Pruning
    <2>6. FilesPlace(i)'
      <3>. SUFFICES ASSUME Named(i)', ~Shared(given', executing'[i].run)
                    PROVE  [at |-> DeliveredAs(executing'[i]), holds |-> i] \in artifacts'
        BY <1>4 DEF FilesPlace
      <3>1. Delivers(i) /\ ~Shared(given, executing[i].run)
        BY <1>2, <1>3, <1>4 DEF Named
      <3>2. \A f \in StagedAs(executing[i].archive) : f.holds = i
        BY <1>1, <1>2, <1>3, <3>1 DEF JobTrue, FilesPlace
      <3>3. [at |-> DeliveredAs(executing[i]), holds |-> i] \in artifacts'
        BY <3>1, <3>2 DEF Delivers
      <3>4. DeliveredAs(executing'[i]) = DeliveredAs(executing[i])
        BY <1>4 DEF DeliveredAs
      <3>. QED BY <3>3, <3>4
    <2>7. InOrder(i)'
      BY <1>1, <1>2, <1>3, <1>4, <2>2 DEF JobTrue, InOrder
    <2>8. OrphansOld(i)'
      <3>1. ASSUME NEW r \in SuccessfulRuns(i), Orphaned(r)' PROVE Orphaned(r)
        <4>1. ~Shared(given, r)
          BY <1>2, <3>1 DEF Orphaned
        <4>2. [at |-> runRows[r].artifact, holds |-> runRows[r].job] \notin artifacts'
          BY <1>2, <3>1 DEF Orphaned, Kept
        <4>3. r # executing[i].run
          BY <1>1, <1>3, NoOwnRow DEF JobTrue, RunPlace, RowSays, SuccessfulRuns
        <4>4. [at |-> runRows[r].artifact, holds |-> runRows[r].job] \notin artifacts
          <5>. DEFINE f == [at |-> runRows[r].artifact, holds |-> runRows[r].job]
          <5>1. f.at = runRows[r].artifact /\ f \notin artifacts'
            BY <4>2
          <5>. HIDE DEF f
          <5>2. f \in artifacts => Shared(given, r)
            <6>. SUFFICES ASSUME f \in artifacts PROVE Shared(given, r)
              OBVIOUS
            <6>1. GivenTo(executing[i].run, f.at.archive, i)
              BY <1>5, <1>6, <5>1
            <6>2. \A q \in SuccessfulRuns(i) : f.at = runRows[q].artifact /\ q # executing[i].run => Shared(given, q)
              BY <1>1, <6>1, SamePlace
            <6>. QED BY <4>3, <5>1, <6>2
          <5>3. f \notin artifacts
            BY <4>1, <5>2
          <5>. QED BY <5>3 DEF f
        <4>. QED BY <4>1, <4>4 DEF Orphaned, Kept
      <3>2. Removed(i)' = {} /\ Removed(i) = {}
        BY <1>2, <1>4 DEF Removed
      <3>. QED BY <1>1, <1>2, <1>3, <1>4, <2>2, <3>1, <3>2 DEF JobTrue, OrphansOld
    <2>. QED BY <2>3, <2>4, <2>5, <2>6, <2>7, <2>8 DEF JobTrue
  <1>. QED BY <1>4, <1>7, <1>9, <1>10, PartsAfter

LEMMA FinishedFields ==
  ASSUME NEW row \in RunRows, NEW e, e.ok \in BOOLEAN
  PROVE  /\ FinishedRow(row, e).job = row.job /\ FinishedRow(row, e).started = row.started
         /\ FinishedRow(row, e).status = IF e.ok THEN "success" ELSE "failed"
         /\ FinishedRow(row, e).artifact = IF e.ok THEN DeliveredAs(e) ELSE NoArtifact
  BY DEF FinishedRow, RunRows

LEMMA FinishInv ==
  ASSUME HistoryInv, NEW i \in BackupJobs, FinishRun(i)
  PROVE  HistoryInv'
  <1>. DEFINE run == executing[i].run
  <1>1. BackupsTypeOK /\ RowsPlace /\ HistoryTrue /\ second \in Nat /\ runsMade \in Nat /\ JobTrue(i)
    BY Numbers, HistoryParts DEF HistoryInv
  <1>2. /\ UNCHANGED <<stored, artifacts, staging, second, jobsMade, runsMade, given>>
        /\ executing[i].at = "performed"
    BY DEF FinishRun
  <1>3. Busy(i) /\ InProgress(i) /\ executing[i].cfg \in Configs /\ run \in RunIds /\ run \in 1..runsMade
        /\ (Named(i) <=> executing[i].ok)
    BY <1>1, <1>2, BackupsAssumption DEF JobTrue, RunPlace, Busy, Named, InProgress, BackupsTypeOK, RunIds
  <1>4. /\ runRows[run] # NoRow =>
             runRows[run].job = i /\ runRows[run].status = "running" /\ runRows[run].started = executing[i].since
        /\ runRows[run] \in RunRows /\ executing[i].ok \in BOOLEAN
    BY <1>1, <1>3, Numbers, ExecutionFields DEF JobTrue, RunPlace, RowSays
  <1>5. executing[i].ok => executing[i].archive \in ArchiveNames
    BY <1>1, <1>3 DEF JobTrue, NamesGiven
  <1>6. /\ BackupsTypeOK'
        /\ \A j \in BackupJobs \ {i} : executing'[j] = executing[j]
        /\ \/ runRows' = runRows
           \/ /\ runRows[run] # NoRow
              /\ runRows'[run] = FinishedRow(runRows[run], executing[i])
              /\ \A r \in RunIds : r # run => runRows'[r] = runRows[r]
        /\ \/ executing'[i].at = "idle" /\ ~executing'[i].ok
              /\ (executing[i].ok => runRows' = runRows)
           \/ /\ executing[i].ok /\ executing'[i].ok /\ executing'[i].at = "pruning"
              /\ runRows' = runRows => runRows[run] = NoRow \/ runRows[run].status = "success"
              /\ executing'[i].run = run /\ executing'[i].cfg = executing[i].cfg
              /\ executing'[i].since = executing[i].since /\ executing'[i].archive = executing[i].archive
    BY <1>1, <1>3, <1>5, FinishTyped
  <1>. HIDE DEF run
  <1>7. /\ \A r \in RunIds : r # run => runRows'[r] = runRows[r]
        /\ \/ runRows'[run] = runRows[run]
           \/ /\ runRows[run] # NoRow /\ runRows'[run].job = i /\ runRows'[run].started = executing[i].since
              /\ runRows'[run].status = IF executing[i].ok THEN "success" ELSE "failed"
              /\ runRows'[run].artifact = IF executing[i].ok THEN DeliveredAs(executing[i]) ELSE NoArtifact
    BY <1>4, <1>6, FinishedFields
  <1>8. RowsPlace'
    <2>1. \A j \in BackupJobs : Busy(j)' => Busy(j)
      BY <1>2, <1>3, <1>6 DEF Busy
    <2>2. \A r \in RunIds : runRows'[r] \in {runRows[r], NoRow}
                           \/ (runRows[r] # NoRow /\ runRows'[r].job = runRows[r].job)
      BY <1>4, <1>7
    <2>. QED BY <1>1, <1>2, <1>6, <2>1, <2>2, PlaceKept
  <1>9. IdsAside
    BY <1>2, <1>3, <1>6 DEF IdsAside, Busy, InProgress, run
  <1>10. ASSUME NEW j \in BackupJobs \ {i} PROVE JobTrue(j)'
    <2>1. \A r \in RunIds : runRows'[r] = runRows[r] \/ (r > runsMade /\ runRows'[r].job = i)
                           \/ (r <= runsMade /\ runRows[r].job = i /\ (runRows'[r] = NoRow \/ runRows'[r].job = i))
      <3>1. run <= runsMade
        BY <1>1, <1>3
      <3>. QED BY <1>4, <1>7, <3>1
    <2>2. Aside(j)
      BY <1>1, <1>2, <1>6, <2>1, OthersAside
    <2>. QED BY <1>1, <1>2, <1>6, <1>9, <2>2, AllAside
  <1>11. CASE executing'[i].at = "idle" /\ ~executing'[i].ok /\ (executing[i].ok => runRows' = runRows)
    <2>1. RowsAside(i)
      BY <1>1, <1>2, <1>4, <1>7, <1>11 DEF RowsAside
    <2>2. Aside(i)
      BY <1>11, <2>1 DEF Aside, RunAside
    <2>3. JobTrue(i)'
      BY <1>1, <1>2, <1>6, <1>9, <2>2, AllAside
    <2>. QED BY <1>6, <1>8, <1>10, <2>3, PartsAfter
  <1>12. CASE /\ executing[i].ok /\ executing'[i].ok /\ executing'[i].at = "pruning"
              /\ runRows' = runRows => runRows[run] = NoRow \/ runRows[run].status = "success"
              /\ executing'[i].run = run /\ executing'[i].cfg = executing[i].cfg
              /\ executing'[i].since = executing[i].since /\ executing'[i].archive = executing[i].archive
    <2>1. Busy(i)' /\ ~InProgress(i)' /\ Named(i)' /\ Named(i) /\ ~Pruning(i)' /\ Removed(i)' = {} /\ Removed(i) = {}
      BY <1>2, <1>3, <1>12 DEF Busy, InProgress, Named, Pruning, Removed
    <2>2. runRows'[run] = NoRow \/
            /\ runRows'[run].job = i /\ runRows'[run].started = executing[i].since
            /\ runRows'[run].status = "success" /\ runRows'[run].artifact = DeliveredAs(executing[i])
            /\ runRows[run] # NoRow
      <3>1. CASE runRows' = runRows
        <4>1. runRows[run] = NoRow \/ runRows[run].status = "success"
          BY <1>12, <3>1
        <4>2. runRows[run] = NoRow
          BY <1>4, <4>1
        <4>. QED BY <3>1, <4>2
      <3>2. CASE /\ runRows[run] # NoRow
                 /\ runRows'[run] = FinishedRow(runRows[run], executing[i])
        <4>1. /\ FinishedRow(runRows[run], executing[i]).job = runRows[run].job
              /\ FinishedRow(runRows[run], executing[i]).started = runRows[run].started
              /\ FinishedRow(runRows[run], executing[i]).status = IF executing[i].ok THEN "success" ELSE "failed"
              /\ FinishedRow(runRows[run], executing[i]).artifact = IF executing[i].ok THEN DeliveredAs(executing[i]) ELSE NoArtifact
          BY <1>4, FinishedFields
        <4>. QED BY <1>4, <1>12, <3>2, <4>1
      <3>. QED BY <1>6, <3>1, <3>2
    <2>3. /\ SuccessfulRuns(i) \subseteq SuccessfulRuns(i)' /\ run \notin SuccessfulRuns(i)
          /\ SuccessfulRuns(i)' \subseteq SuccessfulRuns(i) \cup {run}
          /\ \A r \in SuccessfulRuns(i) : runRows'[r] = runRows[r]
          /\ run \in SuccessfulRuns(i)' => runRows'[run] # NoRow
      BY <1>4, <1>7, NoRowFacts DEF SuccessfulRuns
    <2>4. DeliveredAs(executing[i]) \in Locations /\ DeliveredAs(executing[i]).archive = executing[i].archive
            /\ DeliveredAs(executing'[i]) = DeliveredAs(executing[i])
      BY <1>1, <1>3, <1>5, <1>12, Numbers, PlaceOf DEF DeliveredAs
    <2>5. RunPlace(i)'
      <3>1. RowSays(i, "success")'
        BY <1>12, <2>2 DEF RowSays
      <3>2. \A j \in BackupJobs \ {i} : Busy(j)' => executing'[j].run # executing'[i].run
        BY <1>1, <1>3, <1>6, <1>12 DEF JobTrue, RunPlace, Busy, run
      <3>3. stored'[i] # NoJob => runRows'[executing'[i].run] # NoRow
        <4>. SUFFICES ASSUME stored[i] # NoJob PROVE runRows'[run] # NoRow
          BY <1>2, <1>12
        <4>1. runRows[run] # NoRow
          BY <1>1, <1>3 DEF JobTrue, RunPlace, run
        <4>. QED BY <1>7, <4>1, NoOwnRow, <1>1
      <3>4. executing'[i].run \in 1..runsMade' /\ executing'[i].cfg \in Configs
        BY <1>2, <1>3, <1>12
      <3>. QED BY <1>12, <2>1, <3>1, <3>2, <3>3, <3>4 DEF RunPlace
    <2>6. VictimPlace(i)' /\ OneSurvives(i)' /\ FilesPlace(i)'
      BY <1>12, <2>1 DEF VictimPlace, OneSurvives, FilesPlace
    <2>7. GivenTo(run, executing[i].archive, i)
      BY <1>1, <2>1 DEF JobTrue, NamesGiven, run
    <2>8. NamesGiven(i)'
      <3>1. ASSUME NEW r \in SuccessfulRuns(i)'
            PROVE  runRows'[r].artifact \in Locations /\ [archive |-> runRows'[r].artifact.archive, run |-> r, job |-> i] \in given'
        <4>1. CASE r \in SuccessfulRuns(i)
          BY <1>1, <1>2, <2>3, <4>1 DEF JobTrue, NamesGiven, GivenTo
        <4>2. CASE r = run
          BY <1>2, <2>2, <2>3, <2>4, <2>7, <3>1, <4>2 DEF GivenTo
        <4>. QED BY <2>3, <4>1, <4>2
      <3>. QED BY <1>2, <1>5, <1>12, <2>1, <2>7, <3>1 DEF NamesGiven, GivenTo
    <2>9. executing[i].since <= second /\ executing[i].since <= executing[i].archive.second
            /\ executing[i].archive.second <= second
      BY <1>1, <1>3, <2>1 DEF JobTrue, InOrder
    <2>10. InOrder(i)'
      <3>1. ASSUME NEW r \in SuccessfulRuns(i)'
            PROVE  /\ runRows'[r].started <= runRows'[r].artifact.archive.second
                   /\ runRows'[r].artifact.archive.second <= second'
                   /\ r # executing'[i].run => runRows'[r].artifact.archive.second <= executing'[i].since
        <4>1. CASE r \in SuccessfulRuns(i)
          BY <1>1, <1>2, <1>3, <1>12, <2>3, <4>1 DEF JobTrue, InOrder, run
        <4>2. CASE r = run
          BY <1>2, <1>12, <2>2, <2>3, <2>4, <2>9, <3>1, <4>2
        <4>. QED BY <2>3, <4>1, <4>2
      <3>. QED BY <1>2, <1>12, <2>9, <3>1 DEF InOrder
    <2>11. OrphansOld(i)'
      <3>1. ASSUME NEW r \in SuccessfulRuns(i)', Orphaned(r)'
            PROVE  r \in SuccessfulRuns(i) /\ Orphaned(r)
        <4>1. ~Shared(given, r) /\ [at |-> runRows'[r].artifact, holds |-> runRows'[r].job] \notin artifacts
          BY <1>2, <3>1 DEF Orphaned, Kept
        <4>2. r # run
          <5>. SUFFICES ASSUME r = run PROVE FALSE
            OBVIOUS
          <5>1. runRows'[r].artifact = DeliveredAs(executing[i]) /\ runRows'[r].job = i
            BY <2>2, <2>3, <3>1
          <5>2. ~Shared(given, run)
            BY <4>1
          <5>3. [at |-> DeliveredAs(executing[i]), holds |-> i] \in artifacts
            BY <1>1, <1>2, <2>1, <5>2 DEF JobTrue, FilesPlace, run
          <5>. QED BY <4>1, <5>1, <5>3
        <4>. QED BY <2>3, <4>1, <4>2 DEF Orphaned, Kept
      <3>2. ASSUME NEW r \in SuccessfulRuns(i)', Orphaned(r)'
            PROVE  /\ runRows'[r].started < second'
                   /\ \E q \in SuccessfulRuns(i)' \ {r} : runRows'[q].started >= runRows'[r].started
                   /\ runRows'[r].started < executing'[i].since
        <4>1. r \in SuccessfulRuns(i) /\ Orphaned(r)
          BY <3>1, <3>2
        <4>2. PICK q \in SuccessfulRuns(i) \ {r} : runRows[q].started >= runRows[r].started
          BY <1>1, <4>1 DEF JobTrue, OrphansOld
        <4>3. runRows[r].started < second /\ runRows[r].started < executing[i].since
          BY <1>1, <1>3, <2>1, <4>1 DEF JobTrue, OrphansOld
        <4>. QED BY <1>2, <1>12, <2>3, <4>1, <4>2, <4>3
      <3>. QED BY <3>2 DEF OrphansOld
    <2>12. JobTrue(i)'
      BY <2>5, <2>6, <2>8, <2>10, <2>11 DEF JobTrue
    <2>. QED BY <1>6, <1>8, <1>10, <2>12, PartsAfter
  <1>. QED BY <1>6, <1>11, <1>12

---------------------------------------------------------------------------
(* Pruning.                                                                *)

\* Pruning never takes every record.
LEMMA SomeKept ==
  ASSUME NEW j \in BackupJobs, NEW keep \in Nat \ {0}, NEW v \in Beyond(SuccessfulRuns(j), keep)
  PROVE  /\ v \subseteq SuccessfulRuns(j)
         /\ \A x \in v, y \in SuccessfulRuns(j) \ v : runRows[y].started >= runRows[x].started
         /\ \E y \in SuccessfulRuns(j) : y \notin v
  <1>. DEFINE done == SuccessfulRuns(j)
  <1>1. done \subseteq 1..MaxBackupRuns
    BY DEF SuccessfulRuns, RunIds
  <1>2. IsFiniteSet(1..MaxBackupRuns)
    BY BackupsAssumption, FS_Interval
  <1>3. IsFiniteSet(done)
    BY <1>1, <1>2, FS_Subset
  <1>4. Cardinality(done) \in Nat
    BY <1>3, FS_CardinalityType
  <1>5. v \subseteq done /\ Cardinality(v) = Cardinality(done) - keep
          /\ \A x \in v, y \in done \ v : runRows[y].started >= runRows[x].started
    BY DEF Beyond
  <1>. HIDE DEF done
  <1>6. v # done
    BY <1>4, <1>5
  <1>. QED BY <1>5, <1>6 DEF done

\* The jobs that do not prune, while the run of job i does.
LEMMA PruningAside ==
  ASSUME BackupsTypeOK, BackupsTypeOK', RowsPlace, HistoryTrue, NEW i \in BackupJobs,
         executing[i].at \in {"pruning", "checking", "removing", "removed"},
         executing'[i].at \in {"idle", "checking", "removing", "removed"},
         executing'[i].at # "idle" => executing'[i].run = executing[i].run,
         \A j \in BackupJobs \ {i} : executing'[j] = executing[j],
         UNCHANGED <<stored, artifacts, staging, second, jobsMade, runsMade, given>>,
         \A r \in RunIds : runRows'[r] = runRows[r] \/ (runRows[r].job = i /\ runRows'[r] = NoRow)
  PROVE  RowsPlace' /\ IdsAside /\ \A j \in BackupJobs \ {i} : JobTrue(j)'
  <1>1. RowsPlace'
    <2>1. \A j \in BackupJobs : Busy(j)' => Busy(j)
      BY DEF Busy
    <2>. QED BY <2>1, PlaceKept
  <1>2. IdsAside
    BY DEF IdsAside, Busy, InProgress
  <1>3. second \in Nat /\ runsMade \in Nat /\ \A r \in RunIds : r \in Nat
    BY Numbers
  <1>4. \A r \in RunIds : runRows'[r] = runRows[r] \/ (r > runsMade /\ runRows'[r].job = i)
                           \/ (r <= runsMade /\ runRows[r].job = i /\ (runRows'[r] = NoRow \/ runRows'[r].job = i))
    <2>1. \A r \in RunIds : r > runsMade => runRows[r] = NoRow
      BY DEF RowsPlace
    <2>. QED BY <1>3, <2>1, NoOwnRow
  <1>5. \A j \in BackupJobs \ {i} : Aside(j)
    BY <1>3, <1>4, OthersAside
  <1>. QED BY <1>1, <1>2, <1>5, AllAside

LEMMA EndInv ==
  ASSUME HistoryInv, BackupsTypeOK', NEW i \in BackupJobs,
         executing'[i].at = "idle", ~executing'[i].ok,
         \A j \in BackupJobs \ {i} : executing'[j] = executing[j],
         UNCHANGED <<stored, runRows, artifacts, staging, second, jobsMade, runsMade, given>>
  PROVE  HistoryInv'
  <1>1. second' >= second
    BY Numbers DEF HistoryInv
  <1>. QED BY <1>1, QuietInv

LEMMA ListsInv ==
  ASSUME HistoryInv, NEW i \in BackupJobs, PruneLists(i)
  PROVE  HistoryInv'
  <1>1. BackupsTypeOK /\ RowsPlace /\ HistoryTrue /\ second \in Nat /\ runsMade \in Nat /\ JobTrue(i)
    BY Numbers, HistoryParts DEF HistoryInv
  <1>2. /\ UNCHANGED <<stored, runRows, artifacts, staging, second, jobsMade, runsMade, given>>
        /\ executing[i].at = "pruning"
    BY DEF PruneLists
  <1>3. /\ BackupsTypeOK'
        /\ \/ executing'[i].at = "idle" /\ ~executing'[i].ok
              /\ \A j \in BackupJobs \ {i} : executing'[j] = executing[j]
           \/ /\ PrunesOn(i) /\ executing'[i].at = "checking"
              /\ executing[i].cfg.retention > 0 /\ Cardinality(SuccessfulRuns(i)) > executing[i].cfg.retention
              /\ \E v \in Beyond(SuccessfulRuns(i), executing[i].cfg.retention) :
                   executing'[i].victims = {[run |-> r, artifact |-> runRows[r].artifact] : r \in v}
    BY <1>1, ListsTyped
  <1>4. CASE executing'[i].at = "idle" /\ ~executing'[i].ok
               /\ \A j \in BackupJobs \ {i} : executing'[j] = executing[j]
    BY <1>2, <1>3, <1>4, EndInv
  <1>5. ASSUME PrunesOn(i), executing'[i].at = "checking", executing[i].cfg.retention > 0,
               NEW v \in Beyond(SuccessfulRuns(i), executing[i].cfg.retention),
               executing'[i].victims = {[run |-> r, artifact |-> runRows[r].artifact] : r \in v}
        PROVE  HistoryInv'
    <2>1. Busy(i) /\ ~InProgress(i) /\ Named(i) /\ ~Pruning(i) /\ executing[i].cfg \in Configs
            /\ executing[i].run \in 1..runsMade /\ executing[i].run \in RunIds
      BY <1>1, <1>2, BackupsAssumption DEF JobTrue, RunPlace, Busy, Named, InProgress, Pruning, BackupsTypeOK, RunIds
    <2>2. Busy(i)' /\ ~InProgress(i)' /\ Named(i)' /\ Pruning(i)' /\ Removed(i)' = {} /\ Removed(i) = {}
            /\ ToPrune(i)' = executing'[i].victims
      BY <1>2, <1>5 DEF Busy, InProgress, Named, Pruning, Removed, ToPrune
    <2>3. executing[i].cfg.retention \in Nat \ {0}
      <3>1. executing[i].cfg.retention \in Nat
        BY <2>1, BackupsAssumption DEF Configs
      <3>. QED BY <1>5, <3>1
    <2>4. /\ v \subseteq SuccessfulRuns(i)
          /\ \A x \in v, y \in SuccessfulRuns(i) \ v : runRows[y].started >= runRows[x].started
          /\ \E y \in SuccessfulRuns(i) : y \notin v
      BY <1>5, <2>3, SomeKept
    <2>5. /\ SuccessfulRuns(i)' = SuccessfulRuns(i) /\ runRows' = runRows
          /\ executing'[i].run = executing[i].run /\ executing'[i].cfg = executing[i].cfg
          /\ executing'[i].since = executing[i].since /\ executing'[i].archive = executing[i].archive
          /\ executing'[i].ok = executing[i].ok
          /\ \A j \in BackupJobs \ {i} : executing'[j] = executing[j]
      BY <1>2, <1>5 DEF SuccessfulRuns, PrunesOn
    <2>6. RowsPlace' /\ IdsAside /\ \A j \in BackupJobs \ {i} : JobTrue(j)'
      BY <1>1, <1>2, <1>3, <1>5, <2>5, PruningAside
    <2>7. \A w \in ToPrune(i)' : w.run \in v /\ w.artifact = runRows[w.run].artifact
      BY <1>5, <2>2
    <2>8. RunPlace(i)'
      <3>1. RowSays(i, "success")' /\ executing[i].ok
        BY <1>1, <2>1, <2>5 DEF JobTrue, RunPlace, RowSays
      <3>2. \A j \in BackupJobs \ {i} : Busy(j)' => executing'[j].run # executing'[i].run
        BY <1>1, <2>1, <2>5 DEF JobTrue, RunPlace, Busy
      <3>. QED BY <1>2, <1>5, <2>1, <2>2, <2>5, <3>1, <3>2 DEF RunPlace
    <2>9. VictimPlace(i)'
      <3>. SUFFICES ASSUME NEW w \in ToPrune(i)'
                    PROVE  /\ w.run \in 1..runsMade' /\ w.artifact \in Locations
                           /\ runRows'[w.run].job = i /\ runRows'[w.run].status = "success"
                           /\ runRows'[w.run].artifact = w.artifact
                           /\ \A j \in BackupJobs : InProgress(j)' => executing'[j].run # w.run
        BY DEF VictimPlace
      <3>1. w.run \in SuccessfulRuns(i) /\ w.artifact = runRows[w.run].artifact
        BY <2>4, <2>7
      <3>2. w.run \in RunIds /\ runRows[w.run] # NoRow /\ runRows[w.run].job = i /\ runRows[w.run].status = "success"
        BY <3>1 DEF SuccessfulRuns
      <3>3. w.run \in 1..runsMade
        BY <1>1, <3>2, Numbers DEF RowsPlace
      <3>4. w.artifact \in Locations
        BY <1>1, <3>1 DEF JobTrue, NamesGiven
      <3>5. ASSUME NEW j \in BackupJobs, InProgress(j)' PROVE executing'[j].run # w.run
        <4>1. j # i /\ InProgress(j) /\ JobTrue(j) /\ executing'[j].run = executing[j].run
          BY <1>1, <2>2, <2>5, <3>5, HistoryParts DEF InProgress
        <4>. QED BY <3>2, <4>1 DEF JobTrue, RunPlace, RowSays
      <3>. QED BY <1>2, <3>1, <3>2, <3>3, <3>4, <3>5
    <2>10. NamesGiven(i)'
      <3>1. \A r \in SuccessfulRuns(i) :
              runRows[r].artifact \in Locations /\ [archive |-> runRows[r].artifact.archive, run |-> r, job |-> i] \in given'
        BY <1>1, <1>2 DEF JobTrue, NamesGiven, GivenTo
      <3>2. \A w \in ToPrune(i)' : [archive |-> w.artifact.archive, run |-> w.run, job |-> i] \in given'
        BY <2>4, <2>7, <3>1
      <3>3. executing[i].archive \in ArchiveNames /\ [archive |-> executing[i].archive, run |-> executing[i].run, job |-> i] \in given'
        BY <1>1, <1>2, <2>1 DEF JobTrue, NamesGiven, GivenTo
      <3>. QED BY <2>5, <3>1, <3>2, <3>3 DEF NamesGiven, GivenTo
    <2>11. FilesPlace(i)'
      BY <1>5 DEF FilesPlace
    <2>12. InOrder(i)'
      BY <1>1, <1>2, <2>1, <2>5 DEF JobTrue, InOrder
    <2>13. OrphansOld(i)'
      <3>1. \A r \in SuccessfulRuns(i) : Orphaned(r)' => Orphaned(r)
        BY <1>2 DEF Orphaned, Kept
      <3>. QED BY <1>1, <1>2, <2>1, <2>2, <2>5, <3>1 DEF JobTrue, OrphansOld
    <2>14. OneSurvives(i)'
      <3>. SUFFICES ASSUME stored'[i] # NoJob PROVE \E y \in SuccessfulRuns(i)' : Survives(y, i)'
        BY DEF OneSurvives
      <3>1. executing[i].run \in SuccessfulRuns(i) /\ runRows[executing[i].run].started = executing[i].since
        BY <1>1, <1>2, <2>1 DEF JobTrue, RunPlace, RowSays, SuccessfulRuns
      <3>2. PICK y \in SuccessfulRuns(i) : y \notin v /\ runRows[y].started >= executing[i].since
        <4>1. CASE executing[i].run \in v
          BY <2>4, <3>1, <4>1
        <4>2. CASE executing[i].run \notin v
          BY <1>1, <3>1, <4>2, Numbers
        <4>. QED BY <4>1, <4>2
      <3>3. Survives(y, i)'
        BY <2>4, <2>5, <2>7, <3>2 DEF Survives
      <3>. QED BY <2>5, <3>2, <3>3
    <2>15. JobTrue(i)'
      BY <2>8, <2>9, <2>10, <2>11, <2>12, <2>13, <2>14 DEF JobTrue
    <2>. QED BY <1>3, <2>6, <2>15, PartsAfter
  <1>. QED BY <1>3, <1>4, <1>5

\* What a step that prunes on leaves of the run itself.
LEMMA PruningOn ==
  ASSUME BackupsTypeOK, BackupsTypeOK', HistoryTrue, NEW i \in BackupJobs, Pruning(i),
         executing'[i].at \in {"checking", "removing", "removed"}, PrunesOn(i),
         ToPrune(i)' \subseteq ToPrune(i),
         UNCHANGED <<stored, second, runsMade, given>>,
         \A r \in RunIds : runRows'[r] = runRows[r] \/ runRows'[r] = NoRow
  PROVE  RunPlace(i)' /\ VictimPlace(i)' /\ NamesGiven(i)' /\ FilesPlace(i)' /\ InOrder(i)'
  <1>1. JobTrue(i) /\ second \in Nat /\ runsMade \in Nat
    BY HistoryParts, Numbers
  <1>2. Busy(i) /\ ~InProgress(i) /\ Named(i) /\ Busy(i)' /\ ~InProgress(i)' /\ Named(i)' /\ Pruning(i)'
          /\ executing'[i].at # "pruning"
    BY DEF Busy, InProgress, Named, Pruning
  <1>3. executing[i].cfg \in Configs /\ executing[i].run \in 1..runsMade /\ executing[i].run \in RunIds
    BY <1>1, <1>2, BackupsAssumption DEF JobTrue, RunPlace, BackupsTypeOK, RunIds
  <1>4. /\ executing'[i].run = executing[i].run /\ executing'[i].cfg = executing[i].cfg
        /\ executing'[i].since = executing[i].since /\ executing'[i].archive = executing[i].archive
        /\ executing'[i].ok = executing[i].ok
        /\ \A j \in BackupJobs \ {i} : executing'[j] = executing[j]
    BY DEF PrunesOn
  <1>5. /\ SuccessfulRuns(i)' \subseteq SuccessfulRuns(i)
        /\ \A r \in SuccessfulRuns(i)' : runRows'[r] = runRows[r]
    BY NoRowFacts DEF SuccessfulRuns
  <1>6. RunPlace(i)'
    <2>1. RowSays(i, "success")' /\ executing'[i].ok
      BY <1>1, <1>2, <1>3, <1>4 DEF JobTrue, RunPlace, RowSays
    <2>2. \A j \in BackupJobs \ {i} : Busy(j)' => executing'[j].run # executing'[i].run
      BY <1>1, <1>2, <1>4 DEF JobTrue, RunPlace, Busy
    <2>. QED BY <1>2, <1>3, <1>4, <2>1, <2>2 DEF RunPlace
  <1>7. VictimPlace(i)'
    <2>. SUFFICES ASSUME NEW w \in ToPrune(i)'
                  PROVE  /\ w.run \in 1..runsMade' /\ w.artifact \in Locations
                         /\ runRows'[w.run] # NoRow =>
                              /\ runRows'[w.run].job = i /\ runRows'[w.run].status = "success"
                              /\ runRows'[w.run].artifact = w.artifact
                         /\ \A j \in BackupJobs : InProgress(j)' => executing'[j].run # w.run
      BY DEF VictimPlace
    <2>1. w \in ToPrune(i) /\ w.run \in RunIds
      BY <1>1, BackupsAssumption DEF JobTrue, VictimPlace, BackupsTypeOK, RunIds
    <2>2. \A j \in BackupJobs : InProgress(j)' => InProgress(j) /\ executing'[j].run = executing[j].run
      BY <1>2, <1>4 DEF InProgress
    <2>. QED BY <1>1, <2>1, <2>2 DEF JobTrue, VictimPlace
  <1>8. NamesGiven(i)'
    <2>1. \A r \in SuccessfulRuns(i)' :
            runRows'[r].artifact \in Locations /\ [archive |-> runRows'[r].artifact.archive, run |-> r, job |-> i] \in given'
      BY <1>1, <1>5 DEF JobTrue, NamesGiven, GivenTo
    <2>2. \A w \in ToPrune(i)' : [archive |-> w.artifact.archive, run |-> w.run, job |-> i] \in given'
      BY <1>1 DEF JobTrue, NamesGiven, GivenTo
    <2>3. executing[i].archive \in ArchiveNames /\ [archive |-> executing[i].archive, run |-> executing[i].run, job |-> i] \in given'
      BY <1>1, <1>2 DEF JobTrue, NamesGiven, GivenTo
    <2>. QED BY <1>4, <2>1, <2>2, <2>3 DEF NamesGiven, GivenTo
  <1>9. FilesPlace(i)'
    BY DEF FilesPlace
  <1>10. InOrder(i)'
    BY <1>1, <1>2, <1>4, <1>5 DEF JobTrue, InOrder
  <1>. QED BY <1>6, <1>7, <1>8, <1>9, <1>10

LEMMA ChecksInv ==
  ASSUME HistoryInv, NEW i \in BackupJobs, PruneChecks(i)
  PROVE  HistoryInv'
  <1>1. BackupsTypeOK /\ RowsPlace /\ HistoryTrue /\ second \in Nat /\ JobTrue(i)
    BY Numbers, HistoryParts DEF HistoryInv
  <1>2. /\ UNCHANGED <<stored, runRows, artifacts, staging, second, jobsMade, runsMade, given>>
        /\ executing[i].at = "checking"
    BY DEF PruneChecks
  <1>3. /\ BackupsTypeOK'
        /\ \/ executing'[i].at = "idle" /\ ~executing'[i].ok
              /\ \A j \in BackupJobs \ {i} : executing'[j] = executing[j]
           \/ /\ PrunesOn(i) /\ executing'[i].at \in {"checking", "removing"}
              /\ executing'[i].victims \subseteq executing[i].victims
              /\ executing'[i].victim \in executing[i].victims
    BY <1>1, ChecksTyped
  <1>4. CASE executing'[i].at = "idle" /\ ~executing'[i].ok
               /\ \A j \in BackupJobs \ {i} : executing'[j] = executing[j]
    BY <1>2, <1>3, <1>4, EndInv
  <1>5. CASE PrunesOn(i) /\ executing'[i].at \in {"checking", "removing"}
               /\ executing'[i].victims \subseteq executing[i].victims
               /\ executing'[i].victim \in executing[i].victims
    <2>1. Pruning(i) /\ Busy(i) /\ Removed(i) = {} /\ Removed(i)' = {} /\ ToPrune(i)' \subseteq ToPrune(i)
      BY <1>2, <1>5 DEF Pruning, Busy, Removed, ToPrune
    <2>2. RowsPlace' /\ IdsAside /\ \A j \in BackupJobs \ {i} : JobTrue(j)'
      BY <1>1, <1>2, <1>3, <1>5, PruningAside DEF PrunesOn
    <2>3. RunPlace(i)' /\ VictimPlace(i)' /\ NamesGiven(i)' /\ FilesPlace(i)' /\ InOrder(i)'
      BY <1>1, <1>2, <1>3, <1>5, <2>1, PruningOn
    <2>4. SuccessfulRuns(i)' = SuccessfulRuns(i) /\ runRows' = runRows
      BY <1>2 DEF SuccessfulRuns
    <2>5. OrphansOld(i)'
      <3>1. \A r \in SuccessfulRuns(i) : Orphaned(r)' => Orphaned(r)
        BY <1>2 DEF Orphaned, Kept
      <3>. QED BY <1>1, <1>2, <1>5, <2>1, <2>4, <3>1 DEF JobTrue, OrphansOld, PrunesOn
    <2>6. OneSurvives(i)'
      <3>. SUFFICES ASSUME stored'[i] # NoJob PROVE \E y \in SuccessfulRuns(i)' : Survives(y, i)'
        BY DEF OneSurvives
      <3>1. PICK y \in SuccessfulRuns(i) : Survives(y, i)
        BY <1>1, <1>2, <2>1 DEF JobTrue, OneSurvives
      <3>2. Survives(y, i)'
        BY <1>5, <2>1, <2>4, <3>1 DEF Survives, PrunesOn
      <3>. QED BY <2>4, <3>2
    <2>7. JobTrue(i)'
      BY <2>3, <2>5, <2>6 DEF JobTrue
    <2>. QED BY <1>3, <2>2, <2>7, PartsAfter
  <1>. QED BY <1>3, <1>4, <1>5

LEMMA RemovesInv ==
  ASSUME HistoryInv, NEW i \in BackupJobs, PruneRemoves(i)
  PROVE  HistoryInv'
  <1>. DEFINE v == executing[i].victim
  <1>1. BackupsTypeOK /\ RowsPlace /\ HistoryTrue /\ second \in Nat /\ runsMade \in Nat /\ JobTrue(i)
    BY Numbers, HistoryParts DEF HistoryInv
  <1>2. /\ UNCHANGED <<stored, runRows, staging, second, jobsMade, runsMade, given>>
        /\ executing[i].at = "removing"
    BY DEF PruneRemoves
  <1>3. /\ BackupsTypeOK' /\ PrunesOn(i)
        /\ executing'[i].victims = executing[i].victims /\ executing'[i].victim = v
        /\ \/ executing'[i].at = "removed"
           \/ executing'[i].at = "checking" /\ artifacts' = artifacts
        /\ artifacts' \subseteq artifacts
        /\ \A f \in artifacts \ artifacts' : f.at = v.artifact
    BY <1>1, RemovesTyped
  <1>4. /\ Pruning(i) /\ Busy(i) /\ Removed(i) = {} /\ ToPrune(i)' \subseteq ToPrune(i) /\ v \in ToPrune(i)
        /\ executing'[i].at = "removed" => Removed(i)' = {v.run}
    BY <1>2, <1>3 DEF Pruning, Busy, Removed, ToPrune
  <1>5. \A j \in BackupJobs \ {i} : executing'[j] = executing[j]
    BY <1>3 DEF PrunesOn
  <1>6. GivenTo(v.run, v.artifact.archive, i) /\ v.run \in RunIds
          /\ (runRows[v.run] # NoRow => runRows[v.run].job = i /\ runRows[v.run].artifact = v.artifact)
          /\ \A j \in BackupJobs : InProgress(j) => executing[j].run # v.run
    BY <1>1, <1>4, BackupsAssumption DEF JobTrue, NamesGiven, VictimPlace, BackupsTypeOK, RunIds
  <1>. HIDE DEF v
  <1>7. RowsPlace'
    <2>1. \A j \in BackupJobs : Busy(j)' => Busy(j)
      BY <1>4, <1>5 DEF Busy
    <2>. QED BY <1>1, <1>2, <1>3, <2>1, PlaceKept
  <1>8. IdsAside
    BY <1>2, <1>3, <1>5 DEF IdsAside, Busy, InProgress, PrunesOn
  <1>9. ASSUME NEW j \in BackupJobs \ {i} PROVE JobTrue(j)'
    <2>1. Aside(j) /\ JobTrue(j)
      BY <1>1, <1>2, <1>3, <1>5, OthersAside
    <2>2. \A r \in SuccessfulRuns(j) : r # v.run
      BY <1>1, <1>6, NoOwnRow
    <2>3. ASSUME NEW f \in artifacts \ artifacts'
          PROVE  /\ Named(j) /\ executing[j].at = "performed" /\ f.at = DeliveredAs(executing[j]) =>
                      Shared(given', executing[j].run)
                 /\ \A r \in SuccessfulRuns(j) : f.at = runRows[r].artifact => Shared(given', r)
      <3>1. GivenTo(v.run, f.at.archive, i)
        BY <1>3, <1>6
      <3>2. /\ Named(j) /\ f.at = DeliveredAs(executing[j]) /\ executing[j].run # v.run => Shared(given', executing[j].run)
            /\ \A r \in SuccessfulRuns(j) : f.at = runRows[r].artifact /\ r # v.run => Shared(given', r)
        BY <1>1, <1>2, <3>1, SamePlace
      <3>3. executing[j].at = "performed" => executing[j].run # v.run
        BY <1>6 DEF InProgress
      <3>. QED BY <2>2, <3>2, <3>3
    <2>. QED BY <1>1, <1>2, <1>3, <1>8, <2>1, <2>3, JobAside
  <1>10. RunPlace(i)' /\ VictimPlace(i)' /\ NamesGiven(i)' /\ FilesPlace(i)' /\ InOrder(i)'
    BY <1>1, <1>2, <1>3, <1>4, PruningOn
  <1>11. SuccessfulRuns(i)' = SuccessfulRuns(i) /\ runRows' = runRows /\ executing'[i].since = executing[i].since
    BY <1>2, <1>3 DEF SuccessfulRuns, PrunesOn
  <1>12. ASSUME stored[i] # NoJob PROVE \E y \in SuccessfulRuns(i) : Survives(y, i)
    BY <1>1, <1>4, <1>12 DEF JobTrue, OneSurvives
  <1>13. OneSurvives(i)'
    <2>. SUFFICES ASSUME stored'[i] # NoJob PROVE \E y \in SuccessfulRuns(i)' : Survives(y, i)'
      BY DEF OneSurvives
    <2>1. PICK y \in SuccessfulRuns(i) : Survives(y, i)
      BY <1>2, <1>12
    <2>2. Survives(y, i)'
      BY <1>4, <1>11, <2>1 DEF Survives
    <2>. QED BY <1>11, <2>2
  <1>14. OrphansOld(i)'
    <2>1. ASSUME NEW r \in SuccessfulRuns(i), Orphaned(r)', ~Orphaned(r)
          PROVE  r = v.run /\ executing'[i].at = "removed"
      <3>1. ~Shared(given, r) /\ [at |-> runRows[r].artifact, holds |-> runRows[r].job] \notin artifacts'
        BY <1>2, <2>1 DEF Orphaned, Kept
      <3>. DEFINE f == [at |-> runRows[r].artifact, holds |-> runRows[r].job]
      <3>2. f \in artifacts \ artifacts' /\ f.at = runRows[r].artifact
        BY <2>1, <3>1 DEF Orphaned, Kept
      <3>. HIDE DEF f
      <3>3. GivenTo(v.run, f.at.archive, i)
        BY <1>3, <1>6, <3>2
      <3>4. \A q \in SuccessfulRuns(i) : f.at = runRows[q].artifact /\ q # v.run => Shared(given, q)
        BY <1>1, <3>3, SamePlace
      <3>. QED BY <1>3, <3>1, <3>2, <3>4
    <2>2. ASSUME NEW r \in SuccessfulRuns(i), Orphaned(r)', ~Orphaned(r)
          PROVE  /\ runRows[r].started < second
                 /\ \E q \in SuccessfulRuns(i) \ {r} : runRows[q].started >= runRows[r].started
      <3>1. r = v.run /\ runRows[r] # NoRow /\ runRows[r].job = i /\ ~Shared(given, r) /\ r \in RunIds
        BY <1>2, <2>1, <2>2 DEF Orphaned, SuccessfulRuns
      <3>2. PICK y \in SuccessfulRuns(i) : Survives(y, i)
        BY <1>1, <1>12, <3>1 DEF RowsPlace
      <3>3. y # r /\ runRows[r].started <= runRows[y].started
        BY <1>4, <3>1, <3>2 DEF Survives
      <3>4. /\ runRows[r].started <= runRows[r].artifact.archive.second /\ runRows[r].artifact.archive.second <= second
            /\ runRows[y].started <= runRows[y].artifact.archive.second /\ runRows[y].artifact.archive.second <= second
        BY <1>1, <3>2 DEF JobTrue, InOrder
      <3>5. /\ runRows[r].started \in Nat /\ runRows[y].started \in Nat
            /\ runRows[r].artifact.archive.second \in Nat /\ runRows[y].artifact.archive.second \in Nat
        BY <1>1, <3>1, <3>2, Numbers, Seconds DEF JobTrue, NamesGiven, SuccessfulRuns
      <3>6. runRows[r].artifact.archive.second # runRows[y].artifact.archive.second
        <4>. DEFINE a == [archive |-> runRows[r].artifact.archive, run |-> r, job |-> i]
                    b == [archive |-> runRows[y].artifact.archive, run |-> y, job |-> i]
        <4>1. a \in given /\ b \in given
          BY <1>1, <3>2, <2>2 DEF JobTrue, NamesGiven, GivenTo
        <4>2. /\ a.run = r /\ b.run = y /\ a.job = b.job
              /\ a.archive.second = runRows[r].artifact.archive.second
              /\ b.archive.second = runRows[y].artifact.archive.second
          OBVIOUS
        <4>. HIDE DEF a, b
        <4>. QED BY <3>1, <3>3, <4>1, <4>2, BothShared
      <3>7. runRows[r].started < second
        BY <1>1, <3>3, <3>4, <3>5, <3>6
      <3>8. y \in SuccessfulRuns(i) \ {r} /\ runRows[y].started >= runRows[r].started
        BY <3>2, <3>3, <3>5
      <3>. QED BY <3>7, <3>8
    <2>3. ASSUME NEW r \in SuccessfulRuns(i), Orphaned(r)'
          PROVE  /\ runRows[r].started < second
                 /\ \E q \in SuccessfulRuns(i) \ {r} : runRows[q].started >= runRows[r].started
                 /\ r \notin Removed(i)' => runRows[r].started < executing[i].since
      <3>1. CASE Orphaned(r)
        BY <1>1, <1>4, <3>1 DEF JobTrue, OrphansOld
      <3>2. CASE ~Orphaned(r)
        BY <1>4, <2>1, <2>2, <2>3, <3>2
      <3>. QED BY <3>1, <3>2
    <2>. QED BY <1>2, <1>11, <2>3 DEF OrphansOld
  <1>15. JobTrue(i)'
    BY <1>10, <1>13, <1>14 DEF JobTrue
  <1>. QED BY <1>3, <1>7, <1>9, <1>15, PartsAfter

LEMMA ForgetsInv ==
  ASSUME HistoryInv, NEW i \in BackupJobs, PruneForgets(i)
  PROVE  HistoryInv'
  <1>. DEFINE v == executing[i].victim
  <1>1. BackupsTypeOK /\ RowsPlace /\ HistoryTrue /\ second \in Nat /\ JobTrue(i)
    BY Numbers, HistoryParts DEF HistoryInv
  <1>2. /\ UNCHANGED <<stored, artifacts, staging, second, jobsMade, runsMade, given>>
        /\ executing[i].at = "removed"
    BY DEF PruneForgets
  <1>3. /\ BackupsTypeOK'
        /\ \/ executing'[i].at = "idle" /\ ~executing'[i].ok /\ runRows' = runRows
              /\ \A j \in BackupJobs \ {i} : executing'[j] = executing[j]
           \/ /\ PrunesOn(i) /\ executing'[i].at = "checking"
              /\ executing'[i].victims = executing[i].victims
              /\ v.run \in RunIds => runRows'[v.run] = NoRow
              /\ \A r \in RunIds : r # v.run => runRows'[r] = runRows[r]
    BY <1>1, ForgetsTyped
  <1>4. CASE executing'[i].at = "idle" /\ ~executing'[i].ok /\ runRows' = runRows
               /\ \A j \in BackupJobs \ {i} : executing'[j] = executing[j]
    BY <1>2, <1>3, <1>4, EndInv
  <1>5. CASE /\ PrunesOn(i) /\ executing'[i].at = "checking"
             /\ executing'[i].victims = executing[i].victims
             /\ v.run \in RunIds => runRows'[v.run] = NoRow
             /\ \A r \in RunIds : r # v.run => runRows'[r] = runRows[r]
    <2>1. Pruning(i) /\ Busy(i) /\ Removed(i) = {v.run} /\ Removed(i)' = {} /\ ToPrune(i)' \subseteq ToPrune(i)
            /\ v \in ToPrune(i)
      BY <1>2, <1>5 DEF Pruning, Busy, Removed, ToPrune
    <2>2. v.run \in RunIds /\ (runRows[v.run] = NoRow \/ runRows[v.run].job = i)
      BY <1>1, <2>1, BackupsAssumption DEF JobTrue, VictimPlace, BackupsTypeOK, RunIds
    <2>. HIDE DEF v
    <2>3. \A r \in RunIds : runRows'[r] = runRows[r] \/ (runRows[r].job = i /\ runRows'[r] = NoRow)
      BY <1>5, <2>2
    <2>4. RowsPlace' /\ IdsAside /\ \A j \in BackupJobs \ {i} : JobTrue(j)'
      BY <1>1, <1>2, <1>3, <1>5, <2>3, PruningAside DEF PrunesOn
    <2>5. RunPlace(i)' /\ VictimPlace(i)' /\ NamesGiven(i)' /\ FilesPlace(i)' /\ InOrder(i)'
      BY <1>1, <1>2, <1>3, <1>5, <2>1, <2>3, PruningOn
    <2>6. /\ SuccessfulRuns(i)' = SuccessfulRuns(i) \ {v.run}
          /\ \A r \in SuccessfulRuns(i) \ {v.run} : runRows'[r] = runRows[r]
      BY <1>5, <2>2, NoRowFacts DEF SuccessfulRuns
    <2>7. executing'[i].since = executing[i].since
      BY <1>5 DEF PrunesOn
    <2>8. ASSUME stored[i] # NoJob
          PROVE  \E y \in SuccessfulRuns(i) : Survives(y, i) /\ y # v.run /\ runRows[y].started >= executing[i].since
      BY <1>1, <2>1, <2>8 DEF JobTrue, OneSurvives, Survives
    <2>9. OneSurvives(i)'
      <3>. SUFFICES ASSUME stored'[i] # NoJob PROVE \E y \in SuccessfulRuns(i)' : Survives(y, i)'
        BY DEF OneSurvives
      <3>1. PICK y \in SuccessfulRuns(i) : Survives(y, i) /\ y # v.run
        BY <1>2, <2>8
      <3>2. \A w \in ToPrune(i) : w.run \in RunIds
        BY <1>1, <2>1, BackupsAssumption DEF JobTrue, VictimPlace, BackupsTypeOK, RunIds
      <3>3. Survives(y, i)'
        BY <2>1, <2>3, <2>6, <2>7, <3>1, <3>2 DEF Survives
      <3>. QED BY <2>6, <3>1, <3>3
    <2>10. OrphansOld(i)'
      <3>. SUFFICES ASSUME NEW r \in SuccessfulRuns(i) \ {v.run}, Orphaned(r)'
                    PROVE  /\ runRows[r].started < second
                           /\ \E q \in SuccessfulRuns(i)' \ {r} : runRows'[q].started >= runRows[r].started
                           /\ runRows[r].started < executing[i].since
        BY <1>2, <2>1, <2>6, <2>7 DEF OrphansOld
      <3>1. Orphaned(r)
        BY <1>2, <2>6 DEF Orphaned, Kept
      <3>2. runRows[r].started < second /\ runRows[r].started < executing[i].since
        BY <1>1, <2>1, <3>1 DEF JobTrue, OrphansOld
      <3>3. stored[i] # NoJob
        BY <1>1 DEF RowsPlace, SuccessfulRuns
      <3>4. PICK y \in SuccessfulRuns(i) : y # v.run /\ runRows[y].started >= executing[i].since
        BY <2>8, <3>3
      <3>5. runRows[r].started \in Nat /\ runRows[y].started \in Nat /\ executing[i].since \in Nat
        BY <1>1, Numbers DEF SuccessfulRuns
      <3>6. y # r /\ runRows[y].started >= runRows[r].started
        BY <3>2, <3>4, <3>5
      <3>. QED BY <2>6, <3>2, <3>4, <3>6
    <2>11. JobTrue(i)'
      BY <2>5, <2>9, <2>10 DEF JobTrue
    <2>. QED BY <1>3, <2>4, <2>11, PartsAfter
  <1>. QED BY <1>3, <1>4, <1>5

---------------------------------------------------------------------------
(* The theorem.                                                            *)

LEMMA BackupsBegin ==
  ASSUME BackupsInit
  PROVE  HistoryInv
  <1>1. BackupsTypeOK
    <2>1. NotReading \in [at : {"idle", "reading", "found", "refused", "open", "lost", "done"},
                           run : RunIds \cup {0}, to : {"none", "restore", "list"}]
      BY DEF NotReading
    <2>2. Waiting \in [at : {"idle", "saved", "listed"}, jobs : SUBSET BackupJobs]
      BY DEF Waiting
    <2>. QED BY <2>1, <2>2, IdleIsExecution, NoRowIsRow, BackupsAssumption DEF BackupsTypeOK, BackupsInit
  <1>2. \A j \in BackupJobs : ~Busy(j) /\ ~InProgress(j) /\ ~Pruning(j) /\ ~Named(j) /\ executing[j].at = "idle"
    BY IdleFacts DEF BackupsInit, Busy, InProgress, Pruning, Named
  <1>3. \A j \in BackupJobs : SuccessfulRuns(j) = {}
    BY DEF BackupsInit, SuccessfulRuns
  <1>4. RowsPlace
    BY <1>2 DEF BackupsInit, RowsPlace
  <1>5. ASSUME NEW j \in BackupJobs PROVE JobTrue(j)
    BY <1>2, <1>3 DEF JobTrue, RunPlace, VictimPlace, NamesGiven, FilesPlace, InOrder, OrphansOld, OneSurvives
  <1>6. HistoryTrue
    BY <1>5, HistoryParts
  <1>. QED BY <1>1, <1>4, <1>6 DEF HistoryInv

LEMMA HistoryKept ==
  ASSUME HistoryInv, [BackupsNext]_backupVars
  PROVE  HistoryInv'
  <1>1. ASSUME NEW a \in Admins, NEW j \in BackupJobs,
               handleBackupJobCreate(a, j) \/ handleBackupJobUpdate(a, j) \/ handleBackupJobDelete(a, j)
        PROVE  HistoryInv'
    BY <1>1, EditInv, DeleteInv
  <1>2. ASSUME NEW a \in Admins, ReloadLists(a) \/ ReloadRebuilds(a)
        PROVE  HistoryInv'
    <2>1. BackupsTypeOK' /\ second' >= second
      BY <1>2, ReloadTyped, Numbers DEF HistoryInv, ReloadLists, ReloadRebuilds
    <2>2. UNCHANGED <<stored, runRows, artifacts, staging, executing, jobsMade, runsMade, given>>
      BY <1>2 DEF ReloadLists, ReloadRebuilds
    <2>. QED BY <2>1, <2>2, QuietInv
  <1>3. ASSUME NEW j \in BackupJobs, ScheduleFires(j) \/ handleBackupRunNow(j) \/ Evaluate(j)
        PROVE  HistoryInv'
    BY <1>3, ExecuteInv DEF ScheduleFires, handleBackupRunNow, Evaluate
  <1>4. ASSUME NEW j \in BackupJobs, StartRun(j) \/ archive(j) \/ perform(j) \/ FinishRun(j)
        PROVE  HistoryInv'
    BY <1>4, StartInv, ArchiveInv, PerformInv, FinishInv
  <1>5. ASSUME NEW j \in BackupJobs, PruneLists(j) \/ PruneChecks(j) \/ PruneRemoves(j) \/ PruneForgets(j)
        PROVE  HistoryInv'
    BY <1>5, ListsInv, ChecksInv, RemovesInv, ForgetsInv
  <1>6. ASSUME NEW d \in Readers, ReadStep(d)
        PROVE  HistoryInv'
    <2>1. BackupsTypeOK' /\ second' >= second
            /\ UNCHANGED <<stored, runRows, artifacts, staging, executing, jobsMade, runsMade, given>>
      BY <1>6, ReadTyped, Numbers DEF HistoryInv
    <2>. QED BY <2>1, QuietInv
  <1>7. CASE UNCHANGED backupVars
    <2>1. BackupsTypeOK' /\ second' >= second
      BY <1>7, Numbers DEF HistoryInv, BackupsTypeOK, backupVars
    <2>2. UNCHANGED <<stored, runRows, artifacts, staging, executing, jobsMade, runsMade, given>>
      BY <1>7 DEF backupVars
    <2>. QED BY <2>1, <2>2, QuietInv
  <1>. QED BY <1>1, <1>2, <1>3, <1>4, <1>5, <1>6, <1>7, SecondInv, RestartInv DEF BackupsNext, ReadStep

LEMMA NewestStands ==
  ASSUME HistoryInv
  PROVE  NewestBackupKept
  <1>. SUFFICES ASSUME NEW j \in BackupJobs, NEW r \in SuccessfulRuns(j),
                       \A q \in SuccessfulRuns(j) \ {r} : runRows[q].started < runRows[r].started, Orphaned(r)
                PROVE  FALSE
    BY DEF NewestBackupKept, Orphaned
  <1>1. PICK q \in SuccessfulRuns(j) \ {r} : runRows[q].started >= runRows[r].started
    BY DEF HistoryInv, HistoryTrue, OrphansOld
  <1>2. runRows[q].started \in Nat /\ runRows[r].started \in Nat
    BY Numbers DEF HistoryInv, SuccessfulRuns
  <1>. QED BY <1>1, <1>2

\* The newest backup a job's history shows is at its target and holds the job's own
\* files, through every edit, prune, restore, failure and restart (Execute, perform,
\* prune and the stored records), unless two archives were made in one second.
THEOREM BackupStands == BackupsSpec => []BackupsInv
  <1>1. BackupsInit => HistoryInv
    BY BackupsBegin
  <1>2. HistoryInv /\ [BackupsNext]_backupVars => HistoryInv'
    BY HistoryKept
  <1>3. HistoryInv => BackupsInv
    BY NewestStands DEF BackupsInv
  <1>. QED BY <1>1, <1>2, <1>3, PTL DEF BackupsSpec
=============================================================================
