----------------------------- MODULE SelfUpdate -----------------------------
(***************************************************************************)
(* The dashboard upgrading itself (backend/internal/selfupdate and         *)
(* handlers_selfupdate.go): the check for a newer release, locating the    *)
(* checkout, the run record in self-update.json, the updater container     *)
(* that outlives the backend, and the reconciliation of a half-finished    *)
(* run when a backend boots.                                               *)
(*                                                                         *)
(* The record is replaced whole, so it is never read half-written or       *)
(* corrupt.  Store's mutex keeps the goroutines of one process apart; the  *)
(* backend and the updater are two processes, so a read-modify-write of    *)
(* one (Update) is two steps for the other.  An Update whose read or whose *)
(* save fails changes nothing.  A version is the sequence of its           *)
(* components, <<>> when it cannot be parsed or, in a changelog's latest,  *)
(* is left out.  Texts, transcripts and the updater's argument list are    *)
(* left out.                                                               *)
(***************************************************************************)
EXTENDS Integers, Sequences, FiniteSets

CONSTANTS
  Manifests,      \* changelog files the tracked branch may come to carry
  FirstVersion,   \* version the install starts on
  Listings,       \* answers the container listing may give
  Disk,           \* directories of the host: name -> what lies there
  explicitDir,    \* JD_UPDATE_DIR, "" when it is not set
  CheckOnline,    \* JD_UPDATE_CHECK: whether the branch is looked at at all
  HealthKnown,    \* whether the run record carries a health address
  Installers,     \* install requests that may be served at the same time
  Dismissers,     \* dismiss requests that may be served at the same time
  MaxUpdateRuns, MaxBootings   \* bounds

ASSUME SelfUpdateAssumption ==
  /\ Manifests \subseteq
       [latest : Seq(Nat), releases : Seq([version : Seq(Nat), complete : BOOLEAN,
                                           breaking : BOOLEAN, noted : BOOLEAN])]
  /\ FirstVersion \in Seq(Nat) /\ FirstVersion # <<>> /\ {CheckOnline, HealthKnown} \subseteq BOOLEAN
  /\ MaxUpdateRuns \in Nat /\ MaxBootings \in Nat

VARIABLES
  published,   \* the changelog and code on the tracked branch
  checkout,    \* version of the code in the checkout on disk
  backend,     \* the backend: [at, version, seen]
  check,       \* Checker.result and busy
  record,      \* self-update.json
  updater,     \* the container just-dashboard-updater
  installing,  \* what each install request still has to do
  dismissing,  \* what each dismiss request has read
  overwritten, \* history: the record of a run still at work was replaced or removed
  updateRuns, bootings

selfUpdateVars == <<published, checkout, backend, check, record, updater, installing,
                    dismissing, overwritten, updateRuns, bootings>>
-----------------------------------------------------------------------------
(* Versions and the changelog *)

At(v, i) == IF i <= Len(v) THEN v[i] ELSE 0

\* Compare(a, b) >= 0 and > 0: the first differing component decides, a missing
\* one counts as zero, and what cannot be parsed is older than what can.
Older(a, b) ==
  \/ a = <<>> /\ b # <<>>
  \/ /\ a # <<>> /\ b # <<>>
     /\ \E i \in 1..Len(a) + Len(b) :
          At(a, i) < At(b, i) /\ \A j \in 1..i - 1 : At(a, j) = At(b, j)
AtLeast(a, b) == ~Older(a, b)
Newer(current, candidate) == candidate # <<>> /\ Older(current, candidate)

\* A changelog names its releases in any order.  Its head is its newest one.
Head_(m) == m.releases[CHOOSE i \in DOMAIN m.releases :
                         \A j \in DOMAIN m.releases :
                           \/ Older(m.releases[j].version, m.releases[i].version)
                           \/ AtLeast(m.releases[i].version, m.releases[j].version) /\ i <= j]
ParseManifest(m) ==
  /\ m.releases # <<>>
  /\ \A i \in DOMAIN m.releases :
       LET r == m.releases[i] IN
         /\ r.version # <<>>
         /\ \A j \in 1..i - 1 : m.releases[j].version # r.version
         /\ r.complete                 \* title, date, changes and their kinds
         /\ r.breaking => r.noted
  /\ m.latest = <<>> \/ (AtLeast(m.latest, Head_(m).version) /\ AtLeast(Head_(m).version, m.latest))
Latest(m) == IF m.latest = <<>> THEN Head_(m).version ELSE m.latest
Since(m, version) == {i \in DOMAIN m.releases : Newer(version, m.releases[i].version)}
HasBreaking(m, version) == \E i \in Since(m, version) : m.releases[i].breaking
-----------------------------------------------------------------------------
(* Locating the install *)

NamedImage(c) == IF c.image \in {"", "digest"} THEN "fallback" ELSE c.image

\* The containers findSelf may return: the one that mounts the data directory,
\* among several the backend service, else the only backend of this name.
findSelf(listing) ==
  LET hits  == {c \in listing.containers : c.mountsData}
      named == {c \in listing.containers : c.service = "backend" /\ c.ours}
  IN  IF listing.failed THEN {}
      ELSE IF Cardinality(hits) = 1 THEN hits
      ELSE IF \E c \in hits : c.service = "backend"
           THEN {c \in hits : c.service = "backend"}
      ELSE IF Cardinality(named) = 1 THEN named ELSE {}

validCheckout(dir, compose) ==
  dir \in DOMAIN Disk /\ Disk[dir].visible /\ Disk[dir].git /\ compose \in Disk[dir].files

composeNames == <<"docker-compose.yml", "docker-compose.yaml", "compose.yml", "compose.yaml">>
composeFileIn(dir) ==
  LET there == {i \in DOMAIN composeNames : composeNames[i] \in Disk[dir].files}
  IN  IF there = {} THEN "docker-compose.yml"
      ELSE composeNames[CHOOSE i \in there : \A j \in there : i <= j]

\* The places an upgrade may be offered for; none is an unsupported install.
Locate(listing) ==
  IF explicitDir # ""
  THEN {[dir |-> explicitDir, compose |-> composeFileIn(explicitDir), image |-> image] :
          image \in {i \in IF findSelf(listing) = {} THEN {"fallback"}
                           ELSE {NamedImage(c) : c \in findSelf(listing)} :
                       validCheckout(explicitDir, composeFileIn(explicitDir))}}
  ELSE {[dir |-> c.workDir, compose |-> c.compose, image |-> NamedImage(c)] :
          c \in {s \in findSelf(listing) :
                   s.workDir # "" /\ validCheckout(s.workDir, s.compose)}}
-----------------------------------------------------------------------------
(* The record *)

NoRecord == [status |-> "none", phase |-> "", to |-> <<>>]
LiveStatus(r) == r.status \in {"pending", "running"}
FinishRecord(r, ok) == [r EXCEPT !.phase = "finished", !.status = IF ok THEN "success" ELSE "failed"]

\* What each progress write of the updater changes.
Progress(step, r, ok) ==
  CASE step = "start"   -> [r EXCEPT !.status = "running", !.phase = "fetching"]
    [] step = "commit"  -> r
    [] step = "build"   -> [r EXCEPT !.phase = "building"]
    [] step = "restart" -> [r EXCEPT !.phase = "restarting"]
    [] step = "finish"  -> FinishRecord(r, ok)

NoContainer == [at |-> "none", loaded |-> FALSE, ok |-> FALSE, to |-> <<>>, seen |-> NoRecord]
NotInstalling == [at |-> "idle", to |-> <<>>, seen |-> NoRecord]
NotChecked == [latest |-> <<>>, available |-> FALSE, failed |-> FALSE, busy |-> FALSE]
Works(u) == u.at \notin {"none", "exited"}

SelfUpdateInit ==
  /\ published \in {m \in Manifests : ParseManifest(m)}
  /\ checkout = FirstVersion
  /\ backend = [at |-> "up", version |-> FirstVersion, seen |-> NoRecord]
  /\ check = NotChecked /\ record = NoRecord /\ updater = NoContainer
  /\ installing = [i \in Installers |-> NotInstalling]
  /\ dismissing = [d \in Dismissers |-> "idle"]
  /\ overwritten = FALSE /\ updateRuns = 0 /\ bootings = 0

\* A release is cut: the branch moves on, its code is of the newest version, also
\* when its changelog does not parse.
Publish(m) ==
  /\ Len(m.releases) > Len(published.releases)
  /\ Older(Head_(published).version, Head_(m).version)
  /\ published' = m
  /\ UNCHANGED <<checkout, backend, check, record, updater, installing, dismissing,
                 overwritten, updateRuns, bootings>>
-----------------------------------------------------------------------------
(* The check *)

\* Start's timer, Nudge and a forced refresh all come to Refresh, which lets one
\* fetch run at a time.
RefreshBegins ==
  /\ backend.at = "up" /\ CheckOnline /\ ~check.busy
  /\ check' = [check EXCEPT !.busy = TRUE]
  /\ UNCHANGED <<published, checkout, backend, record, updater, installing, dismissing,
                 overwritten, updateRuns, bootings>>

\* A failed fetch, or a changelog that does not parse, keeps the previous answer.
RefreshEnds(fetched) ==
  /\ backend.at = "up" /\ check.busy
  /\ check' = IF fetched /\ ParseManifest(published)
              THEN [latest |-> Latest(published),
                    available |-> Since(published, backend.version) # {},
                    failed |-> FALSE, busy |-> FALSE]
              ELSE [check EXCEPT !.failed = TRUE, !.busy = FALSE]
  /\ UNCHANGED <<published, checkout, backend, record, updater, installing, dismissing,
                 overwritten, updateRuns, bootings>>
-----------------------------------------------------------------------------
(* An install request *)

\* The store's mutex is free: no goroutine of the backend is inside an Update.
StoreFree == \A i \in Installers : installing[i].at # "failing"

\* What a status request is told; Location's short cache is left out.
Report(listing) ==
  [supported |-> Locate(listing) # {}, available |-> check.available,
   latest |-> IF check.latest = <<>> THEN backend.version ELSE check.latest]

\* The version asked for must be the newest one known; a stale tab is refused.
handleSelfUpdateInstall(i, listing, wanted) ==
  LET report == Report(listing) IN
  /\ backend.at = "up" /\ installing[i].at = "idle" /\ updateRuns < MaxUpdateRuns
  /\ report.supported /\ report.available
  /\ wanted # <<>> => AtLeast(wanted, report.latest) /\ AtLeast(report.latest, wanted)
  /\ installing' = [installing EXCEPT ![i] = [at |-> "start", to |-> report.latest, seen |-> NoRecord]]
  /\ updateRuns' = updateRuns + 1
  /\ UNCHANGED <<published, checkout, backend, check, record, updater, dismissing,
                 overwritten, bootings>>

\* Start refuses while a run is in flight, and a version that is not newer.
MayStart(target) == ~LiveStatus(record) /\ Newer(backend.version, target)
StartInstall(i) ==
  /\ backend.at = "up" /\ installing[i].at = "start" /\ StoreFree
  /\ installing' = IF MayStart(installing[i].to) THEN [installing EXCEPT ![i].at = "record"]
                   ELSE [installing EXCEPT ![i] = NotInstalling]
  /\ UNCHANGED <<published, checkout, backend, check, record, updater, dismissing,
                 overwritten, updateRuns, bootings>>

\* The record is written before the container exists; when it cannot be, nothing
\* else is done.
RecordPending(i, saved) ==
  /\ backend.at = "up" /\ installing[i].at = "record" /\ StoreFree
  /\ IF saved
     THEN /\ record' = [status |-> "pending", phase |-> "queued", to |-> installing[i].to]
          /\ overwritten' = (overwritten \/ LiveStatus(record) \/ Works(updater))
          /\ installing' = [installing EXCEPT ![i].at = "remove"]
     ELSE /\ installing' = [installing EXCEPT ![i] = NotInstalling]
          /\ UNCHANGED <<record, overwritten>>
  /\ UNCHANGED <<published, checkout, backend, check, updater, dismissing, updateRuns, bootings>>

\* docker rm -f of a previous updater, whatever it is doing; its failure is ignored.
RemoveOldUpdater(i, removed) ==
  /\ backend.at = "up" /\ installing[i].at = "remove"
  /\ updater' = IF removed THEN NoContainer ELSE updater
  /\ installing' = [installing EXCEPT ![i].at = "run"]
  /\ UNCHANGED <<published, checkout, backend, check, record, dismissing, overwritten,
                 updateRuns, bootings>>

\* docker run fails when the name is taken, or for a reason of its own; the
\* command dies with the request, which may be after the container started.
RunUpdaterContainer(i, started, ok) ==
  /\ backend.at = "up" /\ installing[i].at = "run"
  /\ ok => started
  /\ started => updater.at = "none"
  /\ updater' = IF started THEN [NoContainer EXCEPT !.at = "load"] ELSE updater
  /\ installing' = IF ok THEN [installing EXCEPT ![i] = NotInstalling]
                   ELSE [installing EXCEPT ![i].at = "unstarted"]
  /\ UNCHANGED <<published, checkout, backend, check, record, dismissing, overwritten,
                 updateRuns, bootings>>

\* Finish of a run whose container did not start, as a read and a write.
UnstartedLoads(i, able) ==
  /\ backend.at = "up" /\ installing[i].at = "unstarted" /\ StoreFree
  /\ installing' = IF able /\ record # NoRecord
                   THEN [installing EXCEPT ![i].at = "failing", ![i].seen = record]
                   ELSE [installing EXCEPT ![i] = NotInstalling]
  /\ UNCHANGED <<published, checkout, backend, check, record, updater, dismissing,
                 overwritten, updateRuns, bootings>>
UnstartedSaves(i) ==
  /\ backend.at = "up" /\ installing[i].at = "failing"
  /\ record' = FinishRecord(installing[i].seen, FALSE)
  /\ installing' = [installing EXCEPT ![i] = NotInstalling]
  /\ UNCHANGED <<published, checkout, backend, check, updater, dismissing, overwritten,
                 updateRuns, bootings>>

\* Dismiss reads the record, refuses a live one, and clears it afterwards.
Dismiss(d) ==
  /\ backend.at = "up" /\ dismissing[d] = "idle" /\ StoreFree
  /\ record # NoRecord /\ ~LiveStatus(record)
  /\ dismissing' = [dismissing EXCEPT ![d] = "clear"]
  /\ UNCHANGED <<published, checkout, backend, check, record, updater, installing,
                 overwritten, updateRuns, bootings>>
Clear(d, able) ==
  /\ backend.at = "up" /\ dismissing[d] = "clear" /\ StoreFree
  /\ record' = IF able THEN NoRecord ELSE record
  /\ overwritten' = (overwritten \/ (able /\ (LiveStatus(record) \/ Works(updater))))
  /\ dismissing' = [dismissing EXCEPT ![d] = "idle"]
  /\ UNCHANGED <<published, checkout, backend, check, updater, installing, updateRuns, bootings>>
-----------------------------------------------------------------------------
(* The updater container *)

\* RunUpdater learns what it was asked to do; without a live record, or a
\* transcript to write to, it ends.
RunUpdater(opened) ==
  /\ updater.at = "load"
  /\ updater' = IF LiveStatus(record) /\ opened
                THEN [updater EXCEPT !.at = "start", !.to = record.to]
                ELSE [updater EXCEPT !.at = "exited"]
  /\ UNCHANGED <<published, checkout, backend, check, record, installing, dismissing,
                 overwritten, updateRuns, bootings>>

Writes == {"start", "commit", "build", "restart", "finish"}
After == [start |-> "fetch", commit |-> "build", build |-> "compose",
          restart |-> IF HealthKnown THEN "probe" ELSE "finish", finish |-> "tidy"]

\* One Update of the record: read, change, replace.  Its error, which a record
\* that is gone is too, is ignored.
UpdateLoads(able) ==
  /\ updater.at \in Writes /\ ~updater.loaded
  /\ updater' = IF ~able \/ record = NoRecord THEN [updater EXCEPT !.at = After[updater.at]]
                ELSE [updater EXCEPT !.loaded = TRUE, !.seen = record]
  /\ UNCHANGED <<published, checkout, backend, check, record, installing, dismissing,
                 overwritten, updateRuns, bootings>>
UpdateSaves ==
  /\ updater.at \in Writes /\ updater.loaded
  /\ record' = Progress(updater.at, updater.seen, updater.ok)
  /\ updater' = [updater EXCEPT !.at = After[updater.at], !.loaded = FALSE, !.seen = NoRecord]
  /\ UNCHANGED <<published, checkout, backend, check, installing, dismissing, overwritten,
                 updateRuns, bootings>>

\* git fetch and merge --ff-only in a checkout that is there; rev-parse may fail without failing the upgrade.
fastForward(ok, named) ==
  /\ updater.at = "fetch"
  /\ IF ok THEN /\ checkout' = Head_(published).version
                /\ updater' = [updater EXCEPT !.at = IF named THEN "commit" ELSE "build"]
           ELSE /\ updater' = [updater EXCEPT !.at = "finish", !.ok = FALSE]
                /\ UNCHANGED checkout
  /\ UNCHANGED <<published, backend, check, record, installing, dismissing, overwritten,
                 updateRuns, bootings>>

\* docker compose up --build replaces the backend by one of the checkout's
\* version; it may fail before or after it got that far.
composeUp(replaced, ok) ==
  /\ updater.at = "compose" /\ (ok => replaced) /\ (replaced => bootings < MaxBootings)
  /\ updater' = [updater EXCEPT !.at = IF ok THEN "restart" ELSE "finish",
                                !.ok = (ok /\ ~HealthKnown)]
  /\ IF replaced
     THEN /\ backend' = [at |-> "boot", version |-> checkout, seen |-> NoRecord]
          /\ installing' = [i \in Installers |-> NotInstalling]
          /\ dismissing' = [d \in Dismissers |-> "idle"]
          /\ check' = NotChecked /\ bootings' = bootings + 1
     ELSE UNCHANGED <<backend, installing, dismissing, check, bootings>>
  /\ UNCHANGED <<published, checkout, record, overwritten, updateRuns>>

\* The probe ends when the dashboard answers, or after probeWindow.
waitHealthy(ok) ==
  /\ updater.at = "probe" /\ (ok => backend.at = "up")
  /\ updater' = [updater EXCEPT !.at = "finish", !.ok = ok]
  /\ UNCHANGED <<published, checkout, backend, check, record, installing, dismissing,
                 overwritten, updateRuns, bootings>>

\* A successful updater removes its container, a failed one is kept.
Tidy ==
  /\ updater.at = "tidy"
  /\ updater' = IF updater.ok THEN NoContainer ELSE [updater EXCEPT !.at = "exited"]
  /\ UNCHANGED <<published, checkout, backend, check, record, installing, dismissing,
                 overwritten, updateRuns, bootings>>
-----------------------------------------------------------------------------
(* Boot *)

\* The machine or the backend alone goes down and comes back; the updater is
\* never restarted.
Reboot(whole) ==
  /\ bootings < MaxBootings
  /\ backend' = [backend EXCEPT !.at = "boot", !.seen = NoRecord]
  /\ updater' = IF whole /\ Works(updater) THEN [updater EXCEPT !.at = "exited"] ELSE updater
  /\ installing' = [i \in Installers |-> NotInstalling]
  /\ dismissing' = [d \in Dismissers |-> "idle"]
  /\ check' = NotChecked /\ bootings' = bootings + 1
  /\ UNCHANGED <<published, checkout, record, overwritten, updateRuns>>

\* Faulty variant: the run is settled as a success whatever version is running.
SettleOk_Always(version, to) == TRUE
SettleOk(version, to) == AtLeast(version, to)

\* Reconcile leaves a live updater alone but for the phase, says nothing when
\* Docker cannot be asked about a recent run, and settles the rest by version.
Reconcile(asked, old) ==
  /\ backend.at = "boot"
  /\ backend' = [backend EXCEPT
       !.at = CASE ~LiveStatus(record)                      -> "up"
                [] asked /\ Works(updater)                  -> "nudge"
                [] ~asked /\ ~old                           -> "up"
                [] OTHER -> IF SettleOk(backend.version, record.to) THEN "succeed" ELSE "fail"]
  /\ UNCHANGED <<published, checkout, check, record, updater, installing, dismissing,
                 overwritten, updateRuns, bootings>>

\* The read of the Update each branch makes, and its write.
ReconcileLoads(able) ==
  /\ backend.at \in {"nudge", "succeed", "fail"} /\ backend.seen = NoRecord
  /\ backend' = IF able /\ record # NoRecord THEN [backend EXCEPT !.seen = record]
                ELSE [backend EXCEPT !.at = IF backend.at = "succeed" THEN "remove" ELSE "up"]
  /\ UNCHANGED <<published, checkout, check, record, updater, installing, dismissing,
                 overwritten, updateRuns, bootings>>
ReconcileSaves ==
  /\ backend.seen # NoRecord
  /\ record' = CASE backend.at = "nudge" ->
                      IF /\ AtLeast(backend.version, backend.seen.to)
                         /\ backend.seen.phase = "building"
                      THEN [backend.seen EXCEPT !.phase = "restarting"] ELSE backend.seen
                 [] OTHER -> FinishRecord(backend.seen, backend.at = "succeed")
  /\ backend' = [backend EXCEPT !.at = IF backend.at = "succeed" THEN "remove" ELSE "up",
                                !.seen = NoRecord]
  /\ UNCHANGED <<published, checkout, check, updater, installing, dismissing, overwritten,
                 updateRuns, bootings>>

\* Only the updater of a success is removed.
ReconcileRemoves(removed) ==
  /\ backend.at = "remove"
  /\ updater' = IF removed THEN NoContainer ELSE updater
  /\ backend' = [backend EXCEPT !.at = "up"]
  /\ UNCHANGED <<published, checkout, check, record, installing, dismissing, overwritten,
                 updateRuns, bootings>>
-----------------------------------------------------------------------------
SelfUpdateNext ==
  \/ \E m \in Manifests : Publish(m)
  \/ RefreshBegins \/ \E f \in BOOLEAN : RefreshEnds(f)
  \/ \E i \in Installers :
       \/ \E l \in Listings, v \in {<<>>, check.latest} : handleSelfUpdateInstall(i, l, v)
       \/ StartInstall(i) \/ UnstartedSaves(i)
       \/ \E ok \in BOOLEAN : RecordPending(i, ok) \/ RemoveOldUpdater(i, ok) \/ UnstartedLoads(i, ok)
       \/ \E started, ok \in BOOLEAN : RunUpdaterContainer(i, started, ok)
  \/ \E d \in Dismissers : Dismiss(d) \/ \E able \in BOOLEAN : Clear(d, able)
  \/ \E able \in BOOLEAN : RunUpdater(able) \/ UpdateLoads(able)
  \/ UpdateSaves \/ Tidy
  \/ \E ok, x \in BOOLEAN : fastForward(ok, x) \/ composeUp(x, ok)
  \/ \E ok \in BOOLEAN : waitHealthy(ok)
  \/ \E w \in BOOLEAN : Reboot(w)
  \/ \E asked, old \in BOOLEAN : Reconcile(asked, old)
  \/ \E able \in BOOLEAN : ReconcileLoads(able) \/ ReconcileRemoves(able)
  \/ ReconcileSaves

SelfUpdateSpec == SelfUpdateInit /\ [][SelfUpdateNext]_selfUpdateVars
-----------------------------------------------------------------------------
\* A run recorded as a success left the dashboard on the version it aimed at or
\* a newer one, whoever recorded it: the updater after its probe, or a backend
\* that booted and found the updater gone (Installer.Reconcile, RunUpdater).
\* A record replaced or removed while its run is at work is
\* UpgradeRecorded's subject.
SuccessMeansInstalled ==
  record.status = "success" /\ ~overwritten => AtLeast(backend.version, record.to)

RunRecords ==
  [status : {"none", "pending", "running", "success", "failed"},
   phase : {"", "queued", "fetching", "building", "restarting", "finished"}, to : Seq(Nat)]

\* The processes' places, and what each may hold a copy of there.
UpdateTypeOK ==
  /\ published \in Manifests /\ published.releases # <<>>
  /\ checkout \in Seq(Nat) /\ record \in RunRecords /\ overwritten \in BOOLEAN
  /\ backend \in [at : {"up", "boot", "nudge", "succeed", "fail", "remove"},
                  version : Seq(Nat), seen : RunRecords]
  /\ backend.seen # NoRecord => backend.at \in {"nudge", "succeed", "fail"}
  /\ check \in [latest : Seq(Nat), available : BOOLEAN, failed : BOOLEAN, busy : BOOLEAN]
  /\ check.available => check.latest # <<>>
  /\ updater \in [at : {"none", "exited", "load", "fetch", "compose", "probe", "tidy"} \union Writes,
                  loaded : BOOLEAN, ok : BOOLEAN, to : Seq(Nat), seen : RunRecords]
  /\ updater.loaded => updater.at \in Writes \union {"exited"}
  /\ installing \in [Installers -> [at : {"idle", "start", "record", "remove", "run", "unstarted", "failing"},
                                    to : Seq(Nat), seen : RunRecords]]
  /\ backend.at # "up" => \A i \in Installers : installing[i] = NotInstalling

\* What is offered, asked for or being installed has been published (Report,
\* MayStart): the branch is at least as new.
PublishedReaches(version) == AtLeast(Head_(published).version, version)
TargetsPublished ==
  /\ PublishedReaches(check.latest) /\ PublishedReaches(record.to)
  /\ \A i \in Installers : PublishedReaches(installing[i].to) /\ PublishedReaches(installing[i].seen.to)
  /\ PublishedReaches(backend.seen.to) /\ PublishedReaches(updater.seen.to)

\* What a process has read of the record, and will write back, is of the run the
\* record is about, and tells no success that is none (Store.Update).
TellsTheTruth(r) == r.status = "success" => AtLeast(backend.version, r.to)
CopiesAlike ==
  /\ backend.seen # NoRecord => backend.seen.to = record.to /\ TellsTheTruth(backend.seen)
  /\ Works(updater) /\ updater.loaded => updater.seen.to = record.to /\ TellsTheTruth(updater.seen)
  /\ \A i \in Installers : installing[i].at = "failing" => installing[i].seen.to = record.to

\* What the updater, or a backend that settles its run, has achieved so far: the
\* target in the checkout, then in the backend.
OnCourse ==
  /\ updater.at \in {"commit", "build", "compose"} => AtLeast(checkout, record.to)
  /\ updater.at \in {"restart", "probe"} \/ (updater.at = "finish" /\ updater.ok) =>
       AtLeast(backend.version, record.to)
  /\ backend.at = "succeed" => AtLeast(backend.version, record.to)

\* Every recorded success is one, of any number of install and dismiss requests,
\* crashes and reconciliations.
UpgradeInv ==
  /\ UpdateTypeOK /\ TargetsPublished /\ SuccessMeansInstalled
  /\ ~overwritten => CopiesAlike /\ OnCourse

\* While the updater works there is a live record of its run: the record is
\* written first, so there is no upgrade nobody can see (Installer.Start).
UpgradeRecorded ==
  updater.at \notin {"none", "exited", "load", "tidy"} => record # NoRecord
=============================================================================
