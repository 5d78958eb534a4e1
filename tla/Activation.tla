---------------------------- MODULE Activation ----------------------------
(***************************************************************************)
(* Bringing a release of one environment into service: the adapters        *)
(* start_candidate, verify_readiness, verify_smoke, activate,              *)
(* retire_previous and record_release, their recovery, the cleanup of a    *)
(* cancelled run and the restart operation (activation_executor.go), over  *)
(* the release and runtime rows (activation_store.go), the Docker owner    *)
(* (runtime_owner.go) and the proxy route (proxysvc/deployment_route.go).  *)
(*                                                                         *)
(* The queue serialises the runs of an environment, so there is one run at *)
(* a time; a run that was abandoned leaves everything as it stood.  Every  *)
(* call to Docker, to the proxy and to the store is an action of its own:  *)
(* the context may be cancelled, the lease may run out and the process may *)
(* die between any two.  A Docker call that reports a failure may have     *)
(* taken effect all the same.                                              *)
(***************************************************************************)
EXTENDS Integers, FiniteSets

CONSTANTS
  MaxReleases,  \* bound: releases of the environment
  MaxRestarts,  \* bound: restart runs
  MaxFaults,    \* bound: calls that fail though their context is live
  MaxCancels,   \* bound: cancellations by the operator
  MaxCrashes    \* bound: process crashes and lost leases

ASSUME ActivationAssumption ==
  /\ MaxReleases \in Nat /\ MaxRestarts \in Nat /\ MaxFaults \in Nat
  /\ MaxCancels \in Nat /\ MaxCrashes \in Nat

VARIABLES
  nrel,     \* releases created so far
  plan,     \* plan[r]: the runtime snapshot of release r
  pred,     \* pred[r]: predecessor_release_id, 0 if none
  release,  \* release[r]: state of the release row
  runtime,  \* runtime[r]: state of the runtime row
  live,     \* live_release_id of the environment, 0 if none
  up,       \* releases whose runtime is running
  route,    \* the release the proxy sends traffic to, 0 if none
  run,      \* the run that holds the environment
  outcome,  \* how the last run ended
  old,      \* history: the operation, and up, route and live when it began
  faults, cancels, crashes, restarts   \* how often each has happened

actVars == <<nrel, plan, pred, release, runtime, live, up, route, run, outcome, old,
             faults, cancels, crashes, restarts>>

Releases == 1..MaxReleases

\* A Compose project cannot run twice, so it is never blue/green
\* (validateRuntimeActivationStrategy).
Plans == {p \in [kind : {"container", "compose"}, strategy : {"blue_green", "stop_first"},
                 routed : BOOLEAN] : p.kind = "compose" => p.strategy = "stop_first"}

ReleaseStates == {"none", "candidate", "live", "retained"}
RuntimeStates == {"none", "candidate", "ready", "live", "draining", "stopped", "retired", "failed"}

Keys == {"start", "readiness", "smoke", "activate", "retire", "record"}

PCs == {"idle", "boundary", "stopPrevious", "markStopped", "launch", "recordRuntime",
        "dropCandidate", "restore", "markRestored", "readiness", "markReady", "smoke",
        "apply", "verify", "commit", "stopCandidate", "unroute", "markFailed", "retire",
        "markRetired", "record", "over", "cleanup", "dropUnrecorded", "cleaned",
        "restartStop", "restartMark", "restartStart", "restartAgain", "restartLive",
        "restartRecover"}

\* recoveryEvidence
NoEvidence == [stopped |-> FALSE, routed |-> FALSE, restored |-> FALSE]

\* snap holds the route snapshot once one was taken, doubt whether a Docker
\* call of this run has reported a failure.
NoRun == [op |-> "none", pc |-> "idle", c |-> 0, ctx |-> "live", leased |-> FALSE,
          activating |-> FALSE, step |-> "start", cleaning |-> FALSE, snap |-> {},
          ev |-> NoEvidence, doubt |-> FALSE]

Ops == {"none", "deploy", "restart"}
RecoveryEvidence == [stopped : BOOLEAN, routed : BOOLEAN, restored : BOOLEAN]
Run == [op : Ops, pc : PCs, c : 0..MaxReleases, ctx : {"live", "cancelled", "lost"},
        leased : BOOLEAN, activating : BOOLEAN, step : Keys, cleaning : BOOLEAN,
        snap : SUBSET (0..MaxReleases), ev : RecoveryEvidence, doubt : BOOLEAN]

ActTypeOK ==
  /\ nrel \in 0..MaxReleases
  /\ plan \in [Releases -> Plans]
  /\ pred \in [Releases -> 0..MaxReleases]
  /\ release \in [Releases -> ReleaseStates]
  /\ runtime \in [Releases -> RuntimeStates]
  /\ live \in 0..nrel
  /\ up \subseteq 1..nrel
  /\ route \in 0..nrel
  /\ run \in Run
  /\ old \in [op : Ops, up : SUBSET (1..nrel), route : 0..nrel, live : 0..nrel]
  /\ outcome \in {"none", "released", "rolled_back", "failed", "cancelled", "unclean", "abandoned"}
  /\ faults \in 0..MaxFaults /\ cancels \in 0..MaxCancels
  /\ crashes \in 0..MaxCrashes /\ restarts \in 0..MaxRestarts

ActInit ==
  /\ nrel = 0
  /\ plan = [r \in Releases |-> CHOOSE p \in Plans : TRUE]
  /\ pred = [r \in Releases |-> 0]
  /\ release = [r \in Releases |-> "none"]
  /\ runtime = [r \in Releases |-> "none"]
  /\ live = 0 /\ up = {} /\ route = 0
  /\ run = NoRun
  /\ outcome = "none"
  /\ old = [op |-> "none", up |-> {}, route |-> 0, live |-> 0]
  /\ faults = 0 /\ cancels = 0 /\ crashes = 0 /\ restarts = 0

---------------------------------------------------------------------------
(* Calls.                                                                  *)

\* The release the run is about.
c == run.c
Here(p) == run.pc = p
Live == run.ctx = "live"
HasPrevious == pred[c] # 0
StopFirst == plan[c].strategy = "stop_first"

Go(p) == [run EXCEPT !.pc = p]

rows   == <<nrel, plan, pred, release, live>>
counts == <<cancels, crashes, restarts>>
fixed  == <<outcome, old, counts>>

\* All Compose releases of an environment share one project identity.
Project(r) == IF plan[r].kind = "compose" THEN {s \in Releases : plan[s].kind = "compose"} ELSE {r}

WithUp(r)    == (up \ Project(r)) \cup {r}
WithoutUp(r) == up \ Project(r)

\* A call whose context is live may still fail, which is counted as a fault.
Fault(alive) ==
  \/ ~ alive /\ UNCHANGED faults
  \/ alive /\ faults < MaxFaults /\ faults' = faults + 1

DockerCall(alive, effect, ok, bad) ==
  /\ \/ alive /\ up' = effect /\ run' = ok /\ UNCHANGED faults
     \/ Fault(alive) /\ up' \in {up, effect} /\ run' = [bad EXCEPT !.doubt = TRUE]
  /\ UNCHANGED <<rows, runtime, route, fixed>>

\* DockerRuntimeOwner.Stop: Compose falls back on a kill that ignores the
\* cancellation of the context.
Stop(r, alive, ok, bad) ==
  DockerCall(alive \/ plan[r].kind = "compose", WithoutUp(r), ok, bad)

StartExisting(r, alive, ok, bad) == DockerCall(alive, WithUp(r), ok, bad)

\* SetRuntimeState: refused without the lease or the row.
SetRuntimeState(r, st, alive, ok, bad) ==
  LET accepted == alive /\ run.leased /\ runtime[r] # "none" IN
  /\ \/ accepted /\ runtime' = [runtime EXCEPT ![r] = st] /\ run' = ok /\ UNCHANGED faults
     \/ Fault(accepted) /\ run' = bad /\ UNCHANGED runtime
  /\ UNCHANGED <<rows, up, route, fixed>>

---------------------------------------------------------------------------
(* Runs begin, and the engine goes from step to step.                      *)

\* CreateCandidateRelease and CloneCandidateRelease.
Begin(p) ==
  LET r == nrel + 1 IN
  /\ Here("idle") /\ nrel < MaxReleases
  /\ nrel' = r
  /\ plan' = [plan EXCEPT ![r] = p]
  /\ pred' = [pred EXCEPT ![r] = live]
  /\ release' = [release EXCEPT ![r] = "candidate"]
  /\ run' = [NoRun EXCEPT !.op = "deploy", !.pc = "boundary", !.c = r, !.leased = TRUE]
  /\ outcome' = "none"
  /\ old' = [op |-> "deploy", up |-> up, route |-> route, live |-> live]
  /\ UNCHANGED <<runtime, live, up, route, faults, counts>>

BeginRestart ==
  /\ Here("idle") /\ live # 0 /\ restarts < MaxRestarts
  /\ restarts' = restarts + 1
  /\ run' = [NoRun EXCEPT !.op = "restart", !.pc = "boundary", !.c = live, !.leased = TRUE]
  /\ outcome' = "none"
  /\ old' = [op |-> "restart", up |-> up, route |-> route, live |-> live]
  /\ UNCHANGED <<rows, runtime, up, route, faults, cancels, crashes>>

End(how) == run' = NoRun /\ outcome' = how

\* Faulty variant: the previous release is stopped under any strategy.
Entry_StopsAlways(s) ==
  CASE s = "start" -> IF run.op = "restart" THEN "restartStop"
                      ELSE IF HasPrevious THEN "stopPrevious" ELSE "launch"
    [] s = "activate" -> "apply"
    [] OTHER -> s

\* Where each adapter begins.
Entry(s) ==
  CASE s = "start" -> IF run.op = "restart" THEN "restartStop"
                      ELSE IF StopFirst /\ HasPrevious THEN "stopPrevious" ELSE "launch"
    [] s = "activate" -> "apply"
    [] OTHER -> s

Enter ==
  /\ Here("boundary") /\ Live
  /\ run' = [run EXCEPT !.pc = Entry(run.step),
                        !.activating = @ \/ run.step = "activate"]
  /\ UNCHANGED <<rows, runtime, up, route, faults, fixed>>

\* Between steps a dead context ends in the cleanup, or in a failed store call
\* that makes the worker leave; an activating run cannot be cancelled.
Interrupted ==
  /\ Here("boundary") /\ ~ Live
  /\ \/ /\ ~ run.activating
        /\ run' = [run EXCEPT !.pc = "cleanup", !.cleaning = TRUE]
        /\ UNCHANGED outcome
     \/ End("abandoned")
  /\ UNCHANGED <<rows, runtime, up, route, faults, old, counts>>

Passed(s) == [run EXCEPT !.pc = "boundary", !.step = s]

\* The reads an adapter begins with fail, or the check runner is missing: the
\* step fails and nothing is recovered.
ReadFails ==
  /\ run.pc \in {"stopPrevious", "readiness", "smoke", "apply", "retire", "record", "restartStop"}
  /\ Fault(Live \/ Here("retire"))
  /\ run' = [run EXCEPT !.pc = "over", !.ev = NoEvidence]
  /\ UNCHANGED <<rows, runtime, up, route, fixed>>

---------------------------------------------------------------------------
(* start_candidate.                                                        *)

\* Recovery begins; routed says what is known of the route already.
Recover(routed) == [run EXCEPT !.pc = "stopCandidate", !.ev = [NoEvidence EXCEPT !.routed = routed]]

StopPrevious ==
  /\ Here("stopPrevious")
  /\ Stop(pred[c], Live, Go("markStopped"), Go("restore"))

MarkStopped ==
  /\ Here("markStopped")
  /\ SetRuntimeState(pred[c], "stopped", Live, Go("launch"), Go("restore"))

\* Port, variables and source are obtained, then StartCandidate is called.  A
\* container that could not be started does not run; a failed Compose command
\* or a cancelled call may leave the candidate running.
Launch ==
  /\ Here("launch")
  /\ \/ Live /\ up' = WithUp(c) /\ run' = Go("recordRuntime") /\ UNCHANGED faults
     \/ /\ Fault(Live)
        /\ up' \in {up} \cup (IF Live /\ plan[c].kind = "container" THEN {} ELSE {WithUp(c)})
        /\ run' = [Go("restore") EXCEPT !.doubt = TRUE]
  /\ UNCHANGED <<rows, runtime, route, fixed>>

\* Faulty variant: a new row starts without a state.
RecordCandidateRuntime_NoState ==
  /\ Here("recordRuntime") /\ Live /\ run.leased
  /\ runtime' = [runtime EXCEPT ![c] = ""]
  /\ run' = Passed("readiness")
  /\ UNCHANGED <<rows, up, route, faults, fixed>>

RecordCandidateRuntime ==
  LET accepted == Live /\ run.leased /\ release[c] = "candidate" IN
  /\ Here("recordRuntime")
  /\ \/ /\ accepted
        /\ runtime' = [runtime EXCEPT ![c] = "candidate"]
        /\ run' = Passed("readiness")
        /\ UNCHANGED faults
     \/ Fault(accepted) /\ run' = Go("dropCandidate") /\ UNCHANGED runtime
  /\ UNCHANGED <<rows, up, route, fixed>>

\* The error of this Stop is ignored.
DropCandidate ==
  /\ Here("dropCandidate")
  /\ Stop(c, TRUE, Go("restore"), Go("restore"))

---------------------------------------------------------------------------
(* Recovery: restorePrevious and stopCandidateAndRestore, both independent *)
(* of the cancellation of the run's context.                               *)

AfterRestore ==
  IF run.step = "start" /\ ~ run.cleaning THEN "over"
  ELSE IF runtime[c] = "none" THEN "cleaned" ELSE "markFailed"

Restored(b) == [run EXCEPT !.pc = AfterRestore, !.ev.restored = b]

RestorePrevious ==
  /\ Here("restore")
  /\ IF HasPrevious /\ StopFirst
       THEN StartExisting(pred[c], TRUE, Go("markRestored"), Restored(FALSE))
       ELSE run' = Restored(TRUE) /\ UNCHANGED <<rows, runtime, up, route, faults, fixed>>

MarkRestored ==
  /\ Here("markRestored")
  /\ SetRuntimeState(pred[c], "live", TRUE, Restored(TRUE), Restored(FALSE))

\* Faulty variant: brings the predecessor back before the candidate is gone.
StopCandidate_RestoresFirst ==
  /\ Here("stopCandidate")
  /\ IF HasPrevious /\ StopFirst /\ pred[c] \notin up
       THEN StartExisting(pred[c], TRUE, run, run)
       ELSE Stop(c, TRUE, [Go("restore") EXCEPT !.ev.stopped = TRUE], Go("restore"))

StopCandidate ==
  LET next == IF run.snap = {} THEN "restore" ELSE "unroute" IN
  /\ Here("stopCandidate")
  /\ Stop(c, TRUE, [Go(next) EXCEPT !.ev.stopped = TRUE], Go(next))

RestoreDeploymentRoute ==
  /\ Here("unroute")
  /\ \/ /\ route' \in run.snap
        /\ run' = [Go("restore") EXCEPT !.ev.routed = TRUE]
        /\ UNCHANGED faults
     \/ /\ Fault(TRUE)
        /\ route' \in {route} \cup run.snap
        /\ run' = Go("restore")
  /\ UNCHANGED <<rows, runtime, up, fixed>>

MarkFailed ==
  LET next == Go(IF run.cleaning THEN "cleaned" ELSE "over") IN
  /\ Here("markFailed")
  /\ SetRuntimeState(c, "failed", TRUE, next, next)

\* Faulty variant: the route is not part of a complete recovery.
recoveryComplete_IgnoresRoute == run.ev.stopped /\ run.ev.restored

recoveryComplete ==
  /\ run.ev.stopped /\ run.ev.routed
  /\ run.ev.restored \/ ~ HasPrevious \/ ~ StopFirst

---------------------------------------------------------------------------
(* verify_readiness and verify_smoke.                                      *)

\* A restart run owns no release row, so releaseSnapshotForRun finds none and
\* the step fails before any check is made.
VerifyChecks(s) ==
  /\ Here(s) /\ s \in {"readiness", "smoke"}
  /\ \/ run.op = "restart" /\ run' = Go("over")
     \/ run.op = "deploy" /\ run' = Recover(TRUE)
     \/ run.op = "deploy" /\ Live /\ run' = IF s = "readiness" THEN Go("markReady") ELSE Passed("activate")
  /\ UNCHANGED <<rows, runtime, up, route, faults, fixed>>

\* No check is configured: the step is skipped, which the step table refuses.
SkipChecks(s) ==
  /\ Here(s) /\ s \in {"readiness", "smoke"} /\ run.op = "deploy" /\ Live
  /\ runtime' = IF s = "readiness" /\ run.leased THEN [runtime EXCEPT ![c] = "ready"] ELSE runtime
  /\ End("abandoned")
  /\ UNCHANGED <<rows, up, route, faults, old, counts>>

MarkReady ==
  /\ Here("markReady")
  /\ SetRuntimeState(c, "ready", Live, Passed("smoke"), Go("over"))

---------------------------------------------------------------------------
(* activate.                                                               *)

Unrouted ==
  /\ Here("apply") /\ ~ plan[c].routed
  /\ run' = Go("verify")
  /\ UNCHANGED <<rows, runtime, up, route, faults, fixed>>

\* No proxy or no certificate; or the route is applied; or it is refused and
\* the prior one restored; or that fails too.
ApplyDeploymentRoute ==
  /\ Here("apply") /\ plan[c].routed
  /\ \/ run' = Recover(TRUE) /\ UNCHANGED <<route, faults>>
     \/ Live /\ route' = c /\ run' = [Go("verify") EXCEPT !.snap = {route}] /\ UNCHANGED faults
     \/ Fault(Live) /\ run' = Recover(TRUE) /\ UNCHANGED route
     \/ Fault(Live) /\ run' = Recover(FALSE) /\ route' \in {route, c}
  /\ UNCHANGED <<rows, runtime, up, fixed>>

\* Public checks and VerifyDeploymentRoute.
VerifyActivation ==
  /\ Here("verify")
  /\ \/ Live /\ run' = Go("commit")
     \/ run' = Recover(run.snap = {})
  /\ UNCHANGED <<rows, runtime, up, route, faults, fixed>>

ActivateCandidate ==
  LET accepted == /\ Live /\ run.leased
                  /\ release[c] = "candidate" /\ live = pred[c]
                  /\ runtime[c] \in {"ready", "candidate"} IN
  /\ Here("commit")
  /\ \/ /\ accepted
        /\ release' = [r \in Releases |-> IF r = c THEN "live"
                                          ELSE IF r = live THEN "retained" ELSE release[r]]
        /\ runtime' = [r \in Releases |->
             IF r = c THEN "live"
             ELSE IF r = live /\ runtime[r] \in {"live", "ready", "candidate"} THEN "draining"
             ELSE runtime[r]]
        /\ live' = c
        /\ run' = Passed("retire")
        /\ UNCHANGED faults
     \/ Fault(accepted) /\ run' = Recover(run.snap = {}) /\ UNCHANGED <<release, runtime, live>>
  /\ UNCHANGED <<nrel, plan, pred, up, route, fixed>>

---------------------------------------------------------------------------
(* retire_previous and record_release.                                     *)

SharedComposeProject == plan[pred[c]].kind = "compose" /\ plan[c].kind = "compose"

\* Faulty variant: stops the predecessor's project whoever uses it now.
RetirePrevious_AlwaysStops ==
  /\ Here("retire") /\ HasPrevious
  /\ Stop(pred[c], TRUE, Go("markRetired"), Go("over"))

RetirePrevious ==
  /\ Here("retire") /\ HasPrevious
  /\ IF SharedComposeProject
       THEN run' = Go("markRetired") /\ UNCHANGED <<rows, runtime, up, route, faults, fixed>>
       ELSE Stop(pred[c], TRUE, Go("markRetired"), Go("over"))

\* A first release has nothing to retire: skipped, which the step table refuses.
SkipRetirement ==
  /\ Here("retire") /\ ~ HasPrevious
  /\ End("abandoned")
  /\ UNCHANGED <<rows, runtime, up, route, faults, old, counts>>

MarkPreviousRetired ==
  /\ Here("markRetired")
  /\ SetRuntimeState(pred[c], "retired", TRUE, Passed("record"), Go("over"))

RecordRelease ==
  /\ Here("record") /\ Live
  /\ IF live = c /\ release[c] = "live" /\ runtime[c] = "live"
       THEN End("released")
       ELSE run' = Go("over") /\ UNCHANGED outcome
  /\ UNCHANGED <<rows, runtime, up, route, faults, old, counts>>

---------------------------------------------------------------------------
(* restartLiveRuntime.                                                     *)

RestartStop ==
  /\ Here("restartStop")
  /\ Stop(c, Live, Go("restartMark"), Go("over"))

RestartMark ==
  /\ Here("restartMark")
  /\ SetRuntimeState(c, "stopped", Live, Go("restartStart"), Go("over"))

RestartStart ==
  /\ Here("restartStart")
  /\ StartExisting(c, Live, Go("restartLive"), Go("restartAgain"))

RestartAgain ==
  /\ Here("restartAgain")
  /\ StartExisting(c, TRUE, Go("restartRecover"), Go("over"))

RestartRecover ==
  /\ Here("restartRecover")
  /\ SetRuntimeState(c, "live", TRUE, Go("over"), Go("over"))

RestartLive ==
  /\ Here("restartLive")
  /\ SetRuntimeState(c, "live", Live, Passed("readiness"), Go("over"))

---------------------------------------------------------------------------
(* The end of a step that did not pass, and CleanupCancelledRun.           *)

\* A deadline of the adapter's own in start_candidate counts as cancelled.
StepOver ==
  /\ Here("over")
  /\ \/ run.ctx = "lost" /\ End("abandoned")
     \/ /\ run.ctx = "cancelled" \/ (Live /\ run.step = "start")
        /\ run' = [run EXCEPT !.pc = "cleanup", !.cleaning = TRUE]
        /\ UNCHANGED outcome
     \/ /\ Live
        /\ End(IF run.step = "activate" /\ recoveryComplete THEN "rolled_back" ELSE "failed")
  /\ UNCHANGED <<rows, runtime, up, route, faults, old, counts>>

\* Faulty variant: an unrecorded candidate is taken to be absent.
Cleanup_RecordedOnly ==
  /\ Here("cleanup")
  /\ run' = IF run.op = "restart" THEN Go("cleaned")
            ELSE IF runtime[c] # "none" THEN Recover(TRUE)
            ELSE [Go("restore") EXCEPT !.ev = [NoEvidence EXCEPT !.stopped = TRUE]]
  /\ UNCHANGED <<rows, runtime, up, route, faults, fixed>>

\* The candidate is recorded, or its container has a name to stop it by, or it
\* is a Compose project that the predecessor's replaces.
Cleanup ==
  /\ Here("cleanup")
  /\ run' = IF run.op = "restart" THEN Go("cleaned")
            ELSE IF runtime[c] # "none" THEN Recover(TRUE)
            ELSE [Go(IF plan[c].kind = "container" THEN "dropUnrecorded" ELSE "restore")
                    EXCEPT !.ev = NoEvidence]
  /\ UNCHANGED <<rows, runtime, up, route, faults, fixed>>

DropUnrecorded ==
  /\ Here("dropUnrecorded")
  /\ Stop(c, TRUE, [Go("restore") EXCEPT !.ev.stopped = TRUE], Go("restore"))

CleanupCompleted ==
  \/ run.op = "restart"
  \/ runtime[c] # "none" /\ recoveryComplete
  \/ /\ runtime[c] = "none" /\ run.ev.restored
     /\ IF plan[c].kind = "container" THEN run.ev.stopped ELSE HasPrevious /\ StopFirst

\* The evidence and the final transition need the lease.
Cleaned ==
  /\ Here("cleaned")
  /\ End(IF ~ run.leased THEN "abandoned" ELSE IF CleanupCompleted THEN "cancelled" ELSE "unclean")
  /\ UNCHANGED <<rows, runtime, up, route, faults, old, counts>>

---------------------------------------------------------------------------
(* The surroundings.                                                       *)

Busy == ~ Here("idle")

Cancel ==
  /\ Busy /\ Live /\ ~ run.activating /\ ~ run.cleaning /\ cancels < MaxCancels
  /\ cancels' = cancels + 1
  /\ run' = [run EXCEPT !.ctx = "cancelled"]
  /\ UNCHANGED <<rows, runtime, up, route, faults, outcome, old, crashes, restarts>>

\* The heartbeat fails and cancels the context.
LoseLease ==
  /\ Busy /\ Live /\ crashes < MaxCrashes
  /\ crashes' = crashes + 1
  /\ run' = [run EXCEPT !.ctx = "lost"]
  /\ UNCHANGED <<rows, runtime, up, route, faults, outcome, old, cancels, restarts>>

\* The heartbeat ends with the context; the lease runs out some time later.
Expire ==
  /\ Busy /\ ~ Live /\ run.leased
  /\ run' = [run EXCEPT !.leased = FALSE]
  /\ UNCHANGED <<rows, runtime, up, route, faults, fixed>>

\* Reconciliation later fails the run; it repairs nothing.
Crash ==
  /\ Busy /\ crashes < MaxCrashes
  /\ crashes' = crashes + 1
  /\ End("abandoned")
  /\ UNCHANGED <<rows, runtime, up, route, faults, old, cancels, restarts>>

ActNext ==
  \/ \E p \in Plans : Begin(p)
  \/ BeginRestart \/ Enter \/ Interrupted \/ ReadFails
  \/ StopPrevious \/ MarkStopped \/ Launch \/ RecordCandidateRuntime \/ DropCandidate
  \/ RestorePrevious \/ MarkRestored \/ StopCandidate \/ RestoreDeploymentRoute \/ MarkFailed
  \/ \E s \in {"readiness", "smoke"} : VerifyChecks(s) \/ SkipChecks(s)
  \/ MarkReady \/ Unrouted \/ ApplyDeploymentRoute \/ VerifyActivation \/ ActivateCandidate
  \/ RetirePrevious \/ SkipRetirement \/ MarkPreviousRetired \/ RecordRelease
  \/ RestartStop \/ RestartMark \/ RestartStart \/ RestartAgain \/ RestartRecover \/ RestartLive
  \/ StepOver \/ Cleanup \/ DropUnrecorded \/ Cleaned
  \/ Cancel \/ LoseLease \/ Expire \/ Crash

ActSpec == ActInit /\ [][ActNext]_actVars

---------------------------------------------------------------------------
(* Properties.                                                             *)

\* The release the last run was about, and its predecessor.
Candidate == nrel
Previous == pred[nrel]

\* A run that reports rolled_back has put everything back: the candidate is
\* down, route and live pointer are what they were, and the predecessor serves
\* (recoveryComplete, whatever calls failed on the way).
RolledBackServes ==
  outcome = "rolled_back" =>
    /\ Candidate \notin up
    /\ route = old.route /\ live = old.live
    /\ Previous # 0 /\ (plan[Candidate].strategy = "stop_first" \/ Previous \in old.up)
         => Previous \in up

\* Once record_release has passed, the new release alone serves: it runs, its
\* route leads to it, and its predecessor is down, although the two may share
\* one Compose project.
ReleasedServes ==
  outcome = "released" =>
    /\ live = Candidate /\ Candidate \in up
    /\ plan[Candidate].routed => route = Candidate
    /\ Previous \notin up

\* Under blue/green the release the environment points to runs at all times,
\* whatever fails, is cancelled or crashes: before the cutover the old one, and
\* the new one after it.
BlueGreenNeverDown ==
  /\ old.op = "deploy" /\ plan[Candidate].strategy = "blue_green"
  /\ Previous # 0 /\ Previous \in old.up
  => live \in up

\* Under stop-first the candidate and its predecessor never run together on the
\* volume or port they share, through start, recovery and cleanup, as long as
\* no Docker call has reported a failure (after which the code goes on, and
\* what runs is not known).
StopFirstExclusive ==
  /\ run.op = "deploy" /\ ~ run.doubt /\ StopFirst /\ HasPrevious /\ c \notin old.up
  => ~ {c, pred[c]} \subseteq up

\* A cancelled deployment whose cleanup was recorded as complete has removed
\* its candidate, restored a stop-first predecessor and not touched the route.
CancelledClean ==
  /\ outcome = "cancelled" /\ old.op = "deploy"
  /\ plan[Candidate].kind = "compose" => Previous # 0 /\ plan[Previous].kind = "compose"
  => /\ Candidate \notin up
     /\ route = old.route /\ live = old.live
     /\ Previous # 0 /\ plan[Candidate].strategy = "stop_first" => Previous \in up

---------------------------------------------------------------------------
(* What the documentation says and the code does not do.                   *)

\* A cancelled candidate is removed, whatever its predecessor was.
CancelledCandidateRemoved ==
  outcome = "cancelled" /\ old.op = "deploy" => Candidate \notin up

\* A restart stops, starts and rechecks the live runtime: it fails for a cause.
RestartFailsForCause ==
  outcome = "failed" /\ old.op = "restart" => faults > 0

---------------------------------------------------------------------------
(* What makes these inductive: where a run stands and what that implies.   *)

At(S) == run.pc \in S
Between(s) == Here("boundary") /\ run.step = s
CutOver == run.step \in {"retire", "record"}
RestartSteps == {"restartStop", "restartMark", "restartStart", "restartAgain", "restartLive",
                 "restartRecover"}

\* A run knows its release and what was there before it; an outcome belongs to
\* a run that is over.
RunIdentity ==
  /\ Busy => /\ c \in 1..nrel /\ old.op = run.op /\ run.op # "none" /\ outcome = "none"
             /\ run.op = "deploy" => c = nrel /\ pred[c] = old.live /\ old.live < c
  /\ ~ Busy => run.op = "none"
  /\ At({"cleanup", "dropUnrecorded", "cleaned"}) => run.cleaning
  /\ run.cleaning => At({"cleanup", "dropUnrecorded", "stopCandidate", "unroute", "restore",
                         "markRestored", "markFailed", "cleaned"})

\* A restart goes no further than the readiness check.
RestartPlace ==
  /\ run.op = "restart" =>
       /\ At(RestartSteps \cup {"boundary", "readiness", "over", "cleanup", "cleaned"})
       /\ run.step \in {"start", "readiness"} /\ ~ run.activating
  /\ At(RestartSteps) => run.op = "restart"

\* The cutover divides a deployment: before it nothing the outside sees has
\* changed, after it the candidate serves and no cancellation gets through.
CutoverPlace ==
  run.op = "deploy" =>
    /\ At({"apply", "verify", "commit"}) => run.activating /\ run.step = "activate"
    /\ At({"retire", "markRetired"}) => run.step = "retire"
    /\ Here("record") => run.step = "record"
    /\ At({"readiness", "markReady"}) => run.step = "readiness"
    /\ Here("smoke") => run.step = "smoke"
    /\ At({"stopPrevious", "markStopped", "launch", "recordRuntime", "dropCandidate"})
         => run.step = "start"
    /\ CutOver => At({"boundary", "retire", "markRetired", "record", "over"}) /\ run.activating
    /\ run.activating => /\ run.step = "activate" \/ CutOver
                         /\ run.ctx # "cancelled" /\ ~ run.cleaning /\ ~ Between("activate")
    /\ live = IF CutOver THEN c ELSE old.live
    /\ CutOver => c \in up /\ (plan[c].routed => route = c)
    /\ run.step # "start" => runtime[c] # "none"

\* The route, the snapshot to restore it from and the evidence that it was.
RoutePlace ==
  run.op = "deploy" =>
    /\ ~ run.activating \/ Here("apply") => route = old.route /\ run.snap = {}
    /\ At({"verify", "commit"}) =>
         IF plan[c].routed THEN route = c /\ run.snap = {old.route}
                           ELSE route = old.route /\ run.snap = {}
    /\ run.snap \subseteq {old.route}
    /\ run.ev.routed => route = old.route

\* What the evidence of a recovery stands for.
EvidencePlace ==
  run.op = "deploy" =>
    /\ run.ev # NoEvidence => At({"stopCandidate", "unroute", "restore", "markRestored",
                                  "markFailed", "over", "cleanup", "cleaned"})
    /\ run.ev.stopped => c \notin up
    /\ run.ev.restored => /\ At({"markFailed", "over", "cleanup", "cleaned"})
                          /\ HasPrevious /\ StopFirst => pred[c] \in up
    /\ Here("markRestored") => pred[c] \in up
    /\ At({"stopPrevious", "markStopped", "markRestored"}) => HasPrevious /\ StopFirst
    /\ Here("markRetired") => HasPrevious

\* Which runtimes are up where.
ServingPlace ==
  run.op = "deploy" =>
    /\ \/ At({"recordRuntime", "readiness", "markReady", "smoke", "apply", "verify", "commit"})
       \/ Here("boundary") /\ run.step # "start"
       => c \in up
    /\ At({"stopPrevious", "markStopped", "launch"}) \/ Between("start") => c \notin up
    /\ At({"markRetired", "record"}) \/ Between("record") => pred[c] \notin up

\* A Compose project runs one release at a time.
ComposeOnce ==
  \A r, s \in up : plan[r].kind = "compose" /\ plan[s].kind = "compose" => r = s

\* Until a Docker call reports a failure, stop-first keeps the two apart.
ExclusivePlace ==
  run.op = "deploy" /\ ~ run.doubt /\ StopFirst /\ HasPrevious =>
    /\ At({"markStopped", "launch"}) => pred[c] \notin up
    /\ c \in up => pred[c] \notin up
    /\ At({"unroute", "restore", "markRestored"}) => c \notin up
    /\ c \in up => runtime[c] # "none" \/ At({"recordRuntime", "dropCandidate"})

RolloutPlace ==
  /\ RunIdentity
  /\ RestartPlace
  /\ CutoverPlace
  /\ RoutePlace
  /\ EvidencePlace
  /\ ServingPlace
  /\ ComposeOnce
  /\ ExclusivePlace

\* What a rollout keeps at every step, whatever is cancelled, fails or crashes.
RolloutInv ==
  /\ ActTypeOK
  /\ RolloutPlace
  /\ RolledBackServes
  /\ ReleasedServes
  /\ BlueGreenNeverDown
  /\ StopFirstExclusive
  /\ CancelledClean
===========================================================================
