-------------------------- MODULE DeploymentProofs --------------------------
(***************************************************************************)
(* What a deployment goes through keeps its promises, for every value of   *)
(* the constants: the preparation of a release and the cleanup of old ones *)
(* (ReleasePreparation), its rollout (Activation), the health shown for it *)
(* (HealthChecks) and the removal of what it left (Removal).  The plan and *)
(* the configuration it starts from are PlanningProofs' subject.           *)
(***************************************************************************)
EXTENDS Activation, ReleasePreparation, HealthChecks, Removal,
        FiniteSetTheorems, SequenceTheorems, WellFoundedInduction, TLAPS

---------------------------------------------------------------------------
(* The forms in which an action changes the run.                           *)

\* What none of the forms below changes.
KeptRun ==
  /\ run'.op = run.op /\ run'.c = run.c /\ run'.ctx = run.ctx /\ run'.leased = run.leased
  /\ run'.activating = run.activating /\ run'.cleaning = run.cleaning

LEMMA GoRun ==
  ASSUME run \in Run, NEW p \in PCs, run' = Go(p)
  PROVE  /\ run' \in Run /\ KeptRun /\ run'.pc = p
         /\ run'.step = run.step /\ run'.ev = run.ev /\ run'.doubt = run.doubt
         /\ run'.snap = run.snap
  BY DEF Run, Go, KeptRun

LEMMA DoubtRun ==
  ASSUME run \in Run, NEW p \in PCs, run' = [Go(p) EXCEPT !.doubt = TRUE]
  PROVE  /\ run' \in Run /\ KeptRun /\ run'.pc = p
         /\ run'.step = run.step /\ run'.ev = run.ev /\ run'.doubt
         /\ run'.snap = run.snap
  BY DEF Run, Go, KeptRun

LEMMA StoppedRun ==
  ASSUME run \in Run, NEW p \in PCs, run' = [Go(p) EXCEPT !.ev.stopped = TRUE]
  PROVE  /\ run' \in Run /\ KeptRun /\ run'.pc = p
         /\ run'.step = run.step /\ run'.ev = [run.ev EXCEPT !.stopped = TRUE]
         /\ run'.doubt = run.doubt /\ run'.snap = run.snap
  BY DEF Run, RecoveryEvidence, Go, KeptRun

LEMMA RoutedRun ==
  ASSUME run \in Run, NEW p \in PCs, run' = [Go(p) EXCEPT !.ev.routed = TRUE]
  PROVE  /\ run' \in Run /\ KeptRun /\ run'.pc = p
         /\ run'.step = run.step /\ run'.ev = [run.ev EXCEPT !.routed = TRUE]
         /\ run'.doubt = run.doubt /\ run'.snap = run.snap
  BY DEF Run, RecoveryEvidence, Go, KeptRun

LEMMA RestoredRun ==
  ASSUME run \in Run, NEW b \in BOOLEAN, run' = Restored(b)
  PROVE  /\ run' \in Run /\ KeptRun /\ run'.pc = AfterRestore
         /\ run'.step = run.step /\ run'.ev = [run.ev EXCEPT !.restored = b]
         /\ run'.doubt = run.doubt /\ run'.snap = run.snap
  BY DEF Run, RecoveryEvidence, Restored, KeptRun, AfterRestore, PCs

LEMMA RestoredDoubtRun ==
  ASSUME run \in Run, NEW b \in BOOLEAN, run' = [Restored(b) EXCEPT !.doubt = TRUE]
  PROVE  /\ run' \in Run /\ KeptRun /\ run'.pc = AfterRestore
         /\ run'.step = run.step /\ run'.ev = [run.ev EXCEPT !.restored = b]
         /\ run'.doubt /\ run'.snap = run.snap
  BY DEF Run, RecoveryEvidence, Restored, KeptRun, AfterRestore, PCs

LEMMA RecoverRun ==
  ASSUME run \in Run, NEW b \in BOOLEAN, run' = Recover(b)
  PROVE  /\ run' \in Run /\ KeptRun /\ run'.pc = "stopCandidate"
         /\ run'.step = run.step /\ run'.ev = [NoEvidence EXCEPT !.routed = b]
         /\ run'.doubt = run.doubt /\ run'.snap = run.snap
  BY DEF Run, RecoveryEvidence, NoEvidence, Recover, KeptRun, PCs

LEMMA PassedRun ==
  ASSUME run \in Run, NEW s \in Keys, run' = Passed(s)
  PROVE  /\ run' \in Run /\ KeptRun /\ run'.pc = "boundary"
         /\ run'.step = s /\ run'.ev = run.ev
         /\ run'.doubt = run.doubt /\ run'.snap = run.snap
  BY DEF Run, Passed, KeptRun, PCs

LEMMA OverRun ==
  ASSUME run \in Run, run' = [run EXCEPT !.pc = "over", !.ev = NoEvidence]
  PROVE  /\ run' \in Run /\ KeptRun /\ run'.pc = "over"
         /\ run'.step = run.step /\ run'.ev = NoEvidence
         /\ run'.doubt = run.doubt /\ run'.snap = run.snap
  BY DEF Run, RecoveryEvidence, NoEvidence, KeptRun, PCs

\* RecoveryEvidence, field by field.
LEMMA EvidenceFields ==
  ASSUME NEW e \in RecoveryEvidence, NEW b \in BOOLEAN
  PROVE  /\ [e EXCEPT !.stopped = b].stopped = b /\ [e EXCEPT !.stopped = b].routed = e.routed
         /\ [e EXCEPT !.stopped = b].restored = e.restored
         /\ [e EXCEPT !.routed = b].stopped = e.stopped /\ [e EXCEPT !.routed = b].routed = b
         /\ [e EXCEPT !.routed = b].restored = e.restored
         /\ [e EXCEPT !.restored = b].stopped = e.stopped
         /\ [e EXCEPT !.restored = b].routed = e.routed
         /\ [e EXCEPT !.restored = b].restored = b
         /\ NoEvidence \in RecoveryEvidence
         /\ ~ NoEvidence.stopped /\ ~ NoEvidence.routed /\ ~ NoEvidence.restored
  BY DEF RecoveryEvidence, NoEvidence

---------------------------------------------------------------------------
(* Steps inside a run.                                                     *)

\* The run goes on and stays the run it is.
Inside ==
  /\ Busy /\ run' \in Run /\ run'.pc # "idle" /\ run'.op = run.op /\ run'.c = run.c
  /\ UNCHANGED <<nrel, plan, pred, old, outcome>>
  /\ cancels' \in 0..MaxCancels /\ crashes' \in 0..MaxCrashes /\ restarts' \in 0..MaxRestarts

\* What the store, Docker and the proxy hold is well-typed after the step.
TypedAfter ==
  /\ release' \in [Releases -> ReleaseStates] /\ runtime' \in [Releases -> RuntimeStates]
  /\ live' \in 0..nrel /\ up' \subseteq 1..nrel /\ route' \in 0..nrel
  /\ faults' \in 0..MaxFaults

\* Inside a run no outcome is on record: what is left to show of RolloutInv is
\* where the run stands and that blue/green never leaves the environment down.
LEMMA InsideInv ==
  ASSUME RolloutInv, Inside, TypedAfter, RolloutPlace', BlueGreenNeverDown'
  PROVE  RolloutInv'
<1>1. ActTypeOK' BY DEF RolloutInv, ActTypeOK, Inside, TypedAfter
<1>2. outcome' = "none" BY DEF RolloutInv, RolloutPlace, RunIdentity, Inside
<1>3. StopFirstExclusive'
  BY DEF RolloutPlace, ExclusivePlace, StopFirstExclusive, Inside
<1>4. RolledBackServes' /\ ReleasedServes' /\ CancelledClean'
  BY <1>2 DEF RolledBackServes, ReleasedServes, CancelledClean
<1> QED BY <1>1, <1>3, <1>4 DEF RolloutInv

\* A fault is counted within its bound.
LEMMA FaultTyped ==
  ASSUME faults \in 0..MaxFaults, NEW alive, Fault(alive) \/ UNCHANGED faults
  PROVE  faults' \in 0..MaxFaults
  BY ActivationAssumption DEF Fault

\* The facts about the state that every step starts from.
LEMMA RunFacts ==
  ASSUME RolloutInv, Busy
  PROVE  /\ run \in Run /\ c \in Releases /\ c \in 1..nrel /\ nrel \in Nat
         /\ run.op \in {"deploy", "restart"} /\ outcome = "none"
         /\ run.op = "deploy" => /\ pred[c] = old.live /\ old.live < c /\ c = nrel
                                 /\ pred[c] # 0 => pred[c] \in 1..nrel /\ pred[c] # c
         /\ run.ev \in RecoveryEvidence /\ run.cleaning \in BOOLEAN /\ run.doubt \in BOOLEAN
  BY ActivationAssumption
     DEF RolloutInv, ActTypeOK, Run, RolloutPlace, RunIdentity, Releases, c, Ops

\* Where the run stands, without the part about Compose projects.
Places ==
  /\ RunIdentity /\ RestartPlace /\ CutoverPlace /\ RoutePlace /\ EvidencePlace
  /\ ServingPlace /\ ExclusivePlace

\* A step that leaves what runs, what is live and where traffic goes alone.
LEMMA QuietInv ==
  ASSUME RolloutInv, Inside, UNCHANGED <<release, live, up, route>>,
         runtime' \in [Releases -> RuntimeStates], faults' \in 0..MaxFaults, Places'
  PROVE  RolloutInv'
<1>1. TypedAfter BY DEF TypedAfter, RolloutInv, ActTypeOK
<1>2. ComposeOnce' BY DEF RolloutInv, RolloutPlace, ComposeOnce, Inside
<1>3. RolloutPlace' BY <1>2 DEF RolloutPlace, Places
<1>4. BlueGreenNeverDown'
  BY DEF RolloutInv, BlueGreenNeverDown, Candidate, Previous, Inside
<1> QED BY <1>1, <1>3, <1>4, InsideInv

\* SetRuntimeState creates no row and deletes none.
LEMMA StateSet ==
  ASSUME RolloutInv, NEW r \in Releases, NEW st \in RuntimeStates \ {"none"}, NEW alive,
         NEW ok, NEW bad, SetRuntimeState(r, st, alive, ok, bad)
  PROVE  /\ run' \in {ok, bad} /\ UNCHANGED <<rows, up, route, fixed>>
         /\ runtime' \in [Releases -> RuntimeStates]
         /\ \A x \in Releases : runtime'[x] = "none" <=> runtime[x] = "none"
         /\ faults' \in 0..MaxFaults
<1>1. faults \in 0..MaxFaults /\ runtime \in [Releases -> RuntimeStates]
  BY DEF RolloutInv, ActTypeOK
<1>2. faults' \in 0..MaxFaults BY <1>1, ActivationAssumption DEF SetRuntimeState, Fault
<1>3. \/ runtime' = [runtime EXCEPT ![r] = st] /\ runtime[r] # "none" /\ run' = ok
      \/ runtime' = runtime /\ run' = bad
  BY DEF SetRuntimeState
<1>4. \A x \in Releases : runtime'[x] = "none" <=> runtime[x] = "none" BY <1>1, <1>3
<1>5. runtime' \in [Releases -> RuntimeStates] BY <1>1, <1>3
<1> QED BY <1>2, <1>3, <1>4, <1>5 DEF SetRuntimeState

\* All releases of a project are Compose releases, but for a container's own.
LEMMA ProjectMembers ==
  ASSUME NEW r \in Releases
  PROVE  /\ r \in Project(r)
         /\ \A x \in Project(r) : x = r \/ (plan[r].kind = "compose" /\ plan[x].kind = "compose")
         /\ \A x \in Releases : plan[r].kind = "compose" /\ plan[x].kind = "compose" => x \in Project(r)
  BY DEF Project

\* Stopping and starting a release touch only its project.
Apart(x, r) == x # r /\ ~ (plan[r].kind = "compose" /\ plan[x].kind = "compose")

LEMMA StopLeaves ==
  ASSUME RolloutInv, NEW r \in 1..nrel, up' \in {up, WithoutUp(r)}, UNCHANGED <<nrel, plan>>
  PROVE  /\ up' \subseteq up /\ up' \subseteq 1..nrel
         /\ up' = WithoutUp(r) => r \notin up'
         /\ \A x \in up : Apart(x, r) => x \in up'
         /\ ComposeOnce'
<1>1. r \in Releases /\ up \subseteq 1..nrel
  BY ActivationAssumption DEF RolloutInv, ActTypeOK, Releases
<1>2. up' \subseteq up BY DEF WithoutUp
<1>3. ComposeOnce' BY <1>2 DEF RolloutInv, RolloutPlace, ComposeOnce
<1> QED BY <1>1, <1>2, <1>3, ProjectMembers DEF WithoutUp, Apart

LEMMA StartAdds ==
  ASSUME RolloutInv, NEW r \in 1..nrel, up' \in {up, WithUp(r)}, UNCHANGED <<nrel, plan>>
  PROVE  /\ up' \subseteq up \cup {r} /\ up' \subseteq 1..nrel
         /\ up' = WithUp(r) => r \in up'
         /\ \A x \in up : Apart(x, r) => x \in up'
         /\ ComposeOnce'
<1>1. r \in Releases /\ up \subseteq 1..nrel /\ up \subseteq Releases
  BY ActivationAssumption DEF RolloutInv, ActTypeOK, Releases
<1>2. up' \subseteq up \cup {r} BY DEF WithUp
<1>3. ComposeOnce'
  <2>1. CASE up' = up BY <2>1 DEF RolloutInv, RolloutPlace, ComposeOnce
  <2>2. CASE up' = WithUp(r)
    <3>1. ASSUME NEW x \in up', x # r, plan[x].kind = "compose", plan[r].kind = "compose"
          PROVE  FALSE
      <4>1. x \in up /\ x \notin Project(r) BY <2>2, <3>1 DEF WithUp
      <4> QED BY <4>1, <3>1, <1>1, ProjectMembers
    <3>2. \A x \in up' : x = r \/ x \in up BY <1>2
    <3> QED BY <3>1, <3>2 DEF RolloutInv, RolloutPlace, ComposeOnce
  <2> QED BY <2>1, <2>2
<1>4. \A x \in up : Apart(x, r) => x \in up' BY <1>1, ProjectMembers DEF WithUp, Apart
<1> QED BY <1>1, <1>2, <1>3, <1>4 DEF WithUp

\* A step that changes only what runs.
LEMMA UpInv ==
  ASSUME RolloutInv, Inside, UNCHANGED <<release, live, runtime, route>>,
         faults' \in 0..MaxFaults, up' \subseteq 1..nrel, ComposeOnce', Places',
         BlueGreenNeverDown'
  PROVE  RolloutInv'
<1>1. TypedAfter BY DEF TypedAfter, RolloutInv, ActTypeOK
<1>2. RolloutPlace' BY DEF RolloutPlace, Places
<1> QED BY <1>1, <1>2, InsideInv

\* A blue/green release is a container, so no project is shared with it.
LEMMA BlueGreenKept ==
  ASSUME RolloutInv, Inside, live' = live,
         run.op = "deploy" /\ plan[c].strategy = "blue_green" /\ live # 0 /\ live \in up => live \in up'
  PROVE  BlueGreenNeverDown'
  BY RunFacts DEF RolloutInv, BlueGreenNeverDown, Candidate, Previous, Inside, ActTypeOK, c,
     RolloutPlace, RunIdentity

---------------------------------------------------------------------------
(* One lemma per action.  In each, <1>2 says what the step changes and the *)
(* last steps that the run then stands where it should.                    *)

USE DEF Here, At, Between, CutOver, RestartSteps, HasPrevious, StopFirst, Busy, Live, c

LEMMA UnroutedInv ==
  ASSUME RolloutInv, Unrouted
  PROVE  RolloutInv'
<1> USE DEF RolloutInv
<1>1. run \in Run /\ run.pc = "apply" /\ ~ plan[c].routed /\ run' = Go("verify")
  BY DEF Unrouted, ActTypeOK
<1>2. UNCHANGED <<rows, runtime, up, route, faults, fixed>> BY DEF Unrouted
<1>3. /\ run' \in Run /\ KeptRun /\ run'.pc = "verify" /\ run'.step = run.step
      /\ run'.ev = run.ev /\ run'.doubt = run.doubt /\ run'.snap = run.snap
  BY <1>1, GoRun DEF PCs
<1>4. Inside BY <1>1, <1>2, <1>3 DEF Inside, KeptRun, rows, fixed, counts, ActTypeOK
<1>5. Places'
  BY <1>1, <1>2, <1>3 DEF rows, fixed, KeptRun, RolloutPlace, Places, RunIdentity, RestartPlace,
     CutoverPlace, RoutePlace, EvidencePlace, ServingPlace, ExclusivePlace
<1> QED BY <1>2, <1>4, <1>5, QuietInv DEF rows, ActTypeOK

LEMMA StopPreviousInv ==
  ASSUME RolloutInv, StopPrevious
  PROVE  RolloutInv'
<1> USE DEF RolloutInv
<1>1. run \in Run /\ run.pc = "stopPrevious" /\ run.op = "deploy"
  BY RunFacts DEF StopPrevious, ActTypeOK, RolloutPlace, RestartPlace
<1>2. /\ \/ up' = WithoutUp(pred[c]) /\ run' = Go("markStopped")
         \/ up' \in {up, WithoutUp(pred[c])} /\ run' = [Go("restore") EXCEPT !.doubt = TRUE]
      /\ UNCHANGED <<rows, runtime, route, fixed>> /\ faults' \in 0..MaxFaults
  BY FaultTyped DEF StopPrevious, Stop, DockerCall, ActTypeOK, Fault
<1>3. /\ HasPrevious /\ StopFirst /\ pred[c] \in 1..nrel /\ pred[c] # c /\ c \notin up
  BY <1>1, RunFacts DEF RolloutPlace, EvidencePlace, ServingPlace
<1>4. /\ up' \subseteq up /\ up' \subseteq 1..nrel /\ ComposeOnce'
      /\ up' = WithoutUp(pred[c]) => pred[c] \notin up'
  BY <1>2, <1>3, StopLeaves DEF rows
<1>5. /\ run' \in Run /\ KeptRun /\ run'.step = run.step /\ run'.ev = run.ev /\ run'.snap = run.snap
      /\ \/ run'.pc = "markStopped" /\ pred[c] \notin up' /\ run'.doubt = run.doubt
         \/ run'.pc = "restore" /\ run'.doubt
  BY <1>1, <1>2, <1>4, GoRun, DoubtRun DEF PCs
<1>6. Inside BY <1>1, <1>2, <1>5 DEF Inside, KeptRun, rows, fixed, counts, ActTypeOK
<1>7. Places'
  BY <1>1, <1>2, <1>3, <1>4, <1>5 DEF rows, fixed, KeptRun, RolloutPlace, Places, RunIdentity,
     RestartPlace, CutoverPlace, RoutePlace, EvidencePlace, ServingPlace, ExclusivePlace
<1>8. BlueGreenNeverDown' BY <1>2, <1>3, <1>6, BlueGreenKept DEF rows
<1> QED BY <1>2, <1>4, <1>6, <1>7, <1>8, UpInv DEF rows

LEMMA MarkStoppedInv ==
  ASSUME RolloutInv, MarkStopped
  PROVE  RolloutInv'
<1> USE DEF RolloutInv
<1>1. run \in Run /\ run.pc = "markStopped" /\ run.op = "deploy"
  BY RunFacts DEF MarkStopped, ActTypeOK, RolloutPlace, RestartPlace
<1>2. /\ HasPrevious /\ StopFirst /\ pred[c] \in 1..nrel /\ pred[c] \in Releases /\ c \notin up
      /\ c \in Releases
  BY <1>1, RunFacts, ActivationAssumption
     DEF RolloutPlace, EvidencePlace, ServingPlace, ActTypeOK, Releases
<1>3. /\ run' \in {Go("launch"), Go("restore")} /\ UNCHANGED <<rows, up, route, fixed>>
      /\ runtime' \in [Releases -> RuntimeStates] /\ faults' \in 0..MaxFaults
      /\ \A x \in Releases : runtime'[x] = "none" <=> runtime[x] = "none"
  BY <1>2, StateSet DEF MarkStopped, RuntimeStates
<1>4. /\ run' \in Run /\ KeptRun /\ run'.step = run.step /\ run'.ev = run.ev
      /\ run'.snap = run.snap /\ run'.doubt = run.doubt /\ run'.pc \in {"launch", "restore"}
  BY <1>1, <1>3, GoRun DEF PCs
<1>5. Inside BY <1>1, <1>3, <1>4 DEF Inside, KeptRun, rows, fixed, counts, ActTypeOK
<1>6. Places'
  BY <1>1, <1>2, <1>3, <1>4 DEF rows, fixed, KeptRun, RolloutPlace, Places, RunIdentity,
     RestartPlace, CutoverPlace, RoutePlace, EvidencePlace, ServingPlace, ExclusivePlace
<1> QED BY <1>3, <1>5, <1>6, QuietInv DEF rows

\* Enter: the adapter of the next step begins.
LEMMA EnterInv ==
  ASSUME RolloutInv, Enter
  PROVE  RolloutInv'
<1> USE DEF RolloutInv
<1>1. run \in Run /\ run.pc = "boundary" /\ run.ctx = "live" BY DEF Enter, ActTypeOK
<1>2. /\ run' = [run EXCEPT !.pc = Entry(run.step), !.activating = @ \/ run.step = "activate"]
      /\ UNCHANGED <<rows, runtime, up, route, faults, fixed>>
  BY DEF Enter
<1>3. /\ Entry(run.step) \in PCs /\ Entry(run.step) \notin {"idle", "over", "boundary"}
      /\ Entry(run.step) =
           CASE run.step = "start" -> IF run.op = "restart" THEN "restartStop"
                                      ELSE IF StopFirst /\ HasPrevious THEN "stopPrevious" ELSE "launch"
             [] run.step = "activate" -> "apply"
             [] OTHER -> run.step
  BY <1>1 DEF Run, Keys, PCs, Entry
<1>4. /\ run' \in Run /\ run'.op = run.op /\ run'.c = run.c /\ run'.ctx = run.ctx
      /\ run'.leased = run.leased /\ run'.cleaning = run.cleaning /\ run'.step = run.step
      /\ run'.ev = run.ev /\ run'.doubt = run.doubt /\ run'.snap = run.snap
      /\ run'.pc = Entry(run.step) /\ run'.activating = (run.activating \/ run.step = "activate")
  BY <1>1, <1>2, <1>3 DEF Run
<1>5. Inside BY <1>1, <1>2, <1>3, <1>4 DEF Inside, rows, fixed, counts, ActTypeOK
<1>6. run.step \in Keys BY <1>1 DEF Run
<1>7. CASE run.op = "restart"
  <2>1. run'.pc \in {"restartStop", "readiness"} /\ run'.activating = FALSE
    BY <1>3, <1>4, <1>7, <1>1 DEF RolloutPlace, RestartPlace, Run
  <2>2. Places'
    BY <2>1, <1>1, <1>2, <1>4, <1>7 DEF rows, fixed, RolloutPlace, Places, RunIdentity,
       RestartPlace, CutoverPlace, RoutePlace, EvidencePlace, ServingPlace, ExclusivePlace
  <2> QED BY <2>2, <1>2, <1>5, QuietInv DEF rows, ActTypeOK
<1>8. CASE run.op = "deploy" /\ run.step = "start"
  <2>1. /\ run'.pc \in {"stopPrevious", "launch"} /\ run'.activating = run.activating
        /\ run'.pc = "launch" => ~ (StopFirst /\ HasPrevious)
        /\ run'.pc = "stopPrevious" => StopFirst /\ HasPrevious
    BY <1>1, <1>3, <1>4, <1>8 DEF Run
  <2>2. Places'
    BY <2>1, <1>1, <1>2, <1>4, <1>8 DEF rows, fixed, RolloutPlace, Places, RunIdentity,
       RestartPlace, CutoverPlace, RoutePlace, EvidencePlace, ServingPlace, ExclusivePlace
  <2> QED BY <2>2, <1>2, <1>5, QuietInv DEF rows, ActTypeOK
<1>9. CASE run.op = "deploy" /\ run.step = "activate"
  <2>1. run'.pc = "apply" /\ run'.activating BY <1>1, <1>3, <1>4, <1>9
  <2>2. Places'
    BY <2>1, <1>1, <1>2, <1>4, <1>9 DEF rows, fixed, RolloutPlace, Places, RunIdentity,
       RestartPlace, CutoverPlace, RoutePlace, EvidencePlace, ServingPlace, ExclusivePlace
  <2> QED BY <2>2, <1>2, <1>5, QuietInv DEF rows, ActTypeOK
<1>10. CASE run.op = "deploy" /\ run.step \in {"readiness", "smoke", "retire", "record"}
  <2>1. run'.pc = run.step BY <1>1, <1>3, <1>4, <1>10
  <2>2. run'.activating = run.activating BY <1>1, <1>4, <1>10 DEF Run
  <2>3. Places'
    BY <2>1, <2>2, <1>1, <1>2, <1>4, <1>10 DEF rows, fixed, RolloutPlace, Places, RunIdentity,
       RestartPlace, CutoverPlace, RoutePlace, EvidencePlace, ServingPlace, ExclusivePlace
  <2> QED BY <2>3, <1>2, <1>5, QuietInv DEF rows, ActTypeOK
<1> QED BY <1>1, <1>6, <1>7, <1>8, <1>9, <1>10, RunFacts DEF Keys

\* ReadFails: the step is over and there is nothing to recover from.
LEMMA ReadFailsInv ==
  ASSUME RolloutInv, ReadFails
  PROVE  RolloutInv'
<1> USE DEF RolloutInv
<1>1. /\ run \in Run
      /\ run.pc \in {"stopPrevious", "readiness", "smoke", "apply", "retire", "record", "restartStop"}
  BY DEF ReadFails, ActTypeOK
<1>2. /\ run' = [run EXCEPT !.pc = "over", !.ev = NoEvidence]
      /\ UNCHANGED <<rows, runtime, up, route, fixed>> /\ faults' \in 0..MaxFaults
  BY FaultTyped DEF ReadFails, ActTypeOK
<1>3. /\ run' \in Run /\ KeptRun /\ run'.pc = "over" /\ run'.step = run.step
      /\ run'.ev = NoEvidence /\ run'.doubt = run.doubt /\ run'.snap = run.snap
  BY <1>1, <1>2, OverRun
<1>4. ~ NoEvidence.stopped /\ ~ NoEvidence.routed /\ ~ NoEvidence.restored BY DEF NoEvidence
<1>5. Inside BY <1>1, <1>2, <1>3 DEF Inside, KeptRun, rows, fixed, counts, ActTypeOK
<1>6. Places'
  BY <1>1, <1>2, <1>3, <1>4 DEF rows, fixed, KeptRun, RolloutPlace, Places,
     RunIdentity, RestartPlace, CutoverPlace, RoutePlace, EvidencePlace, ServingPlace, ExclusivePlace
<1> QED BY <1>2, <1>5, <1>6, QuietInv DEF rows, ActTypeOK

\* RecordCandidateRuntime: the row is written, or the candidate is dropped.
LEMMA RecordRuntimeInv ==
  ASSUME RolloutInv, RecordCandidateRuntime
  PROVE  RolloutInv'
<1> USE DEF RolloutInv
<1>1. run \in Run /\ run.pc = "recordRuntime" /\ run.op = "deploy" /\ c \in Releases
  BY RunFacts DEF RecordCandidateRuntime, ActTypeOK, RolloutPlace, RestartPlace
<1>2. /\ \/ runtime' = [runtime EXCEPT ![c] = "candidate"] /\ run' = Passed("readiness")
         \/ runtime' = runtime /\ run' = Go("dropCandidate")
      /\ UNCHANGED <<rows, up, route, fixed>> /\ faults' \in 0..MaxFaults
  BY FaultTyped DEF RecordCandidateRuntime, ActTypeOK
<1>3. /\ runtime' \in [Releases -> RuntimeStates]
      /\ run' \in Run /\ KeptRun /\ run'.ev = run.ev /\ run'.doubt = run.doubt /\ run'.snap = run.snap
      /\ \/ run'.pc = "boundary" /\ run'.step = "readiness" /\ runtime'[c] = "candidate"
         \/ run'.pc = "dropCandidate" /\ run'.step = run.step /\ runtime' = runtime
  BY <1>1, <1>2, GoRun, PassedRun DEF PCs, Keys, ActTypeOK, RuntimeStates
<1>4. Inside BY <1>1, <1>2, <1>3 DEF Inside, KeptRun, rows, fixed, counts, ActTypeOK
<1>5. Places'
  BY <1>1, <1>2, <1>3 DEF rows, fixed, KeptRun, RolloutPlace, Places,
     RunIdentity, RestartPlace, CutoverPlace, RoutePlace, EvidencePlace, ServingPlace, ExclusivePlace
<1> QED BY <1>2, <1>3, <1>4, <1>5, QuietInv DEF rows

\* MarkRestored: the predecessor runs, and its row says so or not.
LEMMA MarkRestoredInv ==
  ASSUME RolloutInv, MarkRestored
  PROVE  RolloutInv'
<1> USE DEF RolloutInv
<1>1. run \in Run /\ run.pc = "markRestored" /\ run.op = "deploy" /\ run.ev \in RecoveryEvidence
  BY RunFacts DEF MarkRestored, ActTypeOK, RolloutPlace, RestartPlace
<1>2. /\ HasPrevious /\ StopFirst /\ pred[c] \in Releases /\ pred[c] \in up /\ c \in Releases
  BY <1>1, RunFacts, ActivationAssumption DEF RolloutPlace, EvidencePlace, ActTypeOK, Releases
<1>3. /\ run' \in {Restored(TRUE), Restored(FALSE)} /\ UNCHANGED <<rows, up, route, fixed>>
      /\ runtime' \in [Releases -> RuntimeStates] /\ faults' \in 0..MaxFaults
      /\ \A x \in Releases : runtime'[x] = "none" <=> runtime[x] = "none"
  BY <1>2, StateSet DEF MarkRestored, RuntimeStates
<1>4. PICK b \in BOOLEAN : run' = Restored(b) BY <1>3
<1>5. /\ run' \in Run /\ KeptRun /\ run'.step = run.step /\ run'.snap = run.snap
      /\ run'.doubt = run.doubt /\ run'.pc = AfterRestore
      /\ run'.ev = [run.ev EXCEPT !.restored = b]
  BY <1>1, <1>4, RestoredRun
<1>6. run'.ev.stopped = run.ev.stopped /\ run'.ev.routed = run.ev.routed /\ run'.ev.restored = b
  BY <1>1, <1>5, EvidenceFields
<1>7. /\ run'.pc \in {"over", "cleaned", "markFailed"}
      /\ run'.pc = "cleaned" => run.cleaning
      /\ run'.pc = "over" => ~ run.cleaning
  BY <1>1, <1>5 DEF AfterRestore, RolloutPlace, CutoverPlace
<1>8. Inside BY <1>1, <1>3, <1>5, <1>7 DEF Inside, KeptRun, rows, fixed, counts, ActTypeOK
<1>9. Places'
  BY <1>1, <1>2, <1>3, <1>5, <1>6, <1>7 DEF rows, fixed, KeptRun, RolloutPlace, Places,
     RunIdentity, RestartPlace, CutoverPlace, RoutePlace, EvidencePlace, ServingPlace, ExclusivePlace
<1> QED BY <1>3, <1>8, <1>9, QuietInv DEF rows

LEMMA MarkFailedInv ==
  ASSUME RolloutInv, MarkFailed
  PROVE  RolloutInv'
<1> USE DEF RolloutInv
<1>1. run \in Run /\ run.pc = "markFailed" /\ run.op = "deploy" /\ c \in Releases
  BY RunFacts DEF MarkFailed, ActTypeOK, RolloutPlace, RestartPlace
<1> DEFINE next == Go(IF run.cleaning THEN "cleaned" ELSE "over")
<1>a. SetRuntimeState(c, "failed", TRUE, next, next) BY DEF MarkFailed
<1>b. "failed" \in RuntimeStates \ {"none"} BY DEF RuntimeStates
<1> HIDE DEF next
<1>2. /\ run' = next /\ UNCHANGED <<rows, up, route, fixed>>
      /\ runtime' \in [Releases -> RuntimeStates] /\ faults' \in 0..MaxFaults
      /\ \A x \in Releases : runtime'[x] = "none" <=> runtime[x] = "none"
  BY <1>1, <1>a, <1>b, StateSet
<1>3. /\ run' \in Run /\ KeptRun /\ run'.step = run.step /\ run'.ev = run.ev
      /\ run'.snap = run.snap /\ run'.doubt = run.doubt
      /\ run'.pc = IF run.cleaning THEN "cleaned" ELSE "over"
  BY <1>1, <1>2, GoRun DEF PCs, next
<1>4. Inside BY <1>1, <1>2, <1>3 DEF Inside, KeptRun, rows, fixed, counts, ActTypeOK
<1>5. Places'
  BY <1>1, <1>2, <1>3 DEF rows, fixed, KeptRun, RolloutPlace, Places,
     RunIdentity, RestartPlace, CutoverPlace, RoutePlace, EvidencePlace, ServingPlace, ExclusivePlace
<1> QED BY <1>2, <1>4, <1>5, QuietInv DEF rows

\* verify_readiness and verify_smoke pass, fail into recovery, or end a restart.
LEMMA VerifyChecksInv ==
  ASSUME RolloutInv, NEW s \in {"readiness", "smoke"}, VerifyChecks(s)
  PROVE  RolloutInv'
<1> USE DEF RolloutInv
<1>1. run \in Run /\ run.pc = s BY DEF VerifyChecks, ActTypeOK
<1>2. /\ \/ run.op = "restart" /\ run' = Go("over")
         \/ run.op = "deploy" /\ run' = Recover(TRUE)
         \/ run.op = "deploy" /\ s = "readiness" /\ run' = Go("markReady")
         \/ run.op = "deploy" /\ s = "smoke" /\ run' = Passed("activate")
      /\ UNCHANGED <<rows, runtime, up, route, faults, fixed>>
  BY DEF VerifyChecks
<1>3. /\ run' \in Run /\ KeptRun /\ run'.doubt = run.doubt /\ run'.snap = run.snap
      /\ \/ run.op = "restart" /\ run'.pc = "over" /\ run'.step = run.step /\ run'.ev = run.ev
         \/ run.op = "deploy" /\ run'.pc = "stopCandidate" /\ run'.step = run.step
            /\ run'.ev = [NoEvidence EXCEPT !.routed = TRUE]
         \/ run.op = "deploy" /\ run'.pc = "markReady" /\ run'.step = run.step /\ run'.ev = run.ev
            /\ s = "readiness"
         \/ run.op = "deploy" /\ run'.pc = "boundary" /\ run'.step = "activate" /\ run'.ev = run.ev
            /\ s = "smoke"
  BY <1>1, <1>2, GoRun, RecoverRun, PassedRun DEF PCs, Keys
<1>4. /\ ~ [NoEvidence EXCEPT !.routed = TRUE].stopped
      /\ ~ [NoEvidence EXCEPT !.routed = TRUE].restored
  BY DEF NoEvidence
<1>5. Inside BY <1>1, <1>2, <1>3 DEF Inside, KeptRun, rows, fixed, counts, ActTypeOK
<1>6. Places'
  BY <1>1, <1>2, <1>3, <1>4 DEF rows, fixed, KeptRun, RolloutPlace, Places,
     RunIdentity, RestartPlace, CutoverPlace, RoutePlace, EvidencePlace, ServingPlace, ExclusivePlace
<1> QED BY <1>2, <1>5, <1>6, QuietInv DEF rows, ActTypeOK

LEMMA MarkReadyInv ==
  ASSUME RolloutInv, MarkReady
  PROVE  RolloutInv'
<1> USE DEF RolloutInv
<1>1. run \in Run /\ run.pc = "markReady" /\ run.op = "deploy" /\ c \in Releases
  BY RunFacts DEF MarkReady, ActTypeOK, RolloutPlace, RestartPlace
<1>2. /\ run' \in {Passed("smoke"), Go("over")} /\ UNCHANGED <<rows, up, route, fixed>>
      /\ runtime' \in [Releases -> RuntimeStates] /\ faults' \in 0..MaxFaults
      /\ \A x \in Releases : runtime'[x] = "none" <=> runtime[x] = "none"
  BY <1>1, StateSet DEF MarkReady, RuntimeStates
<1>3. /\ run' \in Run /\ KeptRun /\ run'.ev = run.ev /\ run'.snap = run.snap /\ run'.doubt = run.doubt
      /\ \/ run'.pc = "boundary" /\ run'.step = "smoke"
         \/ run'.pc = "over" /\ run'.step = run.step
  BY <1>1, <1>2, GoRun, PassedRun DEF PCs, Keys
<1>4. Inside BY <1>1, <1>2, <1>3 DEF Inside, KeptRun, rows, fixed, counts, ActTypeOK
<1>5. Places'
  BY <1>1, <1>2, <1>3 DEF rows, fixed, KeptRun, RolloutPlace, Places,
     RunIdentity, RestartPlace, CutoverPlace, RoutePlace, EvidencePlace, ServingPlace, ExclusivePlace
<1> QED BY <1>2, <1>4, <1>5, QuietInv DEF rows

LEMMA VerifyActivationInv ==
  ASSUME RolloutInv, VerifyActivation
  PROVE  RolloutInv'
<1> USE DEF RolloutInv
<1>1. run \in Run /\ run.pc = "verify" /\ run.op = "deploy"
  BY RunFacts DEF VerifyActivation, ActTypeOK, RolloutPlace, RestartPlace
<1>2. run' \in {Go("commit"), Recover(run.snap = {})}
      /\ UNCHANGED <<rows, runtime, up, route, faults, fixed>>
  BY DEF VerifyActivation
<1>3. /\ run' \in Run /\ KeptRun /\ run'.doubt = run.doubt /\ run'.snap = run.snap
      /\ run'.step = run.step
      /\ \/ run'.pc = "commit" /\ run'.ev = run.ev
         \/ run'.pc = "stopCandidate" /\ run'.ev = [NoEvidence EXCEPT !.routed = (run.snap = {})]
  BY <1>1, <1>2, GoRun, RecoverRun DEF PCs
<1>4. /\ ~ [NoEvidence EXCEPT !.routed = (run.snap = {})].stopped
      /\ ~ [NoEvidence EXCEPT !.routed = (run.snap = {})].restored
      /\ [NoEvidence EXCEPT !.routed = (run.snap = {})].routed => run.snap = {}
  BY DEF NoEvidence
<1>5. Inside BY <1>1, <1>2, <1>3 DEF Inside, KeptRun, rows, fixed, counts, ActTypeOK
<1>6. Places'
  BY <1>1, <1>2, <1>3, <1>4 DEF rows, fixed, KeptRun, RolloutPlace, Places,
     RunIdentity, RestartPlace, CutoverPlace, RoutePlace, EvidencePlace, ServingPlace, ExclusivePlace
<1> QED BY <1>2, <1>5, <1>6, QuietInv DEF rows, ActTypeOK

LEMMA MarkPreviousRetiredInv ==
  ASSUME RolloutInv, MarkPreviousRetired
  PROVE  RolloutInv'
<1> USE DEF RolloutInv
<1>1. run \in Run /\ run.pc = "markRetired" /\ run.op = "deploy" /\ c \in Releases
  BY RunFacts DEF MarkPreviousRetired, ActTypeOK, RolloutPlace, RestartPlace
<1>2. HasPrevious /\ pred[c] \in Releases
  BY <1>1, RunFacts, ActivationAssumption DEF RolloutPlace, EvidencePlace, ActTypeOK, Releases
<1>3. /\ run' \in {Passed("record"), Go("over")} /\ UNCHANGED <<rows, up, route, fixed>>
      /\ runtime' \in [Releases -> RuntimeStates] /\ faults' \in 0..MaxFaults
      /\ \A x \in Releases : runtime'[x] = "none" <=> runtime[x] = "none"
  BY <1>2, StateSet DEF MarkPreviousRetired, RuntimeStates
<1>4. /\ run' \in Run /\ KeptRun /\ run'.ev = run.ev /\ run'.snap = run.snap /\ run'.doubt = run.doubt
      /\ \/ run'.pc = "boundary" /\ run'.step = "record"
         \/ run'.pc = "over" /\ run'.step = run.step
  BY <1>1, <1>3, GoRun, PassedRun DEF PCs, Keys
<1>5. Inside BY <1>1, <1>3, <1>4 DEF Inside, KeptRun, rows, fixed, counts, ActTypeOK
<1>6. Places'
  BY <1>1, <1>2, <1>3, <1>4 DEF rows, fixed, KeptRun, RolloutPlace, Places,
     RunIdentity, RestartPlace, CutoverPlace, RoutePlace, EvidencePlace, ServingPlace, ExclusivePlace
<1> QED BY <1>3, <1>5, <1>6, QuietInv DEF rows

\* restartLiveRuntime marks the runtime stopped.
LEMMA RestartMarkInv ==
  ASSUME RolloutInv, RestartMark
  PROVE  RolloutInv'
<1> USE DEF RolloutInv
<1>1. run \in Run /\ run.pc = "restartMark" /\ run.op = "restart" /\ c \in Releases
  BY RunFacts DEF RestartMark, ActTypeOK, RolloutPlace, RestartPlace
<1>2. /\ run' \in {Go("restartStart"), Go("over")} /\ UNCHANGED <<rows, up, route, fixed>>
      /\ runtime' \in [Releases -> RuntimeStates] /\ faults' \in 0..MaxFaults
      /\ \A x \in Releases : runtime'[x] = "none" <=> runtime[x] = "none"
  BY <1>1, StateSet DEF RestartMark, RuntimeStates
<1>3. /\ run' \in Run /\ KeptRun /\ run'.ev = run.ev /\ run'.snap = run.snap /\ run'.doubt = run.doubt
      /\ \/ run'.pc = "restartStart" /\ run'.step = run.step
         \/ run'.pc = "over" /\ run'.step = run.step
  BY <1>1, <1>2, GoRun, PassedRun DEF PCs, Keys
<1>4. Inside BY <1>1, <1>2, <1>3 DEF Inside, KeptRun, rows, fixed, counts, ActTypeOK
<1>5. Places'
  BY <1>1, <1>2, <1>3 DEF rows, fixed, KeptRun, RolloutPlace, Places,
     RunIdentity, RestartPlace, CutoverPlace, RoutePlace, EvidencePlace, ServingPlace, ExclusivePlace
<1> QED BY <1>2, <1>4, <1>5, QuietInv DEF rows

\* ... live again after the second attempt, which still counts as a failure.
LEMMA RestartRecoverInv ==
  ASSUME RolloutInv, RestartRecover
  PROVE  RolloutInv'
<1> USE DEF RolloutInv
<1>1. run \in Run /\ run.pc = "restartRecover" /\ run.op = "restart" /\ c \in Releases
  BY RunFacts DEF RestartRecover, ActTypeOK, RolloutPlace, RestartPlace
<1>2. /\ run' \in {Go("over"), Go("over")} /\ UNCHANGED <<rows, up, route, fixed>>
      /\ runtime' \in [Releases -> RuntimeStates] /\ faults' \in 0..MaxFaults
      /\ \A x \in Releases : runtime'[x] = "none" <=> runtime[x] = "none"
  BY <1>1, StateSet DEF RestartRecover, RuntimeStates
<1>3. /\ run' \in Run /\ KeptRun /\ run'.ev = run.ev /\ run'.snap = run.snap /\ run'.doubt = run.doubt
      /\ \/ run'.pc = "over" /\ run'.step = run.step
         \/ run'.pc = "over" /\ run'.step = run.step
  BY <1>1, <1>2, GoRun, PassedRun DEF PCs, Keys
<1>4. Inside BY <1>1, <1>2, <1>3 DEF Inside, KeptRun, rows, fixed, counts, ActTypeOK
<1>5. Places'
  BY <1>1, <1>2, <1>3 DEF rows, fixed, KeptRun, RolloutPlace, Places,
     RunIdentity, RestartPlace, CutoverPlace, RoutePlace, EvidencePlace, ServingPlace, ExclusivePlace
<1> QED BY <1>2, <1>4, <1>5, QuietInv DEF rows

\* ... live again, and on to the readiness check.
LEMMA RestartLiveInv ==
  ASSUME RolloutInv, RestartLive
  PROVE  RolloutInv'
<1> USE DEF RolloutInv
<1>1. run \in Run /\ run.pc = "restartLive" /\ run.op = "restart" /\ c \in Releases
  BY RunFacts DEF RestartLive, ActTypeOK, RolloutPlace, RestartPlace
<1>2. /\ run' \in {Passed("readiness"), Go("over")} /\ UNCHANGED <<rows, up, route, fixed>>
      /\ runtime' \in [Releases -> RuntimeStates] /\ faults' \in 0..MaxFaults
      /\ \A x \in Releases : runtime'[x] = "none" <=> runtime[x] = "none"
  BY <1>1, StateSet DEF RestartLive, RuntimeStates
<1>3. /\ run' \in Run /\ KeptRun /\ run'.ev = run.ev /\ run'.snap = run.snap /\ run'.doubt = run.doubt
      /\ \/ run'.pc = "boundary" /\ run'.step = "readiness"
         \/ run'.pc = "over" /\ run'.step = run.step
  BY <1>1, <1>2, GoRun, PassedRun DEF PCs, Keys
<1>4. Inside BY <1>1, <1>2, <1>3 DEF Inside, KeptRun, rows, fixed, counts, ActTypeOK
<1>5. Places'
  BY <1>1, <1>2, <1>3 DEF rows, fixed, KeptRun, RolloutPlace, Places,
     RunIdentity, RestartPlace, CutoverPlace, RoutePlace, EvidencePlace, ServingPlace, ExclusivePlace
<1> QED BY <1>2, <1>4, <1>5, QuietInv DEF rows

\* A restart stops the live runtime, whatever the strategy.
LEMMA RestartStopInv ==
  ASSUME RolloutInv, RestartStop
  PROVE  RolloutInv'
<1> USE DEF RolloutInv
<1>1. run \in Run /\ run.pc = "restartStop" /\ run.op = "restart" /\ c \in 1..nrel
  BY RunFacts DEF RestartStop, ActTypeOK, RolloutPlace, RestartPlace
<1>2. /\ \/ up' = WithoutUp(c) /\ run' = Go("restartMark")
         \/ up' \in {up, WithoutUp(c)} /\ run' = [Go("over") EXCEPT !.doubt = TRUE]
      /\ UNCHANGED <<rows, runtime, route, fixed>> /\ faults' \in 0..MaxFaults
  BY FaultTyped DEF RestartStop, Stop, DockerCall, ActTypeOK
<1>3. up' \subseteq 1..nrel /\ ComposeOnce' BY <1>1, <1>2, StopLeaves DEF rows
<1>4. /\ run' \in Run /\ KeptRun /\ run'.step = run.step /\ run'.ev = run.ev /\ run'.snap = run.snap
      /\ run'.pc \in {"restartMark", "over"}
  BY <1>1, <1>2, GoRun, DoubtRun DEF PCs
<1>5. Inside BY <1>1, <1>2, <1>4 DEF Inside, KeptRun, rows, fixed, counts, ActTypeOK
<1>6. Places'
  BY <1>1, <1>2, <1>4 DEF rows, fixed, KeptRun, RolloutPlace, Places,
     RunIdentity, RestartPlace, CutoverPlace, RoutePlace, EvidencePlace, ServingPlace, ExclusivePlace
<1>7. BlueGreenNeverDown' BY <1>1, <1>2, <1>5, BlueGreenKept DEF rows
<1> QED BY <1>2, <1>3, <1>5, <1>6, <1>7, UpInv DEF rows

\* ... starts it again,
LEMMA RestartStartInv ==
  ASSUME RolloutInv, RestartStart
  PROVE  RolloutInv'
<1> USE DEF RolloutInv
<1>1. run \in Run /\ run.pc = "restartStart" /\ run.op = "restart" /\ c \in 1..nrel
  BY RunFacts DEF RestartStart, ActTypeOK, RolloutPlace, RestartPlace
<1>2. /\ \/ up' = WithUp(c) /\ run' = Go("restartLive")
         \/ up' \in {up, WithUp(c)} /\ run' = [Go("restartAgain") EXCEPT !.doubt = TRUE]
      /\ UNCHANGED <<rows, runtime, route, fixed>> /\ faults' \in 0..MaxFaults
  BY FaultTyped DEF RestartStart, StartExisting, DockerCall, ActTypeOK
<1>3. up' \subseteq 1..nrel /\ ComposeOnce' BY <1>1, <1>2, StartAdds DEF rows
<1>4. /\ run' \in Run /\ KeptRun /\ run'.step = run.step /\ run'.ev = run.ev /\ run'.snap = run.snap
      /\ run'.pc \in {"restartLive", "restartAgain"}
  BY <1>1, <1>2, GoRun, DoubtRun DEF PCs
<1>5. Inside BY <1>1, <1>2, <1>4 DEF Inside, KeptRun, rows, fixed, counts, ActTypeOK
<1>6. Places'
  BY <1>1, <1>2, <1>4 DEF rows, fixed, KeptRun, RolloutPlace, Places,
     RunIdentity, RestartPlace, CutoverPlace, RoutePlace, EvidencePlace, ServingPlace, ExclusivePlace
<1>7. BlueGreenNeverDown' BY <1>1, <1>2, <1>5, BlueGreenKept DEF rows
<1> QED BY <1>2, <1>3, <1>5, <1>6, <1>7, UpInv DEF rows

\* ... and once more when that failed.
LEMMA RestartAgainInv ==
  ASSUME RolloutInv, RestartAgain
  PROVE  RolloutInv'
<1> USE DEF RolloutInv
<1>1. run \in Run /\ run.pc = "restartAgain" /\ run.op = "restart" /\ c \in 1..nrel
  BY RunFacts DEF RestartAgain, ActTypeOK, RolloutPlace, RestartPlace
<1>2. /\ \/ up' = WithUp(c) /\ run' = Go("restartRecover")
         \/ up' \in {up, WithUp(c)} /\ run' = [Go("over") EXCEPT !.doubt = TRUE]
      /\ UNCHANGED <<rows, runtime, route, fixed>> /\ faults' \in 0..MaxFaults
  BY FaultTyped DEF RestartAgain, StartExisting, DockerCall, ActTypeOK
<1>3. up' \subseteq 1..nrel /\ ComposeOnce' BY <1>1, <1>2, StartAdds DEF rows
<1>4. /\ run' \in Run /\ KeptRun /\ run'.step = run.step /\ run'.ev = run.ev /\ run'.snap = run.snap
      /\ run'.pc \in {"restartRecover", "over"}
  BY <1>1, <1>2, GoRun, DoubtRun DEF PCs
<1>5. Inside BY <1>1, <1>2, <1>4 DEF Inside, KeptRun, rows, fixed, counts, ActTypeOK
<1>6. Places'
  BY <1>1, <1>2, <1>4 DEF rows, fixed, KeptRun, RolloutPlace, Places,
     RunIdentity, RestartPlace, CutoverPlace, RoutePlace, EvidencePlace, ServingPlace, ExclusivePlace
<1>7. BlueGreenNeverDown' BY <1>1, <1>2, <1>5, BlueGreenKept DEF rows
<1> QED BY <1>2, <1>3, <1>5, <1>6, <1>7, UpInv DEF rows

\* A cancellation is refused once the run is activating.
LEMMA CancelInv ==
  ASSUME RolloutInv, Cancel
  PROVE  RolloutInv'
<1> USE DEF RolloutInv
<1>1. run \in Run /\ run.pc # "idle" /\ ~ run.activating BY DEF Cancel, ActTypeOK
<1>2. run' = [run EXCEPT !.ctx = "cancelled"] /\ UNCHANGED <<rows, runtime, up, route, faults, outcome, old>>
  BY DEF Cancel, fixed
<1>3. /\ cancels' \in 0..MaxCancels /\ crashes' \in 0..MaxCrashes /\ restarts' \in 0..MaxRestarts
  BY ActivationAssumption DEF Cancel, ActTypeOK, fixed, counts
<1>4. /\ run' \in Run /\ run'.ctx = "cancelled" /\ run'.leased = run.leased
      /\ run'.op = run.op /\ run'.c = run.c /\ run'.pc = run.pc /\ run'.step = run.step
      /\ run'.activating = run.activating /\ run'.cleaning = run.cleaning /\ run'.snap = run.snap
      /\ run'.ev = run.ev /\ run'.doubt = run.doubt
  BY <1>1, <1>2 DEF Run
<1>5. Inside BY <1>1, <1>2, <1>3, <1>4 DEF Inside, rows
<1>6. Places'
  BY <1>1, <1>2, <1>4 DEF rows, RolloutPlace, Places,
     RunIdentity, RestartPlace, CutoverPlace, RoutePlace, EvidencePlace, ServingPlace, ExclusivePlace
<1> QED BY <1>2, <1>5, <1>6, QuietInv DEF rows, ActTypeOK

\* The heartbeat fails.
LEMMA LoseLeaseInv ==
  ASSUME RolloutInv, LoseLease
  PROVE  RolloutInv'
<1> USE DEF RolloutInv
<1>1. run \in Run /\ run.pc # "idle" /\ run.ctx = "live" BY DEF LoseLease, ActTypeOK
<1>2. run' = [run EXCEPT !.ctx = "lost"] /\ UNCHANGED <<rows, runtime, up, route, faults, outcome, old>>
  BY DEF LoseLease, fixed
<1>3. /\ cancels' \in 0..MaxCancels /\ crashes' \in 0..MaxCrashes /\ restarts' \in 0..MaxRestarts
  BY ActivationAssumption DEF LoseLease, ActTypeOK, fixed, counts
<1>4. /\ run' \in Run /\ run'.ctx = "lost" /\ run'.leased = run.leased
      /\ run'.op = run.op /\ run'.c = run.c /\ run'.pc = run.pc /\ run'.step = run.step
      /\ run'.activating = run.activating /\ run'.cleaning = run.cleaning /\ run'.snap = run.snap
      /\ run'.ev = run.ev /\ run'.doubt = run.doubt
  BY <1>1, <1>2 DEF Run
<1>5. Inside BY <1>1, <1>2, <1>3, <1>4 DEF Inside, rows
<1>6. Places'
  BY <1>1, <1>2, <1>4 DEF rows, RolloutPlace, Places,
     RunIdentity, RestartPlace, CutoverPlace, RoutePlace, EvidencePlace, ServingPlace, ExclusivePlace
<1> QED BY <1>2, <1>5, <1>6, QuietInv DEF rows, ActTypeOK

\* The lease runs out.
LEMMA ExpireInv ==
  ASSUME RolloutInv, Expire
  PROVE  RolloutInv'
<1> USE DEF RolloutInv
<1>1. run \in Run /\ run.pc # "idle" /\ run.ctx # "live" BY DEF Expire, ActTypeOK
<1>2. run' = [run EXCEPT !.leased = FALSE] /\ UNCHANGED <<rows, runtime, up, route, faults, outcome, old>>
  BY DEF Expire, fixed
<1>3. /\ cancels' \in 0..MaxCancels /\ crashes' \in 0..MaxCrashes /\ restarts' \in 0..MaxRestarts
  BY ActivationAssumption DEF Expire, ActTypeOK, fixed, counts
<1>4. /\ run' \in Run /\ run'.leased = FALSE /\ run'.ctx = run.ctx
      /\ run'.op = run.op /\ run'.c = run.c /\ run'.pc = run.pc /\ run'.step = run.step
      /\ run'.activating = run.activating /\ run'.cleaning = run.cleaning /\ run'.snap = run.snap
      /\ run'.ev = run.ev /\ run'.doubt = run.doubt
  BY <1>1, <1>2 DEF Run
<1>5. Inside BY <1>1, <1>2, <1>3, <1>4 DEF Inside, rows
<1>6. Places'
  BY <1>1, <1>2, <1>4 DEF rows, RolloutPlace, Places,
     RunIdentity, RestartPlace, CutoverPlace, RoutePlace, EvidencePlace, ServingPlace, ExclusivePlace
<1> QED BY <1>2, <1>5, <1>6, QuietInv DEF rows, ActTypeOK

\* The candidate could not be recorded and is stopped.
LEMMA DropCandidateInv ==
  ASSUME RolloutInv, DropCandidate
  PROVE  RolloutInv'
<1> USE DEF RolloutInv
<1>1. run \in Run /\ run.pc = "dropCandidate" /\ run.op = "deploy" /\ run.ev \in RecoveryEvidence
  BY RunFacts DEF DropCandidate, ActTypeOK, RolloutPlace, RestartPlace
<1>2. /\ \/ up' = WithoutUp(c) /\ run' = Go("restore")
         \/ up' \in {up, WithoutUp(c)} /\ run' = [Go("restore") EXCEPT !.doubt = TRUE]
      /\ UNCHANGED <<rows, runtime, route, fixed>> /\ faults' \in 0..MaxFaults
  BY FaultTyped DEF DropCandidate, Stop, DockerCall, ActTypeOK
<1>3. c \in 1..nrel
  BY <1>1, RunFacts DEF RolloutPlace, ServingPlace
<1>4. /\ up' \subseteq up /\ (up' = WithoutUp(c) => c \notin up')
      /\ up' \subseteq 1..nrel /\ ComposeOnce' /\ \A x \in up : Apart(x, c) => x \in up'
  BY <1>2, <1>3, StopLeaves DEF rows
<1>5. /\ run' \in Run /\ KeptRun /\ run'.step = run.step /\ run'.snap = run.snap
      /\ \/ up' = WithoutUp(c) /\ run'.doubt = run.doubt /\ run'.pc = "restore" /\ run'.ev = run.ev
         \/ run'.doubt /\ run'.pc = "restore" /\ run'.ev = run.ev
  BY <1>1, <1>2, GoRun, DoubtRun, StoppedRun DEF PCs
<1>6. [run.ev EXCEPT !.stopped = TRUE].stopped
      /\ [run.ev EXCEPT !.stopped = TRUE].routed = run.ev.routed
      /\ [run.ev EXCEPT !.stopped = TRUE].restored = run.ev.restored
  BY <1>1, EvidenceFields
<1>7. Inside BY <1>1, <1>2, <1>5 DEF Inside, KeptRun, rows, fixed, counts, ActTypeOK
<1>8. Places'
  BY <1>1, <1>2, <1>3, <1>4, <1>5, <1>6 DEF rows, fixed, KeptRun, Apart, RolloutPlace, Places,
     RunIdentity, RestartPlace, CutoverPlace, RoutePlace, EvidencePlace, ServingPlace, ExclusivePlace
<1>9. BlueGreenNeverDown'
  <2>1. plan[c].strategy = "blue_green" => plan[c].kind = "container"
    BY <1>1, RunFacts DEF ActTypeOK, Plans
  <2>2. plan[c].strategy = "blue_green" /\ live # 0 => Apart(live, c)
    BY <1>1, <1>3, <2>1, RunFacts DEF RolloutPlace, CutoverPlace, Apart
  <2> QED BY <1>2, <1>4, <1>7, <2>2, BlueGreenKept DEF rows
<1> QED BY <1>2, <1>4, <1>7, <1>8, <1>9, UpInv DEF rows

\* An unrecorded candidate is stopped by its name.
LEMMA DropUnrecordedInv ==
  ASSUME RolloutInv, DropUnrecorded
  PROVE  RolloutInv'
<1> USE DEF RolloutInv
<1>1. run \in Run /\ run.pc = "dropUnrecorded" /\ run.op = "deploy" /\ run.ev \in RecoveryEvidence
  BY RunFacts DEF DropUnrecorded, ActTypeOK, RolloutPlace, RestartPlace
<1>2. /\ \/ up' = WithoutUp(c) /\ run' = [Go("restore") EXCEPT !.ev.stopped = TRUE]
         \/ up' \in {up, WithoutUp(c)} /\ run' = [Go("restore") EXCEPT !.doubt = TRUE]
      /\ UNCHANGED <<rows, runtime, route, fixed>> /\ faults' \in 0..MaxFaults
  BY FaultTyped DEF DropUnrecorded, Stop, DockerCall, ActTypeOK
<1>3. c \in 1..nrel
  BY <1>1, RunFacts DEF RolloutPlace, ServingPlace
<1>4. /\ up' \subseteq up /\ (up' = WithoutUp(c) => c \notin up')
      /\ up' \subseteq 1..nrel /\ ComposeOnce' /\ \A x \in up : Apart(x, c) => x \in up'
  BY <1>2, <1>3, StopLeaves DEF rows
<1>5. /\ run' \in Run /\ KeptRun /\ run'.step = run.step /\ run'.snap = run.snap
      /\ \/ up' = WithoutUp(c) /\ run'.doubt = run.doubt /\ run'.pc = "restore" /\ run'.ev = [run.ev EXCEPT !.stopped = TRUE]
         \/ run'.doubt /\ run'.pc = "restore" /\ run'.ev = run.ev
  BY <1>1, <1>2, GoRun, DoubtRun, StoppedRun DEF PCs
<1>6. [run.ev EXCEPT !.stopped = TRUE].stopped
      /\ [run.ev EXCEPT !.stopped = TRUE].routed = run.ev.routed
      /\ [run.ev EXCEPT !.stopped = TRUE].restored = run.ev.restored
  BY <1>1, EvidenceFields
<1>7. Inside BY <1>1, <1>2, <1>5 DEF Inside, KeptRun, rows, fixed, counts, ActTypeOK
<1>8. Places'
  <2>1. RunIdentity' BY <1>1, <1>2, <1>3, <1>4, <1>5, <1>6 DEF rows, fixed, KeptRun, RolloutPlace, RunIdentity, RestartPlace, CutoverPlace, RoutePlace, EvidencePlace, ServingPlace, ExclusivePlace
  <2>2. RestartPlace' BY <1>1, <1>2, <1>3, <1>4, <1>5, <1>6 DEF rows, fixed, KeptRun, RolloutPlace, RunIdentity, RestartPlace, CutoverPlace, RoutePlace, EvidencePlace, ServingPlace, ExclusivePlace
  <2>3. CutoverPlace' BY <1>1, <1>2, <1>3, <1>4, <1>5, <1>6 DEF rows, fixed, KeptRun, RolloutPlace, RunIdentity, RestartPlace, CutoverPlace, RoutePlace, EvidencePlace, ServingPlace, ExclusivePlace
  <2>4. RoutePlace' BY <1>1, <1>2, <1>3, <1>4, <1>5, <1>6 DEF rows, fixed, KeptRun, RolloutPlace, RunIdentity, RestartPlace, CutoverPlace, RoutePlace, EvidencePlace, ServingPlace, ExclusivePlace
  <2>5. EvidencePlace' BY <1>1, <1>2, <1>3, <1>4, <1>5, <1>6 DEF rows, fixed, KeptRun, RolloutPlace, RunIdentity, RestartPlace, CutoverPlace, RoutePlace, EvidencePlace, ServingPlace, ExclusivePlace
  <2>6. ServingPlace' BY <1>1, <1>2, <1>3, <1>4, <1>5, <1>6 DEF rows, fixed, KeptRun, RolloutPlace, RunIdentity, RestartPlace, CutoverPlace, RoutePlace, EvidencePlace, ServingPlace, ExclusivePlace
  <2>7. ExclusivePlace' BY <1>1, <1>2, <1>3, <1>4, <1>5, <1>6 DEF rows, fixed, KeptRun, RolloutPlace, RunIdentity, RestartPlace, CutoverPlace, RoutePlace, EvidencePlace, ServingPlace, ExclusivePlace
  <2> QED BY <2>1, <2>2, <2>3, <2>4, <2>5, <2>6, <2>7 DEF Places
<1>9. BlueGreenNeverDown'
  <2>1. plan[c].strategy = "blue_green" => plan[c].kind = "container"
    BY <1>1, RunFacts DEF ActTypeOK, Plans
  <2>2. plan[c].strategy = "blue_green" /\ live # 0 => Apart(live, c)
    BY <1>1, <1>3, <2>1, RunFacts DEF RolloutPlace, CutoverPlace, Apart
  <2> QED BY <1>2, <1>4, <1>7, <2>2, BlueGreenKept DEF rows
<1> QED BY <1>2, <1>4, <1>7, <1>8, <1>9, UpInv DEF rows

\* Recovery stops the candidate first, and goes on whether it could or not.
LEMMA StopCandidateInv ==
  ASSUME RolloutInv, StopCandidate
  PROVE  RolloutInv'
<1> USE DEF RolloutInv
<1> DEFINE next == IF run.snap = {} THEN "restore" ELSE "unroute"
<1>1. run \in Run /\ run.pc = "stopCandidate" /\ run.op = "deploy" /\ run.ev \in RecoveryEvidence
  BY RunFacts DEF StopCandidate, ActTypeOK, RolloutPlace, RestartPlace
<1>2. /\ \/ up' = WithoutUp(c) /\ run' = [Go(next) EXCEPT !.ev.stopped = TRUE]
         \/ up' \in {up, WithoutUp(c)} /\ run' = [Go(next) EXCEPT !.doubt = TRUE]
      /\ UNCHANGED <<rows, runtime, route, fixed>> /\ faults' \in 0..MaxFaults
  BY FaultTyped DEF StopCandidate, Stop, DockerCall, ActTypeOK
<1>3. c \in 1..nrel /\ next \in PCs /\ next \in {"restore", "unroute"} BY <1>1, RunFacts DEF PCs
<1> HIDE DEF next
<1>4. /\ up' \subseteq up /\ (up' = WithoutUp(c) => c \notin up')
      /\ up' \subseteq 1..nrel /\ ComposeOnce' /\ \A x \in up : Apart(x, c) => x \in up'
  BY <1>2, <1>3, StopLeaves DEF rows
<1>5. /\ run' \in Run /\ KeptRun /\ run'.step = run.step /\ run'.snap = run.snap /\ run'.pc = next
      /\ \/ /\ c \notin up' /\ run'.doubt = run.doubt
            /\ run'.ev = [run.ev EXCEPT !.stopped = TRUE]
         \/ run'.doubt /\ run'.ev = run.ev
  BY <1>1, <1>2, <1>3, <1>4, DoubtRun, StoppedRun
<1>6. /\ run'.ev.routed = run.ev.routed /\ run'.ev.restored = run.ev.restored
      /\ run'.ev.stopped => c \notin up' \/ run.ev.stopped
  <2>1. /\ [run.ev EXCEPT !.stopped = TRUE].routed = run.ev.routed
        /\ [run.ev EXCEPT !.stopped = TRUE].restored = run.ev.restored
    BY <1>1, EvidenceFields
  <2> QED BY <2>1, <1>5
<1>7. Inside BY <1>1, <1>2, <1>3, <1>5 DEF Inside, KeptRun, rows, fixed, counts, ActTypeOK
<1>8. Places'
  BY <1>1, <1>2, <1>3, <1>4, <1>5, <1>6 DEF rows, fixed, KeptRun, RolloutPlace, Places,
     RunIdentity, RestartPlace, CutoverPlace, RoutePlace, EvidencePlace, ServingPlace, ExclusivePlace
<1>9. BlueGreenNeverDown'
  <2>1. plan[c].strategy = "blue_green" => plan[c].kind = "container"
    BY <1>1, RunFacts DEF ActTypeOK, Plans
  <2>2. plan[c].strategy = "blue_green" /\ live # 0 => Apart(live, c)
    BY <1>1, <2>1, RunFacts DEF RolloutPlace, CutoverPlace, Apart
  <2> QED BY <1>2, <1>4, <1>7, <2>2, BlueGreenKept DEF rows
<1> QED BY <1>2, <1>4, <1>7, <1>8, <1>9, UpInv DEF rows

\* Launch: the candidate runs, or it may run after a failure.
LEMMA LaunchInv ==
  ASSUME RolloutInv, Launch
  PROVE  RolloutInv'
<1> USE DEF RolloutInv
<1>1. run \in Run /\ run.pc = "launch" /\ run.op = "deploy"
  BY RunFacts DEF Launch, ActTypeOK, RolloutPlace, RestartPlace
<1>2. /\ \/ up' = WithUp(c) /\ run' = Go("recordRuntime")
         \/ up' \in {up, WithUp(c)} /\ run' = [Go("restore") EXCEPT !.doubt = TRUE]
      /\ UNCHANGED <<rows, runtime, route, fixed>> /\ faults' \in 0..MaxFaults
  BY FaultTyped DEF Launch, ActTypeOK
<1>3. c \in 1..nrel /\ (HasPrevious => pred[c] # c) BY <1>1, RunFacts
<1>4. /\ up' \subseteq up \cup {c} /\ (up' = WithUp(c) => c \in up')
      /\ up' \subseteq 1..nrel /\ ComposeOnce' /\ \A x \in up : Apart(x, c) => x \in up'
  BY <1>2, <1>3, StartAdds DEF rows
<1>5. /\ run' \in Run /\ KeptRun /\ run'.step = run.step /\ run'.snap = run.snap /\ run'.ev = run.ev
      /\ \/ c \in up' /\ run'.doubt = run.doubt /\ run'.pc = "recordRuntime"
         \/ run'.doubt /\ run'.pc = "restore"
  BY <1>1, <1>2, <1>4, GoRun, DoubtRun DEF PCs
<1>6. run.ev = NoEvidence /\ ~ NoEvidence.stopped /\ ~ NoEvidence.restored
  BY <1>1 DEF RolloutPlace, EvidencePlace, NoEvidence
<1>7. Inside BY <1>1, <1>2, <1>5 DEF Inside, KeptRun, rows, fixed, counts, ActTypeOK
<1>8. Places'
  BY <1>1, <1>2, <1>3, <1>4, <1>5, <1>6 DEF rows, fixed, KeptRun, RolloutPlace, Places,
     RunIdentity, RestartPlace, CutoverPlace, RoutePlace, EvidencePlace, ServingPlace, ExclusivePlace
<1>9. BlueGreenNeverDown'
  <2>1. plan[c].strategy = "blue_green" => plan[c].kind = "container"
    BY <1>1, RunFacts DEF ActTypeOK, Plans
  <2>2. plan[c].strategy = "blue_green" /\ live # 0 => Apart(live, c)
    BY <1>1, <2>1, RunFacts DEF RolloutPlace, CutoverPlace, Apart
  <2> QED BY <1>2, <1>4, <1>7, <2>2, BlueGreenKept DEF rows
<1> QED BY <1>2, <1>4, <1>7, <1>8, <1>9, UpInv DEF rows

\* RestorePrevious: the stopped predecessor is started; a blue/green one still
\* runs.
LEMMA RestorePreviousInv ==
  ASSUME RolloutInv, RestorePrevious
  PROVE  RolloutInv'
<1> USE DEF RolloutInv
<1>1. run \in Run /\ run.pc = "restore" /\ run.op = "deploy" /\ run.ev \in RecoveryEvidence
  BY RunFacts DEF RestorePrevious, ActTypeOK, RolloutPlace, RestartPlace
<1>2. /\ AfterRestore \in {"over", "cleaned", "markFailed"}
      /\ AfterRestore = "cleaned" => run.cleaning
      /\ AfterRestore = "over" => ~ run.cleaning
  BY <1>1 DEF AfterRestore, RolloutPlace, CutoverPlace
<1>4. CASE ~ (HasPrevious /\ StopFirst)
  <2>1. run' = Restored(TRUE) /\ UNCHANGED <<rows, runtime, up, route, faults, fixed>>
    BY <1>4 DEF RestorePrevious
  <2>2. /\ run' \in Run /\ KeptRun /\ run'.step = run.step /\ run'.snap = run.snap
        /\ run'.doubt = run.doubt /\ run'.pc = AfterRestore
        /\ run'.ev = [run.ev EXCEPT !.restored = TRUE]
    BY <1>1, <2>1, RestoredRun
  <2>a. run'.ev.stopped = run.ev.stopped /\ run'.ev.routed = run.ev.routed /\ run'.ev.restored
    BY <1>1, <2>2, EvidenceFields
  <2>3. Inside BY <1>1, <1>2, <2>1, <2>2 DEF Inside, KeptRun, rows, fixed, counts, ActTypeOK
  <2>b. /\ run'.pc \in {"over", "cleaned", "markFailed"}
        /\ run'.pc = "cleaned" => run.cleaning
        /\ run'.pc = "over" => ~ run.cleaning
        /\ KeptRun /\ run'.step = run.step /\ run'.snap = run.snap /\ run'.doubt = run.doubt
        /\ UNCHANGED <<rows, runtime, up, route, outcome, old>>
    BY <1>2, <2>1, <2>2 DEF fixed
  <2>4. Places'
    BY <1>1, <1>4, <2>a, <2>b DEF rows, KeptRun, RolloutPlace, Places,
       RunIdentity, RestartPlace, CutoverPlace, RoutePlace, EvidencePlace, ServingPlace, ExclusivePlace
  <2> QED BY <2>1, <2>3, <2>4, QuietInv DEF rows, ActTypeOK
<1>5. CASE HasPrevious /\ StopFirst
  <2>1. /\ \/ up' = WithUp(pred[c]) /\ run' = Go("markRestored")
           \/ /\ up' \in {up, WithUp(pred[c])} /\ run' = [Restored(FALSE) EXCEPT !.doubt = TRUE]
        /\ UNCHANGED <<rows, runtime, route, fixed>> /\ faults' \in 0..MaxFaults
    BY <1>5, FaultTyped DEF RestorePrevious, StartExisting, DockerCall, ActTypeOK
  <2>2. pred[c] \in 1..nrel /\ pred[c] # c BY <1>1, <1>5, RunFacts
  <2>3. /\ up' \subseteq up \cup {pred[c]} /\ (up' = WithUp(pred[c]) => pred[c] \in up')
        /\ up' \subseteq 1..nrel /\ ComposeOnce'
    BY <2>1, <2>2, StartAdds DEF rows
  <2>4. /\ run' \in Run /\ KeptRun /\ run'.step = run.step /\ run'.snap = run.snap
        /\ \/ /\ pred[c] \in up' /\ run'.doubt = run.doubt /\ run'.pc = "markRestored"
              /\ run'.ev = run.ev
           \/ /\ run'.doubt /\ run'.pc = AfterRestore
              /\ run'.ev = [run.ev EXCEPT !.restored = FALSE]
    BY <1>1, <2>1, <2>3, GoRun, RestoredDoubtRun DEF PCs
  <2>a. /\ run'.ev.stopped = run.ev.stopped /\ run'.ev.routed = run.ev.routed
        /\ run'.ev.restored => run.ev.restored
    <3>1. /\ [run.ev EXCEPT !.restored = FALSE].stopped = run.ev.stopped
          /\ [run.ev EXCEPT !.restored = FALSE].routed = run.ev.routed
          /\ ~ [run.ev EXCEPT !.restored = FALSE].restored
      BY <1>1, EvidenceFields
    <3> QED BY <3>1, <2>4
  <2>b. ~ run.ev.restored BY <1>1 DEF RolloutPlace, EvidencePlace
  <2>5. Inside BY <1>1, <1>2, <2>1, <2>4 DEF Inside, KeptRun, rows, fixed, counts, ActTypeOK
  <2>6. Places'
    BY <1>1, <1>2, <1>5, <2>1, <2>2, <2>3, <2>4, <2>a, <2>b DEF rows, fixed, KeptRun, RolloutPlace, Places,
       RunIdentity, RestartPlace, CutoverPlace, RoutePlace, EvidencePlace, ServingPlace, ExclusivePlace
  <2>7. BlueGreenNeverDown' BY <1>5, <2>1, <2>5, BlueGreenKept DEF rows
  <2> QED BY <2>1, <2>3, <2>5, <2>6, <2>7, UpInv DEF rows
<1> QED BY <1>4, <1>5

\* RetirePrevious: the predecessor is stopped, unless the two share a project,
\* of which the candidate is then the one that runs.
LEMMA RetirePreviousInv ==
  ASSUME RolloutInv, RetirePrevious
  PROVE  RolloutInv'
<1> USE DEF RolloutInv
<1>1. run \in Run /\ run.pc = "retire" /\ run.op = "deploy" /\ HasPrevious /\ run.step = "retire"
  BY RunFacts DEF RetirePrevious, ActTypeOK, RolloutPlace, RestartPlace, CutoverPlace
<1>2. pred[c] \in 1..nrel /\ pred[c] # c /\ c \in up /\ live = c
  BY <1>1, RunFacts DEF RolloutPlace, CutoverPlace
<1>3. CASE SharedComposeProject
  <2>1. run' = Go("markRetired") /\ UNCHANGED <<rows, runtime, up, route, faults, fixed>>
    BY <1>3 DEF RetirePrevious
  <2>2. /\ run' \in Run /\ KeptRun /\ run'.pc = "markRetired" /\ run'.step = run.step
        /\ run'.ev = run.ev /\ run'.doubt = run.doubt /\ run'.snap = run.snap
    BY <1>1, <2>1, GoRun DEF PCs
  <2>3. pred[c] \notin up BY <1>2, <1>3 DEF SharedComposeProject, RolloutPlace, ComposeOnce
  <2>4. Inside BY <1>1, <2>1, <2>2 DEF Inside, KeptRun, rows, fixed, counts, ActTypeOK
  <2>5. Places'
    BY <1>1, <2>1, <2>2, <2>3 DEF rows, fixed, KeptRun, RolloutPlace, Places,
       RunIdentity, RestartPlace, CutoverPlace, RoutePlace, EvidencePlace, ServingPlace, ExclusivePlace
  <2> QED BY <2>1, <2>4, <2>5, QuietInv DEF rows, ActTypeOK
<1>4. CASE ~ SharedComposeProject
  <2>1. /\ \/ up' = WithoutUp(pred[c]) /\ run' = Go("markRetired")
           \/ up' \in {up, WithoutUp(pred[c])} /\ run' = [Go("over") EXCEPT !.doubt = TRUE]
        /\ UNCHANGED <<rows, runtime, route, fixed>> /\ faults' \in 0..MaxFaults
    BY <1>4, FaultTyped DEF RetirePrevious, Stop, DockerCall, ActTypeOK
  <2>2. Apart(c, pred[c]) BY <1>2, <1>4 DEF Apart, SharedComposeProject
  <2>3. /\ up' \subseteq up /\ (up' = WithoutUp(pred[c]) => pred[c] \notin up')
        /\ up' \subseteq 1..nrel /\ ComposeOnce' /\ c \in up'
    BY <1>2, <2>1, <2>2, StopLeaves DEF rows
  <2>4. /\ run' \in Run /\ KeptRun /\ run'.step = run.step /\ run'.snap = run.snap /\ run'.ev = run.ev
        /\ \/ pred[c] \notin up' /\ run'.doubt = run.doubt /\ run'.pc = "markRetired"
           \/ run'.doubt /\ run'.pc = "over"
    BY <1>1, <2>1, <2>3, GoRun, DoubtRun DEF PCs
  <2>5. Inside BY <1>1, <2>1, <2>4 DEF Inside, KeptRun, rows, fixed, counts, ActTypeOK
  <2>6. run.ev = NoEvidence /\ ~ NoEvidence.stopped /\ ~ NoEvidence.restored
    BY <1>1 DEF RolloutPlace, EvidencePlace, NoEvidence
  <2>7. Places'
    BY <1>1, <1>2, <2>1, <2>3, <2>4, <2>6 DEF rows, fixed, KeptRun, RolloutPlace, Places,
       RunIdentity, RestartPlace, CutoverPlace, RoutePlace, EvidencePlace, ServingPlace, ExclusivePlace
  <2>8. BlueGreenNeverDown' BY <1>2, <2>1, <2>3, <2>5, BlueGreenKept DEF rows
  <2> QED BY <2>1, <2>3, <2>5, <2>7, <2>8, UpInv DEF rows
<1> QED BY <1>3, <1>4

\* Recovery puts the route back from the snapshot, or fails to.
LEMMA RestoreRouteInv ==
  ASSUME RolloutInv, RestoreDeploymentRoute
  PROVE  RolloutInv'
<1> USE DEF RolloutInv
<1>1. run \in Run /\ run.pc = "unroute" /\ run.op = "deploy" /\ run.ev \in RecoveryEvidence
  BY RunFacts DEF RestoreDeploymentRoute, ActTypeOK, RolloutPlace, RestartPlace
<1>2. /\ \/ route' \in run.snap /\ run' = [Go("restore") EXCEPT !.ev.routed = TRUE]
         \/ route' \in {route} \cup run.snap /\ run' = Go("restore")
      /\ UNCHANGED <<rows, runtime, up, fixed>> /\ faults' \in 0..MaxFaults
  BY FaultTyped DEF RestoreDeploymentRoute, ActTypeOK
<1>3. /\ run.snap \subseteq {old.route} /\ old.route \in 0..nrel
      /\ ~ run.activating => route = old.route
      /\ run.ev.routed => route = old.route
  BY <1>1 DEF RolloutPlace, RoutePlace, ActTypeOK
<1>4. /\ route' \in {route, old.route} /\ route' \in 0..nrel
      /\ ~ run.activating => route' = old.route
  BY <1>2, <1>3 DEF ActTypeOK
<1>5. /\ run' \in Run /\ KeptRun /\ run'.step = run.step /\ run'.snap = run.snap
      /\ run'.doubt = run.doubt /\ run'.pc = "restore"
      /\ \/ run'.ev = [run.ev EXCEPT !.routed = TRUE] /\ route' = old.route
         \/ run'.ev = run.ev
  BY <1>1, <1>2, <1>3, GoRun, RoutedRun DEF PCs
<1>6. /\ run'.ev.stopped = run.ev.stopped /\ run'.ev.restored = run.ev.restored
      /\ run'.ev.routed => route' = old.route
  <2>1. /\ [run.ev EXCEPT !.routed = TRUE].stopped = run.ev.stopped
        /\ [run.ev EXCEPT !.routed = TRUE].restored = run.ev.restored
    BY <1>1, EvidenceFields
  <2> QED BY <2>1, <1>3, <1>4, <1>5
<1>7. /\ Inside /\ TypedAfter
  BY <1>1, <1>2, <1>4, <1>5 DEF Inside, TypedAfter, KeptRun, rows, fixed, counts, ActTypeOK
<1>8. ComposeOnce' BY <1>2 DEF rows, RolloutPlace, ComposeOnce
<1>9. Places'
  BY <1>1, <1>2, <1>3, <1>4, <1>5, <1>6 DEF rows, fixed, KeptRun, RolloutPlace, Places,
     RunIdentity, RestartPlace, CutoverPlace, RoutePlace, EvidencePlace, ServingPlace, ExclusivePlace
<1>10. BlueGreenNeverDown' BY <1>2, <1>7, BlueGreenKept DEF rows
<1> QED BY <1>7, <1>8, <1>9, <1>10, InsideInv DEF RolloutPlace, Places

\* activate: the route leads to the candidate and what it was is known, or
\* recovery begins, with or without a doubt about the route.
LEMMA ApplyRouteInv ==
  ASSUME RolloutInv, ApplyDeploymentRoute
  PROVE  RolloutInv'
<1> USE DEF RolloutInv
<1>1. /\ run \in Run /\ run.pc = "apply" /\ run.op = "deploy" /\ c \in 1..nrel /\ plan[c].routed
  BY RunFacts DEF ApplyDeploymentRoute, ActTypeOK, RolloutPlace, RestartPlace
<1>2. /\ \/ run' = Recover(TRUE) /\ route' = route
         \/ run' = [Go("verify") EXCEPT !.snap = {route}] /\ route' = c
         \/ run' = Recover(FALSE) /\ route' \in {route, c}
      /\ UNCHANGED <<rows, runtime, up, fixed>> /\ faults' \in 0..MaxFaults
  BY FaultTyped DEF ApplyDeploymentRoute, ActTypeOK
<1>3. /\ run.activating /\ run.step = "activate" /\ route = old.route /\ run.snap = {}
      /\ run.ev = NoEvidence
  BY <1>1 DEF RolloutPlace, CutoverPlace, RoutePlace, EvidencePlace
<1>4. /\ run' \in Run /\ KeptRun /\ run'.step = run.step /\ run'.doubt = run.doubt
      /\ \/ /\ run'.pc = "stopCandidate" /\ run'.snap = {} /\ route' = old.route
            /\ run'.ev = [NoEvidence EXCEPT !.routed = TRUE]
         \/ /\ run'.pc = "verify" /\ run'.snap = {old.route} /\ route' = c
            /\ run'.ev = NoEvidence
         \/ /\ run'.pc = "stopCandidate" /\ run'.snap = {} /\ route' \in {old.route, c}
            /\ run'.ev = [NoEvidence EXCEPT !.routed = FALSE]
  <2>1. CASE run' = Recover(TRUE) /\ route' = route BY <2>1, <1>1, <1>3, RecoverRun
  <2>2. CASE run' = [Go("verify") EXCEPT !.snap = {route}] /\ route' = c
    <3>1. {route} \in SUBSET (0..MaxReleases) BY ActivationAssumption DEF ActTypeOK
    <3> QED BY <2>2, <3>1, <1>1, <1>3 DEF Run, Go, KeptRun, PCs
  <2>3. CASE run' = Recover(FALSE) /\ route' \in {route, c} BY <2>3, <1>1, <1>3, RecoverRun
  <2> QED BY <1>2, <2>1, <2>2, <2>3
<1>5. /\ ~ run'.ev.stopped /\ ~ run'.ev.restored
      /\ run'.ev.routed => route' = old.route
  <2>1. /\ ~ [NoEvidence EXCEPT !.routed = TRUE].stopped
        /\ ~ [NoEvidence EXCEPT !.routed = TRUE].restored
        /\ ~ [NoEvidence EXCEPT !.routed = FALSE].stopped
        /\ ~ [NoEvidence EXCEPT !.routed = FALSE].routed
        /\ ~ [NoEvidence EXCEPT !.routed = FALSE].restored
        /\ ~ NoEvidence.stopped /\ ~ NoEvidence.routed /\ ~ NoEvidence.restored
    BY DEF NoEvidence
  <2> QED BY <2>1, <1>4
<1>6. /\ Inside /\ TypedAfter
  BY <1>1, <1>2, <1>4 DEF Inside, TypedAfter, KeptRun, rows, fixed, counts, ActTypeOK
<1>7. ComposeOnce' BY <1>2 DEF rows, RolloutPlace, ComposeOnce
<1>8. Places'
  BY <1>1, <1>2, <1>3, <1>4, <1>5 DEF rows, fixed, KeptRun, RolloutPlace, Places,
     RunIdentity, RestartPlace, CutoverPlace, RoutePlace, EvidencePlace, ServingPlace, ExclusivePlace
<1>9. BlueGreenNeverDown' BY <1>2, <1>6, BlueGreenKept DEF rows
<1> QED BY <1>6, <1>7, <1>8, <1>9, InsideInv DEF RolloutPlace, Places

\* The cutover: one transaction makes the candidate the live release.
LEMMA ActivateCandidateInv ==
  ASSUME RolloutInv, ActivateCandidate
  PROVE  RolloutInv'
<1> USE DEF RolloutInv
<1>1. /\ run \in Run /\ run.pc = "commit" /\ run.op = "deploy" /\ c \in 1..nrel /\ c \in Releases
  BY RunFacts DEF ActivateCandidate, ActTypeOK, RolloutPlace, RestartPlace
<1>2. /\ run.activating /\ run.step = "activate" /\ c \in up /\ (plan[c].routed => route = c)
      /\ run.ev = NoEvidence
  BY <1>1 DEF RolloutPlace, CutoverPlace, RoutePlace, EvidencePlace, ServingPlace
<1>3. CASE run' = Recover(run.snap = {}) /\ UNCHANGED <<release, runtime, live>>
  <2>1. UNCHANGED <<rows, runtime, up, route, fixed>> /\ faults' \in 0..MaxFaults
    BY <1>3, FaultTyped DEF ActivateCandidate, ActTypeOK, rows
  <2>2. /\ run' \in Run /\ KeptRun /\ run'.doubt = run.doubt /\ run'.snap = run.snap
        /\ run'.step = run.step /\ run'.pc = "stopCandidate"
        /\ run'.ev = [NoEvidence EXCEPT !.routed = (run.snap = {})]
    BY <1>1, <1>3, RecoverRun
  <2>3. ~ run'.ev.stopped /\ ~ run'.ev.restored /\ (run'.ev.routed => run.snap = {})
    BY <2>2 DEF NoEvidence
  <2>4. Inside BY <1>1, <2>1, <2>2 DEF Inside, KeptRun, rows, fixed, counts, ActTypeOK
  <2>5. Places'
    BY <1>1, <2>1, <2>2, <2>3 DEF rows, fixed, KeptRun, RolloutPlace, Places,
       RunIdentity, RestartPlace, CutoverPlace, RoutePlace, EvidencePlace, ServingPlace, ExclusivePlace
  <2> QED BY <2>1, <2>4, <2>5, QuietInv DEF rows, ActTypeOK
<1>4. CASE run' = Passed("retire") /\ live' = c /\ faults' = faults
           /\ release' = [r \in Releases |-> IF r = c THEN "live"
                                             ELSE IF r = live THEN "retained" ELSE release[r]]
           /\ runtime' = [r \in Releases |->
                IF r = c THEN "live"
                ELSE IF r = live /\ runtime[r] \in {"live", "ready", "candidate"} THEN "draining"
                ELSE runtime[r]]
  <2>1. UNCHANGED <<nrel, plan, pred, up, route, fixed>> BY DEF ActivateCandidate
  <2>2. /\ run' \in Run /\ KeptRun /\ run'.pc = "boundary" /\ run'.step = "retire"
        /\ run'.ev = run.ev /\ run'.doubt = run.doubt /\ run'.snap = run.snap
    BY <1>1, <1>4, PassedRun DEF Keys
  <2>3. release' \in [Releases -> ReleaseStates] BY <1>4 DEF ActTypeOK, ReleaseStates
  <2>4. runtime' \in [Releases -> RuntimeStates] /\ runtime'[c] = "live"
    BY <1>1, <1>4 DEF ActTypeOK, RuntimeStates
  <2>5. Inside /\ TypedAfter
    BY <1>1, <1>4, <2>1, <2>2, <2>3, <2>4 DEF Inside, TypedAfter, KeptRun, fixed, counts, ActTypeOK
  <2>6. ComposeOnce' BY <2>1 DEF RolloutPlace, ComposeOnce
  <2>7. live' = c /\ runtime'[c] # "none" BY <1>4, <2>4
  <2>8. Places'
    BY <1>1, <1>2, <2>1, <2>2, <2>7 DEF fixed, KeptRun, RolloutPlace, Places,
       RunIdentity, RestartPlace, CutoverPlace, RoutePlace, EvidencePlace, ServingPlace, ExclusivePlace
  <2>9. BlueGreenNeverDown' BY <1>2, <2>1, <2>7 DEF BlueGreenNeverDown
  <2> QED BY <2>5, <2>6, <2>8, <2>9, InsideInv DEF RolloutPlace, Places
<1> QED BY <1>3, <1>4 DEF ActivateCandidate

\* The cleanup begins: recovery of a recorded candidate, or what can be done
\* about an unrecorded one.
LEMMA CleanupInv ==
  ASSUME RolloutInv, Cleanup
  PROVE  RolloutInv'
<1> USE DEF RolloutInv
<1>1. run \in Run /\ run.pc = "cleanup" /\ c \in Releases /\ run.op \in {"restart", "deploy"}
  BY RunFacts DEF Cleanup, ActTypeOK
<1>2. UNCHANGED <<rows, runtime, up, route, faults, fixed>> BY DEF Cleanup
<1>3. run.cleaning /\ ~ run.activating
  BY <1>1 DEF RolloutPlace, RunIdentity, CutoverPlace, RestartPlace
<1>4. CASE run.op = "restart"
  <2>1. run' = Go("cleaned") BY <1>4 DEF Cleanup
  <2>2. /\ run' \in Run /\ KeptRun /\ run'.pc = "cleaned" /\ run'.step = run.step
    BY <1>1, <2>1, GoRun DEF PCs
  <2>3. Inside BY <1>1, <1>2, <2>2 DEF Inside, KeptRun, rows, fixed, counts, ActTypeOK
  <2>4. Places'
    BY <1>1, <1>2, <1>3, <1>4, <2>2 DEF rows, fixed, KeptRun, RolloutPlace, Places,
       RunIdentity, RestartPlace, CutoverPlace, RoutePlace, EvidencePlace, ServingPlace, ExclusivePlace
  <2> QED BY <1>2, <2>3, <2>4, QuietInv DEF rows, ActTypeOK
<1>5. CASE run.op = "deploy" /\ runtime[c] # "none"
  <2>1. run' = Recover(TRUE) BY <1>5 DEF Cleanup
  <2>2. /\ run' \in Run /\ KeptRun /\ run'.pc = "stopCandidate" /\ run'.step = run.step
        /\ run'.doubt = run.doubt /\ run'.snap = run.snap
        /\ run'.ev = [NoEvidence EXCEPT !.routed = TRUE]
    BY <1>1, <2>1, RecoverRun
  <2>3. ~ run'.ev.stopped /\ ~ run'.ev.restored BY <2>2 DEF NoEvidence
  <2>4. Inside BY <1>1, <1>2, <2>2 DEF Inside, KeptRun, rows, fixed, counts, ActTypeOK
  <2>5. Places'
    BY <1>1, <1>2, <1>3, <1>5, <2>2, <2>3 DEF rows, fixed, KeptRun, RolloutPlace, Places,
       RunIdentity, RestartPlace, CutoverPlace, RoutePlace, EvidencePlace, ServingPlace, ExclusivePlace
  <2> QED BY <1>2, <2>4, <2>5, QuietInv DEF rows, ActTypeOK
<1>6. CASE run.op = "deploy" /\ runtime[c] = "none"
  <2>1. PICK p \in {"dropUnrecorded", "restore"} : run' = [Go(p) EXCEPT !.ev = NoEvidence]
    BY <1>6 DEF Cleanup
  <2>2. /\ run' \in Run /\ KeptRun /\ run'.pc = p /\ run'.step = run.step
        /\ run'.doubt = run.doubt /\ run'.snap = run.snap /\ run'.ev = NoEvidence
    BY <1>1, <2>1 DEF Run, Go, KeptRun, PCs, RecoveryEvidence, NoEvidence
  <2>3. ~ run'.ev.stopped /\ ~ run'.ev.restored /\ ~ run'.ev.routed BY <2>2 DEF NoEvidence
  <2>4. Inside BY <1>1, <1>2, <2>2 DEF Inside, KeptRun, rows, fixed, counts, ActTypeOK
  <2>5. Places'
    BY <1>1, <1>2, <1>3, <1>6, <2>2, <2>3 DEF rows, fixed, KeptRun, RolloutPlace, Places,
       RunIdentity, RestartPlace, CutoverPlace, RoutePlace, EvidencePlace, ServingPlace, ExclusivePlace
  <2> QED BY <1>2, <2>4, <2>5, QuietInv DEF rows, ActTypeOK
<1> QED BY <1>1, <1>4, <1>5, <1>6

\* A step is over, or the context died between steps, and the cleanup is due.
LEMMA CleanupDueInv ==
  ASSUME RolloutInv, run.pc \in {"over", "boundary"}, run.ctx # "lost" \/ run.pc = "boundary",
         ~ run.activating, run' = [run EXCEPT !.pc = "cleanup", !.cleaning = TRUE],
         UNCHANGED <<rows, runtime, up, route, faults, fixed>>
  PROVE  RolloutInv'
<1> USE DEF RolloutInv
<1>1. run \in Run BY DEF ActTypeOK
<1>2. /\ run' \in Run /\ run'.pc = "cleanup" /\ run'.cleaning /\ run'.op = run.op /\ run'.c = run.c
      /\ run'.ctx = run.ctx /\ run'.activating = run.activating /\ run'.step = run.step
      /\ run'.snap = run.snap /\ run'.ev = run.ev /\ run'.doubt = run.doubt
  BY <1>1 DEF Run, PCs
<1>3. Inside BY <1>2 DEF Inside, rows, fixed, counts, ActTypeOK
<1>4. Places'
  BY <1>1, <1>2 DEF rows, fixed, RolloutPlace, Places,
     RunIdentity, RestartPlace, CutoverPlace, RoutePlace, EvidencePlace, ServingPlace, ExclusivePlace
<1> QED BY <1>3, <1>4, QuietInv DEF rows, ActTypeOK

---------------------------------------------------------------------------
(* Steps that end a run.                                                   *)

\* A run that ends leaves everything as it stands; what its outcome promises
\* has to hold already.
LEMMA EndInv ==
  ASSUME RolloutInv, Busy, run' = NoRun, UNCHANGED <<rows, up, route, old, faults>>,
         runtime' \in [Releases -> RuntimeStates],
         outcome' \in {"released", "rolled_back", "failed", "cancelled", "unclean", "abandoned"},
         cancels' \in 0..MaxCancels, crashes' \in 0..MaxCrashes, restarts' \in 0..MaxRestarts,
         RolledBackServes', ReleasedServes', CancelledClean'
  PROVE  RolloutInv'
<1> USE DEF RolloutInv
<1>1. NoRun \in Run
  BY ActivationAssumption DEF NoRun, Run, Ops, PCs, Keys, RecoveryEvidence, NoEvidence
<1>2. /\ run'.op = "none" /\ run'.pc = "idle" /\ run'.cleaning = FALSE BY DEF NoRun
<1>3. ActTypeOK' BY <1>1 DEF ActTypeOK, rows
<1>4. RolloutPlace'
  <2>1. RunIdentity' BY <1>2 DEF RunIdentity
  <2>2. RestartPlace' BY <1>2 DEF RestartPlace
  <2>3. CutoverPlace' /\ RoutePlace' /\ EvidencePlace' /\ ServingPlace' /\ ExclusivePlace'
    BY <1>2 DEF CutoverPlace, RoutePlace, EvidencePlace, ServingPlace, ExclusivePlace
  <2>4. ComposeOnce' BY DEF RolloutPlace, ComposeOnce, rows
  <2> QED BY <2>1, <2>2, <2>3, <2>4 DEF RolloutPlace
<1>5. BlueGreenNeverDown' BY DEF BlueGreenNeverDown, Candidate, Previous, rows
<1>6. StopFirstExclusive' BY <1>2 DEF StopFirstExclusive
<1> QED BY <1>3, <1>4, <1>5, <1>6

\* An outcome that promises nothing.
LEMMA QuietEnd ==
  ASSUME outcome' \in {"failed", "unclean", "abandoned"}
  PROVE  RolledBackServes' /\ ReleasedServes' /\ CancelledClean'
  BY DEF RolledBackServes, ReleasedServes, CancelledClean

LEMMA AbandonedInv ==
  ASSUME RolloutInv, Busy, End("abandoned"), UNCHANGED <<rows, up, route, old, faults>>,
         runtime' \in [Releases -> RuntimeStates],
         cancels' \in 0..MaxCancels, crashes' \in 0..MaxCrashes, restarts' \in 0..MaxRestarts
  PROVE  RolloutInv'
<1>1. run' = NoRun /\ outcome' = "abandoned" BY DEF End
<1>2. RolledBackServes' /\ ReleasedServes' /\ CancelledClean' BY <1>1, QuietEnd
<1> QED BY <1>1, <1>2, EndInv

LEMMA InterruptedInv ==
  ASSUME RolloutInv, Interrupted
  PROVE  RolloutInv'
<1>1. CASE End("abandoned")
  BY <1>1, AbandonedInv DEF Interrupted, RolloutInv, ActTypeOK, counts
<1>2. CASE ~ run.activating /\ run' = [run EXCEPT !.pc = "cleanup", !.cleaning = TRUE]
           /\ UNCHANGED outcome
  <2>1. run.pc = "boundary" /\ UNCHANGED <<rows, runtime, up, route, faults, fixed>>
    BY <1>2 DEF Interrupted, fixed
  <2> QED BY <1>2, <2>1, CleanupDueInv
<1> QED BY <1>1, <1>2 DEF Interrupted

LEMMA SkipChecksInv ==
  ASSUME RolloutInv, NEW s \in {"readiness", "smoke"}, SkipChecks(s)
  PROVE  RolloutInv'
<1>1. runtime' \in [Releases -> RuntimeStates]
  BY DEF SkipChecks, RolloutInv, ActTypeOK, RuntimeStates
<1> QED BY <1>1, AbandonedInv DEF SkipChecks, RolloutInv, ActTypeOK, counts

LEMMA SkipRetirementInv ==
  ASSUME RolloutInv, SkipRetirement
  PROVE  RolloutInv'
  BY AbandonedInv DEF SkipRetirement, RolloutInv, ActTypeOK, counts

LEMMA CrashInv ==
  ASSUME RolloutInv, Crash
  PROVE  RolloutInv'
<1>1. crashes' \in 0..MaxCrashes BY ActivationAssumption DEF Crash, RolloutInv, ActTypeOK
<1> QED BY <1>1, AbandonedInv DEF Crash, RolloutInv, ActTypeOK

\* record_release: the new release serves alone.
LEMMA RecordReleaseInv ==
  ASSUME RolloutInv, RecordRelease
  PROVE  RolloutInv'
<1> USE DEF RolloutInv
<1>1. run \in Run /\ run.pc = "record" /\ run.op = "deploy" /\ c = nrel
  BY RunFacts DEF RecordRelease, ActTypeOK, RolloutPlace, RestartPlace
<1>2. UNCHANGED <<rows, runtime, up, route, faults, old, counts>> BY DEF RecordRelease
<1>3. CASE End("released")
  <2>1. run' = NoRun /\ outcome' = "released" BY <1>3 DEF End
  <2>2. /\ live = c /\ c \in up /\ (plan[c].routed => route = c) /\ pred[c] \notin up
    BY <1>1 DEF RolloutPlace, CutoverPlace, ServingPlace
  <2>3. ReleasedServes' BY <1>1, <1>2, <2>2 DEF ReleasedServes, Candidate, Previous, rows
  <2>4. RolledBackServes' /\ CancelledClean' BY <2>1 DEF RolledBackServes, CancelledClean
  <2> QED BY <1>1, <1>2, <2>1, <2>3, <2>4, EndInv DEF ActTypeOK, counts
<1>4. CASE run' = Go("over") /\ UNCHANGED outcome
  <2>1. /\ run' \in Run /\ KeptRun /\ run'.pc = "over" /\ run'.step = run.step
        /\ run'.ev = run.ev /\ run'.doubt = run.doubt /\ run'.snap = run.snap
    BY <1>1, <1>4, GoRun DEF PCs
  <2>2. Inside BY <1>1, <1>2, <1>4, <2>1 DEF Inside, KeptRun, rows, counts, ActTypeOK
  <2>3. Places'
    BY <1>1, <1>2, <1>4, <2>1 DEF rows, KeptRun, RolloutPlace, Places,
       RunIdentity, RestartPlace, CutoverPlace, RoutePlace, EvidencePlace, ServingPlace, ExclusivePlace
  <2> QED BY <1>2, <2>2, <2>3, QuietInv DEF rows, ActTypeOK
<1> QED BY <1>3, <1>4 DEF RecordRelease

\* A complete recovery has put everything back.
LEMMA RecoveredServes ==
  ASSUME RolloutInv, run.op = "deploy", Busy, run.ev.stopped, ~ CutOver,
         route = old.route, run.ev.restored \/ ~ HasPrevious \/ ~ StopFirst
  PROVE  /\ c = nrel /\ c \notin up /\ live = old.live
         /\ HasPrevious /\ StopFirst => pred[c] \in up
         /\ HasPrevious /\ pred[c] \in old.up /\ plan[c].strategy = "blue_green" => pred[c] \in up
<1> USE DEF RolloutInv
<1>1. c = nrel /\ pred[c] = old.live /\ old.op = "deploy" BY DEF RolloutPlace, RunIdentity
<1>2. c \notin up /\ (HasPrevious /\ StopFirst => pred[c] \in up) BY DEF RolloutPlace, EvidencePlace
<1>3. live = old.live BY DEF RolloutPlace, CutoverPlace
<1>4. HasPrevious /\ pred[c] \in old.up /\ plan[c].strategy = "blue_green" => pred[c] \in up
  BY <1>1, <1>3 DEF BlueGreenNeverDown, Candidate, Previous
<1> QED BY <1>1, <1>2, <1>3, <1>4

\* A step that did not pass: abandoned, cleaned up, failed or rolled back.
LEMMA StepOverInv ==
  ASSUME RolloutInv, StepOver
  PROVE  RolloutInv'
<1> USE DEF RolloutInv
<1>1. run \in Run /\ run.pc = "over" BY DEF StepOver, ActTypeOK
<1>2. UNCHANGED <<rows, runtime, up, route, faults, old, counts>> BY DEF StepOver
<1>3. CASE End("abandoned") BY <1>1, <1>2, <1>3, AbandonedInv DEF ActTypeOK, counts
<1>4. CASE /\ run.ctx = "cancelled" \/ (Live /\ run.step = "start")
           /\ run' = [run EXCEPT !.pc = "cleanup", !.cleaning = TRUE] /\ UNCHANGED outcome
  <2>1. ~ run.activating
    BY <1>1, <1>4, RunFacts DEF RolloutPlace, CutoverPlace, RestartPlace
  <2> QED BY <1>1, <1>2, <1>4, <2>1, CleanupDueInv DEF fixed
<1>5. CASE End("failed")
  <2>1. run' = NoRun /\ outcome' = "failed" BY <1>5 DEF End
  <2> QED BY <1>1, <1>2, <2>1, QuietEnd, EndInv DEF ActTypeOK, counts
<1>6. CASE End("rolled_back") /\ run.step = "activate" /\ recoveryComplete
  <2>1. run' = NoRun /\ outcome' = "rolled_back" BY <1>6 DEF End
  <2>2. run.op = "deploy" BY <1>1, <1>6, RunFacts DEF RolloutPlace, RestartPlace
  <2>3. route = old.route BY <1>6, <2>2 DEF recoveryComplete, RolloutPlace, RoutePlace
  <2>4. /\ c = nrel /\ c \notin up /\ live = old.live
        /\ HasPrevious /\ StopFirst => pred[c] \in up
        /\ HasPrevious /\ pred[c] \in old.up /\ plan[c].strategy = "blue_green" => pred[c] \in up
    BY <1>1, <1>6, <2>2, <2>3, RecoveredServes DEF recoveryComplete
  <2>5. plan[c].strategy \in {"blue_green", "stop_first"}
    BY <1>1, RunFacts DEF ActTypeOK, Plans
  <2>6. RolledBackServes'
    BY <1>2, <2>3, <2>4, <2>5 DEF RolledBackServes, Candidate, Previous, rows
  <2>7. ReleasedServes' /\ CancelledClean' BY <2>1 DEF ReleasedServes, CancelledClean
  <2> QED BY <1>1, <1>2, <2>1, <2>6, <2>7, EndInv DEF ActTypeOK, counts
<1> QED BY <1>3, <1>4, <1>5, <1>6 DEF StepOver

\* The cleanup is over; it was complete or it was not.
LEMMA CleanedInv ==
  ASSUME RolloutInv, Cleaned
  PROVE  RolloutInv'
<1> USE DEF RolloutInv
<1>1. run \in Run /\ run.pc = "cleaned" BY DEF Cleaned, ActTypeOK
<1>2. UNCHANGED <<rows, runtime, up, route, faults, old, counts>> BY DEF Cleaned
<1>3. CASE End("abandoned") BY <1>1, <1>2, <1>3, AbandonedInv DEF ActTypeOK, counts
<1>4. CASE End("unclean")
  <2>1. run' = NoRun /\ outcome' = "unclean" BY <1>4 DEF End
  <2> QED BY <1>1, <1>2, <2>1, QuietEnd, EndInv DEF ActTypeOK, counts
<1>5. CASE End("cancelled") /\ CleanupCompleted
  <2>1. run' = NoRun /\ outcome' = "cancelled" BY <1>5 DEF End
  <2>2. CancelledClean'
    <3>1. CASE run.op = "restart"
      BY <1>1, <1>2, <3>1 DEF CancelledClean, RolloutPlace, RunIdentity
    <3>2. CASE run.op = "deploy"
      <4>1. /\ run.cleaning /\ ~ run.activating /\ ~ CutOver /\ route = old.route
        BY <1>1, <3>2 DEF RolloutPlace, RunIdentity, CutoverPlace, RoutePlace
      <4>2. c = nrel /\ live = old.live /\ (HasPrevious => pred[c] # c) /\ c \in Releases
        BY <1>1, <3>2, <4>1, RunFacts DEF RolloutPlace, CutoverPlace
      <4>3. plan[c].kind \in {"container", "compose"} BY <4>2 DEF ActTypeOK, Plans
      <4>4. run.ev.restored /\ HasPrevious /\ StopFirst => pred[c] \in up
        BY <3>2 DEF RolloutPlace, EvidencePlace
      <4>5. run.ev.stopped => c \notin up BY <3>2 DEF RolloutPlace, EvidencePlace
      <4>6. HasPrevious /\ StopFirst => run.ev.restored
        BY <1>5, <3>2 DEF CleanupCompleted, recoveryComplete
      <4>7. (plan[c].kind = "compose" => HasPrevious /\ plan[pred[c]].kind = "compose") => c \notin up
        <5>1. CASE run.ev.stopped BY <5>1, <4>5
        <5>2. CASE ~ run.ev.stopped
          <6>1. plan[c].kind = "compose" /\ HasPrevious /\ StopFirst
            BY <1>5, <3>2, <4>3, <5>2 DEF CleanupCompleted, recoveryComplete
          <6> QED BY <6>1, <4>2, <4>4, <4>6 DEF RolloutPlace, ComposeOnce
        <5> QED BY <5>1, <5>2
      <4> QED BY <1>2, <4>1, <4>2, <4>4, <4>6, <4>7 DEF CancelledClean, Candidate, Previous, rows
    <3> QED BY <1>1, <3>1, <3>2, RunFacts
  <2>3. RolledBackServes' /\ ReleasedServes' BY <2>1 DEF RolledBackServes, ReleasedServes
  <2> QED BY <1>1, <1>2, <2>1, <2>2, <2>3, EndInv DEF ActTypeOK, counts
<1> QED BY <1>3, <1>4, <1>5 DEF Cleaned

---------------------------------------------------------------------------
(* Runs begin.                                                             *)

\* The run that begins.
LEMMA NewRun ==
  ASSUME NEW op \in {"deploy", "restart"}, NEW r \in Releases,
         run' = [NoRun EXCEPT !.op = op, !.pc = "boundary", !.c = r, !.leased = TRUE]
  PROVE  /\ run' \in Run /\ run'.op = op /\ run'.pc = "boundary" /\ run'.c = r
         /\ run'.step = "start" /\ run'.activating = FALSE /\ run'.cleaning = FALSE
         /\ run'.snap = {} /\ run'.ev = NoEvidence
<1>1. r \in 0..MaxReleases BY ActivationAssumption DEF Releases
<1>2. NoEvidence \in RecoveryEvidence BY DEF NoEvidence, RecoveryEvidence
<1>3. op \in Ops /\ "boundary" \in PCs /\ "start" \in Keys BY DEF Ops, PCs, Keys
<1>5. /\ run'.op = op /\ run'.pc = "boundary" /\ run'.c = r /\ run'.step = "start"
      /\ run'.activating = FALSE /\ run'.cleaning = FALSE /\ run'.snap = {} /\ run'.ev = NoEvidence
  BY Zenon DEF NoRun
<1>6. run' \in Run BY <1>1, <1>2, <1>3, Zenon DEF Run, NoRun
<1> QED BY <1>5, <1>6

\* The new release is not up, and nothing has happened to what was there.
LEMMA BeginInv ==
  ASSUME RolloutInv, NEW p \in Plans, Begin(p)
  PROVE  RolloutInv'
<1> USE DEF RolloutInv
<1> DEFINE r == nrel + 1
<1>1. /\ nrel \in Nat /\ r \in Releases /\ r \notin up /\ up \subseteq 1..nrel /\ nrel' = r
      /\ live \in 0..nrel /\ route \in 0..nrel /\ r \in 1..nrel' /\ r # 0
  BY ActivationAssumption DEF Begin, ActTypeOK, Releases
<1>2. /\ plan' = [plan EXCEPT ![r] = p] /\ pred' = [pred EXCEPT ![r] = live]
      /\ release' = [release EXCEPT ![r] = "candidate"]
      /\ run' = [NoRun EXCEPT !.op = "deploy", !.pc = "boundary", !.c = r, !.leased = TRUE]
      /\ outcome' = "none" /\ old' = [op |-> "deploy", up |-> up, route |-> route, live |-> live]
      /\ UNCHANGED <<runtime, live, up, route, faults, counts>>
  BY DEF Begin
<1>3. pred'[r] = live /\ \A x \in 1..nrel : plan'[x] = plan[x]
  BY <1>1, <1>2, ActivationAssumption DEF ActTypeOK, Releases
<1>4. /\ old'.op = "deploy" /\ old'.up = up /\ old'.route = route /\ old'.live = live BY <1>2
<1>5. /\ run' \in Run /\ run'.op = "deploy" /\ run'.pc = "boundary" /\ run'.c = r
      /\ run'.step = "start" /\ run'.activating = FALSE /\ run'.cleaning = FALSE
      /\ run'.snap = {} /\ run'.ev = NoEvidence
  BY <1>1, <1>2, NewRun
<1>6. ~ NoEvidence.stopped /\ ~ NoEvidence.routed /\ ~ NoEvidence.restored BY DEF NoEvidence
<1> HIDE DEF r
<1>7. ActTypeOK'
  <2>1. plan' \in [Releases -> Plans] BY <1>2 DEF ActTypeOK
  <2>2. pred' \in [Releases -> 0..MaxReleases]
    BY <1>1, <1>2, ActivationAssumption DEF ActTypeOK
  <2>3. release' \in [Releases -> ReleaseStates] BY <1>2 DEF ActTypeOK, ReleaseStates
  <2>4. nrel' \in 0..MaxReleases /\ 0..nrel \subseteq 0..nrel' /\ 1..nrel \subseteq 1..nrel'
    BY <1>1, ActivationAssumption DEF Releases, r
  <2>5. live' \in 0..nrel' /\ up' \subseteq 1..nrel' /\ route' \in 0..nrel' BY <1>1, <1>2, <2>4
  <2>6. old' \in [op : Ops, up : SUBSET (1..nrel'), route : 0..nrel', live : 0..nrel']
    BY <1>1, <1>2, <2>4 DEF Ops
  <2> QED BY <1>2, <1>5, <2>1, <2>2, <2>3, <2>4, <2>5, <2>6 DEF ActTypeOK, counts
<1>8. RolloutPlace'
  <2>1. RunIdentity'
    BY <1>1, <1>2, <1>3, <1>4, <1>5 DEF RunIdentity, r
  <2>2. RestartPlace' BY <1>5 DEF RestartPlace
  <2>3. CutoverPlace' BY <1>2, <1>4, <1>5 DEF CutoverPlace
  <2>4. RoutePlace' BY <1>2, <1>4, <1>5, <1>6 DEF RoutePlace
  <2>5. EvidencePlace' BY <1>5, <1>6 DEF EvidencePlace
  <2>6. ServingPlace' /\ ExclusivePlace' BY <1>1, <1>2, <1>5 DEF ServingPlace, ExclusivePlace
  <2>7. ComposeOnce' BY <1>1, <1>2, <1>3 DEF RolloutPlace, ComposeOnce
  <2> QED BY <2>1, <2>2, <2>3, <2>4, <2>5, <2>6, <2>7 DEF RolloutPlace
<1>9. BlueGreenNeverDown'
  BY <1>1, <1>2, <1>3, <1>4 DEF BlueGreenNeverDown, Candidate, Previous
<1>10. StopFirstExclusive' BY <1>1, <1>2, <1>5 DEF StopFirstExclusive
<1>11. RolledBackServes' /\ ReleasedServes' /\ CancelledClean'
  BY <1>2 DEF RolledBackServes, ReleasedServes, CancelledClean
<1> QED BY <1>7, <1>8, <1>9, <1>10, <1>11

LEMMA BeginRestartInv ==
  ASSUME RolloutInv, BeginRestart
  PROVE  RolloutInv'
<1> USE DEF RolloutInv
<1>1. live \in 1..nrel /\ nrel \in Nat /\ 1..nrel \subseteq Releases
  BY ActivationAssumption DEF BeginRestart, ActTypeOK, Releases
<1>2. /\ run' = [NoRun EXCEPT !.op = "restart", !.pc = "boundary", !.c = live, !.leased = TRUE]
      /\ outcome' = "none" /\ old' = [op |-> "restart", up |-> up, route |-> route, live |-> live]
      /\ UNCHANGED <<rows, runtime, up, route, faults, cancels, crashes>>
  BY DEF BeginRestart
<1>3. restarts' \in 0..MaxRestarts BY ActivationAssumption DEF BeginRestart, ActTypeOK
<1>4. /\ run' \in Run /\ run'.op = "restart" /\ run'.pc = "boundary" /\ run'.c = live
      /\ run'.step = "start" /\ run'.activating = FALSE /\ run'.cleaning = FALSE
  BY <1>1, <1>2, NewRun
<1>5. old'.op = "restart" BY <1>2
<1>6. ActTypeOK'
  <2>1. old' \in [op : Ops, up : SUBSET (1..nrel), route : 0..nrel, live : 0..nrel]
    BY <1>2 DEF ActTypeOK, Ops
  <2> QED BY <1>2, <1>3, <1>4, <2>1 DEF ActTypeOK, rows
<1>7. RolloutPlace'
  <2>1. RunIdentity' BY <1>1, <1>2, <1>4, <1>5 DEF RunIdentity, rows
  <2>2. RestartPlace' BY <1>4 DEF RestartPlace
  <2>3. CutoverPlace' /\ RoutePlace' /\ EvidencePlace' /\ ServingPlace' /\ ExclusivePlace'
    BY <1>4 DEF CutoverPlace, RoutePlace, EvidencePlace, ServingPlace, ExclusivePlace
  <2>4. ComposeOnce' BY <1>2 DEF RolloutPlace, ComposeOnce, rows
  <2> QED BY <2>1, <2>2, <2>3, <2>4 DEF RolloutPlace
<1>8. BlueGreenNeverDown' /\ StopFirstExclusive'
  BY <1>4, <1>5 DEF BlueGreenNeverDown, StopFirstExclusive
<1>9. RolledBackServes' /\ ReleasedServes' /\ CancelledClean'
  BY <1>2 DEF RolledBackServes, ReleasedServes, CancelledClean
<1> QED BY <1>6, <1>7, <1>8, <1>9

---------------------------------------------------------------------------
(* The theorem.                                                            *)

LEMMA RolloutInit == ActInit => RolloutInv
<1> SUFFICES ASSUME ActInit PROVE RolloutInv OBVIOUS
<1> USE DEF ActInit
<1>1. ActTypeOK
  <2>1. \E p \in Plans : TRUE
    <3>1. [kind |-> "container", strategy |-> "blue_green", routed |-> FALSE] \in Plans
      BY DEF Plans
    <3> QED BY <3>1
  <2>2. (CHOOSE p \in Plans : TRUE) \in Plans BY <2>1
  <2>3. plan \in [Releases -> Plans] BY <2>2
  <2>4. NoRun \in Run
    BY ActivationAssumption DEF NoRun, Run, Ops, PCs, Keys, RecoveryEvidence, NoEvidence
  <2>5. old \in [op : Ops, up : SUBSET (1..nrel), route : 0..nrel, live : 0..nrel] BY DEF Ops
  <2> QED BY <2>3, <2>4, <2>5, ActivationAssumption DEF ActTypeOK, ReleaseStates, RuntimeStates
<1>2. run.op = "none" /\ run.pc = "idle" /\ run.cleaning = FALSE BY DEF NoRun
<1>3. RolloutPlace
  BY <1>2 DEF RolloutPlace, RunIdentity, RestartPlace, CutoverPlace, RoutePlace, EvidencePlace,
     ServingPlace, ComposeOnce, ExclusivePlace
<1>4. BlueGreenNeverDown /\ StopFirstExclusive BY <1>2 DEF BlueGreenNeverDown, StopFirstExclusive
<1>5. RolledBackServes /\ ReleasedServes /\ CancelledClean
  BY DEF RolledBackServes, ReleasedServes, CancelledClean
<1> QED BY <1>1, <1>3, <1>4, <1>5 DEF RolloutInv

LEMMA RolloutStutter ==
  ASSUME RolloutInv, UNCHANGED actVars
  PROVE  RolloutInv'
<1> USE DEF RolloutInv, actVars
<1>1. ActTypeOK' BY DEF ActTypeOK
<1>2. RolloutPlace'
  BY DEF RolloutPlace, RunIdentity, RestartPlace, CutoverPlace, RoutePlace, EvidencePlace,
     ServingPlace, ComposeOnce, ExclusivePlace
<1>3. BlueGreenNeverDown' /\ StopFirstExclusive'
  BY DEF BlueGreenNeverDown, StopFirstExclusive, Candidate, Previous
<1>4. RolledBackServes' /\ ReleasedServes'
  BY DEF RolledBackServes, ReleasedServes, Candidate, Previous
<1>5. CancelledClean' BY DEF CancelledClean, Candidate, Previous
<1> QED BY <1>1, <1>2, <1>3, <1>4, <1>5

LEMMA RolloutStep ==
  ASSUME RolloutInv, ActNext
  PROVE  RolloutInv'
<1>1. CASE \E p \in Plans : Begin(p) BY <1>1, BeginInv
<1>2. CASE BeginRestart \/ Enter \/ Interrupted \/ ReadFails
  BY <1>2, BeginRestartInv, EnterInv, InterruptedInv, ReadFailsInv
<1>3. CASE StopPrevious \/ MarkStopped \/ Launch \/ RecordCandidateRuntime \/ DropCandidate
  BY <1>3, StopPreviousInv, MarkStoppedInv, LaunchInv, RecordRuntimeInv, DropCandidateInv
<1>4. CASE RestorePrevious \/ MarkRestored \/ StopCandidate \/ RestoreDeploymentRoute \/ MarkFailed
  BY <1>4, RestorePreviousInv, MarkRestoredInv, StopCandidateInv, RestoreRouteInv, MarkFailedInv
<1>5. CASE \E s \in {"readiness", "smoke"} : VerifyChecks(s) \/ SkipChecks(s)
  BY <1>5, VerifyChecksInv, SkipChecksInv
<1>6. CASE MarkReady \/ Unrouted \/ ApplyDeploymentRoute \/ VerifyActivation \/ ActivateCandidate
  BY <1>6, MarkReadyInv, UnroutedInv, ApplyRouteInv, VerifyActivationInv, ActivateCandidateInv
<1>7. CASE RetirePrevious \/ SkipRetirement \/ MarkPreviousRetired \/ RecordRelease
  BY <1>7, RetirePreviousInv, SkipRetirementInv, MarkPreviousRetiredInv, RecordReleaseInv
<1>8. CASE RestartStop \/ RestartMark \/ RestartStart \/ RestartAgain \/ RestartRecover \/ RestartLive
  BY <1>8, RestartStopInv, RestartMarkInv, RestartStartInv, RestartAgainInv, RestartRecoverInv,
     RestartLiveInv
<1>9. CASE StepOver \/ Cleanup \/ DropUnrecorded \/ Cleaned
  BY <1>9, StepOverInv, CleanupInv, DropUnrecordedInv, CleanedInv
<1>10. CASE Cancel \/ LoseLease \/ Expire \/ Crash
  BY <1>10, CancelInv, LoseLeaseInv, ExpireInv, CrashInv
<1> QED BY <1>1, <1>2, <1>3, <1>4, <1>5, <1>6, <1>7, <1>8, <1>9, <1>10 DEF ActNext

\* A rollout keeps its promises at every step, for every number of releases,
\* faults, cancellations, lost leases and crashes: rolled_back means that the
\* old release serves as before, a released one serves alone, blue/green never
\* leaves the environment without the release it points to, stop-first never
\* runs two, and a completed cleanup is one (restorePrevious,
\* stopCandidateAndRestore, retirePrevious, CleanupCancelledRun).
THEOREM RolloutInvariance == ActSpec => []RolloutInv
<1>1. ActInit => RolloutInv BY RolloutInit
<1>2. RolloutInv /\ [ActNext]_actVars => RolloutInv' BY RolloutStep, RolloutStutter
<1> QED BY <1>1, <1>2, PTL DEF ActSpec

---------------------------------------------------------------------------
(* Preparation and retention of releases.                                  *)

\* The place of a step in the list of its run.
LEMMA StepPlaces ==
  /\ Len(StepsOf("deploy")) = 8 /\ \A k \in 1..8 : k <= Len(StepsOf("deploy"))
  /\ \A op : op # "deploy" => Len(StepsOf(op)) = 2 /\ \A k \in 1..2 : k <= Len(StepsOf(op))
  /\ \A k \in 1..8 :
       /\ StepsOf("deploy")[k] \in MaterializingSteps => k \in {2, 4, 7}
       /\ StepsOf("deploy")[k] = "resolve_source" => k = 1
       /\ StepsOf("deploy")[k] = "acquire_source" => k = 2
       /\ StepsOf("deploy")[k] = "analyze_plan" => k = 3
       /\ StepsOf("deploy")[k] = "prepare_context" => k = 4
       /\ StepsOf("deploy")[k] = "build_artifact" => k = 5
       /\ StepsOf("deploy")[k] = "render_runtime" => k = 6
       /\ StepsOf("deploy")[k] = "release_task" => k = 7
  /\ \A op : op # "deploy" => \A k \in 1..2 :
       /\ StepsOf(op)[k] \notin MaterializingSteps \cup {"resolve_source", "analyze_plan", "build_artifact"}
       /\ StepsOf(op)[k] = "render_runtime" => k = 1
<1>1. \A k \in 1..8 : k = 1 \/ k = 2 \/ k = 3 \/ k = 4 \/ k = 5 \/ k = 6 \/ k = 7 \/ k = 8
  OBVIOUS
<1>2. \A k \in 1..2 : k = 1 \/ k = 2
  OBVIOUS
<1> QED BY <1>1, <1>2 DEF StepsOf, DeploySteps, MaterializingSteps

\* A run at a step is in the middle of its list, and holds the lease.
LEMMA InStep ==
  ASSUME PrepTypeOK, StagesHold, NEW r \in PrepRuns, NEW s, NEW sub, In(r, s, sub)
  PROVE  /\ leased = r /\ at[r] \in StageRow /\ at[r].sub = sub
         /\ at[r].step \in 1..Len(StepsOf(runPlan[r].op)) /\ StepsOf(runPlan[r].op)[at[r].step] = s
         /\ runPlan[r] \in PlanRow /\ workspace[r] \in WorkspaceRow /\ prepared[r] \in EvidenceRow
         /\ StageHolds(runPlan[r], at[r], workspace[r], prepared[r])
<1>4. runPlan \in Seq(PlanRow) /\ r \in 1..Len(runPlan)
  BY DEF PrepTypeOK, PrepRuns
<1>5. runPlan[r] \in PlanRow
  BY <1>4
<1>1. at[r] \in StageRow /\ runPlan[r] \in PlanRow /\ workspace[r] \in WorkspaceRow
      /\ prepared[r] \in EvidenceRow
  BY <1>5 DEF PrepTypeOK
<1>2. StageHolds(runPlan[r], at[r], workspace[r], prepared[r])
  BY DEF StagesHold
<1>3. Len(StepsOf(runPlan[r].op)) \in Nat /\ at[r].step \in Nat
  BY <1>1, StepPlaces DEF StageRow
<1> QED BY <1>1, <1>2, <1>3 DEF In, StepOf, StageHolds

\* Each step but activate belongs to one place of a deploy.
LEMMA DeployStep ==
  ASSUME PrepTypeOK, StagesHold, NEW r \in PrepRuns, NEW s, NEW sub, In(r, s, sub),
         s \in MaterializingSteps \cup {"resolve_source", "analyze_plan", "build_artifact"}
  PROVE  /\ runPlan[r].op = "deploy"
         /\ s = "resolve_source" => at[r].step = 1
         /\ s = "acquire_source" => at[r].step = 2
         /\ s = "analyze_plan" => at[r].step = 3
         /\ s = "prepare_context" => at[r].step = 4
         /\ s = "build_artifact" => at[r].step = 5
         /\ s = "release_task" => at[r].step = 7
<1>1. at[r].step \in 1..Len(StepsOf(runPlan[r].op)) /\ StepsOf(runPlan[r].op)[at[r].step] = s
  BY InStep
<1>2. runPlan[r].op = "deploy"
  BY <1>1, StepPlaces
<1>3. at[r].step \in 1..8 /\ StepsOf("deploy")[at[r].step] = s
  BY <1>1, <1>2, StepPlaces
<1> QED BY <1>2, <1>3, StepPlaces

\* Successes accumulate, so what is outdated stays so.
LEMMA OutdatedStays ==
  ASSUME releases \in Seq(ReleaseRow), releases' \in Seq(ReleaseRow'), keptReleases \in Nat,
         DOMAIN releases \subseteq DOMAIN releases',
         \A j \in DOMAIN releases : Successful(j) => Successful(j)',
         NEW i \in DOMAIN releases, Outdated(i), releases'[i].state = "retained"
  PROVE  Outdated(i)'
<1> DEFINE S == {j \in DOMAIN releases : j >= i /\ Successful(j)}
           T == {j \in DOMAIN releases' : j >= i /\ Successful(j)'}
<1>1. Len(releases') \in Nat /\ DOMAIN releases' = 1..Len(releases')
  OBVIOUS
<1>2. IsFiniteSet(T)
  <2>1. T \subseteq 1..Len(releases')
    BY <1>1
  <2>2. IsFiniteSet(1..Len(releases'))
    BY <1>1, FS_Interval
  <2> QED BY <2>1, <2>2, FS_Subset
<1>3. S \subseteq T
  OBVIOUS
<1>4. IsFiniteSet(S) /\ Cardinality(S) <= Cardinality(T)
  BY <1>2, <1>3, FS_Subset
<1>5. Cardinality(S) \in Nat /\ Cardinality(T) \in Nat
  BY <1>2, <1>4, FS_CardinalityType
<1>6. Cardinality(S) > keptReleases
  BY DEF Outdated
<1>7. Cardinality(T) > keptReleases
  BY <1>4, <1>5, <1>6
<1> QED BY <1>7 DEF Outdated

\* Rows of the newest successes are available.
LEMMA NewestKept == PrepTypeOK /\ OnlyOutdatedPruned => RollbackTargetsKept
<1> SUFFICES ASSUME PrepTypeOK, OnlyOutdatedPruned, NEW i \in DOMAIN releases, Successful(i),
                    Cardinality({j \in DOMAIN releases : j >= i /\ Successful(j)}) <= keptReleases
             PROVE  releases[i].row = "available"
  BY DEF RollbackTargetsKept
<1> DEFINE S == {j \in DOMAIN releases : j >= i /\ Successful(j)}
<1>1. Len(releases) \in Nat /\ S \subseteq 1..Len(releases)
  BY DEF PrepTypeOK
<1>4. IsFiniteSet(1..Len(releases))
  BY <1>1, FS_Interval
<1>2. Cardinality(S) \in Nat
  BY <1>1, <1>4, FS_Subset, FS_CardinalityType
<1>3. ~(Cardinality(S) > keptReleases)
  BY <1>2, PreparationAssumption
<1> QED BY <1>3 DEF OnlyOutdatedPruned, Outdated

\* A step of the run with the lease that writes only its own place, workspace and
\* evidence.
LEMMA OwnStep ==
  ASSUME ReleasesKept, NEW r \in PrepRuns, at[r].sub # "ended",
         UNCHANGED <<runPlan, releases, head>>,
         pruner' \in {pruner, NoPruner}, prepCrashes' \in {prepCrashes, prepCrashes + 1},
         objects' \in [GitKinds -> SUBSET Nat], images' \subseteq ImageRow,
         at' = [at EXCEPT ![r] = at'[r]], at'[r] \in StageRow,
         workspace' = [workspace EXCEPT ![r] = workspace'[r]], workspace'[r] \in WorkspaceRow,
         prepared' = [prepared EXCEPT ![r] = prepared'[r]], prepared'[r] \in EvidenceRow,
         StageHolds(runPlan[r], at'[r], workspace'[r], prepared'[r]),
         leased' = 0 \/ (leased' = r /\ at'[r].sub \notin {"queued", "ended"})
  PROVE  ReleasesKept'
<1>1. PrepTypeOK /\ StagesHold /\ OnlyOutdatedPruned /\ BuiltAsReviewed /\ RollbackTargetsKept
  BY DEF ReleasesKept
<1>2. PrepRuns' = PrepRuns /\ ReleaseRow' = ReleaseRow
  BY DEF PrepRuns, ReleaseRow
<1>3. PrepTypeOK'
  <2>1. at' \in [PrepRuns -> StageRow] /\ workspace' \in [PrepRuns -> WorkspaceRow]
        /\ prepared' \in [PrepRuns -> EvidenceRow]
    BY <1>1 DEF PrepTypeOK
  <2>2. leased' \in 0..Len(runPlan)
    BY <1>1 DEF PrepTypeOK, PrepRuns
  <2>3. pruner' \in [todo : SUBSET DOMAIN releases, removing : {0} \union DOMAIN releases]
    BY <1>1 DEF PrepTypeOK, NoPruner
  <2>4. prepCrashes' \in Nat
    BY <1>1 DEF PrepTypeOK
  <2> QED BY <1>1, <1>2, <2>1, <2>2, <2>3, <2>4 DEF PrepTypeOK
<1>4. \A o \in PrepRuns \ {r} :
        at'[o] = at[o] /\ workspace'[o] = workspace[o] /\ prepared'[o] = prepared[o]
  BY <1>1 DEF PrepTypeOK
<1>5. StagesHold'
  <2> SUFFICES ASSUME NEW o \in PrepRuns
               PROVE  /\ StageHolds(runPlan[o], at'[o], workspace'[o], prepared'[o])
                      /\ leased' = o => at'[o].sub \notin {"queued", "ended"}
                      /\ runPlan[o].op # "deploy" => runPlan[o].target \in DOMAIN releases
    BY <1>2 DEF StagesHold
  <2>1. CASE o = r
    BY <1>1, <2>1 DEF StagesHold, PrepRuns
  <2>2. CASE o # r
    BY <1>1, <1>4, <2>2 DEF StagesHold, PrepRuns
  <2> QED BY <2>1, <2>2
<1>6. OnlyOutdatedPruned'
  <2>1. \A i : Outdated(i)' <=> Outdated(i)
    BY DEF Outdated, Successful
  <2>2. \A i \in DOMAIN releases : releases[i].state # "candidate" => at'[releases[i].run].sub = "ended"
    <3> SUFFICES ASSUME NEW i \in DOMAIN releases, releases[i].state # "candidate"
                 PROVE  at'[releases[i].run].sub = "ended"
      OBVIOUS
    <3>1. at[releases[i].run].sub = "ended"
      BY <1>1 DEF OnlyOutdatedPruned
    <3>2. releases[i] \in ReleaseRow
      BY <1>1 DEF PrepTypeOK
    <3>3. releases[i].run \in PrepRuns
      BY <3>2 DEF ReleaseRow
    <3> QED BY <1>4, <3>1, <3>3
  <2>3. pruner'.todo \subseteq pruner.todo /\ pruner'.removing \in {0, pruner.removing}
    BY DEF NoPruner
  <2> QED BY <1>1, <2>1, <2>2, <2>3 DEF OnlyOutdatedPruned
<1>7. BuiltAsReviewed' /\ RollbackTargetsKept'
  BY <1>1 DEF BuiltAsReviewed, RollbackTargetsKept, Successful
<1> QED BY <1>3, <1>5, <1>6, <1>7 DEF ReleasesKept

\* Taking the lease, and the steps that only move on or end the run.
LEMMA MovesHold ==
  ASSUME ReleasesKept, NEW r \in PrepRuns,
         TakeRun(r) \/ ResolveSource(r) \/ AcquireSource(r) \/ AnalyzePlan(r) \/ CancelPrep(r)
  PROVE  ReleasesKept'
<1>1. PrepTypeOK /\ StagesHold
  BY DEF ReleasesKept
<1>2. /\ at[r] \in StageRow /\ runPlan[r] \in PlanRow /\ workspace[r] \in WorkspaceRow
      /\ prepared[r] \in EvidenceRow
      /\ StageHolds(runPlan[r], at[r], workspace[r], prepared[r])
      /\ leased = r => at[r].sub \notin {"queued", "ended"}
  <2>1. runPlan \in Seq(PlanRow) /\ r \in 1..Len(runPlan)
    BY <1>1 DEF PrepTypeOK, PrepRuns
  <2>2. runPlan[r] \in PlanRow
    BY <2>1
  <2> QED BY <1>1, <2>2 DEF PrepTypeOK, StagesHold
<1>3. /\ UNCHANGED <<runPlan, releases, pruner, prepCrashes, head, objects, images, workspace, prepared>>
      /\ at[r].sub # "ended"
      /\ workspace' = [workspace EXCEPT ![r] = workspace'[r]]
      /\ prepared' = [prepared EXCEPT ![r] = prepared'[r]]
      /\ objects' \in [GitKinds -> SUBSET Nat] /\ images' \subseteq ImageRow
  BY <1>1, <1>2 DEF TakeRun, ResolveSource, AcquireSource, AnalyzePlan, CancelPrep, In, PrepTypeOK
<1>4. ASSUME at' = NextPrepStep(r), leased' = r, at[r].step < Len(StepsOf(runPlan[r].op)),
             runPlan[r].op = "deploy" => at[r].step \notin {4, 5}
      PROVE  ReleasesKept'
  <2>1. at' = [at EXCEPT ![r] = at'[r]] /\ at'[r] = [step |-> at[r].step + 1, sub |-> "begin"]
    BY <1>1, <1>4 DEF NextPrepStep, PrepTypeOK
  <2>2. at'[r] \in StageRow
    BY <1>2, <2>1 DEF StageRow
  <2>3. Len(StepsOf(runPlan[r].op)) \in Nat /\ at[r].step \in Nat
    BY <1>2, StepPlaces DEF StageRow
  <2>4. StageHolds(runPlan[r], at'[r], workspace'[r], prepared'[r])
    BY <1>2, <1>3, <1>4, <2>1, <2>3 DEF StageHolds, sameMaterializedIdentity
  <2> QED BY <1>3, <1>2, <1>4, <2>1, <2>2, <2>4, OwnStep
<1>5. ASSUME Ended(r), at[r].step > 0
      PROVE  ReleasesKept'
  <2>1. at' = [at EXCEPT ![r] = at'[r]] /\ at'[r] = [at[r] EXCEPT !.sub = "ended"] /\ leased' = 0
    BY <1>1, <1>5 DEF Ended, Within, PrepTypeOK
  <2>2. at'[r] \in StageRow
    BY <1>2, <2>1 DEF StageRow
  <2>3. StageHolds(runPlan[r], at'[r], workspace'[r], prepared'[r])
    BY <1>2, <1>3, <1>5, <2>1 DEF StageHolds, sameMaterializedIdentity, StageRow
  <2> QED BY <1>3, <1>2, <2>1, <2>2, <2>3, OwnStep
<1>6. CASE TakeRun(r)
  <2>1. at' = NextPrepStep(r) /\ leased' = r /\ at[r].sub = "queued"
    BY <1>6 DEF TakeRun
  <2>2. at[r].step = 0
    BY <1>2, <2>1 DEF StageHolds
  <2> QED BY <1>4, <2>1, <2>2, StepPlaces
<1>7. CASE ResolveSource(r)
  <2>1. at[r].step \in 1..Len(StepsOf(runPlan[r].op)) /\ leased = r
        /\ StepsOf(runPlan[r].op)[at[r].step] = "resolve_source"
    BY <1>1, <1>7, InStep DEF ResolveSource
  <2>2. runPlan[r].op = "deploy" /\ at[r].step = 1 /\ Len(StepsOf(runPlan[r].op)) = 8
    <3>1. runPlan[r].op = "deploy" /\ at[r].step = 1
      BY <1>1, <1>7, DeployStep DEF ResolveSource, MaterializingSteps
    <3> QED BY <3>1, StepPlaces
  <2>3. (at' = NextPrepStep(r) /\ leased' = r) \/ Ended(r)
    BY <1>7, <2>1 DEF ResolveSource
  <2>4. at[r].step < Len(StepsOf(runPlan[r].op))
    <3>1. \A k, n : k \in 1..5 /\ n = 8 => k < n
      OBVIOUS
    <3>2. at[r].step \in 1..5
      BY <2>2
    <3> QED BY <2>2, <3>1, <3>2, Zenon
  <2>5. at[r].step > 0
    BY <2>2
  <2>6. at[r].step \notin {4, 5}
    BY <2>2
  <2> QED BY <1>4, <1>5, <2>3, <2>4, <2>5, <2>6
<1>8. CASE AcquireSource(r)
  <2>1. at[r].step \in 1..Len(StepsOf(runPlan[r].op)) /\ leased = r
        /\ StepsOf(runPlan[r].op)[at[r].step] = "acquire_source"
    BY <1>1, <1>8, InStep DEF AcquireSource
  <2>2. runPlan[r].op = "deploy" /\ at[r].step = 2 /\ Len(StepsOf(runPlan[r].op)) = 8
    <3>1. runPlan[r].op = "deploy" /\ at[r].step = 2
      BY <1>1, <1>8, DeployStep DEF AcquireSource, MaterializingSteps
    <3> QED BY <3>1, StepPlaces
  <2>3. (at' = NextPrepStep(r) /\ leased' = r) \/ Ended(r)
    BY <1>8, <2>1 DEF AcquireSource
  <2>4. at[r].step < Len(StepsOf(runPlan[r].op))
    <3>1. \A k, n : k \in 1..5 /\ n = 8 => k < n
      OBVIOUS
    <3>2. at[r].step \in 1..5
      BY <2>2
    <3> QED BY <2>2, <3>1, <3>2, Zenon
  <2>5. at[r].step > 0
    BY <2>2
  <2>6. at[r].step \notin {4, 5}
    BY <2>2
  <2> QED BY <1>4, <1>5, <2>3, <2>4, <2>5, <2>6
<1>9. CASE AnalyzePlan(r)
  <2>1. at[r].step \in 1..Len(StepsOf(runPlan[r].op)) /\ leased = r
        /\ StepsOf(runPlan[r].op)[at[r].step] = "analyze_plan"
    BY <1>1, <1>9, InStep DEF AnalyzePlan
  <2>2. runPlan[r].op = "deploy" /\ at[r].step = 3 /\ Len(StepsOf(runPlan[r].op)) = 8
    <3>1. runPlan[r].op = "deploy" /\ at[r].step = 3
      BY <1>1, <1>9, DeployStep DEF AnalyzePlan, MaterializingSteps
    <3> QED BY <3>1, StepPlaces
  <2>3. (at' = NextPrepStep(r) /\ leased' = r) \/ Ended(r)
    BY <1>9, <2>1 DEF AnalyzePlan
  <2>4. at[r].step < Len(StepsOf(runPlan[r].op))
    <3>1. \A k, n : k \in 1..5 /\ n = 8 => k < n
      OBVIOUS
    <3>2. at[r].step \in 1..5
      BY <2>2
    <3> QED BY <2>2, <3>1, <3>2, Zenon
  <2>5. at[r].step > 0
    BY <2>2
  <2>6. at[r].step \notin {4, 5}
    BY <2>2
  <2> QED BY <1>4, <1>5, <2>3, <2>4, <2>5, <2>6
<1>10. CASE CancelPrep(r)
  <2>1. Ended(r) /\ at[r].sub = "begin"
    BY <1>10 DEF CancelPrep
  <2>2. at[r].step > 0
    BY <1>2, <2>1 DEF StageHolds, StageRow
  <2> QED BY <1>5, <2>1, <2>2
<1> QED BY <1>6, <1>7, <1>8, <1>9, <1>10

\* A run that materialises is a deploy at one of the steps that do.
LEMMA MaterialStep ==
  ASSUME ReleasesKept, NEW r \in PrepRuns, NEW sub, Materializing(r, sub)
  PROVE  /\ leased = r /\ at[r] \in StageRow /\ at[r].sub = sub
         /\ at[r].step \in {2, 4, 7} /\ runPlan[r].op = "deploy"
         /\ runPlan[r] \in PlanRow /\ workspace[r] \in WorkspaceRow /\ prepared[r] \in EvidenceRow
         /\ StageHolds(runPlan[r], at[r], workspace[r], prepared[r])
<1>1. PICK s \in MaterializingSteps : In(r, s, sub)
  BY DEF Materializing
<1>2. /\ leased = r /\ at[r] \in StageRow /\ at[r].sub = sub
      /\ at[r].step \in 1..Len(StepsOf(runPlan[r].op)) /\ StepsOf(runPlan[r].op)[at[r].step] = s
      /\ runPlan[r] \in PlanRow /\ workspace[r] \in WorkspaceRow /\ prepared[r] \in EvidenceRow
      /\ StageHolds(runPlan[r], at[r], workspace[r], prepared[r])
  BY <1>1, InStep DEF ReleasesKept
<1>3. runPlan[r].op = "deploy"
  BY <1>2, StepPlaces
<1>4. at[r].step \in {2, 4, 7}
  BY <1>2, <1>3, StepPlaces
<1> QED BY <1>2, <1>3, <1>4

\* What is fetched is the recorded source, unless it is a directory that is copied.
LEMMA FetchedIsRecorded ==
  ASSUME PrepTypeOK, NEW p \in PlanRow, NEW id \in FetchedContents(p)
  PROVE  id \in Nat /\ (p.mode # "compose_local" => id = p.identity)
<1>1. p.mode \in Modes /\ p.identity \in Nat /\ p.identity # 0
  BY DEF PlanRow
<1>2. CASE p.mode \in GitKinds
  <2>1. id \in GitContents(p)
    BY <1>2 DEF FetchedContents, GitKinds
  <2> QED BY <1>1, <1>2, <2>1 DEF GitContents
<1>3. CASE p.mode = "compose_local"
  BY <1>1, <1>3 DEF FetchedContents, GitKinds, PrepTypeOK
<1>4. CASE p.mode \in {"paste", "image"}
  BY <1>1, <1>4 DEF FetchedContents, GitKinds
<1>5. CASE p.mode \notin GitKinds /\ p.mode \notin {"compose_local", "paste", "image"}
  BY <1>5 DEF FetchedContents
<1> QED BY <1>2, <1>3, <1>4, <1>5

\* Materialising keeps the recorded source under its marker and nothing else.
LEMMA MaterialHolds ==
  ASSUME ReleasesKept, NEW r \in PrepRuns,
         Materialize(r) \/ MaterializeContent(r) \/ MaterializeMarker(r) \/ MaterializeFails(r)
  PROVE  ReleasesKept'
<1>1. PrepTypeOK /\ StagesHold
  BY DEF ReleasesKept
<1>2. /\ UNCHANGED <<runPlan, releases, pruner, prepCrashes, head, images, prepared>>
      /\ prepared' = [prepared EXCEPT ![r] = prepared'[r]]
      /\ images' \subseteq ImageRow
  BY <1>1 DEF Materialize, MaterializeContent, MaterializeMarker, MaterializeFails, PrepTypeOK
<1>3. CASE Materialize(r)
  <2>1. /\ leased = r /\ at[r] \in StageRow /\ at[r].sub = "begin"
        /\ at[r].step \in {2, 4, 7} /\ runPlan[r].op = "deploy"
        /\ runPlan[r] \in PlanRow /\ workspace[r] \in WorkspaceRow /\ prepared[r] \in EvidenceRow
        /\ StageHolds(runPlan[r], at[r], workspace[r], prepared[r])
    BY <1>3, MaterialStep DEF Materialize
  <2>2. objects' \in [GitKinds -> SUBSET Nat] /\ leased' = r
    BY <1>1, <1>3, <2>1 DEF Materialize, PrepTypeOK
  <2>3. CASE sameMaterializedIdentity(workspace[r], runPlan[r])
    <3>1. /\ at' = [at EXCEPT ![r] = at'[r]] /\ at'[r] = [at[r] EXCEPT !.sub = "work"]
          /\ workspace' = [workspace EXCEPT ![r] = workspace'[r]] /\ workspace'[r] = workspace[r]
      BY <1>1, <1>3, <2>3 DEF Materialize, Within, PrepTypeOK
    <3>2. at'[r] \in StageRow /\ at'[r].sub = "work"
      BY <2>1, <3>1 DEF StageRow
    <3>3. StageHolds(runPlan[r], at'[r], workspace'[r], prepared'[r])
      BY <1>2, <2>1, <2>3, <3>1 DEF StageHolds, sameMaterializedIdentity, StageRow
    <3> QED BY <1>2, <2>1, <2>2, <3>1, <3>2, <3>3, OwnStep
  <2>4. CASE ~sameMaterializedIdentity(workspace[r], runPlan[r])
    <3>1. /\ at' = [at EXCEPT ![r] = at'[r]] /\ at'[r] = [at[r] EXCEPT !.sub = "fetch"]
          /\ workspace' = [workspace EXCEPT ![r] = workspace'[r]]
          /\ workspace'[r] = [exists |-> TRUE, content |-> 0, marker |-> 0]
      BY <1>1, <1>3, <2>4 DEF Materialize, Within, PrepTypeOK, NoWorkspace
    <3>2. at'[r] \in StageRow /\ at'[r].sub = "fetch" /\ workspace'[r] \in WorkspaceRow
      BY <2>1, <3>1 DEF StageRow, WorkspaceRow
    <3>3. runPlan[r].identity # 0
      BY <2>1 DEF PlanRow
    <3>4. StageHolds(runPlan[r], at'[r], workspace'[r], prepared'[r])
      BY <1>2, <2>1, <3>1, <3>3 DEF StageHolds, sameMaterializedIdentity, StageRow
    <3> QED BY <1>2, <2>1, <2>2, <3>1, <3>2, <3>4, OwnStep
  <2> QED BY <2>3, <2>4
<1>4. CASE MaterializeContent(r)
  <2>1. /\ leased = r /\ at[r] \in StageRow /\ at[r].sub = "fetch"
        /\ at[r].step \in {2, 4, 7} /\ runPlan[r].op = "deploy"
        /\ runPlan[r] \in PlanRow /\ workspace[r] \in WorkspaceRow /\ prepared[r] \in EvidenceRow
        /\ StageHolds(runPlan[r], at[r], workspace[r], prepared[r])
    BY <1>4, MaterialStep DEF MaterializeContent
  <2>2. PICK id \in FetchedContents(runPlan[r]) :
          /\ workspace' = [workspace EXCEPT ![r].content = id]
          /\ objects' = IF runPlan[r].mode = "git"
                        THEN [objects EXCEPT !["git"] = @ \union {id}] ELSE objects
    BY <1>4 DEF MaterializeContent
  <2>3. id \in Nat /\ (runPlan[r].mode # "compose_local" => id = runPlan[r].identity)
    BY <1>1, <2>1, FetchedIsRecorded
  <2>4. objects' \in [GitKinds -> SUBSET Nat] /\ leased' = r
    BY <1>1, <1>4, <2>1, <2>2, <2>3 DEF MaterializeContent, PrepTypeOK
  <2>5. /\ at' = [at EXCEPT ![r] = at'[r]] /\ at'[r] = [at[r] EXCEPT !.sub = "mark"]
        /\ workspace' = [workspace EXCEPT ![r] = workspace'[r]]
        /\ workspace'[r] = [workspace[r] EXCEPT !.content = id]
    BY <1>1, <1>4, <2>2 DEF MaterializeContent, Within, PrepTypeOK
  <2>6. at'[r] \in StageRow /\ at'[r].sub = "mark" /\ workspace'[r] \in WorkspaceRow
    BY <2>1, <2>3, <2>5 DEF StageRow, WorkspaceRow
  <2>7. StageHolds(runPlan[r], at'[r], workspace'[r], prepared'[r])
    BY <1>2, <2>1, <2>3, <2>5 DEF StageHolds, sameMaterializedIdentity, StageRow, WorkspaceRow
  <2> QED BY <1>2, <2>1, <2>4, <2>5, <2>6, <2>7, OwnStep
<1>5. CASE MaterializeMarker(r)
  <2>1. /\ leased = r /\ at[r] \in StageRow /\ at[r].sub = "mark"
        /\ at[r].step \in {2, 4, 7} /\ runPlan[r].op = "deploy"
        /\ runPlan[r] \in PlanRow /\ workspace[r] \in WorkspaceRow /\ prepared[r] \in EvidenceRow
        /\ StageHolds(runPlan[r], at[r], workspace[r], prepared[r])
    BY <1>5, MaterialStep DEF MaterializeMarker
  <2>2. objects' \in [GitKinds -> SUBSET Nat] /\ leased' = r
    BY <1>1, <1>5, <2>1 DEF MaterializeMarker, PrepTypeOK
  <2>3. /\ at' = [at EXCEPT ![r] = at'[r]] /\ at'[r] = [at[r] EXCEPT !.sub = "work"]
        /\ workspace' = [workspace EXCEPT ![r] = workspace'[r]]
        /\ workspace'[r] = [workspace[r] EXCEPT !.marker = runPlan[r].identity]
    BY <1>1, <1>5 DEF MaterializeMarker, Within, PrepTypeOK
  <2>4. at'[r] \in StageRow /\ at'[r].sub = "work" /\ workspace'[r] \in WorkspaceRow
    BY <2>1, <2>3 DEF StageRow, WorkspaceRow, PlanRow
  <2>5. StageHolds(runPlan[r], at'[r], workspace'[r], prepared'[r])
    BY <1>2, <2>1, <2>3 DEF StageHolds, sameMaterializedIdentity, StageRow, WorkspaceRow
  <2> QED BY <1>2, <2>1, <2>2, <2>3, <2>4, <2>5, OwnStep
<1>6. CASE MaterializeFails(r)
  <2>1. PICK sub \in {"fetch", "mark"} : Materializing(r, sub)
    BY <1>6 DEF MaterializeFails
  <2>2. /\ leased = r /\ at[r] \in StageRow /\ at[r].sub = sub
        /\ at[r].step \in {2, 4, 7} /\ runPlan[r].op = "deploy"
        /\ runPlan[r] \in PlanRow /\ workspace[r] \in WorkspaceRow /\ prepared[r] \in EvidenceRow
        /\ StageHolds(runPlan[r], at[r], workspace[r], prepared[r])
    BY <2>1, MaterialStep
  <2>3. objects' \in [GitKinds -> SUBSET Nat] /\ leased' = 0
    BY <1>1, <1>6 DEF MaterializeFails, Ended, PrepTypeOK
  <2>4. /\ at' = [at EXCEPT ![r] = at'[r]] /\ at'[r] = [at[r] EXCEPT !.sub = "ended"]
        /\ workspace' = [workspace EXCEPT ![r] = workspace'[r]] /\ workspace'[r] = NoWorkspace
    BY <1>1, <1>6 DEF MaterializeFails, Removed, Ended, Within, PrepTypeOK
  <2>5. at'[r] \in StageRow /\ workspace'[r] \in WorkspaceRow
    BY <2>2, <2>4 DEF StageRow, WorkspaceRow, NoWorkspace
  <2>6. StageHolds(runPlan[r], at'[r], workspace'[r], prepared'[r])
    BY <2>2, <2>4 DEF StageHolds, sameMaterializedIdentity, StageRow, NoWorkspace
  <2> QED BY <1>2, <2>2, <2>3, <2>4, <2>5, <2>6, OwnStep
<1> QED BY <1>3, <1>4, <1>5, <1>6

\* The failing end of a step, which may remove the workspace.
LEMMA FailingEnd ==
  ASSUME ReleasesKept, NEW r \in PrepRuns, NEW s, NEW sub, In(r, s, sub), sub # "ended", Ended(r),
         workspace' = Removed(r) \/ workspace' = workspace,
         UNCHANGED <<head, objects, runPlan, prepared, images, releases, pruner, prepCrashes>>
  PROVE  ReleasesKept'
<1>1. PrepTypeOK /\ StagesHold
  BY DEF ReleasesKept
<1>2. /\ at[r] \in StageRow /\ at[r].sub = sub /\ at[r].step \in 1..Len(StepsOf(runPlan[r].op))
      /\ runPlan[r] \in PlanRow /\ workspace[r] \in WorkspaceRow /\ prepared[r] \in EvidenceRow
      /\ StageHolds(runPlan[r], at[r], workspace[r], prepared[r])
  BY <1>1, InStep
<1>3. /\ at' = [at EXCEPT ![r] = at'[r]] /\ at'[r] = [at[r] EXCEPT !.sub = "ended"] /\ leased' = 0
      /\ workspace' = [workspace EXCEPT ![r] = workspace'[r]]
      /\ workspace'[r] \in {NoWorkspace, workspace[r]}
      /\ prepared' = [prepared EXCEPT ![r] = prepared'[r]] /\ prepared'[r] = prepared[r]
      /\ objects' \in [GitKinds -> SUBSET Nat] /\ images' \subseteq ImageRow
  BY <1>1 DEF Ended, Within, Removed, PrepTypeOK
<1>4. at'[r] \in StageRow /\ workspace'[r] \in WorkspaceRow
  <2>1. at'[r] \in StageRow
    BY <1>2, <1>3 DEF StageRow
  <2>2. NoWorkspace \in WorkspaceRow
    BY DEF WorkspaceRow, NoWorkspace
  <2> QED BY <1>2, <1>3, <2>1, <2>2
<1>5. at[r].step > 0 /\ at[r].step \in Nat
  BY <1>2 DEF StageRow
<1>6. runPlan[r].identity # 0
  BY <1>2 DEF PlanRow
<1>7. StageHolds(runPlan[r], at'[r], workspace'[r], prepared'[r])
  <2>1. CASE workspace'[r] = NoWorkspace
    BY <1>2, <1>3, <1>5, <2>1 DEF StageHolds, sameMaterializedIdentity, StageRow, NoWorkspace
  <2>2. CASE workspace'[r] = workspace[r]
    BY <1>2, <1>3, <1>5, <2>2 DEF StageHolds, sameMaterializedIdentity, StageRow
  <2> QED BY <1>3, <2>1, <2>2
<1> QED BY <1>2, <1>3, <1>4, <1>7, OwnStep

\* An image is built of a marked workspace, so it is one of the recorded source.
LEMMA BuiltIsRecorded ==
  ASSUME ReleasesKept, NEW r \in PrepRuns, In(r, "build_artifact", "begin")
  PROVE  /\ Built(r) \in ImageRow
         /\ runPlan[r].mode # "compose_local" => Built(r).digest = runPlan[r].identity
<1>1. /\ at[r].sub = "begin" /\ at[r].step \in 1..Len(StepsOf(runPlan[r].op))
      /\ StepsOf(runPlan[r].op)[at[r].step] = "build_artifact"
      /\ runPlan[r] \in PlanRow /\ workspace[r] \in WorkspaceRow
      /\ StageHolds(runPlan[r], at[r], workspace[r], prepared[r])
  BY InStep DEF ReleasesKept
<1>2. runPlan[r].op = "deploy" /\ at[r].step = 5
  BY DeployStep DEF ReleasesKept
<1>3. runPlan[r].mode # "compose_local" => workspace[r].content = runPlan[r].identity
  BY <1>1, <1>2 DEF StageHolds
<1>4. workspace[r].content \in Nat /\ runPlan[r].identity \in Nat /\ r \in Nat
  BY <1>1 DEF WorkspaceRow, PlanRow, PrepRuns
<1> QED BY <1>3, <1>4 DEF Built, ImageRow

\* prepare_context, build_artifact and the release tasks.
LEMMA WorkHolds ==
  ASSUME ReleasesKept, NEW r \in PrepRuns, PrepareContext(r) \/ BuildArtifact(r) \/ ReleaseTasks(r)
  PROVE  ReleasesKept'
<1>1. PrepTypeOK /\ StagesHold
  BY DEF ReleasesKept
<1>2. CASE PrepareContext(r)
  <2>1. In(r, "prepare_context", "work")
    BY <1>2 DEF PrepareContext
  <2>2. CASE Ended(r) /\ workspace' = Removed(r) /\ UNCHANGED prepared
    BY <1>2, <2>1, <2>2, FailingEnd DEF PrepareContext
  <2>3. CASE /\ at' = NextPrepStep(r)
             /\ prepared' = [prepared EXCEPT ![r].context = TRUE]
             /\ UNCHANGED <<workspace, leased>>
    <3>1. /\ leased = r /\ at[r] \in StageRow /\ at[r].sub = "work"
          /\ at[r].step \in 1..Len(StepsOf(runPlan[r].op))
          /\ StepsOf(runPlan[r].op)[at[r].step] = "prepare_context"
          /\ runPlan[r] \in PlanRow /\ workspace[r] \in WorkspaceRow /\ prepared[r] \in EvidenceRow
          /\ StageHolds(runPlan[r], at[r], workspace[r], prepared[r])
      BY <1>1, <2>1, InStep
    <3>2. runPlan[r].op = "deploy" /\ at[r].step = 4 /\ 5 <= Len(StepsOf(runPlan[r].op))
      <4>1. runPlan[r].op = "deploy" /\ at[r].step = 4
        BY <1>1, <2>1, DeployStep DEF MaterializingSteps
      <4>2. 5 \in 1..8
        OBVIOUS
      <4> QED BY <4>1, <4>2, StepPlaces
    <3>3. /\ at' = [at EXCEPT ![r] = at'[r]] /\ at'[r] = [step |-> 5, sub |-> "begin"]
          /\ workspace' = [workspace EXCEPT ![r] = workspace'[r]] /\ workspace'[r] = workspace[r]
          /\ prepared' = [prepared EXCEPT ![r] = prepared'[r]]
          /\ prepared'[r] = [prepared[r] EXCEPT !.context = TRUE]
          /\ objects' \in [GitKinds -> SUBSET Nat] /\ images' \subseteq ImageRow
      BY <1>1, <1>2, <2>3, <3>2 DEF PrepareContext, NextPrepStep, PrepTypeOK
    <3>4. at'[r] \in StageRow /\ prepared'[r] \in EvidenceRow
      <4>1. at'[r] \in StageRow
        BY <3>3 DEF StageRow
      <4>2. prepared'[r] \in EvidenceRow
        BY <3>1, <3>3 DEF EvidenceRow
      <4> QED BY <4>1, <4>2
    <3>5. StageHolds(runPlan[r], at'[r], workspace'[r], prepared'[r])
      BY <3>1, <3>2, <3>3 DEF StageHolds, sameMaterializedIdentity
    <3>6. at'[r].sub = "begin" /\ leased' = r
      BY <2>3, <3>1, <3>3
    <3>7. UNCHANGED <<runPlan, releases, pruner, prepCrashes, head>>
      BY <1>2 DEF PrepareContext
    <3> QED BY <3>1, <3>3, <3>4, <3>5, <3>6, <3>7, OwnStep
  <2> QED BY <1>2, <2>2, <2>3 DEF PrepareContext
<1>3. CASE BuildArtifact(r)
  <2>1. In(r, "build_artifact", "begin")
    BY <1>3 DEF BuildArtifact
  <2>2. CASE Ended(r) /\ workspace' = Removed(r) /\ UNCHANGED <<images, prepared>>
    BY <1>3, <2>1, <2>2, FailingEnd DEF BuildArtifact
  <2>3. CASE /\ images' = {i \in images : i.ref # Built(r).ref \/ i.ref = 0} \union {Built(r)}
             /\ prepared' = [prepared EXCEPT ![r].image = Built(r).digest]
             /\ at' = NextPrepStep(r)
             /\ UNCHANGED <<workspace, leased>>
    <3>1. /\ leased = r /\ at[r] \in StageRow /\ at[r].sub = "begin"
          /\ at[r].step \in 1..Len(StepsOf(runPlan[r].op))
          /\ StepsOf(runPlan[r].op)[at[r].step] = "build_artifact"
          /\ runPlan[r] \in PlanRow /\ workspace[r] \in WorkspaceRow /\ prepared[r] \in EvidenceRow
          /\ StageHolds(runPlan[r], at[r], workspace[r], prepared[r])
      BY <1>1, <2>1, InStep
    <3>2. runPlan[r].op = "deploy" /\ at[r].step = 5 /\ 6 <= Len(StepsOf(runPlan[r].op))
      <4>1. runPlan[r].op = "deploy" /\ at[r].step = 5
        BY <1>1, <2>1, DeployStep DEF MaterializingSteps
      <4>2. 6 \in 1..8
        OBVIOUS
      <4> QED BY <4>1, <4>2, StepPlaces
    <3>3. /\ Built(r) \in ImageRow
          /\ runPlan[r].mode # "compose_local" => Built(r).digest = runPlan[r].identity
      BY <2>1, BuiltIsRecorded
    <3>4. /\ at' = [at EXCEPT ![r] = at'[r]] /\ at'[r] = [step |-> 6, sub |-> "begin"]
          /\ workspace' = [workspace EXCEPT ![r] = workspace'[r]] /\ workspace'[r] = workspace[r]
          /\ prepared' = [prepared EXCEPT ![r] = prepared'[r]]
          /\ prepared'[r] = [prepared[r] EXCEPT !.image = Built(r).digest]
          /\ objects' \in [GitKinds -> SUBSET Nat] /\ images' \subseteq ImageRow
      BY <1>1, <1>3, <2>3, <3>2, <3>3 DEF BuildArtifact, NextPrepStep, PrepTypeOK
    <3>5. Built(r).digest \in Nat
      BY <3>3 DEF ImageRow
    <3>6. at'[r] \in StageRow /\ prepared'[r] \in EvidenceRow /\ prepared'[r].image = Built(r).digest
      BY <3>1, <3>4, <3>5 DEF StageRow, EvidenceRow
    <3>7. StageHolds(runPlan[r], at'[r], workspace'[r], prepared'[r])
      BY <3>1, <3>2, <3>3, <3>4, <3>6 DEF StageHolds, sameMaterializedIdentity
    <3>8. at'[r].sub = "begin" /\ leased' = r
      BY <2>3, <3>1, <3>4
    <3>9. UNCHANGED <<runPlan, releases, pruner, prepCrashes, head>>
      BY <1>3 DEF BuildArtifact
    <3> QED BY <3>1, <3>4, <3>6, <3>7, <3>8, <3>9, OwnStep
  <2> QED BY <1>3, <2>2, <2>3 DEF BuildArtifact
<1>4. CASE ReleaseTasks(r)
  <2>1. In(r, "release_task", "work")
    BY <1>4 DEF ReleaseTasks
  <2>2. CASE Ended(r) /\ (workspace' = Removed(r) \/ workspace' = workspace)
    BY <1>4, <2>1, <2>2, FailingEnd DEF ReleaseTasks
  <2>3. CASE workspace' = Removed(r) /\ at' = NextPrepStep(r) /\ UNCHANGED leased
    <3>1. /\ leased = r /\ at[r] \in StageRow /\ at[r].sub = "work"
          /\ at[r].step \in 1..Len(StepsOf(runPlan[r].op))
          /\ StepsOf(runPlan[r].op)[at[r].step] = "release_task"
          /\ runPlan[r] \in PlanRow /\ workspace[r] \in WorkspaceRow /\ prepared[r] \in EvidenceRow
          /\ StageHolds(runPlan[r], at[r], workspace[r], prepared[r])
      BY <1>1, <2>1, InStep
    <3>2. runPlan[r].op = "deploy" /\ at[r].step = 7 /\ 8 <= Len(StepsOf(runPlan[r].op))
      <4>1. runPlan[r].op = "deploy" /\ at[r].step = 7
        BY <1>1, <2>1, DeployStep DEF MaterializingSteps
      <4>2. 8 \in 1..8
        OBVIOUS
      <4> QED BY <4>1, <4>2, StepPlaces
    <3>3. /\ at' = [at EXCEPT ![r] = at'[r]] /\ at'[r] = [step |-> 8, sub |-> "begin"]
          /\ workspace' = [workspace EXCEPT ![r] = workspace'[r]] /\ workspace'[r] = NoWorkspace
          /\ prepared' = [prepared EXCEPT ![r] = prepared'[r]] /\ prepared'[r] = prepared[r]
          /\ objects' \in [GitKinds -> SUBSET Nat] /\ images' \subseteq ImageRow
      BY <1>1, <1>4, <2>3, <3>2 DEF ReleaseTasks, NextPrepStep, Removed, PrepTypeOK
    <3>4. at'[r] \in StageRow /\ workspace'[r] \in WorkspaceRow
      BY <3>1, <3>3 DEF StageRow, WorkspaceRow, NoWorkspace
    <3>5. StageHolds(runPlan[r], at'[r], workspace'[r], prepared'[r])
      <4>1. runPlan[r].identity # 0
        BY <3>1 DEF PlanRow
      <4> QED BY <3>1, <3>2, <3>3, <4>1 DEF StageHolds, sameMaterializedIdentity, NoWorkspace
    <3>6. at'[r].sub = "begin" /\ leased' = r
      BY <2>3, <3>1, <3>3
    <3>7. UNCHANGED <<runPlan, releases, pruner, prepCrashes, head>>
      BY <1>4 DEF ReleaseTasks
    <3> QED BY <3>1, <3>3, <3>4, <3>5, <3>6, <3>7, OwnStep
  <2> QED BY <1>4, <2>2, <2>3 DEF ReleaseTasks
<1> QED BY <1>2, <1>3, <1>4

\* A release row that is written keeps its image and what it had achieved.
RowKept(i) ==
  /\ releases'[i].run = releases[i].run /\ releases'[i].of = releases[i].of
  /\ releases'[i].image = releases[i].image /\ releases'[i].row = releases[i].row
  /\ releases[i].state = "retained" => releases'[i].state = "retained"
  /\ Successful(i) => Successful(i)'

HoldsReviewed(e) == runPlan[e.of].mode # "compose_local" => e.image.digest = runPlan[e.of].identity

\* A step of the run with the lease that writes release rows.
LEMMA ReleaseStep ==
  ASSUME ReleasesKept, NEW r \in PrepRuns,
         UNCHANGED <<runPlan, pruner, prepCrashes, head, objects, images, workspace, prepared>>,
         at' = [at EXCEPT ![r] = at'[r]], at'[r] \in StageRow,
         StageHolds(runPlan[r], at'[r], workspace[r], prepared[r]),
         leased' = 0 \/ (leased' = r /\ at'[r].sub \notin {"queued", "ended"}),
         releases' \in Seq(ReleaseRow), DOMAIN releases \subseteq DOMAIN releases',
         \A i \in DOMAIN releases : RowKept(i),
         \A i \in DOMAIN releases' :
            releases'[i].state # "candidate" => at'[releases'[i].run].sub = "ended",
         \A i \in DOMAIN releases' \ DOMAIN releases :
            releases'[i].row = "available" /\ HoldsReviewed(releases'[i])
  PROVE  ReleasesKept'
<1>1. PrepTypeOK /\ StagesHold /\ OnlyOutdatedPruned /\ BuiltAsReviewed
  BY DEF ReleasesKept
<1>2. PrepRuns' = PrepRuns /\ ReleaseRow' = ReleaseRow
  BY DEF PrepRuns, ReleaseRow
<1>3. PrepTypeOK'
  <2>1. at' \in [PrepRuns -> StageRow]
    BY <1>1 DEF PrepTypeOK
  <2>2. leased' \in 0..Len(runPlan)
    BY <1>1 DEF PrepTypeOK, PrepRuns
  <2>3. pruner \in [todo : SUBSET DOMAIN releases', removing : {0} \union DOMAIN releases']
    <3>1. pruner \in [todo : SUBSET DOMAIN releases, removing : {0} \union DOMAIN releases]
      BY <1>1 DEF PrepTypeOK
    <3> QED BY <3>1
  <2> QED BY <1>1, <1>2, <2>1, <2>2, <2>3 DEF PrepTypeOK
<1>4. StagesHold'
  <2> SUFFICES ASSUME NEW o \in PrepRuns
               PROVE  /\ StageHolds(runPlan[o], at'[o], workspace[o], prepared[o])
                      /\ leased' = o => at'[o].sub \notin {"queued", "ended"}
                      /\ runPlan[o].op # "deploy" => runPlan[o].target \in DOMAIN releases'
    BY <1>2 DEF StagesHold
  <2>1. CASE o = r
    BY <1>1, <2>1 DEF StagesHold, PrepRuns
  <2>2. CASE o # r
    <3>1. at'[o] = at[o]
      BY <1>1, <2>2 DEF PrepTypeOK
    <3> QED BY <1>1, <2>2, <3>1 DEF StagesHold, PrepRuns
  <2> QED BY <2>1, <2>2
<1>5. OnlyOutdatedPruned'
  <2>1. ASSUME NEW i \in DOMAIN releases, Outdated(i) PROVE Outdated(i)'
    <3>1. releases'[i].state = "retained" /\ \A j \in DOMAIN releases : Successful(j) => Successful(j)'
      BY <2>1 DEF RowKept, Outdated
    <3>2. keptReleases \in Nat
      BY PreparationAssumption
    <3> QED BY <1>1, <1>2, <2>1, <3>1, <3>2, OutdatedStays DEF PrepTypeOK
  <2>2. ASSUME NEW i \in DOMAIN releases', releases'[i].row # "available" PROVE Outdated(i)'
    <3>1. i \in DOMAIN releases /\ releases[i].row # "available"
      BY <2>2 DEF RowKept
    <3> QED BY <1>1, <2>1, <3>1 DEF OnlyOutdatedPruned
  <2>3. pruner.todo \subseteq DOMAIN releases /\ pruner.removing \in {0} \union DOMAIN releases
    BY <1>1 DEF PrepTypeOK
  <2>4. \A i \in pruner'.todo : Outdated(i)'
    BY <1>1, <2>1, <2>3 DEF OnlyOutdatedPruned
  <2>5. pruner'.removing # 0 => Outdated(pruner.removing)'
    BY <1>1, <2>1, <2>3 DEF OnlyOutdatedPruned
  <2> QED BY <2>2, <2>4, <2>5 DEF OnlyOutdatedPruned
<1>6. BuiltAsReviewed'
  <2> SUFFICES ASSUME NEW i \in DOMAIN releases' PROVE HoldsReviewed(releases'[i])
    BY DEF BuiltAsReviewed, HoldsReviewed
  <2>1. CASE i \in DOMAIN releases
    BY <1>1, <2>1 DEF BuiltAsReviewed, HoldsReviewed, RowKept
  <2> QED BY <2>1
<1>7. RollbackTargetsKept'
  BY <1>3, <1>5, NewestKept, PTL
<1> QED BY <1>3, <1>4, <1>5, <1>6, <1>7 DEF ReleasesKept

\* Only candidates belong to a run that has not ended.
LEMMA OpenRunsOwnCandidates ==
  ASSUME ReleasesKept, NEW r \in PrepRuns, at[r].sub # "ended", NEW i \in DOMAIN releases
  PROVE  /\ releases[i] \in ReleaseRow /\ releases[i].run \in PrepRuns
         /\ releases[i].run = r => releases[i].state = "candidate"
<1>1. releases[i] \in ReleaseRow
  BY DEF ReleasesKept, PrepTypeOK
<1>2. releases[i].run \in PrepRuns
  BY <1>1 DEF ReleaseRow
<1> QED BY <1>1, <1>2 DEF ReleasesKept, OnlyOutdatedPruned

\* render_runtime is the sixth step of a deploy and the first of the others; what a
\* deploy built by then is the recorded source.
LEMMA RenderMovesOn ==
  ASSUME ReleasesKept, NEW r \in PrepRuns, In(r, "render_runtime", "begin"), at' = NextPrepStep(r)
  PROVE  /\ leased = r /\ at[r].sub = "begin"
         /\ at' = [at EXCEPT ![r] = at'[r]] /\ at'[r] \in StageRow /\ at'[r].sub = "begin"
         /\ StageHolds(runPlan[r], at'[r], workspace[r], prepared[r])
         /\ runPlan[r].op = "deploy" /\ runPlan[r].mode # "compose_local"
              => prepared[r].image = runPlan[r].identity
<1>1. PrepTypeOK /\ StagesHold /\ OnlyOutdatedPruned
  BY DEF ReleasesKept
<1>2. /\ leased = r /\ at[r] \in StageRow /\ at[r].sub = "begin"
      /\ at[r].step \in 1..Len(StepsOf(runPlan[r].op))
      /\ StepsOf(runPlan[r].op)[at[r].step] = "render_runtime"
      /\ StageHolds(runPlan[r], at[r], workspace[r], prepared[r])
  BY <1>1, InStep
<1>3. /\ at[r].step + 1 <= Len(StepsOf(runPlan[r].op)) /\ at[r].step \in Nat
      /\ runPlan[r].op = "deploy" => at[r].step = 6
  <2>1. CASE runPlan[r].op = "deploy"
    <3>1. at[r].step \in 1..8 /\ StepsOf("deploy")[at[r].step] = "render_runtime"
      BY <1>2, <2>1, StepPlaces
    <3>2. at[r].step = 6
      BY <3>1, StepPlaces
    <3>3. 7 \in 1..8
      OBVIOUS
    <3> QED BY <2>1, <3>2, <3>3, StepPlaces
  <2>2. CASE runPlan[r].op # "deploy"
    <3>1. at[r].step \in 1..2
      BY <1>2, <2>2, StepPlaces
    <3>2. at[r].step = 1
      BY <1>2, <2>2, <3>1, StepPlaces
    <3>3. 2 \in 1..2
      OBVIOUS
    <3> QED BY <2>2, <3>2, <3>3, StepPlaces
  <2> QED BY <2>1, <2>2
<1>4. at' = [at EXCEPT ![r] = at'[r]] /\ at'[r] = [step |-> at[r].step + 1, sub |-> "begin"]
  BY <1>1 DEF NextPrepStep, PrepTypeOK
<1>5. at'[r] \in StageRow /\ at'[r].sub = "begin"
  BY <1>3, <1>4 DEF StageRow
<1>6. StageHolds(runPlan[r], at'[r], workspace[r], prepared[r])
  BY <1>2, <1>3, <1>4 DEF StageHolds, sameMaterializedIdentity
<1>7. runPlan[r].op = "deploy" /\ runPlan[r].mode # "compose_local"
        => prepared[r].image = runPlan[r].identity
  BY <1>2, <1>3 DEF StageHolds
<1> QED BY <1>2, <1>4, <1>5, <1>6, <1>7

\* A run moves on past render_runtime with a new candidate.
LEMMA CandidateAdded ==
  ASSUME ReleasesKept, NEW r \in PrepRuns, In(r, "render_runtime", "begin"),
         UNCHANGED <<runPlan, pruner, prepCrashes, head, objects, images, workspace, prepared, leased>>,
         at' = NextPrepStep(r), NEW e \in ReleaseRow, releases' = Append(releases, e),
         e.state = "candidate", e.row = "available", HoldsReviewed(e)
  PROVE  ReleasesKept'
<1>1. PrepTypeOK /\ OnlyOutdatedPruned
  BY DEF ReleasesKept
<1>2. /\ leased = r /\ at[r].sub = "begin"
      /\ at' = [at EXCEPT ![r] = at'[r]] /\ at'[r] \in StageRow /\ at'[r].sub = "begin"
      /\ StageHolds(runPlan[r], at'[r], workspace[r], prepared[r])
  BY RenderMovesOn
<1>7. /\ releases' \in Seq(ReleaseRow) /\ Len(releases') = Len(releases) + 1
      /\ \A i \in 1..Len(releases) : releases'[i] = releases[i]
      /\ releases'[Len(releases) + 1] = e
  BY <1>1, AppendProperties DEF PrepTypeOK
<1>8. /\ Len(releases) \in Nat /\ DOMAIN releases = 1..Len(releases)
      /\ DOMAIN releases' = 1..(Len(releases) + 1)
  BY <1>1, <1>7 DEF PrepTypeOK
<1>9. \A i \in DOMAIN releases : RowKept(i)
  BY <1>7, <1>8 DEF RowKept, Successful
<1>10. \A i \in DOMAIN releases' \ DOMAIN releases :
         releases'[i].row = "available" /\ HoldsReviewed(releases'[i])
  BY <1>7, <1>8
<1>11. ASSUME NEW i \in DOMAIN releases', releases'[i].state # "candidate"
       PROVE  at'[releases'[i].run].sub = "ended"
  <2>1. i \in DOMAIN releases /\ releases'[i] = releases[i]
    BY <1>7, <1>8, <1>11
  <2>2. at[releases[i].run].sub = "ended"
    BY <1>1, <1>11, <2>1 DEF OnlyOutdatedPruned
  <2>3. releases[i].run # r /\ releases[i].run \in PrepRuns
    BY <1>2, <1>11, <2>1, OpenRunsOwnCandidates
  <2>4. at'[releases[i].run] = at[releases[i].run]
    BY <1>1, <1>2, <2>3 DEF PrepTypeOK
  <2> QED BY <2>1, <2>2, <2>4
<1>12. leased' = r /\ DOMAIN releases \subseteq DOMAIN releases'
  BY <1>2, <1>8
<1> QED BY <1>2, <1>7, <1>9, <1>10, <1>11, <1>12, ReleaseStep

\* A run makes its release of what was built, and only one.
LEMMA RenderHolds ==
  ASSUME ReleasesKept, NEW r \in PrepRuns, RenderRuntime(r)
  PROVE  ReleasesKept'
<1>1. PrepTypeOK /\ In(r, "render_runtime", "begin") /\ at' = NextPrepStep(r)
  BY DEF ReleasesKept, RenderRuntime
<1>2. /\ leased = r /\ at[r].sub = "begin"
      /\ at' = [at EXCEPT ![r] = at'[r]] /\ at'[r] \in StageRow /\ at'[r].sub = "begin"
      /\ StageHolds(runPlan[r], at'[r], workspace[r], prepared[r])
      /\ runPlan[r].mode # "compose_local" => prepared[r].image = runPlan[r].identity
  BY <1>1, RenderMovesOn DEF RenderRuntime
<1>3. prepared[r] \in EvidenceRow /\ workspace[r] \in WorkspaceRow /\ runPlan[r] \in PlanRow
  BY <1>1, InStep DEF ReleasesKept
<1>4. CASE releases' = releases
  <2>1. /\ workspace' = [workspace EXCEPT ![r] = workspace'[r]] /\ workspace'[r] = workspace[r]
        /\ prepared' = [prepared EXCEPT ![r] = prepared'[r]] /\ prepared'[r] = prepared[r]
        /\ objects' \in [GitKinds -> SUBSET Nat] /\ images' \subseteq ImageRow
    BY <1>1 DEF RenderRuntime, PrepTypeOK
  <2>2. UNCHANGED <<runPlan, releases, pruner, prepCrashes, head>> /\ leased' = r
    BY <1>2, <1>4 DEF RenderRuntime
  <2> QED BY <1>2, <1>3, <2>1, <2>2, OwnStep
<1>5. CASE releases' = Append(releases, Row(r, [ref |-> Built(r).ref, digest |-> prepared[r].image], r))
  <2> DEFINE e == Row(r, [ref |-> Built(r).ref, digest |-> prepared[r].image], r)
  <2>1. Built(r).ref \in Nat /\ prepared[r].image \in Nat
    BY <1>3 DEF Built, EvidenceRow, PrepRuns
  <2>2. e \in ReleaseRow /\ e.state = "candidate" /\ e.row = "available"
    BY <2>1 DEF Row, ReleaseRow, ImageRow
  <2>3. HoldsReviewed(e)
    BY <1>2 DEF HoldsReviewed, Row
  <2>4. /\ UNCHANGED <<runPlan, pruner, prepCrashes, head, objects, images, workspace, prepared, leased>>
        /\ releases' = Append(releases, e)
    BY <1>5 DEF RenderRuntime
  <2> HIDE DEF e
  <2> QED BY <1>1, <2>2, <2>3, <2>4, CandidateAdded
<1> QED BY <1>4, <1>5 DEF RenderRuntime

\* A clone holds what the release it repeats holds.
LEMMA CloneHolds ==
  ASSUME ReleasesKept, NEW r \in PrepRuns, Clone(r)
  PROVE  ReleasesKept'
<1>1. PrepTypeOK /\ StagesHold /\ BuiltAsReviewed /\ In(r, "render_runtime", "begin")
  BY DEF ReleasesKept, Clone
<1>2. UNCHANGED <<head, objects, runPlan, workspace, prepared, images, pruner, prepCrashes>>
  BY DEF Clone
<1>3. CASE Ended(r) /\ UNCHANGED releases
  BY <1>1, <1>2, <1>3, FailingEnd
<1>4. CASE /\ releases' = Append(releases, Row(r, releases[runPlan[r].target].image,
                                             releases[runPlan[r].target].of))
           /\ at' = NextPrepStep(r) /\ UNCHANGED leased
  <2> DEFINE t == releases[runPlan[r].target]
             e == Row(r, t.image, t.of)
  <2>1. runPlan[r].target \in DOMAIN releases
    BY <1>1 DEF StagesHold, Clone
  <2>2. t \in ReleaseRow
    BY <1>1, <2>1 DEF PrepTypeOK
  <2>3. e \in ReleaseRow /\ e.state = "candidate" /\ e.row = "available"
    BY <2>2 DEF Row, ReleaseRow
  <2>4. HoldsReviewed(e)
    BY <1>1, <2>1 DEF HoldsReviewed, Row, BuiltAsReviewed
  <2>5. releases' = Append(releases, e)
    BY <1>4
  <2> HIDE DEF e
  <2> QED BY <1>1, <1>2, <1>4, <2>3, <2>4, <2>5, CandidateAdded
<1> QED BY <1>3, <1>4 DEF Clone

\* Going live makes one success of a candidate and keeps the others.
LEMMA ActivateHolds ==
  ASSUME ReleasesKept, NEW r \in PrepRuns, Activate(r)
  PROVE  ReleasesKept'
<1>1. PrepTypeOK /\ StagesHold /\ OnlyOutdatedPruned /\ In(r, "activate", "begin") /\ Ended(r)
  BY DEF ReleasesKept, Activate
<1>2. UNCHANGED <<head, objects, runPlan, workspace, prepared, images, pruner, prepCrashes>>
  BY DEF Activate
<1>3. CASE UNCHANGED releases
  BY <1>1, <1>2, <1>3, FailingEnd
<1>4. CASE releases' = [i \in DOMAIN releases |->
             IF releases[i].run = r THEN [releases[i] EXCEPT !.state = "live"]
             ELSE IF releases[i].state = "live" THEN [releases[i] EXCEPT !.state = "retained"]
             ELSE releases[i]]
  <2>1. /\ at[r] \in StageRow /\ at[r].sub = "begin" /\ at[r].step \in 1..Len(StepsOf(runPlan[r].op))
        /\ StageHolds(runPlan[r], at[r], workspace[r], prepared[r])
    BY <1>1, InStep
  <2>2. /\ at' = [at EXCEPT ![r] = at'[r]] /\ at'[r] = [at[r] EXCEPT !.sub = "ended"] /\ leased' = 0
    BY <1>1 DEF Ended, Within, PrepTypeOK
  <2>3. at'[r] \in StageRow /\ at'[r].sub = "ended" /\ at[r].step > 0
    BY <2>1, <2>2 DEF StageRow
  <2>4. StageHolds(runPlan[r], at'[r], workspace[r], prepared[r])
    BY <2>1, <2>2, <2>3 DEF StageHolds, sameMaterializedIdentity, StageRow
  <2>5. DOMAIN releases' = DOMAIN releases /\ DOMAIN releases = 1..Len(releases) /\ Len(releases) \in Nat
    BY <1>1, <1>4 DEF PrepTypeOK
  <2>6. ASSUME NEW i \in DOMAIN releases
        PROVE  /\ releases'[i] \in ReleaseRow /\ RowKept(i)
               /\ releases'[i].state # "candidate" => at'[releases'[i].run].sub = "ended"
    <3>1. /\ releases[i] \in ReleaseRow /\ releases[i].run \in PrepRuns
          /\ releases[i].run = r => releases[i].state = "candidate"
      BY <2>1, <2>6, OpenRunsOwnCandidates
    <3>2. CASE releases[i].run = r
      <4>1. releases'[i] = [releases[i] EXCEPT !.state = "live"]
        BY <1>4, <3>2
      <4>2. releases'[i] \in ReleaseRow /\ releases'[i].run = r
        BY <3>1, <3>2, <4>1 DEF ReleaseRow
      <4>3. RowKept(i)
        BY <3>1, <3>2, <4>1 DEF ReleaseRow, RowKept, Successful
      <4> QED BY <2>3, <4>2, <4>3
    <3>3. CASE releases[i].run # r /\ releases[i].state = "live"
      <4>1. releases'[i] = [releases[i] EXCEPT !.state = "retained"]
        BY <1>4, <3>3
      <4>2. releases'[i] \in ReleaseRow /\ releases'[i].run = releases[i].run
        BY <3>1, <4>1 DEF ReleaseRow
      <4>3. RowKept(i)
        BY <3>1, <3>3, <4>1 DEF ReleaseRow, RowKept, Successful
      <4>4. at[releases[i].run].sub = "ended"
        BY <1>1, <3>3 DEF OnlyOutdatedPruned
      <4>5. at'[releases[i].run] = at[releases[i].run]
        BY <1>1, <2>2, <3>1, <3>3 DEF PrepTypeOK
      <4> QED BY <4>2, <4>3, <4>4, <4>5
    <3>4. CASE releases[i].run # r /\ releases[i].state # "live"
      <4>1. releases'[i] = releases[i]
        BY <1>4, <3>4
      <4>2. RowKept(i)
        BY <4>1 DEF RowKept, Successful
      <4>3. releases[i].state # "candidate" => at[releases[i].run].sub = "ended"
        BY <1>1 DEF OnlyOutdatedPruned
      <4>4. at'[releases[i].run] = at[releases[i].run]
        BY <1>1, <2>2, <3>1, <3>4 DEF PrepTypeOK
      <4> QED BY <3>1, <4>1, <4>2, <4>3, <4>4
    <3> QED BY <3>2, <3>3, <3>4
  <2>7. releases' \in Seq(ReleaseRow)
    <3>1. releases' \in [1..Len(releases) -> ReleaseRow]
      BY <1>4, <2>5, <2>6
    <3> QED BY <2>5, <3>1
  <2>8. DOMAIN releases \subseteq DOMAIN releases' /\ DOMAIN releases' \ DOMAIN releases = {}
    BY <2>5
  <2> QED BY <1>2, <2>2, <2>3, <2>4, <2>5, <2>6, <2>7, <2>8, ReleaseStep
<1> QED BY <1>3, <1>4 DEF Activate

\* A restart goes back to the beginning of a step, or ends the run; the cleanup of the
\* old process is gone.
LEMMA CrashHolds ==
  ASSUME ReleasesKept, CrashPrep
  PROVE  ReleasesKept'
<1>1. PrepTypeOK /\ StagesHold /\ OnlyOutdatedPruned /\ BuiltAsReviewed /\ RollbackTargetsKept
  BY DEF ReleasesKept
<1>2. /\ UNCHANGED <<head, objects, runPlan, workspace, prepared, images, releases>>
      /\ pruner' = NoPruner /\ prepCrashes' = prepCrashes + 1
  BY DEF CrashPrep
<1>3. CASE leased = 0
  <2>1. UNCHANGED <<at, leased>>
    BY <1>3 DEF CrashPrep
  <2>2. PrepRuns' = PrepRuns /\ ReleaseRow' = ReleaseRow
    BY <1>2 DEF PrepRuns, ReleaseRow
  <2>3. NoPruner \in [todo : SUBSET DOMAIN releases, removing : {0} \union DOMAIN releases]
    BY DEF NoPruner
  <2>4. PrepTypeOK'
    BY <1>1, <1>2, <2>1, <2>2, <2>3 DEF PrepTypeOK
  <2>5. StagesHold'
    BY <1>1, <1>2, <2>1, <2>2 DEF StagesHold
  <2>6. OnlyOutdatedPruned'
    <3>1. \A i : Outdated(i)' <=> Outdated(i)
      BY <1>2 DEF Outdated, Successful
    <3>2. pruner'.todo = {} /\ pruner'.removing = 0
      BY <1>2 DEF NoPruner
    <3> QED BY <1>1, <1>2, <2>1, <3>1, <3>2 DEF OnlyOutdatedPruned
  <2> QED BY <1>1, <1>2, <2>4, <2>5, <2>6 DEF ReleasesKept, BuiltAsReviewed, RollbackTargetsKept, Successful
<1>4. CASE leased # 0
  <2> DEFINE r == leased
  <2>1. r \in PrepRuns
    BY <1>1, <1>4 DEF PrepTypeOK, PrepRuns
  <2>2. /\ at[r] \in StageRow /\ workspace[r] \in WorkspaceRow /\ prepared[r] \in EvidenceRow
        /\ StageHolds(runPlan[r], at[r], workspace[r], prepared[r])
        /\ at[r].sub \notin {"queued", "ended"}
    BY <1>1, <2>1 DEF PrepTypeOK, StagesHold
  <2>3. PICK sub \in {"begin", "ended"} :
          /\ at' = [at EXCEPT ![r] = at'[r]] /\ at'[r] = [at[r] EXCEPT !.sub = sub]
          /\ leased' = IF sub = "ended" THEN 0 ELSE r
    <3>1. CASE at' = Within(leased, "begin") /\ UNCHANGED leased
      BY <1>1, <2>1, <3>1 DEF Within, PrepTypeOK
    <3>2. CASE Ended(leased)
      BY <1>1, <2>1, <3>2 DEF Ended, Within, PrepTypeOK
    <3> QED BY <1>4, <3>1, <3>2 DEF CrashPrep
  <2>4. at'[r] \in StageRow /\ at'[r].sub = sub
    BY <2>2, <2>3 DEF StageRow
  <2>5. StageHolds(runPlan[r], at'[r], workspace'[r], prepared'[r])
    BY <1>2, <2>2, <2>3 DEF StageHolds, sameMaterializedIdentity, StageRow
  <2>6. /\ workspace' = [workspace EXCEPT ![r] = workspace'[r]] /\ workspace'[r] = workspace[r]
        /\ prepared' = [prepared EXCEPT ![r] = prepared'[r]] /\ prepared'[r] = prepared[r]
        /\ objects' \in [GitKinds -> SUBSET Nat] /\ images' \subseteq ImageRow
    BY <1>1, <1>2 DEF PrepTypeOK
  <2>7. leased' = 0 \/ (leased' = r /\ at'[r].sub \notin {"queued", "ended"})
    BY <2>3, <2>4
  <2> HIDE DEF r
  <2> QED BY <1>2, <2>1, <2>2, <2>3, <2>4, <2>5, <2>6, <2>7, OwnStep
<1> QED BY <1>3, <1>4

\* A run enqueued finds its row at the end of every table.
LEMMA EnqueuedHolds ==
  ASSUME ReleasesKept, NEW p \in PlanRow, Enqueued(p),
         p.op # "deploy" => p.target \in DOMAIN releases,
         objects' \in [GitKinds -> SUBSET Nat],
         UNCHANGED <<head, images, releases, leased, pruner, prepCrashes>>
  PROVE  ReleasesKept'
<1> DEFINE n == Len(runPlan)
           a == [step |-> 0, sub |-> "queued"]
           e == [context |-> FALSE, image |-> 0]
<1>1. PrepTypeOK /\ StagesHold /\ OnlyOutdatedPruned /\ BuiltAsReviewed /\ RollbackTargetsKept
  BY DEF ReleasesKept
<1>2. n \in Nat /\ PrepRuns = 1..n
  BY <1>1 DEF PrepTypeOK, PrepRuns
<1>3. /\ runPlan' \in Seq(PlanRow) /\ Len(runPlan') = n + 1
      /\ \A i \in 1..n : runPlan'[i] = runPlan[i]
      /\ runPlan'[n + 1] = p
  BY <1>1, AppendProperties DEF Enqueued, PrepTypeOK
<1>4. a \in StageRow /\ NoWorkspace \in WorkspaceRow /\ e \in EvidenceRow
  BY DEF StageRow, NoWorkspace, WorkspaceRow, EvidenceRow
<1>5. /\ at' \in [1..(n + 1) -> StageRow] /\ at'[n + 1] = a
      /\ \A i \in 1..n : at'[i] = at[i]
  <2>1. at \in Seq(StageRow) /\ Len(at) = n /\ at' = Append(at, a)
    BY <1>1, <1>2 DEF Enqueued, PrepTypeOK
  <2>2. a \in StageRow
    BY <1>4
  <2> HIDE DEF a, e
  <2>3. /\ at' \in Seq(StageRow) /\ Len(at') = n + 1 /\ at'[n + 1] = a
        /\ \A i \in 1..n : at'[i] = at[i]
    BY <2>1, <2>2, AppendProperties
  <2>4. \A s \in Seq(StageRow) : s \in [1..Len(s) -> StageRow]
    OBVIOUS
  <2> QED BY <2>3, <2>4
<1>6. /\ workspace' \in [1..(n + 1) -> WorkspaceRow] /\ workspace'[n + 1] = NoWorkspace
      /\ \A i \in 1..n : workspace'[i] = workspace[i]
  <2>1. workspace \in Seq(WorkspaceRow) /\ Len(workspace) = n /\ workspace' = Append(workspace, NoWorkspace)
    <3>1. workspace \in [1..n -> WorkspaceRow] /\ workspace' = Append(workspace, NoWorkspace)
      BY <1>1, <1>2 DEF Enqueued, PrepTypeOK
    <3> HIDE DEF n
    <3> QED BY <1>2, <3>1
  <2>2. NoWorkspace \in WorkspaceRow
    BY <1>4
  <2> HIDE DEF a, e
  <2>3. /\ workspace' \in Seq(WorkspaceRow) /\ Len(workspace') = n + 1 /\ workspace'[n + 1] = NoWorkspace
        /\ \A i \in 1..n : workspace'[i] = workspace[i]
    BY <2>1, <2>2, AppendProperties
  <2>4. \A s \in Seq(WorkspaceRow) : s \in [1..Len(s) -> WorkspaceRow]
    OBVIOUS
  <2> QED BY <2>3, <2>4
<1>7. /\ prepared' \in [1..(n + 1) -> EvidenceRow] /\ prepared'[n + 1] = e
      /\ \A i \in 1..n : prepared'[i] = prepared[i]
  <2>1. prepared \in Seq(EvidenceRow) /\ Len(prepared) = n /\ prepared' = Append(prepared, e)
    BY <1>1, <1>2 DEF Enqueued, PrepTypeOK
  <2>2. e \in EvidenceRow
    BY <1>4
  <2> HIDE DEF a, e
  <2>3. /\ prepared' \in Seq(EvidenceRow) /\ Len(prepared') = n + 1 /\ prepared'[n + 1] = e
        /\ \A i \in 1..n : prepared'[i] = prepared[i]
    BY <2>1, <2>2, AppendProperties
  <2>4. \A s \in Seq(EvidenceRow) : s \in [1..Len(s) -> EvidenceRow]
    OBVIOUS
  <2> QED BY <2>3, <2>4
<1>8. PrepRuns' = 1..(n + 1) /\ PrepRuns \subseteq PrepRuns'
  BY <1>2, <1>3 DEF PrepRuns
<1>9. ASSUME NEW i \in DOMAIN releases
      PROVE  releases[i] \in ReleaseRow /\ releases[i].run \in 1..n /\ releases[i].of \in 1..n
  <2>1. releases[i] \in ReleaseRow
    BY <1>1, <1>9 DEF PrepTypeOK
  <2> QED BY <1>2, <2>1 DEF ReleaseRow
<1>10. PrepTypeOK'
  <2>1. releases' \in Seq(ReleaseRow')
    <3>1. ReleaseRow \subseteq ReleaseRow'
      BY <1>8 DEF ReleaseRow
    <3> QED BY <1>1, <3>1 DEF PrepTypeOK
  <2>2. leased' \in 0..Len(runPlan')
    BY <1>1, <1>2, <1>3 DEF PrepTypeOK
  <2> HIDE DEF n, a, e
  <2> QED BY <1>1, <1>3, <1>5, <1>6, <1>7, <1>8, <2>1, <2>2 DEF PrepTypeOK
<1>11. StagesHold'
  <2> SUFFICES ASSUME NEW o \in 1..(n + 1)
               PROVE  /\ StageHolds(runPlan'[o], at'[o], workspace'[o], prepared'[o])
                      /\ leased = o => at'[o].sub \notin {"queued", "ended"}
                      /\ runPlan'[o].op # "deploy" => runPlan'[o].target \in DOMAIN releases
    BY <1>8 DEF StagesHold
  <2>1. CASE o \in 1..n
    BY <1>1, <1>2, <1>3, <1>5, <1>6, <1>7, <2>1 DEF StagesHold
  <2>2. CASE o = n + 1
    <3>1. leased # o
      BY <1>1, <1>2, <2>2 DEF PrepTypeOK
    <3>2. p.identity # 0
      BY DEF PlanRow
    <3>3. 0 <= Len(StepsOf(p.op))
      BY StepPlaces
    <3>4. StageHolds(p, a, NoWorkspace, e)
      BY <3>2, <3>3 DEF StageHolds, sameMaterializedIdentity, NoWorkspace
    <3> QED BY <1>3, <1>5, <1>6, <1>7, <2>2, <3>1, <3>4
  <2> QED BY <1>2, <2>1, <2>2
<1>12. OnlyOutdatedPruned'
  <2>1. \A i : Outdated(i)' <=> Outdated(i)
    BY DEF Outdated, Successful
  <2>2. \A i \in DOMAIN releases : at'[releases[i].run] = at[releases[i].run]
    BY <1>5, <1>9
  <2> QED BY <1>1, <2>1, <2>2 DEF OnlyOutdatedPruned
<1>13. BuiltAsReviewed' /\ RollbackTargetsKept'
  <2>1. \A i \in DOMAIN releases : runPlan'[releases[i].of] = runPlan[releases[i].of]
    BY <1>3, <1>9
  <2> QED BY <1>1, <2>1 DEF BuiltAsReviewed, RollbackTargetsKept, Successful
<1> QED BY <1>10, <1>11, <1>12, <1>13 DEF ReleasesKept

\* Requests record the source as it is, or repeat the plan of an earlier run.
LEMMA RequestsHold ==
  ASSUME ReleasesKept,
         \/ \E m \in Modes, tasks \in BOOLEAN : Analyze(m, tasks)
         \/ \E op \in {"redeploy", "rollback"}, i \in DOMAIN releases : EnqueueTarget(op, i)
  PROVE  ReleasesKept'
<1>1. PrepTypeOK
  BY DEF ReleasesKept
<1>2. ASSUME NEW m \in Modes, NEW tasks \in BOOLEAN, Analyze(m, tasks) PROVE ReleasesKept'
  <2> DEFINE p == [op |-> "deploy", mode |-> m, identity |-> head[m], tasks |-> tasks, target |-> 0]
  <2>1. p \in PlanRow /\ p.op = "deploy"
    BY <1>1 DEF PlanRow, PrepTypeOK
  <2>2. objects' \in [GitKinds -> SUBSET Nat]
    <3>1. CASE m = "git"
      <4>1. head["git"] \in Nat /\ objects' = [objects EXCEPT !["git"] = @ \union {head["git"]}]
        BY <1>1, <1>2, <3>1 DEF Analyze, PrepTypeOK
      <4> QED BY <1>1, <4>1 DEF PrepTypeOK
    <3>2. CASE m # "git"
      BY <1>1, <1>2, <3>2 DEF Analyze, PrepTypeOK
    <3> QED BY <3>1, <3>2
  <2>3. Enqueued(p) /\ UNCHANGED <<head, images, releases, leased, pruner, prepCrashes>>
    BY <1>2 DEF Analyze
  <2> HIDE DEF p
  <2> QED BY <2>1, <2>2, <2>3, EnqueuedHolds
<1>3. ASSUME NEW op \in {"redeploy", "rollback"}, NEW i \in DOMAIN releases, EnqueueTarget(op, i)
      PROVE  ReleasesKept'
  <2> DEFINE p == [runPlan[releases[i].run] EXCEPT !.op = op, !.target = i]
  <2>1. releases[i] \in ReleaseRow /\ i \in Nat
    BY <1>1 DEF PrepTypeOK
  <2>2. releases[i].run \in 1..Len(runPlan)
    BY <2>1 DEF ReleaseRow, PrepRuns
  <2>3. runPlan[releases[i].run] \in PlanRow
    BY <1>1, <2>2 DEF PrepTypeOK
  <2>4. p \in PlanRow /\ p.target = i
    BY <2>1, <2>3 DEF PlanRow
  <2>5. /\ Enqueued(p) /\ objects' \in [GitKinds -> SUBSET Nat]
        /\ UNCHANGED <<head, images, releases, leased, pruner, prepCrashes>>
    BY <1>1, <1>3 DEF EnqueueTarget, PrepTypeOK
  <2> HIDE DEF p
  <2> QED BY <2>4, <2>5, EnqueuedHolds
<1> QED BY <1>2, <1>3

---------------------------------------------------------------------------
(* Retention.                                                              *)

\* Of a set of rows the last exists.
LEMMA LastIsMember ==
  ASSUME NEW n \in Nat, NEW S \in SUBSET (1..n), S # {}
  PROVE  Last(S) \in S
<1> DEFINE T == {n - i : i \in S}
<1>1. ASSUME NEW i \in S PROVE i \in 1..n /\ n - i \in Nat
  <2>1. i \in 1..n
    OBVIOUS
  <2> QED BY <2>1
<1>2. T \in SUBSET Nat /\ T # {}
  BY <1>1
<1>3. PICK m \in T : \A y \in T : ~ (<<y, m>> \in OpToRel(<, Nat))
  BY <1>2, NatLessThanWellFounded, WFMin
<1>4. \A y \in T : ~ (y < m)
  BY <1>2, <1>3 DEF OpToRel
<1>5. PICK i \in S : m = n - i
  BY <1>3
<1>6. ASSUME NEW j \in S PROVE i >= j
  <2>1. n - j \in T
    OBVIOUS
  <2>2. ~ (n - j < n - i)
    BY <1>4, <1>5, <2>1
  <2>3. i \in 1..n /\ j \in 1..n
    OBVIOUS
  <2>4. i \in Int /\ j \in Int
    BY <2>3
  <2> QED BY <2>2, <2>4
<1> QED BY <1>6 DEF Last

\* A step of the cleanup writes only the state of artifact rows, and those of outdated
\* releases only.
LEMMA CleanupStep ==
  ASSUME ReleasesKept,
         UNCHANGED <<head, objects, runPlan, at, workspace, prepared, leased, prepCrashes>>,
         images' \subseteq images, releases' \in Seq(ReleaseRow), DOMAIN releases' = DOMAIN releases,
         \A i \in DOMAIN releases : \E s : releases'[i] = [releases[i] EXCEPT !.row = s],
         \A i \in DOMAIN releases : releases'[i].row # "available" => Outdated(i),
         pruner' \in [todo : SUBSET DOMAIN releases, removing : {0} \union DOMAIN releases],
         \A i \in pruner'.todo : Outdated(i),
         pruner'.removing # 0 => Outdated(pruner'.removing)
  PROVE  ReleasesKept'
<1>1. PrepTypeOK /\ StagesHold /\ OnlyOutdatedPruned /\ BuiltAsReviewed
  BY DEF ReleasesKept
<1>2. PrepRuns' = PrepRuns /\ ReleaseRow' = ReleaseRow
  BY DEF PrepRuns, ReleaseRow
<1>3. PrepTypeOK'
  BY <1>1, <1>2 DEF PrepTypeOK
<1>4. StagesHold'
  BY <1>1, <1>2 DEF StagesHold
<1>5. ASSUME NEW i \in DOMAIN releases
      PROVE  /\ releases'[i].state = releases[i].state /\ releases'[i].run = releases[i].run
             /\ releases'[i].of = releases[i].of /\ releases'[i].image = releases[i].image
  <2>1. PICK s : releases'[i] = [releases[i] EXCEPT !.row = s]
    OBVIOUS
  <2>2. releases[i] \in ReleaseRow
    BY <1>1 DEF PrepTypeOK
  <2> QED BY <2>1, <2>2 DEF ReleaseRow
<1>6. OnlyOutdatedPruned'
  <2>1. ASSUME NEW i \in DOMAIN releases, Outdated(i) PROVE Outdated(i)'
    <3>1. \A j \in DOMAIN releases : Successful(j) => Successful(j)'
      BY <1>5 DEF Successful
    <3>2. releases'[i].state = "retained" /\ keptReleases \in Nat
      BY <1>5, <2>1, PreparationAssumption DEF Outdated
    <3> QED BY <1>1, <1>2, <2>1, <3>1, <3>2, OutdatedStays DEF PrepTypeOK
  <2>2. pruner'.todo \subseteq DOMAIN releases /\ pruner'.removing \in {0} \union DOMAIN releases
    OBVIOUS
  <2>3. \A i \in pruner'.todo : Outdated(i)'
    BY <2>1, <2>2
  <2>4. \A i \in DOMAIN releases : pruner'.removing = i => Outdated(i)'
    BY <2>1
  <2>5. \A i \in DOMAIN releases :
          /\ releases'[i].state # "candidate" => at'[releases'[i].run].sub = "ended"
          /\ releases'[i].row # "available" => Outdated(i)'
    BY <1>1, <1>5, <2>1 DEF OnlyOutdatedPruned
  <2>6. ASSUME pruner'.removing # 0
        PROVE  /\ releases'[pruner'.removing].state = "retained"
               /\ Cardinality({j \in DOMAIN releases' : j >= pruner'.removing /\ Successful(j)'}) > keptReleases
    <3>1. PICK i \in DOMAIN releases : pruner'.removing = i
      BY <2>2, <2>6
    <3>2. Outdated(i)'
      BY <2>4, <3>1
    <3> QED BY <3>1, <3>2 DEF Outdated
  <2> QED BY <2>3, <2>5, <2>6 DEF OnlyOutdatedPruned, Outdated, Successful
<1>7. BuiltAsReviewed'
  BY <1>1, <1>5 DEF BuiltAsReviewed
<1>8. RollbackTargetsKept'
  BY <1>3, <1>6, NewestKept, PTL
<1> QED BY <1>3, <1>4, <1>6, <1>7, <1>8 DEF ReleasesKept

\* What the plan drops is outdated, and so is what the cleanup removes afterwards.
LEMMA RetentionHolds ==
  ASSUME ReleasesKept, ReadRetentionPlan \/ reserveArtifactPrune \/ RemoveArtifact
  PROVE  ReleasesKept'
<1>1. PrepTypeOK /\ OnlyOutdatedPruned
  BY DEF ReleasesKept
<1>2. ASSUME NEW i \in DOMAIN releases
      PROVE  /\ releases[i] \in ReleaseRow
             /\ \E s : releases[i] = [releases[i] EXCEPT !.row = s]
             /\ releases[i].row # "available" => Outdated(i)
  <2>1. releases[i] \in ReleaseRow
    BY <1>1 DEF PrepTypeOK
  <2>2. releases[i] = [releases[i] EXCEPT !.row = releases[i].row]
    BY <2>1 DEF ReleaseRow
  <2> QED BY <1>1, <2>1, <2>2 DEF OnlyOutdatedPruned
<1>3. ASSUME NEW i \in DOMAIN releases, NEW s \in {"available", "pruning", "prune_failed", "pruned"},
             Outdated(i), releases' = [releases EXCEPT ![i].row = s]
      PROVE  /\ releases' \in Seq(ReleaseRow) /\ DOMAIN releases' = DOMAIN releases
             /\ \A j \in DOMAIN releases : \E t : releases'[j] = [releases[j] EXCEPT !.row = t]
             /\ \A j \in DOMAIN releases : releases'[j].row # "available" => Outdated(j)
  <2>1. [releases[i] EXCEPT !.row = s] \in ReleaseRow
    BY <1>2 DEF ReleaseRow
  <2>2. releases' = [releases EXCEPT ![i] = [releases[i] EXCEPT !.row = s]]
    BY <1>3
  <2>3. releases' \in Seq(ReleaseRow) /\ DOMAIN releases' = DOMAIN releases
    BY <1>1, <2>1, <2>2, ExceptSeq DEF PrepTypeOK
  <2>4. /\ releases'[i] = [releases[i] EXCEPT !.row = s]
        /\ \A j \in DOMAIN releases \ {i} : releases'[j] = releases[j]
    BY <2>2
  <2> QED BY <1>2, <1>3, <2>3, <2>4
<1>4. CASE ReadRetentionPlan
  <2> DEFINE planned == {i \in DOMAIN releases : InPlan(i)}
             drop == {i \in planned : ~Retained(i) /\ \A j \in planned : Retained(j) => ~SamePhysical(i, j)}
  <2>1. /\ pruner' = [NoPruner EXCEPT !.todo = drop]
        /\ UNCHANGED <<head, objects, runPlan, at, workspace, prepared, images, releases, leased, prepCrashes>>
    BY <1>4 DEF ReadRetentionPlan
  <2>2. ASSUME NEW i \in drop PROVE i \in DOMAIN releases /\ Outdated(i)
    <3>1. i \in DOMAIN releases /\ ~Retained(i)
      OBVIOUS
    <3>2. releases[i].state = "retained"
      BY <1>2, <3>1 DEF Retained, ReleaseRow
    <3>3. ~ (successRank(i) <= keptReleases)
      BY <3>1, <3>2 DEF Retained, Successful
    <3> DEFINE R == {j \in DOMAIN releases : j >= i /\ InPlan(j) /\ Successful(j)}
               S == {j \in DOMAIN releases : j >= i /\ Successful(j)}
    <3>4. IsFiniteSet(S) /\ R \subseteq S
      <4>1. Len(releases) \in Nat /\ S \subseteq 1..Len(releases)
        BY <1>1 DEF PrepTypeOK
      <4>2. IsFiniteSet(1..Len(releases))
        BY <4>1, FS_Interval
      <4>3. IsFiniteSet(S)
        BY <4>1, <4>2, FS_Subset
      <4> QED BY <4>3
    <3>5. Cardinality(R) <= Cardinality(S) /\ Cardinality(R) \in Nat /\ Cardinality(S) \in Nat
      BY <3>4, FS_Subset, FS_CardinalityType
    <3>6. ~ (Cardinality(R) <= keptReleases)
      BY <3>3 DEF successRank
    <3>7. keptReleases \in Nat
      BY PreparationAssumption
    <3>8. Cardinality(S) > keptReleases
      BY <3>5, <3>6, <3>7
    <3> QED BY <3>1, <3>2, <3>8 DEF Outdated
  <2> HIDE DEF drop
  <2>3. pruner' = [todo |-> drop, removing |-> 0]
    BY <2>1 DEF NoPruner
  <2>4. pruner' \in [todo : SUBSET DOMAIN releases, removing : {0} \union DOMAIN releases]
    BY <2>2, <2>3
  <2>5. releases' \in Seq(ReleaseRow) /\ DOMAIN releases' = DOMAIN releases /\ images' \subseteq images
    BY <1>1, <2>1 DEF PrepTypeOK
  <2>6. \A i \in pruner'.todo : Outdated(i)
    BY <2>2, <2>3
  <2>7. pruner'.removing # 0 => Outdated(pruner'.removing)
    BY <2>3
  <2> QED BY <1>2, <2>1, <2>4, <2>5, <2>6, <2>7, CleanupStep
<1>5. CASE reserveArtifactPrune
  <2> DEFINE i == Last(pruner.todo)
  <2>1. i \in pruner.todo /\ i \in DOMAIN releases /\ Outdated(i)
    <3>1. Len(releases) \in Nat /\ pruner.todo \in SUBSET (1..Len(releases)) /\ pruner.todo # {}
      BY <1>1, <1>5 DEF PrepTypeOK, reserveArtifactPrune
    <3>2. Last(pruner.todo) \in pruner.todo
      BY <3>1, LastIsMember
    <3> QED BY <1>1, <3>1, <3>2 DEF OnlyOutdatedPruned, PrepTypeOK
  <2>2. /\ \/ pruner' = [todo |-> pruner.todo \ {i}, removing |-> 0] /\ releases' = releases
           \/ /\ pruner' = [todo |-> pruner.todo \ {i}, removing |-> i]
              /\ releases' = [releases EXCEPT ![i].row = "pruning"]
        /\ UNCHANGED <<head, objects, runPlan, at, workspace, prepared, images, leased, prepCrashes>>
    BY <1>5 DEF reserveArtifactPrune
  <2> HIDE DEF i
  <2>3. /\ releases' \in Seq(ReleaseRow) /\ DOMAIN releases' = DOMAIN releases
        /\ \A j \in DOMAIN releases : \E t : releases'[j] = [releases[j] EXCEPT !.row = t]
        /\ \A j \in DOMAIN releases : releases'[j].row # "available" => Outdated(j)
    <3>1. CASE releases' = releases
      BY <1>1, <1>2, <3>1 DEF PrepTypeOK
    <3>2. CASE releases' = [releases EXCEPT ![i].row = "pruning"]
      BY <1>3, <2>1, <3>2
    <3> QED BY <2>2, <3>1, <3>2
  <2>4. pruner' \in [todo : SUBSET DOMAIN releases, removing : {0} \union DOMAIN releases]
    BY <1>1, <2>1, <2>2 DEF PrepTypeOK
  <2>5. \A j \in pruner'.todo : Outdated(j)
    BY <1>1, <2>2 DEF OnlyOutdatedPruned
  <2>6. pruner'.removing # 0 => Outdated(pruner'.removing)
    BY <2>1, <2>2
  <2>7. images' \subseteq images
    BY <2>2
  <2> QED BY <2>2, <2>3, <2>4, <2>5, <2>6, <2>7, CleanupStep
<1>6. CASE RemoveArtifact
  <2> DEFINE i == pruner.removing
  <2>1. i # 0 /\ i \in DOMAIN releases /\ Outdated(i)
    BY <1>1, <1>6 DEF RemoveArtifact, OnlyOutdatedPruned, PrepTypeOK
  <2>2. /\ \E s \in {"pruned", "prune_failed"} : releases' = [releases EXCEPT ![i].row = s]
        /\ images' \subseteq images /\ pruner' = [pruner EXCEPT !.removing = 0]
        /\ UNCHANGED <<head, objects, runPlan, at, workspace, prepared, leased, prepCrashes>>
    BY <1>6 DEF RemoveArtifact
  <2> HIDE DEF i
  <2>3. /\ releases' \in Seq(ReleaseRow) /\ DOMAIN releases' = DOMAIN releases
        /\ \A j \in DOMAIN releases : \E t : releases'[j] = [releases[j] EXCEPT !.row = t]
        /\ \A j \in DOMAIN releases : releases'[j].row # "available" => Outdated(j)
    BY <1>3, <2>1, <2>2
  <2>4. /\ pruner' \in [todo : SUBSET DOMAIN releases, removing : {0} \union DOMAIN releases]
        /\ pruner'.todo = pruner.todo /\ pruner'.removing = 0
    BY <1>1, <2>2 DEF PrepTypeOK
  <2>5. \A j \in pruner'.todo : Outdated(j)
    BY <1>1, <2>4 DEF OnlyOutdatedPruned
  <2>6. pruner'.removing # 0 => Outdated(pruner'.removing)
    BY <2>4
  <2> QED BY <2>2, <2>3, <2>4, <2>5, <2>6, CleanupStep
<1> QED BY <1>4, <1>5, <1>6

\* The branch, the directory and the mirror change at any time.
LEMMA SourceHolds ==
  ASSUME ReleasesKept,
         \/ \E m \in Modes : SourceChanges(m)
         \/ \E m \in GitKinds \intersect Modes : ObjectsCollected(m)
  PROVE  ReleasesKept'
<1>1. PrepTypeOK
  BY DEF ReleasesKept
<1>2. UNCHANGED <<runPlan, at, workspace, prepared, images, releases, leased, pruner, prepCrashes>>
  BY DEF SourceChanges, ObjectsCollected
<1>3. head' \in [Modes -> Nat \ {0}] /\ objects' \in [GitKinds -> SUBSET Nat]
  <2>1. ASSUME NEW m \in Modes, SourceChanges(m)
        PROVE  head' \in [Modes -> Nat \ {0}] /\ objects' \in [GitKinds -> SUBSET Nat]
    <3>1. head' = [head EXCEPT ![m] = @ + 1] /\ head' \in [Modes -> Nat \ {0}]
      BY <1>1, <2>1 DEF SourceChanges, PrepTypeOK
    <3>2. CASE m = "local"
      <4>1. objects' = [objects EXCEPT ![m] = @ \union {head'[m]}] /\ head'[m] \in Nat
        BY <2>1, <3>1, <3>2 DEF SourceChanges
      <4> QED BY <1>1, <3>1, <4>1 DEF PrepTypeOK
    <3>3. CASE m # "local"
      BY <1>1, <2>1, <3>1, <3>3 DEF SourceChanges, PrepTypeOK
    <3> QED BY <3>2, <3>3
  <2>2. ASSUME NEW m \in GitKinds \intersect Modes, ObjectsCollected(m)
        PROVE  head' \in [Modes -> Nat \ {0}] /\ objects' \in [GitKinds -> SUBSET Nat]
    BY <1>1, <2>2 DEF ObjectsCollected, PrepTypeOK
  <2> QED BY <2>1, <2>2
<1>4. PrepTypeOK'
  BY <1>1, <1>2, <1>3 DEF PrepTypeOK, PrepRuns, ReleaseRow
<1>5. StagesHold' /\ BuiltAsReviewed'
  BY <1>2 DEF ReleasesKept, StagesHold, PrepRuns, BuiltAsReviewed
<1>6. OnlyOutdatedPruned' /\ RollbackTargetsKept'
  BY <1>2 DEF ReleasesKept, OnlyOutdatedPruned, Outdated, RollbackTargetsKept, Successful
<1> QED BY <1>4, <1>5, <1>6 DEF ReleasesKept

\* Releases hold what was reviewed, through crashes, moved branches and lost commits,
\* and cleanup keeps what a rollback needs, for any number of runs, modes and
\* releases kept (Materialize, BuildArtifact, ArtifactRetentionPlan).
THEOREM PreparationInvariance == PrepSpec => []ReleasesKept
<1>1. PrepInit => ReleasesKept
  <2> SUFFICES ASSUME PrepInit PROVE ReleasesKept
    OBVIOUS
  <2>1. Len(runPlan) = 0 /\ PrepRuns = {} /\ DOMAIN releases = {} /\ pruner.todo = {} /\ pruner.removing = 0
    BY DEF PrepInit, PrepRuns, NoPruner
  <2>2. PrepTypeOK
    <3>1. head \in [Modes -> Nat \ {0}] /\ objects \in [GitKinds -> SUBSET Nat]
      BY DEF PrepInit
    <3>2. runPlan \in Seq(PlanRow) /\ releases \in Seq(ReleaseRow) /\ images \subseteq ImageRow
      BY DEF PrepInit
    <3>3. /\ at \in [PrepRuns -> StageRow] /\ workspace \in [PrepRuns -> WorkspaceRow]
          /\ prepared \in [PrepRuns -> EvidenceRow]
      BY <2>1 DEF PrepInit
    <3>4. leased \in 0..Len(runPlan) /\ prepCrashes \in Nat
      BY <2>1 DEF PrepInit
    <3>5. pruner \in [todo : SUBSET DOMAIN releases, removing : {0} \union DOMAIN releases]
      BY DEF PrepInit, NoPruner
    <3> QED BY <3>1, <3>2, <3>3, <3>4, <3>5 DEF PrepTypeOK
  <2> QED BY <2>1, <2>2 DEF ReleasesKept, StagesHold, OnlyOutdatedPruned, BuiltAsReviewed,
                            RollbackTargetsKept
<1>2. ReleasesKept /\ [PrepNext]_prepVars => ReleasesKept'
  <2> SUFFICES ASSUME ReleasesKept, [PrepNext]_prepVars PROVE ReleasesKept'
    OBVIOUS
  <2>1. CASE UNCHANGED prepVars
    BY <2>1 DEF prepVars, ReleasesKept, PrepTypeOK, PrepRuns, ReleaseRow, StagesHold,
                OnlyOutdatedPruned, Outdated, BuiltAsReviewed, RollbackTargetsKept, Successful
  <2>2. ASSUME NEW r \in PrepRuns, RunStep(r) PROVE ReleasesKept'
    BY <2>2, MovesHold, MaterialHolds, WorkHolds, RenderHolds, CloneHolds, ActivateHolds
    DEF RunStep
  <2> QED BY <2>1, <2>2, SourceHolds, RequestsHold, CrashHolds, RetentionHolds DEF PrepNext
<1> QED BY <1>1, <1>2, PTL DEF PrepSpec

---------------------------------------------------------------------------
(* The health shown for a live release.                                    *)

GateSteps == {"readiness", "smoke", "activate"}

\* Results are kept per check, each with an outcome.
HealthTypeOK ==
  /\ DOMAIN evidence = GateSteps
  /\ \A s \in GateSteps : evidence[s] \in [DOMAIN evidence[s] -> Outcomes]
  /\ settled \in [DOMAIN settled -> Outcomes]
  /\ gate \in GateSteps \union {"live", "failed", "cancelled"}

\* A single outcome among several is the summary's only when all are the same.
LEMMA PassedMeansAll ==
  ASSUME NEW O \in SUBSET Outcomes, summarizeChecks(O) = "passed"
  PROVE  O = {"passed"}
BY DEF summarizeChecks, Outcomes

\* What is shown as passed was observed for every check.
LEMMA HealthTypeSuffices == HealthTypeOK => HealthyMeansPassed
<1> SUFFICES ASSUME HealthTypeOK, liveReleaseHealth = "passed", NEW k \in checks
             PROVE  ObservedAs(k) = {"passed"}
  BY DEF HealthyMeansPassed
<1> DEFINE O == UNION {ObservedAs(d) : d \in Observed}
<1>1. checks \subseteq Observed /\ summarizeChecks(O) = "passed"
  BY DEF liveReleaseHealth, AllSeen
<1>2. O \in SUBSET Outcomes
  BY DEF HealthTypeOK, ObservedAs
<1>3. O = {"passed"}
  BY <1>1, <1>2, PassedMeansAll
<1>4. k \in Observed
  BY <1>1
<1>5. ObservedAs(k) \subseteq O
  BY <1>4
<1>6. ObservedAs(k) # {}
  <2>1. PICK s \in DOMAIN evidence : k \in DOMAIN evidence[s]
    BY <1>4 DEF Observed
  <2>2. evidence[s][k] \in ObservedAs(k)
    BY <2>1 DEF ObservedAs
  <2> QED BY <2>2
<1> QED BY <1>3, <1>5, <1>6

\* A release shown as healthy passed every check of its plan, for every plan and
\* number of attempts (liveReleaseHealth, summarizeChecks).
THEOREM HealthInvariance == HealthSpec => []HealthyMeansPassed
<1>1. HealthInit => HealthTypeOK
  BY DEF HealthInit, HealthTypeOK, GateSteps, NoCheckEvidence
<1>2. HealthTypeOK /\ [HealthNext]_healthVars => HealthTypeOK'
  <2> SUFFICES ASSUME HealthTypeOK, [HealthNext]_healthVars PROVE HealthTypeOK'
    OBVIOUS
  <2>1. CASE UNCHANGED <<evidence, settled, gate>>
    BY <2>1 DEF HealthTypeOK
  <2>2. CASE SkipStep
    BY <2>2 DEF SkipStep, HealthTypeOK, NextStep, GateSteps, NoCheckEvidence
  <2>3. CASE RunCheck /\ settled' # settled
    <3>1. PICK d : \E o \in Outcomes : Settles(d, o)
      BY <2>3 DEF RunCheck, runAttempt, Outcomes
    <3>2. PICK o \in Outcomes : Settles(d, o)
      BY <3>1
    <3>3. CheckOutcome(d, o) \in Outcomes
      BY <3>2 DEF CheckOutcome, Outcomes
    <3>4. UNCHANGED <<evidence, gate>>
      BY <2>3 DEF RunCheck
    <3> QED BY <3>2, <3>3, <3>4 DEF Settles, HealthTypeOK
  <2>4. CASE EndStep
    <3>1. settled' = NoCheckEvidence /\ gate' \in GateSteps \union {"live", "failed", "cancelled"}
      BY <2>4 DEF EndStep, NextStep, GateSteps, HealthTypeOK
    <3>2. settled' \in [DOMAIN settled' -> Outcomes]
      BY <3>1 DEF NoCheckEvidence
    <3>3. gate \in GateSteps /\ (evidence' = evidence \/ evidence' = [evidence EXCEPT ![gate] = settled])
      BY <2>4 DEF EndStep, GateSteps
    <3> QED BY <3>1, <3>2, <3>3 DEF HealthTypeOK
  <2> QED BY <2>1, <2>2, <2>3, <2>4
       DEF HealthNext, healthVars, BeginStep, RunCheck, CancelRun, RuntimeRetired
<1> QED BY <1>1, <1>2, HealthTypeSuffices, PTL DEF HealthSpec


---------------------------------------------------------------------------
(* Removal.                                                                *)

RemovalDigest == [targets : SUBSET RemovalTargets, archived : BOOLEAN]
RemovalRequest ==
  [at : {"none", "seen", "sent", "confirmed", "removing"}, project : Deployments \union {"none"},
   seen : SUBSET RemovalDigest, ids : SUBSET RemovalTargets, phrase : SUBSET RemovalTargets,
   todo : SUBSET RemovalTargets, taken : SUBSET RemovalTargets]

\* Tables per project, and one request per client; a request sent names its project.
RemovalTypeOK ==
  /\ archivedAt \in [Deployments -> BOOLEAN]
  /\ claims \in [Deployments -> SUBSET RemovalTargets]
  /\ removals \in [Deployments -> SUBSET RemovalTargets]
  /\ removalCall \in [RemovalClients -> RemovalRequest]
  /\ \A q \in RemovalClients : removalCall[q].at # "none" => removalCall[q].project \in Deployments

\* The step of a client writes its own request only.
LEMMA RequestWritten ==
  ASSUME RemovalTypeOK, NEW q \in RemovalClients, NEW req \in RemovalRequest,
         req.at # "none" => req.project \in Deployments,
         removalCall' = [removalCall EXCEPT ![q] = req],
         UNCHANGED <<archivedAt, claims>>, removals' \in [Deployments -> SUBSET RemovalTargets]
  PROVE  RemovalTypeOK'
BY DEF RemovalTypeOK

\* Requests stay well formed.
LEMMA RemovalTyped == RemovalTypeOK /\ [RemovalNext]_removalVars => RemovalTypeOK'
<1> SUFFICES ASSUME RemovalTypeOK, [RemovalNext]_removalVars PROVE RemovalTypeOK'
  OBVIOUS
<1>1. NoRemoval \in RemovalRequest /\ NoRemoval.at = "none"
  BY DEF NoRemoval, RemovalRequest
<1>2. ASSUME NEW q \in RemovalClients
      PROVE  /\ removalCall[q] \in RemovalRequest
             /\ removalCall[q].at # "none" => removalCall[q].project \in Deployments
  BY DEF RemovalTypeOK
<1>3. removals \in [Deployments -> SUBSET RemovalTargets]
  BY DEF RemovalTypeOK
<1>4. ASSUME NEW q \in RemovalClients, NEW p \in Deployments, Preview(q, p) PROVE RemovalTypeOK'
  <2> DEFINE req == [NoRemoval EXCEPT !.at = "seen", !.project = p, !.seen = {PlanDigest(p)}]
  <2>1. PlanDigest(p) \in RemovalDigest
    BY DEF PlanDigest, PlanTargets, RemovalDigest, RemovalTypeOK
  <2>2. req \in RemovalRequest /\ req.project \in Deployments
    BY <2>1 DEF NoRemoval, RemovalRequest
  <2>3. removalCall' = [removalCall EXCEPT ![q] = req] /\ UNCHANGED <<archivedAt, claims, removals>>
    BY <1>4 DEF Preview
  <2> HIDE DEF req
  <2> QED BY <1>3, <2>2, <2>3, RequestWritten
<1>5. ASSUME NEW q \in RemovalClients, NEW ids \in SUBSET RemovalTargets,
             NEW phrase \in SUBSET RemovalTargets, Choose(q, ids, phrase)
      PROVE  RemovalTypeOK'
  <2> DEFINE req == [removalCall[q] EXCEPT !.at = "sent", !.ids = ids, !.phrase = phrase]
  <2>1. req \in RemovalRequest /\ req.project \in Deployments
    BY <1>2, <1>5 DEF Choose, RemovalRequest
  <2>2. removalCall' = [removalCall EXCEPT ![q] = req] /\ UNCHANGED <<archivedAt, claims, removals>>
    BY <1>2, <1>5 DEF Choose, RemovalTypeOK
  <2> HIDE DEF req
  <2> QED BY <1>3, <2>1, <2>2, RequestWritten
<1>6. ASSUME NEW q \in RemovalClients, handleDeploymentRemoveManaged(q) \/ RemoveManaged(q)
      PROVE  RemovalTypeOK'
  <2>1. PICK stage \in {"confirmed", "removing"}, todo \in {removalCall[q].todo, removalCall[q].ids} :
          /\ \/ removalCall' = [removalCall EXCEPT ![q] = NoRemoval]
             \/ removalCall' = [removalCall EXCEPT ![q] =
                                  [removalCall[q] EXCEPT !.at = stage, !.todo = todo]]
          /\ removalCall[q].at # "none" /\ UNCHANGED <<archivedAt, claims, removals>>
    <3>1. CASE handleDeploymentRemoveManaged(q)
      <4>1. [removalCall[q] EXCEPT !.at = "confirmed"]
              = [removalCall[q] EXCEPT !.at = "confirmed", !.todo = removalCall[q].todo]
        BY <1>2 DEF RemovalRequest
      <4> QED BY <3>1, <4>1 DEF handleDeploymentRemoveManaged
    <3>2. CASE RemoveManaged(q)
      BY <3>2 DEF RemoveManaged
    <3> QED BY <1>6, <3>1, <3>2
  <2> DEFINE req == [removalCall[q] EXCEPT !.at = stage, !.todo = todo]
  <2>2. req \in RemovalRequest /\ req.project \in Deployments
    BY <1>2, <2>1 DEF RemovalRequest
  <2> HIDE DEF req
  <2> QED BY <1>1, <1>3, <2>1, <2>2, RequestWritten DEF req
<1>7. ASSUME NEW q \in RemovalClients, NEW t \in RemovalTargets, RemoveManagedResource(q, t)
      PROVE  RemovalTypeOK'
  <2> DEFINE req == [removalCall[q] EXCEPT !.taken = {t}]
  <2>1. req \in RemovalRequest
    BY <1>2 DEF RemovalRequest
  <2>2. req.at # "none" => req.project \in Deployments
    BY <1>2 DEF RemovalRequest
  <2>3. /\ \/ removalCall' = [removalCall EXCEPT ![q] = req]
           \/ removalCall' = [removalCall EXCEPT ![q] = NoRemoval]
        /\ UNCHANGED <<archivedAt, claims, removals>>
    BY <1>7 DEF RemoveManagedResource, RemovalTypeOK
  <2> HIDE DEF req
  <2> QED BY <1>1, <1>3, <2>1, <2>2, <2>3, RequestWritten
<1>8. ASSUME NEW q \in RemovalClients, RecordRemoval(q) PROVE RemovalTypeOK'
  <2> DEFINE req == [removalCall[q] EXCEPT !.todo = @ \ removalCall[q].taken, !.taken = {}]
  <2>1. req \in RemovalRequest /\ req.project \in Deployments
    BY <1>2, <1>8 DEF RecordRemoval, RemovalRequest
  <2>2. \/ removalCall' = [removalCall EXCEPT ![q] = req]
        \/ removalCall' = [removalCall EXCEPT ![q] = NoRemoval]
    BY <1>8 DEF RecordRemoval
  <2>3. removals' \in [Deployments -> SUBSET RemovalTargets] /\ UNCHANGED <<archivedAt, claims>>
    <3>1. removalCall[q].taken \in SUBSET RemovalTargets
      BY <1>2 DEF RemovalRequest
    <3> QED BY <1>3, <1>8, <3>1 DEF RecordRemoval
  <2> HIDE DEF req
  <2> QED BY <1>1, <2>1, <2>2, <2>3, RequestWritten
<1>9. ASSUME NEW q \in RemovalClients, RequestLost(q) PROVE RemovalTypeOK'
  BY <1>1, <1>3, <1>9, RequestWritten DEF RequestLost
<1>10. ASSUME NEW p \in Deployments,
              \/ ArchiveDeployment(p)
              \/ \E t \in RemovalTargets : RunDeploys(p, t) \/ ConfigurationEdited(p, t)
       PROVE  RemovalTypeOK'
  <2>1. UNCHANGED <<removals, removalCall>>
    BY <1>10 DEF ArchiveDeployment, RunDeploys, ConfigurationEdited
  <2>2. archivedAt' \in [Deployments -> BOOLEAN]
    BY <1>10 DEF ArchiveDeployment, RunDeploys, ConfigurationEdited, RemovalTypeOK
  <2>3. claims' \in [Deployments -> SUBSET RemovalTargets]
    <3>1. claims[p] \in SUBSET RemovalTargets
      BY DEF RemovalTypeOK
    <3>2. PICK S \in SUBSET RemovalTargets : claims' = claims \/ claims' = [claims EXCEPT ![p] = S]
      BY <1>10, <3>1 DEF ArchiveDeployment, RunDeploys, ConfigurationEdited
    <3> QED BY <3>2 DEF RemovalTypeOK
  <2> QED BY <2>1, <2>2, <2>3 DEF RemovalTypeOK
<1>11. ASSUME NEW t \in RemovalTargets, ContainerStops(t) PROVE RemovalTypeOK'
  BY <1>11 DEF ContainerStops, RemovalTypeOK
<1>12. CASE UNCHANGED removalVars
  BY <1>12 DEF removalVars, RemovalTypeOK
<1> QED BY <1>4, <1>5, <1>6, <1>7, <1>8, <1>9, <1>10, <1>11, <1>12 DEF RemovalNext

\* A request that starts to remove acts on the very plan its person saw, whatever
\* edits, runs and other requests came between (RemoveManaged, removalPlanDigest).
THEOREM RemovalAsShown == RemovalSpec => RemovesWhatWasShown
<1>1. RemovalInit => RemovalTypeOK
  BY RemovalAssumption DEF RemovalInit, RemovalTypeOK, NoRemoval, RemovalRequest
<1>2. ASSUME RemovalTypeOK, [RemovalNext]_removalVars, NEW q \in RemovalClients,
             removalCall[q].at = "confirmed", removalCall'[q].at = "removing"
      PROVE  \A d \in removalCall[q].seen :
               d.archived /\ d.targets = PlanTargets(removalCall[q].project)
  <2>1. removalCall[q] \in RemovalRequest /\ removalCall[q] # removalCall'[q]
    BY <1>2 DEF RemovalTypeOK
  <2>2. PICK o \in RemovalClients :
          \/ \E p \in Deployments : Preview(o, p)
          \/ \E ids, phrase \in SUBSET RemovalTargets : Choose(o, ids, phrase)
          \/ handleDeploymentRemoveManaged(o) \/ RemoveManaged(o)
          \/ \E t \in RemovalTargets : RemoveManagedResource(o, t)
          \/ RecordRemoval(o) \/ RequestLost(o)
    BY <1>2, <2>1 DEF RemovalNext, removalVars, ArchiveDeployment, RunDeploys, ConfigurationEdited,
                      ContainerStops
  <2>3. o = q
    BY <1>2, <2>1, <2>2 DEF RemovalTypeOK, Preview, Choose, handleDeploymentRemoveManaged,
         RemoveManaged, RemoveManagedResource, RecordRemoval, RequestLost
  <2>4. removalCall'[q] # NoRemoval
    BY <1>2 DEF NoRemoval
  <2>5. RemoveManaged(q)
    BY <1>2, <2>1, <2>2, <2>3, <2>4 DEF RemovalTypeOK, Preview, Choose,
         handleDeploymentRemoveManaged, RemoveManagedResource, RecordRemoval, RequestLost
  <2>6. PlanAccepted(q)
    BY <1>2, <2>4, <2>5 DEF RemoveManaged, RemovalTypeOK
  <2> QED BY <2>6 DEF PlanAccepted, PlanDigest
<1>3. RemovalTypeOK /\ [RemovalNext]_removalVars =>
        [\A q \in RemovalClients :
           (removalCall[q].at = "confirmed" /\ removalCall'[q].at = "removing")
             => \A d \in removalCall[q].seen :
                  d.archived /\ d.targets = PlanTargets(removalCall[q].project)]_removalVars
  BY <1>2
<1> QED BY <1>1, <1>3, RemovalTyped, PTL DEF RemovalSpec, RemovesWhatWasShown
=============================================================================
