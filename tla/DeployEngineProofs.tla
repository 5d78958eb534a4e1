------------------------ MODULE DeployEngineProofs ------------------------
(***************************************************************************)
(* Theorems about DeployEngine, for every plan of steps, every number of   *)
(* runs, crashes, shutdowns, cancellations and failing heartbeats.         *)
(***************************************************************************)
EXTENDS DeployEngine, RunQueueProofs

---------------------------------------------------------------------------
(* The engine uses the store only through its operations.                  *)

\* A token that assertLeaseTx accepts was issued.
LEMMA HeldWasIssued ==
  ASSUME QueueInv, NEW r \in Runs, NEW t, LeaseHeld(r, t)
  PROVE  t \in 1..tokens
<1>1. lease[r].token \in Nat /\ tokens \in Nat
  BY DEF QueueInv, TypeOK, LeaseRow
<1>2. lease[r].token <= tokens
  BY DEF QueueInv, TokensIssued
<1> QED
  BY <1>1, <1>2 DEF LeaseHeld, NoToken

\* Worker writes are lease-guarded writes of the queue.
LEMMA WorkerWrites ==
  ASSUME QueueInv, NEW r \in Runs, NEW t
  PROVE  /\ GuardedWrite(r, t) => Next
         /\ Heartbeat(r, t) => Next
         /\ \A to : TransitionRun(r, t, to) => Next
         /\ RequestCancellation(r) => Next
<1>1. ASSUME GuardedWrite(r, t) PROVE Next
  BY <1>1, HeldWasIssued DEF GuardedWrite, Next
<1>2. ASSUME Heartbeat(r, t) PROVE Next
  BY <1>2, HeldWasIssued DEF Heartbeat, Next
<1>3. ASSUME NEW to, TransitionRun(r, t, to) PROVE Next
  <2>1. t \in 1..tokens
    BY <1>3, HeldWasIssued DEF TransitionRun
  <2>2. state[r] \in RunStates \cup {"absent"}
    BY DEF QueueInv, TypeOK
  <2>3. to \in RunStates
    BY <1>3, <2>2, TransitionFacts DEF TransitionRun, CanTransitionRun
  <2> QED
    BY <1>3, <2>1, <2>3 DEF Next
<1>4. RequestCancellation(r) => Next
  BY DEF Next
<1> QED
  BY <1>1, <1>2, <1>3, <1>4

\* Every store call of a worker is a step of the queue or changes nothing.
LEMMA WorkerStepsQueue ==
  ASSUME QueueInv, NEW r \in Runs, WorkerStep(r)
  PROVE  [Next]_queueVars
<1> USE WorkerWrites
<1>1. CASE Top(r) \/ Check(r) \/ PassBy(r) \/ Invoke(r) \/ Return(r)
           \/ FinishCancellation(r) \/ WorkerFails(r)
  BY <1>1 DEF Top, Check, PassBy, Invoke, Return, FinishCancellation, WorkerFails
<1>2. CASE Advance(r) \/ FailRun(r) \/ FinishSuccess(r)
  BY <1>2 DEF Advance, FailRun, FinishSuccess
<1>3. CASE Begin(r) \/ CancelStep(r) \/ Record(r) \/ Cleanup(r) \/ Resume(r)
           \/ RetryStep(r) \/ Complete(r) \/ FailStep(r)
  BY <1>3 DEF Begin, CancelStep, Record, Cleanup, Resume, RetryStep, Complete, FailStep,
     TransitionStep
<1>4. CASE WorkerRequestsCancellation(r) \/ Sweep(r)
  BY <1>4 DEF WorkerRequestsCancellation, Sweep, TransitionStep
<1> QED
  BY <1>1, <1>2, <1>3, <1>4 DEF WorkerStep

\* Every step of the engine is a step of the queue or leaves it as it is.
LEMMA EngineStepsQueue == QueueInv /\ [EngineNext]_allVars => [Next]_queueVars
<1> SUFFICES ASSUME QueueInv, [EngineNext]_allVars PROVE [Next]_queueVars
  OBVIOUS
<1>1. CASE Submit \/ Clock
  BY <1>1 DEF Submit, Clock, Next
<1>2. CASE Shutdown \/ Drained \/ Crash \/ Start \/ Started
  BY <1>2 DEF Shutdown, Drained, Crash, Start, Started
<1>3. ASSUME NEW r \in Runs, Resubmit(r) \/ Claim(r) \/ Reconcile(r)
      PROVE  Next
  BY <1>3 DEF Resubmit, Claim, Reconcile, Next
<1>4. ASSUME NEW r \in Runs, Cancel(r) \/ KeepAlive(r) PROVE Next
  BY <1>4, WorkerWrites DEF Cancel, KeepAlive
<1>5. ASSUME NEW r \in Runs, Signal(r) \/ LoseLease(r) PROVE UNCHANGED queueVars
  BY <1>5 DEF Signal, LoseLease
<1>6. ASSUME NEW r \in Runs, WorkerStep(r) PROVE [Next]_queueVars
  BY <1>6, WorkerStepsQueue
<1>7. CASE UNCHANGED allVars
  BY <1>7 DEF allVars
<1> QED
  BY <1>1, <1>2, <1>3, <1>4, <1>5, <1>6, <1>7 DEF EngineNext

\* The store's invariant holds while engines work on it.
THEOREM EngineKeepsQueueInv == EngineSpec => []QueueInv
<1>1. EngineInit => QueueInv
  BY InitInv DEF EngineInit
<1>2. QueueInv /\ [EngineNext]_allVars => QueueInv'
  BY EngineStepsQueue, NextInv
<1> QED
  BY <1>1, <1>2, PTL DEF EngineSpec

\* The engine drives the queue: its behaviours, seen through the store's rows,
\* are behaviours of RunQueue, so every theorem about the queue holds under it.
THEOREM EngineDrivesQueue == EngineSpec => EngineUsesQueue
<1>1. EngineInit => Init
  BY DEF EngineInit
<1> QED
  BY <1>1, EngineStepsQueue, EngineKeepsQueueInv, PTL DEF EngineSpec, EngineUsesQueue, Spec

---------------------------------------------------------------------------
(* The invariant of one run, and what a store call does to the others.     *)

\* EngineInv, of run r.
RowInv(r) ==
  /\ \A i \in Steps : step[r][i] \notin {"pending", "cancelled"} =>
       \A j \in 1..(i - 1) : step[r][j] \in Succeeding
  /\ \A i \in Steps : step[r][i] = "running" =>
       \A j \in (i + 1)..Len(Plan) : step[r][j] = "pending"
  /\ \A i \in Steps : Plan[i] \notin ResumableKeys =>
       /\ step[r][i] = "pending" => execs[r][i] = 0
       /\ execs[r][i] <= 1
  /\ Terminal(state[r]) => \A i \in Steps : step[r][i] # "running"
  /\ state[r] = "succeeded" => \A i \in Steps : step[r][i] \in Succeeding
  /\ state[r] \in {"absent", "queued"} => \A i \in Steps : step[r][i] = "pending"
  /\ signal[r] \/ ctx[r] = "operator" => state[r] \in {"cancelling"} \cup TerminalStates
  /\ ~ At(r, "none") => /\ lease[r].token = Token(r)
                        /\ Token(r) # NoToken
                        /\ phase # "down"
  /\ PlaceOK(r)

\* EngineInv is the type invariant and the invariant of every run.
LEMMA EngineInvByRow == EngineInv <=> EngineTypeOK /\ \A r \in Runs : RowInv(r)
BY DEF EngineInv, RowInv, StepsInOrder, EndedRunsAreStill, WorkerOwnsLease, SucceededComplete,
   SideEffectOnce, WorkerPlace, RunningIsLast, UnclaimedUntouched, PendingUnexecuted,
   CancelCommitted

\* The same of the next state, in the direction the steps need.
LEMMA NextInvByRow == EngineTypeOK' /\ (\A r \in Runs : RowInv(r)') => EngineInv'
BY DEF EngineInv, RowInv, StepsInOrder, EndedRunsAreStill, WorkerOwnsLease, SucceededComplete,
   SideEffectOnce, WorkerPlace, RunningIsLast, UnclaimedUntouched, PendingUnexecuted,
   CancelCommitted

\* Plan is a non-empty sequence of step keys.
LEMMA PlanFacts ==
  /\ Len(Plan) \in Nat /\ Len(Plan) >= 1 /\ 1 \in Steps
  /\ \A i \in Steps : Plan[i] \in StepKeys
BY EngineAssumption DEF Steps

\* A run somebody works on is in a state that has an owner.
LEMMA OwnedState ==
  ASSUME QueueInv, NEW r \in Runs, RowInv(r), ~ At(r, "none")
  PROVE  state[r] \in LeasedStates
<1>1. Leased(r)
  BY DEF RowInv, Leased, NoLease
<1> QED
  BY <1>1 DEF QueueInv, LeaseMirrorsRun

\* What RowInv(s) looks at.
SameRow(s) ==
  /\ worker'[s] = worker[s] /\ ctx'[s] = ctx[s] /\ signal'[s] = signal[s]
  /\ step'[s] = step[s] /\ execs'[s] = execs[s] /\ state'[s] = state[s]
  /\ lease'[s].token = lease[s].token

\* A run whose row an action leaves alone keeps its invariant, while the
\* process stays up or has no worker for it.
LEMMA SameRowInv ==
  ASSUME NEW s \in Runs, RowInv(s), SameRow(s), phase' # "down" \/ At(s, "none")
  PROVE  RowInv(s)'
BY DEF RowInv, SameRow, PlaceOK, At, Token

---------------------------------------------------------------------------
(* Effects of the store calls, and the types of the engine's state.        *)

\* A step row that moves is one row of one run; run and lease rows stay.
LEMMA StepEffect ==
  ASSUME EngineTypeOK, NEW r \in Runs, NEW i \in Steps, NEW to \in StepStates,
         TransitionStep(r, i, to)
  PROVE  /\ LeaseHeld(r, Token(r)) /\ CanTransitionStep(step[r][i], to)
         /\ state' = state /\ lease' = lease
         /\ step' \in [Runs -> [Steps -> StepStates]]
         /\ attempt' \in [Runs -> [Steps -> Nat]]
         /\ \A s \in Runs \ {r} : step'[s] = step[s]
         /\ step'[r][i] = to
         /\ \A j \in Steps \ {i} : step'[r][j] = step[r][j]
BY DEF TransitionStep, GuardedWrite, EngineTypeOK

\* A run row that moves is one row; its lease goes when the run ends.
LEMMA RunEffect ==
  ASSUME TypeOK, NEW r \in Runs, NEW t, NEW to, TransitionRun(r, t, to)
  PROVE  /\ to \in runTransitions(state[r])
         /\ \A s \in Runs \ {r} : state'[s] = state[s] /\ lease'[s] = lease[s]
         /\ state'[r] = to
         /\ ~ Terminal(to) => lease' = lease
BY DEF TransitionRun, TypeOK, CanTransitionRun

\* No worker at all is a worker of the right type.
LEMMA IdleType == Idle \in WorkerRow
BY PlanFacts DEF Idle, WorkerRow, WorkerPCs, NoToken, StepStates

\* A worker writes to the rows of its own run only.
LEMMA WorkerKeepsOthers ==
  ASSUME EngineTypeOK, NEW r \in Runs, WorkerStep(r), NEW s \in Runs \ {r}
  PROVE  SameRow(s) /\ phase' = phase
<1>1. worker \in [Runs -> WorkerRow] /\ ctx \in [Runs -> {"live", "operator", "lost"}]
      /\ execs \in [Runs -> [Steps -> Nat]] /\ step \in [Runs -> [Steps -> StepStates]]
      /\ state \in [Runs -> RunStates \cup {"absent"}] /\ lease \in [Runs -> LeaseRow]
  BY DEF EngineTypeOK, TypeOK
<1> USE DEF SameRow, restUnchanged, stepsUnchanged
<1>2. CASE Top(r) \/ Check(r) \/ PassBy(r) \/ FinishCancellation(r) \/ WorkerFails(r)
  BY <1>1, <1>2 DEF Top, Check, PassBy, FinishCancellation, WorkerFails, Goto, Exit, queueVars
<1>3. CASE Invoke(r) \/ Return(r)
  BY <1>1, <1>3 DEF Invoke, Return, Goto, Exit, queueVars
<1>4. CASE Advance(r) \/ FailRun(r) \/ FinishSuccess(r)
  BY <1>1, <1>4 DEF Advance, FailRun, FinishSuccess, TransitionRun, Exit
<1>5. CASE Begin(r) \/ CancelStep(r) \/ Record(r) \/ Cleanup(r)
  BY <1>1, <1>5 DEF Begin, CancelStep, Record, Cleanup, TransitionStep, GuardedWrite, Goto
<1>6. CASE Resume(r) \/ RetryStep(r) \/ Complete(r) \/ FailStep(r)
  BY <1>1, <1>6 DEF Resume, RetryStep, Complete, FailStep, TransitionStep, GuardedWrite, Goto
<1>7. CASE WorkerRequestsCancellation(r)
  BY <1>1, <1>7 DEF WorkerRequestsCancellation, RequestCancellation, Goto
<1>8. CASE Sweep(r)
  BY <1>1, <1>8 DEF Sweep, TransitionStep, GuardedWrite, TransitionRun, Exit
<1> QED
  BY <1>2, <1>3, <1>4, <1>5, <1>6, <1>7, <1>8 DEF WorkerStep

\* Results an adapter may return are step states.
LEMMA OutcomesType == \A key : Outcomes(key) \subseteq StepStates
BY DEF Outcomes, StepStates

\* The run states the engine asks for are run states.
LEMMA TargetsType ==
  /\ \A key : \A seen \in RunStates \cup {"none"} :
       AdvanceTarget(seen, key) # seen => AdvanceTarget(seen, key) \in RunStates
  /\ \A seen : SuccessTargets(seen) \subseteq RunStates
BY DEF AdvanceTarget, SuccessTargets, RunStates

\* Every step of a worker keeps the engine's types.
LEMMA WorkerType ==
  ASSUME EngineTypeOK, QueueInv, NEW r \in Runs, RowInv(r), WorkerStep(r)
  PROVE  EngineTypeOK'
<1> DEFINE w == worker[r]
<1>1. /\ worker \in [Runs -> WorkerRow] /\ ctx \in [Runs -> {"live", "operator", "lost"}]
      /\ execs \in [Runs -> [Steps -> Nat]] /\ step \in [Runs -> [Steps -> StepStates]]
      /\ state \in [Runs -> RunStates \cup {"absent"}]
      /\ w \in WorkerRow /\ w.i \in 1..(Len(Plan) + 1) /\ w.res \in StepStates \cup {"none"}
      /\ w.seen \in RunStates \cup {"none"}
  BY DEF EngineTypeOK, TypeOK, WorkerRow
<1>2. TypeOK'
  BY WorkerStepsQueue, NextType DEF EngineTypeOK
<1>3. w.pc \notin {"top", "success"} => w.i \in Steps /\ w.i + 1 \in 1..(Len(Plan) + 1)
  BY <1>1, PlanFacts DEF RowInv, PlaceOK, Steps
<1>4. w.pc # "none" => state[r] \in RunStates
  BY OwnedState DEF At, LeasedStates, RunStates
<1>5. 1 \in 1..(Len(Plan) + 1)
  BY PlanFacts
<1>6. /\ phase' = phase /\ stale' = stale /\ signal' = signal
      /\ crashes' = crashes /\ stops' = stops /\ cancels' = cancels /\ faults' = faults
      /\ \/ execs' = execs
         \/ w.i \in Steps /\ execs' = [execs EXCEPT ![r][w.i] = @ + 1]
  BY <1>3 DEF WorkerStep, Top, Check, Advance, PassBy, Begin, Invoke, Return, CancelStep, Record,
     FailRun, FinishSuccess, FinishCancellation, WorkerRequestsCancellation, Cleanup, Sweep,
     Resume, RetryStep, Complete, FailStep, WorkerFails, restUnchanged, At
<1>7. execs' \in [Runs -> [Steps -> Nat]]
  <2>1. CASE w.i \in Steps /\ execs' = [execs EXCEPT ![r][w.i] = @ + 1]
    <3>1. [execs[r] EXCEPT ![w.i] = execs[r][w.i] + 1] \in [Steps -> Nat]
      BY <1>1, <2>1
    <3> QED
      BY <1>1, <2>1, <3>1
  <2> QED
    BY <1>1, <1>6, <2>1
<1>8. ctx' \in [Runs -> {"live", "operator", "lost"}]
  BY <1>1 DEF WorkerStep, Top, Check, Advance, PassBy, Begin, Invoke, Return, CancelStep, Record,
     FailRun, FinishSuccess, FinishCancellation, WorkerRequestsCancellation, Cleanup, Sweep,
     Resume, RetryStep, Complete, FailStep, WorkerFails, Exit
<1>9. step' \in [Runs -> [Steps -> StepStates]] /\ attempt' \in [Runs -> [Steps -> Nat]]
  <2>1. CASE stepsUnchanged
    BY <2>1 DEF stepsUnchanged, EngineTypeOK
  <2>2. ASSUME NEW i \in Steps, NEW to \in StepStates, TransitionStep(r, i, to)
        PROVE  step' \in [Runs -> [Steps -> StepStates]] /\ attempt' \in [Runs -> [Steps -> Nat]]
    BY <2>2, StepEffect
  <2>3. \A i : OpenSteps(r) \subseteq Steps /\ {"running", "cancelled", "failed", "pending", "passed"} \subseteq StepStates
    BY DEF OpenSteps, StepStates
  <2>4. CASE Begin(r) \/ CancelStep(r) \/ Resume(r) \/ RetryStep(r) \/ Complete(r) \/ FailStep(r)
    BY <1>3, <2>2, <2>3, <2>4 DEF Begin, CancelStep, Resume, RetryStep, Complete, FailStep,
       Beginning, At
  <2>5. CASE Record(r)
    <3>1. w.i \in Steps /\ TransitionStep(r, w.i, w.res)
      BY <1>3, <2>5 DEF Record, At
    <3>2. w.res \in StepStates
      <4>1. CanTransitionStep(step[r][w.i], w.res)
        BY <3>1 DEF TransitionStep
      <4> QED
        BY <1>1, <4>1 DEF CanTransitionStep, stepTransitions
    <3> QED
      BY <2>2, <3>1, <3>2
  <2>6. CASE Sweep(r)
    BY <2>1, <2>2, <2>3, <2>6 DEF Sweep
  <2> QED
    BY <2>1, <2>4, <2>5, <2>6 DEF WorkerStep, Top, Check, Advance, PassBy, Invoke, Return,
       FailRun, FinishSuccess, FinishCancellation, WorkerRequestsCancellation, Cleanup, WorkerFails
<1>10. worker' \in [Runs -> WorkerRow]
  <2>1. ASSUME NEW v \in WorkerRow, worker' = [worker EXCEPT ![r] = v]
        PROVE  worker' \in [Runs -> WorkerRow]
    BY <1>1, <2>1
  <2>2. ASSUME NEW p \in WorkerPCs, Goto(r, p) PROVE worker' \in [Runs -> WorkerRow]
    <3>1. [w EXCEPT !.pc = p] \in WorkerRow
      BY <1>1 DEF WorkerRow
    <3> QED
      BY <2>1, <2>2, <3>1 DEF Goto
  <2>3. Exit(r) => worker' \in [Runs -> WorkerRow]
    BY <2>1, IdleType DEF Exit
  <2>4. ASSUME NEW p \in WorkerPCs, NEW i \in 1..(Len(Plan) + 1),
               worker' = [worker EXCEPT ![r].pc = p, ![r].i = i]
        PROVE  worker' \in [Runs -> WorkerRow]
    <3>1. [w EXCEPT !.pc = p, !.i = i] \in WorkerRow
      BY <1>1 DEF WorkerRow
    <3> QED
      BY <1>1, <2>4, <3>1
  <2>5. ASSUME NEW p \in WorkerPCs, NEW x \in RunStates,
               worker' = [worker EXCEPT ![r].pc = p, ![r].seen = x] \/ worker' = [worker EXCEPT ![r].seen = x]
        PROVE  worker' \in [Runs -> WorkerRow]
    <3>1. [w EXCEPT !.pc = p, !.seen = x] \in WorkerRow /\ [w EXCEPT !.seen = x] \in WorkerRow
      BY <1>1 DEF WorkerRow
    <3> QED
      BY <1>1, <2>5, <3>1
  <2>6. {"top", "check", "advance", "started", "exec", "record", "cancelStep", "cancel", "request",
         "cleanup", "sweep", "fail", "success", "retry"} \subseteq WorkerPCs
    BY DEF WorkerPCs
  <2>7. CASE Check(r) \/ Begin(r) \/ Invoke(r) \/ CancelStep(r) \/ Cleanup(r) \/ Resume(r) \/ FailStep(r)
             \/ FinishCancellation(r) \/ WorkerRequestsCancellation(r) \/ WorkerFails(r)
    BY <2>2, <2>3, <2>6, <2>7 DEF Check, Begin, Invoke, CancelStep, Cleanup, Resume, FailStep,
       FinishCancellation, WorkerRequestsCancellation, WorkerFails
  <2>8. CASE Top(r)
    <3>1. state[r] \in RunStates
      BY <1>4, <2>8 DEF Top, At
    <3> QED
      BY <2>2, <2>3, <2>5, <2>6, <2>8, <3>1 DEF Top
  <2>9. CASE Advance(r) \/ FinishSuccess(r)
    BY <1>1, <2>3, <2>5, <2>6, <2>9, TargetsType DEF Advance, Advancing, FinishSuccess
  <2>10. CASE PassBy(r) \/ Record(r) \/ RetryStep(r) \/ Complete(r)
    <3>1. w.i + 1 \in 1..(Len(Plan) + 1)
      BY <1>3, <2>10 DEF PassBy, Record, RetryStep, Complete, Beginning, At
    <3>2. /\ PassBy(r) => worker' = [worker EXCEPT ![r].pc = "top", ![r].i = w.i + 1]
          /\ RetryStep(r) \/ Complete(r) => worker' = [worker EXCEPT ![r].pc = "top", ![r].i = 1]
          /\ Record(r) => \/ worker' = [worker EXCEPT ![r].pc = "top", ![r].i = w.i + 1]
                          \/ Goto(r, "fail") \/ Goto(r, "cancel")
      BY <1>1 DEF PassBy, Record, RetryStep, Complete, Goto
    <3> QED
      BY <1>5, <2>2, <2>4, <2>6, <2>10, <3>1, <3>2
  <2>11. CASE Return(r)
    <3>1. ASSUME NEW res \in Outcomes(Key(r)), NEW b \in BOOLEAN,
                 worker' = [worker EXCEPT ![r].pc = "record", ![r].res = res, ![r].recovered = b]
          PROVE  worker' \in [Runs -> WorkerRow]
      <4>1. res \in StepStates
        BY OutcomesType
      <4>2. [w EXCEPT !.pc = "record", !.res = res, !.recovered = b] \in WorkerRow
        BY <1>1, <2>6, <4>1 DEF WorkerRow
      <4> QED
        BY <1>1, <3>1, <4>2
    <3> QED
      BY <2>2, <2>3, <2>6, <2>11, <3>1 DEF Return
  <2>12. CASE FailRun(r) \/ Sweep(r)
    BY <1>1, <2>3, <2>12 DEF FailRun, Sweep
  <2> QED
    BY <2>7, <2>8, <2>9, <2>10, <2>11, <2>12 DEF WorkerStep
<1> QED
  BY <1>2, <1>6, <1>7, <1>8, <1>9, <1>10 DEF EngineTypeOK

---------------------------------------------------------------------------
(* The invariant of a run under the steps of its own worker.               *)

\* Moving to another place keeps the invariant when the rows stay and the new
\* place may be taken.
LEMMA StillRow ==
  ASSUME NEW r \in Runs, RowInv(r), PlaceOK(r)', step' = step, execs' = execs,
         state' = state, lease' = lease, signal' = signal, phase' = phase,
         ctx'[r] \in {ctx[r], "live"},
         worker'[r].pc # "none" => worker[r].pc # "none" /\ worker'[r].tok = worker[r].tok
  PROVE  RowInv(r)'
BY DEF RowInv, At, Token

\* A worker that is gone may be anywhere.
LEMMA ExitPlace ==
  ASSUME EngineTypeOK, NEW r \in Runs, Exit(r)
  PROVE  worker'[r] = Idle /\ ctx'[r] = "live" /\ PlaceOK(r)'
BY PlanFacts DEF Exit, EngineTypeOK, PlaceOK, Idle

\* The worker's moves that write nothing.
LEMMA QuietRow ==
  ASSUME EngineTypeOK, NEW r \in Runs, RowInv(r),
         Top(r) \/ Check(r) \/ PassBy(r) \/ Return(r) \/ FinishCancellation(r) \/ WorkerFails(r)
  PROVE  RowInv(r)'
<1> DEFINE w == worker[r]
<1>1. worker \in [Runs -> WorkerRow] /\ w \in WorkerRow /\ w.i \in 1..(Len(Plan) + 1)
      /\ ctx \in [Runs -> {"live", "operator", "lost"}]
  BY DEF EngineTypeOK, WorkerRow
<1>2. /\ step' = step /\ execs' = execs /\ state' = state /\ lease' = lease
      /\ signal' = signal /\ phase' = phase
  BY DEF Top, Check, PassBy, Return, FinishCancellation, WorkerFails, restUnchanged,
     stepsUnchanged, queueVars
<1>3. Exit(r) => RowInv(r)'
  BY <1>2, ExitPlace, StillRow DEF Idle
<1>4. ASSUME NEW v \in WorkerRow, worker' = [worker EXCEPT ![r] = v], ctx' = ctx,
             w.pc # "none", v.tok = w.tok, PlaceOK(r)'
      PROVE  RowInv(r)'
  BY <1>1, <1>2, <1>4, StillRow
<1>5. CASE Top(r)
  <2>1. CASE w.i > Len(Plan)
    <3>1. worker'[r].pc = "success" /\ worker'[r].tok = w.tok /\ ctx' = ctx /\ w.pc = "top"
      <4>1. At(r, "top") /\ worker' = [worker EXCEPT ![r].pc = "success", ![r].seen = state[r]] /\ ctx' = ctx
        BY <1>5, <2>1 DEF Top
      <4> QED
        BY <1>1, <4>1 DEF At, WorkerRow
    <3>2. \A j \in Steps : step[r][j] \in Succeeding
      BY <1>1, <2>1, <3>1, PlanFacts DEF RowInv, PlaceOK, Steps
    <3>3. PlaceOK(r)'
      BY <1>2, <3>1, <3>2 DEF PlaceOK
    <3> QED
      BY <1>2, <3>1, <3>3, StillRow
  <2>2. CASE w.i <= Len(Plan) /\ Terminal(state[r])
    BY <1>1, <1>3, <1>5, <2>2, PlanFacts DEF Top
  <2>3. CASE w.i <= Len(Plan) /\ ~ Terminal(state[r])
    <3>1. /\ worker'[r].pc \in {"cancel", "check"} /\ worker'[r].tok = w.tok
          /\ worker'[r].i = w.i /\ ctx' = ctx /\ w.pc = "top"
      <4>1. /\ At(r, "top") /\ ctx' = ctx
            /\ \/ worker' = [worker EXCEPT ![r].pc = "cancel"]
               \/ worker' = [worker EXCEPT ![r].pc = "check", ![r].seen = state[r]]
        BY <1>1, <1>5, <2>3, PlanFacts DEF Top, Goto
      <4> QED
        BY <1>1, <4>1 DEF At, WorkerRow
    <3>2. PlaceOK(r)'
      BY <1>1, <1>2, <2>3, <3>1, PlanFacts DEF RowInv, PlaceOK, Steps, Succeeding
    <3> QED
      BY <1>2, <3>1, <3>2, StillRow
  <2> QED
    BY <1>1, <2>1, <2>2, <2>3, PlanFacts
<1>6. CASE Check(r)
  <2>1. /\ worker'[r].pc \in {"advance", "cancel"} /\ worker'[r].tok = w.tok
        /\ worker'[r].i = w.i /\ ctx' = ctx /\ w.pc = "check"
    BY <1>1, <1>6 DEF Check, At, Goto
  <2>2. PlaceOK(r)'
    BY <1>2, <2>1 DEF RowInv, PlaceOK, Steps, Succeeding
  <2> QED
    BY <1>2, <2>1, <2>2, StillRow
<1>7. CASE PassBy(r)
  <2>1. /\ worker'[r].pc = "top" /\ worker'[r].tok = w.tok /\ worker'[r].i = w.i + 1
        /\ ctx' = ctx /\ w.pc = "advance" /\ stepAttemptTerminal(step[r][w.i])
    BY <1>1, <1>7 DEF PassBy, Beginning, At
  <2>2. w.i \in Steps /\ step[r][w.i] \in Succeeding
    BY <2>1 DEF RowInv, PlaceOK, stepAttemptTerminal
  <2>3. PlaceOK(r)'
    BY <1>1, <1>2, <2>1, <2>2, PlanFacts DEF RowInv, PlaceOK, Steps
  <2> QED
    BY <1>2, <2>1, <2>3, StillRow
<1>8. CASE Return(r)
  <2>1. CASE Exit(r)
    BY <1>3, <2>1
  <2>2. CASE ~ Exit(r)
    <3>1. /\ worker'[r].pc \in {"record", "cancelStep"} /\ worker'[r].tok = w.tok
          /\ worker'[r].i = w.i /\ ctx' = ctx /\ w.pc = "exec"
      <4>1. /\ At(r, "exec") /\ ctx' = ctx
            /\ \/ worker' = [worker EXCEPT ![r].pc = "cancelStep"]
               \/ \E res, b : worker' = [worker EXCEPT ![r].pc = "record", ![r].res = res,
                                                       ![r].recovered = b]
        BY <1>8, <2>2 DEF Return, Goto
      <4>2. ASSUME NEW res, NEW b, worker' = [worker EXCEPT ![r].pc = "record", ![r].res = res,
                                                            ![r].recovered = b]
            PROVE  worker'[r].pc = "record" /\ worker'[r].tok = w.tok /\ worker'[r].i = w.i
        BY <1>1, <4>2 DEF WorkerRow
      <4>3. worker' = [worker EXCEPT ![r].pc = "cancelStep"] =>
              worker'[r].pc = "cancelStep" /\ worker'[r].tok = w.tok /\ worker'[r].i = w.i
        BY <1>1 DEF WorkerRow
      <4> QED
        BY <4>1, <4>2, <4>3 DEF At
    <3>2. PlaceOK(r)'
      BY <1>2, <3>1 DEF RowInv, PlaceOK
    <3> QED
      BY <1>2, <3>1, <3>2, StillRow
  <2> QED
    BY <2>1, <2>2
<1>9. CASE FinishCancellation(r)
  <2>1. CASE Exit(r)
    BY <1>3, <2>1
  <2>2. CASE ~ Exit(r)
    <3>1. /\ worker'[r].pc \in {"cleanup", "request"} /\ worker'[r].tok = w.tok
          /\ worker'[r].i = w.i /\ ctx' = ctx /\ w.pc = "cancel"
      <4>1. /\ At(r, "cancel") /\ ctx' = ctx
            /\ \E p \in {"cleanup", "request"} : worker' = [worker EXCEPT ![r].pc = p]
        BY <1>9, <2>2 DEF FinishCancellation, Goto
      <4> QED
        BY <1>1, <4>1 DEF At, WorkerRow
    <3>2. PlaceOK(r)'
      BY <1>2, <3>1 DEF RowInv, PlaceOK
    <3> QED
      BY <1>2, <3>1, <3>2, StillRow
  <2> QED
    BY <2>1, <2>2
<1>10. CASE WorkerFails(r)
  BY <1>3, <1>10 DEF WorkerFails
<1> QED
  BY <1>5, <1>6, <1>7, <1>8, <1>9, <1>10

\* Executing an adapter counts once: the step was pending until now.
LEMMA InvokeRow ==
  ASSUME EngineTypeOK, NEW r \in Runs, RowInv(r), Invoke(r)
  PROVE  RowInv(r)'
<1> DEFINE w == worker[r]
<1>1. /\ worker \in [Runs -> WorkerRow] /\ w \in WorkerRow
      /\ execs \in [Runs -> [Steps -> Nat]] /\ execs[r] \in [Steps -> Nat]
  BY DEF EngineTypeOK
<1>2. /\ step' = step /\ state' = state /\ lease' = lease /\ signal' = signal
      /\ phase' = phase /\ ctx' = ctx /\ w.pc = "started" /\ w.i \in Steps
      /\ worker'[r].pc = "exec" /\ worker'[r].tok = w.tok /\ worker'[r].i = w.i
      /\ step[r][w.i] = "running"
  BY <1>1 DEF Invoke, Goto, At, stepsUnchanged, queueVars, RowInv, PlaceOK
<1>3. /\ \A i \in Steps \ {w.i} : execs'[r][i] = execs[r][i]
      /\ execs'[r][w.i] = execs[r][w.i] + 1
  BY <1>1, <1>2 DEF Invoke
<1>4. Plan[w.i] \notin ResumableKeys => execs[r][w.i] = 0
  BY <1>2 DEF RowInv, PlaceOK
<1>5. PlaceOK(r)'
  BY <1>2 DEF PlaceOK
<1>6. \A i \in Steps : Plan[i] \notin ResumableKeys =>
        /\ step[r][i] = "pending" => execs'[r][i] = 0
        /\ execs'[r][i] <= 1
  BY <1>1, <1>2, <1>3, <1>4 DEF RowInv
<1> QED
  BY <1>2, <1>5, <1>6 DEF RowInv, At, Token

\* A run row the worker moves: a run that ends has no step running, one that
\* succeeds has none left, and a cancelled context means the run can only end.
LEMMA RunRow ==
  ASSUME EngineTypeOK, QueueInv, NEW r \in Runs, RowInv(r), NEW to,
         TransitionRun(r, Token(r), to),
         step' = step, execs' = execs, signal' = signal, phase' = phase,
         ctx'[r] \in {ctx[r], "live"}, PlaceOK(r)',
         Terminal(to) => worker'[r].pc = "none" /\ \A i \in Steps : step[r][i] # "running",
         to = "succeeded" => \A i \in Steps : step[r][i] \in Succeeding,
         worker'[r].pc # "none" => worker[r].pc # "none" /\ worker'[r].tok = worker[r].tok
  PROVE  RowInv(r)'
<1>1. state[r] \in LeasedStates
  <2>1. Leased(r)
    BY DEF TransitionRun, LeaseHeld, Leased, NoLease, NoToken
  <2> QED
    BY <2>1 DEF QueueInv, LeaseMirrorsRun
<1>2. /\ to \in runTransitions(state[r]) /\ state'[r] = to
      /\ ~ Terminal(to) => lease' = lease
  BY RunEffect DEF EngineTypeOK
<1>3. to \in LeasedStates \cup TerminalStates
  BY <1>1, <1>2, TransitionFacts
<1>4. to \notin {"absent", "queued"}
  BY <1>3 DEF LeasedStates, TerminalStates
<1>5. state[r] = "cancelling" => to \in TerminalStates
  BY <1>2 DEF runTransitions, TerminalStates
<1>6. state[r] \notin TerminalStates
  BY <1>1 DEF LeasedStates, TerminalStates
<1>7. signal'[r] \/ ctx'[r] = "operator" => to \in TerminalStates
  BY <1>5, <1>6 DEF RowInv
<1>8. worker'[r].pc # "none" => lease'[r].token = worker'[r].tok /\ worker'[r].tok # NoToken /\ phase' # "down"
  BY <1>2 DEF RowInv, At, Token
<1> QED
  BY <1>2, <1>4, <1>7, <1>8 DEF RowInv, At, Token, Terminal

\* advanceRunForStep, failRun and finishSuccess.
LEMMA RunMoveRow ==
  ASSUME EngineTypeOK, QueueInv, NEW r \in Runs, RowInv(r),
         Advance(r) \/ FailRun(r) \/ FinishSuccess(r)
  PROVE  RowInv(r)'
<1> DEFINE w == worker[r]
<1>1. worker \in [Runs -> WorkerRow] /\ w \in WorkerRow
  BY DEF EngineTypeOK
<1>2. step' = step /\ execs' = execs /\ signal' = signal /\ phase' = phase
  BY DEF Advance, FailRun, FinishSuccess, stepsUnchanged, restUnchanged
<1>3. CASE Advance(r)
  <2> DEFINE to == AdvanceTarget(w.seen, Key(r))
  <2>1. TransitionRun(r, Token(r), to) /\ w.pc = "advance" /\ ctx' = ctx /\ to # w.seen
        /\ worker' = [worker EXCEPT ![r].seen = to]
    BY <1>3 DEF Advance, Advancing, At
  <2>2. worker'[r].pc = "advance" /\ worker'[r].tok = w.tok /\ worker'[r].i = w.i
    BY <1>1, <2>1 DEF WorkerRow
  <2>3. to \in {"running", "verifying", "activating"}
    BY <2>1 DEF AdvanceTarget
  <2>4. ~ Terminal(to) /\ to # "succeeded"
    BY <2>3 DEF Terminal, TerminalStates
  <2>5. PlaceOK(r)'
    BY <1>2, <2>1, <2>2 DEF RowInv, PlaceOK
  <2> HIDE DEF to
  <2> QED
    BY <1>2, <2>1, <2>2, <2>4, <2>5, RunRow
<1>4. CASE FailRun(r)
  <2>1. TransitionRun(r, Token(r), FailTarget(r)) /\ w.pc = "fail"
    BY <1>4 DEF FailRun, At
  <2>2. FailTarget(r) # "succeeded"
    BY DEF FailTarget
  <2>3. \A i \in Steps : step[r][i] # "running"
    BY <2>1 DEF RowInv, PlaceOK
  <2>4. CASE Terminal(FailTarget(r))
    <3>1. Exit(r)
      BY <1>4, <2>4 DEF FailRun
    <3>2. worker'[r] = Idle /\ ctx'[r] = "live" /\ PlaceOK(r)'
      BY <3>1, ExitPlace
    <3>3. worker'[r].pc = "none"
      BY <3>2 DEF Idle
    <3> QED
      BY <1>2, <2>1, <2>2, <2>3, <3>2, <3>3, RunRow
  <2>5. CASE ~ Terminal(FailTarget(r))
    <3>1. worker' = worker /\ ctx' = ctx
      BY <1>4, <2>5 DEF FailRun
    <3>2. PlaceOK(r)'
      BY <1>2, <3>1 DEF RowInv, PlaceOK
    <3> QED
      BY <1>2, <2>1, <2>2, <2>5, <3>1, <3>2, RunRow
  <2> QED
    BY <2>4, <2>5
<1>5. CASE FinishSuccess(r)
  <2>1. PICK to \in SuccessTargets(w.seen) :
          /\ TransitionRun(r, Token(r), to)
          /\ IF Terminal(to) THEN Exit(r)
             ELSE worker' = [worker EXCEPT ![r].seen = to] /\ UNCHANGED ctx
    BY <1>5 DEF FinishSuccess
  <2>2. w.pc = "success"
    BY <1>5 DEF FinishSuccess, At
  <2>3. \A i \in Steps : step[r][i] \in Succeeding /\ step[r][i] # "running"
    BY <2>2 DEF RowInv, PlaceOK, Succeeding
  <2>4. CASE Terminal(to)
    <3>1. worker'[r] = Idle /\ ctx'[r] = "live" /\ PlaceOK(r)'
      BY <2>1, <2>4, ExitPlace
    <3>2. worker'[r].pc = "none"
      BY <3>1 DEF Idle
    <3> QED
      BY <1>2, <2>1, <2>3, <3>1, <3>2, RunRow
  <2>5. CASE ~ Terminal(to)
    <3>1. ctx' = ctx /\ worker'[r].pc = "success" /\ worker'[r].tok = w.tok
      BY <1>1, <2>1, <2>2, <2>5 DEF WorkerRow
    <3>2. PlaceOK(r)'
      BY <1>2, <2>3, <3>1 DEF PlaceOK
    <3> QED
      BY <1>2, <2>1, <2>2, <2>3, <2>5, <3>1, <3>2, RunRow
  <2> QED
    BY <2>4, <2>5
<1> QED
  BY <1>3, <1>4, <1>5

\* A worker that asks for its own run's cancellation keeps its lease.
LEMMA RequestRow ==
  ASSUME EngineTypeOK, QueueInv, NEW r \in Runs, RowInv(r), WorkerRequestsCancellation(r)
  PROVE  RowInv(r)'
<1> DEFINE w == worker[r]
<1>1. worker \in [Runs -> WorkerRow] /\ w \in WorkerRow
      /\ state \in [Runs -> RunStates \cup {"absent"}]
  BY DEF EngineTypeOK, TypeOK
<1>2. /\ step' = step /\ execs' = execs /\ signal' = signal /\ phase' = phase /\ ctx' = ctx
      /\ w.pc = "request" /\ RequestCancellation(r)
      /\ worker'[r].pc = "cleanup" /\ worker'[r].tok = w.tok /\ worker'[r].i = w.i
  BY <1>1 DEF WorkerRequestsCancellation, stepsUnchanged, restUnchanged, At, Goto, WorkerRow
<1>3. state[r] \in LeasedStates
  BY <1>2, OwnedState DEF At
<1>4. state'[r] = "cancelling" /\ lease' = lease
  BY <1>1, <1>2, <1>3 DEF RequestCancellation, LeasedStates
<1>5. PlaceOK(r)'
  BY <1>2 DEF RowInv, PlaceOK
<1> QED
  BY <1>2, <1>4, <1>5 DEF RowInv, At, Token, Terminal, TerminalStates

\* A step row the worker moves: it is begun or ended only behind steps that
\* succeeded, begun only before untouched ones, and reopened only if it is safe.
LEMMA StepRow ==
  ASSUME EngineTypeOK, QueueInv, NEW r \in Runs, RowInv(r), NEW i \in Steps, NEW to \in StepStates,
         TransitionStep(r, i, to),
         execs' = execs, signal' = signal, phase' = phase, ctx' = ctx, PlaceOK(r)',
         worker[r].pc # "none", worker'[r].tok = worker[r].tok,
         to \notin {"pending", "cancelled"} => \A j \in 1..(i - 1) : step[r][j] \in Succeeding,
         to = "running" => \A j \in (i + 1)..Len(Plan) : step[r][j] = "pending",
         \A j \in 1..(i - 1) : step[r][j] # "running",
         to = "pending" => Plan[i] \in ResumableKeys
  PROVE  RowInv(r)'
<1>1. /\ LeaseHeld(r, Token(r)) /\ CanTransitionStep(step[r][i], to)
      /\ state' = state /\ lease' = lease /\ step'[r][i] = to
      /\ \A j \in Steps \ {i} : step'[r][j] = step[r][j]
  BY StepEffect
<1>2. i \in 1..Len(Plan) /\ Len(Plan) \in Nat
  BY PlanFacts DEF Steps
<1>3. step[r][i] \notin Succeeding
  BY <1>1 DEF CanTransitionStep, stepTransitions, Succeeding
<1>4. state[r] \in LeasedStates
  BY OwnedState DEF At
<1>5. state[r] \notin TerminalStates \cup {"succeeded", "absent", "queued"}
  BY <1>4 DEF LeasedStates, TerminalStates
<1>6. \A k \in Steps : step'[r][k] \notin {"pending", "cancelled"} =>
        \A j \in 1..(k - 1) : step'[r][j] \in Succeeding
  <2> SUFFICES ASSUME NEW k \in Steps, step'[r][k] \notin {"pending", "cancelled"},
                      NEW j \in 1..(k - 1)
               PROVE  step'[r][j] \in Succeeding
    OBVIOUS
  <2>1. j \in Steps /\ j # k
    BY PlanFacts DEF Steps
  <2>2. CASE k = i
    BY <1>1, <2>1, <2>2
  <2>3. CASE k # i
    <3>1. step[r][j] \in Succeeding
      BY <1>1, <2>3 DEF RowInv
    <3> QED
      BY <1>1, <1>3, <2>1, <3>1
  <2> QED
    BY <2>2, <2>3
<1>7. \A k \in Steps : step'[r][k] = "running" =>
        \A j \in (k + 1)..Len(Plan) : step'[r][j] = "pending"
  <2> SUFFICES ASSUME NEW k \in Steps, step'[r][k] = "running", NEW j \in (k + 1)..Len(Plan)
               PROVE  step'[r][j] = "pending"
    OBVIOUS
  <2>1. j \in Steps /\ j # k
    BY PlanFacts DEF Steps
  <2>2. CASE k = i
    BY <1>1, <2>1, <2>2
  <2>3. CASE k # i
    <3>1. step[r][k] = "running" /\ step[r][j] = "pending"
      BY <1>1, <2>3 DEF RowInv
    <3>2. ~ (k < i)
      BY <1>2, <3>1 DEF Steps
    <3>3. j # i
      BY <1>2, <2>3, <3>2 DEF Steps
    <3> QED
      BY <1>1, <2>1, <3>1, <3>3
  <2> QED
    BY <2>2, <2>3
<1>8. \A k \in Steps : Plan[k] \notin ResumableKeys =>
        /\ step'[r][k] = "pending" => execs[r][k] = 0
        /\ execs[r][k] <= 1
  BY <1>1 DEF RowInv
<1> QED
  BY <1>1, <1>5, <1>6, <1>7, <1>8 DEF RowInv, At, Token, Terminal

\* Where the worker stands and what it found, for the steps that follow.
LEMMA WorkerFacts ==
  ASSUME EngineTypeOK, NEW r \in Runs
  PROVE  /\ worker \in [Runs -> WorkerRow] /\ worker[r] \in WorkerRow
         /\ worker[r].i \in Nat
         /\ \A p : Goto(r, p) => /\ worker'[r].pc = p /\ worker'[r].tok = worker[r].tok
                                 /\ worker'[r].i = worker[r].i
         /\ \A p, i : worker' = [worker EXCEPT ![r].pc = p, ![r].i = i] =>
              worker'[r].pc = p /\ worker'[r].tok = worker[r].tok /\ worker'[r].i = i
<1>1. worker \in [Runs -> WorkerRow] /\ worker[r] \in WorkerRow
  BY DEF EngineTypeOK
<1>2. worker[r].i \in Nat
  BY <1>1 DEF WorkerRow
<1>3. ASSUME NEW p, Goto(r, p)
      PROVE  worker'[r].pc = p /\ worker'[r].tok = worker[r].tok /\ worker'[r].i = worker[r].i
  BY <1>1, <1>3 DEF Goto, WorkerRow
<1>4. ASSUME NEW p, NEW i, worker' = [worker EXCEPT ![r].pc = p, ![r].i = i]
      PROVE  worker'[r].pc = p /\ worker'[r].tok = worker[r].tok /\ worker'[r].i = i
  BY <1>1, <1>4 DEF WorkerRow
<1> QED
  BY <1>1, <1>2, <1>3, <1>4

\* Begin: the step is the first that has not succeeded.
LEMMA BeginRow ==
  ASSUME EngineTypeOK, QueueInv, NEW r \in Runs, RowInv(r), Begin(r)
  PROVE  RowInv(r)'
<1> DEFINE i == worker[r].i
<1>1. /\ worker[r].pc = "advance" /\ Goto(r, "started") /\ TransitionStep(r, i, "running")
      /\ ctx' = ctx /\ execs' = execs /\ signal' = signal /\ phase' = phase
  BY DEF Begin, Beginning, At, restUnchanged
<1>2. worker'[r].pc = "started" /\ worker'[r].tok = worker[r].tok /\ worker'[r].i = i
  BY <1>1, WorkerFacts
<1>3. /\ i \in Steps /\ i \in 1..Len(Plan) /\ Len(Plan) \in Nat
      /\ \A j \in 1..(i - 1) : step[r][j] \in Succeeding /\ step[r][j] # "running"
      /\ \A j \in Steps : step[r][j] \in Succeeding \cup {"pending"}
  BY <1>1, PlanFacts DEF RowInv, PlaceOK, Steps, Succeeding
<1>4. "running" \in StepStates /\ "running" \notin {"pending", "cancelled"}
  BY DEF StepStates
<1>5. /\ CanTransitionStep(step[r][i], "running") /\ step'[r][i] = "running"
      /\ \A j \in Steps \ {i} : step'[r][j] = step[r][j]
  BY <1>1, <1>3, <1>4, StepEffect
<1>6. step[r][i] = "pending"
  BY <1>3, <1>5 DEF CanTransitionStep, stepTransitions, Succeeding
<1>7. \A j \in (i + 1)..Len(Plan) : step[r][j] = "pending"
  <2> SUFFICES ASSUME NEW j \in (i + 1)..Len(Plan), step[r][j] # "pending" PROVE FALSE
    OBVIOUS
  <2>1. j \in Steps /\ i \in 1..(j - 1) /\ step[r][j] \notin {"pending", "cancelled"}
    BY <1>3 DEF Steps, Succeeding
  <2> QED
    BY <1>6, <2>1 DEF RowInv, Succeeding
<1>8. Plan[i] \notin ResumableKeys => execs[r][i] = 0
  BY <1>3, <1>6 DEF RowInv
<1>9. PlaceOK(r)'
  BY <1>1, <1>2, <1>3, <1>5, <1>8 DEF PlaceOK
<1> HIDE DEF i
<1> QED
  BY <1>1, <1>2, <1>3, <1>4, <1>7, <1>9, StepRow

\* The running step is ended, by its result, by a cancellation or by what
\* reconciliation decides about it.
LEMMA EndStepRow ==
  ASSUME EngineTypeOK, QueueInv, NEW r \in Runs, RowInv(r),
         CancelStep(r) \/ Record(r) \/ Resume(r) \/ Complete(r) \/ FailStep(r)
  PROVE  RowInv(r)'
<1> DEFINE i == worker[r].i
<1>1. /\ worker[r].pc \in {"cancelStep", "record", "resume", "complete", "failStep"}
      /\ ctx' = ctx /\ execs' = execs /\ signal' = signal /\ phase' = phase
  BY DEF CancelStep, Record, Resume, Complete, FailStep, At, restUnchanged
<1>2. i \in Steps /\ step[r][i] = "running" /\ i \in 1..Len(Plan) /\ Len(Plan) \in Nat
  BY <1>1, PlanFacts DEF RowInv, PlaceOK, Steps
<1>3. /\ \A j \in 1..(i - 1) : step[r][j] \in Succeeding /\ step[r][j] # "running"
      /\ \A j \in (i + 1)..Len(Plan) : step[r][j] = "pending"
  BY <1>2 DEF RowInv, Succeeding
<1>4. ASSUME NEW to, TransitionStep(r, i, to)
      PROVE  /\ to \in {"passed", "warning", "failed", "cancelled", "unavailable"} /\ to \in StepStates
             /\ step'[r][i] = to
             /\ \A j \in 1..(i - 1) : step'[r][j] \in Succeeding
             /\ \A j \in (i + 1)..Len(Plan) : step'[r][j] = "pending"
             /\ \A j \in Steps : step'[r][j] # "running"
  <2>1. to \in {"passed", "warning", "failed", "cancelled", "unavailable"}
    BY <1>2, <1>4 DEF TransitionStep, CanTransitionStep, stepTransitions
  <2>2. to \in StepStates
    BY <2>1 DEF StepStates
  <2>3. step'[r][i] = to /\ \A j \in Steps \ {i} : step'[r][j] = step[r][j]
    BY <1>2, <1>4, <2>2, StepEffect
  <2>4. \A j \in Steps : j = i \/ j \in 1..(i - 1) \/ j \in (i + 1)..Len(Plan)
    BY <1>2 DEF Steps
  <2>5. \A j \in Steps : step'[r][j] # "running"
    BY <1>3, <2>1, <2>3, <2>4
  <2>6. \A j \in 1..(i - 1) : j \in Steps \ {i}
    BY <1>2 DEF Steps
  <2>7. \A j \in (i + 1)..Len(Plan) : j \in Steps \ {i}
    BY <1>2 DEF Steps
  <2> QED
    BY <1>3, <2>1, <2>2, <2>3, <2>5, <2>6, <2>7
<1>5. ASSUME NEW to, TransitionStep(r, i, to), PlaceOK(r)', worker'[r].tok = worker[r].tok
      PROVE  RowInv(r)'
  BY <1>1, <1>2, <1>3, <1>4, <1>5, StepRow
<1>6. CASE CancelStep(r)
  <2>1. TransitionStep(r, i, "cancelled") /\ Goto(r, "cancel")
    BY <1>6 DEF CancelStep
  <2>2. worker'[r].pc = "cancel" /\ worker'[r].tok = worker[r].tok /\ worker'[r].i = i
    BY <2>1, WorkerFacts
  <2>3. PlaceOK(r)'
    BY <1>2, <1>4, <2>1, <2>2 DEF PlaceOK
  <2> QED
    BY <1>5, <2>1, <2>2, <2>3
<1>7. CASE FailStep(r)
  <2>1. TransitionStep(r, i, "failed") /\ Goto(r, "fail")
    BY <1>7 DEF FailStep
  <2>2. worker'[r].pc = "fail" /\ worker'[r].tok = worker[r].tok /\ worker'[r].i = i
    BY <2>1, WorkerFacts
  <2>3. PlaceOK(r)'
    BY <1>2, <1>4, <2>1, <2>2 DEF PlaceOK
  <2> QED
    BY <1>5, <2>1, <2>2, <2>3
<1>8. CASE Resume(r)
  <2>1. TransitionStep(r, i, "failed") /\ Goto(r, "retry") /\ worker[r].pc = "resume"
    BY <1>8 DEF Resume, At
  <2>2. worker'[r].pc = "retry" /\ worker'[r].tok = worker[r].tok /\ worker'[r].i = i
    BY <2>1, WorkerFacts
  <2>3. Plan[i] \in ResumableKeys
    BY <2>1 DEF RowInv, PlaceOK
  <2>4. PlaceOK(r)'
    BY <1>2, <1>4, <2>1, <2>2, <2>3 DEF PlaceOK
  <2> QED
    BY <1>5, <2>1, <2>2, <2>4
<1>9. ASSUME NEW to \in Succeeding, TransitionStep(r, i, to), NEW n \in {1, i + 1},
             worker' = [worker EXCEPT ![r].pc = "top", ![r].i = n]
      PROVE  RowInv(r)'
  <2>1. worker'[r].pc = "top" /\ worker'[r].tok = worker[r].tok /\ worker'[r].i = n
    BY <1>9, WorkerFacts
  <2>2. \A j \in 1..i : step'[r][j] \in Succeeding
    BY <1>2, <1>4, <1>9
  <2>3. \A j \in Steps : step'[r][j] \in Succeeding \cup {"pending"}
    BY <1>2, <1>4, <2>2, <1>9 DEF Steps
  <2>4. \A j \in 1..(n - 1) : step'[r][j] \in Succeeding
    BY <1>2, <1>9, <2>2
  <2>5. PlaceOK(r)'
    BY <2>1, <2>3, <2>4 DEF PlaceOK
  <2> QED
    BY <1>5, <1>9, <2>1, <2>5
<1>10. CASE Complete(r)
  <2>1. TransitionStep(r, i, "passed") /\ worker' = [worker EXCEPT ![r].pc = "top", ![r].i = 1]
    BY <1>10 DEF Complete
  <2> QED
    BY <1>9, <2>1 DEF Succeeding
<1>11. CASE Record(r)
  <2> DEFINE res == worker[r].res
  <2>1. TransitionStep(r, i, res)
    BY <1>11 DEF Record
  <2>2. CASE res \in {"failed", "unavailable", "cancelled"}
    <3>1. Goto(r, "fail") \/ Goto(r, "cancel")
      BY <1>11, <2>2 DEF Record, Goto
    <3>2. worker'[r].pc \in {"fail", "cancel"} /\ worker'[r].tok = worker[r].tok /\ worker'[r].i = i
      BY <3>1, WorkerFacts
    <3>3. PlaceOK(r)'
      BY <1>2, <1>4, <2>1, <3>2 DEF PlaceOK
    <3> QED
      BY <1>5, <2>1, <3>2, <3>3
  <2>3. CASE res \in Succeeding
    <3>1. worker' = [worker EXCEPT ![r].pc = "top", ![r].i = i + 1]
      BY <1>11, <2>3, WorkerFacts DEF Record, Succeeding
    <3> QED
      BY <1>9, <2>1, <2>3, <3>1
  <2> QED
    BY <1>4, <2>1, <2>2, <2>3 DEF Succeeding
<1> QED
  BY <1>6, <1>7, <1>8, <1>10, <1>11

\* A step that is safe to repeat is opened again after it was failed.
LEMMA RetryStepRow ==
  ASSUME EngineTypeOK, QueueInv, NEW r \in Runs, RowInv(r), RetryStep(r)
  PROVE  RowInv(r)'
<1> DEFINE i == worker[r].i
<1>1. /\ worker[r].pc = "retry" /\ TransitionStep(r, i, "pending")
      /\ worker' = [worker EXCEPT ![r].pc = "top", ![r].i = 1]
      /\ ctx' = ctx /\ execs' = execs /\ signal' = signal /\ phase' = phase
  BY DEF RetryStep, At, restUnchanged
<1>2. worker'[r].pc = "top" /\ worker'[r].tok = worker[r].tok /\ worker'[r].i = 1
  BY <1>1, WorkerFacts
<1>3. /\ i \in Steps /\ step[r][i] = "failed" /\ Plan[i] \in ResumableKeys
      /\ \A j \in (i + 1)..Len(Plan) : step[r][j] = "pending"
      /\ i \in 1..Len(Plan) /\ Len(Plan) \in Nat
  BY <1>1, PlanFacts DEF RowInv, PlaceOK, Steps
<1>4. \A j \in 1..(i - 1) : step[r][j] \in Succeeding /\ step[r][j] # "running"
  BY <1>3 DEF RowInv, Succeeding
<1>5. "pending" \in StepStates
  BY DEF StepStates
<1>6. step'[r][i] = "pending" /\ \A j \in Steps \ {i} : step'[r][j] = step[r][j]
  BY <1>1, <1>3, <1>5, StepEffect
<1>7. \A j \in Steps : step'[r][j] \in Succeeding \cup {"pending"}
  <2>1. \A j \in Steps : j = i \/ j \in 1..(i - 1) \/ j \in (i + 1)..Len(Plan)
    BY <1>3 DEF Steps
  <2> QED
    BY <1>3, <1>4, <1>6, <2>1
<1>8. PlaceOK(r)'
  BY <1>2, <1>7 DEF PlaceOK
<1> HIDE DEF i
<1> QED
  BY <1>1, <1>2, <1>3, <1>4, <1>5, <1>8, StepRow

\* Cleanup and the sweep of a cancelled run, which find no step running.
LEMMA CancelRow ==
  ASSUME EngineTypeOK, QueueInv, NEW r \in Runs, RowInv(r), Cleanup(r) \/ Sweep(r)
  PROVE  RowInv(r)'
<1>1. /\ worker[r].pc \in {"cleanup", "sweep"}
      /\ execs' = execs /\ signal' = signal /\ phase' = phase
  BY DEF Cleanup, Sweep, At, restUnchanged
<1>2. (\A j \in Steps : step[r][j] # "running") /\ worker[r].i \in Steps
  BY <1>1 DEF RowInv, PlaceOK
<1>3. CASE Cleanup(r)
  <2>1. /\ step' = step /\ state' = state /\ lease' = lease /\ ctx' = ctx /\ Goto(r, "sweep")
    BY <1>3 DEF Cleanup, GuardedWrite, stepsUnchanged
  <2>2. worker'[r].pc = "sweep" /\ worker'[r].tok = worker[r].tok /\ worker'[r].i = worker[r].i
    BY <2>1, WorkerFacts
  <2>3. PlaceOK(r)'
    BY <1>2, <2>1, <2>2 DEF PlaceOK
  <2> QED
    BY <1>1, <2>1, <2>2, <2>3, StillRow
<1>4. CASE Sweep(r) /\ OpenSteps(r) # {}
  <2>1. PICK i \in OpenSteps(r) : TransitionStep(r, i, "cancelled") /\ worker' = worker /\ ctx' = ctx
    BY <1>4 DEF Sweep
  <2>2. i \in Steps /\ "cancelled" \in StepStates
    BY DEF OpenSteps, StepStates
  <2>3. step'[r][i] = "cancelled" /\ \A j \in Steps \ {i} : step'[r][j] = step[r][j]
    BY <2>1, <2>2, StepEffect
  <2>4. \A j \in Steps : step'[r][j] # "running"
    BY <1>2, <2>3
  <2>5. PlaceOK(r)'
    BY <1>1, <1>2, <2>1, <2>4 DEF PlaceOK
  <2>6. \A j \in 1..(i - 1) : step[r][j] # "running"
    BY <1>2, <2>2, PlanFacts DEF Steps
  <2> QED
    BY <1>1, <2>1, <2>2, <2>5, <2>6, StepRow
<1>5. CASE Sweep(r) /\ OpenSteps(r) = {}
  <2>1. TransitionRun(r, Token(r), "cancelled") /\ Exit(r) /\ step' = step
    BY <1>5 DEF Sweep, stepsUnchanged
  <2>2. worker'[r] = Idle /\ ctx'[r] = "live" /\ PlaceOK(r)'
    BY <2>1, ExitPlace
  <2>3. worker'[r].pc = "none"
    BY <2>2 DEF Idle
  <2> QED
    BY <1>1, <1>2, <2>1, <2>2, <2>3, RunRow
<1> QED
  BY <1>3, <1>4, <1>5

\* Every step of a worker keeps the invariant of every run.
LEMMA WorkerStepInv ==
  ASSUME EngineInv, QueueInv, NEW r \in Runs, WorkerStep(r)
  PROVE  EngineInv'
<1>1. EngineTypeOK /\ \A s \in Runs : RowInv(s)
  BY EngineInvByRow
<1>2. EngineTypeOK'
  BY <1>1, WorkerType
<1>3. RowInv(r)'
  BY <1>1, QuietRow, InvokeRow, RunMoveRow, RequestRow, BeginRow, EndStepRow, RetryStepRow,
     CancelRow DEF WorkerStep
<1>4. ASSUME NEW s \in Runs \ {r} PROVE RowInv(s)'
  <2>1. SameRow(s) /\ phase' = phase
    BY <1>1, WorkerKeepsOthers
  <2>2. phase' # "down" \/ At(s, "none")
    BY <1>1, <2>1 DEF RowInv
  <2> QED
    BY <1>1, <2>1, <2>2, SameRowInv
<1> QED
  BY <1>2, <1>3, <1>4, NextInvByRow

---------------------------------------------------------------------------
(* The scheduler, the operator, the process and the clock.                 *)

\* Inserting a run and superseding others touches queued runs only.
LEMMA InsertRow ==
  ASSUME EngineInv, QueueInv, NEW q, NEW p, Insert(q, p), UNCHANGED engineVars, TypeOK'
  PROVE  EngineInv'
<1>1. EngineTypeOK /\ (\A s \in Runs : RowInv(s)) /\ TypeOK
  BY EngineInvByRow DEF EngineTypeOK
<1>2. EngineTypeOK'
  BY <1>1 DEF EngineTypeOK, engineVars
<1>3. ASSUME NEW s \in Runs PROVE RowInv(s)'
  <2>1. /\ worker' = worker /\ ctx' = ctx /\ signal' = signal /\ step' = step /\ execs' = execs
        /\ phase' = phase /\ lease' = lease
    BY DEF engineVars, Insert
  <2>2. \/ state'[s] = state[s]
        \/ state[s] \in {"absent", "queued"} /\ state'[s] \in {"queued", "superseded"}
    BY <1>1 DEF Insert, SupersededSet, QueueInv, RowsAllocated, TypeOK, Runs
  <2>3. CASE state'[s] = state[s]
    BY <1>1, <2>1, <2>3, SameRowInv DEF SameRow, RowInv
  <2>4. CASE state[s] \in {"absent", "queued"} /\ state'[s] \in {"queued", "superseded"}
    <3>1. \A i \in Steps : step[s][i] = "pending"
      BY <1>1, <2>4 DEF RowInv
    <3>2. ~ signal[s] /\ ctx[s] # "operator"
      BY <1>1, <2>4 DEF RowInv, TerminalStates
    <3>3. PlaceOK(s)'
      BY <1>1, <2>1 DEF RowInv, PlaceOK
    <3> QED
      BY <1>1, <2>1, <2>4, <3>1, <3>2, <3>3 DEF RowInv, At, Token
  <2> QED
    BY <2>2, <2>3, <2>4
<1> QED
  BY <1>2, <1>3, NextInvByRow

\* A claimed or reclaimed run gets one worker, with the token of its new lease.
LEMMA SpawnType ==
  ASSUME EngineTypeOK, NEW r \in Runs, NEW p \in WorkerPCs, NEW i \in Steps, Spawn(r, p, i)
  PROVE  /\ worker' \in [Runs -> WorkerRow]
         /\ ctx' \in [Runs -> {"live", "operator", "lost"}]
         /\ worker'[r].pc = p /\ worker'[r].tok = tokens + 1 /\ worker'[r].i = i
         /\ ctx'[r] = "live"
         /\ \A s \in Runs \ {r} : worker'[s] = worker[s] /\ ctx'[s] = ctx[s]
<1> DEFINE v == [Idle EXCEPT !.pc = p, !.tok = tokens + 1, !.i = i]
<1>1. worker \in [Runs -> WorkerRow] /\ tokens + 1 \in Nat /\ i \in 1..(Len(Plan) + 1)
      /\ ctx \in [Runs -> {"live", "operator", "lost"}]
  BY PlanFacts DEF EngineTypeOK, TypeOK, Steps
<1>2. v \in WorkerRow /\ v.pc = p /\ v.tok = tokens + 1 /\ v.i = i
  BY <1>1, IdleType DEF WorkerRow, Idle
<1> HIDE DEF v
<1>3. worker' = [worker EXCEPT ![r] = v] /\ ctx' = [ctx EXCEPT ![r] = "live"]
  BY DEF Spawn, v
<1> QED
  BY <1>1, <1>2, <1>3

\* The scheduler claims a run whose steps are untouched.
LEMMA ClaimRow ==
  ASSUME EngineInv, QueueInv, NEW r \in Runs, Claim(r), TypeOK'
  PROVE  EngineInv'
<1>1. EngineTypeOK /\ (\A s \in Runs : RowInv(s)) /\ TypeOK /\ tokens \in Nat
  BY EngineInvByRow DEF EngineTypeOK, TypeOK
<1>2. /\ phase' = phase /\ phase = "up" /\ stale' = stale /\ signal' = signal /\ step' = step
      /\ attempt' = attempt /\ execs' = execs /\ crashes' = crashes /\ stops' = stops
      /\ cancels' = cancels /\ faults' = faults
      /\ state[r] = "queued" /\ state'[r] = "preparing" /\ lease'[r].token = tokens + 1
      /\ \A s \in Runs \ {r} : state'[s] = state[s] /\ lease'[s] = lease[s]
  BY <1>1 DEF Claim, ClaimNext, Claimable, TypeOK
<1>3. 1 \in Steps /\ "top" \in WorkerPCs
  BY PlanFacts DEF WorkerPCs
<1>4. /\ worker' \in [Runs -> WorkerRow] /\ ctx' \in [Runs -> {"live", "operator", "lost"}]
      /\ worker'[r].pc = "top" /\ worker'[r].tok = tokens + 1 /\ worker'[r].i = 1
      /\ ctx'[r] = "live"
      /\ \A s \in Runs \ {r} : worker'[s] = worker[s] /\ ctx'[s] = ctx[s]
  BY <1>1, <1>3, SpawnType DEF Claim
<1>5. EngineTypeOK'
  BY <1>1, <1>2, <1>4 DEF EngineTypeOK
<1>6. RowInv(r)'
  <2>1. (\A i \in Steps : step[r][i] = "pending") /\ ~ signal[r]
    BY <1>1, <1>2 DEF RowInv, TerminalStates
  <2>2. PlaceOK(r)'
    BY <1>2, <1>4, <2>1 DEF PlaceOK
  <2>3. "preparing" \notin {"absent", "queued", "succeeded"} \cup TerminalStates
    BY DEF TerminalStates
  <2> QED
    BY <1>1, <1>2, <1>4, <2>1, <2>2, <2>3 DEF RowInv, At, Token, NoToken, Terminal
<1>7. ASSUME NEW s \in Runs \ {r} PROVE RowInv(s)'
  BY <1>1, <1>2, <1>4, SameRowInv DEF SameRow
<1> QED
  BY <1>5, <1>6, <1>7, NextInvByRow

\* Reconciliation starts a worker at a place that what it found allows: a step
\* that is not safe to repeat is failed, and so is a run with no step running.
LEMMA ReconcileRow ==
  ASSUME EngineInv, QueueInv, NEW r \in Runs, Reconcile(r), TypeOK'
  PROVE  EngineInv'
<1>1. EngineTypeOK /\ (\A s \in Runs : RowInv(s)) /\ TypeOK /\ tokens \in Nat
  BY EngineInvByRow DEF EngineTypeOK, TypeOK
<1>2. /\ phase' = phase /\ phase = "starting" /\ stale' \subseteq stale /\ signal' = signal
      /\ step' = step /\ attempt' = attempt /\ execs' = execs /\ crashes' = crashes
      /\ stops' = stops /\ cancels' = cancels /\ faults' = faults
      /\ state' = state /\ lease'[r].token = tokens + 1
      /\ \A s \in Runs \ {r} : lease'[s] = lease[s]
  BY <1>1 DEF Reconcile, ReclaimExpiredLease, TypeOK
<1>3. PICK p, i :
        /\ Spawn(r, p, i)
        /\ \/ p = "fail" /\ i = 1 /\ \A j \in Steps : step[r][j] # "running"
           \/ i \in Steps /\ step[r][i] = "running" /\ p \in Decisions(Plan[i])
  BY DEF Reconcile
<1>4. i \in Steps /\ p \in WorkerPCs /\ p \in {"fail", "resume", "complete", "failStep"}
      /\ (p \in {"resume", "complete"} => Plan[i] \in ResumableKeys)
  BY <1>3, PlanFacts DEF Decisions, WorkerPCs, ResumableKeys
<1>5. /\ worker' \in [Runs -> WorkerRow] /\ ctx' \in [Runs -> {"live", "operator", "lost"}]
      /\ worker'[r].pc = p /\ worker'[r].tok = tokens + 1 /\ worker'[r].i = i
      /\ ctx'[r] = "live"
      /\ \A s \in Runs \ {r} : worker'[s] = worker[s] /\ ctx'[s] = ctx[s]
  BY <1>1, <1>3, <1>4, SpawnType
<1>6. EngineTypeOK'
  BY <1>1, <1>2, <1>5 DEF EngineTypeOK
<1>7. RowInv(r)'
  <2>1. p = "fail" => \A j \in Steps : step[r][j] # "running"
    BY <1>3 DEF Decisions
  <2>2. p # "fail" => step[r][i] = "running"
    BY <1>3
  <2>3. PlaceOK(r)'
    BY <1>2, <1>4, <1>5, <2>1, <2>2 DEF PlaceOK
  <2> QED
    BY <1>1, <1>2, <1>5, <2>3 DEF RowInv, At, Token, NoToken
<1>8. ASSUME NEW s \in Runs \ {r} PROVE RowInv(s)'
  BY <1>1, <1>2, <1>5, SameRowInv DEF SameRow
<1> QED
  BY <1>6, <1>7, <1>8, NextInvByRow

\* An operator's cancellation signals a worker only once the run is cancelling.
LEMMA OperatorRow ==
  ASSUME EngineInv, QueueInv, NEW r \in Runs, Cancel(r) \/ Signal(r), TypeOK'
  PROVE  EngineInv'
<1>1. EngineTypeOK /\ (\A s \in Runs : RowInv(s)) /\ TypeOK
      /\ signal \in [Runs -> BOOLEAN] /\ ctx \in [Runs -> {"live", "operator", "lost"}]
  BY EngineInvByRow DEF EngineTypeOK
<1>2. /\ worker' = worker /\ step' = step /\ attempt' = attempt /\ execs' = execs /\ phase' = phase
      /\ stale' = stale /\ crashes' = crashes /\ stops' = stops /\ faults' = faults
      /\ cancels' \in Nat
  BY <1>1 DEF Cancel, Signal, workerUnchanged, EngineTypeOK
<1>3. CASE Cancel(r)
  <2>1. /\ RequestCancellation(r) /\ ctx' = ctx
        /\ signal' = [signal EXCEPT ![r] = (state'[r] = "cancelling")]
    BY <1>3 DEF Cancel
  <2>2. signal' \in [Runs -> BOOLEAN]
    BY <1>1, <2>1, Zenon
  <2>3. EngineTypeOK'
    BY <1>1, <1>2, <2>1, <2>2 DEF EngineTypeOK
  <2>4. /\ \A s \in Runs \ {r} : state'[s] = state[s] /\ lease'[s] = lease[s]
        /\ \/ state[r] = "queued" /\ state'[r] = "cancelled"
           \/ state[r] \in LeasedStates /\ state'[r] = "cancelling" /\ lease' = lease
    <3>1. state[r] \in {"requested", "validating", "queued", "preparing", "running", "verifying"}
      BY <1>1, <2>1, TransitionFacts DEF RequestCancellation, CanTransitionRun, TypeOK
    <3>2. state[r] \notin {"requested", "validating"}
      BY DEF QueueInv, RowsAllocated
    <3> QED
      BY <1>1, <2>1, <3>1, <3>2 DEF RequestCancellation, TypeOK, LeasedStates
  <2>5. \A s \in Runs \ {r} : signal'[s] = signal[s]
    BY <1>1, <2>1
  <2>6. signal'[r] => state'[r] = "cancelling"
    BY <1>1, <2>1, Zenon
  <2>7. PlaceOK(r)'
    BY <1>1, <1>2 DEF RowInv, PlaceOK
  <2>8. RowInv(r)'
    <3>1. CASE state[r] = "queued" /\ state'[r] = "cancelled"
      <4>1. (\A i \in Steps : step[r][i] = "pending") /\ ctx[r] # "operator"
        BY <1>1, <3>1 DEF RowInv, TerminalStates
      <4>2. At(r, "none")
        BY <1>1, <3>1, OwnedState DEF LeasedStates
      <4> QED
        BY <1>1, <1>2, <2>1, <2>6, <2>7, <3>1, <4>1, <4>2 DEF RowInv, At, Terminal
    <3>2. CASE state[r] \in LeasedStates /\ state'[r] = "cancelling" /\ lease' = lease
      BY <1>1, <1>2, <2>1, <2>7, <3>2 DEF RowInv, At, Token, Terminal, TerminalStates
    <3> QED
      BY <2>4, <3>1, <3>2
  <2>9. ASSUME NEW s \in Runs \ {r} PROVE RowInv(s)'
    <3>1. SameRow(s)
      BY <1>2, <2>1, <2>4, <2>5 DEF SameRow
    <3> QED
      BY <1>1, <1>2, <3>1, SameRowInv DEF RowInv
  <2> QED
    BY <2>3, <2>8, <2>9, NextInvByRow
<1>4. CASE Signal(r)
  <2>1. /\ signal[r] /\ signal' = [signal EXCEPT ![r] = FALSE] /\ state' = state /\ lease' = lease
        /\ ctx' = [ctx EXCEPT ![r] = IF ~ At(r, "none") /\ Live(r) THEN "operator" ELSE @]
    BY <1>4 DEF Signal, queueVars
  <2>2. signal' \in [Runs -> BOOLEAN]
    BY <1>1, <2>1, Zenon
  <2>3. ctx' \in [Runs -> {"live", "operator", "lost"}]
    BY <1>1, <2>1
  <2>4. EngineTypeOK'
    BY <1>1, <1>2, <2>2, <2>3 DEF EngineTypeOK
  <2>5. state[r] \in {"cancelling"} \cup TerminalStates
    BY <1>1, <2>1 DEF RowInv
  <2>6. PlaceOK(r)'
    BY <1>1, <1>2 DEF RowInv, PlaceOK
  <2>7. RowInv(r)'
    BY <1>1, <1>2, <2>1, <2>5, <2>6 DEF RowInv, At, Token
  <2>8. ASSUME NEW s \in Runs \ {r} PROVE RowInv(s)'
    <3>1. SameRow(s)
      BY <1>1, <1>2, <2>1 DEF SameRow
    <3> QED
      BY <1>1, <1>2, <3>1, SameRowInv DEF RowInv
  <2> QED
    BY <2>4, <2>7, <2>8, NextInvByRow
<1> QED
  BY <1>3, <1>4

\* Heartbeats, the clock and a heartbeat that fails move neither rows nor places.
LEMMA HeartbeatRow ==
  ASSUME EngineInv, NEW r \in Runs, KeepAlive(r) \/ LoseLease(r) \/ Clock, TypeOK'
  PROVE  EngineInv'
<1>1. EngineTypeOK /\ (\A s \in Runs : RowInv(s)) /\ TypeOK
      /\ ctx \in [Runs -> {"live", "operator", "lost"}] /\ lease \in [Runs -> LeaseRow]
  BY EngineInvByRow DEF EngineTypeOK, TypeOK
<1>2. /\ worker' = worker /\ step' = step /\ attempt' = attempt /\ execs' = execs /\ phase' = phase
      /\ stale' = stale /\ crashes' = crashes /\ stops' = stops /\ cancels' = cancels
      /\ signal' = signal /\ state' = state /\ faults' \in Nat
  BY <1>1 DEF KeepAlive, LoseLease, Clock, Tick, Heartbeat, workerUnchanged, engineVars, queueVars,
     EngineTypeOK
<1>3. ctx' = ctx \/ ctx' = [ctx EXCEPT ![r] = "lost"]
  BY DEF KeepAlive, LoseLease, Clock, engineVars
<1>4. \A s \in Runs : lease'[s].token = lease[s].token
  BY <1>1 DEF KeepAlive, LoseLease, Clock, Tick, Heartbeat, queueVars, LeaseRow
<1>5. EngineTypeOK'
  BY <1>1, <1>2, <1>3 DEF EngineTypeOK
<1>6. ASSUME NEW s \in Runs PROVE RowInv(s)'
  <2>1. PlaceOK(s)'
    BY <1>1, <1>2 DEF RowInv, PlaceOK
  <2>2. ctx'[s] = "operator" => ctx[s] = "operator"
    BY <1>1, <1>3
  <2> QED
    BY <1>1, <1>2, <1>4, <2>1, <2>2 DEF RowInv, At, Token
<1> QED
  BY <1>5, <1>6, NextInvByRow

\* Shutdown, its end, a crash and a start: workers go, rows stay.
LEMMA ProcessRow ==
  ASSUME EngineInv, Shutdown \/ Drained \/ Crash \/ Start \/ Started, TypeOK'
  PROVE  EngineInv'
<1>1. EngineTypeOK /\ (\A s \in Runs : RowInv(s)) /\ TypeOK
  BY EngineInvByRow DEF EngineTypeOK
<1>2. /\ step' = step /\ attempt' = attempt /\ execs' = execs /\ cancels' = cancels
      /\ state' = state /\ lease' = lease /\ faults' = faults
      /\ crashes' \in Nat /\ stops' \in Nat /\ stale' \subseteq Runs
      /\ phase' \in {"down", "starting", "up", "draining"}
  BY <1>1 DEF Shutdown, Drained, Crash, Start, Started, workerUnchanged, queueVars, EngineTypeOK
<1>3. CASE Crash
  <2>1. /\ worker' = [s \in Runs |-> Idle] /\ ctx' = [s \in Runs |-> "live"]
        /\ signal' = [s \in Runs |-> FALSE]
    BY <1>3 DEF Crash
  <2>2. signal' \in [Runs -> BOOLEAN]
    BY <2>1, Zenon
  <2>3. worker' \in [Runs -> WorkerRow] /\ ctx' \in [Runs -> {"live", "operator", "lost"}]
    BY <2>1, IdleType
  <2>4. EngineTypeOK'
    BY <1>1, <1>2, <2>2, <2>3 DEF EngineTypeOK
  <2>5. ASSUME NEW s \in Runs PROVE RowInv(s)'
    <3>1. worker'[s].pc = "none" /\ worker'[s].i = 1 /\ ctx'[s] = "live" /\ ~ signal'[s]
      BY <2>1 DEF Idle
    <3>2. PlaceOK(s)'
      BY <3>1, PlanFacts DEF PlaceOK
    <3> QED
      BY <1>1, <1>2, <3>1, <3>2 DEF RowInv, At
  <2> QED
    BY <2>4, <2>5, NextInvByRow
<1>4. CASE Shutdown \/ Drained \/ Start \/ Started
  <2>1. worker' = worker /\ ctx' = ctx /\ signal' = signal
    BY <1>4 DEF Shutdown, Drained, Start, Started, workerUnchanged
  <2>2. EngineTypeOK'
    BY <1>1, <1>2, <2>1 DEF EngineTypeOK
  <2>3. ASSUME NEW s \in Runs PROVE RowInv(s)'
    <3>1. SameRow(s)
      BY <1>2, <2>1 DEF SameRow
    <3>2. phase' # "down" \/ At(s, "none")
      BY <1>4 DEF Shutdown, Drained, Start, Started
    <3> QED
      BY <1>1, <3>1, <3>2, SameRowInv
  <2> QED
    BY <2>2, <2>3, NextInvByRow
<1> QED
  BY <1>3, <1>4

\* Before anything is submitted nobody works on anything.
LEMMA EngineInitInv == EngineInit => EngineInv
<1> SUFFICES ASSUME EngineInit PROVE EngineInv
  OBVIOUS
<1>1. TypeOK
  BY InitType DEF EngineInit
<1>2. /\ worker = [r \in Runs |-> Idle] /\ ctx = [r \in Runs |-> "live"]
      /\ signal = [r \in Runs |-> FALSE] /\ step = [r \in Runs |-> [i \in Steps |-> "pending"]]
      /\ execs = [r \in Runs |-> [i \in Steps |-> 0]] /\ state = [r \in Runs |-> "absent"]
      /\ attempt = [r \in Runs |-> [i \in Steps |-> 1]]
  BY DEF EngineInit, Init
<1>3. signal \in [Runs -> BOOLEAN]
  BY <1>2, Zenon
<1>4. worker \in [Runs -> WorkerRow] /\ step \in [Runs -> [Steps -> StepStates]]
  BY <1>2, IdleType DEF StepStates
<1>5. EngineTypeOK
  BY <1>1, <1>2, <1>3, <1>4 DEF EngineInit, EngineTypeOK
<1>6. ASSUME NEW r \in Runs PROVE RowInv(r)
  <2>1. /\ worker[r].pc = "none" /\ worker[r].i = 1 /\ ctx[r] = "live" /\ ~ signal[r]
        /\ state[r] = "absent" /\ \A i \in Steps : step[r][i] = "pending" /\ execs[r][i] = 0
    BY <1>2 DEF Idle
  <2>2. PlaceOK(r)
    BY <2>1, PlanFacts DEF PlaceOK
  <2> QED
    BY <2>1, <2>2, PlanFacts DEF RowInv, At, Terminal, TerminalStates
<1> QED
  BY <1>5, <1>6, EngineInvByRow

\* EngineInv is inductive, relative to the invariant of the store.
LEMMA EngineNextInv == QueueInv /\ EngineInv /\ [EngineNext]_allVars => EngineInv'
<1> SUFFICES ASSUME QueueInv, EngineInv, [EngineNext]_allVars PROVE EngineInv'
  OBVIOUS
<1>1. TypeOK'
  BY EngineStepsQueue, NextType DEF QueueInv
<1>2. CASE Submit
  BY <1>1, <1>2, InsertRow DEF Submit, Enqueue
<1>3. CASE Clock
  <2>1. CASE Runs = {}
    BY <1>1, <1>3, <2>1, EngineInvByRow, NextInvByRow DEF Clock, engineVars, EngineTypeOK
  <2> QED
    BY <1>1, <1>3, <2>1, HeartbeatRow
<1>4. CASE Shutdown \/ Drained \/ Crash \/ Start \/ Started
  BY <1>1, <1>4, ProcessRow
<1>5. ASSUME NEW r \in Runs, Resubmit(r) PROVE EngineInv'
  BY <1>1, <1>5, InsertRow DEF Resubmit, Retry
<1>6. ASSUME NEW r \in Runs, Claim(r) PROVE EngineInv'
  BY <1>1, <1>6, ClaimRow
<1>7. ASSUME NEW r \in Runs, Cancel(r) \/ Signal(r) PROVE EngineInv'
  BY <1>1, <1>7, OperatorRow
<1>8. ASSUME NEW r \in Runs, Reconcile(r) PROVE EngineInv'
  BY <1>1, <1>8, ReconcileRow
<1>9. ASSUME NEW r \in Runs, KeepAlive(r) \/ LoseLease(r) PROVE EngineInv'
  BY <1>1, <1>9, HeartbeatRow
<1>10. ASSUME NEW r \in Runs, WorkerStep(r) PROVE EngineInv'
  BY <1>10, WorkerStepInv
<1>11. CASE UNCHANGED allVars
  <2>1. EngineTypeOK /\ (\A s \in Runs : RowInv(s))
    BY EngineInvByRow
  <2>2. EngineTypeOK'
    BY <1>1, <1>11, <2>1 DEF allVars, engineVars, EngineTypeOK
  <2>3. ASSUME NEW s \in Runs PROVE RowInv(s)'
    BY <1>11, <2>1, SameRowInv DEF allVars, engineVars, queueVars, SameRow, RowInv
  <2> QED
    BY <2>2, <2>3, NextInvByRow
<1> QED
  BY <1>2, <1>3, <1>4, <1>5, <1>6, <1>7, <1>8, <1>9, <1>10, <1>11 DEF EngineNext

---------------------------------------------------------------------------
(* Theorems.                                                               *)

\* The engine's invariant holds whatever crashes, shutdowns, cancellations and
\* lost heartbeats happen, for every plan (engine.go: execute, Start, Cancel).
THEOREM EngineInvariance == EngineSpec => []EngineInv
BY EngineInitInv, EngineNextInv, EngineKeepsQueueInv, PTL DEF EngineSpec

\* A step that is not safe to repeat is executed at most once, however often the
\* process dies and whatever reconciliation finds (reconcilePreparation).
THEOREM SideEffectsOnce == EngineSpec => []SideEffectOnce
<1>1. EngineInv => SideEffectOnce
  BY DEF EngineInv
<1> QED
  BY <1>1, EngineInvariance, PTL

\* A run that is called succeeded has no step that was not (finishSuccess).
THEOREM SuccessIsComplete == EngineSpec => []SucceededComplete
<1>1. EngineInv => SucceededComplete
  BY DEF EngineInv
<1> QED
  BY <1>1, EngineInvariance, PTL

\* A cancellation never reaches an adapter that changes the live route or runtime:
\* the store refuses it before, and the context follows the store (Engine.Cancel).
THEOREM ActivationNotInterrupted == EngineSpec => []ActivationUninterrupted
<1>1. EngineInv => ActivationUninterrupted
  BY DEF EngineInv, CancelCommitted, ActivationUninterrupted, TerminalStates
<1> QED
  BY <1>1, EngineInvariance, PTL

===========================================================================
