--------------------------- MODULE DeployEngine ---------------------------
(***************************************************************************)
(* The deployment engine (backend/internal/deploy/engine.go) over the      *)
(* durable queue: the scheduler, one worker per claimed run with its       *)
(* heartbeat, the operator's cancellation, shutdown, crash, restart and    *)
(* reconciliation.  Every store call of a worker is an action of its own,  *)
(* so other actors interleave between any two of them, as they do in Go.   *)
(*                                                                         *)
(* A store call made with the worker's context fails once that context is  *)
(* cancelled; one made with context.Background does not.  A worker whose   *)
(* call fails returns: the run keeps its state and its lease row.          *)
(***************************************************************************)
EXTENDS RunQueue

CONSTANTS
  Plan,        \* the step keys of every run, in order
  MaxCrashes,  \* bound: process crashes (and shutdowns past their grace)
  MaxStops,    \* bound: orderly shutdowns
  MaxCancels,  \* bound: operator cancellations
  MaxFaults,   \* bound: heartbeats that fail for a reason of the database's
  Stalls       \* whether a worker's heartbeat may be late

VARIABLES
  phase,    \* the process: "down", "starting", "up" or "draining"
  stale,    \* expired leases Start read and has not reconciled yet
  worker,   \* worker[r]: the goroutine of run r, Idle if there is none
  ctx,      \* its context: "live", or its cause "operator" or "lost"
  signal,   \* signal[r]: Cancel has committed but not yet cancelled ctx
  step,     \* step[r][i]: state of the latest attempt of step i
  attempt,  \* attempt[r][i]: its number
  execs,    \* history: times Execute was called for the step
  crashes, stops, cancels, faults   \* how often each has happened

engineVars == <<phase, stale, worker, ctx, signal, step, attempt, execs,
                crashes, stops, cancels, faults>>

StepKeys == {"resolve_source", "acquire_source", "analyze_plan", "prepare_context",
             "build_artifact", "render_runtime", "release_task", "backup_gate",
             "start_candidate", "verify_readiness", "verify_smoke", "activate",
             "retire_previous", "record_release", "notify", "legacy_pipeline"}

ASSUME EngineAssumption ==
  /\ Plan \in Seq(StepKeys) /\ Plan # <<>>
  /\ MaxCrashes \in Nat /\ MaxStops \in Nat /\ MaxCancels \in Nat /\ MaxFaults \in Nat
  /\ Stalls \in BOOLEAN

Steps == 1..Len(Plan)

\* A worker: where it is in execute, its claim token, the step it is at, the
\* run state it read last, and the adapter's result it carries.
Idle == [pc |-> "none", tok |-> NoToken, i |-> 1, seen |-> "none",
         res |-> "none", recovered |-> FALSE]

WorkerPCs == {"none", "top", "check", "advance", "started", "exec", "record",
              "cancelStep", "cancel", "request", "cleanup", "sweep", "fail",
              "success", "resume", "retry", "complete", "failStep"}

WorkerRow == [pc : WorkerPCs, tok : Nat, i : 1..(Len(Plan) + 1),
              seen : RunStates \cup {"none"},
              res : StepStates \cup {"none"}, recovered : BOOLEAN]

EngineTypeOK ==
  /\ TypeOK
  /\ phase \in {"down", "starting", "up", "draining"}
  /\ stale \subseteq Runs
  /\ worker \in [Runs -> WorkerRow]
  /\ ctx \in [Runs -> {"live", "operator", "lost"}]
  /\ signal \in [Runs -> BOOLEAN]
  /\ step \in [Runs -> [Steps -> StepStates]]
  /\ attempt \in [Runs -> [Steps -> Nat]]
  /\ execs \in [Runs -> [Steps -> Nat]]
  /\ crashes \in Nat /\ stops \in Nat /\ cancels \in Nat /\ faults \in Nat

EngineInit ==
  /\ Init
  /\ phase = "up"
  /\ stale = {}
  /\ worker = [r \in Runs |-> Idle]
  /\ ctx = [r \in Runs |-> "live"]
  /\ signal = [r \in Runs |-> FALSE]
  /\ step = [r \in Runs |-> [i \in Steps |-> "pending"]]
  /\ attempt = [r \in Runs |-> [i \in Steps |-> 1]]
  /\ execs = [r \in Runs |-> [i \in Steps |-> 0]]
  /\ crashes = 0 /\ stops = 0 /\ cancels = 0 /\ faults = 0

---------------------------------------------------------------------------
(* Adapters and reconciliation, as far as the engine can tell them apart.  *)

\* What Execute may return for a step while the context is live.  "cancelled"
\* comes from a timeout of the adapter's own: normalizedStepFailure and
\* runtimeStepFailure report a passed deadline as a cancellation.
Outcomes(key) ==
  CASE key = "notify"          -> {"skipped"}
    [] key = "legacy_pipeline" -> {"passed", "failed", "cancelled"}
    [] key = "release_task"    -> {"passed", "failed", "skipped", "cancelled"}
    [] key = "backup_gate"     -> {"passed", "failed", "skipped", "unavailable"}
    [] key \in {"verify_readiness", "verify_smoke"} ->
         {"passed", "warning", "failed", "skipped", "unavailable"}
    [] key = "retire_previous" -> {"passed", "failed", "skipped", "unavailable", "cancelled"}
    [] key = "activate"        -> {"passed", "failed", "unavailable"}
    [] key = "record_release"  -> {"passed", "failed"}
    [] key = "analyze_plan"    -> {"passed", "warning", "failed", "unavailable"}
    [] OTHER                   -> {"passed", "failed", "unavailable", "cancelled"}

\* DeploymentReconciler: the decisions for a step found running after a
\* restart.  render_runtime depends on whether its release was recorded.
ResumableKeys == {"resolve_source", "acquire_source", "analyze_plan",
                  "prepare_context", "build_artifact", "render_runtime"}

\* Faulty variant: every interrupted step is run again.
Decisions_AlwaysResume(key) == {"resume"}

Decisions(key) ==
  IF key = "render_runtime" THEN {"resume", "complete", "failStep"}
  ELSE IF key \in ResumableKeys THEN {"resume"}
  ELSE {"failStep"}

---------------------------------------------------------------------------
(* Workers.                                                                *)

Token(r) == worker[r].tok
Key(r)   == Plan[worker[r].i]
Live(r)  == ctx[r] = "live"
At(r, p) == worker[r].pc = p

Goto(r, p) == worker' = [worker EXCEPT ![r].pc = p]

\* startWorker's deferred cleanup: the goroutine and its context are gone.
Exit(r) ==
  /\ worker' = [worker EXCEPT ![r] = Idle]
  /\ ctx' = [ctx EXCEPT ![r] = "live"]

Spawn(r, p, i) ==
  /\ worker' = [worker EXCEPT ![r] = [Idle EXCEPT !.pc = p, !.tok = tokens + 1, !.i = i]]
  /\ ctx' = [ctx EXCEPT ![r] = "live"]

\* TransitionRun and TransitionStep commit, or refuse and leave the worker
\* with an error.
RunMovable(r, to) ==
  LeaseHeld(r, Token(r)) /\ ~ Terminal(state[r]) /\ CanTransitionRun(state[r], to)

StepMovable(r, i, to) ==
  LeaseHeld(r, Token(r)) /\ CanTransitionStep(step[r][i], to)

TransitionStep(r, i, to) ==
  /\ CanTransitionStep(step[r][i], to)
  /\ GuardedWrite(r, Token(r))
  /\ step' = [step EXCEPT ![r][i] = to]
  /\ attempt' = IF step[r][i] = "failed" THEN [attempt EXCEPT ![r][i] = @ + 1] ELSE attempt

restUnchanged == UNCHANGED <<phase, stale, signal, execs, crashes, stops, cancels, faults>>
stepsUnchanged == UNCHANGED <<step, attempt>>

\* The loop head reads the run again before every step, and once after the last.
Top(r) ==
  /\ At(r, "top") /\ Live(r)
  /\ IF worker[r].i > Len(Plan)
       THEN /\ worker' = [worker EXCEPT ![r].pc = "success", ![r].seen = state[r]]
            /\ UNCHANGED ctx
     ELSE IF Terminal(state[r]) THEN Exit(r)
     ELSE IF state[r] = "cancelling" \/ cancelRequested[r]
       THEN Goto(r, "cancel") /\ UNCHANGED ctx
     ELSE /\ worker' = [worker EXCEPT ![r].pc = "check", ![r].seen = state[r]]
          /\ UNCHANGED ctx
  /\ UNCHANGED queueVars /\ stepsUnchanged /\ restUnchanged

\* The ctx.Err() test that follows the read, whatever ended the context.
Check(r) ==
  /\ At(r, "check")
  /\ Goto(r, IF Live(r) THEN "advance" ELSE "cancel")
  /\ UNCHANGED <<queueVars, ctx>> /\ stepsUnchanged /\ restUnchanged

\* advanceRunForStep: the next run state that the step at hand calls for.
AdvanceTarget(seen, key) ==
  IF key \in {"build_artifact", "verify_readiness", "activate"} /\ seen = "preparing" THEN "running"
  ELSE IF key \in {"verify_readiness", "activate"} /\ seen = "running" THEN "verifying"
  ELSE IF key = "activate" /\ seen = "verifying" THEN "activating"
  ELSE seen

Advancing(r) == At(r, "advance") /\ AdvanceTarget(worker[r].seen, Key(r)) # worker[r].seen
Beginning(r) == At(r, "advance") /\ AdvanceTarget(worker[r].seen, Key(r)) = worker[r].seen

Advance(r) ==
  LET to == AdvanceTarget(worker[r].seen, Key(r)) IN
  /\ Advancing(r) /\ Live(r)
  /\ TransitionRun(r, Token(r), to)
  /\ worker' = [worker EXCEPT ![r].seen = to]
  /\ UNCHANGED ctx /\ stepsUnchanged /\ restUnchanged

\* A step whose latest attempt is over is passed by.
PassBy(r) ==
  /\ Beginning(r) /\ stepAttemptTerminal(step[r][worker[r].i])
  /\ worker' = [worker EXCEPT ![r].pc = "top", ![r].i = @ + 1]
  /\ UNCHANGED <<queueVars, ctx>> /\ stepsUnchanged /\ restUnchanged

Begin(r) ==
  /\ Beginning(r) /\ Live(r)
  /\ TransitionStep(r, worker[r].i, "running")
  /\ Goto(r, "started")
  /\ UNCHANGED ctx /\ restUnchanged

Invoke(r) ==
  /\ At(r, "started") /\ Live(r)
  /\ execs' = [execs EXCEPT ![r][worker[r].i] = @ + 1]
  /\ Goto(r, "exec")
  /\ UNCHANGED <<queueVars, ctx, phase, stale, signal, crashes, stops, cancels, faults>>
  /\ stepsUnchanged

\* Faulty variant: an adapter's empty result is taken as it is.
Return_Unnormalised(r) ==
  /\ At(r, "exec") /\ Live(r)
  /\ worker' = [worker EXCEPT ![r].pc = "record", ![r].res = ""]
  /\ UNCHANGED <<queueVars, ctx>> /\ stepsUnchanged /\ restUnchanged

\* Execute returns; what follows depends on how the context fares by then.
Return(r) ==
  /\ At(r, "exec")
  /\ \/ /\ Live(r)
        /\ \E res \in Outcomes(Key(r)), rec \in BOOLEAN :
             /\ rec => Key(r) = "activate" /\ res # "passed"
             /\ allowedExecutorResult(res)
             /\ worker' = [worker EXCEPT ![r].pc = "record", ![r].res = res,
                                         ![r].recovered = rec]
        /\ UNCHANGED ctx
     \/ ctx[r] = "lost" /\ Exit(r)
     \/ ctx[r] = "operator" /\ Goto(r, "cancelStep") /\ UNCHANGED ctx
  /\ UNCHANGED queueVars /\ stepsUnchanged /\ restUnchanged

CancelStep(r) ==
  /\ At(r, "cancelStep")
  /\ TransitionStep(r, worker[r].i, "cancelled")
  /\ Goto(r, "cancel")
  /\ UNCHANGED ctx /\ restUnchanged

\* Faulty variant: goes on to the next step after a failure.
Record_NoReturn(r) ==
  /\ At(r, "record") /\ Live(r)
  /\ TransitionStep(r, worker[r].i, worker[r].res)
  /\ worker' = [worker EXCEPT ![r].pc = "top", ![r].i = @ + 1]
  /\ UNCHANGED ctx /\ restUnchanged

Record(r) ==
  LET res == worker[r].res IN
  /\ At(r, "record") /\ Live(r)
  /\ TransitionStep(r, worker[r].i, res)
  /\ worker' = IF res \in {"failed", "unavailable"} THEN [worker EXCEPT ![r].pc = "fail"]
               ELSE IF res = "cancelled" THEN [worker EXCEPT ![r].pc = "cancel"]
               ELSE [worker EXCEPT ![r].pc = "top", ![r].i = @ + 1]
  /\ UNCHANGED ctx /\ restUnchanged

\* failRun
FailTarget(r) ==
  CASE state[r] = "activating"         -> "failed_activation"
    [] state[r] = "failed_activation"  -> IF worker[r].recovered THEN "restoring_previous" ELSE "failed"
    [] state[r] = "restoring_previous" -> "rolled_back"
    [] OTHER                           -> "failed"

FailRun(r) ==
  /\ At(r, "fail") /\ Live(r)
  /\ TransitionRun(r, Token(r), FailTarget(r))
  /\ IF Terminal(FailTarget(r)) THEN Exit(r) ELSE UNCHANGED <<worker, ctx>>
  /\ stepsUnchanged /\ restUnchanged

\* finishSuccess walks the run forward from the state it read.
SuccessTargets(seen) ==
  {"running", "verifying", "activating", "succeeded"} \cap runTransitions(seen)

FinishSuccess(r) ==
  /\ At(r, "success") /\ Live(r)
  /\ \E to \in SuccessTargets(worker[r].seen) :
       /\ TransitionRun(r, Token(r), to)
       /\ IF Terminal(to) THEN Exit(r)
          ELSE worker' = [worker EXCEPT ![r].seen = to] /\ UNCHANGED ctx
  /\ stepsUnchanged /\ restUnchanged

---------------------------------------------------------------------------
(* finishCancellation, which works under context.Background.               *)

FinishCancellation(r) ==
  /\ At(r, "cancel")
  /\ IF Terminal(state[r]) THEN Exit(r)
     ELSE Goto(r, IF state[r] = "cancelling" THEN "cleanup" ELSE "request") /\ UNCHANGED ctx
  /\ UNCHANGED queueVars /\ stepsUnchanged /\ restUnchanged

WorkerRequestsCancellation(r) ==
  /\ At(r, "request")
  /\ RequestCancellation(r)
  /\ Goto(r, "cleanup")
  /\ UNCHANGED ctx /\ stepsUnchanged /\ restUnchanged

\* Faulty variant: appends the evidence without asserting the lease.
Cleanup_Unfenced(r) ==
  /\ At(r, "cleanup")
  /\ writer' = [writer EXCEPT ![r] = Token(r)]
  /\ UNCHANGED <<rowVars, state, cancelRequested, leaseToken, supersededBy, lease, now, tokens>>
  /\ Goto(r, "sweep")
  /\ UNCHANGED ctx /\ stepsUnchanged /\ restUnchanged

\* CleanupCancelledRun ends and its evidence is appended.
Cleanup(r) ==
  /\ At(r, "cleanup")
  /\ GuardedWrite(r, Token(r))
  /\ Goto(r, "sweep")
  /\ UNCHANGED ctx /\ stepsUnchanged /\ restUnchanged

\* CancelOpenSteps: the default keys only, in their order.
OpenSteps(r) == {i \in Steps : /\ Plan[i] # "legacy_pipeline"
                               /\ CanTransitionStep(step[r][i], "cancelled")}

Sweep(r) ==
  /\ At(r, "sweep")
  /\ IF OpenSteps(r) # {}
       THEN /\ \E i \in OpenSteps(r) :
                 /\ \A j \in OpenSteps(r) : i <= j
                 /\ TransitionStep(r, i, "cancelled")
            /\ UNCHANGED <<worker, ctx>>
       ELSE /\ TransitionRun(r, Token(r), "cancelled")
            /\ Exit(r)
            /\ stepsUnchanged
  /\ restUnchanged

---------------------------------------------------------------------------
(* reconcilePreparation, run by the worker before execute.                 *)

\* Faulty variant: no new attempt is opened for the interrupted one.
Resume_NoAttempt(r) ==
  /\ At(r, "resume") /\ Live(r)
  /\ TransitionStep(r, worker[r].i, "failed")
  /\ worker' = [worker EXCEPT ![r].pc = "top", ![r].i = 1]
  /\ UNCHANGED ctx /\ restUnchanged

\* The interrupted attempt is failed, then a new one is opened.
Resume(r) ==
  /\ At(r, "resume") /\ Live(r)
  /\ TransitionStep(r, worker[r].i, "failed")
  /\ Goto(r, "retry")
  /\ UNCHANGED ctx /\ restUnchanged

RetryStep(r) ==
  /\ At(r, "retry") /\ Live(r)
  /\ TransitionStep(r, worker[r].i, "pending")
  /\ worker' = [worker EXCEPT ![r].pc = "top", ![r].i = 1]
  /\ UNCHANGED ctx /\ restUnchanged

Complete(r) ==
  /\ At(r, "complete") /\ Live(r)
  /\ TransitionStep(r, worker[r].i, "passed")
  /\ worker' = [worker EXCEPT ![r].pc = "top", ![r].i = 1]
  /\ UNCHANGED ctx /\ restUnchanged

\* Faulty variant: fails the run and leaves the step as it was found.
FailStep_RunOnly(r) ==
  /\ At(r, "failStep") /\ Live(r)
  /\ Goto(r, "fail")
  /\ UNCHANGED <<queueVars, ctx>> /\ stepsUnchanged /\ restUnchanged

FailStep(r) ==
  /\ At(r, "failStep") /\ Live(r)
  /\ TransitionStep(r, worker[r].i, "failed")
  /\ Goto(r, "fail")
  /\ UNCHANGED ctx /\ restUnchanged

---------------------------------------------------------------------------
(* A store call that fails ends the worker.                                *)

\* Places whose next store call uses the worker's context.
ContextPCs == {"top", "started", "record", "fail", "success", "resume", "retry",
               "complete", "failStep"}

CallFails(r) ==
  LET i == worker[r].i
      refusesRun(to) == ~ RunMovable(r, to)
      refusesStep(to) == ~ StepMovable(r, i, to) IN
  \/ worker[r].pc \in ContextPCs /\ ~ Live(r)
  \/ Advancing(r) /\ (~ Live(r) \/ refusesRun(AdvanceTarget(worker[r].seen, Key(r))))
  \/ Beginning(r) /\ ~ stepAttemptTerminal(step[r][i]) /\ (~ Live(r) \/ refusesStep("running"))
  \/ At(r, "record") /\ refusesStep(worker[r].res)
  \/ At(r, "cancelStep") /\ refusesStep("cancelled")
  \/ At(r, "fail") /\ refusesRun(FailTarget(r))
  \/ At(r, "success") /\ \A to \in SuccessTargets(worker[r].seen) : refusesRun(to)
  \/ At(r, "request") /\ ~ CanTransitionRun(state[r], "cancelling")
  \/ worker[r].pc \in {"cleanup", "sweep"} /\ ~ LeaseHeld(r, Token(r))
  \/ At(r, "resume") /\ refusesStep("failed")
  \/ At(r, "retry") /\ refusesStep("pending")
  \/ At(r, "complete") /\ refusesStep("passed")
  \/ At(r, "failStep") /\ refusesStep("failed")

WorkerFails(r) ==
  /\ CallFails(r)
  /\ Exit(r)
  /\ UNCHANGED queueVars /\ stepsUnchanged /\ restUnchanged

WorkerStep(r) ==
  \/ Top(r) \/ Check(r) \/ Advance(r) \/ PassBy(r) \/ Begin(r) \/ Invoke(r)
  \/ Return(r) \/ CancelStep(r) \/ Record(r) \/ FailRun(r) \/ FinishSuccess(r)
  \/ FinishCancellation(r) \/ WorkerRequestsCancellation(r) \/ Cleanup(r) \/ Sweep(r)
  \/ Resume(r) \/ RetryStep(r) \/ Complete(r) \/ FailStep(r) \/ WorkerFails(r)

---------------------------------------------------------------------------
(* The heartbeat goroutine: it stops when the worker's context ends.       *)

workerUnchanged == UNCHANGED <<worker, step, attempt, execs>>

\* A second heartbeat within one tick would change nothing.
KeepAlive(r) ==
  /\ ~ At(r, "none") /\ Live(r)
  /\ lease[r].expires < now + TTL
  /\ Heartbeat(r, Token(r))
  /\ UNCHANGED engineVars

LoseLease(r) ==
  /\ ~ At(r, "none") /\ Live(r)
  /\ \/ ~ LeaseHeld(r, Token(r)) /\ UNCHANGED faults
     \/ faults < MaxFaults /\ faults' = faults + 1
  /\ ctx' = [ctx EXCEPT ![r] = "lost"]
  /\ workerUnchanged
  /\ UNCHANGED <<queueVars, phase, stale, signal, crashes, stops, cancels>>

---------------------------------------------------------------------------
(* The scheduler, the operator and the process.                            *)

Claim(r) ==
  /\ phase = "up"
  /\ ClaimNext(r)
  /\ Spawn(r, "top", 1)
  /\ UNCHANGED <<phase, stale, signal, step, attempt, execs, crashes, stops, cancels, faults>>

Submit == phase = "up" /\ Enqueue /\ UNCHANGED engineVars

Resubmit(r) == phase = "up" /\ Retry(r) /\ UNCHANGED engineVars

\* Faulty variant: cancels the worker's context though the store refused.
Cancel_IgnoresRefusal(r) ==
  /\ phase = "up" /\ cancels < MaxCancels /\ ~ At(r, "none")
  /\ \/ RequestCancellation(r)
     \/ ~ CanTransitionRun(state[r], "cancelling") /\ UNCHANGED queueVars
  /\ cancels' = cancels + 1
  /\ signal' = [signal EXCEPT ![r] = TRUE]
  /\ workerUnchanged
  /\ UNCHANGED <<phase, stale, ctx, crashes, stops, faults>>

\* Engine.Cancel commits the request first and reaches for the context after.
Cancel(r) ==
  /\ phase = "up" /\ cancels < MaxCancels
  /\ RequestCancellation(r)
  /\ cancels' = cancels + 1
  /\ signal' = [signal EXCEPT ![r] = (state'[r] = "cancelling")]
  /\ workerUnchanged
  /\ UNCHANGED <<phase, stale, ctx, crashes, stops, faults>>

Signal(r) ==
  /\ signal[r]
  /\ signal' = [signal EXCEPT ![r] = FALSE]
  /\ ctx' = [ctx EXCEPT ![r] = IF ~ At(r, "none") /\ Live(r) THEN "operator" ELSE @]
  /\ workerUnchanged
  /\ UNCHANGED <<queueVars, phase, stale, crashes, stops, cancels, faults>>

\* Shutdown stops claiming and waits for the workers; it cancels none.
Shutdown ==
  /\ phase = "up" /\ stops < MaxStops
  /\ stops' = stops + 1
  /\ phase' = "draining"
  /\ workerUnchanged
  /\ UNCHANGED <<queueVars, stale, ctx, signal, crashes, cancels, faults>>

\* Faulty variant: returns without waiting for the workers.
Drained_NoWait ==
  /\ phase = "draining"
  /\ phase' = "down"
  /\ workerUnchanged
  /\ UNCHANGED <<queueVars, stale, ctx, signal, crashes, stops, cancels, faults>>

Drained ==
  /\ phase = "draining"
  /\ \A r \in Runs : At(r, "none")
  /\ phase' = "down"
  /\ workerUnchanged
  /\ UNCHANGED <<queueVars, stale, ctx, signal, crashes, stops, cancels, faults>>

\* The process dies, by itself or because the shutdown grace ran out.
Crash ==
  /\ phase # "down" /\ crashes < MaxCrashes
  /\ crashes' = crashes + 1
  /\ phase' = "down"
  /\ stale' = {}
  /\ worker' = [r \in Runs |-> Idle]
  /\ ctx' = [r \in Runs |-> "live"]
  /\ signal' = [r \in Runs |-> FALSE]
  /\ UNCHANGED <<queueVars, step, attempt, execs, stops, cancels, faults>>

\* Start reads the expired leases once; nothing looks for them again later.
Start ==
  /\ phase = "down"
  /\ phase' = "starting"
  /\ stale' = {r \in Runs : Leased(r) /\ Expired(r)}
  /\ workerUnchanged
  /\ UNCHANGED <<queueVars, ctx, signal, crashes, stops, cancels, faults>>

\* ORDER BY expires_at, run_id
StaleBefore(r, s) ==
  lease[r].expires < lease[s].expires \/ (lease[r].expires = lease[s].expires /\ r <= s)

\* Faulty variant: a run with no interrupted step is reclaimed and left alone.
Reconcile_ActiveOnly(r) ==
  /\ phase = "starting" /\ r \in stale
  /\ \A s \in stale : StaleBefore(r, s)
  /\ ReclaimExpiredLease(r)
  /\ \/ (\A i \in Steps : step[r][i] # "running") /\ UNCHANGED <<worker, ctx>>
     \/ \E i \in Steps : /\ step[r][i] = "running"
                         /\ \E d \in Decisions(Plan[i]) : Spawn(r, d, i)
  /\ stale' = stale \ {r}
  /\ UNCHANGED <<phase, signal, step, attempt, execs, crashes, stops, cancels, faults>>

Reconcile(r) ==
  /\ phase = "starting" /\ r \in stale
  /\ \A s \in stale : StaleBefore(r, s)
  /\ ReclaimExpiredLease(r)
  /\ \/ /\ \A i \in Steps : step[r][i] # "running"
        /\ Spawn(r, "fail", 1)
     \/ \E i \in Steps : /\ step[r][i] = "running"
                         /\ \E d \in Decisions(Plan[i]) : Spawn(r, d, i)
  /\ stale' = stale \ {r}
  /\ UNCHANGED <<phase, signal, step, attempt, execs, crashes, stops, cancels, faults>>

Started ==
  /\ phase = "starting" /\ stale = {}
  /\ phase' = "up"
  /\ workerUnchanged
  /\ UNCHANGED <<queueVars, stale, ctx, signal, crashes, stops, cancels, faults>>

\* Unless workers may stall, a live one renews its lease before it runs out.
Clock ==
  /\ Tick
  /\ Stalls \/ \A r \in Runs : ~ At(r, "none") /\ Live(r) /\ Leased(r) => now < lease[r].expires
  /\ UNCHANGED engineVars

EngineNext ==
  \/ Submit \/ Clock \/ Shutdown \/ Drained \/ Crash \/ Start \/ Started
  \/ \E r \in Runs :
       \/ Resubmit(r) \/ Claim(r) \/ Cancel(r) \/ Signal(r) \/ Reconcile(r)
       \/ KeepAlive(r) \/ LoseLease(r) \/ WorkerStep(r)

allVars == <<queueVars, engineVars>>

EngineSpec == EngineInit /\ [][EngineNext]_allVars

\* The scheduler polls, goroutines run, the clock advances and the supervisor
\* restarts the process; nobody has to submit, cancel, crash or shut down.
Fairness ==
  /\ WF_allVars(Clock)
  /\ WF_allVars(Start) /\ WF_allVars(Started) /\ WF_allVars(Drained)
  /\ \A r \in Runs :
       /\ WF_allVars(WorkerStep(r))
       /\ WF_allVars(Claim(r)) /\ WF_allVars(Reconcile(r)) /\ WF_allVars(Signal(r))
       /\ WF_allVars(KeepAlive(r))
       /\ WF_allVars(~ LeaseHeld(r, Token(r)) /\ LoseLease(r))

FairEngineSpec == EngineSpec /\ Fairness

---------------------------------------------------------------------------
(* Properties.                                                             *)

Succeeding == {"passed", "warning"}

\* Reconciliation never blindly re-runs a side effect: whatever crashes and
\* restarts happen, a step that is not safe to repeat is executed at most once.
SideEffectOnce ==
  \A r \in Runs, i \in Steps : Plan[i] \notin ResumableKeys => execs[r][i] <= 1

\* A run is only called succeeded when every one of its steps was: execute
\* passes by steps that are over, so a failed attempt left behind by a crash
\* or a refused write must never be passed by on the way to success.
SucceededComplete ==
  \A r \in Runs : state[r] = "succeeded" => \A i \in Steps : step[r][i] \in Succeeding

\* A step is not begun, in any attempt, before all earlier ones succeeded.
StepsInOrder ==
  \A r \in Runs, i \in Steps :
    step[r][i] \notin {"pending", "cancelled"} =>
      \A j \in 1..(i - 1) : step[r][j] \in Succeeding

\* No run ends while one of its steps is still recorded as running.
EndedRunsAreStill ==
  \A r \in Runs : Terminal(state[r]) => \A i \in Steps : step[r][i] # "running"

\* An adapter that changes the live route or runtime is never told to stop by
\* an operator's cancellation, though Cancel commits its request and cancels
\* the context in two steps that race with the worker entering activation.
ActivationUninterrupted ==
  \A r \in Runs : state[r] = "activating" => ctx[r] # "operator" /\ ~ signal[r]

\* The goroutine of a run holds the token of its lease row: a reclaimed run is
\* not worked on twice, and a worker never outlives the end of its run.
WorkerOwnsLease ==
  \A r \in Runs : ~ At(r, "none") => /\ lease[r].token = Token(r)
                                     /\ Token(r) # NoToken
                                     /\ phase # "down"

\* Every step of the engine is a step of the queue: the engine uses the store
\* only through its operations, so what is proved of the queue holds for it.
EngineUsesQueue == Spec

\* With no crash, cancellation or lost heartbeat, every submitted run ends, and
\* the runs of one environment take turns, an orderly shutdown in between.
EveryRunEnds ==
  \A r \in Runs : state[r] # "absent" ~> Terminal(state[r]) \/ crashes > 0

\* A run that Start finds with an expired lease is brought to an end by the
\* worker that reconciles it, unless the process goes down again.
ReconciledRunEnds ==
  \A r \in Runs : (phase = "starting" /\ r \in stale) ~> (Terminal(state[r]) \/ phase = "down")

---------------------------------------------------------------------------
(* What the documentation says and the engine does not do.                 *)

\* An inapplicable step is skipped and the run goes on.
InapplicableStepsConverge ==
  \A r \in Runs : state[r] = "preparing" ~> Terminal(state[r])

\* Startup leaves no old side effect without a recovery decision.
NoOrphanAfterStart ==
  \A r \in Runs : phase = "up" /\ state[r] \in LeasedStates => ~ At(r, "none")

\* A cancellation that was accepted comes to an end.
CancellationEnds == \A r \in Runs : state[r] = "cancelling" ~> Terminal(state[r])

---------------------------------------------------------------------------
(* The strengthening that makes the invariants above inductive.            *)

\* What a worker at each place of execute may rely on.  In the loop every step
\* before its own succeeded and none is over in another way; the steps it is
\* about to end are running; on the ways out no step is.  Reconciliation only
\* repeats, reopens or completes steps that are safe to repeat.
PlaceOK(r) ==
  LET w == worker[r] IN
  /\ w.pc \notin {"top", "success"} => w.i \in Steps
  /\ w.pc \in {"top", "check", "advance"} =>
       /\ \A j \in Steps : step[r][j] \in Succeeding \cup {"pending"}
       /\ \A j \in 1..(w.i - 1) : step[r][j] \in Succeeding
  /\ w.pc \in {"started", "exec", "record", "cancelStep", "resume", "complete", "failStep"} =>
       step[r][w.i] = "running"
  /\ w.pc = "retry" => /\ step[r][w.i] = "failed"
                       /\ \A j \in (w.i + 1)..Len(Plan) : step[r][j] = "pending"
  /\ w.pc \in {"cancel", "request", "cleanup", "sweep", "fail"} =>
       \A j \in Steps : step[r][j] # "running"
  /\ w.pc = "success" => \A j \in Steps : step[r][j] \in Succeeding
  /\ w.pc \in {"resume", "retry", "complete"} => Plan[w.i] \in ResumableKeys
  /\ w.pc = "started" /\ Plan[w.i] \notin ResumableKeys => execs[r][w.i] = 0

WorkerPlace == \A r \in Runs : PlaceOK(r)

\* The steps behind a running one have not been touched.
RunningIsLast ==
  \A r \in Runs, i \in Steps :
    step[r][i] = "running" => \A j \in (i + 1)..Len(Plan) : step[r][j] = "pending"

\* Nothing is recorded of the steps of a run nobody has claimed.
UnclaimedUntouched ==
  \A r \in Runs : state[r] \in {"absent", "queued"} => \A i \in Steps : step[r][i] = "pending"

\* A step that is not safe to repeat is pending only before it was executed.
PendingUnexecuted ==
  \A r \in Runs, i \in Steps :
    Plan[i] \notin ResumableKeys /\ step[r][i] = "pending" => execs[r][i] = 0

\* A context is cancelled for the operator only behind a committed request.
CancelCommitted ==
  \A r \in Runs : signal[r] \/ ctx[r] = "operator" =>
                  state[r] \in {"cancelling"} \cup TerminalStates

\* The inductive invariant of the engine, together with QueueInv of the store it
\* writes to: step rows run in plan order, an ended run has no step left open, a
\* worker that may still write holds the run's lease, and WorkerPlace ties each
\* place in the worker's code to the step rows that crash and restart leave.
EngineInv ==
  /\ EngineTypeOK
  /\ StepsInOrder /\ EndedRunsAreStill /\ WorkerOwnsLease
  /\ SucceededComplete /\ SideEffectOnce
  /\ WorkerPlace /\ RunningIsLast /\ UnclaimedUntouched
  /\ PendingUnexecuted /\ CancelCommitted

\* Both promises about the end of a run, whatever crashes and stops came between:
\* one that is enqueued ends, and one that a restart finds ends in any case.
RunsEnd == EveryRunEnds /\ ReconciledRunEnds
===========================================================================
