----------------------------- MODULE RunQueue -----------------------------
(***************************************************************************)
(* The durable deployment queue: the deploy_runs and deploy_queue_leases   *)
(* tables and every operation of OrchestrationStore that moves a run or a  *)
(* lease (backend/internal/deploy/orchestration_store.go and               *)
(* orchestration_queue.go).  Each operation is one SQLite transaction      *)
(* taken under writeMu, so each is one action.  An operation that returns  *)
(* an error rolls its transaction back: it is a step that changes nothing  *)
(* and so is not an action of its own.                                     *)
(*                                                                         *)
(* Callers are not modelled here: a caller that ever held a claim token    *)
(* may present it again at any later time, which is how a stalled worker   *)
(* or a previous process looks to the store.                               *)
(***************************************************************************)
EXTENDS Integers, Sequences, FiniteSets

-----------------------------------------------------------------------------
(* The closed state vocabulary of runs and steps (contracts.go): the engine *)
(* and the event stream take their transition tables from here too, as the *)
(* Go packages do.                                                          *)

RunStates == {"requested", "validating", "queued", "preparing", "running",
              "verifying", "activating", "failed_activation",
              "restoring_previous", "cancelling", "succeeded", "failed",
              "cancelled", "rolled_back", "superseded"}

runTransitions(from) ==
  CASE from = "requested"          -> {"validating", "cancelling", "failed"}
    [] from = "validating"         -> {"queued", "cancelling", "failed"}
    [] from = "queued"             -> {"preparing", "cancelling", "superseded", "failed"}
    [] from = "preparing"          -> {"running", "cancelling", "failed"}
    [] from = "running"            -> {"verifying", "cancelling", "failed"}
    [] from = "verifying"          -> {"activating", "cancelling", "failed"}
    [] from = "activating"         -> {"succeeded", "failed_activation"}
    [] from = "failed_activation"  -> {"restoring_previous", "failed"}
    [] from = "restoring_previous" -> {"rolled_back", "failed"}
    [] from = "cancelling"         -> {"cancelled", "failed"}
    [] OTHER                       -> {}

CanTransitionRun(from, to) == to \in runTransitions(from)

TerminalStates == {"succeeded", "failed", "cancelled", "rolled_back", "superseded"}

Terminal(s) == s \in TerminalStates

\* The states only a lease holder moves a run through: claimNextOnce enters
\* the first, TransitionRun walks the others.
LeasedStates == {"preparing", "running", "verifying", "activating",
                 "failed_activation", "restoring_previous", "cancelling"}

StepStates == {"pending", "blocked", "running", "passed", "warning", "failed",
               "skipped", "cancelled", "unavailable"}

stepTransitions(from) ==
  CASE from = "pending" -> {"blocked", "running", "skipped", "cancelled", "unavailable"}
    [] from = "blocked" -> {"pending", "running", "failed", "cancelled", "unavailable"}
    [] from = "running" -> {"passed", "warning", "failed", "cancelled", "unavailable"}
    [] from = "failed"  -> {"pending"}
    [] OTHER            -> {}

CanTransitionStep(from, to) == to \in stepTransitions(from)

stepAttemptTerminal(s) ==
  s \in {"passed", "warning", "failed", "skipped", "cancelled", "unavailable"}

\* What an adapter may return from Execute; anything else becomes "failed".
allowedExecutorResult(s) ==
  s \in {"passed", "warning", "failed", "skipped", "cancelled", "unavailable"}

-----------------------------------------------------------------------------

CONSTANTS
  MaxRuns,      \* bound: rows deploy_runs may get
  Envs,         \* environments that exist and are not archived
  Production,   \* the ones whose kind is "production"
  Paths,        \* watched source paths
  Keys,         \* idempotency keys other than the empty one
  Requests,     \* requests the API enqueues
  HeavyBudget,  \* QueueBudget.Heavy
  LightBudget,  \* QueueBudget.Light
  TTL,          \* lease lifetime, in ticks
  MaxTime,      \* bound: last tick of the clock
  MaxTokens     \* bound: claim tokens ever issued

Runs    == 1..MaxRuns
Classes == {"heavy", "light"}
NoKey   == "nokey"
NoToken == 0
NoRun   == 0

Operations == {"deploy", "redeploy", "restart", "force_build", "rollback",
               "preview_create", "preview_update", "preview_remove",
               "scheduled_action", "import_adopt", "remove_managed"}

Triggers == {"manual", "legacy_hook", "generic_hook", "github", "gitlab",
             "bitbucket", "gitea", "api", "schedule", "preview", "rollback",
             "migration"}

\* A normalized RunRequest.  The digest is the sequence of what the code
\* hashes or appends: one number for the request, then the id of each run
\* it is a retry of.
RequestType == [env : Envs, op : Operations, trigger : Triggers, prio : Int,
                class : Classes, paths : SUBSET Paths,
                key : Keys \cup {NoKey}, digest : Seq(Nat)]

ASSUME QueueAssumption ==
  /\ MaxRuns \in Nat /\ TTL \in Nat /\ MaxTime \in Nat /\ MaxTokens \in Nat
  /\ HeavyBudget \in Nat \ {0} /\ LightBudget \in Nat \ {0}
  /\ Requests # {} /\ Requests \subseteq RequestType
  /\ Production \subseteq Envs
  /\ NoKey \notin Keys

VARIABLES
  nruns,           \* rows inserted so far; ids are 1..nruns
  req,             \* req[r]: the request columns of row r, never updated
  requestedAt,     \* requested_at
  retryOf,         \* retry_of_run_id
  state,           \* state, or "absent" before the row is inserted
  cancelRequested, \* cancel_requested
  leaseToken,      \* lease_token of the run row
  supersededBy,    \* superseded_by
  lease,           \* row of deploy_queue_leases for the run, or NoLease
  now,             \* the clock, in ticks of one second
  tokens,          \* number of claim tokens issued; a token is its number
  writer           \* history: token of the last lease-guarded write per run

rowVars  == <<nruns, req, requestedAt, retryOf>>
queueVars == <<rowVars, state, cancelRequested, leaseToken, supersededBy,
               lease, now, tokens, writer>>

NoLease == [token |-> NoToken, expires |-> 0]
LeaseRow == [token : Nat, expires : Nat]

Leased(r) == lease[r] # NoLease
Expired(r) == lease[r].expires < now

TypeOK ==
  /\ nruns \in 0..MaxRuns
  /\ req \in [Runs -> RequestType]
  /\ requestedAt \in [Runs -> Nat]
  /\ retryOf \in [Runs -> Runs \cup {NoRun}]
  /\ state \in [Runs -> RunStates \cup {"absent"}]
  /\ cancelRequested \in [Runs -> BOOLEAN]
  /\ leaseToken \in [Runs -> Nat]
  /\ supersededBy \in [Runs -> Runs \cup {NoRun}]
  /\ lease \in [Runs -> LeaseRow]
  /\ now \in Nat
  /\ tokens \in Nat
  /\ writer \in [Runs -> Nat]

Init ==
  /\ nruns = 0
  /\ req = [r \in Runs |-> CHOOSE q \in Requests : TRUE]
  /\ requestedAt = [r \in Runs |-> 0]
  /\ retryOf = [r \in Runs |-> NoRun]
  /\ state = [r \in Runs |-> "absent"]
  /\ cancelRequested = [r \in Runs |-> FALSE]
  /\ leaseToken = [r \in Runs |-> NoToken]
  /\ supersededBy = [r \in Runs |-> NoRun]
  /\ lease = [r \in Runs |-> NoLease]
  /\ now = 0
  /\ tokens = 0
  /\ writer = [r \in Runs |-> NoToken]

---------------------------------------------------------------------------
(* Enqueue, with the superseding of older queued runs in its transaction.  *)

automaticTrigger(t) ==
  t \in {"legacy_hook", "generic_hook", "github", "gitlab", "bitbucket",
         "gitea", "api", "schedule", "preview"}

coversPaths(newer, older) == older \subseteq newer

\* Explicit requests neither supersede nor are superseded.
Explicit(q) == \/ q.trigger \in {"manual", "rollback"}
               \/ q.op \in {"rollback", "remove_managed"}

\* Faulty variant: replaces whatever is queued, without comparing paths.
SupersededSet_AnyPath(q) ==
  {s \in Runs : /\ ~ Explicit(q)
                /\ req[s].env = q.env /\ state[s] = "queued" /\ ~ Leased(s)
                /\ ~ Explicit(req[s])
                /\ q.env \in Production =>
                     automaticTrigger(q.trigger) /\ automaticTrigger(req[s].trigger)}

\* Faulty variant: looks at the new request only, not at the run it replaces.
SupersededSet_OneSided(q) ==
  {s \in Runs : /\ ~ Explicit(q)
                /\ req[s].env = q.env /\ state[s] = "queued" /\ ~ Leased(s)
                /\ q.env \in Production => automaticTrigger(q.trigger)
                /\ coversPaths(q.paths, req[s].paths)}

\* supersedeEligibleTx: the queued runs that the new request q replaces.
SupersededSet(q) ==
  {s \in Runs :
     /\ ~ Explicit(q)
     /\ req[s].env = q.env
     /\ state[s] = "queued"
     /\ ~ Leased(s)
     /\ ~ Explicit(req[s])
     /\ q.env \in Production =>
          automaticTrigger(q.trigger) /\ automaticTrigger(req[s].trigger)
     /\ coversPaths(q.paths, req[s].paths)}

\* Faulty variant: finds the earlier run by the request's digest too.
Replayed_ByDigest(q) ==
  /\ q.key # NoKey
  /\ \E s \in Runs : /\ state[s] # "absent"
                     /\ req[s].env = q.env /\ req[s].op = q.op
                     /\ req[s].key = q.key /\ req[s].digest = q.digest

\* idempotentRun: the request replays, or conflicts with, a recorded one.
\* The caller gets that run or ErrIdempotencyConflict; nothing is written.
Replayed(q) ==
  /\ q.key # NoKey
  /\ \E s \in Runs : /\ state[s] # "absent"
                     /\ req[s].env = q.env
                     /\ req[s].op = q.op
                     /\ req[s].key = q.key

\* requested, validating and queued are passed through in one transaction.
Insert(q, prior) ==
  LET r == nruns + 1 IN
  /\ nruns < MaxRuns
  /\ ~ Replayed(q)
  /\ nruns' = r
  /\ req' = [req EXCEPT ![r] = q]
  /\ requestedAt' = [requestedAt EXCEPT ![r] = now]
  /\ retryOf' = [retryOf EXCEPT ![r] = prior]
  /\ state' = [s \in Runs |-> IF s = r THEN "queued"
                              ELSE IF s \in SupersededSet(q) THEN "superseded"
                              ELSE state[s]]
  /\ supersededBy' = [s \in Runs |-> IF s \in SupersededSet(q) THEN r
                                     ELSE supersededBy[s]]
  /\ UNCHANGED <<cancelRequested, leaseToken, lease, now, tokens, writer>>

Enqueue == \E q \in Requests : Insert(q, NoRun)

\* Retry copies the request of a failed or cancelled run into a new manual one.
RetryRequest(r, k) ==
  [req[r] EXCEPT !.trigger = "manual", !.key = k,
                 !.digest = Append(req[r].digest, r)]

Retry(r) ==
  /\ state[r] \in {"failed", "cancelled"}
  /\ \E k \in Keys \cup {NoKey} : Insert(RetryRequest(r, k), r)

---------------------------------------------------------------------------
(* Claiming, heartbeats and lease-guarded writes.                          *)

Budget == [heavy |-> HeavyBudget, light |-> LightBudget]

\* Every lease row counts against its class, expired or not.
HeldSlots(c) == {r \in Runs : Leased(r) /\ req[r].class = c}

\* Faulty variant: an expired lease no longer blocks its environment.
EnvironmentFree_Unexpired(e) == \A s \in Runs : Leased(s) /\ ~ Expired(s) => req[s].env # e

EnvironmentFree(e) == \A s \in Runs : Leased(s) => req[s].env # e

Claimable(r) ==
  /\ state[r] = "queued"
  /\ ~ cancelRequested[r]
  /\ EnvironmentFree(req[r].env)
  /\ Cardinality(HeldSlots(req[r].class)) < Budget[req[r].class]

\* ORDER BY priority DESC, requested_at, id
QueueBefore(r, s) ==
  \/ req[r].prio > req[s].prio
  \/ /\ req[r].prio = req[s].prio
     /\ \/ requestedAt[r] < requestedAt[s]
        \/ requestedAt[r] = requestedAt[s] /\ r < s

ClaimNext(r) ==
  /\ tokens < MaxTokens
  /\ Claimable(r)
  /\ \A s \in Runs \ {r} : Claimable(s) => QueueBefore(r, s)
  /\ tokens' = tokens + 1
  /\ lease' = [lease EXCEPT ![r] = [token |-> tokens + 1, expires |-> now + TTL]]
  /\ leaseToken' = [leaseToken EXCEPT ![r] = tokens + 1]
  /\ state' = [state EXCEPT ![r] = "preparing"]
  /\ UNCHANGED <<rowVars, cancelRequested, supersededBy, now, writer>>

\* Faulty variant: any unexpired lease of the run will do, whoever's it is.
LeaseHeld_AnyToken(r, t) == t # NoToken /\ Leased(r) /\ ~ Expired(r)

\* assertLeaseTx
LeaseHeld(r, t) ==
  /\ t # NoToken
  /\ lease[r].token = t
  /\ ~ Expired(r)

\* Faulty variant: the deadline lies before the heartbeat, not after it.
Heartbeat_Backwards(r, t) ==
  /\ LeaseHeld(r, t)
  /\ lease' = [lease EXCEPT ![r].expires = now - TTL]
  /\ UNCHANGED <<rowVars, state, cancelRequested, leaseToken, supersededBy,
                 now, tokens, writer>>

Heartbeat(r, t) ==
  /\ LeaseHeld(r, t)
  /\ lease' = [lease EXCEPT ![r].expires = now + TTL]
  /\ UNCHANGED <<rowVars, state, cancelRequested, leaseToken, supersededBy,
                 now, tokens, writer>>

\* SetRunCommits, AppendEvent, AppendLog and TransitionStep: writes that
\* assertLeaseTx admits and that leave run and lease rows as they are.
GuardedWrite(r, t) ==
  /\ LeaseHeld(r, t)
  /\ writer' = [writer EXCEPT ![r] = t]
  /\ UNCHANGED <<rowVars, state, cancelRequested, leaseToken, supersededBy,
                 lease, now, tokens>>

\* Faulty variant: a run that ends keeps its lease row.
TransitionRun_KeepsLease(r, t, to) ==
  /\ LeaseHeld(r, t)
  /\ ~ Terminal(state[r]) /\ CanTransitionRun(state[r], to) /\ leaseToken[r] = t
  /\ state' = [state EXCEPT ![r] = to]
  /\ leaseToken' = IF Terminal(to) THEN [leaseToken EXCEPT ![r] = NoToken] ELSE leaseToken
  /\ writer' = [writer EXCEPT ![r] = t]
  /\ UNCHANGED <<rowVars, cancelRequested, supersededBy, lease, now, tokens>>

TransitionRun(r, t, to) ==
  /\ LeaseHeld(r, t)
  /\ ~ Terminal(state[r])
  /\ CanTransitionRun(state[r], to)
  /\ leaseToken[r] = t
  /\ state' = [state EXCEPT ![r] = to]
  /\ leaseToken' = IF Terminal(to) THEN [leaseToken EXCEPT ![r] = NoToken] ELSE leaseToken
  /\ lease' = IF Terminal(to) THEN [lease EXCEPT ![r] = NoLease] ELSE lease
  /\ writer' = [writer EXCEPT ![r] = t]
  /\ UNCHANGED <<rowVars, cancelRequested, supersededBy, now, tokens>>

\* ReclaimExpiredLease fences the old token before anything is reconciled.
ReclaimExpiredLease(r) ==
  /\ tokens < MaxTokens
  /\ Leased(r)
  /\ Expired(r)
  /\ leaseToken[r] = lease[r].token
  /\ tokens' = tokens + 1
  /\ lease' = [lease EXCEPT ![r] = [token |-> tokens + 1, expires |-> now + TTL]]
  /\ leaseToken' = [leaseToken EXCEPT ![r] = tokens + 1]
  /\ UNCHANGED <<rowVars, state, cancelRequested, supersededBy, now, writer>>

---------------------------------------------------------------------------
(* Cancellation needs no token.  Unclaimed runs are cancelled at once;     *)
(* claimed ones keep their lease for cleanup.                              *)

\* Faulty variant: does not ask whether the run can still be cancelled.
RequestCancellation_Unchecked(r) ==
  /\ state[r] # "absent"
  /\ cancelRequested' = [cancelRequested EXCEPT ![r] = TRUE]
  /\ state' = [state EXCEPT ![r] = "cancelling"]
  /\ UNCHANGED <<rowVars, leaseToken, lease, supersededBy, now, tokens, writer>>

RequestCancellation(r) ==
  /\ CanTransitionRun(state[r], "cancelling")
  /\ cancelRequested' = [cancelRequested EXCEPT ![r] = TRUE]
  /\ IF state[r] \in {"queued", "requested", "validating"}
       THEN /\ state' = [state EXCEPT ![r] = "cancelled"]
            /\ leaseToken' = [leaseToken EXCEPT ![r] = NoToken]
            /\ lease' = [lease EXCEPT ![r] = NoLease]
       ELSE /\ state' = [state EXCEPT ![r] = "cancelling"]
            /\ UNCHANGED <<leaseToken, lease>>
  /\ UNCHANGED <<rowVars, supersededBy, now, tokens, writer>>

Tick ==
  /\ now < MaxTime
  /\ now' = now + 1
  /\ UNCHANGED <<rowVars, state, cancelRequested, leaseToken, supersededBy,
                 lease, tokens, writer>>

Next ==
  \/ Enqueue
  \/ Tick
  \/ \E r \in Runs :
       \/ Retry(r)
       \/ ClaimNext(r)
       \/ ReclaimExpiredLease(r)
       \/ RequestCancellation(r)
       \/ \E t \in 1..tokens :
            \/ Heartbeat(r, t)
            \/ GuardedWrite(r, t)
            \/ \E to \in RunStates : TransitionRun(r, t, to)

Spec == Init /\ [][Next]_queueVars

---------------------------------------------------------------------------
(* Properties.                                                             *)

\* Per-environment serialization (ClaimNext, and the unique index behind it):
\* two runs of one environment are never claimed at the same time, whatever
\* expired, was reclaimed or is being cancelled meanwhile.
OneLeasePerEnvironment ==
  \A r, s \in Runs :
    Leased(r) /\ Leased(s) /\ req[r].env = req[s].env => r = s

\* Host concurrency (QueueBudget): claims of a class never exceed its budget;
\* reclaiming an expired lease takes no second slot.
SlotBudget == \A c \in Classes : Cardinality(HeldSlots(c)) <= Budget[c]

\* The lease table and the run rows agree after every transaction: a lease
\* row exists exactly while its run is in a state that has an owner, and the
\* run row carries the same token.  A lease that survives its run blocks the
\* environment for ever; a run that loses its lease can never be finished.
LeaseMirrorsRun ==
  \A r \in Runs :
    /\ Leased(r) <=> state[r] \in LeasedStates
    /\ leaseToken[r] = lease[r].token

\* Enqueue's idempotency: a keyed request has one run per environment and
\* operation, however often it is delivered.
IdempotencyUnique ==
  \A r, s \in Runs :
    /\ state[r] # "absent" /\ state[s] # "absent"
    /\ req[r].key # NoKey
    /\ req[r].key = req[s].key /\ req[r].env = req[s].env /\ req[r].op = req[s].op
    => r = s

\* Superseding loses no change: behind every superseded run stands a later run
\* of the same environment that was not superseded itself and covers every path
\* the replaced one was for, however long the chain of replacements is.
SupersededIsCovered ==
  \A r \in Runs :
    state[r] = "superseded" =>
      \E s \in Runs : /\ s > r
                      /\ state[s] \notin {"absent", "superseded"}
                      /\ req[s].env = req[r].env
                      /\ coversPaths(req[s].paths, req[r].paths)

\* A run an operator asked for is never replaced behind their back, and in
\* production neither is one whose trigger is not automatic.
ExplicitNeverSuperseded ==
  \A r \in Runs :
    state[r] = "superseded" =>
      /\ ~ Explicit(req[r])
      /\ req[r].env \in Production => automaticTrigger(req[r].trigger)

\* A terminal run never changes again; its row keeps no token.
TerminalForever ==
  [][\A r \in Runs : Terminal(state[r]) =>
       /\ state'[r] = state[r]
       /\ supersededBy'[r] = supersededBy[r]
       /\ lease'[r] = NoLease]_queueVars

\* Fencing (assertLeaseTx and ReclaimExpiredLease): once a reclaimed run has
\* been written by its new owner, no earlier token writes to it again.
FencedWrites == [][\A r \in Runs : writer'[r] >= writer[r]]_queueVars

---------------------------------------------------------------------------
(* The strengthening that makes the invariants above inductive.            *)

\* Rows are inserted in id order, and Enqueue commits no run before "queued".
RowsAllocated ==
  \A r \in Runs : /\ state[r] = "absent" <=> r > nruns
                  /\ state[r] \notin {"requested", "validating"}

\* Tokens on lease rows and on past writes were issued, and a lease row's token
\* is the newest that ever wrote to its run.
TokensIssued ==
  \A r \in Runs : /\ lease[r].token <= tokens
                  /\ writer[r] <= tokens
                  /\ Leased(r) => lease[r].token # NoToken /\ writer[r] <= lease[r].token

\* The inductive invariant.  No conjunct of it but TypeOK is inductive alone:
\* one lease per environment needs LeaseMirrorsRun (a queued run has none),
\* which needs RowsAllocated (a new row has none); the coverage of superseded
\* runs needs RowsAllocated (the new run is later than all others).
QueueInv ==
  /\ TypeOK /\ RowsAllocated /\ TokensIssued
  /\ LeaseMirrorsRun /\ OneLeasePerEnvironment /\ SlotBudget
  /\ IdempotencyUnique /\ SupersededIsCovered /\ ExplicitNeverSuperseded

---------------------------------------------------------------------------
(* The queue implements EnvironmentLock.                                   *)

Phase(r) ==
  IF state[r] = "absent" THEN "absent"
  ELSE IF state[r] = "queued" THEN "waiting"
  ELSE IF state[r] \in LeasedStates THEN "owned"
  ELSE "done"

Lock == INSTANCE EnvironmentLock WITH
          phase <- [r \in Runs |-> Phase(r)],
          place <- [r \in Runs |-> [env |-> req[r].env, class |-> req[r].class]]

\* What the queue promises, as the abstract specification states it.
ImplementsEnvironmentLock == Lock!Spec

===========================================================================
