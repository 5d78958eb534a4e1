-------------------------------- MODULE Jobs --------------------------------
(***************************************************************************)
(* Background jobs (backend/internal/jobs/jobs.go and handlers_jobs.go):   *)
(* commands that outlive the request that started them, watchers that      *)
(* follow their output over a websocket, cancellation, pruning of old jobs *)
(* and shutdown.                                                           *)
(*                                                                         *)
(* entry.mu is held while a line is recorded but not while it is sent to   *)
(* the watchers that were registered then, so a send is an action of its   *)
(* own.  A send on a closed channel panics and takes the process down.     *)
(* The text of a line and its place in the ring of retained lines are      *)
(* left out: no property here reads them.                                  *)
(***************************************************************************)
EXTENDS Integers, Sequences, FiniteSets, SequencesExt

CONSTANTS
  MaxStarts,  \* bound: jobs ever started
  Watchers,   \* websocket clients
  maxJobs,    \* jobs kept before finished ones are pruned
  ChanSize,   \* buffer of a watcher's channel
  MaxOutput,  \* bound: lines of a job's command
  MaxVisits   \* bound: subscriptions per watcher

ASSUME JobsAssumption ==
  /\ MaxStarts \in Nat /\ maxJobs \in Nat \ {0} /\ ChanSize \in Nat \ {0}
  /\ MaxOutput \in Nat /\ MaxVisits \in Nat

VARIABLES
  order,      \* Manager.order: the jobs kept, oldest first
  status,     \* status[j]: Job.Status, "absent" before Start
  output,     \* output[j]: lines the command has produced
  command,    \* command[j]: "none", "running", "finishing" or "over"
  cancelAt,   \* cancelAt[j]: how far a Cancel of the job has come
  sends,      \* sends under way: [by, job, to], to being one channel
  taken,    \* taken[j]: channels finish has taken and not yet closed
  watch,      \* watch[w]: the job the watcher is attached to, 0 if none
  registered, \* registered[j]: watchers in the job's subs
  queued,     \* queued[w]: lines in the watcher's channel
  shut,       \* shut[w]: that channel is closed
  visits,     \* visits[w]: subscriptions so far; each makes a new channel
  server      \* "up", "shutdown" or "panicked"

jobVars == <<order, status, output, command, cancelAt, sends, taken, watch,
             registered, queued, shut, visits, server>>

JobIds == 1..MaxStarts
JobStatus == {"running", "succeeded", "failed", "cancelled"}

JobsInit ==
  /\ order = <<>>
  /\ status = [j \in JobIds |-> "absent"]
  /\ output = [j \in JobIds |-> 0]
  /\ command = [j \in JobIds |-> "none"]
  /\ cancelAt = [j \in JobIds |-> "idle"]
  /\ sends = {}
  /\ taken = [j \in JobIds |-> {}]
  /\ watch = [w \in Watchers |-> 0]
  /\ registered = [j \in JobIds |-> {}]
  /\ queued = [w \in Watchers |-> 0]
  /\ shut = [w \in Watchers |-> FALSE]
  /\ visits = [w \in Watchers |-> 0]
  /\ server = "up"

watcherVars == <<watch, queued, shut, visits>>
Running == server # "panicked"

---------------------------------------------------------------------------
(* Starting, running, ending and pruning a job.                            *)

\* prune drops the oldest jobs that are not running until maxJobs are left;
\* with nothing to drop the cap is exceeded.
prune(kept, st) ==
  LET idle == {i \in DOMAIN kept : st[kept[i]] # "running"}
      doomed == {i \in idle : Cardinality({n \in idle : n < i}) < Len(kept) - maxJobs}
      stay == SetToSortSeq(DOMAIN kept \ doomed, LAMBDA x, y : x < y)
  IN [n \in DOMAIN stay |-> kept[stay[n]]]

StartJob(j) ==
  /\ server = "up" /\ status[j] = "absent"
  /\ \A i \in 1..(j - 1) : status[i] # "absent"
  /\ status' = [status EXCEPT ![j] = "running"]
  /\ command' = [command EXCEPT ![j] = "running"]
  /\ order' = prune(Append(order, j), status')
  /\ UNCHANGED <<output, cancelAt, sends, taken, registered, watcherVars, server>>

\* The channels appendLine copies before it unlocks.
Copied(by, j) == {[by |-> by, job |-> j, to |-> <<w, visits[w]>>] : w \in registered[j]}

Unsent(by, j) == {m \in sends : m.by = by /\ m.job = j}

\* A scanner of RunEnv, of which there are two, appends a line.
appendLine(j) ==
  /\ Running /\ command[j] = "running" /\ output[j] < MaxOutput
  /\ \E by \in {"stdout", "stderr"} :
       /\ Unsent(by, j) = {}
       /\ sends' = sends \cup Copied(by, j)
  /\ output' = [output EXCEPT ![j] = @ + 1]
  /\ UNCHANGED <<order, status, command, cancelAt, taken, registered, watcherVars, server>>

\* A channel of an earlier subscription is closed: unsubscribe saw to that.
ClosedChannel(c) == c[2] # visits[c[1]] \/ shut[c[1]]

\* A full channel is skipped, a closed one panics.
Send(m) ==
  LET w == m.to[1] IN
  /\ Running
  /\ sends' = sends \ {m}
  /\ IF ClosedChannel(m.to)
       THEN server' = "panicked" /\ UNCHANGED queued
       ELSE /\ queued' = [queued EXCEPT ![w] = IF @ < ChanSize THEN @ + 1 ELSE @]
            /\ UNCHANGED server
  /\ UNCHANGED <<order, status, output, command, cancelAt, taken, registered,
                 watch, shut, visits>>

\* Faulty variant: the runner's result overwrites a recorded cancellation.
finish_Overwrites(j) ==
  /\ Running /\ command[j] = "running"
  /\ Unsent("stdout", j) \cup Unsent("stderr", j) = {}
  /\ \E ok \in BOOLEAN : status' = [status EXCEPT ![j] = IF ok THEN "succeeded" ELSE "failed"]
  /\ taken' = [taken EXCEPT ![j] = registered[j]]
  /\ registered' = [registered EXCEPT ![j] = {}]
  /\ command' = [command EXCEPT ![j] = "finishing"]
  /\ UNCHANGED <<order, output, cancelAt, sends, watcherVars, server>>

\* The runner returns, by itself, at its timeout or killed by Cancel, and finish
\* records the outcome and takes the channels.
finish(j) ==
  /\ Running /\ command[j] = "running"
  /\ Unsent("stdout", j) \cup Unsent("stderr", j) = {}
  /\ \E ok \in BOOLEAN :
       status' = [status EXCEPT ![j] = IF @ = "cancelled" THEN @
                                       ELSE IF ok THEN "succeeded" ELSE "failed"]
  /\ taken' = [taken EXCEPT ![j] = registered[j]]
  /\ registered' = [registered EXCEPT ![j] = {}]
  /\ command' = [command EXCEPT ![j] = "finishing"]
  /\ UNCHANGED <<order, output, cancelAt, sends, watcherVars, server>>

\* Faulty variant: the last channel is left open.
CloseTaken_KeepsLast(j) ==
  /\ Running /\ command[j] = "finishing"
  /\ taken' = [taken EXCEPT ![j] = {}]
  /\ command' = [command EXCEPT ![j] = "over"]
  /\ order' = prune(order, status)
  /\ UNCHANGED <<status, output, cancelAt, sends, registered, watcherVars, server>>

\* finish closes what it took, one channel after another; then the goroutine prunes.
CloseTaken(j) ==
  /\ Running /\ command[j] = "finishing"
  /\ IF taken[j] # {}
       THEN /\ \E w \in taken[j] :
                 /\ taken' = [taken EXCEPT ![j] = @ \ {w}]
                 /\ shut' = [shut EXCEPT ![w] = TRUE]
            /\ UNCHANGED <<command, order>>
       ELSE /\ command' = [command EXCEPT ![j] = "over"]
            /\ order' = prune(order, status)
            /\ UNCHANGED <<taken, shut>>
  /\ UNCHANGED <<status, output, cancelAt, sends, registered, watch, queued, visits, server>>

---------------------------------------------------------------------------
(* Manager.Cancel: three critical sections and a send between them.        *)

CancelSees(j) ==
  /\ server = "up" /\ cancelAt[j] = "idle"
  /\ j \in ToSet(order) /\ status[j] = "running"
  /\ cancelAt' = [cancelAt EXCEPT ![j] = "seen"]
  /\ UNCHANGED <<order, status, output, command, sends, taken, registered, watcherVars, server>>

CancelTells(j) ==
  /\ Running /\ cancelAt[j] = "seen"
  /\ sends' = sends \cup Copied("cancel", j)
  /\ cancelAt' = [cancelAt EXCEPT ![j] = "told"]
  /\ UNCHANGED <<order, status, output, command, taken, registered, watcherVars, server>>

\* Faulty variant: marks the job without looking whether it has ended meanwhile.
markCancelled_Always(j) ==
  /\ Running /\ cancelAt[j] = "told" /\ Unsent("cancel", j) = {}
  /\ status' = [status EXCEPT ![j] = "cancelled"]
  /\ cancelAt' = [cancelAt EXCEPT ![j] = "idle"]
  /\ UNCHANGED <<order, output, command, sends, taken, registered, watcherVars, server>>

\* markCancelled and the cancellation of the context, which lets finish come
\* sooner than it would anyway.
markCancelled(j) ==
  /\ Running /\ cancelAt[j] = "told" /\ Unsent("cancel", j) = {}
  /\ status' = [status EXCEPT ![j] = IF @ = "running" THEN "cancelled" ELSE @]
  /\ cancelAt' = [cancelAt EXCEPT ![j] = "idle"]
  /\ UNCHANGED <<order, output, command, sends, taken, registered, watcherVars, server>>

---------------------------------------------------------------------------
(* Watchers.                                                               *)

\* Also a job that is over can be watched; its channel then stays open.
SubscribeJob(w, j) ==
  /\ server = "up" /\ watch[w] = 0 /\ visits[w] < MaxVisits
  /\ j \in ToSet(order)
  /\ watch' = [watch EXCEPT ![w] = j]
  /\ visits' = [visits EXCEPT ![w] = @ + 1]
  /\ queued' = [queued EXCEPT ![w] = 0]
  /\ shut' = [shut EXCEPT ![w] = FALSE]
  /\ registered' = [registered EXCEPT ![j] = @ \cup {w}]
  /\ UNCHANGED <<order, status, output, command, cancelAt, sends, taken, server>>

TakeLine(w) ==
  /\ Running /\ watch[w] # 0 /\ queued[w] > 0
  /\ queued' = [queued EXCEPT ![w] = @ - 1]
  /\ UNCHANGED <<order, status, output, command, cancelAt, sends, taken,
                 registered, watch, shut, visits, server>>

\* handleJobStream returns, because the channel is closed and drained or
\* because the connection broke; the deferred unsubscribe closes the channel if
\* it is still registered.  A channel that finish holds is left to finish.
LeaveJob(w) ==
  LET j == watch[w] IN
  /\ Running /\ j # 0
  /\ w \notin taken[j]
  /\ watch' = [watch EXCEPT ![w] = 0]
  /\ queued' = [queued EXCEPT ![w] = 0]
  /\ shut' = [shut EXCEPT ![w] = TRUE]
  /\ registered' = [registered EXCEPT ![j] = @ \ {w}]
  /\ UNCHANGED <<order, status, output, command, cancelAt, sends, taken, visits, server>>

\* Manager.Shutdown closes every registered channel and leaves the commands be.
ShutdownJobs ==
  LET kept == UNION {registered[j] : j \in ToSet(order)} IN
  /\ server = "up"
  /\ server' = "shutdown"
  /\ shut' = [w \in Watchers |-> shut[w] \/ w \in kept]
  /\ registered' = [j \in JobIds |-> IF j \in ToSet(order) THEN {} ELSE registered[j]]
  /\ UNCHANGED <<order, status, output, command, cancelAt, sends, taken, watch, queued, visits>>

JobsNext ==
  \/ ShutdownJobs
  \/ \E m \in sends : Send(m)
  \/ \E j \in JobIds : \/ StartJob(j) \/ appendLine(j) \/ finish(j) \/ CloseTaken(j)
                       \/ CancelSees(j) \/ CancelTells(j) \/ markCancelled(j)
  \/ \E w \in Watchers : \/ TakeLine(w) \/ LeaveJob(w)
                         \/ \E j \in JobIds : SubscribeJob(w, j)

JobsSpec == JobsInit /\ [][JobsNext]_jobVars

\* Goroutines run, and the timeout of its context ends every command.
JobsFairness ==
  /\ WF_jobVars(\E m \in sends : Send(m))
  /\ \A j \in JobIds : WF_jobVars(finish(j)) /\ WF_jobVars(CloseTaken(j))

FairJobsSpec == JobsSpec /\ JobsFairness

---------------------------------------------------------------------------
(* Properties.                                                             *)

\* A job has one outcome: a cancellation that crosses the end of the command
\* never replaces what finish recorded, nor the other way round.
JobOutcomeFinal ==
  [][\A j \in JobIds : status[j] \in JobStatus \ {"running"} => status'[j] = status[j]]_jobVars

\* A watcher of a job that runs is released when the job is over, without
\* polling for it, whatever is cancelled, pruned or shut down meanwhile.
WatcherReleased ==
  \A w \in Watchers :
    (watch[w] # 0 /\ status[watch[w]] = "running") ~>
      (shut[w] \/ watch[w] = 0 \/ server = "panicked")

\* What a job owes those who watch it: one outcome, and word that it is over.
JobsSettle == JobOutcomeFinal /\ WatcherReleased

\* A job is unaffected by anything its watchers do: no coming or going of a
\* watcher, no cancellation and no shutdown brings the process down.
WatchersAreHarmless == server # "panicked"

=============================================================================
