-------------------------- MODULE RunQueueProofs --------------------------
(***************************************************************************)
(* Theorems about RunQueue, for every number of runs, tokens and ticks,    *)
(* every budget and every set of environments and requests.                *)
(***************************************************************************)
EXTENDS RunQueue, FiniteSetTheorems, TLAPS

---------------------------------------------------------------------------
(* Facts about the transition table and the request type.                  *)

\* Every edge out of a leased state leads to a leased or a terminal state, and
\* cancellation starts from queued or from a leased state only (contracts.go).
LEMMA TransitionFacts ==
  /\ \A from \in LeasedStates : runTransitions(from) \subseteq LeasedStates \cup TerminalStates
  /\ \A from \in RunStates \cup {"absent"} : "cancelling" \in runTransitions(from) =>
       from \in {"requested", "validating", "queued", "preparing", "running", "verifying"}
  /\ \A from \in RunStates \cup {"absent"} : runTransitions(from) \subseteq RunStates
BY DEF runTransitions, LeasedStates, TerminalStates, RunStates

\* A retry's request is a request: only trigger, key and digest change.
LEMMA RetryRequestType ==
  ASSUME TypeOK, NEW r \in Runs, NEW k \in Keys \cup {NoKey}
  PROVE  RetryRequest(r, k) \in RequestType
<1>1. req[r] \in RequestType
  BY DEF TypeOK
<1>2. Append(req[r].digest, r) \in Seq(Nat)
  BY <1>1, QueueAssumption DEF RequestType, Runs
<1>3. "manual" \in Triggers
  BY DEF Triggers
<1> QED
  BY <1>1, <1>2, <1>3 DEF RequestType, RetryRequest

\* The rows of deploy_runs are finitely many, so slots can be counted.
LEMMA RunsFinite == IsFiniteSet(Runs)
BY FS_Interval, QueueAssumption DEF Runs

---------------------------------------------------------------------------
(* The type invariant.                                                     *)

\* Inserting a well-formed request keeps the column types (Enqueue and Retry).
LEMMA InsertType ==
  ASSUME TypeOK, NEW q \in RequestType, NEW p \in Runs \cup {NoRun}, Insert(q, p)
  PROVE  TypeOK'
<1> DEFINE n == nruns + 1
<1>1. n \in Runs /\ nruns' = n /\ n \in 0..MaxRuns
  BY QueueAssumption DEF Insert, TypeOK, Runs
<1>2. /\ req' \in [Runs -> RequestType]
      /\ requestedAt' \in [Runs -> Nat]
      /\ retryOf' \in [Runs -> Runs \cup {NoRun}]
  BY <1>1 DEF Insert, TypeOK
<1>3. /\ state' \in [Runs -> RunStates \cup {"absent"}]
      /\ supersededBy' \in [Runs -> Runs \cup {NoRun}]
  BY <1>1 DEF Insert, TypeOK, RunStates
<1> QED
  BY <1>1, <1>2, <1>3 DEF Insert, TypeOK

\* The empty tables have their column types.
LEMMA InitType == Init => TypeOK
<1> SUFFICES ASSUME Init PROVE TypeOK
  OBVIOUS
<1>1. (CHOOSE q \in Requests : TRUE) \in RequestType
  BY QueueAssumption
<1> QED
  BY <1>1, QueueAssumption DEF Init, TypeOK, NoRun, NoToken, NoLease, LeaseRow, RunStates

\* Every store operation keeps the column types.
LEMMA NextType == TypeOK /\ [Next]_queueVars => TypeOK'
<1> SUFFICES ASSUME TypeOK, [Next]_queueVars PROVE TypeOK'
  OBVIOUS
<1> USE QueueAssumption
<1>1. CASE Enqueue
  BY <1>1, InsertType DEF Enqueue
<1>2. CASE Tick
  BY <1>2 DEF Tick, TypeOK, rowVars
<1>3. ASSUME NEW r \in Runs, Retry(r) PROVE TypeOK'
  BY <1>3, InsertType, RetryRequestType DEF Retry
<1>4. ASSUME NEW r \in Runs, ClaimNext(r) PROVE TypeOK'
  BY <1>4 DEF ClaimNext, TypeOK, rowVars, LeaseRow, RunStates
<1>5. ASSUME NEW r \in Runs, ReclaimExpiredLease(r) PROVE TypeOK'
  BY <1>5 DEF ReclaimExpiredLease, TypeOK, rowVars, LeaseRow
<1>6. ASSUME NEW r \in Runs, RequestCancellation(r) PROVE TypeOK'
  <2>1. cancelRequested' \in [Runs -> BOOLEAN]
    BY <1>6, Zenon DEF RequestCancellation, TypeOK
  <2>2. NoLease \in LeaseRow
    BY DEF NoLease, LeaseRow, NoToken
  <2>3. state' \in [Runs -> RunStates \cup {"absent"}]
    BY <1>6 DEF RequestCancellation, TypeOK, RunStates
  <2>4. leaseToken' \in [Runs -> Nat] /\ lease' \in [Runs -> LeaseRow]
    BY <1>6, <2>2 DEF RequestCancellation, TypeOK, NoToken
  <2> QED
    BY <1>6, <2>1, <2>3, <2>4 DEF RequestCancellation, TypeOK, rowVars
<1>7. ASSUME NEW r \in Runs, NEW t \in 1..tokens, Heartbeat(r, t) PROVE TypeOK'
  BY <1>7 DEF Heartbeat, TypeOK, rowVars, LeaseRow
<1>8. ASSUME NEW r \in Runs, NEW t \in 1..tokens, GuardedWrite(r, t) PROVE TypeOK'
  BY <1>8 DEF GuardedWrite, TypeOK, rowVars
<1>9. ASSUME NEW r \in Runs, NEW t \in 1..tokens, NEW to \in RunStates,
             TransitionRun(r, t, to)
      PROVE  TypeOK'
  BY <1>9 DEF TransitionRun, TypeOK, rowVars, LeaseRow, NoLease, NoToken
<1>10. CASE UNCHANGED queueVars
  BY <1>10 DEF queueVars, rowVars, TypeOK
<1> QED
  BY <1>1, <1>2, <1>3, <1>4, <1>5, <1>6, <1>7, <1>8, <1>9, <1>10 DEF Next

\* The run and lease tables keep their column types in every reachable state.
THEOREM TypeCorrect == Spec => []TypeOK
BY InitType, NextType, PTL DEF Spec

---------------------------------------------------------------------------
(* The inductive invariant.  Two lemmas carry the conjuncts that an action *)
(* does not disturb; the claim and the insert get proofs of their own.     *)

\* A step that adds no lease and leaves the requests of leased runs alone keeps
\* environments exclusive and classes within their budget.
LEMMA NoNewLease ==
  ASSUME TypeOK, TypeOK', OneLeasePerEnvironment, SlotBudget,
         \A r \in Runs : Leased(r)' => Leased(r) /\ req'[r] = req[r]
  PROVE  OneLeasePerEnvironment' /\ SlotBudget'
<1>1. OneLeasePerEnvironment'
  BY DEF OneLeasePerEnvironment
<1>2. ASSUME NEW c \in Classes PROVE Cardinality(HeldSlots(c)') <= Budget[c]
  <2>1. HeldSlots(c)' \subseteq HeldSlots(c)
    BY DEF HeldSlots
  <2>2. IsFiniteSet(HeldSlots(c))
    BY FS_Subset, RunsFinite DEF HeldSlots
  <2>3. /\ Cardinality(HeldSlots(c)') \in Nat
        /\ Cardinality(HeldSlots(c)) \in Nat
        /\ Cardinality(HeldSlots(c)') <= Cardinality(HeldSlots(c))
    BY <2>1, <2>2, FS_Subset, FS_CardinalityType
  <2>4. Cardinality(HeldSlots(c)) <= Budget[c] /\ Budget[c] \in Nat
    BY QueueAssumption DEF SlotBudget, Budget, Classes
  <2> QED
    BY <2>3, <2>4
<1> QED
  BY <1>1, <1>2 DEF SlotBudget, Budget

\* A step that inserts no row and supersedes none keeps what is said of rows.
LEMMA StableRows ==
  ASSUME QueueInv, UNCHANGED <<nruns, req>>,
         \A r \in Runs : /\ state'[r] = "absent" <=> state[r] = "absent"
                         /\ state'[r] = "superseded" <=> state[r] = "superseded"
                         /\ state'[r] \notin {"requested", "validating"}
  PROVE  /\ RowsAllocated' /\ IdempotencyUnique'
         /\ SupersededIsCovered' /\ ExplicitNeverSuperseded'
<1>1. RowsAllocated'
  BY DEF QueueInv, RowsAllocated
<1>2. IdempotencyUnique'
  BY DEF QueueInv, IdempotencyUnique
<1>3. SupersededIsCovered'
  BY DEF QueueInv, SupersededIsCovered
<1>4. ExplicitNeverSuperseded'
  BY DEF QueueInv, ExplicitNeverSuperseded
<1> QED
  BY <1>1, <1>2, <1>3, <1>4

\* The inductive invariant holds of the empty tables.
LEMMA InitInv == Init => QueueInv
<1> SUFFICES ASSUME Init PROVE QueueInv
  OBVIOUS
<1>1. TypeOK
  BY InitType
<1>2. RowsAllocated /\ TokensIssued /\ LeaseMirrorsRun /\ OneLeasePerEnvironment
  BY QueueAssumption DEF Init, RowsAllocated, TokensIssued, LeaseMirrorsRun,
     OneLeasePerEnvironment, Leased, NoLease, NoToken, LeasedStates, Runs
<1>3. SlotBudget
  <2> SUFFICES ASSUME NEW c \in Classes PROVE Cardinality(HeldSlots(c)) <= Budget[c]
    BY DEF SlotBudget
  <2>1. HeldSlots(c) = {}
    BY DEF Init, HeldSlots, Leased
  <2> QED
    BY <2>1, FS_EmptySet, QueueAssumption DEF Budget, Classes
<1>4. IdempotencyUnique /\ SupersededIsCovered /\ ExplicitNeverSuperseded
  BY DEF Init, IdempotencyUnique, SupersededIsCovered, ExplicitNeverSuperseded
<1> QED
  BY <1>1, <1>2, <1>3, <1>4 DEF QueueInv

\* Inserting a row: the new run owns nothing, its key is fresh, and what it
\* replaces it covers.
LEMMA InsertInv ==
  ASSUME QueueInv, NEW q \in RequestType, NEW p \in Runs \cup {NoRun}, Insert(q, p)
  PROVE  QueueInv'
<1> DEFINE n == nruns + 1
<1>1. TypeOK'
  BY InsertType DEF QueueInv
<1>2. /\ n \in Runs /\ state[n] = "absent" /\ nruns' = n
      /\ \A s \in Runs : state[s] # "absent" => s < n
      /\ \A s \in Runs : state[s] = "absent" /\ s # n => s > n
  BY QueueAssumption DEF QueueInv, TypeOK, RowsAllocated, Insert, Runs
<1>3. \A s \in Runs : /\ s # n => req'[s] = req[s]
                      /\ s = n => req'[s] = q
  BY <1>2 DEF Insert, QueueInv, TypeOK
<1>4. \A s \in SupersededSet(q) : s \in Runs /\ state[s] = "queued" /\ s # n
  BY <1>2 DEF SupersededSet
<1>5. \A s \in Runs : /\ s = n => state'[s] = "queued"
                      /\ s \in SupersededSet(q) => state'[s] = "superseded"
                      /\ s # n /\ s \notin SupersededSet(q) => state'[s] = state[s]
  BY <1>2, <1>4 DEF Insert
<1>6. ~ Leased(n)
  BY <1>2 DEF QueueInv, LeaseMirrorsRun, LeasedStates
<1>7. UNCHANGED <<lease, leaseToken, tokens, writer>>
  BY DEF Insert
<1>8. RowsAllocated'
  BY <1>2, <1>4, <1>5 DEF QueueInv, RowsAllocated, TypeOK, Runs
<1>9. TokensIssued'
  BY <1>7 DEF QueueInv, TokensIssued, Leased
<1>10. LeaseMirrorsRun'
  BY <1>4, <1>5, <1>6, <1>7 DEF QueueInv, LeaseMirrorsRun, Leased, LeasedStates
<1>11. OneLeasePerEnvironment' /\ SlotBudget'
  <2>1. \A s \in Runs : Leased(s)' => Leased(s) /\ req'[s] = req[s]
    BY <1>3, <1>6, <1>7 DEF Leased
  <2> QED
    BY <1>1, <2>1, NoNewLease DEF QueueInv
<1>12. IdempotencyUnique'
  <2> SUFFICES ASSUME NEW r \in Runs, NEW s \in Runs,
                      state'[r] # "absent", state'[s] # "absent",
                      req'[r].key # NoKey, req'[r].key = req'[s].key,
                      req'[r].env = req'[s].env, req'[r].op = req'[s].op
               PROVE  r = s
    BY DEF IdempotencyUnique
  <2>1. \A u \in Runs : u # n /\ state'[u] # "absent" => state[u] # "absent"
    BY <1>4, <1>5
  <2>2. CASE r # n /\ s # n
    BY <1>3, <2>1, <2>2 DEF QueueInv, IdempotencyUnique
  <2>3. CASE r = n /\ s # n
    BY <1>3, <2>1, <2>3 DEF Insert, Replayed
  <2>4. CASE r # n /\ s = n
    BY <1>3, <2>1, <2>4 DEF Insert, Replayed
  <2> QED
    BY <2>2, <2>3, <2>4
<1>13. SupersededIsCovered'
  <2> SUFFICES ASSUME NEW r \in Runs, state'[r] = "superseded"
               PROVE  \E s \in Runs : /\ s > r
                                      /\ state'[s] \notin {"absent", "superseded"}
                                      /\ req'[s].env = req'[r].env
                                      /\ coversPaths(req'[s].paths, req'[r].paths)
    BY DEF SupersededIsCovered
  <2>1. r # n /\ req'[r] = req[r]
    BY <1>2, <1>3, <1>5
  <2>2. CASE r \in SupersededSet(q)
    <3>1. r < n /\ req[r].env = q.env /\ coversPaths(q.paths, req[r].paths)
      BY <1>2, <1>4, <2>2 DEF SupersededSet
    <3>2. n > r
      BY <3>1, <1>2 DEF Runs
    <3> QED
      BY <1>2, <1>3, <1>5, <2>1, <3>1, <3>2
  <2>3. CASE r \notin SupersededSet(q)
    <3>1. state[r] = "superseded"
      BY <1>5, <2>1, <2>3
    <3>2. PICK s \in Runs : /\ s > r
                           /\ state[s] \notin {"absent", "superseded"}
                           /\ req[s].env = req[r].env
                           /\ coversPaths(req[s].paths, req[r].paths)
      BY <3>1 DEF QueueInv, SupersededIsCovered
    <3>3. s # n /\ req'[s] = req[s]
      BY <1>2, <1>3, <3>2
    <3>4. CASE s \in SupersededSet(q)
      <4>1. /\ req[s].env = q.env
            /\ coversPaths(q.paths, req[r].paths)
        BY <3>2, <3>4 DEF SupersededSet, coversPaths
      <4>2. n > r
        BY <1>2, <3>1 DEF Runs
      <4> QED
        BY <1>2, <1>3, <1>5, <2>1, <3>2, <4>1, <4>2
    <3>5. CASE s \notin SupersededSet(q)
      BY <1>5, <2>1, <3>2, <3>3, <3>5
    <3> QED
      BY <3>4, <3>5
  <2> QED
    BY <2>2, <2>3
<1>14. ExplicitNeverSuperseded'
  <2> SUFFICES ASSUME NEW r \in Runs, state'[r] = "superseded"
               PROVE  /\ ~ Explicit(req'[r])
                      /\ req'[r].env \in Production => automaticTrigger(req'[r].trigger)
    BY DEF ExplicitNeverSuperseded
  <2>1. r # n /\ req'[r] = req[r]
    BY <1>2, <1>3, <1>5
  <2>2. CASE r \in SupersededSet(q)
    BY <2>1, <2>2 DEF SupersededSet
  <2>3. CASE r \notin SupersededSet(q)
    BY <1>5, <2>1, <2>3 DEF QueueInv, ExplicitNeverSuperseded
  <2> QED
    BY <2>2, <2>3
<1> QED
  BY <1>1, <1>8, <1>9, <1>10, <1>11, <1>12, <1>13, <1>14 DEF QueueInv

\* Claiming: the environment had no lease and the class had a free slot.
LEMMA ClaimInv ==
  ASSUME QueueInv, TypeOK', NEW r \in Runs, ClaimNext(r)
  PROVE  QueueInv'
<1>1. /\ state[r] = "queued" /\ ~ Leased(r) /\ tokens \in Nat
      /\ tokens' = tokens + 1
  BY DEF QueueInv, TypeOK, LeaseMirrorsRun, LeasedStates, ClaimNext, Claimable
<1>2. \A s \in Runs : /\ s # r => /\ state'[s] = state[s] /\ lease'[s] = lease[s]
                                  /\ leaseToken'[s] = leaseToken[s]
                      /\ s = r => /\ state'[s] = "preparing"
                                  /\ lease'[s].token = tokens + 1
                                  /\ leaseToken'[s] = tokens + 1
  BY DEF ClaimNext, QueueInv, TypeOK
<1>3. /\ Leased(r)'
      /\ \A s \in Runs : s # r => (Leased(s)' <=> Leased(s))
  BY <1>1, <1>2 DEF Leased, NoLease, NoToken
<1>4. UNCHANGED <<nruns, req, writer>>
  BY DEF ClaimNext, rowVars
<1>5. /\ RowsAllocated' /\ IdempotencyUnique'
      /\ SupersededIsCovered' /\ ExplicitNeverSuperseded'
  <2>1. \A s \in Runs : /\ state'[s] = "absent" <=> state[s] = "absent"
                        /\ state'[s] = "superseded" <=> state[s] = "superseded"
                        /\ state'[s] \notin {"requested", "validating"}
    BY <1>1, <1>2 DEF QueueInv, RowsAllocated
  <2> QED
    BY <1>4, <2>1, StableRows
<1>6. TokensIssued'
  <2> SUFFICES ASSUME NEW s \in Runs
               PROVE  /\ lease'[s].token <= tokens' /\ writer'[s] <= tokens'
                      /\ Leased(s)' => lease'[s].token # NoToken /\ writer'[s] <= lease'[s].token
    BY DEF TokensIssued
  <2>1. /\ lease[s].token \in Nat /\ writer[s] \in Nat
        /\ lease[s].token <= tokens /\ writer[s] <= tokens
        /\ Leased(s) => lease[s].token # NoToken /\ writer[s] <= lease[s].token
    BY DEF QueueInv, TypeOK, TokensIssued, LeaseRow
  <2> QED
    BY <1>1, <1>2, <1>3, <1>4, <2>1 DEF NoToken
<1>7. LeaseMirrorsRun'
  BY <1>2, <1>3 DEF QueueInv, LeaseMirrorsRun, LeasedStates
<1>8. OneLeasePerEnvironment'
  BY <1>3, <1>4 DEF QueueInv, OneLeasePerEnvironment, ClaimNext, Claimable, EnvironmentFree
<1>9. SlotBudget'
  <2> SUFFICES ASSUME NEW c \in Classes
               PROVE  Cardinality(HeldSlots(c)') <= Budget[c]
    BY DEF SlotBudget, Budget
  <2>1. IsFiniteSet(HeldSlots(c)) /\ Cardinality(HeldSlots(c)) \in Nat
    BY FS_Subset, RunsFinite, FS_CardinalityType DEF HeldSlots
  <2>2. Budget[c] \in Nat /\ Cardinality(HeldSlots(c)) <= Budget[c]
    BY QueueAssumption DEF QueueInv, SlotBudget, Budget, Classes
  <2>3. CASE c = req[r].class
    <3>1. HeldSlots(c)' = HeldSlots(c) \cup {r} /\ r \notin HeldSlots(c)
      BY <1>1, <1>3, <1>4, <2>3 DEF HeldSlots
    <3>2. Cardinality(HeldSlots(c)') = Cardinality(HeldSlots(c)) + 1
      BY <2>1, <3>1, FS_AddElement
    <3>3. Cardinality(HeldSlots(c)) < Budget[c]
      BY <2>3 DEF ClaimNext, Claimable
    <3> QED
      BY <2>1, <2>2, <3>2, <3>3
  <2>4. CASE c # req[r].class
    <3>1. HeldSlots(c)' = HeldSlots(c)
      BY <1>3, <1>4, <2>4 DEF HeldSlots
    <3> QED
      BY <2>2, <3>1
  <2> QED
    BY <2>3, <2>4
<1> QED
  BY <1>5, <1>6, <1>7, <1>8, <1>9 DEF QueueInv

\* Every action but the two above adds no lease and no row.  Such a step keeps
\* the invariant if it keeps lease rows, run rows and tokens consistent.
LEMMA OwnerStepInv ==
  ASSUME QueueInv, TypeOK', UNCHANGED <<nruns, req>>, NEW r \in Runs,
         \A s \in Runs \ {r} : UNCHANGED <<state[s], lease[s], leaseToken[s], writer[s]>>,
         Leased(r)' => Leased(r),
         Leased(r)' <=> state'[r] \in LeasedStates,
         leaseToken'[r] = lease'[r].token,
         state'[r] = state[r] \/ state'[r] \in LeasedStates \cup {"succeeded", "failed", "cancelled", "rolled_back"},
         state[r] \notin {"absent", "superseded"},
         tokens <= tokens',
         lease'[r].token <= tokens' /\ writer'[r] <= tokens',
         Leased(r)' => lease'[r].token # NoToken /\ writer'[r] <= lease'[r].token
  PROVE  QueueInv'
<1>1. \A s \in Runs : s # r => (Leased(s)' <=> Leased(s))
  BY DEF Leased
<1>2. OneLeasePerEnvironment' /\ SlotBudget'
  BY <1>1, NoNewLease DEF QueueInv
<1>3. \A s \in Runs : /\ state'[s] = "absent" <=> state[s] = "absent"
                      /\ state'[s] = "superseded" <=> state[s] = "superseded"
                      /\ state'[s] \notin {"requested", "validating"}
  BY DEF QueueInv, RowsAllocated, LeasedStates
<1>4. LeaseMirrorsRun'
  BY <1>1 DEF QueueInv, LeaseMirrorsRun
<1>5. TokensIssued'
  <2> SUFFICES ASSUME NEW s \in Runs, s # r
               PROVE  /\ lease'[s].token <= tokens' /\ writer'[s] <= tokens'
                      /\ Leased(s)' => lease'[s].token # NoToken /\ writer'[s] <= lease'[s].token
    BY DEF TokensIssued
  <2>1. lease[s].token \in Nat /\ writer[s] \in Nat /\ tokens \in Nat /\ tokens' \in Nat
    BY DEF QueueInv, TypeOK, LeaseRow
  <2> QED
    BY <1>1, <2>1 DEF QueueInv, TokensIssued
<1> QED
  BY <1>2, <1>3, <1>4, <1>5, StableRows DEF QueueInv

\* Every store operation, and the clock, keeps the inductive invariant.
LEMMA NextInv == QueueInv /\ [Next]_queueVars => QueueInv'
<1> SUFFICES ASSUME QueueInv, [Next]_queueVars PROVE QueueInv'
  OBVIOUS
<1>0. TypeOK /\ TypeOK'
  BY NextType DEF QueueInv
<1>1. CASE Enqueue
  BY <1>1, InsertInv, QueueAssumption DEF Enqueue
<1>2. CASE Tick
  <2>1. /\ UNCHANGED <<nruns, req, state, lease, leaseToken, tokens, writer>>
    BY <1>2 DEF Tick, rowVars
  <2>2. \A s \in Runs : Leased(s)' <=> Leased(s)
    BY <2>1 DEF Leased
  <2>3. OneLeasePerEnvironment' /\ SlotBudget'
    BY <1>0, <2>1, <2>2, NoNewLease DEF QueueInv
  <2>4. LeaseMirrorsRun' /\ TokensIssued'
    BY <2>1, <2>2 DEF QueueInv, LeaseMirrorsRun, TokensIssued
  <2>5. \A s \in Runs : state'[s] \notin {"requested", "validating"}
    BY <2>1 DEF QueueInv, RowsAllocated
  <2> QED
    BY <1>0, <2>1, <2>3, <2>4, <2>5, StableRows DEF QueueInv
<1>3. ASSUME NEW r \in Runs, Retry(r) PROVE QueueInv'
  BY <1>0, <1>3, InsertInv, RetryRequestType DEF Retry
<1>4. ASSUME NEW r \in Runs, ClaimNext(r) PROVE QueueInv'
  BY <1>0, <1>4, ClaimInv
<1>5. ASSUME NEW r \in Runs, ReclaimExpiredLease(r) PROVE QueueInv'
  <2>1. /\ UNCHANGED <<nruns, req, state, writer>>
        /\ Leased(r) /\ state[r] \in LeasedStates
        /\ tokens \in Nat /\ tokens' = tokens + 1 /\ writer[r] \in Nat /\ writer[r] <= tokens
    BY <1>0, <1>5 DEF ReclaimExpiredLease, rowVars, QueueInv, TypeOK, LeaseMirrorsRun, TokensIssued
  <2>2. /\ \A s \in Runs \ {r} : UNCHANGED <<lease[s], leaseToken[s]>>
        /\ lease'[r].token = tokens + 1 /\ leaseToken'[r] = tokens + 1
    BY <1>0, <1>5 DEF ReclaimExpiredLease, TypeOK
  <2>3. Leased(r)'
    BY <2>1, <2>2 DEF Leased, NoLease, NoToken
  <2> QED
    BY <1>0, <2>1, <2>2, <2>3, OwnerStepInv DEF NoToken, LeasedStates
<1>6. ASSUME NEW r \in Runs, RequestCancellation(r) PROVE QueueInv'
  <2>1. /\ UNCHANGED <<nruns, req, tokens, writer>>
        /\ state[r] \in {"queued", "preparing", "running", "verifying"}
        /\ tokens \in Nat /\ writer[r] \in Nat /\ writer[r] <= tokens
        /\ \A s \in Runs \ {r} : UNCHANGED <<state[s], lease[s], leaseToken[s]>>
    BY <1>0, <1>6, TransitionFacts DEF RequestCancellation, CanTransitionRun, rowVars,
       QueueInv, TypeOK, RowsAllocated, TokensIssued
  <2>2. CASE state[r] = "queued"
    <3>1. state'[r] = "cancelled" /\ lease'[r] = NoLease /\ leaseToken'[r] = NoToken
      BY <1>0, <1>6, <2>2 DEF RequestCancellation, TypeOK
    <3>2. ~ Leased(r)' /\ lease'[r].token = 0 /\ leaseToken'[r] = 0
      BY <3>1 DEF Leased, NoLease, NoToken
    <3> QED
      BY <1>0, <2>1, <2>2, <3>1, <3>2, OwnerStepInv DEF LeasedStates
  <2>3. CASE state[r] # "queued"
    <3>1. state'[r] = "cancelling" /\ UNCHANGED <<lease, leaseToken>> /\ state[r] \in LeasedStates
      BY <1>0, <1>6, <2>1, <2>3 DEF RequestCancellation, TypeOK, LeasedStates
    <3>2. Leased(r) /\ Leased(r)' /\ leaseToken[r] = lease[r].token
      BY <3>1 DEF QueueInv, LeaseMirrorsRun, Leased
    <3>3. lease[r].token <= tokens /\ lease[r].token # NoToken /\ writer[r] <= lease[r].token
      BY <3>2 DEF QueueInv, TokensIssued
    <3> QED
      BY <1>0, <2>1, <3>1, <3>2, <3>3, OwnerStepInv DEF LeasedStates
  <2> QED
    BY <2>2, <2>3
<1>7. ASSUME NEW r \in Runs, NEW t \in 1..tokens,
             \/ Heartbeat(r, t)
             \/ GuardedWrite(r, t)
             \/ \E to \in RunStates : TransitionRun(r, t, to)
      PROVE  QueueInv'
  <2>1. /\ lease[r].token = t /\ t # NoToken /\ t \in Nat /\ tokens \in Nat /\ t <= tokens
        /\ UNCHANGED <<nruns, req, tokens>>
    BY <1>0, <1>7 DEF Heartbeat, GuardedWrite, TransitionRun, LeaseHeld, rowVars, TypeOK
  <2>2. Leased(r) /\ state[r] \in LeasedStates /\ leaseToken[r] = t
    BY <2>1 DEF Leased, NoLease, QueueInv, LeaseMirrorsRun
  <2>3. writer[r] \in Nat /\ writer[r] <= t
    BY <1>0, <2>1, <2>2 DEF QueueInv, TokensIssued, TypeOK
  <2>4. CASE Heartbeat(r, t)
    <3>1. /\ UNCHANGED <<state, leaseToken, writer>>
          /\ \A s \in Runs \ {r} : UNCHANGED lease[s]
          /\ lease'[r].token = t
      BY <1>0, <2>1, <2>4 DEF Heartbeat, TypeOK, LeaseRow
    <3>2. Leased(r)'
      BY <2>1, <3>1 DEF Leased, NoLease
    <3> QED
      BY <1>0, <2>1, <2>2, <2>3, <3>1, <3>2, OwnerStepInv DEF LeasedStates
  <2>5. CASE GuardedWrite(r, t)
    <3>1. /\ UNCHANGED <<state, leaseToken, lease>>
          /\ \A s \in Runs \ {r} : UNCHANGED writer[s]
          /\ writer'[r] = t
      BY <1>0, <2>5 DEF GuardedWrite, TypeOK
    <3>2. Leased(r)'
      BY <2>2, <3>1 DEF Leased
    <3> QED
      BY <1>0, <2>1, <2>2, <2>3, <3>1, <3>2, OwnerStepInv DEF LeasedStates
  <2>6. ASSUME NEW to \in RunStates, TransitionRun(r, t, to) PROVE QueueInv'
    <3>1. to \in LeasedStates \cup TerminalStates /\ to # "superseded"
      BY <2>2, <2>6 DEF TransitionRun, CanTransitionRun, runTransitions, LeasedStates, TerminalStates
    <3>2. /\ state'[r] = to /\ writer'[r] = t
          /\ \A s \in Runs \ {r} : UNCHANGED <<state[s], lease[s], leaseToken[s], writer[s]>>
      BY <1>0, <2>6 DEF TransitionRun, TypeOK
    <3>3. CASE Terminal(to)
      <4>1. lease'[r] = NoLease /\ leaseToken'[r] = NoToken /\ to \notin LeasedStates
        BY <1>0, <2>6, <3>3 DEF TransitionRun, TypeOK, Terminal, TerminalStates, LeasedStates
      <4>2. ~ Leased(r)' /\ lease'[r].token = 0 /\ leaseToken'[r] = 0
        BY <4>1 DEF Leased, NoLease, NoToken
      <4> QED
        BY <1>0, <2>1, <2>2, <2>3, <3>1, <3>2, <3>3, <4>1, <4>2, OwnerStepInv
           DEF LeasedStates, Terminal, TerminalStates
    <3>4. CASE ~ Terminal(to)
      <4>1. UNCHANGED <<lease, leaseToken>> /\ to \in LeasedStates
        BY <2>6, <3>1, <3>4 DEF TransitionRun, Terminal
      <4>2. Leased(r)'
        BY <2>2, <4>1 DEF Leased
      <4> QED
        BY <1>0, <2>1, <2>2, <2>3, <3>2, <4>1, <4>2, OwnerStepInv DEF LeasedStates
    <3> QED
      BY <3>3, <3>4
  <2> QED
    BY <1>7, <2>4, <2>5, <2>6
<1>8. CASE UNCHANGED queueVars
  <2>1. UNCHANGED <<nruns, req, state, lease, leaseToken, tokens, writer>>
    BY <1>8 DEF queueVars, rowVars
  <2>2. \A s \in Runs : Leased(s)' <=> Leased(s)
    BY <2>1 DEF Leased
  <2>3. OneLeasePerEnvironment' /\ SlotBudget'
    BY <1>0, <2>1, <2>2, NoNewLease DEF QueueInv
  <2>4. LeaseMirrorsRun' /\ TokensIssued'
    BY <2>1, <2>2 DEF QueueInv, LeaseMirrorsRun, TokensIssued
  <2>5. \A s \in Runs : state'[s] \notin {"requested", "validating"}
    BY <2>1 DEF QueueInv, RowsAllocated
  <2> QED
    BY <1>0, <2>1, <2>3, <2>4, <2>5, StableRows DEF QueueInv
<1> QED
  BY <1>1, <1>2, <1>3, <1>4, <1>5, <1>6, <1>7, <1>8 DEF Next

---------------------------------------------------------------------------
(* The theorems.                                                           *)

\* The inductive invariant holds in every reachable state of the queue.
THEOREM Invariance == Spec => []QueueInv
BY InitInv, NextInv, PTL DEF Spec

\* Strict per-environment serialization: whatever expires, is reclaimed or is
\* cancelled, two runs of one environment are never claimed together (ClaimNext).
THEOREM EnvironmentsSerialized == Spec => []OneLeasePerEnvironment
<1>1. QueueInv => OneLeasePerEnvironment
  BY DEF QueueInv
<1> QED
  BY <1>1, Invariance, PTL

\* No class of host slot is ever overcommitted (ClaimNext counts lease rows,
\* ReclaimExpiredLease reuses one).
THEOREM SlotsBounded == Spec => []SlotBudget
<1>1. QueueInv => SlotBudget
  BY DEF QueueInv
<1> QED
  BY <1>1, Invariance, PTL

\* Lease rows and run rows agree after every transaction of the store, so no
\* lease outlives its run and no owned run is without a lease.
THEOREM LeasesMirrorRuns == Spec => []LeaseMirrorsRun
<1>1. QueueInv => LeaseMirrorsRun
  BY DEF QueueInv
<1> QED
  BY <1>1, Invariance, PTL

\* A keyed request is enqueued once per environment and operation (Enqueue).
THEOREM EnqueueIdempotent == Spec => []IdempotencyUnique
<1>1. QueueInv => IdempotencyUnique
  BY DEF QueueInv
<1> QED
  BY <1>1, Invariance, PTL

\* However long a chain of replacements grows, the paths of a superseded run
\* are covered by a later run that was not superseded (supersedeEligibleTx).
THEOREM SupersedingLosesNothing == Spec => []SupersededIsCovered
<1>1. QueueInv => SupersededIsCovered
  BY DEF QueueInv
<1> QED
  BY <1>1, Invariance, PTL

\* Runs an operator asked for are never superseded (supersedeEligibleTx).
THEOREM ExplicitRunsKept == Spec => []ExplicitNeverSuperseded
<1>1. QueueInv => ExplicitNeverSuperseded
  BY DEF QueueInv
<1> QED
  BY <1>1, Invariance, PTL

\* Once a reclaimed run has been written by its new owner, no older token writes
\* to it (assertLeaseTx): a stalled worker is fenced, for any number of reclaims.
THEOREM StaleWritersFenced == Spec => FencedWrites
<1>1. QueueInv /\ [Next]_queueVars => [\A r \in Runs : writer'[r] >= writer[r]]_queueVars
  <2> SUFFICES ASSUME QueueInv, Next, NEW s \in Runs PROVE writer'[s] >= writer[s]
    OBVIOUS
  <2>1. writer[s] \in Nat /\ writer \in [Runs -> Nat] /\ tokens \in Nat
    BY DEF QueueInv, TypeOK
  <2>2. ASSUME NEW r \in Runs, NEW t \in 1..tokens, LeaseHeld(r, t),
               writer' = [writer EXCEPT ![r] = t]
        PROVE  writer'[s] >= writer[s]
    <3>1. Leased(r)
      BY <2>2 DEF LeaseHeld, Leased, NoLease
    <3>2. writer[r] <= t
      BY <2>2, <3>1 DEF QueueInv, TokensIssued, LeaseHeld
    <3> QED
      BY <2>1, <2>2, <3>2
  <2>3. CASE UNCHANGED writer
    BY <2>1, <2>3
  <2>4. \/ UNCHANGED writer
        \/ \E r \in Runs, t \in 1..tokens :
             LeaseHeld(r, t) /\ writer' = [writer EXCEPT ![r] = t]
    BY DEF Next, Enqueue, Retry, Insert, Tick, ClaimNext, ReclaimExpiredLease,
       RequestCancellation, Heartbeat, GuardedWrite, TransitionRun
  <2> QED
    BY <2>2, <2>3, <2>4
<1> QED
  BY <1>1, Invariance, PTL DEF Spec, FencedWrites

\* A terminal run is never changed or leased again, whoever holds a token
\* (Terminal in contracts.go, TransitionRun, RequestCancellation, Enqueue).
THEOREM TerminalRunsFinal == Spec => TerminalForever
<1>1. QueueInv /\ QueueInv' /\ [Next]_queueVars =>
        [\A r \in Runs : Terminal(state[r]) =>
           /\ state'[r] = state[r]
           /\ supersededBy'[r] = supersededBy[r]
           /\ lease'[r] = NoLease]_queueVars
  <2> SUFFICES ASSUME QueueInv, QueueInv', Next, NEW r \in Runs, state[r] \in TerminalStates
               PROVE  /\ state'[r] = state[r]
                      /\ supersededBy'[r] = supersededBy[r]
                      /\ lease'[r] = NoLease
    BY DEF Terminal
  <2>1. TypeOK /\ ~ Leased(r) /\ lease[r].token = 0 /\ state[r] \notin LeasedStates
    BY DEF QueueInv, LeaseMirrorsRun, TerminalStates, LeasedStates, Leased, NoLease, NoToken
  <2>2. state[r] # "absent" /\ state[r] # "queued"
    BY DEF TerminalStates
  <2>3. state'[r] = state[r] /\ supersededBy'[r] = supersededBy[r]
    <3>1. ASSUME NEW q, NEW p, Insert(q, p)
          PROVE  state'[r] = state[r] /\ supersededBy'[r] = supersededBy[r]
      <4>1. r # nruns + 1
        BY <2>1, <2>2 DEF QueueInv, RowsAllocated, TypeOK, Runs
      <4>2. r \notin SupersededSet(q)
        BY <2>2 DEF SupersededSet
      <4> QED
        BY <3>1, <4>1, <4>2 DEF Insert
    <3>2. CASE Enqueue
      BY <3>1, <3>2 DEF Enqueue
    <3>3. CASE Tick
      BY <3>3 DEF Tick
    <3>4. ASSUME NEW s \in Runs, Retry(s)
          PROVE  state'[r] = state[r] /\ supersededBy'[r] = supersededBy[r]
      BY <3>1, <3>4 DEF Retry
    <3>5. ASSUME NEW s \in Runs,
                 ClaimNext(s) \/ ReclaimExpiredLease(s) \/ RequestCancellation(s)
          PROVE  state'[r] = state[r] /\ supersededBy'[r] = supersededBy[r]
      BY <2>1, <2>2, <3>5, TransitionFacts DEF ClaimNext, Claimable, ReclaimExpiredLease,
         RequestCancellation, CanTransitionRun, TypeOK, TerminalStates
    <3>6. ASSUME NEW s \in Runs, NEW t \in 1..tokens,
                 \/ Heartbeat(s, t)
                 \/ GuardedWrite(s, t)
                 \/ \E to \in RunStates : TransitionRun(s, t, to)
          PROVE  state'[r] = state[r] /\ supersededBy'[r] = supersededBy[r]
      BY <2>1, <3>6 DEF Heartbeat, GuardedWrite, TransitionRun, LeaseHeld, TypeOK, Terminal
    <3> QED
      BY <3>2, <3>3, <3>4, <3>5, <3>6 DEF Next
  <2>4. ~ Leased(r)'
    BY <2>3 DEF QueueInv, LeaseMirrorsRun, TerminalStates, LeasedStates
  <2> QED
    BY <2>3, <2>4 DEF Leased
<1> QED
  BY <1>1, Invariance, PTL DEF Spec, TerminalForever

---------------------------------------------------------------------------
(* The queue implements EnvironmentLock.                                   *)

PhaseOf == [r \in Runs |-> Phase(r)]
PlaceOf == [r \in Runs |-> [env |-> req[r].env, class |-> req[r].class]]

\* Empty tables map to an initial state of EnvironmentLock.
LEMMA LockInit == Init => Lock!Init
<1> SUFFICES ASSUME Init PROVE Lock!Init
  OBVIOUS
<1>1. TypeOK
  BY InitType
<1>2. PhaseOf = [r \in Runs |-> "absent"]
  BY DEF Init, Phase, PhaseOf
<1>3. \A r \in Runs : req[r].env \in Envs /\ req[r].class \in Classes
  BY <1>1 DEF TypeOK, RequestType
<1>4. PlaceOf \in [Runs -> [env : Envs, class : Classes]]
  BY <1>3 DEF PlaceOf
<1> QED
  BY <1>2, <1>4 DEF Lock!Init, Lock!Places, PhaseOf, PlaceOf

\* Inserting a run submits it; the runs it supersedes are dropped.
LEMMA LockSubmit ==
  ASSUME QueueInv, QueueInv', NEW q \in RequestType, NEW p \in Runs \cup {NoRun}, Insert(q, p)
  PROVE  Lock!Next
<1> DEFINE n == nruns + 1
           pl == [env |-> q.env, class |-> q.class]
<1>1. n \in Runs /\ state[n] = "absent"
  BY QueueAssumption DEF QueueInv, TypeOK, RowsAllocated, Insert, Runs
<1>2. pl \in [env : Envs, class : Classes]
  BY DEF RequestType
<1>3. PhaseOf[n] = "absent"
  BY <1>1 DEF PhaseOf, Phase
<1>4. PlaceOf' = [PlaceOf EXCEPT ![n] = pl]
  <2>1. req' = [req EXCEPT ![n] = q] /\ req \in [Runs -> RequestType]
    BY DEF Insert, QueueInv, TypeOK
  <2> QED
    BY <1>1, <2>1 DEF PlaceOf
<1>5. SupersededSet(q) \in SUBSET {s \in Runs : PhaseOf[s] = "waiting" /\ PlaceOf[s].env = pl.env}
  BY DEF SupersededSet, PhaseOf, PlaceOf, Phase
<1>6. PhaseOf' = [s \in Runs |-> IF s = n THEN "waiting"
                                 ELSE IF s \in SupersededSet(q) THEN "done" ELSE PhaseOf[s]]
  <2>1. \A s \in Runs : state'[s] = IF s = n THEN "queued"
                                    ELSE IF s \in SupersededSet(q) THEN "superseded" ELSE state[s]
    BY DEF Insert
  <2>2. \A s \in Runs : Phase(s)' = IF s = n THEN "waiting"
                                    ELSE IF s \in SupersededSet(q) THEN "done" ELSE Phase(s)
    BY <2>1 DEF Phase, LeasedStates
  <2> QED
    BY <2>2 DEF PhaseOf
<1> HIDE DEF n, pl
<1>7. Lock!Submit(n, pl)
  BY <1>3, <1>4, <1>5, <1>6 DEF Lock!Submit, PhaseOf, PlaceOf
<1> QED
  BY <1>1, <1>2, <1>7 DEF Lock!Next, Lock!Places

\* EnvironmentLock brings its own copy of the standard definition.
LEMMA LockCardinality ==
  ASSUME NEW S PROVE Lock!Cardinality(S) = Cardinality(S)
BY Zenon DEF Cardinality, Lock!Cardinality

\* ClaimNext maps to Acquire: its environment is free, its class has a slot.
LEMMA LockAcquire ==
  ASSUME QueueInv, QueueInv', NEW r \in Runs, ClaimNext(r)
  PROVE  Lock!Next
<1>1. /\ state[r] = "queued" /\ UNCHANGED req
      /\ state' = [state EXCEPT ![r] = "preparing"] /\ state \in [Runs -> RunStates \cup {"absent"}]
  BY DEF ClaimNext, Claimable, rowVars, QueueInv, TypeOK
<1>2. PhaseOf[r] = "waiting" /\ PlaceOf' = PlaceOf
  BY <1>1 DEF PhaseOf, Phase, PlaceOf
<1>3. \A s \in Runs : PhaseOf[s] = "owned" <=> Leased(s)
  BY DEF QueueInv, LeaseMirrorsRun, PhaseOf, Phase, LeasedStates
<1>4. \A s \in Runs : PhaseOf[s] = "owned" => PlaceOf[s].env # PlaceOf[r].env
  BY <1>3 DEF PlaceOf, ClaimNext, Claimable, EnvironmentFree
<1>5. {s \in Runs : PhaseOf[s] = "owned" /\ PlaceOf[s].class = PlaceOf[r].class}
        = HeldSlots(req[r].class)
  BY <1>3 DEF PlaceOf, HeldSlots
<1>6. Cardinality(HeldSlots(req[r].class)) < Budget[req[r].class]
  BY DEF ClaimNext, Claimable
<1>7. PhaseOf' = [PhaseOf EXCEPT ![r] = "owned"]
  BY <1>1 DEF PhaseOf, Phase, LeasedStates
<1>8. PlaceOf[r].class = req[r].class
  BY DEF PlaceOf
<1>9. Lock!Acquire(r)
  BY <1>2, <1>4, <1>5, <1>6, <1>7, <1>8, LockCardinality
     DEF Lock!Acquire, Lock!Owned, PhaseOf, PlaceOf
<1> QED
  BY <1>9 DEF Lock!Next

\* A step that moves one submitted run to a terminal state finishes it; one
\* that keeps it between leased states is a stutter.
LEMMA LockFinish ==
  ASSUME QueueInv, UNCHANGED req, NEW r \in Runs, NEW to,
         state' = [state EXCEPT ![r] = to],
         \/ state[r] = "queued" /\ to \in TerminalStates
         \/ state[r] \in LeasedStates /\ to \in LeasedStates \cup TerminalStates
  PROVE  [Lock!Next]_(Lock!vars)
<1>1. PlaceOf' = PlaceOf /\ state \in [Runs -> RunStates \cup {"absent"}]
  BY DEF PlaceOf, QueueInv, TypeOK
<1>2. CASE to \in TerminalStates
  <2>1. PhaseOf' = [PhaseOf EXCEPT ![r] = "done"]
    BY <1>1, <1>2 DEF PhaseOf, Phase, LeasedStates, TerminalStates
  <2>2. PhaseOf[r] \in {"waiting", "owned"}
    BY DEF PhaseOf, Phase, LeasedStates
  <2>3. Lock!Finish(r)
    BY <1>1, <2>1, <2>2 DEF Lock!Finish, PhaseOf, PlaceOf
  <2> QED
    BY <2>3 DEF Lock!Next
<1>3. CASE to \in LeasedStates /\ state[r] \in LeasedStates
  <2>1. PhaseOf' = PhaseOf
    BY <1>1, <1>3 DEF PhaseOf, Phase, LeasedStates
  <2> QED
    BY <1>1, <2>1 DEF Lock!vars, PhaseOf, PlaceOf
<1> QED
  BY <1>2, <1>3 DEF TerminalStates, LeasedStates

\* Every store operation maps to a step of EnvironmentLock or to a stutter.
LEMMA LockNext == QueueInv /\ QueueInv' /\ [Next]_queueVars => [Lock!Next]_(Lock!vars)
<1> SUFFICES ASSUME QueueInv, QueueInv', [Next]_queueVars PROVE [Lock!Next]_(Lock!vars)
  OBVIOUS
<1>0. TypeOK
  BY DEF QueueInv
<1>1. CASE UNCHANGED <<state, req>>
  BY <1>1 DEF Lock!vars, Phase
<1>2. CASE Enqueue
  BY <1>2, LockSubmit, QueueAssumption DEF Enqueue
<1>3. ASSUME NEW r \in Runs, Retry(r) PROVE Lock!Next
  BY <1>0, <1>3, LockSubmit, RetryRequestType DEF Retry
<1>4. ASSUME NEW r \in Runs, ClaimNext(r) PROVE Lock!Next
  BY <1>4, LockAcquire
<1>5. ASSUME NEW r \in Runs, RequestCancellation(r) PROVE [Lock!Next]_(Lock!vars)
  <2>1. UNCHANGED req /\ state[r] \in {"queued", "preparing", "running", "verifying"}
    BY <1>0, <1>5, TransitionFacts DEF RequestCancellation, CanTransitionRun, rowVars,
       QueueInv, TypeOK, RowsAllocated
  <2>2. CASE state[r] = "queued"
    <3>1. state' = [state EXCEPT ![r] = "cancelled"]
      BY <1>5, <2>2 DEF RequestCancellation
    <3> QED
      BY <2>1, <2>2, <3>1, LockFinish DEF TerminalStates
  <2>3. CASE state[r] # "queued"
    <3>1. state' = [state EXCEPT ![r] = "cancelling"]
      BY <1>5, <2>1, <2>3 DEF RequestCancellation
    <3> QED
      BY <2>1, <2>3, <3>1, LockFinish DEF LeasedStates
  <2> QED
    BY <2>2, <2>3
<1>6. ASSUME NEW r \in Runs, NEW t \in 1..tokens, NEW to \in RunStates, TransitionRun(r, t, to)
      PROVE  [Lock!Next]_(Lock!vars)
  <2>1. Leased(r)
    BY <1>6 DEF TransitionRun, LeaseHeld, Leased, NoLease
  <2>2. state[r] \in LeasedStates
    BY <2>1 DEF QueueInv, LeaseMirrorsRun
  <2>3. to \in LeasedStates \cup TerminalStates
    BY <1>6, <2>2, TransitionFacts DEF TransitionRun, CanTransitionRun
  <2> QED
    BY <1>6, <2>2, <2>3, LockFinish DEF TransitionRun, rowVars
<1>7. \/ UNCHANGED <<state, req>>
      \/ Enqueue
      \/ \E r \in Runs : Retry(r) \/ ClaimNext(r) \/ RequestCancellation(r)
      \/ \E r \in Runs, t \in 1..tokens, to \in RunStates : TransitionRun(r, t, to)
  BY DEF Next, queueVars, rowVars, Tick, ReclaimExpiredLease, Heartbeat, GuardedWrite
<1> QED
  BY <1>1, <1>2, <1>3, <1>4, <1>5, <1>6, <1>7

\* The store's queue, with its clock, tokens and transition table, implements
\* the exclusive, bounded, one-way ownership that EnvironmentLock promises.
THEOREM QueueImplementsLock == Spec => ImplementsEnvironmentLock
BY LockInit, LockNext, Invariance, PTL DEF Spec, ImplementsEnvironmentLock, Lock!Spec

===========================================================================
