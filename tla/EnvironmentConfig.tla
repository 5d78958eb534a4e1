------------------------- MODULE EnvironmentConfig -------------------------
(***************************************************************************)
(* The desired configuration of one environment and the inputs of its runs *)
(* (deploy/configuration_store.go, the secret boundary of                  *)
(* deploy/planning_store.go, the snapshots of orchestration_store.go and   *)
(* api/handlers_deploy_configuration.go).                                  *)
(*                                                                         *)
(* Every write is one transaction: it compares the revision the editor saw *)
(* with the desired revision, copies the plan rows to the next one and     *)
(* moves the pointer.  Variables and dependencies are not numbered with    *)
(* the plan; they are rewritten in the same transaction.  A run records a  *)
(* plan revision and a copy of the variables and dependencies.  Variables  *)
(* are [value, secret, scopes]; values are those of PlanModel.             *)
(***************************************************************************)
EXTENDS PlanModel, Integers, Sequences

CONSTANTS
  VarNames,     \* variable names
  VarValues,    \* what a client may write: [value, secret, scopes]
  PlanInputs,   \* what a client may save: [tasks, strategy, deps]
  Editors,      \* edit requests in flight
  RunIds,       \* runs that may be enqueued
  MaxDesired,   \* bound: desired revisions
  MaxOwned      \* bound: values a referenced credential takes

ASSUME ConfigAssumption == MaxDesired \in Nat /\ MaxOwned \in Nat

VARIABLES
  desired,    \* deploy_environments.desired_revision
  planRow,    \* planRow[n]: build and runtime plan rows of revision n
  active,     \* the active variables: a function from some names
  deps,       \* the dependencies and checks in force
  history,    \* history[n]: variables and dependencies when n became desired
  edit,       \* edit[e]: an edit request under way
  runIn,      \* runIn[r]: the inputs of run r
  liveRun,    \* the run of the live release, 0 when there is none
  owned       \* the value behind a credential reference, kept by its owner

configVars == <<desired, planRow, active, deps, history, edit, runIn, liveRun, owned>>

Generated == [kind |-> "literal", target |-> "generated"]
Unset == [value |-> [kind |-> "literal", target |-> ""], secret |-> FALSE, scopes |-> {}]
FirstPlan == [tasks |-> {}, strategy |-> "stop_first"]
NoEdit == [step |-> "idle", op |-> "none", revision |-> 0, vars |-> <<>>, plan |-> FirstPlan, deps |-> 0]
NoInputs == [step |-> "none", plan |-> 0, vars |-> <<>>, deps |-> 0, copy |-> 0, opened |-> <<>>]

ConfigInit ==
  /\ desired = 1 /\ planRow = <<FirstPlan>> /\ active = <<>> /\ deps = 0
  /\ history = <<[vars |-> <<>>, deps |-> 0]>>
  /\ edit = [e \in Editors |-> NoEdit]
  /\ runIn = [r \in RunIds |-> NoInputs]
  /\ liveRun = 0 /\ owned = 1

Values(vars) == [v \in DOMAIN vars |-> vars[v].value]

---------------------------------------------------------------------------
(* Edits.                                                                  *)

\* A browser sends an edit of the configuration as it shows it.
SendEdit(e, op, vars, plan, d) ==
  /\ edit[e].step = "idle" /\ desired < MaxDesired
  /\ edit' = [edit EXCEPT ![e] = [step |-> "sent", op |-> op, revision |-> desired,
                                  vars |-> vars, plan |-> plan, deps |-> d]]
  /\ UNCHANGED <<desired, planRow, active, deps, history, runIn, liveRun, owned>>

EditDone(e) == edit' = [edit EXCEPT ![e] = NoEdit]

\* validateVariableWrite: some scope, and what stands for a secret is one.
validateVariableWrite(w) ==
  w.scopes # {} /\ (w.value.kind \in {"credential", "database"} => w.secret)

\* Faulty variant: any revision will do.
AtRevision_Any(e) == edit[e].revision <= desired

\* advanceDesiredRevisionTx: the editor's revision must be the desired one.
AtRevision(e) == edit[e].revision = desired

\* The next revision, with the plan rows copied or replaced.
advanceDesiredRevisionTx(plan, vars, d) ==
  /\ desired' = desired + 1
  /\ planRow' = Append(planRow, plan)
  /\ active' = vars /\ deps' = d
  /\ history' = Append(history, [vars |-> vars, deps |-> d])

\* writeVariableRevisionTx: the new revision is the active one of its name.
writeVariableRevisionTx(vars, written) ==
  [v \in DOMAIN vars \cup DOMAIN written |-> IF v \in DOMAIN written THEN written[v] ELSE vars[v]]

\* One transaction of an edit of variables; nothing is written unless the
\* references of what would be active resolve.
WriteVariables(e, vars) ==
  /\ edit[e].step = "sent"
  /\ IF AtRevision(e) /\ ResolveVariableGraph(Values(vars))
     THEN advanceDesiredRevisionTx(planRow[desired], vars, deps)
     ELSE UNCHANGED <<desired, planRow, active, deps, history>>
  /\ EditDone(e)
  /\ UNCHANGED <<runIn, liveRun, owned>>

PutVariable(e) ==
  /\ edit[e].op = "put"
  /\ \A v \in DOMAIN edit[e].vars : validateVariableWrite(edit[e].vars[v])
  /\ WriteVariables(e, writeVariableRevisionTx(active, edit[e].vars))

\* ImportDotenv writes every name of the file in one transaction.
ImportDotenv(e) ==
  /\ edit[e].op = "import"
  /\ WriteVariables(e, writeVariableRevisionTx(active, edit[e].vars))

\* RotateVariable looks the variable up outside the transaction: only a
\* secret is rotated, in the scopes it has; GenerateVariable then puts it.
RotateVariable(e) ==
  /\ edit[e].step = "sent" /\ edit[e].op = "rotate"
  /\ \E v \in DOMAIN edit[e].vars :
       IF v \in DOMAIN active /\ active[v].secret
       THEN edit' = [edit EXCEPT ![e].op = "put",
              ![e].vars = [w \in {v} |->
                 [value |-> Generated, secret |-> TRUE, scopes |-> active[v].scopes]]]
       ELSE EditDone(e)
  /\ UNCHANGED <<desired, planRow, active, deps, history, runIn, liveRun, owned>>

\* Faulty variant: what still refers to the variable is not looked at.
DeleteVariable_Unchecked(e) ==
  /\ edit[e].step = "sent" /\ edit[e].op = "delete"
  /\ IF AtRevision(e)
     THEN advanceDesiredRevisionTx(planRow[desired],
            [v \in DOMAIN active \ DOMAIN edit[e].vars |-> active[v]], deps)
     ELSE UNCHANGED <<desired, planRow, active, deps, history>>
  /\ EditDone(e)
  /\ UNCHANGED <<runIn, liveRun, owned>>

\* DeleteVariable: the graph is validated without it, as after any write.
DeleteVariable(e) ==
  /\ edit[e].op = "delete"
  /\ WriteVariables(e, [v \in DOMAIN active \ DOMAIN edit[e].vars |-> active[v]])

\* SaveEnvironmentConfiguration lists the variables before its transaction
\* and validates the configuration against that list,
ListVariables(e) ==
  /\ edit[e].step = "sent" /\ edit[e].op = "save"
  /\ IF \A v \in edit[e].plan.tasks : v \in DOMAIN active /\ "release_task" \in active[v].scopes
     THEN edit' = [edit EXCEPT ![e].step = "listed"]
     ELSE EditDone(e)
  /\ UNCHANGED <<desired, planRow, active, deps, history, runIn, liveRun, owned>>

\* then writes the plan rows, the dependencies and the checks.
SaveEnvironmentConfiguration(e) ==
  /\ edit[e].step = "listed"
  /\ IF AtRevision(e)
     THEN advanceDesiredRevisionTx(edit[e].plan, active, edit[e].deps)
     ELSE UNCHANGED <<desired, planRow, active, deps, history>>
  /\ EditDone(e)
  /\ UNCHANGED <<runIn, liveRun, owned>>

\* The owner of a referenced credential or database replaces its value.
OwnerRotates ==
  /\ owned < MaxOwned /\ owned' = owned + 1
  /\ UNCHANGED <<desired, planRow, active, deps, history, edit, runIn, liveRun>>

---------------------------------------------------------------------------
(* Runs.                                                                   *)

\* enqueueNormalizedDeployment reads the revision to deploy, or takes the one
\* of the release to deploy again, and the run whose inputs to copy,
EnvironmentExecutionTarget(r, copy) ==
  /\ runIn[r].step = "none"
  /\ copy # 0 => runIn[copy].step = "done"
  /\ runIn' = [runIn EXCEPT ![r] = [NoInputs EXCEPT !.step = "targeted", !.copy = copy,
                 !.plan = IF copy = 0 THEN desired ELSE runIn[copy].plan]]
  /\ UNCHANGED <<desired, planRow, active, deps, history, edit, liveRun, owned>>

\* Faulty variant: a retry takes the variables active now.
snapshotRunVariablesTx_Active(r) == active

\* snapshotRunVariablesTx: the active variables, or those of the run copied.
snapshotRunVariablesTx(r) == IF runIn[r].copy = 0 THEN active ELSE runIn[runIn[r].copy].vars

\* snapshotRunPlanInputsTx: the same for dependencies and checks.
snapshotRunPlanInputsTx(r) == IF runIn[r].copy = 0 THEN deps ELSE runIn[runIn[r].copy].deps

\* and Enqueue, a transaction of its own, freezes them.
EnqueueRun(r) ==
  /\ runIn[r].step = "targeted"
  /\ runIn' = [runIn EXCEPT ![r].step = "queued", ![r].vars = snapshotRunVariablesTx(r),
                            ![r].deps = snapshotRunPlanInputsTx(r)]
  /\ UNCHANGED <<desired, planRow, active, deps, history, edit, liveRun, owned>>

\* What a literal or the end of a chain of references is opened as.
resolveScopedVariableValues(vars, scope) ==
  LET leaf[v \in DOMAIN vars] ==
        IF vars[v].value.kind = "variable" THEN leaf[vars[v].value.target]
        ELSE IF vars[v].value.kind \in {"credential", "database"} THEN <<"owned", owned>>
        ELSE <<vars[v].value.target, 0>>
  IN  [v \in {w \in DOMAIN vars : scope \in vars[w].scopes} |-> leaf[v]]

\* A step of the run opens the variables of its scope.
OpenRunScopedVariables(r, scope) ==
  /\ runIn[r].step = "queued" /\ Len(runIn[r].opened) < 2
  /\ runIn' = [runIn EXCEPT ![r].opened =
                 Append(@, [scope |-> scope, values |-> resolveScopedVariableValues(runIn[r].vars, scope)])]
  /\ UNCHANGED <<desired, planRow, active, deps, history, edit, liveRun, owned>>

\* The run ends; when it activated its release, that is the live one.
RunEnds(r) ==
  /\ runIn[r].step = "queued"
  /\ runIn' = [runIn EXCEPT ![r].step = "done"]
  /\ liveRun' \in {liveRun, r}
  /\ UNCHANGED <<desired, planRow, active, deps, history, edit, owned>>

---------------------------------------------------------------------------
(* What the page shows as not yet deployed.  The digest of a variable is   *)
(* that of its value: neither its scopes nor its sensitivity is part of it. *)

\* Names that are new, gone, or have another digest.
diffNamedDigests(before, after) ==
  {v \in DOMAIN before \cup DOMAIN after :
     ~(v \in DOMAIN before \cap DOMAIN after /\ before[v] = after[v])}

PendingChanges ==
  LET live == runIn[liveRun] IN
  diffNamedDigests(Values(live.vars), Values(active))
    \cup (IF planRow[live.plan] # planRow[desired] THEN {"plan"} ELSE {})
    \cup (IF live.deps # deps THEN {"dependencies and checks"} ELSE {})

\* Faulty variant: only the digests are compared.
PendingState_DigestsOnly == liveRun = 0 \/ PendingChanges # {}

PendingState == liveRun = 0 \/ runIn[liveRun].plan # desired \/ PendingChanges # {}

---------------------------------------------------------------------------
ConfigNext ==
  \/ \E e \in Editors :
       \/ \E v \in VarNames, w \in VarValues : SendEdit(e, "put", [x \in {v} |-> w], FirstPlan, 0)
       \/ \E v \in VarNames, op \in {"rotate", "delete"} :
            SendEdit(e, op, [x \in {v} |-> Unset], FirstPlan, 0)
       \/ \E w \in VarValues : SendEdit(e, "import", [x \in VarNames |-> w], FirstPlan, 0)
       \/ \E p \in PlanInputs : SendEdit(e, "save", <<>>, [tasks |-> p.tasks, strategy |-> p.strategy], p.deps)
       \/ PutVariable(e) \/ ImportDotenv(e) \/ RotateVariable(e) \/ DeleteVariable(e)
       \/ ListVariables(e) \/ SaveEnvironmentConfiguration(e)
  \/ OwnerRotates
  \/ \E r \in RunIds :
       \/ \E copy \in {0} \cup RunIds : EnvironmentExecutionTarget(r, copy)
       \/ EnqueueRun(r)
       \/ \E scope \in {"build", "release_task"} : OpenRunScopedVariables(r, scope)
       \/ RunEnds(r)

ConfigSpec == ConfigInit /\ [][ConfigNext]_configVars

---------------------------------------------------------------------------
(* Properties.                                                             *)

\* The variables of the environment, and the ones any run froze, always
\* resolve: no edit, in whatever order edits of several people land, leaves a
\* cycle or a reference to a variable that is gone
\* (configuration_store.go validateActiveVariableGraphTx).
VariablesResolve ==
  /\ ResolveVariableGraph(Values(active))
  /\ \A r \in RunIds : runIn[r].step # "none" => ResolveVariableGraph(Values(runIn[r].vars))

\* A configuration is only ever replaced by somebody who saw it, and the
\* release tasks it brings name variables that are active as it is stored,
\* although they were looked up before the transaction
\* (configuration_store.go SaveEnvironmentConfiguration).
SavedAsSeen ==
  [][\A e \in Editors :
       edit[e].step \in {"sent", "listed"} /\ edit'[e].step = "idle" /\ desired' # desired =>
         /\ edit[e].revision = desired
         /\ edit[e].op = "save" =>
              \A v \in edit[e].plan.tasks : v \in DOMAIN active' /\ "release_task" \in active'[v].scopes
    ]_configVars

\* When nothing is shown as pending, the live release really was given the plan,
\* the variables with their scopes and the dependencies that are desired now,
\* however edits, runs and retries interleaved (PendingState).
NothingPendingMissed ==
  ~PendingState => /\ planRow[runIn[liveRun].plan] = planRow[desired]
                   /\ runIn[liveRun].vars = active /\ runIn[liveRun].deps = deps

Written ==
  VarValues \cup {Unset}
    \cup {[value |-> Generated, secret |-> TRUE, scopes |-> w.scopes] : w \in VarValues \cup {Unset}}
VariableSets == UNION {[D -> Written] : D \in SUBSET VarNames}
PlanRows == {FirstPlan} \cup {[tasks |-> p.tasks, strategy |-> p.strategy] : p \in PlanInputs}
Dependencies == {0} \cup {p.deps : p \in PlanInputs}
EditRequests ==
  [step : {"idle", "sent", "listed"}, op : {"none", "put", "import", "rotate", "delete", "save"},
   revision : Nat, vars : VariableSets, plan : PlanRows, deps : Dependencies]
\* Inputs of a run, whatever its steps have opened.
RunInputs(opened) ==
  [step : {"none", "targeted", "queued", "done"}, plan : Nat, vars : VariableSets,
   deps : Dependencies, copy : {0} \cup RunIds, opened : {opened}]
ConfigTypeOK ==
  /\ desired \in Nat \ {0} /\ owned \in Nat /\ active \in VariableSets /\ deps \in Dependencies
  /\ planRow \in Seq(PlanRows) /\ Len(planRow) = desired
  /\ history \in Seq([vars : VariableSets, deps : Dependencies]) /\ Len(history) = desired
  /\ edit \in [Editors -> EditRequests]
  /\ DOMAIN runIn = RunIds /\ \A r \in RunIds : runIn[r] \in RunInputs(runIn[r].opened)
  /\ liveRun \in {0} \cup RunIds

\* The inputs of a run that records the desired revision are those that are desired,
\* although the revision was read before they were frozen; what a retry copies is of
\* the revision it repeats (EnvironmentExecutionTarget, EnqueueRun).
InputsOfRevision ==
  /\ liveRun # 0 => runIn[liveRun].step = "done"
  /\ \A r \in RunIds :
       /\ runIn[r].plan <= desired
       /\ runIn[r].step = "targeted" /\ runIn[r].copy # 0 =>
            runIn[runIn[r].copy].step = "done" /\ runIn[runIn[r].copy].plan = runIn[r].plan
       /\ runIn[r].step \in {"queued", "done"} /\ runIn[r].plan = desired =>
            runIn[r].vars = active /\ runIn[r].deps = deps

\* What a save has found in the list of variables is so until the revision moves on.
TasksListed ==
  \A e \in Editors :
    /\ edit[e].revision <= desired
    /\ edit[e].step = "listed" => edit[e].op = "save"
    /\ edit[e].step = "listed" /\ edit[e].revision = desired =>
         \A v \in edit[e].plan.tasks : v \in DOMAIN active /\ "release_task" \in active[v].scopes

ConfigInv ==
  ConfigTypeOK /\ InputsOfRevision /\ TasksListed /\ VariablesResolve /\ NothingPendingMissed

\* The configuration of an environment as its editors may rely on it: it resolves,
\* nothing pending is hidden, and nobody overwrites what he has not seen.
ConfigKept == []ConfigInv /\ SavedAsSeen

\* What a run deploys is one saved revision: its plan, its variables and its
\* dependencies were all desired together (docs 09-frozen-contracts.md:49).
RunDeploysOneRevision ==
  \A r \in RunIds : runIn[r].step \in {"queued", "done"} =>
    history[runIn[r].plan] = [vars |-> runIn[r].vars, deps |-> runIn[r].deps]

\* Every step of a run opens the same values (planning_store.go:143-146).
RunInputsFixed ==
  \A r \in RunIds : \A i, j \in DOMAIN runIn[r].opened :
    LET a == runIn[r].opened[i].values
        b == runIn[r].opened[j].values
    IN  \A v \in DOMAIN a \cap DOMAIN b : a[v] = b[v]
=============================================================================
