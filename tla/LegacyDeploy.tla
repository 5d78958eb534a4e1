----------------------------- MODULE LegacyDeploy -----------------------------
(***************************************************************************)
(* Deployments from before the normalized model: the project row and its   *)
(* variables (deploy/store.go), the hook, run and rollback requests        *)
(* (api/handlers_deploy.go), the pipeline the engine runs for them         *)
(* (deploy/legacy_engine.go, deploy/deployer.go), and the migration that   *)
(* every start repeats (store/deploy_migration.go).                        *)
(*                                                                         *)
(* One project.  Its checkout and its stack belong to the host; commits    *)
(* are numbers, a branch points at one.  Runs of the older version have no *)
(* environment; the migration gives them one.  Of the engine only the rule *)
(* is kept that one run of the environment executes at a time, the         *)
(* highest priority first (module RunQueue).                               *)
(***************************************************************************)
EXTENDS Integers, Sequences, FiniteSets

CONSTANTS
  EnvKeys, EnvValues,   \* variables of the project
  Branches,             \* branches of the remote
  MaxCommit,            \* bound: commits pushed
  MaxLegacyRuns,        \* bound: run rows
  MaxRowEdits           \* bound: edits of the project and its variables

ASSUME LegacyAssumption == MaxCommit \in Nat \ {0} /\ Branches # {}

NoValue == "unset"
EnvMaps == [EnvKeys -> EnvValues \union {NoValue}]
EmptyEnv == [k \in EnvKeys |-> NoValue]

VARIABLES
  projectRow,   \* [method, archived, enabled, branch, secret]
  envRows,      \* deploy_env
  varRows,      \* deploy_variable_revisions, revision 1, of the environment
  rowEdits,     \* edits made so far
  remote,       \* branch -> commit
  checkout,     \* [head, env]: the working tree and its .env
  upStack,      \* [commit, env]: what the containers were built from
  legacyRuns,   \* run rows, in order of their ids
  legacyReleases, livePointer,
  pipeline,     \* the run that executes: [run, at, branch, env]
  hook          \* the hook request: [at, enabled, secret]

legacyVars == <<projectRow, envRows, varRows, rowEdits, remote, checkout, upStack, legacyRuns,
                legacyReleases, livePointer, pipeline, hook>>

NoPipeline == [run |-> 0, at |-> "idle", branch |-> "", env |-> EmptyEnv]
NoHook == [at |-> "none", enabled |-> FALSE, secret |-> 0]

RunRow(op, target, trigger) ==
  [state |-> "queued", op |-> op, target |-> target, trigger |-> trigger, method |-> projectRow.method,
   archived |-> projectRow.archived, from |-> 0, to |-> 0]

Enqueues(op, target, trigger) ==
  /\ Len(legacyRuns) < MaxLegacyRuns
  /\ legacyRuns' = Append(legacyRuns, RunRow(op, target, trigger))

Edits == rowEdits < MaxRowEdits /\ rowEdits' = rowEdits + 1

-----------------------------------------------------------------------------
(* The project row and the variables.                                      *)

\* The update writes the columns of the form; archived_at is not one of them.
handleDeployUpdate(branch, enabled) ==
  /\ Edits
  /\ projectRow' = [projectRow EXCEPT !.branch = branch, !.enabled = enabled]
  /\ UNCHANGED <<envRows, varRows, remote, checkout, upStack, legacyRuns, legacyReleases,
                 livePointer, pipeline, hook>>

\* Archiving disables the project and its triggers; runs, releases and resources stay.
Archive ==
  /\ Edits
  /\ projectRow' = [projectRow EXCEPT !.archived = TRUE, !.enabled = FALSE]
  /\ UNCHANGED <<envRows, varRows, remote, checkout, upStack, legacyRuns, legacyReleases,
                 livePointer, pipeline, hook>>

RotateSecret ==
  /\ Edits
  /\ projectRow' = [projectRow EXCEPT !.secret = @ + 1]
  /\ UNCHANGED <<envRows, varRows, remote, checkout, upStack, legacyRuns, legacyReleases,
                 livePointer, pipeline, hook>>

SetEnv(k, v) ==
  /\ Edits /\ envRows' = [envRows EXCEPT ![k] = v]
  /\ UNCHANGED <<projectRow, varRows, remote, checkout, upStack, legacyRuns, legacyReleases,
                 livePointer, pipeline, hook>>

DeleteEnv(k) ==
  /\ Edits /\ envRows' = [envRows EXCEPT ![k] = NoValue]
  /\ UNCHANGED <<projectRow, varRows, remote, checkout, upStack, legacyRuns, legacyReleases,
                 livePointer, pipeline, hook>>

\* Saving a normalized configuration changes the build method of the environment.
ConfigurationSaved ==
  /\ Edits
  /\ projectRow' = [projectRow EXCEPT !.method = "dockerfile"]
  /\ UNCHANGED <<envRows, varRows, remote, checkout, upStack, legacyRuns, legacyReleases,
                 livePointer, pipeline, hook>>

-----------------------------------------------------------------------------
(* Requests.                                                               *)

\* handleDeployRun runs the pipeline only for a legacy build method.
handleDeployRun ==
  /\ projectRow.method = "legacy_compose"
  /\ Enqueues("deploy", 0, "manual")
  /\ UNCHANGED <<projectRow, envRows, varRows, rowEdits, remote, checkout, upStack,
                 legacyReleases, livePointer, pipeline, hook>>

\* The commit is any the picker offered; the build method is not asked.
handleDeployRollback(commit) ==
  /\ Enqueues("rollback", commit, "rollback")
  /\ UNCHANGED <<projectRow, envRows, varRows, rowEdits, remote, checkout, upStack,
                 legacyReleases, livePointer, pipeline, hook>>

\* The hook finds the project, then compares the signature with the stored secret,
\* then looks at the row it found, then enqueues.
ByHookID(signedWith) ==
  /\ hook = NoHook
  /\ hook' = [at |-> "found", enabled |-> projectRow.enabled, secret |-> signedWith]
  /\ UNCHANGED <<projectRow, envRows, varRows, rowEdits, remote, checkout, upStack, legacyRuns,
                 legacyReleases, livePointer, pipeline>>

VerifySignature ==
  /\ hook.at = "found"
  /\ hook' = IF hook.secret = projectRow.secret /\ hook.enabled
             THEN [hook EXCEPT !.at = "verified"] ELSE NoHook
  /\ UNCHANGED <<projectRow, envRows, varRows, rowEdits, remote, checkout, upStack, legacyRuns,
                 legacyReleases, livePointer, pipeline>>

handleDeployWebhook ==
  /\ hook.at = "verified"
  /\ Enqueues("deploy", 0, "legacy_hook")
  /\ hook' = NoHook
  /\ UNCHANGED <<projectRow, envRows, varRows, rowEdits, remote, checkout, upStack,
                 legacyReleases, livePointer, pipeline>>

-----------------------------------------------------------------------------
(* The pipeline.                                                           *)

Queued == {r \in DOMAIN legacyRuns : legacyRuns[r].state = "queued"}
Urgent(r) == IF legacyRuns[r].op = "rollback" THEN 1 ELSE 0

\* LegacyStepExecutor.Execute reads the project when the run executes.
Execute(r) ==
  /\ pipeline = NoPipeline /\ r \in Queued
  /\ \A q \in Queued : Urgent(r) > Urgent(q) \/ (Urgent(r) = Urgent(q) /\ r <= q)
  /\ legacyRuns' = [legacyRuns EXCEPT ![r].state = "running", ![r].from = checkout.head]
  /\ pipeline' = [run |-> r, at |-> "reset", branch |-> projectRow.branch, env |-> EmptyEnv]
  /\ UNCHANGED <<projectRow, envRows, varRows, rowEdits, remote, checkout, upStack,
                 legacyReleases, livePointer, hook>>

\* git fetch, then a hard reset to the wanted commit or to the branch.
ResetRef ==
  LET target == legacyRuns[pipeline.run].target
  IN  IF target # 0 THEN target ELSE remote[pipeline.branch]

FetchAndReset ==
  /\ pipeline.at = "reset"
  /\ checkout' = [checkout EXCEPT !.head = ResetRef]
  /\ pipeline' = [pipeline EXCEPT !.at = "env"]
  /\ UNCHANGED <<projectRow, envRows, varRows, rowEdits, remote, upStack, legacyRuns,
                 legacyReleases, livePointer, hook>>

\* EnvMap, then writeEnvFile, which is not called when there are no variables.
WriteEnv ==
  /\ pipeline.at = "env"
  /\ pipeline' = [pipeline EXCEPT !.at = "compose", !.env = envRows]
  /\ checkout' = [checkout EXCEPT !.env = IF envRows = EmptyEnv THEN @ ELSE envRows]
  /\ UNCHANGED <<projectRow, envRows, varRows, rowEdits, remote, upStack, legacyRuns,
                 legacyReleases, livePointer, hook>>

\* docker compose takes the process environment first, then the .env file.  The
\* pre-command and the post-command change nothing that is modelled.
ComposeUp ==
  /\ pipeline.at = "compose"
  /\ upStack' = [commit |-> checkout.head,
                 env |-> [k \in EnvKeys |-> IF pipeline.env[k] # NoValue THEN pipeline.env[k]
                                            ELSE checkout.env[k]]]
  /\ pipeline' = [pipeline EXCEPT !.at = "post"]
  /\ UNCHANGED <<projectRow, envRows, varRows, rowEdits, remote, checkout, legacyRuns,
                 legacyReleases, livePointer, hook>>

\* A mutant: what is reported is the branch as it is by then.
EndsRun_Branch(state) ==
  /\ legacyRuns' = [legacyRuns EXCEPT ![pipeline.run].state = state,
                      ![pipeline.run].to = remote[pipeline.branch]]
  /\ pipeline' = NoPipeline
  /\ UNCHANGED <<projectRow, envRows, varRows, rowEdits, remote, checkout, upStack,
                 legacyReleases, livePointer, hook>>

EndsRun(state) ==
  /\ legacyRuns' = [legacyRuns EXCEPT ![pipeline.run].state = state,
                      ![pipeline.run].to = IF pipeline.at = "reset" THEN 0 ELSE checkout.head]
  /\ pipeline' = NoPipeline
  /\ UNCHANGED <<projectRow, envRows, varRows, rowEdits, remote, checkout, upStack,
                 legacyReleases, livePointer, hook>>

PipelinePasses == pipeline.at = "post" /\ EndsRun("succeeded")

\* A command fails or the run is cancelled: the error of a git command does not wrap
\* the cancellation, so that one is reported as a failure.
PipelineFails == pipeline # NoPipeline /\ EndsRun("failed")
PipelineCancelled == pipeline.at \in {"compose", "post"} /\ EndsRun("cancelled")

-----------------------------------------------------------------------------
(* The host and the older version.                                         *)

Push(branch) ==
  /\ \E c \in 1 .. MaxCommit :
       /\ \A b \in Branches : remote[b] < c
       /\ \E b \in Branches : remote[b] = c - 1
       /\ remote' = [remote EXCEPT ![branch] = c]
  /\ UNCHANGED <<projectRow, envRows, varRows, rowEdits, checkout, upStack, legacyRuns,
                 legacyReleases, livePointer, pipeline, hook>>

\* A run by the older version, before the upgrade or after a downgrade, has a
\* status and no environment.
OlderVersionRuns(status) ==
  /\ pipeline = NoPipeline /\ Len(legacyRuns) < MaxLegacyRuns
  /\ legacyRuns' = Append(legacyRuns, [RunRow("deploy", 0, "manual") EXCEPT !.state = status,
                                         !.to = remote[projectRow.branch]])
  /\ checkout' = IF status = "success" THEN [checkout EXCEPT !.head = remote[projectRow.branch]] ELSE checkout
  /\ UNCHANGED <<projectRow, envRows, varRows, rowEdits, remote, upStack, legacyReleases,
                 livePointer, pipeline, hook>>

-----------------------------------------------------------------------------
(* The migration: one transaction, at every start and after every create.  *)

OldStates == {"success", "failure", "interrupted"}
legacyRunStates(status) ==
  CASE status = "success" -> "succeeded" [] status = "failure" -> "failed" [] OTHER -> "running"

Unmigrated == {r \in DOMAIN legacyRuns : legacyRuns[r].state \in OldStates}

\* The successful ones, in order, each a retained release.
MigratedReleases ==
  LET passed == {r \in Unmigrated : legacyRuns[r].state = "success"}
      nth(i) == CHOOSE r \in passed : Cardinality({q \in passed : q < r}) = i - 1
  IN  [i \in 1 .. Cardinality(passed) |->
         [run |-> nth(i), state |-> "retained", revision |-> legacyRuns[nth(i)].to]]

\* Variables of the migration are revision 1; an existing one is left alone.
migrateLegacyVariables ==
  [k \in EnvKeys |-> IF varRows[k] = NoValue THEN envRows[k] ELSE varRows[k]]

BecomesLive == MigratedReleases # <<>> /\ livePointer = 0

migrateLegacyDeployments ==
  /\ pipeline = NoPipeline
  /\ varRows' = migrateLegacyVariables
  /\ legacyRuns' = [r \in DOMAIN legacyRuns |->
       IF r \in Unmigrated THEN [legacyRuns[r] EXCEPT !.state = legacyRunStates(@)] ELSE legacyRuns[r]]
  /\ LET all == legacyReleases \o MigratedReleases
     IN  IF BecomesLive
         THEN /\ legacyReleases' = [all EXCEPT ![Len(all)].state = "live"]
              /\ livePointer' = Len(all)
         ELSE legacyReleases' = all /\ UNCHANGED livePointer
  /\ UNCHANGED <<projectRow, envRows, rowEdits, remote, checkout, upStack, pipeline, hook>>

\* A run the migration left as running has no lease; the engine's start ends it.
EngineSettlesOrphan(r) ==
  /\ pipeline = NoPipeline /\ r \in DOMAIN legacyRuns /\ legacyRuns[r].state = "running"
  /\ legacyRuns' = [legacyRuns EXCEPT ![r].state = "failed"]
  /\ UNCHANGED <<projectRow, envRows, varRows, rowEdits, remote, checkout, upStack,
                 legacyReleases, livePointer, pipeline, hook>>

-----------------------------------------------------------------------------
LegacyInit ==
  /\ projectRow = [method |-> "legacy_compose", archived |-> FALSE, enabled |-> TRUE,
                   branch |-> CHOOSE b \in Branches : TRUE, secret |-> 1]
  /\ envRows = EmptyEnv /\ varRows = EmptyEnv /\ rowEdits = 0
  /\ remote = [b \in Branches |-> 1]
  /\ checkout = [head |-> 1, env |-> EmptyEnv] /\ upStack = [commit |-> 1, env |-> EmptyEnv]
  /\ legacyRuns = <<>> /\ legacyReleases = <<>> /\ livePointer = 0
  /\ pipeline = NoPipeline /\ hook = NoHook

LegacyNext ==
  \/ \E b \in Branches : (\E e \in BOOLEAN : handleDeployUpdate(b, e)) \/ Push(b)
  \/ Archive \/ RotateSecret \/ ConfigurationSaved
  \/ \E k \in EnvKeys : DeleteEnv(k) \/ \E v \in EnvValues : SetEnv(k, v)
  \/ handleDeployRun \/ \E c \in 1 .. checkout.head : handleDeployRollback(c)
  \/ \E s \in 1 .. projectRow.secret : ByHookID(s)
  \/ VerifySignature \/ handleDeployWebhook
  \/ \E r \in DOMAIN legacyRuns : Execute(r) \/ EngineSettlesOrphan(r)
  \/ FetchAndReset \/ WriteEnv \/ ComposeUp
  \/ PipelinePasses \/ PipelineFails \/ PipelineCancelled
  \/ \E s \in OldStates : OlderVersionRuns(s)
  \/ migrateLegacyDeployments

LegacySpec == LegacyInit /\ [][LegacyNext]_legacyVars

-----------------------------------------------------------------------------
(* Properties.                                                             *)

\* When a legacy run is reported as succeeded, the containers were built from the
\* commit it reports, and for a rollback that is the commit that was asked for,
\* whatever was pushed, edited or switched meanwhile (Deployer.pipeline).
PassedRunIsUp ==
  [][\A r \in DOMAIN legacyRuns :
       (legacyRuns[r].state = "running" /\ legacyRuns'[r].state = "succeeded")
         => /\ upStack'.commit = legacyRuns'[r].to
            /\ legacyRuns[r].target # 0 => legacyRuns'[r].to = legacyRuns[r].target]_legacyVars

\* However often the migration runs and whatever an older version did in between,
\* one release is live and the environment points at it (migrateLegacyProject).
OneLiveRelease ==
  \A i \in DOMAIN legacyReleases : legacyReleases[i].state = "live" <=> i = livePointer

LegacyStates == {"queued", "running", "succeeded", "failed", "cancelled"} \union OldStates
LegacyRows ==
  [state : LegacyStates, op : {"deploy", "rollback"}, target : Nat,
   trigger : {"manual", "rollback", "legacy_hook"}, method : {"legacy_compose", "dockerfile"},
   archived : BOOLEAN, from : Nat, to : Nat]
LegacyReleases == [run : Nat, state : {"retained", "live"}, revision : Nat]

LegacyTypeOK ==
  /\ projectRow \in [method : {"legacy_compose", "dockerfile"}, archived : BOOLEAN,
                     enabled : BOOLEAN, branch : Branches, secret : Nat]
  /\ {envRows, varRows} \subseteq EnvMaps /\ rowEdits \in Nat
  /\ remote \in [Branches -> Nat]
  /\ checkout \in [head : Nat, env : EnvMaps] /\ upStack \in [commit : Nat, env : EnvMaps]
  /\ legacyRuns \in Seq(LegacyRows)
  /\ legacyReleases \in Seq(LegacyReleases) /\ livePointer \in 0 .. Len(legacyReleases)
  /\ pipeline \in [run : Nat, at : {"idle", "reset", "env", "compose", "post"},
                   branch : Branches \union {""}, env : EnvMaps]
  /\ hook \in [at : {"none", "found", "verified"}, enabled : BOOLEAN, secret : Nat]

\* Where the pipeline is: one run executes, and nothing else moves the checkout or
\* the containers meanwhile, so what a step reached is there at the next.
PipelinePlace ==
  IF pipeline.at = "idle" THEN pipeline = NoPipeline
  ELSE /\ pipeline.branch \in Branches
       /\ pipeline.run \in DOMAIN legacyRuns /\ legacyRuns[pipeline.run].state = "running"
       /\ pipeline.at # "reset" =>
            legacyRuns[pipeline.run].target \in {0, checkout.head}
       /\ pipeline.at = "post" => upStack.commit = checkout.head

LegacyInv == LegacyTypeOK /\ PipelinePlace /\ OneLiveRelease

\* What the legacy pipeline and its migration report is what is up.
LegacyKept == []LegacyInv /\ PassedRunIsUp

\* A run that succeeded wrote the stored variables into .env (Deployer.Deploy).
EnvAsStored ==
  [][\A r \in DOMAIN legacyRuns :
       (legacyRuns[r].state = "running" /\ legacyRuns'[r].state = "succeeded")
         => checkout.env = pipeline.env]_legacyVars

\* The legacy pipeline runs for legacy build methods only (DeploymentStepExecutor).
LegacyOnlyForLegacy == \A r \in DOMAIN legacyRuns : legacyRuns[r].method = "legacy_compose"

\* Archiving disables every trigger: no hook starts a run of an archived project
\* (Store.Archive).
ArchivedStaysQuiet ==
  \A r \in DOMAIN legacyRuns : legacyRuns[r].trigger = "legacy_hook" => ~legacyRuns[r].archived
=============================================================================
