-------------------------- MODULE ReleasePreparation --------------------------
(***************************************************************************)
(* How a deployment run turns the source that was reviewed into a release, *)
(* and how old releases lose their artifacts again (deploy/source_adapters,*)
(* source_materializer, build_artifacts, normalized_executor, release_task,*)
(* release_store, docker_artifact_backend).                                *)
(*                                                                         *)
(* The identity of a source is a number: the commit, the digest of the     *)
(* image or of the Compose files.  An analysis records the identity the    *)
(* source has now; the branch, the registry tag and the operator's         *)
(* directory go on changing.  The run materializes the recorded identity   *)
(* in a workspace of its own, which a crash may leave half written; a      *)
(* restarted run repeats the interrupted step.  One environment is         *)
(* modelled, so one run at a time holds the lease.                         *)
(***************************************************************************)
EXTENDS Integers, Sequences, FiniteSets

CONSTANTS
  Modes,            \* the source modes in use
  keptReleases,     \* releases retention keeps: 6 in ArtifactRetentionPlan
  MaxPrepRuns,      \* bound: runs enqueued
  MaxIdentity,      \* bound: how often the branch or the directory changes
  MaxPrepCrashes    \* bound: restarts of the server

GitKinds == {"git", "local"}

ASSUME PreparationAssumption ==
  /\ Modes \subseteq (GitKinds \union {"compose_local", "paste", "image", "import"})
  /\ {keptReleases, MaxPrepRuns, MaxIdentity} \subseteq Nat \ {0}
  /\ MaxPrepCrashes \in Nat

VARIABLES
  head,       \* the identity the source has now, for every mode
  objects,    \* the commits in the managed mirror ("git") and in the checkout ("local")
  runPlan,    \* the runs enqueued: operation, plan and target release
  at,         \* the step a run has reached and how far it is in that step
  workspace,  \* the directory run-<id>: what it holds and what its marker says
  prepared,   \* the evidence of prepare_context and build_artifact
  images,     \* the images Docker holds: reference and digest
  releases,   \* the release rows with the state of their image artifact
  leased,     \* the run that holds the lease, or 0
  pruner,     \* the artifact cleanup in progress
  prepCrashes

prepVars == <<head, objects, runPlan, at, workspace, prepared, images, releases,
              leased, pruner, prepCrashes>>

PrepRuns == 1..Len(runPlan)
NoWorkspace == [exists |-> FALSE, content |-> 0, marker |-> 0]
NoPruner == [todo |-> {}, removing |-> 0]
LiveReleases == {i \in DOMAIN releases : releases[i].state = "live"}
\* Redeploy and rollback start at render_runtime (enqueueNormalizedDeployment).
DeploySteps == <<"resolve_source", "acquire_source", "analyze_plan", "prepare_context",
                 "build_artifact", "render_runtime", "release_task", "activate">>
StepsOf(op) == IF op = "deploy" THEN DeploySteps ELSE <<"render_runtime", "activate">>

PrepInit ==
  /\ head = [m \in Modes |-> 1]
  /\ objects = [m \in GitKinds |-> IF m = "local" THEN {1} ELSE {}]
  /\ runPlan = <<>> /\ at = <<>> /\ workspace = <<>> /\ prepared = <<>>
  /\ images = {} /\ releases = <<>> /\ leased = 0
  /\ pruner = NoPruner /\ prepCrashes = 0

-----------------------------------------------------------------------------
(* The world outside, and the analysis that records an identity.           *)

SourceChanges(m) ==
  /\ head[m] < MaxIdentity
  /\ head' = [head EXCEPT ![m] = @ + 1]
  /\ objects' = IF m = "local" THEN [objects EXCEPT ![m] = @ \union {head'[m]}] ELSE objects
  /\ UNCHANGED <<runPlan, at, workspace, prepared, images, releases, leased, pruner, prepCrashes>>

\* git gc, or the removal of the cache directory: older commits are lost.
ObjectsCollected(m) ==
  /\ ~(objects[m] \subseteq {head[m]})
  /\ objects' = [objects EXCEPT ![m] = @ \intersect {head[m]}]
  /\ UNCHANGED <<head, runPlan, at, workspace, prepared, images, releases, leased, pruner, prepCrashes>>

Enqueued(p) ==
  /\ runPlan' = Append(runPlan, p)
  /\ at' = Append(at, [step |-> 0, sub |-> "queued"])
  /\ workspace' = Append(workspace, NoWorkspace)
  /\ prepared' = Append(prepared, [context |-> FALSE, image |-> 0])

\* Analyze resolves the ref, refreshes the mirror and refuses a ref that moved
\* between ls-remote and fetch, so the identity is the one of one moment.
Analyze(m, tasks) ==
  /\ Len(runPlan) < MaxPrepRuns
  /\ objects' = IF m = "git" THEN [objects EXCEPT !["git"] = @ \union {head["git"]}] ELSE objects
  /\ Enqueued([op |-> "deploy", mode |-> m, identity |-> head[m], tasks |-> tasks, target |-> 0])
  /\ UNCHANGED <<head, images, releases, leased, pruner, prepCrashes>>

\* A redeploy names the live release and a rollback a retained one, at the
\* time of the request.
EnqueueTarget(op, i) ==
  /\ Len(runPlan) < MaxPrepRuns
  /\ releases[i].state = (IF op = "redeploy" THEN "live" ELSE "retained")
  /\ Enqueued([runPlan[releases[i].run] EXCEPT !.op = op, !.target = i])
  /\ UNCHANGED <<head, objects, images, releases, leased, pruner, prepCrashes>>

-----------------------------------------------------------------------------
(* The steps of a run.                                                     *)

StepOf(r) == StepsOf(runPlan[r].op)[at[r].step]
In(r, step, sub) == leased = r /\ at[r].sub = sub /\ at[r].step > 0 /\ StepOf(r) = step
NextPrepStep(r) == [at EXCEPT ![r] = [step |-> at[r].step + 1, sub |-> "begin"]]
Within(r, sub) == [at EXCEPT ![r].sub = sub]
Ended(r) == at' = Within(r, "ended") /\ leased' = 0
Removed(r) == [workspace EXCEPT ![r] = NoWorkspace]

\* One lease for the environment, the oldest run first.
TakeRun(r) ==
  /\ leased = 0
  /\ at[r].sub = "queued"
  /\ \A o \in 1..(r - 1) : at[o].sub # "queued"
  /\ leased' = r
  /\ at' = NextPrepStep(r)
  /\ UNCHANGED <<head, objects, runPlan, workspace, prepared, images, releases, pruner, prepCrashes>>

\* validateImmutableExecutionSource: an observed import has no source to build.
ResolveSource(r) ==
  /\ In(r, "resolve_source", "begin")
  /\ \/ runPlan[r].mode # "import" /\ at' = NextPrepStep(r) /\ UNCHANGED leased
     \/ runPlan[r].mode = "import" /\ Ended(r)
  /\ UNCHANGED <<head, objects, runPlan, workspace, prepared, images, releases, pruner, prepCrashes>>

MaterializingSteps == {"acquire_source", "prepare_context", "release_task"}
Materializing(r, sub) == \E s \in MaterializingSteps : In(r, s, sub)

sameMaterializedIdentity_NoMarker(w, p) == w.exists /\ p.identity # 0

\* The marker is the last file written; a workspace whose marker names the
\* recorded source is taken as it is, any other is removed and made again.
sameMaterializedIdentity(w, p) == w.exists /\ w.marker = p.identity

Materialize(r) ==
  /\ Materializing(r, "begin")
  /\ LET same == sameMaterializedIdentity(workspace[r], runPlan[r])
     IN  /\ at' = Within(r, IF same THEN "work" ELSE "fetch")
         /\ workspace' = IF same THEN workspace
                         ELSE [workspace EXCEPT ![r] = [NoWorkspace EXCEPT !.exists = TRUE]]
  /\ UNCHANGED <<head, objects, runPlan, prepared, images, releases, leased, pruner, prepCrashes>>

GitContents_AnyRevision(p) ==
  IF p.identity \in objects[p.mode] THEN {p.identity}
  ELSE IF p.mode = "git" THEN {head["git"]} ELSE {}

\* materializeRemoteGit clones the recorded commit from the mirror; a commit the
\* mirror has lost is fetched through its ref, and a ref that moved is refused.
GitContents(p) ==
  IF p.identity \in objects[p.mode] THEN {p.identity}
  ELSE IF p.mode = "git" /\ head["git"] = p.identity THEN {p.identity} ELSE {}

\* copyContainedTree takes the directory as it is now.
FetchedContents(p) ==
  CASE p.mode \in GitKinds -> GitContents(p)
    [] p.mode = "compose_local" -> {head["compose_local"]}
    [] p.mode \in {"paste", "image"} -> {p.identity}
    [] OTHER -> {}

MaterializeContent(r) ==
  /\ Materializing(r, "fetch")
  /\ \E c \in FetchedContents(runPlan[r]) :
        /\ workspace' = [workspace EXCEPT ![r].content = c]
        /\ objects' = IF runPlan[r].mode = "git"
                      THEN [objects EXCEPT !["git"] = @ \union {c}] ELSE objects
  /\ at' = Within(r, "mark")
  /\ UNCHANGED <<head, runPlan, prepared, images, releases, leased, pruner, prepCrashes>>

MaterializeMarker(r) ==
  /\ Materializing(r, "mark")
  /\ workspace' = [workspace EXCEPT ![r].marker = runPlan[r].identity]
  /\ at' = Within(r, "work")
  /\ UNCHANGED <<head, objects, runPlan, prepared, images, releases, leased, pruner, prepCrashes>>

\* Every failing return of Materialize removes the workspace and fails the step.
MaterializeFails(r) ==
  /\ Materializing(r, "fetch") \/ Materializing(r, "mark")
  /\ workspace' = Removed(r)
  /\ Ended(r)
  /\ UNCHANGED <<head, objects, runPlan, prepared, images, releases, pruner, prepCrashes>>

AcquireSource(r) ==
  /\ In(r, "acquire_source", "work")
  /\ at' = NextPrepStep(r)
  /\ UNCHANGED <<head, objects, runPlan, workspace, prepared, images, releases, leased, pruner, prepCrashes>>

\* The preflight of the recorded plan, whose findings PlanModel computes: a
\* blocked one ends the run and leaves the workspace where it is.
AnalyzePlan(r) ==
  /\ In(r, "analyze_plan", "begin")
  /\ \/ at' = NextPrepStep(r) /\ UNCHANGED leased
     \/ Ended(r)
  /\ UNCHANGED <<head, objects, runPlan, workspace, prepared, images, releases, pruner, prepCrashes>>

PrepareContext(r) ==
  /\ In(r, "prepare_context", "work")
  /\ \/ /\ at' = NextPrepStep(r)
        /\ prepared' = [prepared EXCEPT ![r].context = TRUE]
        /\ UNCHANGED <<workspace, leased>>
     \/ Ended(r) /\ workspace' = Removed(r) /\ UNCHANGED prepared
  /\ UNCHANGED <<head, objects, runPlan, images, releases, pruner, prepCrashes>>

\* An image source is pulled by digest and keeps its repository's reference; a
\* build reads the workspace and gets the tag of its run.
Built(r) ==
  IF runPlan[r].mode = "image" THEN [ref |-> 0, digest |-> runPlan[r].identity]
  ELSE [ref |-> r, digest |-> workspace[r].content]

BuildArtifact(r) ==
  /\ In(r, "build_artifact", "begin")
  /\ \/ /\ prepared[r].context /\ workspace[r].exists
        /\ images' = {i \in images : i.ref # Built(r).ref \/ i.ref = 0} \union {Built(r)}
        /\ prepared' = [prepared EXCEPT ![r].image = Built(r).digest]
        /\ at' = NextPrepStep(r)
        /\ UNCHANGED <<workspace, leased>>
     \/ Ended(r) /\ workspace' = Removed(r) /\ UNCHANGED <<images, prepared>>
  /\ UNCHANGED <<head, objects, runPlan, releases, pruner, prepCrashes>>

Row(r, image, of) == [run |-> r, of |-> of, image |-> image, state |-> "candidate",
                      row |-> "available"]
OwnRelease(r) == {i \in DOMAIN releases : releases[i].run = r}

\* CreateCandidateRelease returns the release a run already owns.
RenderRuntime(r) ==
  /\ In(r, "render_runtime", "begin")
  /\ runPlan[r].op = "deploy"
  /\ releases' = IF OwnRelease(r) # {} THEN releases
                 ELSE Append(releases, Row(r, [ref |-> Built(r).ref, digest |-> prepared[r].image], r))
  /\ at' = NextPrepStep(r)
  /\ UNCHANGED <<head, objects, runPlan, workspace, prepared, images, leased, pruner, prepCrashes>>

\* CloneCandidateRelease copies the artifacts of a live or retained release, all
\* of which must still be available.
Clone(r) ==
  /\ In(r, "render_runtime", "begin")
  /\ runPlan[r].op # "deploy"
  /\ LET target == releases[runPlan[r].target]
     IN  IF target.state \in {"live", "retained"} /\ target.row = "available"
         THEN /\ releases' = Append(releases, Row(r, target.image, target.of))
              /\ at' = NextPrepStep(r) /\ UNCHANGED leased
         ELSE Ended(r) /\ UNCHANGED releases
  /\ UNCHANGED <<head, objects, runPlan, workspace, prepared, images, pruner, prepCrashes>>

\* The tasks run in the workspace, which is removed whatever their outcome; a
\* workspace that cannot be removed fails the run.
ReleaseTasks(r) ==
  /\ In(r, "release_task", "work")
  /\ \/ workspace' = Removed(r) /\ at' = NextPrepStep(r) /\ UNCHANGED leased
     \/ runPlan[r].tasks /\ workspace' = Removed(r) /\ Ended(r)
     \/ UNCHANGED workspace /\ Ended(r)
  /\ UNCHANGED <<head, objects, runPlan, prepared, images, releases, pruner, prepCrashes>>

\* The steps from backup_gate to notify, which module Activation details: the
\* candidate is live and its predecessor retained, or the run fails and the row
\* stays a candidate: no statement ever gives a release the state failed.
Activate(r) ==
  /\ In(r, "activate", "begin")
  /\ \/ /\ \E i \in OwnRelease(r) : releases[i].image \in images
        /\ releases' = [i \in DOMAIN releases |->
             IF releases[i].run = r THEN [releases[i] EXCEPT !.state = "live"]
             ELSE IF releases[i].state = "live" THEN [releases[i] EXCEPT !.state = "retained"]
             ELSE releases[i]]
     \/ UNCHANGED releases
  /\ Ended(r)
  /\ UNCHANGED <<head, objects, runPlan, workspace, prepared, images, pruner, prepCrashes>>

\* A cancellation is seen between the steps; the workspace stays.
CancelPrep(r) ==
  /\ leased = r /\ at[r].sub = "begin"
  /\ StepOf(r) # "activate"
  /\ Ended(r)
  /\ UNCHANGED <<head, objects, runPlan, workspace, prepared, images, releases, pruner, prepCrashes>>

\* NormalizedStepReconciler after a restart: the steps up to build_artifact
\* and an unfinished render_runtime are repeated, the others fail.  The
\* artifact cleanup of the old process is gone.
CrashPrep ==
  /\ prepCrashes < MaxPrepCrashes
  /\ prepCrashes' = prepCrashes + 1
  /\ pruner' = NoPruner
  /\ \/ leased = 0 /\ UNCHANGED <<at, leased, releases>>
     \/ /\ leased # 0 /\ StepOf(leased) \notin {"release_task", "activate"}
        /\ at' = Within(leased, "begin")
        /\ UNCHANGED <<leased, releases>>
     \/ /\ leased # 0 /\ StepOf(leased) \in {"release_task", "activate"}
        /\ Ended(leased)
        /\ UNCHANGED releases
  /\ UNCHANGED <<head, objects, runPlan, workspace, prepared, images>>

-----------------------------------------------------------------------------
(* Retention.                                                              *)

InPlan(i) == releases[i].row \in {"available", "prune_failed"}
Successful(i) == releases[i].state \in {"live", "retained"}
\* The rank of a successful release, the newest having rank 1.
successRank_AllReleases(i) == Cardinality({j \in DOMAIN releases : j >= i /\ InPlan(j)})

successRank(i) == Cardinality({j \in DOMAIN releases : j >= i /\ InPlan(j) /\ Successful(j)})


Retained(i) ==
  \/ leased # 0
  \/ releases[i].state \in {"live", "candidate"}
  \/ Successful(i) /\ successRank(i) <= keptReleases

SamePhysical(i, j) == releases[i].image.digest = releases[j].image.digest

\* PruneArtifacts reads the plan once; an artifact whose image a retained row
\* shares is kept.
ReadRetentionPlan ==
  /\ pruner = NoPruner
  /\ LET rows == {i \in DOMAIN releases : InPlan(i)}
         drop == {i \in rows : ~Retained(i) /\ \A j \in rows : Retained(j) => ~SamePhysical(i, j)}
     IN  drop # {} /\ pruner' = [NoPruner EXCEPT !.todo = drop]
  /\ UNCHANGED <<head, objects, runPlan, at, workspace, prepared, images, releases, leased, prepCrashes>>

Last(S) == CHOOSE i \in S : \A j \in S : i >= j

\* reserveArtifactPrune asks again, in a transaction: no lease anywhere, and no
\* available artifact of a live or candidate release shares the image.
reserveArtifactPrune ==
  /\ pruner.removing = 0 /\ pruner.todo # {}
  /\ LET i == Last(pruner.todo)
         kept == \/ leased # 0
                 \/ ~InPlan(i)
                 \/ \E j \in DOMAIN releases \ {i} :
                       /\ SamePhysical(i, j) /\ releases[j].row = "available"
                       /\ releases[j].state \in {"live", "candidate"}
     IN  /\ pruner' = [todo |-> pruner.todo \ {i}, removing |-> IF kept THEN 0 ELSE i]
         /\ releases' = IF kept THEN releases ELSE [releases EXCEPT ![i].row = "pruning"]
  /\ UNCHANGED <<head, objects, runPlan, at, workspace, prepared, images, leased, prepCrashes>>

\* Docker refuses to remove the image of a running container.
RemoveArtifact ==
  /\ pruner.removing # 0
  /\ LET i == pruner.removing
     IN  \/ /\ \A j \in LiveReleases : releases[j].image # releases[i].image
            /\ images' = images \ {releases[i].image}
            /\ releases' = [releases EXCEPT ![i].row = "pruned"]
         \/ /\ UNCHANGED images
            /\ releases' = [releases EXCEPT ![i].row = "prune_failed"]
  /\ pruner' = [pruner EXCEPT !.removing = 0]
  /\ UNCHANGED <<head, objects, runPlan, at, workspace, prepared, leased, prepCrashes>>

RunStep(r) ==
  \/ TakeRun(r) \/ ResolveSource(r) \/ Materialize(r) \/ MaterializeContent(r)
  \/ MaterializeMarker(r) \/ MaterializeFails(r) \/ AcquireSource(r) \/ AnalyzePlan(r)
  \/ PrepareContext(r) \/ BuildArtifact(r) \/ RenderRuntime(r) \/ Clone(r)
  \/ ReleaseTasks(r) \/ Activate(r) \/ CancelPrep(r)

PrepNext ==
  \/ \E m \in Modes : SourceChanges(m)
  \/ \E m \in GitKinds \intersect Modes : ObjectsCollected(m)
  \/ \E m \in Modes, tasks \in BOOLEAN : Analyze(m, tasks)
  \/ \E op \in {"redeploy", "rollback"}, i \in DOMAIN releases : EnqueueTarget(op, i)
  \/ \E r \in PrepRuns : RunStep(r)
  \/ CrashPrep
  \/ ReadRetentionPlan \/ reserveArtifactPrune \/ RemoveArtifact

PrepSpec == PrepInit /\ [][PrepNext]_prepVars

-----------------------------------------------------------------------------
(* Properties.                                                             *)

PlanRow == [op : {"deploy", "redeploy", "rollback"}, mode : Modes, identity : Nat \ {0},
            tasks : BOOLEAN, target : Nat]
StageRow == [step : Nat, sub : {"queued", "begin", "fetch", "mark", "work", "ended"}]
WorkspaceRow == [exists : BOOLEAN, content : Nat, marker : Nat]
EvidenceRow == [context : BOOLEAN, image : Nat]
ImageRow == [ref : Nat, digest : Nat]
ReleaseRow == [run : PrepRuns, of : PrepRuns, image : ImageRow,
               state : {"candidate", "live", "retained"},
               row : {"available", "pruning", "prune_failed", "pruned"}]

\* The tables, one entry per run.
PrepTypeOK ==
  /\ head \in [Modes -> Nat \ {0}] /\ objects \in [GitKinds -> SUBSET Nat]
  /\ runPlan \in Seq(PlanRow)
  /\ at \in [PrepRuns -> StageRow]
  /\ workspace \in [PrepRuns -> WorkspaceRow]
  /\ prepared \in [PrepRuns -> EvidenceRow]
  /\ images \subseteq ImageRow /\ releases \in Seq(ReleaseRow)
  /\ leased \in 0..Len(runPlan)
  /\ pruner \in [todo : SUBSET DOMAIN releases, removing : {0} \union DOMAIN releases]
  /\ prepCrashes \in Nat

\* What a run relies on from one step to the next, crashes included: a workspace
\* with its marker holds the recorded source, build_artifact finds such a one, and
\* what was built is what render_runtime records (Materialize, BuildArtifact).
StageHolds(p, a, w, e) ==
  LET marked == sameMaterializedIdentity(w, p)
      frozen == p.mode # "compose_local"
  IN  /\ a.step <= Len(StepsOf(p.op)) /\ (a.sub = "queued" <=> a.step = 0)
      /\ a.sub \in {"fetch", "mark"} => w.exists
      /\ a.sub = "work" => marked
      /\ frozen /\ (marked \/ a.sub = "mark") => w.content = p.identity
      /\ p.op = "deploy" /\ a.sub # "ended" =>
           /\ a.step = 5 => marked
           /\ frozen /\ a.step > 5 => e.image = p.identity

\* Each run is at such a place, only the holder of the lease is between two steps, and
\* a redeploy or rollback names a release (ClaimNext, enqueueNormalizedDeployment).
StagesHold ==
  \A r \in PrepRuns :
    /\ StageHolds(runPlan[r], at[r], workspace[r], prepared[r])
    /\ leased = r => at[r].sub \notin {"queued", "ended"}
    /\ runPlan[r].op # "deploy" => runPlan[r].target \in DOMAIN releases

\* Only what succeeded and has been pushed out by newer successes loses its image: it
\* was so when the cleanup read its plan, and stays so while the cleanup goes on
\* beside newer runs (ArtifactRetentionPlan, reserveArtifactPrune).
Outdated(i) ==
  /\ releases[i].state = "retained"
  /\ Cardinality({j \in DOMAIN releases : j >= i /\ Successful(j)}) > keptReleases

OnlyOutdatedPruned ==
  /\ \A i \in DOMAIN releases :
       /\ releases[i].state # "candidate" => at[releases[i].run].sub = "ended"
       /\ releases[i].row # "available" => Outdated(i)
  /\ \A i \in pruner.todo : Outdated(i)
  /\ pruner.removing # 0 => Outdated(pruner.removing)

\* A release holds what was reviewed: its image is the recorded commit or digest,
\* whatever the branch did since, whatever the mirror lost and however often a crash
\* left the workspace half written (Materialize, cloneExactGit, BuildArtifact).
\* A Compose directory is copied as it is when the run begins and is excepted.
BuiltAsReviewed ==
  \A i \in DOMAIN releases :
     LET p == runPlan[releases[i].of]
     IN  p.mode # "compose_local" => releases[i].image.digest = p.identity

\* Cleanup keeps what a rollback needs: the newest successful releases, the live one
\* among them, have their artifact rows available, whatever runs, failures and
\* concurrent cleanups went before (ArtifactRetentionPlan, reserveArtifactPrune).
RollbackTargetsKept ==
  \A i \in DOMAIN releases :
     /\ Successful(i)
     /\ Cardinality({j \in DOMAIN releases : j >= i /\ Successful(j)}) <= keptReleases
     => releases[i].row = "available"

\* Releases hold what was reviewed, and the ones a rollback may need are kept.
ReleasesKept ==
  /\ PrepTypeOK /\ StagesHold /\ OnlyOutdatedPruned
  /\ BuiltAsReviewed /\ RollbackTargetsKept

\* A release whose run ended without activation is not a candidate any more, so that
\* the diagnostic window of failed artifacts can begin (ArtifactRetentionPlan).
EndedRunLeavesNoCandidate ==
  \A i \in DOMAIN releases :
     at[releases[i].run].sub = "ended" => releases[i].state # "candidate"

\* A redeploy repeats the live release: when its candidate goes live, the release it
\* replaces has the same image (enqueueNormalizedDeployment, CloneCandidateRelease).
RedeployRepeatsLive ==
  [][\A i \in DOMAIN releases, j \in LiveReleases :
        (releases'[i].state = "live" /\ i # j /\ runPlan[releases[i].run].op = "redeploy")
           => releases[i].image = releases[j].image]_prepVars
=============================================================================
