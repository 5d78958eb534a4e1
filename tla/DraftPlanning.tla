--------------------------- MODULE DraftPlanning ---------------------------
(***************************************************************************)
(* The wizard that turns a draft into a deployment                         *)
(* (deploy/planning_store.go, api/handlers_deploy_planning.go).            *)
(*                                                                         *)
(* Every store operation runs under PlanningStore.mu and is one step.      *)
(* Detection and preflight take seconds: their handlers read the draft,    *)
(* look at the source or the host without the lock, and then save what     *)
(* they found; a commit's handler also reads the draft before the store    *)
(* does.  In between other requests, of the same user in another tab or of *)
(* an administrator, change the draft.  A request carries the revision its *)
(* browser last saw.                                                       *)
(***************************************************************************)
EXTENDS PlanModel, Integers

CONSTANTS
  Drafts,         \* draft ids
  Reqs,           \* HTTP requests in flight at a time
  Intents,        \* [name, profile] a client may save
  SourceInputs,   \* sources a client may save
  ConfigInputs,   \* configurations a client may save
  Evidence(_),    \* Evidence(s): what analysing source s may return
  Hosts,          \* states the host may be found in
  MaxRevision,    \* bound: revisions of a draft
  MaxAsked        \* bound: requests sent

ASSUME PlanningAssumption == MaxRevision \in Nat /\ MaxAsked \in Nat

VARIABLES
  draft,     \* draft[d]: the row of deploy_drafts
  projects,  \* what was committed: [name, draft, data, plan, via, seen]
  call,      \* call[q]: a request under way
  askedOf    \* requests sent so far

planningVars == <<draft, projects, call, askedOf>>

None == [none |-> TRUE]
NoData == [intent |-> None, source |-> None, detection |-> None, configuration |-> None]
NoPlan == [revision |-> 0, data |-> NoData]
NoDraft == [step |-> "none", revision |-> 0, data |-> NoData, findings |-> {}, preview |-> NoPlan,
            committed |-> FALSE, expired |-> FALSE]
NoCall == [step |-> "idle", kind |-> "none", id |-> "none", revision |-> 0, input |-> None,
           acknowledged |-> {}, seen |-> NoPlan, result |-> None]

PlanningInit ==
  /\ draft = [d \in Drafts |-> NoDraft]
  /\ projects = {}
  /\ call = [q \in Reqs |-> NoCall]
  /\ askedOf = 0

---------------------------------------------------------------------------
(* The store.                                                              *)

Create(d) ==
  /\ draft[d].step = "none"
  /\ draft' = [draft EXCEPT ![d] = [NoDraft EXCEPT !.step = "intent", !.revision = 1]]
  /\ UNCHANGED <<projects, call, askedOf>>

\* Get and getUnlocked find a draft that has not expired, or is committed.
Get(d) == draft[d].step # "none" /\ (~draft[d].expired \/ draft[d].committed)

\* What a save, a detection or a preflight leaves: one revision later, and
\* of the findings and the plan only those it brings.
Persisted(d, step, data, findings, preview) ==
  [draft EXCEPT ![d] = [draft[d] EXCEPT !.step = step, !.revision = draft[d].revision + 1,
                                        !.data = data, !.findings = findings, !.preview = preview]]

\* The early returns the three share.
Writable(d, revision) == Get(d) /\ ~draft[d].committed /\ revision = draft[d].revision

SavedData(data, input) ==
  CASE input.step = "intent" -> [data EXCEPT !.intent = input.value]
    [] input.step = "source" ->
         [data EXCEPT !.source = canonicalSourceConfig(input.value), !.detection = None]
    [] OTHER -> [data EXCEPT !.configuration = input.value]

ValidInput(input) ==
  CASE input.step = "source" -> ValidSource(canonicalSourceConfig(input.value))
    [] input.step = "configuration" -> ValidConfiguration(input.value)
    [] OTHER -> TRUE

Save(d, revision, input) ==
  IF Writable(d, revision) /\ ValidInput(input)
  THEN draft' = Persisted(d, input.step, SavedData(draft[d].data, input), {}, NoPlan)
  ELSE UNCHANGED draft

SaveDetection(d, revision, detection) ==
  IF Writable(d, revision) /\ validateDetectionResult(draft[d].data.source, detection)
  THEN draft' = Persisted(d, "detection", [draft[d].data EXCEPT !.detection = detection], {}, NoPlan)
  ELSE UNCHANGED draft

\* exactPlan: everything the draft says, and the revision it says it at.
exactPlan(dr) == [revision |-> dr.revision, data |-> dr.data]

SavePreflight(d, revision, result) ==
  IF Writable(d, revision) /\ result.plan.revision = revision /\ result.plan = exactPlan(draft[d])
  THEN draft' = Persisted(d, "preflight", draft[d].data, result.findings, result.plan)
  ELSE UNCHANGED draft

validateDraftComplete(dr) ==
  /\ None \notin {dr.data.intent, dr.data.source, dr.data.detection, dr.data.configuration}
  /\ dr.step = "preflight" /\ dr.preview # NoPlan

ProjectFrom(d, c) ==
  [name |-> draft[d].data.intent.name, draft |-> d, data |-> draft[d].data,
   plan |-> draft[d].preview, via |-> c.kind, seen |-> c.seen]

\* Faulty variant: the revision of the request is not compared.
Commit_AnyRevision(d, c) ==
  IF /\ Get(d) /\ ~draft[d].committed
     /\ validateDraftComplete(draft[d])
     /\ Blocking(draft[d].findings) = {} /\ Warnings(draft[d].findings) \subseteq c.acknowledged
     /\ ~\E p \in projects : p.name = draft[d].data.intent.name
  THEN /\ projects' = projects \cup {ProjectFrom(d, c)}
       /\ draft' = [draft EXCEPT ![d].committed = TRUE]
  ELSE UNCHANGED <<draft, projects>>

\* Commit: one transaction writes the project, its environment and plans and
\* marks the draft; project names are unique.  A committed draft is only
\* reported.
Commit(d, c) ==
  IF /\ Get(d) /\ ~draft[d].committed
     /\ c.revision = draft[d].revision
     /\ validateDraftComplete(draft[d])
     /\ Blocking(draft[d].findings) = {} /\ Warnings(draft[d].findings) \subseteq c.acknowledged
     /\ ~\E p \in projects : p.name = draft[d].data.intent.name
  THEN /\ projects' = projects \cup {ProjectFrom(d, c)}
       /\ draft' = [draft EXCEPT ![d].committed = TRUE]
  ELSE UNCHANGED <<draft, projects>>

\* A day passes without a commit.
DraftExpires(d) ==
  /\ draft[d].step # "none" /\ ~draft[d].expired
  /\ draft' = [draft EXCEPT ![d].expired = TRUE]
  /\ UNCHANGED <<projects, call, askedOf>>

---------------------------------------------------------------------------
(* The handlers.                                                           *)

Inputs ==
  {[step |-> "intent", value |-> i] : i \in Intents}
  \cup {[step |-> "source", value |-> s] : s \in SourceInputs}
  \cup {[step |-> "configuration", value |-> c] : c \in ConfigInputs}

\* A browser sends a request about the draft as it shows it now.
Send(q, kind, d, input, acknowledged) ==
  /\ call[q].step = "idle" /\ askedOf < MaxAsked
  /\ draft[d].step # "none" /\ draft[d].revision < MaxRevision
  /\ askedOf' = askedOf + 1
  /\ call' = [call EXCEPT ![q] =
       [step |-> "sent", kind |-> kind, id |-> d, revision |-> draft[d].revision, input |-> input,
        acknowledged |-> acknowledged, seen |-> draft[d].preview, result |-> None]]
  /\ UNCHANGED <<draft, projects>>

SendSave(q, d) == \E i \in Inputs : Send(q, "save", d, i, {})
SendDetect(q, d) == Send(q, "detect", d, None, {})
SendPreflight(q, d) == Send(q, "preflight", d, None, {})
\* The browser acknowledges all the warnings it shows, or none.
SendCommit(q, d, kind) ==
  \E a \in {{}, Warnings(draft[d].findings)} :
    draft[d].step = "preflight" /\ Send(q, kind, d, None, a)

Done(q) == call' = [call EXCEPT ![q] = NoCall]
Goes(q, result) == call' = [call EXCEPT ![q].step = "read", ![q].result = result]

handleDeploymentDraftSave(q) ==
  /\ call[q].step = "sent" /\ call[q].kind = "save"
  /\ Save(call[q].id, call[q].revision, call[q].input)
  /\ Done(q)
  /\ UNCHANGED <<projects, askedOf>>

\* The draft as deploymentDraftForPrincipal read it is at the revision asked.
ReadFresh(q, kind) ==
  /\ call[q].step = "sent" /\ call[q].kind = kind
  /\ UNCHANGED <<draft, projects, askedOf>>

handleDeploymentDraftDetect(q) ==
  LET dr == draft[call[q].id] IN
  /\ ReadFresh(q, "detect")
  /\ IF Get(call[q].id) /\ call[q].revision = dr.revision /\ dr.data.source # None
     THEN \E e \in Evidence(dr.data.source) : Goes(q, e)
     ELSE Done(q)

PreflightDraft(dr, host) ==
  LET d == dr.data
      c == d.configuration
      asked == preflightObservationRequest(d.source, d.detection, c)
  IN  [findings |-> preflightFindings(d.intent.profile, d.source, d.detection, c,
                                      Observe(host, "none", asked), TRUE),
       plan |-> exactPlan(dr)]

handleDeploymentDraftPreflight(q) ==
  LET dr == draft[call[q].id] IN
  /\ ReadFresh(q, "preflight")
  /\ IF /\ Get(call[q].id) /\ call[q].revision = dr.revision
        /\ None \notin {dr.data.intent, dr.data.source, dr.data.detection, dr.data.configuration}
     THEN \E h \in Hosts : Goes(q, PreflightDraft(dr, h))
     ELSE Done(q)

SaveResult(q) ==
  /\ call[q].step = "read" /\ call[q].kind \in {"detect", "preflight"}
  /\ IF call[q].kind = "detect"
     THEN SaveDetection(call[q].id, call[q].revision, call[q].result)
     ELSE SavePreflight(call[q].id, call[q].revision, call[q].result)
  /\ Done(q)
  /\ UNCHANGED <<projects, askedOf>>

\* The handler of a commit turns an import away, and the handler of an
\* adoption everything else; neither compares the revision.
handleDeploymentDraftCommit(q) ==
  LET dr == draft[call[q].id] IN
  /\ ReadFresh(q, "create")
  /\ IF Get(call[q].id) /\ (dr.data.source # None => dr.data.source.kind # "import")
     THEN Goes(q, None) ELSE Done(q)

\* An adoption is also turned away unless the fields that cannot be imported,
\* read again, are exactly those acknowledged.
handleDeploymentImportAdopt(q) ==
  LET dr == draft[call[q].id] IN
  /\ ReadFresh(q, "adopt")
  /\ \/ Get(call[q].id) /\ dr.data.source # None /\ dr.data.source.kind = "import" /\ Goes(q, None)
     \/ Done(q)

CommitCalled(q) ==
  /\ call[q].step = "read" /\ call[q].kind \in {"create", "adopt"}
  /\ Commit(call[q].id, call[q])
  /\ Done(q)
  /\ UNCHANGED askedOf

\* The browser goes away: the request's context ends before the store is asked.
Abandoned(q) ==
  /\ call[q].step = "read"
  /\ Done(q)
  /\ UNCHANGED <<draft, projects, askedOf>>

PlanningNext ==
  \/ \E d \in Drafts : Create(d) \/ DraftExpires(d)
  \/ \E q \in Reqs, d \in Drafts :
       \/ SendSave(q, d) \/ SendDetect(q, d) \/ SendPreflight(q, d)
       \/ SendCommit(q, d, "create") \/ SendCommit(q, d, "adopt")
  \/ \E q \in Reqs :
       \/ handleDeploymentDraftSave(q)
       \/ handleDeploymentDraftDetect(q)
       \/ handleDeploymentDraftPreflight(q)
       \/ SaveResult(q)
       \/ handleDeploymentDraftCommit(q)
       \/ handleDeploymentImportAdopt(q)
       \/ CommitCalled(q)
       \/ Abandoned(q)

PlanningSpec == PlanningInit /\ [][PlanningNext]_planningVars

---------------------------------------------------------------------------
(* Properties.                                                             *)

\* What is committed is what the committing browser had reviewed and what
\* preflight last looked at (planning_store.go Commit, SavePreflight): the
\* project holds the plan on the committer's screen, its detection is of its
\* own source, and an observed workload is taken over by an adoption only.
CommittedAsReviewed ==
  \A p \in projects :
    /\ p.seen = p.plan
    /\ p.plan.data = p.data
    /\ validateDetectionResult(p.data.source, p.data.detection)
    /\ p.data.source.kind = "import" <=> p.via = "adopt"

\* Nothing only one of two releases can hold, an immutable source, and a build
\* method that is the source's.
CanRun(data) ==
  LET c == data.configuration IN
  /\ c.strategy = "blue_green" =>
       c.hostPort = 0 /\ ~c.hostNetwork /\ \A m \in c.mounts : m.readOnly
  /\ data.detection.immutable \/ data.source.kind \in {"blueprint", "import"}
  /\ data.source.kind \in {"compose", "image"} => data.detection.selected = c.method

\* A committed plan can be carried out: a deployment that promises to keep the
\* old release up beside the new one has nothing only one of them can hold
\* (preflightFindings; activation relies on it), and no deployment without an
\* immutable source was let through.
CommittedPlanRuns == \A p \in projects : CanRun(p.data)

DraftSources == {canonicalSourceConfig(s) : s \in SourceInputs}
Detections == UNION {Evidence(s) : s \in DraftSources}
DraftData ==
  [intent : Intents \cup {None}, source : DraftSources \cup {None},
   detection : Detections \cup {None}, configuration : ConfigInputs \cup {None}]
DraftPlan == [revision : Nat, data : DraftData]
FindingCodes ==
  {"source_unavailable", "source_identity", "source_identity_missing",
   "image_platform_unavailable", "unsupported_runtime", "image_platform_compatible",
   "build_method_changed", "detection_empty", "detection_ambiguous", "detection_selected",
   "git_submodules", "git_lfs", "compose_variable", "compose_unsupported", "compose_warning",
   "detection_truncated", "git", "docker", "buildx", "compose", "path", "port",
   "proxy_unavailable", "domain_conflict", "domain_link_missing", "domain_ownership",
   "dns_unverified", "dns_verified", "dns_behind_proxy", "certificate_available",
   "certificate_unavailable", "public_bind", "firewall_unavailable", "firewall_mismatch",
   "firewall_matches", "advanced_runtime", "strategy_ineligible", "strategy_blue_green",
   "dependency_unavailable", "resource_unavailable", "dependency_available", "backup_stale",
   "variable_required", "readiness_missing", "backup_policy_missing", "host_low"}
Severities == {"pass", "warning", "unavailable", "decision", "blocked"}
FindingSets == SUBSET [code : FindingCodes, severity : Severities]
Preflights == [findings : FindingSets, plan : DraftPlan]

\* The rows of drafts and of requests, and what a request has read by then.
PlanningTypeOK ==
  /\ draft \in [Drafts -> [step : {"none", "intent", "source", "detection", "configuration", "preflight"},
                           revision : Nat, data : DraftData, findings : FindingSets,
                           preview : DraftPlan, committed : BOOLEAN, expired : BOOLEAN]]
  /\ call \in [Reqs -> [step : {"idle", "sent", "read"},
                        kind : {"none", "save", "detect", "preflight", "create", "adopt"},
                        id : Drafts \cup {"none"}, revision : Nat, input : Inputs \cup {None},
                        acknowledged : SUBSET FindingCodes, seen : DraftPlan,
                        result : Detections \cup {None} \cup Preflights]]
  /\ \A q \in Reqs :
       /\ call[q].step # "idle" => call[q].id \in Drafts
       /\ call[q].step = "sent" /\ call[q].kind = "save" => call[q].input \in Inputs
       /\ call[q].step = "read" /\ call[q].kind = "detect" => call[q].result \in Detections
       /\ call[q].step = "read" /\ call[q].kind = "preflight" => call[q].result \in Preflights

\* A draft's detection is of its source, and the plan on its screen is what the draft
\* says, which can run if nothing found about it stops a commit (SavePreflight).
DraftsReviewed ==
  \A d \in Drafts :
    /\ draft[d].step = "none" => draft[d].revision = 0
    /\ draft[d].data.detection # None =>
         validateDetectionResult(draft[d].data.source, draft[d].data.detection)
    /\ draft[d].preview # NoPlan =>
         /\ draft[d].preview.data = draft[d].data
         /\ Blocking(draft[d].findings) = {} => CanRun(draft[d].data)

\* A request whose revision is still the draft's is about the draft as it is: what
\* its handler read without the lock is what the store will find.
CallsCurrent ==
  \A q \in Reqs : LET dr == draft[call[q].id] IN
    call[q].step # "idle" =>
      /\ call[q].revision <= dr.revision
      /\ call[q].revision = dr.revision =>
           /\ call[q].seen = dr.preview
           /\ call[q].step = "read" =>
                /\ call[q].kind = "create" /\ dr.data.source # None => dr.data.source.kind # "import"
                /\ call[q].kind = "adopt" => dr.data.source # None /\ dr.data.source.kind = "import"
      /\ call[q].step = "read" /\ call[q].kind = "preflight" =>
           (Blocking(call[q].result.findings) = {} => CanRun(call[q].result.plan.data))

\* A committed project is the plan that was reviewed, and a plan that can run.
PlanningInv ==
  /\ PlanningTypeOK /\ DraftsReviewed /\ CallsCurrent
  /\ CommittedAsReviewed /\ CommittedPlanRuns
=============================================================================
