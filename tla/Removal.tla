-------------------------------- MODULE Removal --------------------------------
(***************************************************************************)
(* Removing what a deployment manages: the removal plan and its digest     *)
(* (deploy/lifecycle.go), the request that names targets of that plan      *)
(* (api/handlers_deploy_configuration.go) and the owners that remove them  *)
(* one by one (api/deployment_resource_remover.go).                        *)
(*                                                                         *)
(* A target is a kind and a name.  A project claims the targets that its   *)
(* rows name: runtimes, the site of a managed domain, managed              *)
(* dependencies and mounts of the desired revision, images of its          *)
(* releases.  What exists on the host is a set of targets.                 *)
(***************************************************************************)
EXTENDS Integers, Sequences, FiniteSets

CONSTANTS
  Deployments,      \* projects
  RemovalTargets,   \* targets: [kind, id]
  FirstClaims,      \* project -> targets its rows name at first
  RemovalClients,   \* requests under way
  MaxClaimEdits, MaxRemovals   \* bounds: configuration edits and deployments; requests

DataKinds == {"docker_volume", "bind_path"}
IsData(t) == t.kind \in DataKinds

ASSUME RemovalAssumption == FirstClaims \in [Deployments -> SUBSET RemovalTargets]

VARIABLES
  archivedAt,    \* project -> BOOLEAN
  claims,        \* project -> targets its rows name
  onHost,        \* targets that exist
  busy,          \* targets a running container uses
  removals,      \* project -> targets in deploy_resource_removals
  removalCall,   \* client -> the request
  claimEdits, removalCalls

removalVars == <<archivedAt, claims, onHost, busy, removals, removalCall, claimEdits, removalCalls>>

NoRemoval == [at |-> "none", project |-> "none", seen |-> {}, ids |-> {}, phrase |-> {},
              todo |-> {}, taken |-> {}]

-----------------------------------------------------------------------------
(* RemovalPlan: the claimed targets without the ones recorded as removed.  The *)
(* digest stands for the whole plan, the archived mark included.            *)

PlanTargets(p) == claims[p] \ removals[p]
PlanDigest(p) == [targets |-> PlanTargets(p), archived |-> archivedAt[p]]

Preview(q, p) ==
  /\ removalCall[q].at = "none" /\ removalCalls < MaxRemovals
  /\ removalCall' = [removalCall EXCEPT ![q] =
       [NoRemoval EXCEPT !.at = "seen", !.project = p, !.seen = {PlanDigest(p)}]]
  /\ removalCalls' = removalCalls + 1
  /\ UNCHANGED <<archivedAt, claims, onHost, busy, removals, claimEdits>>

\* The person selects targets of the plan that was shown, and types the name of
\* at most one.
Choose(q, ids, phrase) ==
  /\ removalCall[q].at = "seen"
  /\ \A d \in removalCall[q].seen : ids # {} /\ ids \subseteq d.targets /\ phrase \subseteq ids
  /\ Cardinality(phrase) <= 1
  /\ removalCall' = [removalCall EXCEPT ![q].at = "sent", ![q].ids = ids, ![q].phrase = phrase]
  /\ UNCHANGED <<archivedAt, claims, onHost, busy, removals, claimEdits, removalCalls>>

\* handleDeploymentRemoveManaged reads the plan and asks for the typed name of the
\* one data target it finds in the selection.
Confirms(q) ==
  LET c == removalCall[q]
      typed == {t \in PlanTargets(c.project) \intersect c.ids : IsData(t)}
  IN  Cardinality(typed) <= 1 /\ typed \subseteq c.phrase

handleDeploymentRemoveManaged(q) ==
  /\ removalCall[q].at = "sent"
  /\ removalCall' = [removalCall EXCEPT ![q] =
       IF Confirms(q) THEN [@ EXCEPT !.at = "confirmed"] ELSE NoRemoval]
  /\ UNCHANGED <<archivedAt, claims, onHost, busy, removals, claimEdits, removalCalls>>

\* RemoveManaged reads the plan again: it must be the one that was shown, of an
\* archived project, and hold every selected target.
PlanAccepted_AnyDigest(q) ==
  LET c == removalCall[q]
  IN  archivedAt[c.project] /\ c.ids \subseteq claims[c.project]

PlanAccepted(q) ==
  LET c == removalCall[q]
  IN  archivedAt[c.project] /\ c.seen = {PlanDigest(c.project)} /\ c.ids \subseteq PlanTargets(c.project)

RemoveManaged(q) ==
  /\ removalCall[q].at = "confirmed"
  /\ removalCall' = [removalCall EXCEPT ![q] =
       IF PlanAccepted(q) THEN [@ EXCEPT !.at = "removing", !.todo = removalCall[q].ids] ELSE NoRemoval]
  /\ UNCHANGED <<archivedAt, claims, onHost, busy, removals, claimEdits, removalCalls>>

\* Each owner refuses what it does not find, and Docker what is in use: nothing is
\* forced.  The first refusal ends the request; what went before it stays removed.
RemoveManagedResource(q, t) ==
  /\ removalCall[q].at = "removing" /\ removalCall[q].taken = {} /\ t \in removalCall[q].todo
  /\ IF t \in onHost \ busy
     THEN /\ onHost' = onHost \ {t}
          /\ removalCall' = [removalCall EXCEPT ![q].taken = {t}]
     ELSE /\ removalCall' = [removalCall EXCEPT ![q] = NoRemoval]
          /\ UNCHANGED onHost
  /\ UNCHANGED <<archivedAt, claims, busy, removals, claimEdits, removalCalls>>

\* The row is written after the removal, by another statement; a process that stops
\* in between leaves the target in the plan.
RecordRemoval(q) ==
  LET c == removalCall[q] IN
  /\ c.at = "removing" /\ c.taken # {}
  /\ removals' = [removals EXCEPT ![c.project] = @ \union c.taken]
  /\ removalCall' = [removalCall EXCEPT ![q] =
       IF c.todo = c.taken THEN NoRemoval ELSE [c EXCEPT !.todo = @ \ c.taken, !.taken = {}]]
  /\ UNCHANGED <<archivedAt, claims, onHost, busy, claimEdits, removalCalls>>

RequestLost(q) ==
  /\ removalCall[q] # NoRemoval
  /\ removalCall' = [removalCall EXCEPT ![q] = NoRemoval]
  /\ UNCHANGED <<archivedAt, claims, onHost, busy, removals, claimEdits, removalCalls>>

-----------------------------------------------------------------------------
(* What changes the plan meanwhile.                                        *)

ArchiveDeployment(p) ==
  /\ ~archivedAt[p]
  /\ archivedAt' = [archivedAt EXCEPT ![p] = TRUE]
  /\ UNCHANGED <<claims, onHost, busy, removals, removalCall, claimEdits, removalCalls>>

\* A run activates: its resources exist, are claimed and in use.  Archiving stops no
\* run, queued or new.
RunDeploys(p, t) ==
  /\ claimEdits < MaxClaimEdits /\ claimEdits' = claimEdits + 1
  /\ claims' = [claims EXCEPT ![p] = @ \union {t}]
  /\ onHost' = onHost \union {t}
  /\ busy' = busy \union {t}
  /\ UNCHANGED <<archivedAt, removals, removalCall, removalCalls>>

\* The containers of a target stop.
ContainerStops(t) ==
  /\ t \in busy /\ busy' = busy \ {t}
  /\ UNCHANGED <<archivedAt, claims, onHost, removals, removalCall, claimEdits, removalCalls>>

\* A saved configuration drops or adds a managed mount or dependency.
ConfigurationEdited(p, t) ==
  /\ claimEdits < MaxClaimEdits /\ claimEdits' = claimEdits + 1
  /\ claims' = [claims EXCEPT ![p] = IF t \in @ THEN @ \ {t} ELSE @ \union {t}]
  /\ UNCHANGED <<archivedAt, onHost, busy, removals, removalCall, removalCalls>>

-----------------------------------------------------------------------------
RemovalInit ==
  /\ archivedAt = [p \in Deployments |-> FALSE]
  /\ claims = FirstClaims
  /\ onHost = UNION {FirstClaims[p] : p \in Deployments} /\ busy = {}
  /\ removals = [p \in Deployments |-> {}]
  /\ removalCall = [q \in RemovalClients |-> NoRemoval]
  /\ claimEdits = 0 /\ removalCalls = 0

RemovalNext ==
  \/ \E q \in RemovalClients :
       \/ \E p \in Deployments : Preview(q, p)
       \/ \E ids, phrase \in SUBSET RemovalTargets : Choose(q, ids, phrase)
       \/ handleDeploymentRemoveManaged(q) \/ RemoveManaged(q)
       \/ \E t \in RemovalTargets : RemoveManagedResource(q, t)
       \/ RecordRemoval(q) \/ RequestLost(q)
  \/ \E p \in Deployments : ArchiveDeployment(p)
       \/ \E t \in RemovalTargets : RunDeploys(p, t) \/ ConfigurationEdited(p, t)
  \/ \E t \in RemovalTargets : ContainerStops(t)

RemovalSpec == RemovalInit /\ [][RemovalNext]_removalVars

-----------------------------------------------------------------------------
(* Properties.                                                             *)

\* A request that starts to remove acts on the very plan that its person saw, of a
\* project archived by then: no target has joined or left it since, and no other
\* request has removed part of it (RemoveManaged, removalPlanDigest).
RemovesWhatWasShown ==
  [][\A q \in RemovalClients :
       (removalCall[q].at = "confirmed" /\ removalCall'[q].at = "removing")
         => \A d \in removalCall[q].seen :
              d.archived /\ d.targets = PlanTargets(removalCall[q].project)]_removalVars

\* Data goes only when its exact name was typed (handleDeploymentRemoveManaged).
DataTyped ==
  \A q \in RemovalClients : \A t \in removalCall[q].taken :
     IsData(t) => t \in removalCall[q].phrase

\* Whatever an archived project still has on the host is offered for removal
\* (Store.Archive, RemovalPlan).
LeftoversOffered ==
  \A p \in Deployments : \A t \in claims[p] :
     (archivedAt[p] /\ t \in onHost /\ \A q \in RemovalClients : removalCall[q] = NoRemoval)
       => t \in PlanTargets(p)
=============================================================================
