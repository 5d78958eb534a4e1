--------------------------- MODULE MCDeployments ---------------------------
(* Small instances of the parts of a deployment around the run engine: the  *)
(* planning of a draft, the configuration of an environment, detection,     *)
(* preparation, health checks, removal and the legacy pipeline.             *)
(* They share no variable, so each behaviour is one part's; a part with two *)
(* instances bounds one kind of step in each and checks the same invariants.*)
EXTENDS DraftPlanning, EnvironmentConfig, ReleasePreparation, SourceDetection,
        HealthChecks, LegacyDeploy, Removal, TLC

CONSTANTS d1, q1, q2, e1, e2

VARIABLE part

----------------------------------------------------------------------------
(* Drafts: one draft, a Git source that may be published on a fixed host    *)
(* port, and a container that may be adopted, on one host.                  *)
NoCompose ==
  [present |-> FALSE, ports |-> {}, mounts |-> {}, variables |-> {}, unsupported |-> FALSE,
   warnings |-> FALSE, advanced |-> FALSE, builds |-> FALSE]
GitSource ==
  [kind |-> "git", mode |-> "git_url", fields |-> {"url"}, at |-> "repo", ref |-> ""]
ImportSource ==
  [kind |-> "import", mode |-> "existing_container", fields |-> {"resourceId"},
   at |-> "box", ref |-> ""]
MCSources == {GitSource, ImportSource}
MCIntents == {[name |-> "app", profile |-> "web"]}
MCConfigs ==
  {[method |-> "dockerfile", recipe |-> "", strategy |-> "blue_green", hostPort |-> p,
    bind |-> "loopback", hostNetwork |-> FALSE, advanced |-> FALSE, mounts |-> {},
    variables |-> <<>>, buildSecrets |-> {}, tasks |-> {}, dependencies |-> {},
    domains |-> ("site" :> [ownership |-> "managed", https |-> FALSE]),
    readiness |-> TRUE, autoDeploy |-> FALSE] : p \in {0, 80}}
MCHosts ==
  {[tools |-> {"git", "docker", "buildx"}, paths |-> <<>>, listening |-> {},
    published |-> ("none" :> {}), vhosts |-> ("other" :> {}), certificates |-> {},
    dns |-> ("site" :> "cdn"), proxy |-> TRUE, firewall |-> "off", allowed |-> {},
    resources |-> <<>>, platform |-> "amd64", low |-> FALSE]}
MCEvidence(s) ==
  {[identity |-> s, immutable |-> TRUE, methods |-> {"dockerfile"},
    selected |-> "dockerfile", unavailable |-> FALSE, truncated |-> FALSE,
    submodules |-> FALSE, lfs |-> FALSE, platform |-> "", compose |-> NoCompose]}

\* The second browser creates, adopts or stays away.
DraftBound == call'[q2].kind \in {"none", "create", "adopt"}

(* Configuration: two variables, literal or referring to one another.       *)
Literal(x, scopes) ==
  [value |-> [kind |-> "literal", target |-> x], secret |-> TRUE, scopes |-> scopes]
BuildOnly == Literal("x", {"build"})
MCValues ==
  {Literal("x", {"build", "release_task"}), BuildOnly,
   [value |-> [kind |-> "variable", target |-> "A"], secret |-> FALSE, scopes |-> {"build"}]}
MCPlans == {[tasks |-> {"A"}, strategy |-> "blue_green", deps |-> 1]}

\* Two editors and no run.
EditorsBound ==
  /\ runIn' = runIn /\ owned' = owned
  /\ \A e \in Editors : BuildOnly \notin {edit'[e].vars[v] : v \in DOMAIN edit'[e].vars}
\* One editor beside the runs.
RunsBound ==
  /\ desired' <= 3 /\ edit'[e2] = NoEdit
  /\ (desired' > 2 \/ edit'[e1].revision > 1) =>
       /\ edit'[e1].op \in {"none", "put"}
       /\ DOMAIN edit'[e1].vars \subseteq {"A"} /\ DOMAIN active' \subseteq {"A"}
       /\ \A r \in RunIds : r > 1 => runIn'[r].step = "none"

(* Preparation: three runs of one Git source without a crash, or one run of *)
(* any source with one.                                                     *)
ManyRunsBound ==
  /\ prepCrashes' = 0 /\ \A m \in Modes \ {"git"} : head'[m] = 1
  /\ \A r \in DOMAIN runPlan' : runPlan'[r].mode = "git" /\ ~runPlan'[r].tasks
OneRunBound == Len(runPlan') <= 1

(* Detection: one directory with one Compose file.                          *)
MCManifests ==
  {[parses |-> TRUE, start |-> s, framework |-> IF s THEN "" ELSE "vite"] : s \in BOOLEAN}
MCDocs ==
  {("web" :> s) : s \in [ports : {{}, {"80"}}, mounts : {{}, {"/data"}}, image : {TRUE},
                         build : {"none", "outside"}, advanced : {FALSE}]}

(* Checks: one or two, in either phase, required or not.                    *)
Check(n, k, p, r, d) ==
  [name |-> n, kind |-> k, phase |-> p, required |-> r, disabled |-> d,
   target |-> TRUE, argv |-> TRUE]
MCCheckPlans ==
  {{}} \union
  {{Check("a", k, p, r, d)} \union others :
     k \in {"http", "public_route", "docker_health", "dns"},
     p \in {"readiness", "smoke"}, r \in BOOLEAN, d \in BOOLEAN,
     others \in {{}, {Check("b", "http", "smoke", TRUE, FALSE)},
                 {Check("b", "public_route", "smoke", FALSE, FALSE)}}}

(* Legacy: pipelines without migrated rows, and migrations without one.     *)
PipelineBound ==
  /\ \A r \in DOMAIN legacyRuns' : legacyRuns'[r].state \notin OldStates
  /\ varRows' = varRows /\ Len(legacyRuns') <= 2
MigrationBound ==
  /\ remote' = remote /\ hook' = hook /\ pipeline' = pipeline
  /\ projectRow'.branch = projectRow.branch /\ rowEdits' <= 1
  /\ envRows' \in {EmptyEnv, [k \in EnvKeys |-> "x"]}

(* Removal: a project with a volume and a container, two requests.          *)
Volume == [kind |-> "docker_volume", id |-> "v"]
Container == [kind |-> "docker_container", id |-> "c"]
MCTargets == {Volume, Container}
MCClaims == ("p" :> MCTargets)

----------------------------------------------------------------------------
MCVars == <<part, planningVars, configVars, prepVars, detectVars, healthVars,
            legacyVars, removalVars>>

MCInit ==
  /\ part \in {"draft", "editors", "runs", "prepare many", "prepare one", "detect",
               "health", "pipeline", "migration", "removal"}
  /\ PlanningInit /\ ConfigInit /\ PrepInit /\ DetectInit /\ HealthInit
  /\ LegacyInit /\ RemovalInit
  /\ part # "detect" => tree = [d \in TreeRoots |-> CHOOSE o \in Directories : TRUE]
  /\ part # "health" => checks = {}

MCNext ==
  /\ UNCHANGED part
  /\ \/ /\ part = "draft" /\ PlanningNext /\ DraftBound
        /\ UNCHANGED <<configVars, prepVars, detectVars, healthVars, legacyVars, removalVars>>
     \/ /\ part \in {"editors", "runs"} /\ ConfigNext
        /\ part = "editors" => EditorsBound
        /\ part = "runs" => RunsBound
        /\ UNCHANGED <<planningVars, prepVars, detectVars, healthVars, legacyVars, removalVars>>
     \/ /\ part \in {"prepare many", "prepare one"} /\ PrepNext
        /\ part = "prepare many" => ManyRunsBound
        /\ part = "prepare one" => OneRunBound
        /\ UNCHANGED <<planningVars, configVars, detectVars, healthVars, legacyVars, removalVars>>
     \/ /\ part = "detect" /\ DetectNext
        /\ UNCHANGED <<planningVars, configVars, prepVars, healthVars, legacyVars, removalVars>>
     \/ /\ part = "health" /\ HealthNext
        /\ UNCHANGED <<planningVars, configVars, prepVars, detectVars, legacyVars, removalVars>>
     \/ /\ part \in {"pipeline", "migration"} /\ LegacyNext
        /\ part = "pipeline" => PipelineBound
        /\ part = "migration" => MigrationBound
        /\ UNCHANGED <<planningVars, configVars, prepVars, detectVars, healthVars, removalVars>>
     \/ /\ part = "removal" /\ RemovalNext
        /\ UNCHANGED <<planningVars, configVars, prepVars, detectVars, healthVars, legacyVars>>

MCSpec == MCInit /\ [][MCNext]_MCVars

============================================================================
