----------------------------- MODULE PlanModel -----------------------------
(***************************************************************************)
(* What a deployment plan may say and what preflight finds about it        *)
(* (deploy/planning_model.go, deploy/preflight.go): pure operators, used   *)
(* by DraftPlanning and EnvironmentConfig.                                 *)
(*                                                                         *)
(* A source is [kind, mode, fields, at, ref]: `fields' the optional fields *)
(* that are set, `at' the repository, image, path or resource it names.    *)
(* Whether the text of one value is well formed (a URL, a digest, a        *)
(* hostname) is decided before these rules and left out; the rules kept    *)
(* are the ones that relate fields to each other or to the host.           *)
(* Findings are a set of [code, severity]; titles and advice are left out. *)
(***************************************************************************)
EXTENDS Naturals, FiniteSets

---------------------------------------------------------------------------
(* Sources.                                                                *)

GitModes == {"git_url", "connected_repository", "compose_git"}

validModeForKind(kind, mode) ==
  mode \in CASE kind = "git"       -> {"git_url", "connected_repository", "local_checkout"}
             [] kind = "local"     -> {"local_checkout"}
             [] kind = "image"     -> {"image_reference"}
             [] kind = "compose"   -> {"compose_paste", "compose_upload", "compose_git", "compose_local"}
             [] kind = "blueprint" -> {"blueprint"}
             [] kind = "import"    -> {"existing_checkout", "existing_container", "existing_stack"}
             [] OTHER              -> {}

\* The field that names the source, required, in each mode.
Naming(mode) ==
  CASE mode \in {"git_url", "compose_git"} -> "url"
    [] mode = "connected_repository" -> "repository"
    [] mode \in {"local_checkout", "compose_local", "existing_checkout"} -> "localPath"
    [] mode = "image_reference" -> "image"
    [] mode \in {"compose_paste", "compose_upload"} -> "composeFiles"
    [] mode = "blueprint" -> "blueprintId"
    [] OTHER -> "resourceId"

GitFields == {"ref", "credentialId", "subdirectory", "includeSubmodules", "includeLfs"}

AllowedFields(mode) ==
  {Naming(mode)} \cup
    CASE mode = "git_url" -> GitFields
      [] mode = "compose_git" -> GitFields \cup {"composeFiles"}
      [] mode = "connected_repository" -> GitFields \cup {"provider", "providerBaseUrl"}
      [] mode = "local_checkout" -> {"subdirectory", "includeSubmodules", "includeLfs"}
      [] mode = "compose_local" -> {"subdirectory", "composeFiles"}
      [] mode = "existing_checkout" ->
           {"subdirectory", "managedInPlace", "includeSubmodules", "includeLfs"}
      [] mode = "image_reference" -> {"platform", "credentialId"}
      [] mode = "blueprint" -> {"blueprintVersion"}
      [] OTHER -> {}

\* firstUnexpectedField: a field that is set and not of this mode.
UnexpectedFields(source) == source.fields \ AllowedFields(source.mode)

\* DraftSourceConfig.Validate.
ValidSource(source) ==
  /\ validModeForKind(source.kind, source.mode)
  /\ Naming(source.mode) \in source.fields
  /\ source.mode = "connected_repository" => "provider" \in source.fields
  /\ source.mode = "blueprint" => "blueprintVersion" \in source.fields
  /\ UnexpectedFields(source) = {}

\* A Git source without a ref is of the branch main.
canonicalSourceConfig(source) ==
  IF source.mode \in GitModes /\ "ref" \notin source.fields
  THEN [source EXCEPT !.fields = @ \cup {"ref"}, !.ref = "main"]
  ELSE source

---------------------------------------------------------------------------
(* Variables: a value is [kind |-> "literal" | "variable" | "credential"   *)
(* | "database" | "domain" | "service", target |-> what it names].         *)

\* ResolveVariableGraph: the names its search colours done after n levels.
ResolvedWithin(values) ==
  LET done[n \in Nat] ==
        {v \in DOMAIN values :
           \/ values[v].kind # "variable"
           \/ n > 0 /\ values[v].target \in done[n - 1]}
  IN  done[Cardinality(DOMAIN values)]

\* It fails on a cycle and on a name that is not there.
ResolveVariableGraph(values) == ResolvedWithin(values) = DOMAIN values

---------------------------------------------------------------------------
(* PlanConfiguration.Validate.  A configuration has: method, recipe;       *)
(* strategy, hostPort (0: none), bind, hostNetwork, advanced; mounts, a    *)
(* set of [path, target, readOnly]; variables, a function from names to    *)
(* [value, secret, scopes, required]; buildSecrets and tasks, each a set   *)
(* of variable names; dependencies, a set of [kind, resource, ownership];  *)
(* domains, a function from hostnames to [ownership, https]; readiness;    *)
(* autoDeploy.                                                             *)

Methods == {"recipe", "dockerfile", "static", "image", "compose", "none", "legacy_compose"}

ValidRuntime(c) ==
  /\ c.method \in Methods
  /\ c.method # "recipe" => c.recipe = ""
  /\ c.strategy \in {"blue_green", "stop_first"}
  /\ \A m, n \in c.mounts : m.target = n.target => m = n

ValidVariables(c) ==
  /\ \A v \in DOMAIN c.variables :
       /\ c.variables[v].scopes # {}
       /\ c.variables[v].value.kind \in {"credential", "database"} => c.variables[v].secret
  /\ ResolveVariableGraph([v \in DOMAIN c.variables |-> c.variables[v].value])
  /\ \A v \in c.buildSecrets : v \in DOMAIN c.variables /\ "build" \in c.variables[v].scopes
  /\ c.buildSecrets # {} => c.method = "recipe"
  /\ \A v \in c.tasks : v \in DOMAIN c.variables /\ "release_task" \in c.variables[v].scopes

ValidDependencies(c) ==
  /\ \A d \in c.dependencies : d.kind # "domain" /\ d.ownership \in {"managed", "linked", "observed"}
  /\ \A h \in DOMAIN c.domains : c.domains[h].ownership \in {"managed", "linked"}

ValidConfiguration(c) == ValidRuntime(c) /\ ValidVariables(c) /\ ValidDependencies(c)

---------------------------------------------------------------------------
(* Detection: [identity |-> the source it is of, immutable |-> whether a   *)
(* commit or digest was resolved, methods |-> the candidates, selected     *)
(* ("" when none is), unavailable, truncated, submodules, lfs, platform,   *)
(* compose |-> [present, ports, mounts, variables, unsupported, warnings,  *)
(* advanced, builds]].                                                     *)

validateDetectionResult(source, detection) ==
  /\ detection.identity.kind = source.kind
  /\ \A f \in {"credentialId", "includeSubmodules", "includeLfs"} :
       f \in detection.identity.fields <=> f \in source.fields
  /\ source.mode \in GitModes \cup {"image_reference"} =>
       detection.identity.at = source.at /\ detection.identity.ref = source.ref
  /\ source.mode \in GitModes => detection.immutable
  /\ source.kind = "image" => detection.immutable \/ detection.unavailable
  /\ detection.compose.present <=> source.kind = "compose"
  /\ source.kind = "compose" => detection.immutable
  /\ detection.selected \in detection.methods \cup {""}

---------------------------------------------------------------------------
(* What preflight asks of the host.                                        *)

buildMethodNeedsBuildx(c, detection) ==
  \/ c.method \in {"recipe", "dockerfile", "static"}
  \/ c.method = "compose" /\ detection.compose.builds

publicRuntimeBind(c) == c.hostNetwork \/ c.bind = "public"

preflightObservationRequest(source, detection, c) ==
  LET ports == ({c.hostPort} \ {0}) \cup detection.compose.ports
  IN [tools |-> {t \in {"git", "docker", "buildx", "compose"} :
                   CASE t = "git" -> source.kind \in {"git", "local"} \/ source.mode = "compose_git"
                     [] t = "docker" -> c.method # "none"
                     [] t = "buildx" -> buildMethodNeedsBuildx(c, detection)
                     [] t = "compose" -> c.method \in {"compose", "legacy_compose"}},
      paths |-> ({m.path : m \in c.mounts} \ {""}) \cup detection.compose.mounts
                  \cup (IF "localPath" \in source.fields THEN {source.at} ELSE {}),
      ports |-> ports,
      domains |-> DOMAIN c.domains,
      dependencies |-> c.dependencies,
      firewall |-> publicRuntimeBind(c) /\ ports # {}]

\* The host ports that the release being replaced publishes.
existingDeploymentPorts(host, existing) == host.published[existing]

\* What is seen of the domains: host.vhosts maps the sites to their names.
ObservedDomains(host, existing, asked) ==
  [h \in asked |->
     [claimed |-> \E site \in DOMAIN host.vhosts \ {existing} : h \in host.vhosts[site],
      certified |-> h \in host.certificates,
      dns |-> host.dns[h]]]

\* HostPreflightObserver.Observe: the answers to what was asked, as the host
\* is at this moment.  `existing' names the deployment being replaced.
Observe(host, existing, asked) ==
  [tools |-> host.tools \cap asked.tools,
   paths |-> [p \in asked.paths |-> host.paths[p]],
   inUse |-> (asked.ports \cap host.listening) \ existingDeploymentPorts(host, existing),
   domains |-> ObservedDomains(host, existing, asked.domains),
   proxy |-> host.proxy,
   firewall |-> CASE ~asked.firewall \/ host.firewall = "unknown" -> "unknown"
                  [] host.firewall = "off" -> "off"
                  [] asked.ports \subseteq host.allowed -> "allows"
                  [] OTHER -> "blocks",
   dependencies |-> [d \in asked.dependencies |-> host.resources[d]],
   platform |-> host.platform,
   low |-> host.low]

---------------------------------------------------------------------------
(* What preflight makes of it.                                             *)

Found(code, severity) == {[code |-> code, severity |-> severity]}
When(condition, code, severity) == IF condition THEN Found(code, severity) ELSE {}

SourceFindings(source, detection, observed) ==
  LET named == detection.immutable \/ source.kind \in {"blueprint", "import"}
  IN  When(detection.unavailable, "source_unavailable", "unavailable")
      \cup (IF named THEN Found("source_identity", "pass")
                     ELSE Found("source_identity_missing", "blocked"))
      \cup (IF source.kind # "image" THEN {}
            ELSE IF detection.platform = "" THEN Found("image_platform_unavailable", "unavailable")
            ELSE IF detection.platform # observed.platform THEN Found("unsupported_runtime", "blocked")
            ELSE Found("image_platform_compatible", "pass"))

DetectionFindings(source, detection, c) ==
  When(detection.selected # "" /\ detection.selected # c.method, "build_method_changed",
       IF source.kind \in {"compose", "image"} THEN "blocked" ELSE "pass")
  \cup (IF detection.methods = {} THEN Found("detection_empty", "blocked")
        ELSE IF detection.selected = "" THEN Found("detection_ambiguous", "decision")
        ELSE Found("detection_selected", "pass"))
  \cup When(detection.submodules, "git_submodules",
            IF "includeSubmodules" \in source.fields THEN "pass" ELSE "decision")
  \cup When(detection.lfs, "git_lfs", IF "includeLfs" \in source.fields THEN "pass" ELSE "decision")
  \cup When(detection.compose.variables \ DOMAIN c.variables # {}, "compose_variable", "decision")
  \cup When(detection.compose.unsupported, "compose_unsupported", "decision")
  \cup When(detection.compose.warnings, "compose_warning", "warning")
  \cup When(detection.truncated, "detection_truncated", "warning")

HostFindings(asked, observed) ==
  {[code |-> t, severity |-> IF t \in observed.tools THEN "pass" ELSE "blocked"] : t \in asked.tools}
  \cup {[code |-> "path", severity |-> IF observed.paths[p] = "ok" THEN "pass" ELSE "blocked"]
          : p \in asked.paths}
  \cup {[code |-> "port", severity |-> IF p \in observed.inUse THEN "blocked" ELSE "pass"]
          : p \in asked.ports}

\* Found of one domain of the plan, seen as o.
DomainFindings(domain, o, proxy) ==
  When(~proxy, "proxy_unavailable", "unavailable")
  \cup (IF o.claimed /\ domain.ownership = "managed" THEN Found("domain_conflict", "blocked")
        ELSE IF ~o.claimed /\ domain.ownership = "linked" THEN Found("domain_link_missing", "decision")
        ELSE Found("domain_ownership", "pass"))
  \cup (CASE o.dns = "unknown" -> Found("dns_unverified", "unavailable")
          [] o.dns = "here" -> Found("dns_verified", "pass")
          [] o.dns = "cdn" -> Found("dns_behind_proxy", "warning")
          [] OTHER -> Found("dns_unverified", "warning"))
  \cup (IF ~domain.https THEN {}
        ELSE IF o.certified THEN Found("certificate_available", "pass")
        ELSE Found("certificate_unavailable", "blocked"))

ExposureFindings(c, asked, observed, detection, advancedAllowed) ==
  When(c.bind = "public", "public_bind", "warning")
  \cup (IF ~asked.firewall THEN {}
        ELSE CASE observed.firewall = "unknown" -> Found("firewall_unavailable", "unavailable")
               [] observed.firewall = "off" -> Found("firewall_mismatch", "warning")
               [] observed.firewall = "blocks" -> Found("firewall_mismatch", "blocked")
               [] OTHER -> Found("firewall_matches", "pass"))
  \cup When(c.advanced \/ c.hostNetwork \/ detection.compose.advanced, "advanced_runtime",
            IF advancedAllowed THEN "warning" ELSE "blocked")

\* Faulty variant: a fixed host port is overlooked.
StrategyFindings_IgnoresPort(profile, c) ==
  IF c.strategy = "blue_green" /\ \E m \in c.mounts : ~m.readOnly
  THEN Found("strategy_ineligible", "blocked")
  ELSE {}

\* Two releases side by side need no port, network or storage of their own.
StrategyFindings(profile, c) ==
  IF c.strategy # "blue_green" THEN {}
  ELSE IF \/ profile \notin {"web", "static"}
          \/ c.hostPort # 0
          \/ c.hostNetwork
          \/ \E m \in c.mounts : ~m.readOnly
  THEN Found("strategy_ineligible", "blocked")
  ELSE Found("strategy_blue_green", "pass")

DependencyFindings(d, seen) ==
  CASE seen = "unknown" ->
         When(d.kind \in {"backup", "storage", "database"}, "dependency_unavailable", "unavailable")
    [] seen = "missing" ->
         Found("resource_unavailable", IF d.ownership = "observed" THEN "decision" ELSE "blocked")
    [] OTHER ->
         Found("dependency_available", "pass")
         \cup When(d.kind = "backup" /\ seen = "stale", "backup_stale", "warning")

PolicyFindings(profile, c, detection, observed) ==
  When(\E v \in DOMAIN c.variables :
         c.variables[v].required /\ c.variables[v].value = [kind |-> "literal", target |-> ""],
       "variable_required", "decision")
  \cup When(profile \in {"web", "static"} /\ ~c.readiness, "readiness_missing", "decision")
  \cup When((c.mounts # {} \/ detection.compose.mounts # {})
              /\ ~\E d \in c.dependencies : d.kind = "backup", "backup_policy_missing", "warning")
  \cup When(observed.low, "host_low", "warning")

preflightFindings(profile, source, detection, c, observed, advancedAllowed) ==
  LET asked == preflightObservationRequest(source, detection, c)
  IN  SourceFindings(source, detection, observed)
      \cup DetectionFindings(source, detection, c)
      \cup HostFindings(asked, observed)
      \cup (UNION {DomainFindings(c.domains[h], observed.domains[h], observed.proxy) : h \in DOMAIN c.domains})
      \cup ExposureFindings(c, asked, observed, detection, advancedAllowed)
      \cup StrategyFindings(profile, c)
      \cup PolicyFindings(profile, c, detection, observed)
      \cup (UNION {DependencyFindings(d, observed.dependencies[d]) : d \in c.dependencies})

\* The findings that stop a commit whatever the operator acknowledges, and
\* the ones that stop it until they are acknowledged.
Blocking(findings) == {f \in findings : f.severity \in {"blocked", "decision"}}
Warnings(findings) == {f.code : f \in {g \in findings : g.severity = "warning"}}
=============================================================================
