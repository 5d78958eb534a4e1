---------------------------- MODULE SourceDetection ----------------------------
(***************************************************************************)
(* What the dashboard concludes from a source tree before anything is      *)
(* built: the candidates the detector finds (deploy/detector.go), the      *)
(* configuration made from the selected one, the recipe the builder then   *)
(* chooses by rules of its own (deploy/build_artifacts.go), and the        *)
(* analysis of Compose files (deploy/compose_source.go), from which the    *)
(* preflight takes ports, mounts and privileges.                           *)
(*                                                                         *)
(* A directory is the set of its files that the detector or the builder    *)
(* looks for, with two facts about content: what package.json declares and *)
(* whether requirements.txt is pinned.  A Compose document maps service    *)
(* names to what their entries say.                                        *)
(***************************************************************************)
EXTENDS Integers, Sequences, FiniteSets

CONSTANTS
  TreeRoots,        \* directories below the source, "" for the source itself
  TreeFiles,        \* file names a directory may have
  Manifests,        \* what package.json may declare
  Requirements,     \* what requirements.txt may hold: "pinned", "loose", "empty"
  DocServices,      \* what a Compose document may say of its services
  MaxDocuments      \* bound: Compose files of one source

LockManager ==
  [f \in {"bun.lock", "bun.lockb", "package-lock.json", "pnpm-lock.yaml", "yarn.lock"} |->
     CASE f \in {"bun.lock", "bun.lockb"} -> "bun" [] f = "package-lock.json" -> "npm"
       [] f = "pnpm-lock.yaml" -> "pnpm" [] OTHER -> "yarn"]
LockFiles == DOMAIN LockManager
ComposeNames == {"compose.yml", "compose.yaml", "docker-compose.yml", "docker-compose.yaml"}

VARIABLES
  tree,        \* directory -> [files, manifest, requirements]
  documents,   \* the Compose documents, in order
  phase,       \* "new", "detected", "configured", "prepared" or "refused"
  detection,   \* the result of DetectPath
  build,       \* the build configuration made from it
  prepared_    \* what Prepare decided

detectVars == <<tree, documents, phase, detection, build, prepared_>>

-----------------------------------------------------------------------------
(* The detector.                                                           *)

Rank == [high |-> 3, medium |-> 2, low |-> 1]
newDetectedCandidate(root, method, confidence) ==
  [root |-> root, method |-> method, confidence |-> confidence, recipe |-> "",
   start |-> FALSE, output |-> "", locked |-> FALSE]

\* A pinned requirement names its version or a URL.
detectedPythonLock_Loose(d) ==
  CASE "uv.lock" \in d.files -> "uv.lock"
    [] "poetry.lock" \in d.files -> "poetry.lock"
    [] "requirements.txt" \in d.files /\ d.requirements # "empty" -> "requirements.txt"
    [] OTHER -> ""

detectedPythonLock(d) ==
  CASE "uv.lock" \in d.files -> "uv.lock"
    [] "poetry.lock" \in d.files -> "poetry.lock"
    [] "requirements.txt" \in d.files /\ d.requirements = "pinned" -> "requirements.txt"
    [] OTHER -> ""

\* next, vite and SvelteKit raise the confidence whatever the lockfiles say.
packageCandidate(root, d) ==
  LET locks == d.files \intersect LockFiles
      framework == d.manifest.framework
      confidence == IF framework # "" THEN "high"
                    ELSE IF Cardinality(locks) = 1 THEN "medium" ELSE "low"
  IN  IF ~d.manifest.parses THEN newDetectedCandidate(root, "recipe", "low")
      ELSE [newDetectedCandidate(root, "recipe", confidence) EXCEPT
              !.recipe = "node", !.start = d.manifest.start,
              !.output = IF framework = "vite" THEN "dist" ELSE "",
              !.locked = Cardinality(locks) = 1]

\* The names are compared in lower case, so dockerfile and Containerfile count.
candidatesForMarkers(root, d) ==
  LET has(f) == f \in d.files
      some(S) == d.files \intersect S # {}
      if(cond, c) == IF cond THEN {c} ELSE {}
  IN  if(some({"Dockerfile", "dockerfile", "Containerfile"}), newDetectedCandidate(root, "dockerfile", "high"))
      \union if(some(ComposeNames), newDetectedCandidate(root, "compose", "high"))
      \union if(has("package.json"), packageCandidate(root, d))
      \union if(has("go.mod"), [newDetectedCandidate(root, "recipe", "high") EXCEPT !.recipe = "go"])
      \union if(detectedPythonLock(d) # "",
                [newDetectedCandidate(root, "recipe", "medium") EXCEPT !.recipe = "python", !.locked = TRUE])
      \union if(has("index.html") /\ ~has("package.json"),
                [newDetectedCandidate(root, "static", "medium") EXCEPT !.output = root])

\* The one candidate of the highest confidence; a tie selects none.
selectedCandidate(candidates) ==
  LET best == {c \in candidates : \A o \in candidates : Rank[c.confidence] >= Rank[o.confidence]}
  IN  IF Cardinality(best) = 1 THEN best ELSE {}

DetectPath ==
  /\ phase = "new"
  /\ LET candidates == UNION {candidatesForMarkers(root, tree[root]) : root \in DOMAIN tree}
     IN  detection' = [candidates |-> candidates, selected |-> selectedCandidate(candidates)]
  /\ phase' = "detected"
  /\ UNCHANGED <<tree, documents, build, prepared_>>

\* configurationFromDetection takes the selected candidate, or any first one;
\* the person may change the commands before the plan is saved.
Configure(c, start) ==
  /\ phase = "detected"
  /\ c \in (IF detection.selected # {} THEN detection.selected ELSE detection.candidates)
  /\ build' = [method |-> c.method, root |-> c.root, recipe |-> c.recipe,
               start |-> c.start \/ start, output |-> c.output]
  /\ phase' = "configured"
  /\ UNCHANGED <<tree, documents, detection, prepared_>>

-----------------------------------------------------------------------------
(* The builder.                                                            *)

requested(d) ==
  IF build.recipe # "" THEN build.recipe
  ELSE CASE "package.json" \in d.files -> "node"
         [] "go.mod" \in d.files -> "go"
         [] d.files \intersect {"uv.lock", "poetry.lock", "requirements.txt"} # {} -> "python"
         [] OTHER -> ""

selectPythonLock(d) ==
  CASE "uv.lock" \in d.files -> "uv.lock"
    [] "poetry.lock" \in d.files -> "poetry.lock"
    [] "requirements.txt" \in d.files /\ d.requirements = "pinned" -> "requirements.txt"
    [] OTHER -> ""

Refusal == [ok |-> FALSE, lock |-> ""]
Chosen(lock) == [ok |-> TRUE, lock |-> lock]

\* One supported lockfile for Node, one main package for Go, a lock and a start
\* command for Python.
selectRecipe(d) ==
  LET locks == d.files \intersect LockFiles
  IN  CASE requested(d) = "node" ->
             IF Cardinality(locks) = 1 THEN Chosen(CHOOSE l \in locks : TRUE) ELSE Refusal
        [] requested(d) = "go" ->
             IF {"go.mod", "main.go"} \subseteq d.files THEN Chosen("go.mod") ELSE Refusal
        [] requested(d) = "python" ->
             IF selectPythonLock(d) # "" /\ build.start THEN Chosen(selectPythonLock(d)) ELSE Refusal
        [] OTHER -> Refusal

\* A Node service that is no static output needs its start command.
renderRecipeDockerfile(d) == requested(d) = "node" => build.output # "" \/ build.start

\* Prepare reads the Dockerfile under its default name; a static site copies its
\* output directory, relative to the build root.
Prepare ==
  /\ phase = "configured"
  /\ LET d == tree[build.root]
     IN  prepared_' =
           CASE build.method = "recipe" ->
                  IF selectRecipe(d).ok /\ renderRecipeDockerfile(d) THEN selectRecipe(d) ELSE Refusal
             [] build.method = "static" ->
                  IF build.output = "" THEN Chosen("") ELSE Refusal
             [] build.method = "dockerfile" ->
                  IF "Dockerfile" \in d.files THEN Chosen("") ELSE Refusal
             [] OTHER -> Chosen("")
  /\ phase' = IF prepared_'.ok THEN "prepared" ELSE "refused"
  /\ UNCHANGED <<tree, documents, detection, build>>

-----------------------------------------------------------------------------
(* Compose documents.                                                      *)

\* composeServiceFromNode: what one document says of one service.  A build context
\* or Dockerfile outside the source refuses the whole analysis.
BuildRefused(entry) == entry.build = "outside"

composeServiceFromNode_NoMounts(entry) ==
  [ports |-> entry.ports, mounts |-> {}, runs |-> entry.image \/ entry.build # "none",
   advanced |-> entry.advanced]

composeServiceFromNode(entry) ==
  [ports |-> entry.ports, mounts |-> entry.mounts, runs |-> entry.image \/ entry.build # "none",
   advanced |-> entry.advanced \/ "/var/run/docker.sock" \in entry.mounts]

\* What can be neither contained nor checked is reported, and the preflight blocks it.
EntryUnsupported(entry) == entry.build = "dynamic" \/ "${PORT}" \in entry.ports

ServiceNames(docs) == UNION {DOMAIN docs[i] : i \in DOMAIN docs}
EntriesOf(docs, name) == {docs[i][name] : i \in {j \in DOMAIN docs : name \in DOMAIN docs[j]}}
LastOf(docs, name) == CHOOSE i \in DOMAIN docs :
  name \in DOMAIN docs[i] /\ \A j \in DOMAIN docs : j > i => name \notin DOMAIN docs[j]

\* serviceMap[name] = service: a later document replaces the service.  The warnings
\* and the unsupported features of all documents are collected.
analyzeComposeDocuments(docs) ==
  LET entries == UNION {EntriesOf(docs, name) : name \in ServiceNames(docs)}
  IN  IF \E e \in entries : BuildRefused(e) THEN {}
      ELSE {[services |-> [name \in ServiceNames(docs) |->
                             composeServiceFromNode(docs[LastOf(docs, name)][name])],
             unsupported |-> \E e \in entries : EntryUnsupported(e)]}

\* docker compose merges the documents: lists add up, scalars are overridden.
ComposeMerges(docs, name) ==
  LET entries == EntriesOf(docs, name)
  IN  [ports |-> UNION {e.ports : e \in entries}, mounts |-> UNION {e.mounts : e \in entries},
       runs |-> \E e \in entries : e.image \/ e.build # "none",
       advanced |-> \E e \in entries : e.advanced \/ "/var/run/docker.sock" \in e.mounts]

AddDocument(doc) ==
  /\ phase = "new" /\ Len(documents) < MaxDocuments
  /\ documents' = Append(documents, doc)
  /\ UNCHANGED <<tree, phase, detection, build, prepared_>>

-----------------------------------------------------------------------------
Directories ==
  {[files |-> F, manifest |-> m, requirements |-> q] :
     F \in SUBSET TreeFiles, m \in Manifests, q \in Requirements}

DetectInit ==
  /\ tree \in [TreeRoots -> Directories]
  /\ documents = <<>> /\ phase = "new"
  /\ detection = [candidates |-> {}, selected |-> {}]
  /\ build = [method |-> "none", root |-> "", recipe |-> "", start |-> FALSE, output |-> ""]
  /\ prepared_ = Refusal

DetectNext ==
  \/ DetectPath
  \/ \E c \in detection.candidates, start \in BOOLEAN : Configure(c, start)
  \/ Prepare
  \/ \E doc \in DocServices : AddDocument(doc)

DetectSpec == DetectInit /\ [][DetectNext]_detectVars

-----------------------------------------------------------------------------
(* Properties.                                                             *)

\* Detector and builder read the same lockfiles by rules written twice: what the
\* detector offered as a locked recipe the builder does not refuse for want of a
\* lock (detectedPythonLock, packageCandidate, selectPythonLock, selectRecipe).
LockedRecipeBuilds ==
  (phase = "refused" /\ build.method = "recipe" /\ build.start)
     => \A c \in detection.candidates :
          (c.root = build.root /\ c.recipe = build.recipe /\ c.recipe # "") => ~c.locked

\* The analysis of Compose files shows every port, mount and privilege of a service
\* that one document describes, so the preflight checks them (analyzeComposeDocuments).
ServiceShownWhole ==
  \A name \in ServiceNames(documents) :
     Cardinality({i \in DOMAIN documents : name \in DOMAIN documents[i]}) = 1
       => \A a \in analyzeComposeDocuments(documents) :
            a.services[name] = ComposeMerges(documents, name)

\* Detector and builder agree, and the analysis shows a service whole.
DetectionAgrees == LockedRecipeBuilds /\ ServiceShownWhole

\* The same for a service that an override file extends: what docker compose will
\* run is what was analysed (analyzeComposeDocuments, serviceMap).
MergedServiceShown ==
  \A name \in ServiceNames(documents) :
     \A a \in analyzeComposeDocuments(documents) :
       a.services[name] = ComposeMerges(documents, name)

\* The configuration made from the one selected candidate of a directory is one the
\* builder accepts, once a start command is given (configurationFromDetection, Prepare).
SelectedCandidateBuilds ==
  (phase = "refused" /\ detection.selected # {} /\ build.start) => build.method = "recipe"
=============================================================================
