----------------------------- MODULE Containers -----------------------------
(***************************************************************************)
(* Containers as the Docker page changes them (dockerx/create.go,           *)
(* containers.go, images.go and their handlers): creating one from a        *)
(* specification, replacing one in place, and the single-call operations.   *)
(* Every call on the Engine is a step of its own: between two of them the   *)
(* request's context may end, another request may act, and the Engine may   *)
(* refuse.                                                                  *)
(***************************************************************************)
EXTENDS Integers, Sequences, FiniteSets
SequenceOps == INSTANCE SequencesExt

CONSTANTS
  AdminCaller,    \* whether the caller holds system.admin
  InFileRoots(_), \* files.Resolve accepts the folder
  BoxIds,         \* container ids the Engine may hand out
  FirstBoxes,     \* the containers the host starts with: [BoxIds -> container]
  EditedSpecs,    \* specifications the form may send
  BoxRequests,    \* requests that may be in flight together
  MaxBoxCalls     \* bound on requests begun

VARIABLES
  box,            \* the Engine's containers
  present,        \* whether the image is on this host
  boxCall,        \* the requests in flight
  boxCalls,       \* requests begun so far
  swept,          \* an operator removed or pruned a container by hand
  crowded         \* a replacement began while another was under way

containerVars == <<box, present, boxCall, boxCalls, swept, crowded>>

-----------------------------------------------------------------------------
(* The shape the container form speaks (dockerx/create.go) and its four     *)
(* translations: into the structures the Engine takes (toEngine), back      *)
(* from a container that exists (SpecOf), and into the two texts the        *)
(* preview shows (render.go: RunCommand and ComposeService), each rendered  *)
(* text being modelled by the container it would produce.                   *)
(*                                                                          *)
(* A specification is a record.  "plain" stands for every field that all    *)
(* four translations copy unchanged (image, command, entrypoint, user,      *)
(* working directory, hostname, extra hosts, environment, capabilities,     *)
(* privileged, init, read-only, tty, stdin, logging); its value             *)
(* "privileged" is one that asks for the privileged flag or a capability.   *)

NoHealth == [disable |-> FALSE, test |-> <<>>, interval |-> 0, timeout |-> 0,
             retries |-> 0, start |-> 0]
NoLimits == [memory |-> 0, swap |-> 0, cpus |-> 0, pids |-> 0, shm |-> 0]

(* ContainerSpec with nothing chosen; RestartPolicy "" is "no" to Docker.   *)
EmptySpec ==
  [plain |-> "image", labels |-> {}, restart |-> "", maxRetries |-> 0,
   autoRemove |-> FALSE, ports |-> {}, mounts |-> {}, devices |-> {},
   limits |-> NoLimits, networkMode |-> "", networks |-> <<>>, dns |-> {},
   stopSignal |-> "", health |-> NoHealth]

restartPolicy(name, retries) ==
  CASE name \in {"", "no", "none"}        -> [name |-> "no", retries |-> 0]
    [] name \in {"always", "unless-stopped"} -> [name |-> name, retries |-> 0]
    [] name = "on-failure"                -> [name |-> name, retries |-> retries]
    [] OTHER                              -> [name |-> "unknown", retries |-> 0]

(* MountSpec.toEngine: an unnamed type is a volume, a tmpfs has no source.   *)
MountRefused(m) ==
  \/ ~m.absoluteTarget
  \/ m.type \notin {"", "volume", "bind", "tmpfs"}
  \/ m.type = "bind" /\ ~m.absoluteSource

MountToEngine(m) ==
  [type |-> IF m.type = "" THEN "volume" ELSE m.type,
   source |-> IF m.type = "tmpfs" THEN "" ELSE m.source,
   target |-> m.target, readOnly |-> m.type # "tmpfs" /\ m.readOnly,
   size |-> IF m.type = "tmpfs" THEN m.size ELSE 0]

(* HealthSpec.toEngine: one word is a shell command, several words without   *)
(* a marker are an argument vector.                                          *)
HealthToEngine(h) ==
  IF h.disable THEN [NoHealth EXCEPT !.test = <<"NONE">>]
  ELSE [h EXCEPT !.test =
          IF Len(h.test) = 1 THEN <<"CMD-SHELL", h.test[1]>>
          ELSE IF Len(h.test) > 1 /\ h.test[1] \notin {"CMD", "CMD-SHELL", "NONE"}
               THEN <<"CMD">> \o h.test ELSE h.test]

DeviceToEngine(d) ==
  [host |-> d.host, inside |-> IF d.inside = "" THEN d.host ELSE d.inside,
   permissions |-> IF d.permissions = "" THEN "rwm" ELSE d.permissions]

IsPort(n) == n > 0 /\ n <= 65535

(* The refusals of toEngine, before anything is created.                     *)
SpecRefused(s) ==
  LET policy == restartPolicy(s.restart, s.maxRetries) IN
  \/ policy.name = "unknown"
  \/ s.autoRemove /\ policy.name # "no"
  \/ \E p \in s.ports : ~IsPort(p.container) \/ (p.host # 0 /\ ~IsPort(p.host))
  \/ \E m \in s.mounts : MountRefused(m)

(* The container toEngine's three structures create, with extraNetworks      *)
(* attached after the first (Create).  A network mode overrides the list.    *)
toEngine(s) ==
  LET policy == restartPolicy(s.restart, s.maxRetries) IN
  [plain |-> s.plain, labels |-> s.labels \ {""},
   restart |-> policy.name, maxRetries |-> policy.retries,
   autoRemove |-> s.autoRemove, ports |-> s.ports,
   mounts |-> {MountToEngine(m) : m \in s.mounts},
   devices |-> {DeviceToEngine(d) : d \in s.devices},
   limits |-> s.limits, networkMode |-> s.networkMode,
   networks |-> IF s.networkMode = "" THEN {s.networks[i] : i \in 1..Len(s.networks)}
                ELSE {},
   dns |-> s.dns, stopSignal |-> s.stopSignal, health |-> HealthToEngine(s.health)]

(* The advice toEngine collects about choices that are legal and probably    *)
(* unintended.                                                               *)
ContainerWarnings(s) ==
       {"every_interface" : p \in {q \in s.ports : q.host # 0 /\ q.ip = ""}}
  \cup {"unnamed_volume" : m \in {x \in s.mounts : x.type \in {"", "volume"} /\ x.source = ""}}
  \cup (IF s.limits.memory = 0 THEN {"no_memory_limit"} ELSE {})
  \cup (IF s.networkMode = "host" THEN {"host_network"} ELSE {})

(* SpecOf: what reading the Engine's record back keeps.  Compose's labels    *)
(* are left behind, ports come from the bindings (a port that is exposed     *)
(* and not published has none), networks only when there is no mode, and the *)
(* stored health check and swap limit have no line of their own.             *)
SpecOf(c) ==
  [plain |-> c.plain, labels |-> c.labels \ {"com.docker.compose.project"},
   restart |-> c.restart, maxRetries |-> c.maxRetries,
   autoRemove |-> c.autoRemove, ports |-> {p \in c.ports : p.host # 0},
   mounts |-> {[type |-> m.type, source |-> m.source, target |-> m.target,
                readOnly |-> m.readOnly, size |-> m.size,
                absoluteTarget |-> TRUE, absoluteSource |-> TRUE] : m \in c.mounts},
   devices |-> c.devices, limits |-> [c.limits EXCEPT !.swap = 0],
   networkMode |-> c.networkMode,
   networks |-> IF c.networkMode = "" THEN SequenceOps!SetToSeq(c.networks) ELSE <<>>,
   dns |-> c.dns, stopSignal |-> c.stopSignal, health |-> NoHealth]

(* RunCommand: the container the rendered docker run line creates.           *)
RunCommand(s) ==
  [toEngine(s) EXCEPT
     !.maxRetries = IF s.restart = "on-failure" THEN s.maxRetries ELSE 0,
     !.limits.swap = 0,
     !.health = IF s.health.disable \/ s.health.test = <<>> THEN @
                ELSE [@ EXCEPT !.timeout = 0, !.start = 0]]

(* ComposeService: the container the rendered service creates.  A list of    *)
(* networks wins over a mode here.                                           *)
ComposeService(s) ==
  [toEngine(s) EXCEPT
     !.maxRetries = 0, !.autoRemove = FALSE,
     !.mounts = {[m EXCEPT !.size = 0] : m \in @}, !.devices = {},
     !.limits = [NoLimits EXCEPT !.memory = s.limits.memory, !.cpus = s.limits.cpus],
     !.networks = {s.networks[i] : i \in 1..Len(s.networks)},
     !.networkMode = IF s.networks = <<>> THEN @ ELSE "",
     !.dns = {}, !.stopSignal = ""]

(* authoriseSpec: the content-dependent capability check, and the folder     *)
(* roots every bind mount is resolved through.                               *)
SpecForbidden(s) ==
  \/ ~AdminCaller /\ (s.plain = "privileged" \/ s.networkMode = "host" \/ s.devices # {} \/ \E m \in s.mounts : m.type = "bind")
  \/ \E m \in s.mounts : m.type = "bind" /\ (~m.absoluteSource \/ ~InFileRoots(m.source))

-----------------------------------------------------------------------------
(* Requests.                                                                 *)

\* A container's name is the sequence of its parts: Recreate adds one to park it.
NameParts == {"web", "other", "generated", "_jd_replaced"}

NoBox == [name |-> <<>>, on |-> "gone", config |-> toEngine(EmptySpec), stack |-> FALSE]
NoBoxCall == [at |-> "idle", kind |-> "none", id |-> "none", name |-> <<>>, spec |-> EmptySpec,
              pull |-> FALSE, running |-> FALSE, new |-> "none", alive |-> TRUE,
              result |-> "none"]

Parked(name) == Append(name, "_jd_replaced")
Exists(i) == box[i].on # "gone"
HolderOf(name) == {i \in BoxIds : Exists(i) /\ box[i].name = name}

ContainersInit ==
  /\ box = FirstBoxes
  /\ present \in BOOLEAN
  /\ boxCall = [q \in BoxRequests |-> NoBoxCall]
  /\ boxCalls = 0 /\ swept = FALSE /\ crowded = FALSE

(* Bookkeeping of a request that goes on, or ends with an answer.            *)
GoTo(q, at) == boxCall' = [boxCall EXCEPT ![q].at = at]
BoxAnswer(q, result) ==
  boxCall' = [boxCall EXCEPT ![q].at = "idle", ![q].result = result]

Started(q, c) ==
  /\ boxCall[q].at = "idle" /\ boxCalls < MaxBoxCalls
  /\ boxCall' = [boxCall EXCEPT ![q] = c]
  /\ boxCalls' = boxCalls + 1

-----------------------------------------------------------------------------
(* Create, one Engine call at a time.  A replacement goes the same way.      *)

(* handleContainerCreate: decoded, authorised, under its own deadline.       *)
handleContainerCreate(q) ==
  \E s \in EditedSpecs, n \in {<<>>, <<"web">>} :
    /\ ~SpecForbidden(s)
    /\ Started(q, [NoBoxCall EXCEPT !.at = "name", !.kind = "create", !.name = n, !.spec = s])
    /\ UNCHANGED <<box, present, swept, crowded>>

(* A failed Create: a replacement's caller restores, a plain one answers.    *)
CreateFails(q) ==
  IF boxCall[q].kind = "recreate" THEN GoTo(q, "restore") ELSE BoxAnswer(q, "failed")

CheckName(q) ==
  /\ boxCall[q].at = "name"
  /\ IF boxCall[q].alive /\ boxCall[q].name # <<>> /\ HolderOf(boxCall[q].name) # {}
     THEN CreateFails(q)
     ELSE GoTo(q, IF boxCall[q].pull \/ ~present THEN "pull" ELSE "make")
  /\ UNCHANGED <<box, present, boxCalls, swept, crowded>>

(* PullImage: an error the daemon reports inside the progress stream is      *)
(* passed along as a message and ends as a success.                          *)
PullEnds(q) ==
  /\ boxCall[q].at = "pull"
  /\ \/ boxCall[q].alive /\ present' = TRUE /\ GoTo(q, "make")
     \/ boxCall[q].alive /\ UNCHANGED present /\ GoTo(q, "make")
     \/ UNCHANGED present /\ CreateFails(q)
  /\ UNCHANGED <<box, boxCalls, swept, crowded>>

(* ContainerCreate and the extra networks, whose failure is only a warning.  *)
ContainerMade(q) ==
  /\ boxCall[q].at = "make"
  /\ LET c == boxCall[q] IN
     \/ /\ c.alive /\ present /\ ~SpecRefused(c.spec)
        /\ c.name # <<>> => HolderOf(c.name) = {}
        /\ \E i \in BoxIds :
             /\ ~Exists(i)
             /\ box' = [box EXCEPT ![i] =
                  [name |-> IF c.name = <<>> THEN <<"generated">> ELSE c.name, on |-> "created",
                   config |-> toEngine(c.spec), stack |-> FALSE]]
             /\ boxCall' = [boxCall EXCEPT ![q].at = "start", ![q].new = i]
     \/ UNCHANGED box /\ CreateFails(q)
  /\ UNCHANGED <<present, boxCalls, swept, crowded>>

(* The container exists either way: an answer that it would not start names  *)
(* a container the operator can inspect.                                     *)
StartMade(q) ==
  /\ boxCall[q].at = "start"
  /\ LET i == boxCall[q].new IN
     \/ /\ boxCall[q].alive /\ Exists(i)
        /\ box' = [box EXCEPT ![i].on = "running"]
        /\ IF boxCall[q].kind = "recreate" THEN GoTo(q, "expend") ELSE BoxAnswer(q, "ok")
     \/ UNCHANGED box /\ CreateFails(q)
  /\ UNCHANGED <<present, boxCalls, swept, crowded>>

-----------------------------------------------------------------------------
(* Recreate.                                                                 *)

Replacing == {q \in BoxRequests : boxCall[q].at # "idle" /\ boxCall[q].kind = "recreate"}

(* handleContainerRecreate and the refusals at the head of Recreate: a       *)
(* container compose owns, and one that removes itself when it stops.        *)
handleContainerRecreate(q) ==
  \E i \in BoxIds, edited \in BOOLEAN, pull \in BOOLEAN :
  \E s \in (IF edited THEN EditedSpecs ELSE {SpecOf(box[i].config)}) :
    /\ Exists(i) /\ ~box[i].stack /\ ~box[i].config.autoRemove
    /\ edited => ~SpecForbidden(s)
    /\ Started(q, [NoBoxCall EXCEPT !.at = "clear", !.kind = "recreate", !.id = i,
                     !.name = box[i].name, !.spec = s, !.pull = pull,
                     !.running = box[i].on = "running"])
    /\ crowded' = (crowded \/ Replacing # {})
    /\ UNCHANGED <<box, present, swept>>

(* Whatever holds the parking name is removed, its failure ignored.          *)
ClearParking(q) ==
  /\ boxCall[q].at = "clear"
  /\ GoTo(q, "aside")
  /\ box' = [i \in BoxIds |->
       IF boxCall[q].alive /\ i \in HolderOf(Parked(boxCall[q].name)) THEN NoBox ELSE box[i]]
  /\ UNCHANGED <<present, boxCalls, swept, crowded>>

SetAside(q) ==
  /\ boxCall[q].at = "aside"
  /\ LET c == boxCall[q] IN
     IF c.alive /\ Exists(c.id) /\ HolderOf(Parked(c.name)) = {}
     THEN /\ box' = [box EXCEPT ![c.id].name = Parked(c.name)]
          /\ GoTo(q, IF c.running THEN "stop" ELSE "name")
     ELSE UNCHANGED box /\ BoxAnswer(q, "failed")
  /\ UNCHANGED <<present, boxCalls, swept, crowded>>

(* Rename back, possible while nothing else took the name.                   *)
RenamedBack(c) ==
  IF c.alive /\ Exists(c.id) /\ HolderOf(c.name) = {}
  THEN [box EXCEPT ![c.id].name = c.name] ELSE box

(* A mutant: the original removed before the replacement is made.            *)
StopOld_Removes(q) ==
  /\ boxCall[q].at = "stop"
  /\ LET c == boxCall[q] IN
     /\ c.alive /\ Exists(c.id)
     /\ box' = [box EXCEPT ![c.id] = NoBox]
     /\ GoTo(q, "name")
  /\ UNCHANGED <<present, boxCalls, swept, crowded>>

StopOld(q) ==
  /\ boxCall[q].at = "stop"
  /\ LET c == boxCall[q] IN
     \/ /\ c.alive /\ Exists(c.id)
        /\ box' = [box EXCEPT ![c.id].on = "exited"]
        /\ GoTo(q, "name")
     \/ box' = RenamedBack(c) /\ BoxAnswer(q, "failed")
  /\ UNCHANGED <<present, boxCalls, swept, crowded>>

(* restore: the start is only tried once the name is back.                   *)
Restore(q) ==
  /\ boxCall[q].at = "restore"
  /\ LET c == boxCall[q] IN
     box' = IF c.alive /\ Exists(c.id) /\ HolderOf(c.name) = {} /\ c.running
            THEN [RenamedBack(c) EXCEPT ![c.id].on = "running"] ELSE RenamedBack(c)
  /\ BoxAnswer(q, "failed")
  /\ UNCHANGED <<present, boxCalls, swept, crowded>>

(* The original goes only now; when it cannot, it stays parked.              *)
ExpendOld(q) ==
  /\ boxCall[q].at = "expend"
  /\ BoxAnswer(q, "ok")
  /\ \/ boxCall[q].alive /\ box' = [box EXCEPT ![boxCall[q].id] = NoBox]
     \/ UNCHANGED box
  /\ UNCHANGED <<present, boxCalls, swept, crowded>>

(* The caller goes away, or the fifteen minutes end.                         *)
ContextEnds(q) ==
  /\ boxCall[q].at # "idle" /\ boxCall[q].alive
  /\ boxCall' = [boxCall EXCEPT ![q].alive = FALSE]
  /\ UNCHANGED <<box, present, boxCalls, swept, crowded>>

-----------------------------------------------------------------------------
(* The operations of one Engine call.                                        *)

Single == boxCalls < MaxBoxCalls /\ boxCalls' = boxCalls + 1 /\ UNCHANGED <<boxCall, crowded>>

(* A container created with --rm is gone the moment it stops.                *)
Exited(b) == IF b.config.autoRemove THEN NoBox ELSE [b EXCEPT !.on = "exited"]

(* containerLifecycle: what the Engine does for each action.                 *)
Lifecycle(i) ==
  /\ Single /\ Exists(i) /\ UNCHANGED present
  /\ \/ box[i].on \in {"created", "exited"} /\ box' = [box EXCEPT ![i].on = "running"]  \* start
     \/ box[i].on \in {"running", "paused"} /\ box' = [box EXCEPT ![i] = Exited(@)]     \* stop, kill
     \/ box[i].on = "running" /\ box' = [box EXCEPT ![i].on = "paused"]                 \* pause
     \/ box[i].on = "paused" /\ box' = [box EXCEPT ![i].on = "running"]                 \* unpause, restart
  /\ swept' = (swept \/ box'[i].on = "gone")

handleContainerRemove(i) ==
  /\ Single /\ Exists(i)
  /\ \E force \in BOOLEAN : force \/ box[i].on \notin {"running", "paused"}
  /\ box' = [box EXCEPT ![i] = NoBox] /\ swept' = TRUE /\ UNCHANGED present

(* PruneContainers, also the first line of PruneAll.                         *)
PruneContainers ==
  /\ Single
  /\ box' = [i \in BoxIds |-> IF box[i].on \in {"created", "exited"} THEN NoBox ELSE box[i]]
  /\ box' # box /\ swept' = TRUE /\ UNCHANGED present

(* PruneImages with all, or RemoveImage: only an image no container uses.    *)
PruneImages ==
  /\ Single /\ present /\ \A i \in BoxIds : ~Exists(i)
  /\ present' = FALSE /\ UNCHANGED <<box, swept>>

handleContainerRename(i) ==
  /\ Single /\ Exists(i)
  /\ \E n \in {<<"web">>, <<"other">>} :
       HolderOf(n) = {} /\ box' = [box EXCEPT ![i].name = n]
  /\ UNCHANGED <<present, swept>>

(* UpdateResources: a limit that is not set stays as it was.                 *)
UpdateResources(i) ==
  /\ Single /\ Exists(i)
  /\ \E mem \in {0, 2} :
       box' = [box EXCEPT ![i].config.limits.memory = IF mem = 0 THEN @ ELSE mem]
  /\ box' # box /\ UNCHANGED <<present, swept>>

BoxStep(q) ==
  \/ handleContainerCreate(q) \/ CheckName(q) \/ PullEnds(q) \/ ContainerMade(q) \/ StartMade(q)
  \/ handleContainerRecreate(q) \/ ClearParking(q) \/ SetAside(q) \/ StopOld(q)
  \/ Restore(q) \/ ExpendOld(q) \/ ContextEnds(q)

HandStep ==
  \/ \E i \in BoxIds : \/ Lifecycle(i) \/ handleContainerRemove(i)
                       \/ handleContainerRename(i) \/ UpdateResources(i)
  \/ PruneContainers \/ PruneImages

ContainersNext == HandStep \/ \E q \in BoxRequests : BoxStep(q)

ContainersSpec == ContainersInit /\ [][ContainersNext]_containerVars

-----------------------------------------------------------------------------
BoxRows(config) ==
  [name : Seq(NameParts), on : {"gone", "created", "running", "paused", "exited"},
   config : {config}, stack : BOOLEAN]

ASSUME ContainersAssumption ==
  /\ FirstBoxes = [i \in BoxIds |-> FirstBoxes[i]]
  /\ \A i \in BoxIds : FirstBoxes[i] \in BoxRows(FirstBoxes[i].config)

BoxCallRows(spec) ==
  {c \in [at : {"idle", "name", "pull", "make", "start", "clear", "aside", "stop", "restore", "expend"},
          kind : {"none", "create", "recreate"}, id : BoxIds \cup {"none"}, name : Seq(NameParts),
          spec : {spec}, pull : BOOLEAN, running : BOOLEAN, new : BoxIds \cup {"none"},
          alive : BOOLEAN, result : {"none", "ok", "failed"}] :
     c.at \in {"clear", "aside", "stop", "restore", "expend"} => c.kind = "recreate"}

ContainersTypeOK ==
  /\ box = [i \in BoxIds |-> box[i]]
  /\ \A i \in BoxIds : box[i] \in BoxRows(box[i].config)
  /\ boxCall = [q \in BoxRequests |-> boxCall[q]]
  /\ \A q \in BoxRequests : boxCall[q] \in BoxCallRows(boxCall[q].spec)
  /\ swept \in BOOLEAN /\ crowded \in BOOLEAN

(* Where a replacement is: its original exists until the step that expends   *)
(* it, it does not hold the parking name that is cleared first, and when it  *)
(* is expended another container has been started in its place.              *)
Placed(c) ==
  /\ c.id \in BoxIds /\ Exists(c.id)
  /\ c.at = "clear" => box[c.id].name # Parked(c.name)
  /\ c.at \in {"start", "expend"} => c.new \in BoxIds \ {c.id}
  /\ c.at = "expend" => Exists(c.new)

ReplacementPlaced ==
  ~swept /\ ~crowded => /\ \A q, r \in Replacing : q = r
                        /\ \A q \in Replacing : Placed(boxCall[q])

(* A service survives every replacement of it: whatever fails on the way,    *)
(* however often it is tried, while nobody removes containers by hand and    *)
(* one replacement runs at a time, some container of the service exists,     *)
(* under its name or parked (Recreate).                                      *)
ServiceLeft ==
  (~swept /\ ~crowded /\ \E i \in BoxIds : FirstBoxes[i].on # "gone")
    => \E i \in BoxIds : Exists(i)

(* The same as it is kept from step to step.                                 *)
ContainersInv == ContainersTypeOK /\ ReplacementPlaced /\ ServiceLeft

(* What Recreate says of the old container: "It is only deleted once the     *)
(* replacement is running".  When every request has been answered and nobody *)
(* removed one by hand, some container of the service is left, two           *)
(* replacements of it at once included: the second takes the original the    *)
(* first has parked for a leftover and removes it.                           *)
ServiceLeftToBoth ==
  (~swept /\ (\E i \in BoxIds : FirstBoxes[i].on # "gone")
     /\ \A q \in BoxRequests : boxCall[q].at = "idle")
    => \E i \in BoxIds : Exists(i)

(* What the handler says of Recreate: "The old container is renamed aside    *)
(* and put back if anything after that point fails".  When a replacement of  *)
(* a running container has failed with its caller still there, the container *)
(* runs under its name again.                                                *)
RecreatePutsBack ==
  \A q \in BoxRequests :
    LET c == boxCall[q] IN
    (c.kind = "recreate" /\ c.running /\ c.alive /\ c.result = "failed" /\ ~swept /\ boxCalls = 1)
      => box[c.id].on = "running" /\ box[c.id].name = c.name

(* What Recreate says of itself: "a new one from the same (or an edited)     *)
(* configuration".  Reading a container back and creating it again loses     *)
(* nothing of its configuration.                                             *)
RecreateSame ==
  \A i \in BoxIds :
    Exists(i) /\ ~box[i].stack => toEngine(SpecOf(box[i].config)) = box[i].config

(* What RunCommand says of the preview: "the command on screen is the        *)
(* container that would exist".                                              *)
PreviewIsTheContainer ==
  \A s \in EditedSpecs : ~SpecRefused(s) => RunCommand(s) = toEngine(s)
=============================================================================
