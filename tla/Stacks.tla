------------------------------- MODULE Stacks -------------------------------
(***************************************************************************)
(* A compose stack: the file in its directory (composeops.go:               *)
(* WriteComposeFile, NewStack and the handlers that validate first), the    *)
(* containers compose keeps for it, and the actions that run the compose    *)
(* plugin step by step while a browser watches (composeSteps,               *)
(* RunComposeStream, streamLines).  The plugin itself is external: each     *)
(* command is modelled by what it does to the containers.                   *)
(***************************************************************************)
EXTENDS Integers, Sequences, FiniteSets

CONSTANTS
  Texts,            \* compose files an operator may write
  FirstTexts,       \* the files the stack may start with, "none" among them
  Declares(_),      \* the services a text declares
  Parses(_),        \* whether compose accepts it
  StackRequests,    \* requests that may be in flight together
  MaxStackCalls,    \* bound on requests begun
  MaxImages         \* bound on image versions the registry publishes

ASSUME StacksAssumption ==
  /\ "none" \notin Texts /\ FirstTexts \subseteq Texts \cup {"none"}
  /\ Declares("none") = {} /\ MaxStackCalls \in Nat /\ MaxImages \in Nat

VARIABLES
  fileText,         \* the compose file; "none" when there is none
  bakText,          \* the copy kept beside it
  service,          \* the containers compose keeps: service -> [on, image]
  pulled,           \* the newest image on this host
  registry,        \* the newest image in the registry
  stackCall,        \* requests in flight
  stackCalls

stackVars == <<fileText, bakText, service, pulled, registry, stackCall, stackCalls>>

AllServices == UNION {Declares(t) : t \in Texts}
NoService == [on |-> "gone", image |-> 0]
NoStackCall == [at |-> "idle", kind |-> "none", text |-> "none", steps |-> <<>>, only |-> "",
                before |-> "none", stack |-> [s \in AllServices |-> NoService],
                result |-> "none", failedAt |-> ""]

StacksInit ==
  /\ fileText \in FirstTexts /\ bakText = "none"
  /\ pulled = 0 /\ registry = 0
  /\ service = [s \in AllServices |-> IF s \in Declares(fileText)
                                      THEN [on |-> "running", image |-> 0] ELSE NoService]
  /\ stackCall = [q \in StackRequests |-> NoStackCall]
  /\ stackCalls = 0

BeginStack(q, c) ==
  /\ stackCall[q].at = "idle" /\ stackCalls < MaxStackCalls
  /\ stackCall' = [stackCall EXCEPT ![q] = c]
  /\ stackCalls' = stackCalls + 1

StackEnds(q, result) == stackCall' = [stackCall EXCEPT ![q].at = "idle", ![q].result = result]

-----------------------------------------------------------------------------
(* The file.                                                                 *)

(* handleStackCreate and NewStack: refused where a compose file exists, and  *)
(* written without asking compose.                                           *)
handleStackCreate(q) ==
  \E t \in Texts :
    /\ fileText = "none"
    /\ BeginStack(q, [NoStackCall EXCEPT !.kind = "new", !.text = t, !.result = "ok"])
    /\ fileText' = t
    /\ UNCHANGED <<bakText, service, pulled, registry>>

(* handleStackConfigWrite: validated before anything is written, unless the  *)
(* caller forces a file compose rejects.                                     *)
handleStackConfigWrite(q) ==
  \E t \in Texts, force \in BOOLEAN :
    /\ fileText # "none"
    /\ Parses(t) \/ force
    /\ BeginStack(q, [NoStackCall EXCEPT !.at = "bak", !.kind = "write", !.text = t,
                        !.before = fileText])
    /\ UNCHANGED <<fileText, bakText, service, pulled, registry>>

(* A mutant: the copy taken from what was just written.                      *)
WriteBak_Late(q) ==
  /\ stackCall[q].at = "bak"
  /\ bakText' = stackCall[q].text
  /\ stackCall' = [stackCall EXCEPT ![q].at = "replace"]
  /\ UNCHANGED <<fileText, service, pulled, registry, stackCalls>>

(* WriteComposeFile: the previous content is read and kept beside the file,  *)
(* then a temporary file is renamed over it.  The copy's failure is ignored. *)
WriteBak(q) ==
  /\ stackCall[q].at = "bak"
  /\ bakText' = fileText
  /\ stackCall' = [stackCall EXCEPT ![q].at = "replace"]
  /\ UNCHANGED <<fileText, service, pulled, registry, stackCalls>>

ReplaceFile(q) ==
  /\ stackCall[q].at = "replace"
  /\ fileText' = stackCall[q].text
  /\ StackEnds(q, "ok")
  /\ UNCHANGED <<bakText, service, pulled, registry, stackCalls>>

-----------------------------------------------------------------------------
(* The actions.                                                              *)

composeSteps(action) ==
  CASE action = "update" -> <<"pull", "up">>
    [] OTHER             -> <<action>>

(* stackAction, the POST routes: RunCompose, one command; its down leaves    *)
(* the containers of services the file no longer declares.                   *)
stackAction(q) ==
  \E action \in {"up", "down declared", "restart", "pull", "stop", "start"},
     only \in {""} \cup AllServices :
    /\ BeginStack(q, [NoStackCall EXCEPT !.at = "step", !.kind = action, !.steps = <<action>>,
                        !.stack = service, !.only = IF action = "down declared" THEN "" ELSE only])
    /\ UNCHANGED <<fileText, bakText, service, pulled, registry>>

(* handleStackRun, over the socket: every action, watched.                   *)
handleStackRun(q) ==
  \E action \in {"up", "down", "restart", "pull", "stop", "start", "build", "update", "recreate"},
     only \in {""} \cup AllServices :
    /\ BeginStack(q, [NoStackCall EXCEPT !.at = "step", !.kind = action,
                        !.steps = composeSteps(action), !.stack = service,
                        !.only = IF action = "down" THEN "" ELSE only])
    /\ UNCHANGED <<fileText, bakText, service, pulled, registry>>

(* What compose does for one command when it goes through.  up removes the   *)
(* orphans whatever service it is given, and recreates a container whose     *)
(* image moved; down removes them all.                                       *)
Named(c) == IF c.only = "" THEN Declares(fileText) ELSE {c.only} \cap Declares(fileText)

(* A mutant: up without --remove-orphans.                                    *)
Upped_KeepsOrphans(s, c) ==
  IF s \in Named(c) THEN [on |-> "running", image |-> pulled] ELSE service[s]

Upped(s, c) ==
  CASE s \in Named(c)              -> [on |-> "running", image |-> pulled]
    [] s \notin Declares(fileText) -> NoService
    [] OTHER                       -> service[s]

CommandDone(cmd, c) ==
  [s \in AllServices |->
     CASE cmd \in {"up", "recreate"} -> Upped(s, c)
       [] cmd = "down" -> NoService
       [] cmd = "down declared" -> IF s \in Named(c) THEN NoService ELSE service[s]
       [] cmd = "stop" /\ s \in Named(c) /\ service[s].on # "gone" -> [service[s] EXCEPT !.on = "exited"]
       [] cmd \in {"start", "restart"} /\ s \in Named(c) /\ service[s].on # "gone" ->
            [service[s] EXCEPT !.on = "running"]
       [] OTHER -> service[s]]

(* One step of RunComposeStream that goes through.                           *)
StepRuns(q) ==
  LET c == stackCall[q] IN
  /\ c.at = "step" /\ fileText # "none" /\ Parses(fileText)
  /\ service' = CommandDone(Head(c.steps), c)
  /\ pulled' = IF Head(c.steps) \in {"pull", "build"} THEN registry ELSE pulled
  /\ IF Len(c.steps) = 1
     THEN stackCall' = [stackCall EXCEPT ![q].at = "idle", ![q].result = "ok",
                          ![q].before = fileText]
     ELSE stackCall' = [stackCall EXCEPT ![q].steps = Tail(@)]
  /\ UNCHANGED <<fileText, bakText, registry, stackCalls>>

(* What a command that fails, or is killed because the browser left and its  *)
(* context ended, has done so far: any of the containers it was to change.   *)
SomeDone(cmd, c) ==
  {[s \in AllServices |-> IF s \in done THEN CommandDone(cmd, c)[s] ELSE service[s]]
     : done \in SUBSET AllServices}

(* A mutant: the sequence goes on after a step that failed.                  *)
StepFails_GoesOn(q) ==
  LET c == stackCall[q] IN
  /\ c.at = "step" /\ fileText # "none"
  /\ service' = (IF Len(c.steps) = 1 THEN service ELSE CommandDone(c.steps[2], c))
  /\ stackCall' = [stackCall EXCEPT ![q].at = "idle", ![q].result = "failed",
                            ![q].failedAt = Head(c.steps)]
  /\ UNCHANGED <<fileText, bakText, pulled, registry, stackCalls>>

(* A step that fails ends the sequence.                                      *)
StepFails(q) ==
  LET c == stackCall[q] IN
  /\ c.at = "step"
  /\ service' \in (IF fileText = "none" \/ ~Parses(fileText) THEN {service}
                   ELSE SomeDone(Head(c.steps), c))
  /\ stackCall' = [stackCall EXCEPT ![q].at = "idle", ![q].result = "failed",
                            ![q].failedAt = Head(c.steps)]
  /\ pulled' \in (IF Head(c.steps) = "pull" THEN {pulled, registry} ELSE {pulled})
  /\ UNCHANGED <<fileText, bakText, registry, stackCalls>>

ImagePublished ==
  /\ registry < MaxImages /\ registry' = registry + 1
  /\ UNCHANGED <<fileText, bakText, service, pulled, stackCall, stackCalls>>

(* The dashboard dies: writes in flight end where they are, and a command it *)
(* ran goes with it.                                                         *)
DashboardDies ==
  /\ \E q \in StackRequests : stackCall[q].at \in {"bak", "replace"}
  /\ stackCall' = [q \in StackRequests |-> NoStackCall]
  /\ UNCHANGED <<fileText, bakText, service, pulled, registry, stackCalls>>

StacksNext ==
  \/ \E q \in StackRequests :
       \/ handleStackCreate(q) \/ handleStackConfigWrite(q) \/ WriteBak(q) \/ ReplaceFile(q)
       \/ handleStackRun(q) \/ stackAction(q) \/ StepRuns(q) \/ StepFails(q)
  \/ ImagePublished \/ DashboardDies

StacksSpec == StacksInit /\ [][StacksNext]_stackVars

-----------------------------------------------------------------------------
Alone(q) == \A p \in StackRequests \ {q} : stackCall[p].kind = "none"

Commands == {"up", "down", "down declared", "restart", "pull", "stop", "start", "build", "recreate"}
ContainerRow == [on : {"gone", "running", "exited"}, image : Nat]
StackCall ==
  [at : {"idle", "bak", "replace", "step"}, kind : Commands \cup {"none", "new", "write", "update"},
   text : Texts \cup {"none"}, steps : Seq(Commands), only : {""} \cup AllServices,
   before : Texts \cup {"none"}, stack : [AllServices -> ContainerRow],
   result : {"none", "ok", "failed"}, failedAt : {""} \cup Commands]

StacksTypeOK ==
  /\ fileText \in Texts \cup {"none"} /\ bakText \in Texts \cup {"none"}
  /\ service \in [AllServices -> ContainerRow]
  /\ pulled \in Nat /\ registry \in Nat /\ stackCalls \in Nat
  /\ stackCall \in [StackRequests -> StackCall]

(* Where a request stands, and what it has found so far.                     *)
CallPlace(c) ==
  /\ c.kind \in {"none", "new", "write"} => c.at # "step"
  /\ c.at \in {"bak", "replace"} => c.kind = "write"
  /\ c.at # "idle" => c.result = "none"
  /\ c.failedAt # "" => c.at = "idle" /\ c.result = "failed"
  /\ c.kind = "write" /\ c.at = "idle" => c.result = "ok"
  /\ c.at = "step" => \/ c.kind # "update" /\ c.steps = <<c.kind>>
                      \/ c.kind = "update" /\ c.steps \in {<<"pull", "up">>, <<"up">>}

CallsPlace == \A q \in StackRequests : CallPlace(stackCall[q])

(* What a save under way has to go by: the text before it is still there or  *)
(* already kept; and an update has changed nothing until it has pulled.      *)
AloneSoFar ==
  \A q \in StackRequests :
    Alone(q) =>
      LET c == stackCall[q] IN
      /\ c.kind = "write" /\ c.at = "bak" => fileText = c.before
      /\ c.kind = "write" /\ c.at = "replace" => bakText = c.before
      /\ c.kind = "update" /\ c.at = "step" /\ c.steps = <<"pull", "up">> => service = c.stack

(* After a save by the only editor, the copy beside the file is what the     *)
(* file said before it, so a correct file that says the wrong thing can be   *)
(* undone (WriteComposeFile).                                                *)
BakUndoes ==
  \A q \in StackRequests :
    Alone(q) /\ stackCall[q].kind = "write" /\ stackCall[q].result = "ok"
      => bakText = stackCall[q].before

(* An update whose pull failed leaves the running stack as it was            *)
(* (composeSteps pulls first for that; RunComposeStream stops at a failure). *)
FailedPullLeavesStack ==
  \A q \in StackRequests :
    Alone(q) /\ stackCall[q].kind = "update" /\ stackCall[q].failedAt = "pull"
      => service = stackCall[q].stack

(* Once the stack has been brought up, no container is left of a service the *)
(* file it was brought up from no longer declares.                           *)
NoOrphansAfterUp ==
  \A q \in StackRequests :
    Alone(q) /\ stackCall[q].kind \in {"up", "update", "recreate"} /\ stackCall[q].result = "ok"
      => \A s \in AllServices : service[s].on # "gone" => s \in Declares(stackCall[q].before)

(* What an editor of a stack may rely on when nobody else works on it.       *)
StacksInv ==
  /\ StacksTypeOK /\ CallsPlace /\ AloneSoFar
  /\ BakUndoes /\ FailedPullLeavesStack /\ NoOrphansAfterUp
=============================================================================
