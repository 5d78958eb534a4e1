------------------------------- MODULE Jails --------------------------------
(***************************************************************************)
(* fail2ban's jails (backend/internal/netsec/fail2ban.go and               *)
(* fail2ban_persist.go with their routes): parameters and allowlists set   *)
(* on the running server and written to a drop-in, bans and releases.      *)
(*                                                                         *)
(* The drop-in holds every jail the operator has tuned; a request reads    *)
(* it, merges one jail's section and replaces it, without a lock.          *)
(* fail2ban itself is external: it may be stopped, it refuses commands     *)
(* then, and it starts from its own defaults and the drop-in.              *)
(***************************************************************************)
EXTENDS Integers, FiniteSets

CONSTANTS
  JailNames,
  Shipped,          \* the distribution's parameters: param -> value
  ParamChanges,     \* what the jail form may send: param -> value
  BannedAddresses,  \* addresses bans and allowlists are about
  OwnAddress,       \* the address the operator is connected from
  JailRequests,     \* requests in flight
  MaxJailOps        \* bound: changes begun

Params == {"bantime", "findtime", "maxretry"}
Bounds(p) == CASE p = "bantime" -> 60..31536000 [] p = "findtime" -> 30..604800 [] OTHER -> 1..100
\* What a form sends and what a section of the file says: values for some parameters.
TunedTo == UNION {{f[p] : p \in DOMAIN f} : f \in ParamChanges \union {Shipped}}
Tunings == UNION {[D -> TunedTo] : D \in SUBSET Params}

ASSUME JailsAssumption ==
  /\ MaxJailOps \in Nat /\ Shipped \in Tunings /\ ParamChanges \subseteq Tunings

VARIABLES
  running,    \* the server: jail -> parameters
  ignored,    \* the server: jail -> allowlisted addresses
  banned,     \* the server: jail -> banned addresses
  up,         \* whether fail2ban runs
  dropIn,     \* jail.d's file: jail -> section, a partial map of parameters
  jailReq,    \* each request: its step and the file it has read
  asked,      \* history: jail -> the parameters set on this page
  listed,     \* history: jail -> the addresses allowlisted on this page
  tunedAtOnce, \* history: a request has begun before another was answered
  jailOps

jailVars == <<running, ignored, banned, up, dropIn, jailReq, asked, listed, tunedAtOnce, jailOps>>

NoSection == [params |-> <<>>, ignore |-> {"unset"}]
NoJailRequest == [at |-> "none", jail |-> "", change |-> <<>>, list |-> {}, file |-> <<>>]

JailsInit ==
  /\ running = [j \in JailNames |-> Shipped] /\ ignored = [j \in JailNames |-> {}]
  /\ banned = [j \in JailNames |-> {}] /\ up = TRUE
  /\ dropIn = [j \in JailNames |-> NoSection]
  /\ jailReq = [q \in JailRequests |-> NoJailRequest]
  /\ asked = [j \in JailNames |-> <<>>] /\ listed = [j \in JailNames |-> {}]
  /\ tunedAtOnce = FALSE /\ jailOps = 0

Begins(q, r) ==
  /\ jailReq[q] = NoJailRequest /\ jailOps < MaxJailOps /\ jailOps' = jailOps + 1
  /\ jailReq' = [jailReq EXCEPT ![q] = r]
  /\ tunedAtOnce' = (tunedAtOnce \/ \E p \in JailRequests : jailReq[p] # NoJailRequest)

Override(f, c) == [p \in DOMAIN f \union DOMAIN c |-> IF p \in DOMAIN c THEN c[p] ELSE f[p]]
\* Faulty variant: the file is written from the one jail being edited.
mergeJailOverrides_Alone(file, jail, change, list) ==
  [j \in JailNames |-> IF j = jail THEN [params |-> change, ignore |-> list] ELSE NoSection]
\* The jail's section is rewritten, its other keys and the other jails stay; list
\* is {"unset"} when the allowlist is not being written.
mergeJailOverrides(file, jail, change, list) ==
  [file EXCEPT ![jail] = [params |-> Override(@.params, change),
                          ignore |-> IF list = {"unset"} THEN @.ignore ELSE list]]

\* SetJailParams: on the running server, if there is one, and in the file either
\* way.
SetJailParams(q, j, c) ==
  /\ DOMAIN c # {} /\ DOMAIN c \subseteq Params /\ \A p \in DOMAIN c : c[p] \in Bounds(p)
  /\ Begins(q, [at |-> "read", jail |-> j, change |-> c, list |-> {"unset"}, file |-> <<>>])
  /\ running' = IF up THEN [running EXCEPT ![j] = Override(@, c)] ELSE running
  /\ asked' = [asked EXCEPT ![j] = Override(@, c)]
  /\ UNCHANGED <<ignored, banned, up, dropIn, listed>>
\* IgnoreIP: the list is read back from the server and written whole.
IgnoreIP(q, j, a, add) ==
  /\ up
  /\ LET list == IF add THEN ignored[j] \union {a} ELSE ignored[j] \ {a} IN
       /\ ignored' = [ignored EXCEPT ![j] = list]
       /\ Begins(q, [at |-> "list", jail |-> j, change |-> <<>>, list |-> {}, file |-> <<>>])
  /\ listed' = [listed EXCEPT ![j] = IF add THEN @ \union {a} ELSE @ \ {a}]
  /\ UNCHANGED <<running, banned, up, dropIn, asked>>
JailConfig(q) ==
  /\ jailReq[q].at = "list"
  /\ jailReq' = [jailReq EXCEPT ![q].at = "read",
                                ![q].list = IF up THEN ignored[jailReq[q].jail] ELSE {}]
  /\ UNCHANGED <<running, ignored, banned, up, dropIn, asked, listed, tunedAtOnce, jailOps>>
ReadOverride(q) ==
  /\ jailReq[q].at = "read"
  /\ jailReq' = [jailReq EXCEPT ![q].at = "write", ![q].file = dropIn]
  /\ UNCHANGED <<running, ignored, banned, up, dropIn, asked, listed, tunedAtOnce, jailOps>>
writeJailOverride(q) ==
  /\ jailReq[q].at = "write"
  /\ dropIn' = mergeJailOverrides(jailReq[q].file, jailReq[q].jail, jailReq[q].change, jailReq[q].list)
  /\ jailReq' = [jailReq EXCEPT ![q] = NoJailRequest]
  /\ UNCHANGED <<running, ignored, banned, up, asked, listed, tunedAtOnce, jailOps>>

\* A ban of the address the operator is connected from is refused.
Ban(j, a) ==
  /\ up /\ a # OwnAddress /\ banned' = [banned EXCEPT ![j] = @ \union {a}]
  /\ UNCHANGED <<running, ignored, up, dropIn, jailReq, asked, listed, tunedAtOnce, jailOps>>
Unban(j, a) ==
  /\ up /\ a \in banned[j] /\ banned' = [banned EXCEPT ![j] = @ \ {a}]
  /\ UNCHANGED <<running, ignored, up, dropIn, jailReq, asked, listed, tunedAtOnce, jailOps>>
UnbanAll(j) ==
  /\ up /\ banned[j] # {} /\ banned' = [banned EXCEPT ![j] = {}]
  /\ UNCHANGED <<running, ignored, up, dropIn, jailReq, asked, listed, tunedAtOnce, jailOps>>

\* fail2ban stops, and starts from the files (external).
Fail2banStops ==
  /\ up /\ up' = FALSE /\ UNCHANGED <<running, ignored, banned, dropIn, jailReq, asked, listed, tunedAtOnce, jailOps>>
AtStart(j) == Override(Shipped, dropIn[j].params)
IgnoredAtStart(j) == IF dropIn[j].ignore = {"unset"} THEN {} ELSE dropIn[j].ignore
Fail2banStarts ==
  /\ ~up /\ up' = TRUE
  /\ running' = [j \in JailNames |-> AtStart(j)] /\ ignored' = [j \in JailNames |-> IgnoredAtStart(j)]
  /\ UNCHANGED <<banned, dropIn, jailReq, asked, listed, tunedAtOnce, jailOps>>

JailsNext ==
  \/ \E q \in JailRequests, j \in JailNames :
       \/ \E c \in ParamChanges : SetJailParams(q, j, c)
       \/ \E a \in BannedAddresses, add \in BOOLEAN : IgnoreIP(q, j, a, add)
  \/ \E q \in JailRequests : JailConfig(q) \/ ReadOverride(q) \/ writeJailOverride(q)
  \/ \E j \in JailNames : UnbanAll(j) \/ \E a \in BannedAddresses : Ban(j, a) \/ Unban(j, a)
  \/ Fail2banStops \/ Fail2banStarts
JailsSpec == JailsInit /\ [][JailsNext]_jailVars
-----------------------------------------------------------------------------
Answered == \A q \in JailRequests : jailReq[q] = NoJailRequest
\* Once the requests are answered, every parameter set on the page is the one
\* fail2ban starts with, whatever was set for the other jails since, as long as no
\* two requests were under way at once (SetJailParams, mergeJailOverrides).
TuningSurvivesRestart ==
  Answered /\ ~tunedAtOnce =>
    \A j \in JailNames : \A p \in DOMAIN asked[j] : AtStart(j)[p] = asked[j][p]

JailSections == [params : Tunings, ignore : SUBSET (BannedAddresses \union {"unset"})]
JailFiles == [JailNames -> JailSections]
JailCalls ==
  [at : {"none", "list", "read", "write"}, jail : JailNames \union {""}, change : Tunings,
   list : SUBSET (BannedAddresses \union {"unset"}), file : JailFiles \union {<<>>}]
JailsTypeOK ==
  /\ running \in [JailNames -> Tunings] /\ ignored \in [JailNames -> SUBSET (BannedAddresses \union {"unset"})]
  /\ banned \in [JailNames -> SUBSET BannedAddresses] /\ up \in BOOLEAN
  /\ dropIn \in JailFiles /\ asked \in [JailNames -> Tunings]
  /\ listed \in [JailNames -> SUBSET BannedAddresses] /\ tunedAtOnce \in BOOLEAN /\ jailOps \in 0..MaxJailOps
  /\ jailReq \in [JailRequests -> JailCalls]
  /\ \A q \in JailRequests : jailReq[q].at = "write" => jailReq[q].file \in JailFiles
  /\ \A q \in JailRequests : jailReq[q].at # "none" => jailReq[q].jail \in JailNames

\* A request under way is the only one, and what it has read is what the file
\* still says.
OneTuning ==
  ~tunedAtOnce =>
    /\ \A p, q \in JailRequests :
         jailReq[p] # NoJailRequest /\ jailReq[q] # NoJailRequest => p = q
    /\ \A q \in JailRequests : jailReq[q].at = "write" => jailReq[q].file = dropIn

\* What was asked is in the file or in the request that is about to write it
\* (mergeJailOverrides).
SaysAsked(f, j) == \A p \in DOMAIN asked[j] : p \in DOMAIN f /\ f[p] = asked[j][p]
Coming(q, j) ==
  IF j = jailReq[q].jail THEN Override(dropIn[j].params, jailReq[q].change) ELSE dropIn[j].params
TuningsComing ==
  ~tunedAtOnce =>
    \A j \in JailNames :
      /\ Answered => SaysAsked(dropIn[j].params, j)
      /\ \A q \in JailRequests : jailReq[q] # NoJailRequest => SaysAsked(Coming(q, j), j)

\* The file holds every tuning of every jail, of any number of requests one after
\* the other, with fail2ban stopped and started in between.
TuningInv == JailsTypeOK /\ OneTuning /\ TuningsComing /\ TuningSurvivesRestart

\* And every address put on the allowlist is on it after a restart (IgnoreIP).
AllowlistSurvivesRestart == Answered => \A j \in JailNames : listed[j] \subseteq IgnoredAtStart(j)
=============================================================================
