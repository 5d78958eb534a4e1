------------------------------- MODULE MCHost -------------------------------
(* Small instances of the parts that manage the host: the proxy's sites,     *)
(* the firewall with sshd and its keys behind it, fail2ban's jails, the      *)
(* recorder of metrics, containers, Compose stacks and the dashboard's own   *)
(* updates. Each behaviour is one part's; a part with several instances      *)
(* bounds one kind of step in each.                                          *)
EXTENDS ProxySites, SSHAccess, Jails, Metrics, SelfUpdate, Containers, Stacks, TLC

CONSTANT q1

VARIABLE part

-----------------------------------------------------------------------------
(* Sites: a proxy with everything on, a static site, a redirect whose custom *)
(* lines nginx rejects, and a stream; two texts written by hand.             *)
BareSite ==
  [name |-> "a", domains |-> {"d"}, kind |-> "proxy", upstream |-> "up", root |-> "",
   redirectTo |-> "", permanent |-> FALSE, tls |-> FALSE, cert |-> "", forceHTTPS |-> FALSE,
   hsts |-> FALSE, http2 |-> FALSE, ws |-> FALSE, gzip |-> FALSE, exploits |-> FALSE,
   headers |-> FALSE, body |-> "", timeout |-> 0, allow |-> <<>>, deny |-> <<>>,
   authFile |-> "", realm |-> "", log |-> FALSE, locations |-> <<>>, custom |-> ""]
Secure == [BareSite EXCEPT !.tls = TRUE, !.cert = "c1", !.forceHTTPS = TRUE]
FullSite ==
  [Secure EXCEPT !.hsts = TRUE, !.http2 = TRUE, !.ws = TRUE, !.gzip = TRUE, !.exploits = TRUE,
   !.headers = TRUE, !.body = "50m", !.timeout = 30, !.allow = <<"net">>, !.deny = <<"host">>,
   !.authFile = "pw", !.log = TRUE, !.custom = "x",
   !.locations = <<[path |-> "/api", upstream |-> "up2", root |-> "", ws |-> TRUE],
                   [path |-> "/img", upstream |-> "", root |-> "r", ws |-> FALSE]>>]
StaticSite ==
  [Secure EXCEPT !.name = "b", !.kind = "static", !.root = "r", !.deny = <<"host", "all">>]
BadRedirect ==
  [Secure EXCEPT !.name = "b", !.kind = "redirect", !.redirectTo = "t", !.permanent = TRUE,
   !.allow = <<"all">>, !.deny = <<"host">>, !.custom = "broken"]
MCSites == {FullSite, StaticSite, BadRedirect}
MCStreamSites ==
  {[name |-> "t", listen |-> 5432, protocol |-> "udp", upstream |-> "db", timeout |-> 5,
    allow |-> <<"net">>, proxyProtocol |-> TRUE]}
ByHand(d, v) == <<[loc |-> "", dir |-> d, val |-> v]>>
MCHandTexts == {ByHand("listen", "80"), ByHand("syntax", "error")}
MCUnacceptable == {ByHand("syntax", "error"), RenderNginx(BadRedirect)}
MCCovers(e, a) == (e = "net" /\ a \in {"in", "host"}) \/ e = a

SiteStep ==
  \/ part = "site form" /\ (FormStep \/ UnlockedStep)
  \/ part = "site editor" /\ (EditorStep \/ CertificateStep \/ (FormStep /\ files'["t"] = NoText))
  \/ part = "passwords" /\ AuthStep

(* Firewall: ssh open from the start, ports 80 and 22 allowed again, with a  *)
(* comment or together, and a network or everybody refused.                  *)
Rule(a, f, p, c) ==
  [action |-> a, dir |-> "in", from |-> f, ports |-> p, comment |-> c, v6 |-> FALSE]
SshRule == Rule("allow", "", {<<22, 22>>}, "")
MCFirstRules(b) == IF b = "ufw" THEN <<SshRule, [SshRule EXCEPT !.v6 = TRUE]>> ELSE <<SshRule>>
MCRules ==
  {Rule("allow", "", {<<80, 80>>}, ""), Rule("allow", "", {<<80, 80>>}, "note"),
   Rule("allow", "", {<<22, 22>>, <<80, 80>>}, ""), Rule("deny", "net", {}, ""),
   Rule("deny", "any", {}, "")}
MCSourceCovers(s, a) == s = "net"

FireStep ==
  /\ UNCHANGED fwBackend
  /\ \/ part = "rules" /\ RuleStep
     \/ part = "policy" /\ RuleStep /\ fwOps' <= 1
     \/ part = "policy" /\ SettingStep /\ fw = [q \in FwRequests |-> FwIdle]
     \/ /\ part = "firewalld" /\ (RuleStep \/ SettingStep)
        /\ fwOps' <= 2 /\ fw'[q1].kind # "replace"

(* sshd: a main file that includes the drop-ins first, and one that says     *)
(* passwords twice before it does.                                           *)
Says(k, v) == [key |-> k, value |-> v]
MCMainFiles ==
  {<<Says("include", {"d"}), Says("port", {"22"}), Says("passwordauthentication", {"yes"})>>,
   <<Says("passwordauthentication", {"yes"}), Says("passwordauthentication", {"no"}),
     Says("include", {"d"})>>}
MCSshChanges ==
  {"passwordauthentication" :> {"no"}, "port" :> {"2222"},
   ("allowusers" :> {"root"}) @@ ("permitrootlogin" :> {"no"}),
   ("allowusers" :> {}) @@ ("port" :> {"22"})}
MCEarlier == <<>>
MCPortNumber(w) == CASE w = "22" -> 22 [] w = "2222" -> 2222 [] OTHER -> 0

(* fail2ban: two jails, tuned within and below what it accepts; both ban the *)
(* address the requests come from, one of them another too.                  *)
MCShipped == ("bantime" :> 600) @@ ("findtime" :> 600) @@ ("maxretry" :> 5)
MCParamChanges == {"maxretry" :> 3, "bantime" :> 60, "bantime" :> 59}

(* Metrics: a calm host, and one under pressure with a full filesystem.      *)
Mount(used, inodes) == [used |-> used, inodes |-> inodes, total |-> 1]
Calm ==
  [cpu |-> 0, steal |-> 0, iowait |-> 0, blocked |-> 0, load5 |-> 0, cores |-> 2,
   mounts |-> [m \in Mounts |-> Mount(0, 0)], memTotal |-> 100, memAvail |-> 50,
   swapTotal |-> 1, swap |-> 0, psi |-> [k \in {"cpu", "io"} |-> 0], supported |-> TRUE,
   timeWait |-> 0, drops |-> 0]
MCLoads ==
  {Calm, [Calm EXCEPT !.cpu = 20, !.steal = 6, !.iowait = 20, !.blocked = 1, !.load5 = 2,
          !.mounts = [m \in Mounts |-> IF m = "root" THEN Mount(0, 90) ELSE Mount(93, 0)],
          !.memAvail = 9, !.psi["io"] = 12, !.drops = 2000]}
MCUnread == {{}, {"uptime", "mounts"}, {"net"}}

MetricsStep ==
  /\ MetricsNext
  /\ part \in {"history", "reboots"} =>
       carried' = 0 /\ boxSamples' = <<>> /\ (collector'.at # 0 => collector'.read)
  /\ part = "history" => boots' = boots /\ ~rec'.cancelled /\ clock' <= 4
  /\ part = "traffic" =>
       /\ clock' <= 3 /\ mountSamples' = <<>> /\ boots' = boots /\ ~rec'.cancelled
       /\ rec'.snap # <<>> => rec'.snap.uptime > 0
       /\ clock' < 3 => level' = level
  /\ part = "reboots" =>
       /\ level' = level /\ mountSamples' = <<>>
       /\ rec'.cancelled => clock' <= 3

(* Updates: manifests without a latest release, with one, and with one that  *)
(* is not among the releases or sorts differently as text; notices dismissed  *)
(* around one update; one update with a second restart; and a second update, *)
(* both with no check of the manifest under way.                             *)
Offered(v) == [version |-> v, complete |-> TRUE, breaking |-> FALSE, noted |-> FALSE]
FirstManifest == [latest |-> <<>>, releases |-> <<Offered(<<0, 6>>)>>]
MCManifests ==
  {FirstManifest} \union
  {[latest |-> v, releases |-> <<Offered(<<0, 6>>), Offered(<<0, 7>>)>>] : v \in {<<0, 7>>, <<0, 8>>}}
  \union
  {[latest |-> <<0, 10>>, releases |-> <<Offered(<<0, 10>>), Offered(<<0, 6>>), Offered(<<0, 7>>)>>]}
MCListings ==
  {[failed |-> TRUE, containers |-> {}],
   [failed |-> FALSE,
    containers |-> {[mountsData |-> TRUE, service |-> "backend", ours |-> TRUE, image |-> "name",
                     workDir |-> "/opt", compose |-> "compose.yml"]}]}
MCDisk == "/opt" :> [visible |-> TRUE, git |-> TRUE, files |-> {"compose.yml"}]
MCFirstVersion == <<0, 6, 0>>
UpdateStep ==
  /\ SelfUpdateNext
  /\ bootings' > 1 \/ updateRuns' > 1 =>
       ~check'.busy /\ \A d \in Dismissers : dismissing'[d] = "idle"
  /\ bootings' > 1 => updateRuns' <= 1

(* Containers: one that runs, and edits of it the daemon takes or refuses.   *)
Plain == [EmptySpec EXCEPT !.restart = "always", !.limits.memory = 1]
MCSpecs ==
  {[Plain EXCEPT !.health.test = <<"t">>, !.health.timeout = 5, !.networks = <<"a", "b">>,
                 !.ports = {[container |-> 80, host |-> 0, ip |-> ""]}],
   [Plain EXCEPT !.autoRemove = TRUE], [EmptySpec EXCEPT !.autoRemove = TRUE]}
MCBoxes ==
  [i \in BoxIds |-> IF i = "b1"
                    THEN [name |-> <<"web">>, on |-> "running", config |-> toEngine(Plain), stack |-> FALSE]
                    ELSE NoBox]
MCRoots(p) == p = "/srv"
\* Requests under way together ask for one specification of an image that is here.
ContainersStep ==
  /\ ContainersNext
  /\ \A q, r \in BoxRequests :
       (q # r /\ boxCall'[q].at # "idle" /\ boxCall'[r].at # "idle") =>
         boxCall'[q].spec = boxCall'[r].spec /\ present /\ ~boxCall'[q].pull

(* Stacks: two files of two services each that share one, and a broken file. *)
MCDeclares(t) == CASE t = "one" -> {"web", "db"} [] t = "two" -> {"web", "cache"} [] OTHER -> {}
MCParses(t) == t \in {"one", "two"}

-----------------------------------------------------------------------------
MCVars == <<part, proxyVars, fwVars, sshVars, jailVars, metricVars, selfUpdateVars,
            containerVars, stackVars>>

\* What a part's behaviours do not depend on starts in one state.
Rest ==
  /\ part # "site editor" => certs = IF part = "site form" THEN Certs ELSE {}
  /\ fwBackend = (IF part = "firewalld" THEN "firewalld" ELSE "ufw")
  /\ part \notin {"policy", "firewalld", "ssh"} => enabled
  /\ part # "ssh" => sshMain = (CHOOSE m \in MainFiles : TRUE) /\ socketAt = {}
  /\ part # "history" => level = Calm
  /\ part # "updates" => published = FirstManifest
  /\ part # "containers" => present
  /\ part # "stacks" => fileText = "none"

MCInit ==
  /\ part \in {"site form", "site editor", "passwords", "rules", "policy", "firewalld", "ssh",
               "jails", "history", "traffic", "reboots", "updates", "containers", "stacks"}
  /\ ProxyInit /\ FirewallInit /\ SshInit /\ JailsInit /\ MetricsInit /\ SelfUpdateInit
  /\ ContainersInit /\ StacksInit /\ Rest

MCNext ==
  /\ UNCHANGED part
  /\ \/ /\ SiteStep
        /\ UNCHANGED <<fwVars, sshVars, jailVars, metricVars, selfUpdateVars, containerVars, stackVars>>
     \/ /\ FireStep
        /\ UNCHANGED <<proxyVars, sshVars, jailVars, metricVars, selfUpdateVars, containerVars, stackVars>>
     \/ /\ part = "ssh" /\ SshNext
        /\ UNCHANGED <<proxyVars, fwVars, jailVars, metricVars, selfUpdateVars, containerVars, stackVars>>
     \/ /\ part = "jails" /\ JailsNext /\ "you" \notin banned'["web"]
        /\ UNCHANGED <<proxyVars, fwVars, sshVars, metricVars, selfUpdateVars, containerVars, stackVars>>
     \/ /\ part \in {"history", "traffic", "reboots"} /\ MetricsStep
        /\ UNCHANGED <<proxyVars, fwVars, sshVars, jailVars, selfUpdateVars, containerVars, stackVars>>
     \/ /\ part = "updates" /\ UpdateStep
        /\ UNCHANGED <<proxyVars, fwVars, sshVars, jailVars, metricVars, containerVars, stackVars>>
     \/ /\ part = "containers" /\ ContainersStep
        /\ UNCHANGED <<proxyVars, fwVars, sshVars, jailVars, metricVars, selfUpdateVars, stackVars>>
     \/ /\ part = "stacks" /\ StacksNext
        /\ UNCHANGED <<proxyVars, fwVars, sshVars, jailVars, metricVars, selfUpdateVars, containerVars>>

MCSpec == MCInit /\ [][MCNext]_MCVars

\* Requests on containers differ in nothing but their name.
BoxSymmetry == Permutations(BoxRequests)

\* Containers alone.
ContainerSpec == MCInit /\ part = "containers" /\ [][MCNext]_MCVars
=============================================================================
