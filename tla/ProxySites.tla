----------------------------- MODULE ProxySites -----------------------------
(***************************************************************************)
(* The proxy page's changes to nginx (backend/internal/proxysvc and        *)
(* handlers_proxy*.go): sites and streams written from the form, the       *)
(* config editor, the dry run, enabling and disabling, deletion, reloads,  *)
(* certificates and password files.                                        *)
(*                                                                         *)
(* Service.mu serialises the operations that write configuration; Reload,  *)
(* SetVHostEnabled, certbot jobs and password files do not take it, so the *)
(* operations under the lock are several steps.  nginx is external: it     *)
(* reads what sites-enabled links to and the included streams, its test    *)
(* fails when one of these is missing, unacceptable or names a certificate *)
(* that is not there, and it keeps serving what it loaded last.            *)
(*                                                                         *)
(* A file is the sequence of its directives, each with the location block  *)
(* it stands in ("" at server level).  Comments, layout and directives     *)
(* that depend on no field are left out; a value is a member of a small    *)
(* set, "" when the field is not set, and "bad" stands for any text the    *)
(* field's pattern refuses.                                                *)
(***************************************************************************)
EXTENDS Integers, Sequences, FiniteSets, SequencesExt

CONSTANTS
  Covers(_, _),     \* whether an entry of an access list covers an address
  SiteSpecInputs,   \* specs the site form may send
  StreamInputs,     \* specs the stream form may send
  HandTexts,        \* files the config editor may send
  Unacceptable,     \* files nginx refuses
  Debian,           \* sites-available and sites-enabled exist; else conf.d
  StreamsIncluded,  \* nginx.conf includes stream.d
  Certs,            \* certificates there may be
  Addresses,        \* addresses of visitors
  AuthFiles, AuthUsers, AuthRequests,
  MaxProxyOps       \* bound: operations begun

ASSUME ProxyAssumption ==
  Debian \in BOOLEAN /\ StreamsIncluded \in BOOLEAN /\ MaxProxyOps \in Nat

VARIABLES
  files,      \* configuration files: name -> content, NoText when absent
  backups,    \* the .bak copies
  links,      \* sites-enabled: name -> "none", "here", or a link spelled "otherwise"
  lock,       \* the operation holding Service.mu
  loaded,     \* what nginx serves: name -> content
  reload,     \* a Reload between its test and its signal
  toggle,     \* a SetVHostEnabled between its check and its link
  certs,      \* certificates on disk
  auth,       \* password files: name -> users, or NoFile
  authReq,    \* what each password request has read
  saved,      \* history: the content last saved under each name
  before,     \* history: files and links when the lock was taken
  proxyOps

proxyVars == <<files, backups, links, lock, loaded, reload, toggle, certs, auth, authReq,
               saved, before, proxyOps>>

---------------------------------------------------------------------------
(* Which specs the form may send, the file a spec is rendered to, and the  *)
(* spec a file is read back as.                                            *)

acmeChallengePath == "/.well-known/acme-challenge/"
exploitDotLocation == "~dot"
bad == "bad"

validACLEntry(e) == e # bad
validUpstream(u) == u \notin {"", bad}

\* What ValidateSpec accepts.
ValidateSpec(s) ==
  /\ s.name # bad /\ s.domains # {} /\ bad \notin s.domains
  /\ CASE s.kind = "proxy"    -> validUpstream(s.upstream)
       [] s.kind = "static"   -> s.root \notin {"", bad}
       [] s.kind = "redirect" -> s.redirectTo \notin {"", bad}
       [] OTHER               -> FALSE
  /\ s.tls => s.cert \notin {"", bad}
  /\ s.body # bad /\ s.timeout \in 0..3600 /\ s.authFile # bad /\ s.realm # bad
  /\ \A e \in ToSet(s.allow) \union ToSet(s.deny) : validACLEntry(e)
  /\ \A i \in DOMAIN s.locations :
       LET l == s.locations[i] IN
         /\ l.path # bad
         /\ l.path = "/" => s.kind = "redirect"
         /\ \A j \in 1..i - 1 : s.locations[j].path # l.path
         /\ IF l.upstream # "" THEN validUpstream(l.upstream) ELSE l.root \notin {"", bad}
  /\ s.custom # bad

\* Legal, and probably not what was meant.
SpecWarnings(s) ==
  {w \in {"plain", "http", "hsts", "websocket timeout", "locations", "password", "allow list"} :
     CASE w = "plain"      -> ~s.tls /\ s.kind # "redirect"
       [] w = "http"       -> s.tls /\ ~s.forceHTTPS
       [] w = "hsts"       -> s.hsts /\ ~s.tls
       [] w = "websocket timeout" -> s.ws /\ s.timeout \in 1..59
       [] w = "locations"  -> s.kind # "proxy" /\ s.locations # <<>>
       [] w = "password"   -> s.authFile # "" /\ s.kind = "redirect"
       [] w = "allow list" -> s.allow # <<>>}

Line(loc, directive, value) == <<[loc |-> loc, dir |-> directive, val |-> value]>>
When(condition, lines) == IF condition THEN lines ELSE <<>>
Each(seq, Op(_)) == FlattenSeq([i \in DOMAIN seq |-> Op(seq[i])])

renderRedirectServer(s) ==
  Line("", "server_name", s.domains)
  \o Line(acmeChallengePath, "location", "") \o Line(acmeChallengePath, "root", "/var/www/html")
  \o Line("/", "location", "") \o Line("/", "return", "$host$request_uri")

renderListen(s) ==
  IF ~s.tls THEN Line("", "listen", "80")
  ELSE Line("", "listen", "443 ssl") \o When(s.http2, Line("", "http2", "on"))
       \o When(~s.forceHTTPS, Line("", "listen", "80"))

renderHeaders(s) ==
  When(s.hsts /\ s.tls, Line("", "add_header", "Strict-Transport-Security"))
  \o When(s.headers, Line("", "add_header", "X-Content-Type-Options"))

renderServerOptions(s) ==
  When(s.body # "", Line("", "client_max_body_size", s.body))
  \o When(s.gzip, Line("", "gzip", "on"))
  \o Line("", "access_log", IF s.log THEN s.name ELSE "off")

containsDenyAll(list) == \E i \in DOMAIN list : list[i] = "all"

\* Denials first, since the first match wins; the fence goes last.
Deny(e) == When(e # "all", Line("", "deny", e))
Allow(e) == Line("", "allow", e)
\* Faulty variant: the allow list is written before the exceptions to it.
accessRules_AllowFirst(s) ==
  Each(s.allow, Allow) \o Each(s.deny, Deny)
  \o When(s.allow # <<>> \/ containsDenyAll(s.deny), Line("", "deny", "all"))
accessRules(s) ==
  Each(s.deny, Deny) \o Each(s.allow, Allow)
  \o When(s.allow # <<>> \/ containsDenyAll(s.deny), Line("", "deny", "all"))

renderAccess(s) ==
  When(s.authFile # "", Line("", "auth_basic", IF s.realm = "" THEN "Restricted" ELSE s.realm)
                        \o Line("", "auth_basic_user_file", s.authFile))
  \o accessRules(s)

\* A location with a root serves files, whatever its upstream says.
renderLocation(path, upstream, root, ws, timeout) ==
  Line(path, "location", "")
  \o IF root # "" THEN Line(path, "root", root)
     ELSE Line(path, "proxy_pass", upstream)
          \o When(ws, Line(path, "proxy_set_header", "Upgrade"))
          \o When(timeout > 0, Line(path, "proxy_read_timeout", timeout))

RenderNginx(s) ==
  Line("", "#", "managed")
  \o When(s.tls /\ s.forceHTTPS, renderRedirectServer(s))
  \o renderListen(s) \o Line("", "server_name", s.domains)
  \o When(s.tls, Line("", "ssl_certificate", s.cert))
  \o renderHeaders(s) \o renderServerOptions(s) \o renderAccess(s)
  \o CASE s.kind = "redirect" ->
            Line("", IF s.permanent THEN "return 301" ELSE "return 302", s.redirectTo)
       [] s.kind = "static" -> Line("", "root", s.root) \o Line("/", "location", "")
       [] OTHER ->
            Each(s.locations, LAMBDA l : renderLocation(l.path, l.upstream, l.root, l.ws, s.timeout))
            \o renderLocation("/", s.upstream, "", s.ws, s.timeout)
  \o When(s.exploits, Line(exploitDotLocation, "location", "")
                      \o Line(exploitDotLocation, "deny", "all"))
  \o When(s.custom # "", Line("", "# custom", s.custom))

-----------------------------------------------------------------------------
(* Reading a file back *)

\* The values of some of a file's lines.
Values(lines) == [i \in DOMAIN lines |-> lines[i].val]
LastOr(seq, default) == IF seq = <<>> THEN default ELSE Last(seq)
Value(file, directive, default) == LastOr(Values(SelectSeq(file, LAMBDA l : l.dir = directive)), default)
Holds(file, directive, value) == \E i \in DOMAIN file : file[i].dir = directive /\ file[i].val = value

\* Which location blocks are read back as locations of the operator's own: not
\* the catch-all, not the challenge path of the redirect block.
\* Faulty variant: the challenge path is read back as a location.
OwnLocation_Acme(path) == path \notin {"/", exploitDotLocation}
OwnLocation(path) == path \notin {"/", acmeChallengePath, exploitDotLocation}

\* The fields of the block of one location; a block with neither an upstream nor
\* a root is dropped.
ReadLocation(file, path) ==
  LET In(directive) == Values(SelectSeq(file, LAMBDA l : l.loc = path /\ l.dir = directive))
  IN  [path |-> path, upstream |-> LastOr(In("proxy_pass"), ""), root |-> LastOr(In("root"), ""),
       ws |-> In("proxy_set_header") # <<>>]
ReadLocations(file) ==
  LET opened == SelectSeq(file, LAMBDA l : l.dir = "location" /\ OwnLocation(l.loc))
      read   == [i \in DOMAIN opened |-> ReadLocation(file, opened[i].loc)]
  IN  SelectSeq(read, LAMBDA l : l.upstream # "" \/ l.root # "")

ParseSiteSpec(name, file) ==
  LET AtSite(directive) ==
        Values(SelectSeq(file, LAMBDA l : l.dir = directive /\ l.loc \in {"", "/"}))
      AtServer(directive) == Values(SelectSeq(file, LAMBDA l : l.dir = directive /\ l.loc = ""))
      upstream == LastOr(AtSite("proxy_pass"), "")
      root == LastOr(AtSite("root"), "")
      moved == AtServer("return 301") \o AtServer("return 302")
      plainRedirect == Holds(file, "return", "$host$request_uri")
      tls == Holds(file, "listen", "443 ssl")
      onlyRedirects == moved = <<>> /\ upstream = "" /\ root = "" /\ plainRedirect
      domains == UNION ToSet(Values(SelectSeq(file, LAMBDA l : l.dir = "server_name")))
  IN  [name |-> name, domains |-> domains,
       kind |-> IF moved # <<>> \/ onlyRedirects THEN "redirect"
                ELSE IF upstream = "" /\ root # "" THEN "static" ELSE "proxy",
       upstream |-> upstream, root |-> root,
       redirectTo |-> IF onlyRedirects THEN "https://self" ELSE LastOr(moved, ""),
       permanent |-> onlyRedirects \/ AtServer("return 301") # <<>>,
       tls |-> tls, cert |-> Value(file, "ssl_certificate", ""),
       forceHTTPS |-> tls /\ plainRedirect,
       hsts |-> Holds(file, "add_header", "Strict-Transport-Security"),
       http2 |-> Value(file, "http2", "off") = "on",
       ws |-> \E i \in DOMAIN file : file[i].dir = "proxy_set_header" /\ ~OwnLocation(file[i].loc),
       gzip |-> Value(file, "gzip", "off") = "on",
       exploits |-> \E i \in DOMAIN file : file[i].loc = exploitDotLocation,
       headers |-> Holds(file, "add_header", "X-Content-Type-Options"),
       body |-> Value(file, "client_max_body_size", ""),
       timeout |-> Value(file, "proxy_read_timeout", 0),
       allow |-> AtServer("allow"), deny |-> AtServer("deny"),
       authFile |-> Value(file, "auth_basic_user_file", ""),
       realm |-> Value(file, "auth_basic", ""),
       log |-> Value(file, "access_log", "off") # "off",
       locations |-> ReadLocations(file), custom |-> Value(file, "# custom", "")]
Managed(file) == Holds(file, "#", "managed")

-----------------------------------------------------------------------------
(* Streams *)

ValidateStream(s) ==
  /\ s.name # bad /\ s.listen \in 1..65535 /\ s.protocol \in {"", "tcp", "udp"}
  /\ validUpstream(s.upstream) /\ s.timeout \in 0..86400
  /\ \A e \in ToSet(s.allow) : validACLEntry(e)
RenderStream(s) ==
  Line("", "#", "managed") \o Line("", "server", s.upstream)
  \o Line("", IF s.protocol = "udp" THEN "listen udp" ELSE "listen tcp", s.listen)
  \o When(s.allow # <<>>, Each(s.allow, Allow) \o Line("", "deny", "all"))
  \o When(s.proxyProtocol, Line("", "proxy_protocol", "on"))
  \o When(s.timeout > 0, Line("", "proxy_timeout", s.timeout))
ParseStreamSpec(name, file) ==
  [name |-> name, upstream |-> Value(file, "server", ""),
   protocol |-> IF \E i \in DOMAIN file : file[i].dir = "listen udp" THEN "udp" ELSE "tcp",
   listen |-> LastOr(Values(SelectSeq(file, LAMBDA l : l.dir \in {"listen udp", "listen tcp"})), 0),
   allow |-> Values(SelectSeq(file, LAMBDA l : l.dir = "allow")),
   proxyProtocol |-> Holds(file, "proxy_protocol", "on"),
   timeout |-> Value(file, "proxy_timeout", 0)]

-----------------------------------------------------------------------------
(* What nginx makes of the access rules: the first one that matches decides,  *)
(* and without a match the visitor is let in.                                 *)
Admits(file, a) ==
  LET rules == SelectSeq(file, LAMBDA l : l.loc = "" /\ l.dir \in {"allow", "deny"})
      match == {i \in DOMAIN rules : rules[i].val = "all" \/ Covers(rules[i].val, a)}
  IN  match = {} \/ rules[CHOOSE i \in match : \A j \in match : i <= j].dir = "allow"

\* What the form says: a visitor on the deny list is refused, and an allow list
\* admits nobody else.
Wanted(s, a) ==
  /\ \A i \in DOMAIN s.deny : s.deny[i] # "all" => ~Covers(s.deny[i], a)
  /\ \/ s.allow = <<>> /\ ~containsDenyAll(s.deny)
     \/ \E i \in DOMAIN s.allow : s.allow[i] = "all" \/ Covers(s.allow[i], a)

---------------------------------------------------------------------------
(* The files and what nginx makes of them.                                 *)

SiteNames == {s.name : s \in SiteSpecInputs}
StreamNames == {s.name : s \in StreamInputs}
Names == SiteNames \union StreamNames
NoText == <<>>
NoFile == {"absent"}
Unlocked == [op |-> "none", name |-> "", text |-> NoText, kept |-> NoText, at |-> "",
             enable |-> FALSE, reload |-> FALSE]
NoToggle == [name |-> "", at |-> "none"]
NoRequest == [at |-> "none", file |-> "", user |-> "", users |-> {}]

\* What nginx reads, and whether nginx -t accepts it (external).
ReadBy(n) ==
  IF n \in StreamNames THEN StreamsIncluded /\ files[n] # NoText
  ELSE IF Debian THEN links[n] # "none" ELSE files[n] # NoText
NginxTest ==
  \A n \in Names : ReadBy(n) =>
    /\ files[n] # NoText /\ files[n] \notin Unacceptable
    /\ Value(files[n], "ssl_certificate", "") \in certs \union {""}
Loading == [n \in Names |-> IF ReadBy(n) THEN files[n] ELSE NoText]

ProxyInit ==
  /\ files = [n \in Names |-> NoText] /\ backups = [n \in Names |-> NoText]
  /\ links = [n \in Names |-> "none"]
  /\ lock = Unlocked /\ reload = "none" /\ toggle = NoToggle
  /\ loaded = [n \in Names |-> NoText] /\ certs \in SUBSET Certs
  /\ auth = [f \in AuthFiles |-> NoFile] /\ authReq = [r \in AuthRequests |-> NoRequest]
  /\ saved = files /\ before = [files |-> files, links |-> links] /\ proxyOps = 0

Take(op, name, text, at, enable, rel) ==
  /\ lock = Unlocked /\ proxyOps < MaxProxyOps /\ proxyOps' = proxyOps + 1
  /\ lock' = [op |-> op, name |-> name, text |-> text, kept |-> files[name], at |-> at,
              enable |-> enable, reload |-> rel]
  /\ before' = [files |-> files, links |-> links]
Release == lock' = Unlocked /\ UNCHANGED before
Goes(at) == lock' = [lock EXCEPT !.at = at] /\ UNCHANGED before
-----------------------------------------------------------------------------
(* Sites and streams from the form *)

\* ApplySite: rendered, then written; a name that exists needs overwrite.
ApplySite(s, enable, rel, overwrite) ==
  /\ ValidateSpec(s) /\ (files[s.name] # NoText => overwrite)
  /\ Take("site", s.name, RenderNginx(s), "link", enable \/ ~Debian, rel)
  /\ files' = [files EXCEPT ![s.name] = RenderNginx(s)]
  /\ UNCHANGED <<backups, links, loaded, reload, toggle, certs, auth, authReq, saved>>

ApplyStream(s, rel, overwrite) ==
  /\ ValidateStream(s) /\ (files[s.name] # NoText => overwrite)
  /\ Take("stream", s.name, RenderStream(s), "test", TRUE, rel)
  /\ files' = [files EXCEPT ![s.name] = RenderStream(s)]
  /\ UNCHANGED <<backups, links, loaded, reload, toggle, certs, auth, authReq, saved>>

\* linkEnabled: a link that points elsewhere is replaced.  The symlink call may
\* fail, and the write is then undone.
linkEnabled(ok) ==
  /\ lock.at = "link"
  /\ IF ~Debian \/ ~lock.enable \/ links[lock.name] = "here"
     THEN ok /\ Goes("test") /\ UNCHANGED <<files, links>>
     ELSE IF ok
     THEN /\ links' = [links EXCEPT ![lock.name] = "here"]
          /\ lock' = [lock EXCEPT !.at = "test_linked"] /\ UNCHANGED <<files, before>>
     ELSE /\ links' = [links EXCEPT ![lock.name] = "none"]
          /\ files' = [files EXCEPT ![lock.name] = lock.kept] /\ Release
  /\ UNCHANGED <<backups, loaded, reload, toggle, certs, auth, authReq, saved, proxyOps>>

\* restoreConfig and undoLink after a failed test; the file stays after a good
\* one, whatever the reload says.
TestSite ==
  /\ lock.at \in {"test", "test_linked"} /\ lock.op \in {"site", "stream"}
  /\ IF NginxTest
     THEN /\ saved' = [saved EXCEPT ![lock.name] = lock.text]
          /\ IF lock.reload THEN Goes("reload") ELSE Release
          /\ UNCHANGED <<files, links>>
     ELSE /\ files' = [files EXCEPT ![lock.name] = lock.kept]
          /\ links' = IF lock.at = "test_linked" THEN [links EXCEPT ![lock.name] = "none"] ELSE links
          /\ Release /\ UNCHANGED saved
  /\ UNCHANGED <<backups, loaded, reload, toggle, certs, auth, authReq, proxyOps>>

ReloadSite ==
  /\ lock.at = "reload"
  /\ loaded' = IF NginxTest THEN Loading ELSE loaded
  /\ Release
  /\ UNCHANGED <<files, backups, links, reload, toggle, certs, auth, authReq, saved, proxyOps>>
-----------------------------------------------------------------------------
(* The config editor *)

\* Validate and WriteConfig put the candidate where nginx looks for it.
StageNginx(op, n, text) ==
  /\ Take(op, n, text, "staged", FALSE, FALSE)
  /\ files' = [files EXCEPT ![n] = text]
  /\ UNCHANGED <<backups, links, loaded, reload, toggle, certs, auth, authReq, saved>>

\* Faulty variant: the original comes back only when the test failed.
RestoredAfterTest_IfRejected == IF NginxTest THEN files ELSE [files EXCEPT ![lock.name] = lock.kept]
\* The original comes back whatever the outcome; a write goes on when it passed.
RestoredAfterTest == [files EXCEPT ![lock.name] = lock.kept]
validateNginx ==
  /\ lock.at = "staged"
  /\ files' = RestoredAfterTest
  /\ IF lock.op = "write" /\ NginxTest THEN Goes("passed") ELSE Release
  /\ UNCHANGED <<backups, links, loaded, reload, toggle, certs, auth, authReq, saved, proxyOps>>

WriteConfig ==
  /\ lock.at = "passed"
  /\ files' = [files EXCEPT ![lock.name] = lock.text] /\ Goes("written")
  /\ UNCHANGED <<backups, links, loaded, reload, toggle, certs, auth, authReq, saved, proxyOps>>
\* The second test, with the content in place.
WriteConfigTests ==
  /\ lock.at = "written"
  /\ IF NginxTest THEN saved' = [saved EXCEPT ![lock.name] = lock.text] /\ UNCHANGED files
     ELSE files' = [files EXCEPT ![lock.name] = lock.kept] /\ UNCHANGED saved
  /\ Release
  /\ UNCHANGED <<backups, links, loaded, reload, toggle, certs, auth, authReq, proxyOps>>
-----------------------------------------------------------------------------
(* Deletion, toggles, reloads *)

\* The link first, then the file, kept as .bak.
DeleteSite(n) ==
  /\ n \in SiteNames /\ (files[n] # NoText \/ links[n] # "none")
  /\ Take("delete", n, NoText, "unlinked", FALSE, FALSE)
  /\ links' = [links EXCEPT ![n] = "none"]
  /\ UNCHANGED <<files, backups, loaded, reload, toggle, certs, auth, authReq, saved>>
DeleteStream(n) ==
  /\ n \in StreamNames /\ files[n] # NoText
  /\ Take("delete", n, NoText, "unlinked", FALSE, FALSE)
  /\ UNCHANGED <<files, backups, links, loaded, reload, toggle, certs, auth, authReq, saved>>
RemoveFile ==
  /\ lock.at = "unlinked"
  /\ backups' = IF files[lock.name] = NoText THEN backups
                ELSE [backups EXCEPT ![lock.name] = files[lock.name]]
  /\ files' = [files EXCEPT ![lock.name] = NoText]
  /\ saved' = [saved EXCEPT ![lock.name] = NoText] /\ Release
  /\ UNCHANGED <<links, loaded, reload, toggle, certs, auth, authReq, proxyOps>>

\* SetVHostEnabled looks for the file and links it afterwards, without the lock.
SetVHostEnabled(n) ==
  /\ Debian /\ n \in SiteNames /\ toggle = NoToggle
  /\ files[n] # NoText /\ links[n] = "none"
  /\ proxyOps < MaxProxyOps /\ proxyOps' = proxyOps + 1
  /\ toggle' = [name |-> n, at |-> "link"]
  /\ UNCHANGED <<files, backups, links, lock, loaded, reload, certs, auth, authReq, saved, before>>
ToggleLinks ==
  /\ toggle.at = "link"
  /\ links' = IF links[toggle.name] = "none" THEN [links EXCEPT ![toggle.name] = "here"] ELSE links
  /\ toggle' = NoToggle
  /\ UNCHANGED <<files, backups, lock, loaded, reload, certs, auth, authReq, saved, before, proxyOps>>
SetVHostDisabled(n) ==
  /\ Debian /\ n \in SiteNames /\ files[n] # NoText /\ links[n] # "none"
  /\ links' = [links EXCEPT ![n] = "none"]
  /\ UNCHANGED <<files, backups, lock, loaded, reload, toggle, certs, auth, authReq, saved, before,
                 proxyOps>>

\* An operator at the shell links a site by a path of another spelling (external).
LinkByHand(n) ==
  /\ Debian /\ lock = Unlocked /\ n \in SiteNames /\ files[n] # NoText /\ links[n] = "none"
  /\ links' = [links EXCEPT ![n] = "otherwise"]
  /\ UNCHANGED <<files, backups, lock, loaded, reload, toggle, certs, auth, authReq, saved, before,
                 proxyOps>>

\* Reload tests, and signals afterwards; nginx tests again by itself.
ReloadTests ==
  /\ reload = "none" /\ NginxTest /\ reload' = "tested"
  /\ UNCHANGED <<files, backups, links, lock, loaded, toggle, certs, auth, authReq, saved, before,
                 proxyOps>>
Reload ==
  /\ reload = "tested" /\ reload' = "none"
  /\ loaded' = IF NginxTest THEN Loading ELSE loaded
  /\ UNCHANGED <<files, backups, links, lock, toggle, certs, auth, authReq, saved, before, proxyOps>>
-----------------------------------------------------------------------------
(* Certificates and password files *)

\* A certbot job obtains a certificate.
IssueCertificate(c) ==
  /\ c \notin certs /\ certs' = certs \union {c}
  /\ UNCHANGED <<files, backups, links, lock, loaded, reload, toggle, auth, authReq, saved, before,
                 proxyOps>>
\* A pasted certificate is written once its key belongs to it.
KeyMatches(c) == c # bad
ImportCertificate(c) ==
  /\ KeyMatches(c) /\ certs' = certs \union {c}
  /\ UNCHANGED <<files, backups, links, lock, loaded, reload, toggle, auth, authReq, saved, before,
                 proxyOps>>
\* certbot revoke --delete-after-revoke; sites that name it are not looked at.
RevokeCertificate(c) ==
  /\ c \in certs /\ certs' = certs \ {c}
  /\ UNCHANGED <<files, backups, links, lock, loaded, reload, toggle, auth, authReq, saved, before,
                 proxyOps>>

\* Password files are read, changed and replaced without a lock.
ReadAuthLines(r, f, u, op) ==
  /\ authReq[r] = NoRequest /\ proxyOps < MaxProxyOps /\ proxyOps' = proxyOps + 1
  /\ LET users == IF auth[f] = NoFile THEN {} ELSE auth[f] IN
       /\ op = "remove" => u \in users
       /\ authReq' = [authReq EXCEPT ![r] = [at |-> op, file |-> f, user |-> u, users |-> users]]
  /\ UNCHANGED <<files, backups, links, lock, loaded, reload, toggle, certs, auth, saved, before>>
WriteAuthFile(r) ==
  /\ authReq[r].at \in {"set", "remove"}
  /\ auth' = [auth EXCEPT ![authReq[r].file] =
                IF authReq[r].at = "set" THEN authReq[r].users \union {authReq[r].user}
                ELSE authReq[r].users \ {authReq[r].user}]
  /\ authReq' = [authReq EXCEPT ![r] = NoRequest]
  /\ UNCHANGED <<files, backups, links, lock, loaded, reload, toggle, certs, saved, before, proxyOps>>
DeleteAuthFile(f) ==
  /\ auth[f] # NoFile /\ auth' = [auth EXCEPT ![f] = NoFile]
  /\ UNCHANGED <<files, backups, links, lock, loaded, reload, toggle, certs, authReq, saved, before,
                 proxyOps>>
-----------------------------------------------------------------------------
handleSiteApply == \E s \in SiteSpecInputs, enable, rel, over \in BOOLEAN : ApplySite(s, enable, rel, over)
handleStreamApply == \E s \in StreamInputs, rel, over \in BOOLEAN : ApplyStream(s, rel, over)
handleSiteDelete == \E n \in Names : DeleteSite(n)
handleStreamDelete == \E n \in Names : DeleteStream(n)
FormStep ==
  \/ handleSiteApply \/ handleStreamApply \/ handleSiteDelete \/ handleStreamDelete
  \/ (\E ok \in BOOLEAN : linkEnabled(ok)) \/ TestSite \/ ReloadSite \/ RemoveFile

handleProxyValidate == \E n \in Names, t \in HandTexts : StageNginx("validate", n, t)
handleProxyConfigWrite == \E n \in Names, t \in HandTexts : StageNginx("write", n, t)
EditorStep == handleProxyValidate \/ handleProxyConfigWrite \/ validateNginx \/ WriteConfig \/ WriteConfigTests

handleVHostToggle == \E n \in Names : SetVHostEnabled(n) \/ SetVHostDisabled(n)
handleProxyReload == ReloadTests \/ Reload
UnlockedStep == handleVHostToggle \/ ToggleLinks \/ handleProxyReload \/ \E n \in Names : LinkByHand(n)

handleCertIssue == \E c \in Certs : IssueCertificate(c)
handleCertImport == \E c \in Certs : ImportCertificate(c)
handleCertRevoke == \E c \in Certs : RevokeCertificate(c)
CertificateStep == handleCertIssue \/ handleCertImport \/ handleCertRevoke

handleAuthUserSet(r) == \E f \in AuthFiles, u \in AuthUsers : ReadAuthLines(r, f, u, "set")
handleAuthUserRemove(r) == \E f \in AuthFiles, u \in AuthUsers : ReadAuthLines(r, f, u, "remove")
AuthStep ==
  \/ \E r \in AuthRequests : handleAuthUserSet(r) \/ handleAuthUserRemove(r) \/ WriteAuthFile(r)
  \/ \E f \in AuthFiles : DeleteAuthFile(f)

ProxyNext == FormStep \/ EditorStep \/ UnlockedStep \/ CertificateStep \/ AuthStep
ProxySpec == ProxyInit /\ [][ProxyNext]_proxyVars
-----------------------------------------------------------------------------
\* Whenever nobody holds the lock, every file is what was last saved under its
\* name: a dry run, a rejected edit and a rejected site leave no candidate
\* behind, in nginx's include tree or outside it (Validate, WriteConfig,
\* applySiteLocked).
FilesAsSaved == lock = Unlocked => files = saved

\* A site file admits exactly the visitors the form asked for, read the way
\* nginx reads it (renderAccess).
AccessAsAsked ==
  \A n \in {m \in SiteNames : Managed(files[m])} : \A s \in SiteSpecInputs :
    files[n] = RenderNginx(s) =>
      \A a \in Addresses : Admits(files[n], a) = Wanted(s, a)

\* A managed file of the form can be read back and saved unchanged
\* (ParseSiteSpec, RenderNginx, and their stream counterparts).
FormRoundTrips ==
  \A n \in Names :
    Managed(files[n]) =>
      IF n \in StreamNames THEN RenderStream(ParseStreamSpec(n, files[n])) = files[n]
      ELSE RenderNginx(ParseSiteSpec(n, files[n])) = files[n]

\* Files as saved, admitting whom they should, and readable by the form again.
ProxyInv == FilesAsSaved /\ AccessAsAsked /\ FormRoundTrips

\* An ApplySite whose test failed put everything back: files and links are what
\* they were when it began (ApplySite).
FailedApplyPutsBack ==
  [][lock.at \in {"test", "test_linked"} /\ ~NginxTest /\ lock' = Unlocked
     => files' = before.files /\ links'[lock.name] = before.links[lock.name]]_proxyVars

\* sites-enabled never links to a file that is not there, which would fail the
\* test of every later change (DeleteSite, SetVHostEnabled).
NoDanglingLink ==
  lock = Unlocked => \A n \in SiteNames : links[n] # "none" => files[n] # NoText
=============================================================================
