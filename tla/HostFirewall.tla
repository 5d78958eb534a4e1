---------------------------- MODULE HostFirewall ----------------------------
(***************************************************************************)
(* The firewall page (backend/internal/netsec/firewall*.go and the routes  *)
(* of handlers_netsec.go and handlers_security.go): rules added, edited    *)
(* and deleted through ufw or firewalld, the default policy, the switch    *)
(* and the lockout guards.                                                 *)
(*                                                                         *)
(* Nothing serialises the requests, and a request is several commands, so  *)
(* a request is several steps.  ufw and firewall-cmd are external: ufw     *)
(* keeps a numbered list, writes a rule without a source to both families  *)
(* and skips what it holds already; firewalld keeps a set, has no comments *)
(* and answers an add of what it holds with success.                       *)
(***************************************************************************)
EXTENDS Integers, Sequences, FiniteSets, SequencesExt

CONSTANTS
  Backends,           \* firewalls the host may run
  FirstRules(_),      \* the rule list of each before the dashboard touches it
  RuleRequests,       \* what the rule form may send
  CallerIP,           \* the address the operator is connected from
  SourceCovers(_, _),     \* whether a source covers an address
  FwRequests,         \* requests in flight
  MaxFwOps            \* bound: requests served

ASSUME FirewallAssumption ==
  Backends \subseteq {"ufw", "firewalld", "iptables", "none"} /\ MaxFwOps \in Nat

VARIABLES
  fwBackend,  \* the firewall found on this host
  rules,      \* what the firewall enforces, in its order
  enabled,
  policy,     \* the default verdicts: incoming, outgoing, routed
  fwLogging,
  fw,         \* each request: the step it is at and what it has read
  fwOps

fwVars == <<fwBackend, rules, enabled, policy, fwLogging, fw, fwOps>>

Verdicts == {"allow", "deny", "reject", "limit"}
badText == "bad"
NoRule == [action |-> "none", dir |-> "in", from |-> "", ports |-> {}, comment |-> "", v6 |-> FALSE]
FwIdle == [at |-> "idle", kind |-> "", number |-> 0, old |-> NoRule, req |-> NoRule, meant |-> NoRule]

Editable == fwBackend \in {"ufw", "firewalld"}
Resettable == fwBackend = "ufw"

boundPorts(ports) == \A p \in ports : 1 <= p[1] /\ p[1] <= p[2] /\ p[2] <= 65535
normaliseRule(r) ==
  /\ r.action \in Verdicts /\ r.dir \in {"in", "out"}
  /\ boundPorts(r.ports) /\ (r.ports # {} \/ r.from # "")
  /\ r.comment # badText /\ r.from # badText

\* The deny rules that are refused: no source, or one that covers the caller.
\* "any" is neither an address nor a network.
guardLockout(r) ==
  r.dir = "in" /\ r.action \in {"deny", "reject"} => r.from # "" /\ ~SourceCovers(r.from, CallerIP)

admitsAnything == \E i \in DOMAIN rules : rules[i].action \in {"allow", "limit"} /\ rules[i].dir = "in"

\* Everything an operator chose.
sameRule(a, b) == [a EXCEPT !.v6 = FALSE] = [b EXCEPT !.v6 = FALSE]
SameMatch(a, b) == sameRule([a EXCEPT !.comment = "", !.action = ""], [b EXCEPT !.comment = "", !.action = ""])

-----------------------------------------------------------------------------
(* The tools *)

\* The rules a request stands for: ufw writes both families of a rule without a
\* source; firewalld one rule for each port of the list, without the comment.
Stands(r) ==
  IF fwBackend = "ufw"
  THEN {r} \union (IF r.from \in {"", "any"} THEN {[r EXCEPT !.v6 = TRUE]} ELSE {})
  ELSE {[r EXCEPT !.ports = p, !.comment = ""] :
          p \in IF r.ports = {} THEN {{}} ELSE {{q} : q \in r.ports}}

Present(r) == \E i \in DOMAIN rules : rules[i] = r
\* ufw holds the match already: an insert is skipped, an add rewrites it in place
\* unless it says the same.
UfwSkips(r, position) ==
  \A s \in Stands(r) : \E i \in DOMAIN rules :
    rules[i].v6 = s.v6 /\ IF position > 0 THEN SameMatch(rules[i], s) ELSE rules[i] = s
UfwAdd(r, position) ==
  LET fresh(s) == ~\E i \in DOMAIN rules : rules[i].v6 = s.v6 /\ SameMatch(rules[i], s)
      updated  == [i \in DOMAIN rules |->
                    IF position = 0 /\ SameMatch(rules[i], r) THEN [r EXCEPT !.v6 = rules[i].v6]
                    ELSE rules[i]]
      v4       == IF ~fresh(r) THEN updated
                  ELSE IF position > 0 THEN InsertAt(updated, position, r)
                  ELSE LET n == Len(SelectSeq(updated, LAMBDA s : ~s.v6)) IN InsertAt(updated, n + 1, r)
      twins    == {s \in Stands(r) : s.v6 /\ fresh(s)}
  IN  v4 \o SetToSeq(twins)

FirewalldAdd(r) == rules \o SetToSeq({s \in Stands(r) : ~Present(s)})
FirewalldTakes(r) == r.dir = "in"

DeleteNumber(n) == RemoveAt(rules, n)
findRule(want, ipv6) ==
  LET hits == {i \in DOMAIN rules : rules[i].v6 = ipv6 /\ sameRule(rules[i], want)}
  IN  IF hits = {} THEN 0 ELSE CHOOSE i \in hits : \A j \in hits : i <= j

-----------------------------------------------------------------------------
FirewallInit ==
  /\ fwBackend \in Backends /\ rules = FirstRules(fwBackend) /\ enabled \in BOOLEAN
  /\ policy = [incoming |-> "deny", outgoing |-> "allow", routed |-> "disabled"]
  /\ fwLogging = "low" /\ fw = [q \in FwRequests |-> FwIdle] /\ fwOps = 0

Arrives(q, kind, n, r) ==
  /\ fw[q] = FwIdle /\ Editable /\ fwOps < MaxFwOps /\ fwOps' = fwOps + 1
  /\ n = 0 \/ (n \in DOMAIN rules /\ ~rules[n].v6)
  /\ fw' = [fw EXCEPT ![q] = [at |-> kind, kind |-> kind, number |-> n, old |-> NoRule, req |-> r,
                              meant |-> IF n = 0 THEN NoRule ELSE rules[n]]]
  /\ UNCHANGED <<rules, enabled, policy, fwLogging>>
FwGoes(q, at) == fw' = [fw EXCEPT ![q].at = at]

\* The three rule routes; a number is one the page has listed, and the page
\* folds the IPv6 halves away.
handleFirewallAddRule(q, r) == normaliseRule(r) /\ guardLockout(r) /\ Arrives(q, "add", 0, r)
handleFirewallReplaceRule(q, n, r) ==
  n > 0 /\ normaliseRule(r) /\ guardLockout(r) /\ Arrives(q, "replace", n, r)
handleFirewallDeleteRule(q, n) == n > 0 /\ Arrives(q, "delete", n, NoRule)

\* Faulty variant: an add that ufw skipped is taken for one it made.
AddRefused_Never(r, position) == fwBackend = "firewalld" /\ ~FirewalldTakes(r)
\* errRuleExists, or a direction the tool has no rule for.
AddRefused(r, position) ==
  IF fwBackend = "ufw" THEN UfwSkips(r, position) ELSE ~FirewalldTakes(r)
Added(r, position) ==
  IF fwBackend = "ufw" THEN (IF UfwSkips(r, position) THEN rules ELSE UfwAdd(r, position))
  ELSE IF FirewalldTakes(r) THEN FirewalldAdd(r) ELSE rules

AddRule(q, ok) ==
  /\ fw[q].at = "add"
  /\ rules' = IF ok THEN Added(fw[q].req, 0) ELSE rules
  /\ fw' = [fw EXCEPT ![q] = FwIdle]
  /\ UNCHANGED <<enabled, policy, fwLogging, fwOps>>

\* replaceRule reads the rule first; one that is neither in nor out is refused.
replaceRule(q) ==
  /\ fw[q].at = "replace"
  /\ IF fw[q].number \in DOMAIN rules /\ rules[fw[q].number].dir # "fwd"
     THEN fw' = [fw EXCEPT ![q].at = "insert", ![q].old = rules[fw[q].number]]
     ELSE fw' = [fw EXCEPT ![q] = FwIdle]
  /\ UNCHANGED <<rules, enabled, policy, fwLogging, fwOps>>
\* The replacement goes in before the original is taken out.
ReplaceAdds(q, ok) ==
  /\ fw[q].at = "insert"
  /\ LET position == IF fwBackend = "ufw" THEN fw[q].number ELSE 0 IN
       IF ~ok \/ AddRefused(fw[q].req, position)
       THEN fw' = [fw EXCEPT ![q] = FwIdle] /\ UNCHANGED rules
       ELSE rules' = Added(fw[q].req, position) /\ FwGoes(q, "added")
  /\ UNCHANGED <<enabled, policy, fwLogging, fwOps>>
\* ufw: the original is found again by what it says, and deleted by its number.
ReplaceFinds(q) ==
  /\ fwBackend = "ufw" /\ fw[q].at = "added"
  /\ LET n == findRule(fw[q].old, fw[q].old.v6) IN
       fw' = IF n = 0 THEN [fw EXCEPT ![q].at = "done"]
             ELSE [fw EXCEPT ![q].at = "delete", ![q].number = n]
  /\ UNCHANGED <<rules, enabled, policy, fwLogging, fwOps>>
\* firewalld: it is removed by the handle read before the add.
removeHandle(q, ok) ==
  /\ fwBackend = "firewalld" /\ fw[q].at \in {"added", "handle"}
  /\ rules' = IF ok THEN SelectSeq(rules, LAMBDA r : r # fw[q].old) ELSE rules
  /\ FwGoes(q, "done")
  /\ UNCHANGED <<enabled, policy, fwLogging, fwOps>>

\* DeleteRule reads what the number names now, deletes the number, and looks for
\* the other family's copy afterwards.
ruleAt(q) ==
  /\ fw[q].at = "delete"
  /\ fw' = [fw EXCEPT ![q].at = IF fwBackend = "firewalld" THEN "handle" ELSE "number",
                      ![q].old = IF fw[q].number \in DOMAIN rules THEN rules[fw[q].number] ELSE NoRule]
  /\ UNCHANGED <<rules, enabled, policy, fwLogging, fwOps>>
\* Faulty variant: the IPv6 copy stays.
AfterDelete_NoTwin(q) == "done"
AfterDelete(q) == IF fw[q].old = NoRule \/ fw[q].old.v6 THEN "done" ELSE "twin"
DeleteRule(q) ==
  /\ fw[q].at = "number"
  /\ rules' = IF fw[q].number \in DOMAIN rules THEN DeleteNumber(fw[q].number) ELSE rules
  /\ FwGoes(q, AfterDelete(q))
  /\ UNCHANGED <<enabled, policy, fwLogging, fwOps>>
DeleteTwin(q) ==
  /\ fw[q].at = "twin"
  /\ LET n == findRule(fw[q].old, TRUE) IN rules' = IF n = 0 THEN rules ELSE DeleteNumber(n)
  /\ FwGoes(q, "done")
  /\ UNCHANGED <<enabled, policy, fwLogging, fwOps>>
Answer(q) ==
  /\ fw[q].at = "done" /\ fw' = [fw EXCEPT ![q] = FwIdle]
  /\ UNCHANGED <<rules, enabled, policy, fwLogging, fwOps>>

\* The inbound default stops being allow only when some rule lets somebody in,
\* as far as a firewall that is on can tell.
SetDefaultPolicy(direction, p) ==
  /\ Editable /\ (fwBackend = "firewalld" => direction = "incoming")
  /\ direction = "incoming" /\ p # "allow" => ~enabled \/ admitsAnything
  /\ policy' = [policy EXCEPT ![direction] = p]
  /\ UNCHANGED <<rules, enabled, fwLogging, fw, fwOps>>
SetEnabled(on) ==
  /\ Editable /\ enabled' = on /\ UNCHANGED <<rules, policy, fwLogging, fw, fwOps>>
SetLogging(level) ==
  /\ Editable
  /\ fwLogging' = IF fwBackend = "ufw" THEN level
                  ELSE CASE level = "off" -> "off" [] level \in {"low", "on"} -> "unicast" [] OTHER -> "all"
  /\ UNCHANGED <<rules, enabled, policy, fw, fwOps>>
\* ufw reset: no rules, the installed defaults, and off.
Reset ==
  /\ Resettable /\ rules' = <<>> /\ enabled' = FALSE
  /\ policy' = [incoming |-> "deny", outgoing |-> "allow", routed |-> "deny"]
  /\ UNCHANGED <<fwLogging, fw, fwOps>>

SettingStep ==
  \/ \E d \in {"incoming", "outgoing", "routed"}, p \in {"allow", "deny", "reject"} : SetDefaultPolicy(d, p)
  \/ \E on \in BOOLEAN : SetEnabled(on)
  \/ \E l \in {"off", "low", "high"} : SetLogging(l)
  \/ Reset
RuleStep ==
  \E q \in FwRequests :
    \/ \E r \in RuleRequests : handleFirewallAddRule(q, r)
    \/ \E n \in DOMAIN rules : handleFirewallDeleteRule(q, n)
    \/ \E n \in DOMAIN rules, r \in RuleRequests : handleFirewallReplaceRule(q, n, r)
    \/ \E ok \in BOOLEAN : AddRule(q, ok) \/ ReplaceAdds(q, ok) \/ removeHandle(q, ok)
    \/ replaceRule(q) \/ ReplaceFinds(q) \/ ruleAt(q) \/ DeleteRule(q) \/ DeleteTwin(q) \/ Answer(q)
FirewallNext == (RuleStep \/ SettingStep) /\ UNCHANGED fwBackend
FirewallSpec == FirewallInit /\ [][FirewallNext]_fwVars
-----------------------------------------------------------------------------
\* From the moment the replacement went in, an edit leaves no hole: the rules it
\* asked for are enforced, or the original still is (replaceRule, "the one
\* outcome an edit must never produce").
EditLeavesNoHole ==
  \A q \in FwRequests :
    fw[q].kind = "replace" /\ fw[q].at \in {"added", "delete", "number", "twin", "done"} =>
      (\A s \in Stands(fw[q].req) : Present(s)) \/ Present(fw[q].old)

\* No rule is left in the IPv6 table alone, where the page does not show it
\* (DeleteRule and its twin).
NoHiddenTwin ==
  (\A q \in FwRequests : fw[q] = FwIdle) =>
    \A i \in DOMAIN rules : rules[i].v6 => Present([rules[i] EXCEPT !.v6 = FALSE])

\* Neither an edit nor a delete leaves the host other than the page shows it.
FirewallInv == EditLeavesNoHole /\ NoHiddenTwin

\* A delete takes out the rule whose row was clicked, or none (firewalld's
\* DeleteRule: "a stale number removes nothing rather than removing the wrong
\* thing").
DeletesWhatWasShown ==
  [][\A q \in FwRequests :
       fw[q].kind = "delete" /\ fw[q].at \in {"handle", "number"} /\ fw'[q].at \in {"done", "twin"}
         => \A i \in DOMAIN rules : rules[i] = fw[q].meant \/ \E j \in DOMAIN rules' : rules'[j] = rules[i]]_fwVars
=============================================================================
