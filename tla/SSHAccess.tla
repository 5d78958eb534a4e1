----------------------------- MODULE SSHAccess ------------------------------
(***************************************************************************)
(* How people get into the host (backend/internal/netsec/sshd*.go,         *)
(* linuxusers and their routes): the SSH server's settings, planned in the *)
(* request and applied by a job, the socket unit that may own its port,    *)
(* and the accounts with their authorized keys.                            *)
(*                                                                         *)
(* Plan and job are separate, jobs run side by side, and the guards look   *)
(* at the firewall of HostFirewall.  sshd is external: it takes the first  *)
(* value of a keyword, adds up the lists, reads included files in their    *)
(* order and the lines after a Match only for some.  A value is a set of   *)
(* words, a file the sequence of its lines; comments are left out.         *)
(***************************************************************************)
EXTENDS HostFirewall

CONSTANTS
  MainFiles,        \* contents sshd_config may have
  EarlierDropIns,   \* lines of the files of sshd_config.d that sort before ours
  SocketHosts,      \* whether a socket unit owns the port: a subset of BOOLEAN
  SshChanges,       \* what the settings form may send: keyword -> value
  PortNumber(_),    \* the number a port's word stands for
  HostUsers, PubKeys,
  SshRequests,      \* settings changes in flight
  KeyRequests,      \* key removals in flight
  MaxSshOps         \* bound: changes begun

ASSUME SshAssumption == SocketHosts \subseteq BOOLEAN /\ MaxSshOps \in Nat

VARIABLES
  sshMain,      \* sshd_config
  sshManaged,   \* sshd_config.d/99-just-dashboard.conf, or NoDropIn
  socketAt,     \* the port of the active socket unit, {} without one
  sshRunning,   \* the settings sshd has loaded
  sshReq,       \* each change: its plan and the step its job is at
  accounts,     \* user -> "absent", "locked" or "open"
  authorized,   \* user -> the keys of authorized_keys
  keyReq,       \* each removal: what it has read
  sshOps

sshVars == <<sshMain, sshManaged, socketAt, sshRunning, sshReq, accounts, authorized, keyReq, sshOps>>

NoDropIn == <<[key |-> "absent", value |-> {}]>>
Keywords == {"passwordauthentication", "pubkeyauthentication", "permitrootlogin", "allowusers", "port"}
Default(k) == CASE k = "permitrootlogin" -> {"prohibit-password"} [] k = "port" -> {"22"}
                [] k = "allowusers" -> {} [] OTHER -> {"yes"}
Legal(k, v) ==
  CASE k = "permitrootlogin" -> v \in {{"yes"}, {"no"}, {"prohibit-password"}}
    [] k \in {"passwordauthentication", "pubkeyauthentication"} -> v \in {{"yes"}, {"no"}}
    [] k = "port" -> \E p \in v : v = {p} /\ PortNumber(p) \in 1..65535
    [] OTHER -> badText \notin v
NoSshPlan == [at |-> "none", changes |-> <<>>, main |-> FALSE, content |-> <<>>, original |-> NoDropIn,
           socket |-> {}, socketError |-> FALSE]
NoRemoval == [user |-> "", key |-> "", kept |-> {}]

\* readSSHDFile: a Match ends a file.
UpToMatch(file) ==
  LET matches == {i \in DOMAIN file : file[i].key = "match"}
  IN  IF matches = {} THEN file ELSE SubSeq(file, 1, (CHOOSE i \in matches : \A j \in matches : i <= j) - 1)
parseSSHDFiles ==
  LET ours == IF sshManaged = NoDropIn THEN <<>> ELSE sshManaged
      main == UpToMatch(sshMain)
  IN  FlattenSeq([i \in DOMAIN main |->
        IF main[i].key = "include" THEN UpToMatch(EarlierDropIns) \o UpToMatch(ours) ELSE <<main[i]>>])
\* What sshd -T answers.
Effective(k) ==
  LET hits == SelectSeq(parseSSHDFiles, LAMBDA l : l.key = k)
  IN  IF hits = <<>> THEN Default(k)
      ELSE IF k = "allowusers" THEN UNION {hits[i].value : i \in DOMAIN hits} ELSE hits[1].value
\* SSHDStatus: where a socket unit is active its port is the one shown.
SSHDStatus == [k \in Keywords |-> IF k = "port" /\ socketAt # {} THEN socketAt ELSE Effective(k)]
includesDropIns == sshMain # <<>> /\ sshMain[1].key = "include"
keyedAccounts == {u \in HostUsers : accounts[u] # "absent" /\ authorized[u] # {}}

\* The change the operator asks for, over what is in force.
Asked(c) == [k \in Keywords |-> IF k \in DOMAIN c THEN c[k] ELSE SSHDStatus[k]]
guardAllowUsers(s) ==
  s["allowusers"] # {} /\ s["passwordauthentication"] = {"no"} => keyedAccounts \intersect s["allowusers"] # {}
guardSSHLockout(s) ==
  /\ s["passwordauthentication"] = {"no"} =>
       /\ s["pubkeyauthentication"] # {"no"}
       /\ keyedAccounts # {}
       /\ s["permitrootlogin"] = {"no"} => keyedAccounts # {"root"}
  /\ guardAllowUsers(s)
\* A default-deny firewall has to admit the new port.
guardSSHPort(port) ==
  fwBackend \in {"ufw", "firewalld"} /\ enabled /\ policy["incoming"] # "allow" =>
    \E i \in DOMAIN rules : rules[i].action \in {"allow", "limit"} /\ <<PortNumber(port), PortNumber(port)>> \in rules[i].ports

\* Faulty variant: the new lines go to the end.
applyDirectives_Appends(file, c) ==
  file \o SetToSeq({[key |-> k, value |-> c[k]] : k \in {k \in DOMAIN c : c[k] # {}}})
\* The first line of a keyword is replaced where it stands, the later ones and
\* an emptied list are commented out, and what was not there is appended.
applyDirectives(file, c) ==
  LET Rewritten(i) ==
        IF file[i].key \notin DOMAIN c THEN <<file[i]>>
        ELSE IF (\E j \in 1..i - 1 : file[j].key = file[i].key) \/ c[file[i].key] = {} THEN <<>>
        ELSE <<[key |-> file[i].key, value |-> c[file[i].key]]>>
      missing == {k \in DOMAIN c : c[k] # {} /\ \A i \in DOMAIN file : file[i].key # k}
  IN  FlattenSeq([i \in DOMAIN file |-> Rewritten(i)])
      \o SetToSeq({[key |-> k, value |-> c[k]] : k \in missing})

SshInit ==
  /\ sshMain \in MainFiles /\ sshManaged = NoDropIn
  /\ \E s \in SocketHosts : socketAt = IF s THEN {"22"} ELSE {}
  /\ sshRunning = [k \in Keywords |-> Effective(k)]
  /\ sshReq = [q \in SshRequests |-> NoSshPlan]
  /\ accounts = [u \in HostUsers |-> IF u = "root" THEN "open" ELSE "absent"]
  /\ authorized = [u \in HostUsers |-> {}] /\ keyReq = [q \in KeyRequests |-> NoRemoval]
  /\ sshOps = 0
-----------------------------------------------------------------------------
(* Settings *)

Target(q) == IF sshReq[q].main THEN sshMain ELSE sshManaged
SetTarget(q, content) ==
  IF sshReq[q].main THEN sshMain' = content /\ UNCHANGED sshManaged
  ELSE sshManaged' = content /\ UNCHANGED sshMain
SshGoes(q, at) == sshReq' = [sshReq EXCEPT ![q].at = at]

\* handleSSHApply plans in the request: every refusal is answered here.
PlanSSHSettings(q, c) ==
  /\ sshReq[q].at = "none" /\ sshOps < MaxSshOps /\ sshOps' = sshOps + 1
  /\ DOMAIN c # {} /\ DOMAIN c \subseteq Keywords /\ \A k \in DOMAIN c : Legal(k, c[k])
  /\ guardSSHLockout(Asked(c))
  /\ LET moves == "port" \in DOMAIN c /\ c["port"] # SSHDStatus["port"]
         file  == IF includesDropIns THEN sshManaged ELSE sshMain
     IN  /\ moves => \E p \in c["port"] : guardSSHPort(p)
         /\ sshReq' = [sshReq EXCEPT ![q] =
              [at |-> "write", changes |-> c, main |-> ~includesDropIns,
               content |-> applyDirectives(IF file = NoDropIn THEN <<>> ELSE file, c),
               original |-> file, socket |-> IF moves /\ socketAt # {} THEN c["port"] ELSE {},
               socketError |-> FALSE]]
  /\ UNCHANGED <<sshMain, sshManaged, socketAt, sshRunning, accounts, authorized, keyReq>>

writeSSHFile(q) ==
  /\ sshReq[q].at = "write" /\ SetTarget(q, sshReq[q].content) /\ SshGoes(q, "test")
  /\ UNCHANGED <<socketAt, sshRunning, accounts, authorized, keyReq, sshOps>>
\* sshd -t; a refusal puts back the file as the plan read it.
sshdTest(q, ok) ==
  /\ sshReq[q].at = "test"
  /\ IF ok THEN SshGoes(q, IF sshReq[q].socket # {} THEN "socket" ELSE "reload") /\ UNCHANGED <<sshMain, sshManaged>>
     ELSE SetTarget(q, sshReq[q].original) /\ SshGoes(q, "failed")
  /\ UNCHANGED <<socketAt, sshRunning, accounts, authorized, keyReq, sshOps>>
\* The drop-in of the socket unit and its restart; a failure is noted, and the
\* job goes on.
applySocketPort(q, ok) ==
  /\ sshReq[q].at = "socket"
  /\ socketAt' = IF ok THEN sshReq[q].socket ELSE socketAt
  /\ sshReq' = [sshReq EXCEPT ![q].at = "reload", ![q].socketError = ~ok]
  /\ UNCHANGED <<sshMain, sshManaged, sshRunning, accounts, authorized, keyReq, sshOps>>
reloadSSH(q, ok) ==
  /\ sshReq[q].at = "reload"
  /\ sshRunning' = IF ok THEN [k \in Keywords |-> Effective(k)] ELSE sshRunning
  /\ SshGoes(q, IF ok THEN "succeeded" ELSE "failed")
  /\ UNCHANGED <<sshMain, sshManaged, socketAt, accounts, authorized, keyReq, sshOps>>
JobForgotten(q) ==
  /\ sshReq[q].at \in {"succeeded", "failed"} /\ sshReq' = [sshReq EXCEPT ![q] = NoSshPlan]
  /\ UNCHANGED <<sshMain, sshManaged, socketAt, sshRunning, accounts, authorized, keyReq, sshOps>>
\* The dashboard stops: its jobs are gone, whatever step they were at.
DashboardStops ==
  /\ \E q \in SshRequests : sshReq[q] # NoSshPlan
  /\ sshReq' = [q \in SshRequests |-> NoSshPlan] /\ keyReq' = [q \in KeyRequests |-> NoRemoval]
  /\ UNCHANGED <<sshMain, sshManaged, socketAt, sshRunning, accounts, authorized, sshOps>>
-----------------------------------------------------------------------------
(* Accounts and keys *)

\* Created with no password, and with a key when one was sent.
CreateAccount(u, k) ==
  /\ accounts[u] = "absent" /\ sshOps < MaxSshOps /\ sshOps' = sshOps + 1
  /\ accounts' = [accounts EXCEPT ![u] = "locked"]
  /\ authorized' = [authorized EXCEPT ![u] = k]
  /\ UNCHANGED <<sshMain, sshManaged, socketAt, sshRunning, sshReq, keyReq>>
DeleteAccount(u) ==
  /\ accounts[u] # "absent" /\ u # "root"
  /\ accounts' = [accounts EXCEPT ![u] = "absent"] /\ authorized' = [authorized EXCEPT ![u] = {}]
  /\ UNCHANGED <<sshMain, sshManaged, socketAt, sshRunning, sshReq, keyReq, sshOps>>
SetLocked(u, lockIt) ==
  /\ accounts[u] # "absent" /\ (u = "root" => ~lockIt)
  /\ accounts' = [accounts EXCEPT ![u] = IF lockIt THEN "locked" ELSE "open"]
  /\ UNCHANGED <<sshMain, sshManaged, socketAt, sshRunning, sshReq, authorized, keyReq, sshOps>>
\* Appended in one write.
AddKey(u, k) ==
  /\ accounts[u] # "absent" /\ k \notin authorized[u] /\ sshOps < MaxSshOps /\ sshOps' = sshOps + 1
  /\ authorized' = [authorized EXCEPT ![u] = @ \union {k}]
  /\ UNCHANGED <<sshMain, sshManaged, socketAt, sshRunning, sshReq, accounts, keyReq>>
\* RemoveKey reads the file and replaces it by what it kept.
RemoveKeyReads(q, u, k) ==
  /\ keyReq[q] = NoRemoval /\ k \in authorized[u] /\ accounts[u] # "absent"
  /\ keyReq' = [keyReq EXCEPT ![q] = [user |-> u, key |-> k, kept |-> authorized[u] \ {k}]]
  /\ UNCHANGED <<sshMain, sshManaged, socketAt, sshRunning, sshReq, accounts, authorized, sshOps>>
RemoveKeyRenames(q) ==
  /\ keyReq[q] # NoRemoval /\ accounts[keyReq[q].user] # "absent"
  /\ authorized' = [authorized EXCEPT ![keyReq[q].user] = keyReq[q].kept]
  /\ keyReq' = [keyReq EXCEPT ![q] = NoRemoval]
  /\ UNCHANGED <<sshMain, sshManaged, socketAt, sshRunning, sshReq, accounts, sshOps>>

handleSSHApply(q) == \E c \in SshChanges : PlanSSHSettings(q, c)
ApplySSHPlan(q) ==
  writeSSHFile(q) \/ \E ok \in BOOLEAN : sshdTest(q, ok) \/ applySocketPort(q, ok) \/ reloadSSH(q, ok)
SettingsStep ==
  DashboardStops \/ \E q \in SshRequests : handleSSHApply(q) \/ ApplySSHPlan(q) \/ JobForgotten(q)

\* The key of a new account is optional; an update changes the lock, and shell and
\* groups that nothing here depends on.
handleSysUserCreate(u) == \E k \in {{}} \union {{p} : p \in PubKeys} : CreateAccount(u, k)
handleSysUserUpdate(u) == \E on \in BOOLEAN : SetLocked(u, on)
handleSSHKeyAdd(u) == \E k \in PubKeys : AddKey(u, k)
handleSSHKeyRemove(u) == \E k \in PubKeys, q \in KeyRequests : RemoveKeyReads(q, u, k)
AccountStep ==
  \/ \E u \in HostUsers :
       handleSysUserCreate(u) \/ DeleteAccount(u) \/ handleSysUserUpdate(u)
       \/ handleSSHKeyAdd(u) \/ handleSSHKeyRemove(u)
  \/ \E q \in KeyRequests : RemoveKeyRenames(q)
SshNext == SettingsStep \/ AccountStep
SshSpec == SshInit /\ FirewallInit /\ [][SshNext /\ UNCHANGED fwVars]_<<sshVars, fwVars>>
-----------------------------------------------------------------------------
InForce(k) == IF k = "port" /\ socketAt # {} THEN socketAt ELSE sshRunning[k]

\* A job that succeeded, with the socket moved where one had to be, left sshd
\* serving every setting it was asked for, whichever file the settings were
\* found in (PlanSSHSettings, applyDirectives, ApplySSHPlan).
SettingInForce ==
  \A q \in SshRequests :
    sshReq[q].at = "succeeded" /\ ~sshReq[q].socketError =>
      \A k \in DOMAIN sshReq[q].changes : InForce(k) = sshReq[q].changes[k]

\* The same for every job that is reported as succeeded.
CleanApplyInForce ==
  \A q \in SshRequests :
    sshReq[q].at = "succeeded" =>
      \A k \in DOMAIN sshReq[q].changes : InForce(k) = sshReq[q].changes[k]

\* Applied settings leave somebody a way in: a password, or a key of an account
\* the lists admit (guardSSHLockout).
WayInBySSH ==
  \/ sshRunning["passwordauthentication"] = {"yes"}
  \/ sshRunning["pubkeyauthentication"] = {"yes"}
     /\ \E u \in keyedAccounts :
          /\ sshRunning["allowusers"] = {} \/ u \in sshRunning["allowusers"]
          /\ u = "root" => sshRunning["permitrootlogin"] # {"no"}
WayInKeptBySettings == [][WayInBySSH /\ authorized' = authorized /\ accounts' = accounts => WayInBySSH']_sshVars

\* Removing one key removes that key and no other (RemoveKey, "a concurrent edit
\* cannot cause the wrong key to be removed").
OnlyThatKeyRemoved ==
  [][\A q \in KeyRequests :
       keyReq[q] # NoRemoval /\ keyReq'[q] = NoRemoval /\ sshReq' = sshReq =>
         authorized[keyReq[q].user] \ authorized'[keyReq[q].user] \subseteq {keyReq[q].key}]_sshVars
=============================================================================
