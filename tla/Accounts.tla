------------------------------ MODULE Accounts ------------------------------
(***************************************************************************)
(* Dashboard accounts (backend/internal/auth, internal/httpx and           *)
(* handlers_auth.go): users, sessions with their second factor, recovery   *)
(* codes and API tokens, the way a request becomes a principal, and the    *)
(* audit record of every request that changes something.                   *)
(*                                                                         *)
(* Every statement is a transaction of its own, so a check and the write   *)
(* it protects are separate actions.  Passwords, codes and tokens are      *)
(* known or not known; hashing, sealing and cookies are left out.  Time    *)
(* passes as an action that expires something.                             *)
(***************************************************************************)
EXTENDS Integers, FiniteSets

CONSTANTS
  Users,            \* accounts
  SessionIds,       \* sessions that may exist at the same time
  TokenIds,         \* API tokens that may ever be minted
  Codes,            \* recovery codes of one generation
  Requests,         \* account changes that may be in progress at the same time
  maxFailedLogins,
  MaxChanges        \* bound: account changes, logins and requests

ASSUME AccountsAssumption ==
  maxFailedLogins \in Nat \ {0} /\ MaxChanges \in Nat /\ "nobody" \notin Users

VARIABLES
  account,      \* users: [role, disabled, failed, locked, secret, totp]; role "none" if absent
  session,      \* sessions: [user, elevated]; user NoUser if absent
  token,        \* api_tokens: [owner, role, valid]
  unusedCodes,  \* recovery_codes with used_at = 0, per user
  spent,        \* history: how often each code elevated a session
  setup,        \* sessions whose request for enrollment has been let in
  login,        \* a Login that has read the account: [user, failed, ok]
  change,       \* account changes past their guard, not yet written
  overlapped,   \* history: two account changes have been in progress together
  served,       \* history: requests that changed something, and were they recorded
  changes

accountVars == <<account, session, token, unusedCodes, spent, setup, login, change,
                 overlapped, served, changes>>

NoUser == "nobody"
Roles == {"admin", "limited", "readonly"}
NoSession == [user |-> NoUser, elevated |-> FALSE]
NoChange == [kind |-> "none", user |-> NoUser]
NoLogin == [user |-> NoUser, failed |-> 0, ok |-> FALSE]
Absent == [role |-> "none", disabled |-> FALSE, failed |-> 0, locked |-> FALSE,
           secret |-> FALSE, totp |-> FALSE]
Fresh(role) == [Absent EXCEPT !.role = role]
Exists(u) == account[u].role # "none"

\* rolePermissions.
Can(role, cap) ==
  \/ role = "admin"
  \/ role = "limited" /\ cap \in {"read", "service.control", "file.write"}
  \/ role = "readonly" /\ cap = "read"
Capabilities == {"read", "service.control", "file.write", "terminal", "destructive", "system.admin"}

AccountsInit ==
  /\ \E first \in Users :
       account = [u \in Users |-> IF u = first THEN Fresh("admin") ELSE Absent]
  /\ session = [s \in SessionIds |-> NoSession]
  /\ token = [t \in TokenIds |-> [owner |-> NoUser, role |-> "none", valid |-> FALSE]]
  /\ unusedCodes = [u \in Users |-> {}]
  /\ spent = [u \in Users |-> [c \in Codes |-> 0]]
  /\ setup = {}
  /\ login = NoLogin
  /\ change = [q \in Requests |-> NoChange]
  /\ overlapped = FALSE
  /\ served = {}
  /\ changes = 0

Counted == changes < MaxChanges /\ changes' = changes + 1
DropSessions(u) == [s \in SessionIds |-> IF session[s].user = u THEN NoSession ELSE session[s]]

---------------------------------------------------------------------------
(* Login: the account is read, the password checked, the result written.   *)

LoginReads(u) ==
  /\ Counted /\ login = NoLogin
  /\ Exists(u) /\ ~account[u].locked /\ ~account[u].disabled
  /\ \E right \in BOOLEAN : login' = [user |-> u, failed |-> account[u].failed, ok |-> right]
  /\ UNCHANGED <<account, session, token, unusedCodes, spent, setup, change, overlapped, served>>

handleLogin(u) == LoginReads(u)

\* The count is written as it was read, plus one; a session starts without its
\* second factor.
LoginWrites ==
  LET u == login.user
      full == login.failed + 1 >= maxFailedLogins
  IN
  /\ login # NoLogin
  /\ login' = NoLogin
  /\ IF ~Exists(u) THEN UNCHANGED <<account, session>>
     ELSE IF login.ok
       THEN /\ account' = [account EXCEPT ![u].failed = 0, ![u].locked = FALSE]
            /\ \E s \in SessionIds :
                 /\ session[s] = NoSession
                 /\ session' = [session EXCEPT ![s] = [user |-> u, elevated |-> FALSE]]
       ELSE /\ account' = [account EXCEPT ![u].failed = IF full THEN 0 ELSE login.failed + 1,
                                          ![u].locked = full]
            /\ UNCHANGED session
  /\ UNCHANGED <<token, unusedCodes, spent, setup, change, overlapped, served, changes>>

\* lockoutWindow passes.
LockExpires(u) ==
  /\ account[u].locked
  /\ account' = [account EXCEPT ![u].locked = FALSE]
  /\ UNCHANGED <<session, token, unusedCodes, spent, setup, login, change, overlapped, served, changes>>

---------------------------------------------------------------------------
(* The second factor.  These routes accept a session without it.           *)

\* ResolveSession.
Resolved(s) == session[s] # NoSession /\ ~account[session[s].user].disabled

\* handleTOTPSetup looks at the account as it was when the request was let in:
\* an enrolled one is refused.
SetupLetIn(s) ==
  /\ Counted /\ Resolved(s) /\ s \notin setup /\ ~account[session[s].user].totp
  /\ setup' = setup \cup {s}
  /\ UNCHANGED <<account, session, token, unusedCodes, spent, login, change, overlapped, served>>

\* The new secret replaces the old one and is not yet enabled.
BeginTOTPEnrollment(s) ==
  LET u == session[s].user IN
  /\ s \in setup
  /\ setup' = setup \ {s}
  /\ account' = IF u = NoUser \/ ~Exists(u) THEN account
                ELSE [account EXCEPT ![u].secret = TRUE, ![u].totp = FALSE]
  /\ UNCHANGED <<session, token, unusedCodes, spent, login, change, overlapped, served, changes>>

elevate(s) == [session EXCEPT ![s].elevated = TRUE]
Revoked(s) == [session EXCEPT ![s] = NoSession]

ConfirmTOTPEnrollment(s) ==
  LET u == session[s].user IN
  /\ Counted /\ Resolved(s) /\ account[u].secret
  /\ account' = [account EXCEPT ![u].totp = TRUE]
  /\ unusedCodes' = [unusedCodes EXCEPT ![u] = Codes]
  /\ spent' = [spent EXCEPT ![u] = [c \in Codes |-> 0]]
  /\ UNCHANGED <<token, setup, login, change, overlapped, served>>

\* The code that confirmed the secret is checked once more; a session that does
\* not pass with it is revoked.
handleTOTPEnable(s) == ConfirmTOTPEnrollment(s) /\ session' \in {elevate(s), Revoked(s)}

\* Any stored secret counts, also one whose enrollment is not confirmed.
VerifyTOTP(s) ==
  /\ Counted /\ Resolved(s) /\ account[session[s].user].secret
  /\ session' = elevate(s)
  /\ UNCHANGED <<account, token, unusedCodes, spent, setup, login, change, overlapped, served>>

\* Faulty variant: the statement does not ask whether the code is unused.
consumeRecoveryCode_Again(s, c) ==
  LET u == session[s].user IN
  /\ Counted /\ Resolved(s)
  /\ unusedCodes' = [unusedCodes EXCEPT ![u] = @ \ {c}]
  /\ spent' = [spent EXCEPT ![u][c] = @ + 1]
  /\ session' = elevate(s)
  /\ UNCHANGED <<account, token, setup, login, change, overlapped, served>>

\* One statement marks the code used if it was not, and tells whether it did.
consumeRecoveryCode(s, c) ==
  LET u == session[s].user IN
  /\ Counted /\ Resolved(s) /\ c \in unusedCodes[u]
  /\ unusedCodes' = [unusedCodes EXCEPT ![u] = @ \ {c}]
  /\ spent' = [spent EXCEPT ![u][c] = @ + 1]
  /\ session' = elevate(s)
  /\ UNCHANGED <<account, token, setup, login, change, overlapped, served>>

\* VerifySecondFactor tries the code of the authenticator, then the recovery codes.
handleTOTPVerify(s) == VerifyTOTP(s) \/ \E c \in Codes : consumeRecoveryCode(s, c)

regenerateRecoveryCodes(s) ==
  LET u == session[s].user IN
  /\ Counted /\ Resolved(s) /\ session[s].elevated
  /\ unusedCodes' = [unusedCodes EXCEPT ![u] = Codes]
  /\ spent' = [spent EXCEPT ![u] = [c \in Codes |-> 0]]
  /\ UNCHANGED <<account, session, token, setup, login, change, overlapped, served>>

---------------------------------------------------------------------------
(* Sessions, passwords and tokens of one's own.                            *)

RevokeSession(s) ==
  /\ session[s] # NoSession
  /\ session' = Revoked(s)
  /\ UNCHANGED <<account, token, unusedCodes, spent, setup, login, change, overlapped, served, changes>>

handleLogout(s) == Resolved(s) /\ RevokeSession(s)
handleRevokeOwnSession(by, s) ==
  /\ Resolved(by) /\ session[by].elevated /\ session[s].user = session[by].user
  /\ RevokeSession(s)

\* The idle and the absolute deadline.
SessionExpires(s) == RevokeSession(s)

\* handleChangePassword ends every session of the account, also this one.
ChangePassword(s) ==
  /\ Counted /\ Resolved(s) /\ session[s].elevated
  /\ session' = DropSessions(session[s].user)
  /\ UNCHANGED <<account, token, unusedCodes, spent, setup, login, change, overlapped, served>>

rank(role) == CASE role = "readonly" -> 0 [] role = "limited" -> 1 [] role = "admin" -> 2
roleAtMost(want, have) == rank(want) <= rank(have)

CreateAPIToken(s, t, role) ==
  LET u == session[s].user IN
  /\ Counted /\ Resolved(s) /\ session[s].elevated
  /\ token[t].owner = NoUser /\ roleAtMost(role, account[u].role)
  /\ token' = [token EXCEPT ![t] = [owner |-> u, role |-> role, valid |-> TRUE]]
  /\ UNCHANGED <<account, session, unusedCodes, spent, setup, login, change, overlapped, served>>

RevokeAPIToken(t) ==
  /\ token[t].valid
  /\ token' = [token EXCEPT ![t].valid = FALSE]
  /\ UNCHANGED <<account, session, unusedCodes, spent, setup, login, change, overlapped, served, changes>>

\* By the owner or an administrator.
handleRevokeToken(s, t) ==
  /\ Resolved(s) /\ session[s].elevated
  /\ token[t].owner = session[s].user \/ Can(account[session[s].user].role, "system.admin")
  /\ RevokeAPIToken(t)

TokenExpires(t) == RevokeAPIToken(t)

---------------------------------------------------------------------------
(* Administration of accounts: the guard, then the write.                  *)

CreateUser(u, role) ==
  /\ Counted /\ ~Exists(u)
  /\ \E s \in SessionIds : Resolved(s) /\ session[s].elevated /\ Can(account[session[s].user].role, "system.admin")
  /\ account' = [account EXCEPT ![u] = Fresh(role)]
  /\ UNCHANGED <<session, token, unusedCodes, spent, setup, login, change, overlapped, served>>

\* Faulty variant: disabled administrators count as a way in.
guardLastAdmin_CountsDisabled(u) ==
  account[u].role = "admin" /\ ~account[u].disabled =>
    \E v \in Users \ {u} : account[v].role = "admin"

guardLastAdmin(u) ==
  account[u].role = "admin" /\ ~account[u].disabled =>
    \E v \in Users \ {u} : account[v].role = "admin" /\ ~account[v].disabled

\* SetRole, SetDisabled, DeleteUser and ResetTOTP are asked for by an
\* administrator's elevated session; the first three are guarded unless they
\* cannot take an administrator away.
AskChange(q, kind, u) ==
  /\ Counted /\ change[q] = NoChange /\ Exists(u)
  /\ \E s \in SessionIds : Resolved(s) /\ session[s].elevated /\ Can(account[session[s].user].role, "system.admin")
  /\ kind \in {"limited", "readonly", "disable", "delete"} => guardLastAdmin(u)
  /\ change' = [change EXCEPT ![q] = [kind |-> kind, user |-> u]]
  /\ overlapped' = (overlapped \/ \E p \in Requests : change[p] # NoChange)
  /\ UNCHANGED <<account, session, token, unusedCodes, spent, setup, login, served>>

SetRole(q) ==
  LET c == change[q] IN
  /\ c.kind \in Roles
  /\ account' = IF Exists(c.user) THEN [account EXCEPT ![c.user].role = c.kind] ELSE account
  /\ change' = [change EXCEPT ![q] = NoChange]
  /\ UNCHANGED <<session, token, unusedCodes, spent, setup, login, overlapped, served, changes>>

SetDisabled(q) ==
  LET c == change[q] IN
  /\ c.kind \in {"disable", "enable"}
  /\ account' = IF Exists(c.user) THEN [account EXCEPT ![c.user].disabled = (c.kind = "disable")] ELSE account
  /\ session' = IF c.kind = "disable" THEN DropSessions(c.user) ELSE session
  /\ change' = [change EXCEPT ![q] = NoChange]
  /\ UNCHANGED <<token, unusedCodes, spent, setup, login, overlapped, served, changes>>

\* Sessions, tokens and codes go with the account (ON DELETE CASCADE).
DeleteUser(q) ==
  LET u == change[q].user IN
  /\ change[q].kind = "delete"
  /\ account' = [account EXCEPT ![u] = Absent]
  /\ session' = DropSessions(u)
  /\ token' = [t \in TokenIds |-> IF token[t].owner = u THEN [token[t] EXCEPT !.valid = FALSE] ELSE token[t]]
  /\ unusedCodes' = [unusedCodes EXCEPT ![u] = {}]
  /\ change' = [change EXCEPT ![q] = NoChange]
  /\ UNCHANGED <<spent, setup, login, overlapped, served, changes>>

ResetTOTP(q) ==
  LET u == change[q].user IN
  /\ change[q].kind = "totp"
  /\ account' = IF Exists(u) THEN [account EXCEPT ![u].secret = FALSE, ![u].totp = FALSE] ELSE account
  /\ unusedCodes' = [unusedCodes EXCEPT ![u] = {}]
  /\ session' = DropSessions(u)
  /\ change' = [change EXCEPT ![q] = NoChange]
  /\ UNCHANGED <<token, spent, setup, login, overlapped, served, changes>>

---------------------------------------------------------------------------
(* A request for a route: allowlist and rate limit, Authenticate,          *)
(* RequireCapability, the handler, and AuditMutations around them.         *)

\* The role the request acts with, or "none".  A token acts with the narrower
\* of its own role and the owner's present one.
ResolveRole(cred) ==
  IF cred \in SessionIds
    THEN IF Resolved(cred) /\ session[cred].elevated THEN account[session[cred].user].role ELSE "none"
    ELSE LET t == token[cred] IN
         IF ~t.valid \/ ~Exists(t.owner) \/ account[t.owner].disabled THEN "none"
         ELSE IF roleAtMost(t.role, account[t.owner].role) THEN t.role ELSE account[t.owner].role

\* A client that has gone takes the request's context with it, so the insert of
\* the audit record fails though the handler did its work.
ServeMutation(cred, cap) ==
  LET role == ResolveRole(cred) IN
  /\ Counted /\ role # "none" /\ Can(role, cap)
  /\ \E clientStays \in BOOLEAN :
       served' = served \cup {[role |-> role, cap |-> cap, recorded |-> clientStays]}
  /\ UNCHANGED <<account, session, token, unusedCodes, spent, setup, login, change, overlapped>>

ChangeKinds == Roles \cup {"disable", "enable", "delete", "totp"}

AccountsNext ==
  \/ \E u \in Users : \/ handleLogin(u) \/ LockExpires(u)
                      \/ \E r \in Roles : CreateUser(u, r)
  \/ LoginWrites
  \/ \E s \in SessionIds : \/ SetupLetIn(s) \/ BeginTOTPEnrollment(s) \/ handleTOTPEnable(s) \/ handleTOTPVerify(s)
                           \/ regenerateRecoveryCodes(s) \/ handleLogout(s) \/ SessionExpires(s)
                           \/ \E by \in SessionIds : handleRevokeOwnSession(by, s)
                           \/ ChangePassword(s) \/ \E t \in TokenIds : handleRevokeToken(s, t)
                           \/ \E t \in TokenIds, r \in Roles : CreateAPIToken(s, t, r)
  \/ \E t \in TokenIds : TokenExpires(t)
  \/ \E q \in Requests : \/ \E k \in ChangeKinds, u \in Users : AskChange(q, k, u)
                         \/ SetRole(q) \/ SetDisabled(q) \/ DeleteUser(q) \/ ResetTOTP(q)
  \/ \E cred \in SessionIds \cup TokenIds, cap \in {"service.control", "destructive"} : ServeMutation(cred, cap)

AccountsSpec == AccountsInit /\ [][AccountsNext]_accountVars

---------------------------------------------------------------------------
(* Properties.                                                             *)

WayIn == \E u \in Users : account[u].role = "admin" /\ ~account[u].disabled

\* guardLastAdmin "refuses changes that would leave the dashboard with no way
\* in": an enabled administrator remains through every sequence of demotions,
\* disablings and deletions, as long as no two of them overlap.
WayInKept == overlapped \/ WayIn

\* A recovery code elevates one session and no more, however many sessions
\* present it (consumeRecoveryCode).
RecoveryCodeOnce == \A u \in Users, c \in Codes : spent[u][c] <= 1

Account == [role : Roles \cup {"none"}, disabled : BOOLEAN, failed : Nat, locked : BOOLEAN,
            secret : BOOLEAN, totp : BOOLEAN]

AccountsTypeOK ==
  /\ account \in [Users -> Account]
  /\ session \in [SessionIds -> [user : Users, elevated : BOOLEAN] \cup {NoSession}]
  /\ token \in [TokenIds -> [owner : Users \cup {NoUser}, role : Roles \cup {"none"}, valid : BOOLEAN]]
  /\ unusedCodes \in [Users -> SUBSET Codes] /\ spent \in [Users -> [Codes -> Nat]]
  /\ setup \subseteq SessionIds
  /\ login \in [user : Users, failed : Nat, ok : BOOLEAN] \cup {NoLogin}
  /\ change \in [Requests -> [kind : ChangeKinds, user : Users] \cup {NoChange}]
  /\ overlapped \in BOOLEAN /\ changes \in Nat

\* A code still offered has not been spent since it was drawn.
CodesLeft == \A u \in Users : \A c \in unusedCodes[u] : spent[u][c] = 0

\* What the guard found still holds when the change it let through is written.
Removals == {"limited", "readonly", "disable", "delete"}
GuardStands ==
  overlapped \/
    \A q \in Requests : change[q] # NoChange =>
      /\ Exists(change[q].user)
      /\ change[q].kind \in Removals => guardLastAdmin(change[q].user)
      /\ \A p \in Requests \ {q} : change[p] = NoChange

\* Both promises of the user store at once: the way in and single-use codes.
AccountsInv == AccountsTypeOK /\ CodesLeft /\ GuardStands /\ WayInKept /\ RecoveryCodeOnce

\* "Every mutating route is logged": no request that changed something is
\* missing from the audit trail.
MutationsAudited == \A m \in served : m.recorded

=============================================================================
