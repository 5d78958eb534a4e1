---------------------------- MODULE AccessProofs ----------------------------
(***************************************************************************)
(* What is proved of the way into the dashboard: its accounts, sessions    *)
(* and recovery codes (Accounts), the terminals opened from it (Terminals) *)
(* and the folders they are filed in (TerminalFolders).                    *)
(***************************************************************************)
EXTENDS Terminals, Accounts, TerminalFolders, FiniteSetTheorems, SequenceTheorems, TLAPS

---------------------------------------------------------------------------
(* Accounts.                                                               *)

WayPart == GuardStands /\ WayInKept
CodePart == CodesLeft /\ RecoveryCodeOnce

LEMMA AccountsParts == AccountsInv <=> AccountsTypeOK /\ CodePart /\ WayPart
  BY DEF AccountsInv, CodePart, WayPart

LEMMA PartsAfter ==
  ASSUME AccountsTypeOK', CodePart', WayPart'
  PROVE  AccountsInv'
  BY DEF AccountsInv, CodePart, WayPart

\* An action that leaves every role and every disabled flag alone.
LEMMA SameAdmins ==
  ASSUME WayPart,
         \A u \in Users : account'[u].role = account[u].role /\ account'[u].disabled = account[u].disabled,
         UNCHANGED <<change, overlapped>>, AccountsTypeOK
  PROVE  WayPart'
  <1>1. \A q \in Requests : change[q] # NoChange => change[q].user \in Users
    BY DEF AccountsTypeOK
  <1>2. GuardStands'
    BY <1>1 DEF WayPart, GuardStands, guardLastAdmin, Exists
  <1>3. WayInKept'
    BY DEF WayPart, WayInKept, WayIn
  <1> QED BY <1>2, <1>3 DEF WayPart

LEMMA SameCodes ==
  ASSUME CodePart, UNCHANGED <<unusedCodes, spent>>
  PROVE  CodePart'
  BY DEF CodePart, CodesLeft, RecoveryCodeOnce

\* New codes have not been spent.
LEMMA NewCodes ==
  ASSUME CodePart, AccountsTypeOK, NEW u \in Users,
         unusedCodes' = [unusedCodes EXCEPT ![u] = Codes],
         spent' = [spent EXCEPT ![u] = [c \in Codes |-> 0]]
  PROVE  /\ CodePart'
         /\ unusedCodes' \in [Users -> SUBSET Codes] /\ spent' \in [Users -> [Codes -> Nat]]
  <1>1. unusedCodes \in [Users -> SUBSET Codes] /\ spent \in [Users -> [Codes -> Nat]]
    BY DEF AccountsTypeOK
  <1>2. [c \in Codes |-> 0] \in [Codes -> Nat]
    OBVIOUS
  <1>3. unusedCodes' \in [Users -> SUBSET Codes] /\ spent' \in [Users -> [Codes -> Nat]]
    BY <1>1, <1>2
  <1>4. \A w \in Users, c \in Codes : spent'[w][c] = IF w = u THEN 0 ELSE spent[w][c]
    BY <1>1
  <1>5. \A w \in Users : unusedCodes'[w] = IF w = u THEN Codes ELSE unusedCodes[w]
    BY <1>1
  <1>6. CodesLeft'
    BY <1>1, <1>3, <1>4, <1>5 DEF CodePart, CodesLeft
  <1>7. RecoveryCodeOnce'
    BY <1>4 DEF CodePart, RecoveryCodeOnce
  <1> QED BY <1>3, <1>6, <1>7 DEF CodePart

\* A set of codes dropped with an account or a second factor.
LEMMA DroppedCodes ==
  ASSUME CodePart, AccountsTypeOK, NEW u \in Users,
         unusedCodes' = [unusedCodes EXCEPT ![u] = {}], spent' = spent
  PROVE  CodePart' /\ unusedCodes' \in [Users -> SUBSET Codes]
  <1>1. \A w \in Users : unusedCodes'[w] = IF w = u THEN {} ELSE unusedCodes[w]
    BY DEF AccountsTypeOK
  <1>2. CodesLeft'
    BY <1>1 DEF CodePart, CodesLeft
  <1>3. RecoveryCodeOnce'
    BY DEF CodePart, RecoveryCodeOnce
  <1>4. unusedCodes' \in [Users -> SUBSET Codes]
    BY DEF AccountsTypeOK
  <1> QED BY <1>2, <1>3, <1>4 DEF CodePart

SessionRow == [user : Users, elevated : BOOLEAN] \cup {NoSession}

\* What happens to the rows of sessions and accounts.
LEMMA SessionRows ==
  ASSUME AccountsTypeOK
  PROVE  /\ \A s \in SessionIds : Resolved(s) => session[s].user \in Users
         /\ \A s \in SessionIds : Resolved(s) => elevate(s) \in [SessionIds -> SessionRow]
         /\ \A s \in SessionIds : Revoked(s) \in [SessionIds -> SessionRow]
         /\ \A u : DropSessions(u) \in [SessionIds -> SessionRow]
         /\ \A s \in SessionIds : session[s].user \in Users \/ session[s].user = NoUser
  <1>1. session \in [SessionIds -> SessionRow]
    BY DEF AccountsTypeOK, SessionRow
  <1>2. \A s \in SessionIds : session[s] = NoSession \/ session[s] \in [user : Users, elevated : BOOLEAN]
    BY <1>1 DEF SessionRow
  <1>3. NoSession \in SessionRow /\ NoSession.user = NoUser
    BY DEF SessionRow, NoSession
  <1>4. ASSUME NEW s \in SessionIds, Resolved(s)
        PROVE  session[s].user \in Users /\ elevate(s) \in [SessionIds -> SessionRow]
    <2>1. session[s] \in [user : Users, elevated : BOOLEAN]
      BY <1>2, <1>4 DEF Resolved
    <2>2. [session[s] EXCEPT !.elevated = TRUE] \in SessionRow
      BY <2>1 DEF SessionRow
    <2> QED BY <1>1, <2>1, <2>2 DEF elevate
  <1>5. \A s \in SessionIds : Revoked(s) \in [SessionIds -> SessionRow]
    BY <1>1, <1>3 DEF Revoked
  <1>6. \A u : DropSessions(u) \in [SessionIds -> SessionRow]
    BY <1>1, <1>3 DEF DropSessions
  <1>7. \A s \in SessionIds : session[s].user \in Users \/ session[s].user = NoUser
    BY <1>2, <1>3
  <1> QED BY <1>4, <1>5, <1>6, <1>7

LEMMA AccountRows ==
  ASSUME AccountsTypeOK, NEW u \in Users, NEW f \in Nat, NEW b \in BOOLEAN, NEW d \in BOOLEAN
  PROVE  /\ [account EXCEPT ![u].failed = f, ![u].locked = b] \in [Users -> Account]
         /\ [account EXCEPT ![u].locked = b] \in [Users -> Account]
         /\ [account EXCEPT ![u].secret = b, ![u].totp = d] \in [Users -> Account]
         /\ [account EXCEPT ![u].totp = b] \in [Users -> Account]
         /\ [account EXCEPT ![u].disabled = b] \in [Users -> Account]
         /\ \A r \in Roles : [account EXCEPT ![u].role = r] \in [Users -> Account]
         /\ \A r \in Roles : [account EXCEPT ![u] = Fresh(r)] \in [Users -> Account]
         /\ [account EXCEPT ![u] = Absent] \in [Users -> Account]
  <1>1. account \in [Users -> Account]
    BY DEF AccountsTypeOK
  <1>2. Absent \in Account /\ \A r \in Roles : Fresh(r) \in Account
    BY DEF Absent, Fresh, Account
  <1>3. account[u] \in Account
    BY <1>1
  <1>4. /\ [account[u] EXCEPT !.failed = f, !.locked = b] \in Account
        /\ [account[u] EXCEPT !.locked = b] \in Account
        /\ [account[u] EXCEPT !.secret = b, !.totp = d] \in Account
        /\ [account[u] EXCEPT !.totp = b] \in Account
        /\ [account[u] EXCEPT !.disabled = b] \in Account
        /\ \A r \in Roles : [account[u] EXCEPT !.role = r] \in Account
    BY <1>3 DEF Account
  <1> QED BY <1>1, <1>2, <1>4

\* An account's counters, lock and second factor say nothing of its role.
LEMMA RolesKept ==
  ASSUME AccountsTypeOK, NEW u \in Users, NEW f, NEW b, NEW d,
         \/ account' = [account EXCEPT ![u].failed = f, ![u].locked = b]
         \/ account' = [account EXCEPT ![u].locked = b]
         \/ account' = [account EXCEPT ![u].secret = b, ![u].totp = d]
         \/ account' = [account EXCEPT ![u].totp = b]
  PROVE  \A v \in Users : account'[v].role = account[v].role /\ account'[v].disabled = account[v].disabled
  <1>1. account \in [Users -> Account] /\ account[u] \in Account
    BY DEF AccountsTypeOK
  <1>2. \A v \in Users : v # u => account'[v] = account[v]
    BY <1>1
  <1>3. account'[u].role = account[u].role /\ account'[u].disabled = account[u].disabled
    BY <1>1 DEF Account
  <1> QED BY <1>2, <1>3

LEMMA LoginReadsInv ==
  ASSUME AccountsInv, NEW u \in Users, handleLogin(u)
  PROVE  AccountsInv'
  <1>1. /\ AccountsTypeOK /\ WayPart /\ CodePart
        /\ UNCHANGED <<account, session, token, unusedCodes, spent, setup, change, overlapped>>
        /\ changes' = changes + 1
        /\ \E right \in BOOLEAN : login' = [user |-> u, failed |-> account[u].failed, ok |-> right]
    BY AccountsParts DEF handleLogin, LoginReads, Counted
  <1>2. account[u].failed \in Nat
    BY <1>1 DEF AccountsTypeOK, Account
  <1>3. AccountsTypeOK'
    BY <1>1, <1>2 DEF AccountsTypeOK
  <1> QED BY <1>1, <1>3, SameAdmins, SameCodes, PartsAfter

LEMMA LoginWritesInv ==
  ASSUME AccountsInv, LoginWrites
  PROVE  AccountsInv'
  <1> DEFINE u == login.user
             full == login.failed + 1 >= maxFailedLogins
  <1>1. /\ AccountsTypeOK /\ WayPart /\ CodePart /\ login' = NoLogin /\ login # NoLogin
        /\ UNCHANGED <<token, unusedCodes, spent, setup, change, overlapped, served, changes>>
    BY AccountsParts DEF LoginWrites
  <1>2. u \in Users /\ login.failed \in Nat
    BY <1>1 DEF AccountsTypeOK
  <1>3. /\ account' \in [Users -> Account]
        /\ session' \in [SessionIds -> SessionRow]
        /\ \A v \in Users : account'[v].role = account[v].role /\ account'[v].disabled = account[v].disabled
    <2>0. session \in [SessionIds -> SessionRow]
      BY <1>1 DEF AccountsTypeOK, SessionRow
    <2>1. CASE UNCHANGED <<account, session>>
      BY <1>1, <2>0, <2>1 DEF AccountsTypeOK
    <2>2. CASE /\ account' = [account EXCEPT ![u].failed = 0, ![u].locked = FALSE]
               /\ \E s \in SessionIds :
                    session' = [session EXCEPT ![s] = [user |-> u, elevated |-> FALSE]]
      <3>1. [user |-> u, elevated |-> FALSE] \in SessionRow
        BY <1>2 DEF SessionRow
      <3>2. session' \in [SessionIds -> SessionRow]
        BY <2>0, <2>2, <3>1
      <3>3. account' \in [Users -> Account]
        BY <1>1, <1>2, <2>2, AccountRows
      <3> QED BY <1>1, <1>2, <2>2, <3>2, <3>3, RolesKept
    <2>3. CASE /\ account' = [account EXCEPT ![u].failed = IF full THEN 0 ELSE login.failed + 1,
                                             ![u].locked = full]
               /\ UNCHANGED session
      <3>1. (IF full THEN 0 ELSE login.failed + 1) \in Nat /\ full \in BOOLEAN
        BY <1>2
      <3> HIDE DEF full
      <3>2. account' \in [Users -> Account]
        BY <1>1, <1>2, <2>3, <3>1, AccountRows
      <3> QED BY <1>1, <1>2, <2>0, <2>3, <3>2, RolesKept
    <2> QED BY <2>1, <2>2, <2>3 DEF LoginWrites
  <1>4. AccountsTypeOK'
    BY <1>1, <1>3 DEF AccountsTypeOK, SessionRow
  <1> QED BY <1>1, <1>3, <1>4, SameAdmins, SameCodes, PartsAfter

LEMMA LockExpiresInv ==
  ASSUME AccountsInv, NEW u \in Users, LockExpires(u)
  PROVE  AccountsInv'
  <1>1. /\ AccountsTypeOK /\ WayPart /\ CodePart
        /\ account' = [account EXCEPT ![u].locked = FALSE]
        /\ UNCHANGED <<session, token, unusedCodes, spent, setup, login, change, overlapped, served, changes>>
    BY AccountsParts DEF LockExpires
  <1>2. account' \in [Users -> Account]
    BY <1>1, AccountRows
  <1>3. AccountsTypeOK'
    BY <1>1, <1>2 DEF AccountsTypeOK
  <1>4. \A v \in Users : account'[v].role = account[v].role /\ account'[v].disabled = account[v].disabled
    BY <1>1, RolesKept
  <1> QED BY <1>1, <1>3, <1>4, SameAdmins, SameCodes, PartsAfter

---------------------------------------------------------------------------
(* The second factor, sessions, passwords and tokens.                      *)

LEMMA SetupInv ==
  ASSUME AccountsInv, NEW s \in SessionIds, SetupLetIn(s) \/ BeginTOTPEnrollment(s)
  PROVE  AccountsInv'
  <1>1. AccountsTypeOK /\ WayPart /\ CodePart
    BY AccountsParts
  <1>2. CASE SetupLetIn(s)
    <2>1. /\ setup' = setup \cup {s} /\ changes' = changes + 1
          /\ UNCHANGED <<account, session, token, unusedCodes, spent, login, change, overlapped, served>>
      BY <1>2 DEF SetupLetIn, Counted
    <2>2. AccountsTypeOK'
      BY <1>1, <2>1 DEF AccountsTypeOK
    <2> QED BY <1>1, <2>1, <2>2, SameAdmins, SameCodes, PartsAfter
  <1>3. CASE BeginTOTPEnrollment(s)
    <2> DEFINE u == session[s].user
    <2>1. /\ setup' = setup \ {s}
          /\ \/ UNCHANGED account
             \/ u # NoUser /\ account' = [account EXCEPT ![u].secret = TRUE, ![u].totp = FALSE]
          /\ UNCHANGED <<session, token, unusedCodes, spent, login, change, overlapped, served, changes>>
      BY <1>3 DEF BeginTOTPEnrollment
    <2>2. u # NoUser => u \in Users
      BY <1>1, SessionRows
    <2>3. account \in [Users -> Account]
      BY <1>1 DEF AccountsTypeOK
    <2>4. /\ account' \in [Users -> Account]
          /\ \A v \in Users : account'[v].role = account[v].role /\ account'[v].disabled = account[v].disabled
      <3>1. CASE UNCHANGED account
        BY <2>3, <3>1
      <3>2. CASE u # NoUser /\ account' = [account EXCEPT ![u].secret = TRUE, ![u].totp = FALSE]
        <4>1. account' \in [Users -> Account]
          BY <1>1, <2>2, <3>2, AccountRows
        <4> QED BY <1>1, <2>2, <3>2, <4>1, RolesKept
      <3> QED BY <2>1, <3>1, <3>2
    <2>5. AccountsTypeOK'
      BY <1>1, <2>1, <2>4 DEF AccountsTypeOK
    <2> QED BY <1>1, <2>1, <2>4, <2>5, SameAdmins, SameCodes, PartsAfter
  <1> QED BY <1>2, <1>3

LEMMA EnableInv ==
  ASSUME AccountsInv, NEW s \in SessionIds, handleTOTPEnable(s)
  PROVE  AccountsInv'
  <1> DEFINE u == session[s].user
  <1>1. /\ AccountsTypeOK /\ WayPart /\ CodePart /\ u \in Users /\ changes' = changes + 1
        /\ account' = [account EXCEPT ![u].totp = TRUE]
        /\ unusedCodes' = [unusedCodes EXCEPT ![u] = Codes]
        /\ spent' = [spent EXCEPT ![u] = [c \in Codes |-> 0]]
        /\ session' \in {elevate(s), Revoked(s)} /\ Resolved(s)
        /\ UNCHANGED <<token, setup, login, change, overlapped, served>>
    BY AccountsParts, SessionRows DEF handleTOTPEnable, ConfirmTOTPEnrollment, Counted
  <1>2. session' \in [SessionIds -> SessionRow]
    BY <1>1, SessionRows
  <1>3. account' \in [Users -> Account]
    BY <1>1, AccountRows
  <1>4. CodePart' /\ unusedCodes' \in [Users -> SUBSET Codes] /\ spent' \in [Users -> [Codes -> Nat]]
    BY <1>1, NewCodes
  <1>5. \A v \in Users : account'[v].role = account[v].role /\ account'[v].disabled = account[v].disabled
    BY <1>1, RolesKept
  <1>6. AccountsTypeOK'
    BY <1>1, <1>2, <1>3, <1>4 DEF AccountsTypeOK, SessionRow
  <1> QED BY <1>1, <1>4, <1>5, <1>6, SameAdmins, PartsAfter

\* A code is spent by the statement that takes it out of the unused ones.
LEMMA VerifyInv ==
  ASSUME AccountsInv, NEW s \in SessionIds, handleTOTPVerify(s)
  PROVE  AccountsInv'
  <1> DEFINE u == session[s].user
  <1>1. /\ AccountsTypeOK /\ WayPart /\ CodePart /\ u \in Users /\ changes' = changes + 1
        /\ session' \in [SessionIds -> SessionRow]
        /\ UNCHANGED <<account, token, setup, login, change, overlapped, served>>
    BY AccountsParts, SessionRows DEF handleTOTPVerify, VerifyTOTP, consumeRecoveryCode, Counted
  <1>2. WayPart'
    BY <1>1, SameAdmins
  <1>3. CASE UNCHANGED <<unusedCodes, spent>>
    <2>1. AccountsTypeOK'
      BY <1>1, <1>3 DEF AccountsTypeOK, SessionRow
    <2> QED BY <1>1, <1>2, <1>3, <2>1, SameCodes, PartsAfter
  <1>4. ASSUME NEW c \in Codes, c \in unusedCodes[u],
               unusedCodes' = [unusedCodes EXCEPT ![u] = @ \ {c}],
               spent' = [spent EXCEPT ![u][c] = @ + 1]
        PROVE  AccountsInv'
    <2>1. unusedCodes \in [Users -> SUBSET Codes] /\ spent \in [Users -> [Codes -> Nat]] /\ spent[u][c] = 0
      BY <1>1, <1>4 DEF AccountsTypeOK, CodePart, CodesLeft
    <2>2. /\ \A w \in Users : unusedCodes'[w] = IF w = u THEN unusedCodes[u] \ {c} ELSE unusedCodes[w]
          /\ unusedCodes' \in [Users -> SUBSET Codes]
      BY <1>1, <1>4, <2>1
    <2>3. [spent[u] EXCEPT ![c] = 1] \in [Codes -> Nat]
      BY <1>1, <2>1
    <2>4. spent' = [spent EXCEPT ![u] = [spent[u] EXCEPT ![c] = 1]]
      BY <1>1, <1>4, <2>1
    <2>5. spent' \in [Users -> [Codes -> Nat]]
      BY <1>1, <2>1, <2>3, <2>4
    <2>6. \A w \in Users, d \in Codes : spent'[w][d] = IF w = u /\ d = c THEN 1 ELSE spent[w][d]
      BY <1>1, <2>1, <2>4
    <2>7. CodesLeft'
      BY <1>1, <2>1, <2>2, <2>6 DEF CodePart, CodesLeft
    <2>8. RecoveryCodeOnce'
      BY <1>1, <2>6 DEF CodePart, RecoveryCodeOnce
    <2>9. AccountsTypeOK'
      BY <1>1, <2>2, <2>5 DEF AccountsTypeOK, SessionRow
    <2> QED BY <1>2, <2>7, <2>8, <2>9, PartsAfter DEF CodePart
  <1> QED BY <1>3, <1>4 DEF handleTOTPVerify, VerifyTOTP, consumeRecoveryCode

LEMMA RegenerateInv ==
  ASSUME AccountsInv, NEW s \in SessionIds, regenerateRecoveryCodes(s)
  PROVE  AccountsInv'
  <1> DEFINE u == session[s].user
  <1>1. /\ AccountsTypeOK /\ WayPart /\ CodePart /\ u \in Users /\ changes' = changes + 1
        /\ unusedCodes' = [unusedCodes EXCEPT ![u] = Codes]
        /\ spent' = [spent EXCEPT ![u] = [c \in Codes |-> 0]]
        /\ UNCHANGED <<account, session, token, setup, login, change, overlapped, served>>
    BY AccountsParts, SessionRows DEF regenerateRecoveryCodes, Counted
  <1>2. CodePart' /\ unusedCodes' \in [Users -> SUBSET Codes] /\ spent' \in [Users -> [Codes -> Nat]]
    BY <1>1, NewCodes
  <1>3. AccountsTypeOK'
    BY <1>1, <1>2 DEF AccountsTypeOK
  <1> QED BY <1>1, <1>2, <1>3, SameAdmins, PartsAfter

\* Sessions end; nothing else happens.
LEMMA SessionsEnd ==
  ASSUME AccountsInv, session' \in [SessionIds -> SessionRow], changes' \in Nat,
         UNCHANGED <<account, token, unusedCodes, spent, setup, login, change, overlapped, served>>
  PROVE  AccountsInv'
  <1>1. AccountsTypeOK /\ WayPart /\ CodePart
    BY AccountsParts
  <1>2. AccountsTypeOK'
    BY <1>1 DEF AccountsTypeOK, SessionRow
  <1> QED BY <1>1, <1>2, SameAdmins, SameCodes, PartsAfter

LEMMA SessionInv ==
  ASSUME AccountsInv, NEW s \in SessionIds, RevokeSession(s) \/ ChangePassword(s)
  PROVE  AccountsInv'
  <1>1. AccountsTypeOK /\ changes \in Nat
    BY AccountsParts DEF AccountsTypeOK
  <1>2. session' \in [SessionIds -> SessionRow] /\ changes' \in Nat
    BY <1>1, SessionRows DEF RevokeSession, ChangePassword, Counted
  <1> QED BY <1>2, SessionsEnd DEF RevokeSession, ChangePassword

LEMMA TokenInv ==
  ASSUME AccountsInv, NEW t \in TokenIds,
         \/ RevokeAPIToken(t)
         \/ \E s \in SessionIds, role \in Roles : CreateAPIToken(s, t, role)
  PROVE  AccountsInv'
  <1> DEFINE Token == [owner : Users \cup {NoUser}, role : Roles \cup {"none"}, valid : BOOLEAN]
  <1>1. AccountsTypeOK /\ WayPart /\ CodePart /\ changes \in Nat /\ token \in [TokenIds -> Token]
    BY AccountsParts DEF AccountsTypeOK
  <1>2. CASE RevokeAPIToken(t)
    <2>1. [token[t] EXCEPT !.valid = FALSE] \in Token
      BY <1>1
    <2>2. token' = [token EXCEPT ![t].valid = FALSE]
      BY <1>2 DEF RevokeAPIToken
    <2> HIDE DEF Token
    <2>3. token' \in [TokenIds -> Token]
      BY <1>1, <2>1, <2>2
    <2>4. AccountsTypeOK'
      BY <1>1, <1>2, <2>3 DEF AccountsTypeOK, RevokeAPIToken, Token
    <2> QED BY <1>1, <1>2, <2>4, SameAdmins, SameCodes, PartsAfter DEF RevokeAPIToken
  <1>3. ASSUME NEW s \in SessionIds, NEW role \in Roles, CreateAPIToken(s, t, role)
        PROVE  AccountsInv'
    <2>1. /\ session[s].user \in Users /\ changes' = changes + 1
          /\ token' = [token EXCEPT ![t] = [owner |-> session[s].user, role |-> role, valid |-> TRUE]]
          /\ UNCHANGED <<account, session, unusedCodes, spent, setup, login, change, overlapped, served>>
      BY <1>1, <1>3, SessionRows DEF CreateAPIToken, Counted
    <2>2. [owner |-> session[s].user, role |-> role, valid |-> TRUE] \in Token
      BY <2>1
    <2> HIDE DEF Token
    <2>3. token' \in [TokenIds -> Token]
      BY <1>1, <2>1, <2>2
    <2>4. AccountsTypeOK'
      BY <1>1, <2>1, <2>3 DEF AccountsTypeOK, Token
    <2> QED BY <1>1, <2>1, <2>4, SameAdmins, SameCodes, PartsAfter
  <1> QED BY <1>2, <1>3

LEMMA ServeInv ==
  ASSUME AccountsInv, NEW cred, NEW cap, ServeMutation(cred, cap)
  PROVE  AccountsInv'
  <1>1. /\ AccountsTypeOK /\ WayPart /\ CodePart /\ changes' = changes + 1
        /\ UNCHANGED <<account, session, token, unusedCodes, spent, setup, login, change, overlapped>>
    BY AccountsParts DEF ServeMutation, Counted
  <1>2. AccountsTypeOK'
    BY <1>1 DEF AccountsTypeOK
  <1> QED BY <1>1, <1>2, SameAdmins, SameCodes, PartsAfter

---------------------------------------------------------------------------
(* Administration.                                                         *)

LEMMA CreateUserInv ==
  ASSUME AccountsInv, NEW u \in Users, NEW role \in Roles, CreateUser(u, role)
  PROVE  AccountsInv'
  <1>1. /\ AccountsTypeOK /\ WayPart /\ CodePart /\ changes' = changes + 1 /\ ~Exists(u)
        /\ account' = [account EXCEPT ![u] = Fresh(role)]
        /\ UNCHANGED <<session, token, unusedCodes, spent, setup, login, change, overlapped, served>>
    BY AccountsParts DEF CreateUser, Counted
  <1>2. account' \in [Users -> Account] /\ \A v \in Users : v # u => account'[v] = account[v]
    BY <1>1, AccountRows DEF AccountsTypeOK
  <1>3. AccountsTypeOK'
    BY <1>1, <1>2 DEF AccountsTypeOK
  <1>4. WayInKept'
    <2>1. account[u].role # "admin"
      BY <1>1 DEF Exists
    <2> QED BY <1>1, <1>2, <2>1 DEF WayPart, WayInKept, WayIn
  <1>5. GuardStands'
    <2>1. \A v \in Users : account[v].role # "none" => v # u /\ account'[v] = account[v]
      BY <1>1, <1>2 DEF Exists
    <2>2. ASSUME ~overlapped, NEW q \in Requests, change[q] # NoChange
          PROVE  /\ Exists(change[q].user)'
                 /\ change[q].kind \in Removals => guardLastAdmin(change[q].user)'
                 /\ \A p \in Requests \ {q} : change[p] = NoChange
      <3> DEFINE w == change[q].user
      <3>1. /\ Exists(w) /\ (change[q].kind \in Removals => guardLastAdmin(w))
            /\ \A p \in Requests \ {q} : change[p] = NoChange
        BY <1>1, <2>2 DEF WayPart, GuardStands
      <3>2. w \in Users /\ change' = change
        BY <1>1, <2>2 DEF AccountsTypeOK
      <3>3. account'[w] = account[w] /\ Exists(w)'
        BY <2>1, <3>1, <3>2 DEF Exists
      <3>4. guardLastAdmin(w) => guardLastAdmin(w)'
        BY <2>1, <3>2, <3>3 DEF guardLastAdmin
      <3> QED BY <3>1, <3>3, <3>4
    <2> QED BY <1>1, <2>2 DEF GuardStands
  <1> QED BY <1>1, <1>3, <1>4, <1>5, SameCodes, PartsAfter DEF WayPart

LEMMA AskChangeInv ==
  ASSUME AccountsInv, NEW q \in Requests, NEW kind \in ChangeKinds, NEW u \in Users, AskChange(q, kind, u)
  PROVE  AccountsInv'
  <1> DEFINE c == [kind |-> kind, user |-> u]
  <1>1. /\ AccountsTypeOK /\ WayPart /\ CodePart /\ changes' = changes + 1 /\ Exists(u)
        /\ kind \in Removals => guardLastAdmin(u)
        /\ change[q] = NoChange /\ change' = [change EXCEPT ![q] = c]
        /\ overlapped' = (overlapped \/ \E p \in Requests : change[p] # NoChange)
        /\ UNCHANGED <<account, session, token, unusedCodes, spent, setup, login, served>>
    BY AccountsParts DEF AskChange, Counted, Removals
  <1>2. /\ change' \in [Requests -> [kind : ChangeKinds, user : Users] \cup {NoChange}]
        /\ change'[q] = c /\ \A p \in Requests \ {q} : change'[p] = change[p]
    BY <1>1 DEF AccountsTypeOK
  <1>3. overlapped' \in BOOLEAN
    BY <1>1
  <1>4. AccountsTypeOK'
    BY <1>1, <1>2, <1>3 DEF AccountsTypeOK
  <1>5. GuardStands'
    <2> SUFFICES ASSUME ~overlapped', NEW p \in Requests, change'[p] # NoChange
        PROVE  (/\ Exists(change[p].user)
                /\ change[p].kind \in Removals => guardLastAdmin(change[p].user)
                /\ \A r \in Requests \ {p} : change[r] = NoChange)'
      BY DEF GuardStands
    <2>1. \A r \in Requests : change[r] = NoChange
      BY <1>1
    <2>2. p = q /\ change'[p] = c /\ \A r \in Requests \ {p} : change'[r] = NoChange
      BY <1>2, <2>1
    <2>3. c.kind = kind /\ c.user = u
      OBVIOUS
    <2> HIDE DEF c
    <2> QED BY <1>1, <2>2, <2>3 DEF Exists, guardLastAdmin
  <1>6. WayInKept'
    BY <1>1 DEF WayPart, WayInKept, WayIn
  <1> QED BY <1>1, <1>4, <1>5, <1>6, SameCodes, PartsAfter DEF WayPart

\* A change is written: if no other was under way its guard still holds, and it
\* was the last one.
TokenRow == [owner : Users \cup {NoUser}, role : Roles \cup {"none"}, valid : BOOLEAN]
TakesNoAdmin(q) ==
  LET u == change[q].user IN
  \/ change[q].kind \in Removals
  \/ (account[u].role = "admin" /\ ~account[u].disabled => account'[u].role = "admin" /\ ~account'[u].disabled)
CodesTouched(u) == UNCHANGED unusedCodes \/ unusedCodes' = [unusedCodes EXCEPT ![u] = {}]

LEMMA ChangeWritten ==
  ASSUME AccountsInv, NEW q \in Requests, change[q] # NoChange,
         change' = [change EXCEPT ![q] = NoChange],
         account' \in [Users -> Account], session' \in [SessionIds -> SessionRow],
         token' \in [TokenIds -> TokenRow],
         \A v \in Users : v # change[q].user => account'[v] = account[v],
         TakesNoAdmin(q), CodesTouched(change[q].user),
         UNCHANGED <<spent, setup, login, overlapped, served, changes>>
  PROVE  AccountsInv'
  <1> DEFINE u == change[q].user
  <1>1. AccountsTypeOK /\ WayPart /\ CodePart /\ u \in Users
    BY AccountsParts DEF AccountsTypeOK
  <1>2. /\ change' \in [Requests -> [kind : ChangeKinds, user : Users] \cup {NoChange}]
        /\ change'[q] = NoChange /\ \A p \in Requests \ {q} : change'[p] = change[p]
    BY <1>1 DEF AccountsTypeOK
  <1>3. CodePart' /\ unusedCodes' \in [Users -> SUBSET Codes]
    <2>1. CASE UNCHANGED unusedCodes
      BY <1>1, <2>1, SameCodes DEF AccountsTypeOK
    <2>2. CASE unusedCodes' = [unusedCodes EXCEPT ![u] = {}]
      BY <1>1, <2>2, DroppedCodes
    <2> QED BY <2>1, <2>2 DEF CodesTouched
  <1>4. AccountsTypeOK'
    BY <1>1, <1>2, <1>3 DEF AccountsTypeOK, SessionRow, TokenRow
  <1>5. GuardStands'
    <2> SUFFICES ASSUME ~overlapped', NEW p \in Requests
        PROVE  change'[p] = NoChange
      BY DEF GuardStands
    <2> QED BY <1>1, <1>2 DEF WayPart, GuardStands
  <1>6. WayInKept'
    <2> SUFFICES ASSUME ~overlapped
        PROVE  WayIn'
      BY DEF WayInKept
    <2>1. WayIn /\ (change[q].kind \in Removals => guardLastAdmin(u))
      BY <1>1 DEF WayPart, WayInKept, GuardStands
    <2>2. PICK a \in Users : account[a].role = "admin" /\ ~account[a].disabled
      BY <2>1 DEF WayIn
    <2>3. CASE a # u
      BY <1>1, <2>2, <2>3 DEF WayIn
    <2>4. CASE a = u /\ change[q].kind \in Removals
      <3>1. PICK b \in Users \ {u} : account[b].role = "admin" /\ ~account[b].disabled
        BY <2>1, <2>2, <2>4 DEF guardLastAdmin
      <3> QED BY <1>1, <3>1 DEF WayIn
    <2>5. CASE a = u /\ change[q].kind \notin Removals
      BY <1>1, <2>2, <2>5 DEF WayIn, TakesNoAdmin
    <2> QED BY <2>3, <2>4, <2>5
  <1> QED BY <1>3, <1>4, <1>5, <1>6, PartsAfter DEF WayPart

LEMMA SetRoleInv ==
  ASSUME AccountsInv, NEW q \in Requests, SetRole(q)
  PROVE  AccountsInv'
  <1> DEFINE u == change[q].user
             kind == change[q].kind
  <1>1. /\ AccountsTypeOK /\ kind \in Roles /\ change' = [change EXCEPT ![q] = NoChange]
        /\ account' = IF Exists(u) THEN [account EXCEPT ![u].role = kind] ELSE account
        /\ UNCHANGED <<session, token, unusedCodes, spent, setup, login, overlapped, served, changes>>
    BY AccountsParts DEF SetRole
  <1>2. change[q] # NoChange
    BY <1>1 DEF NoChange, Roles
  <1>3. u \in Users
    BY <1>1, <1>2 DEF AccountsTypeOK
  <1>4. account \in [Users -> Account] /\ session' \in [SessionIds -> SessionRow]
        /\ token' \in [TokenIds -> TokenRow]
    BY <1>1 DEF AccountsTypeOK, SessionRow, TokenRow
  <1>5. account' \in [Users -> Account]
    BY <1>1, <1>3, <1>4, AccountRows
  <1>6. \A v \in Users : v # u => account'[v] = account[v]
    BY <1>1, <1>4
  <1>7. TakesNoAdmin(q)
    <2>1. CASE kind = "admin" /\ Exists(u)
      <3>1. account[u] \in Account /\ account'[u] = [account[u] EXCEPT !.role = "admin"]
        BY <1>1, <1>3, <1>4, <2>1
      <3> QED BY <3>1 DEF Account, TakesNoAdmin
    <2>2. CASE ~Exists(u)
      BY <1>1, <2>2 DEF TakesNoAdmin
    <2>3. CASE kind # "admin"
      BY <1>1, <2>3 DEF Roles, Removals, TakesNoAdmin
    <2> QED BY <2>1, <2>2, <2>3
  <1>8. CodesTouched(u) /\ UNCHANGED <<spent, setup, login, overlapped, served, changes>>
    BY <1>1 DEF CodesTouched
  <1> QED BY <1>1, <1>2, <1>4, <1>5, <1>6, <1>7, <1>8, ChangeWritten

LEMMA SetDisabledInv ==
  ASSUME AccountsInv, NEW q \in Requests, SetDisabled(q)
  PROVE  AccountsInv'
  <1> DEFINE u == change[q].user
             kind == change[q].kind
  <1>1. /\ AccountsTypeOK /\ kind \in {"disable", "enable"} /\ change' = [change EXCEPT ![q] = NoChange]
        /\ account' = IF Exists(u) THEN [account EXCEPT ![u].disabled = (kind = "disable")] ELSE account
        /\ session' = IF kind = "disable" THEN DropSessions(u) ELSE session
        /\ UNCHANGED <<token, unusedCodes, spent, setup, login, overlapped, served, changes>>
    BY AccountsParts DEF SetDisabled
  <1>2. change[q] # NoChange
    BY <1>1 DEF NoChange
  <1>3. u \in Users
    BY <1>1, <1>2 DEF AccountsTypeOK
  <1>4. account \in [Users -> Account] /\ session' \in [SessionIds -> SessionRow]
        /\ token' \in [TokenIds -> TokenRow]
    BY <1>1, SessionRows DEF AccountsTypeOK, SessionRow, TokenRow
  <1>5. account' \in [Users -> Account]
    <2>1. (kind = "disable") \in BOOLEAN
      OBVIOUS
    <2> QED BY <1>1, <1>3, <1>4, <2>1, AccountRows
  <1>6. \A v \in Users : v # u => account'[v] = account[v]
    BY <1>1, <1>4
  <1>7. TakesNoAdmin(q)
    <2>1. CASE kind = "enable" /\ Exists(u)
      <3>1. account[u] \in Account /\ account'[u] = [account[u] EXCEPT !.disabled = FALSE]
        BY <1>1, <1>3, <1>4, <2>1
      <3> QED BY <3>1 DEF Account, TakesNoAdmin
    <2>2. CASE ~Exists(u)
      BY <1>1, <2>2 DEF TakesNoAdmin
    <2>3. CASE kind = "disable"
      BY <2>3 DEF Removals, TakesNoAdmin
    <2> QED BY <1>1, <2>1, <2>2, <2>3
  <1>8. CodesTouched(u) /\ UNCHANGED <<spent, setup, login, overlapped, served, changes>>
    BY <1>1 DEF CodesTouched
  <1> QED BY <1>1, <1>2, <1>4, <1>5, <1>6, <1>7, <1>8, ChangeWritten

LEMMA DeleteUserInv ==
  ASSUME AccountsInv, NEW q \in Requests, DeleteUser(q)
  PROVE  AccountsInv'
  <1> DEFINE u == change[q].user
  <1>1. /\ AccountsTypeOK /\ change[q].kind = "delete" /\ change' = [change EXCEPT ![q] = NoChange]
        /\ account' = [account EXCEPT ![u] = Absent]
        /\ session' = DropSessions(u)
        /\ token' = [t \in TokenIds |-> IF token[t].owner = u THEN [token[t] EXCEPT !.valid = FALSE] ELSE token[t]]
        /\ unusedCodes' = [unusedCodes EXCEPT ![u] = {}]
        /\ UNCHANGED <<spent, setup, login, overlapped, served, changes>>
    BY AccountsParts DEF DeleteUser
  <1>2. change[q] # NoChange /\ change[q].kind \in Removals
    BY <1>1 DEF NoChange, Removals
  <1>3. u \in Users
    BY <1>1, <1>2 DEF AccountsTypeOK
  <1>4. account \in [Users -> Account] /\ session' \in [SessionIds -> SessionRow] /\ token \in [TokenIds -> TokenRow]
    BY <1>1, SessionRows DEF AccountsTypeOK, SessionRow, TokenRow
  <1>5. token' \in [TokenIds -> TokenRow]
    <2>1. \A t \in TokenIds : token[t] \in TokenRow /\ [token[t] EXCEPT !.valid = FALSE] \in TokenRow
      BY <1>4 DEF TokenRow
    <2> QED BY <1>1, <2>1
  <1>6. account' \in [Users -> Account] /\ \A v \in Users : v # u => account'[v] = account[v]
    BY <1>1, <1>3, <1>4, AccountRows
  <1>7. TakesNoAdmin(q)
    BY <1>2 DEF TakesNoAdmin
  <1>8. CodesTouched(u) /\ UNCHANGED <<spent, setup, login, overlapped, served, changes>>
    BY <1>1 DEF CodesTouched
  <1> QED BY <1>1, <1>2, <1>4, <1>5, <1>6, <1>7, <1>8, ChangeWritten

LEMMA ResetTOTPInv ==
  ASSUME AccountsInv, NEW q \in Requests, ResetTOTP(q)
  PROVE  AccountsInv'
  <1> DEFINE u == change[q].user
  <1>1. /\ AccountsTypeOK /\ change[q].kind = "totp" /\ change' = [change EXCEPT ![q] = NoChange]
        /\ account' = IF Exists(u) THEN [account EXCEPT ![u].secret = FALSE, ![u].totp = FALSE] ELSE account
        /\ unusedCodes' = [unusedCodes EXCEPT ![u] = {}]
        /\ session' = DropSessions(u)
        /\ UNCHANGED <<token, spent, setup, login, overlapped, served, changes>>
    BY AccountsParts DEF ResetTOTP
  <1>2. change[q] # NoChange
    BY <1>1 DEF NoChange
  <1>3. u \in Users
    BY <1>1, <1>2 DEF AccountsTypeOK
  <1>4. account \in [Users -> Account] /\ session' \in [SessionIds -> SessionRow]
        /\ token' \in [TokenIds -> TokenRow]
    BY <1>1, SessionRows DEF AccountsTypeOK, SessionRow, TokenRow
  <1>5. account' \in [Users -> Account] /\ \A v \in Users : v # u => account'[v] = account[v]
    BY <1>1, <1>3, <1>4, AccountRows
  <1>9. account'[u].role = account[u].role /\ account'[u].disabled = account[u].disabled
    <2>1. CASE account' = account
      BY <2>1
    <2>2. CASE account' = [account EXCEPT ![u].secret = FALSE, ![u].totp = FALSE]
      BY <1>1, <1>3, <2>2, RolesKept
    <2> QED BY <1>1, <2>1, <2>2
  <1>7. TakesNoAdmin(q)
    BY <1>9 DEF TakesNoAdmin
  <1>8. CodesTouched(u) /\ UNCHANGED <<spent, setup, login, overlapped, served, changes>>
    BY <1>1 DEF CodesTouched
  <1> QED BY <1>1, <1>2, <1>4, <1>5, <1>7, <1>8, ChangeWritten

\* An enabled administrator remains through every sequence of account changes of
\* which no two overlap, and a recovery code elevates one session, for every set of
\* accounts, sessions, codes and requests (guardLastAdmin, consumeRecoveryCode).
THEOREM AccountsInvariance == AccountsSpec => []AccountsInv
  <1>1. AccountsInit => AccountsInv
    <2> SUFFICES ASSUME AccountsInit
        PROVE  AccountsInv
      OBVIOUS
    <2>1. PICK first \in Users :
            account = [u \in Users |-> IF u = first THEN Fresh("admin") ELSE Absent]
      BY DEF AccountsInit
    <2>2. Absent \in Account /\ Fresh("admin") \in Account /\ Fresh("admin").role = "admin" /\ ~Fresh("admin").disabled
      BY DEF Absent, Fresh, Account, Roles
    <2>3. account \in [Users -> Account] /\ account[first] = Fresh("admin")
      BY <2>1, <2>2
    <2>4. unusedCodes \in [Users -> SUBSET Codes] /\ spent \in [Users -> [Codes -> Nat]]
      <3>1. [c \in Codes |-> 0] \in [Codes -> Nat]
        OBVIOUS
      <3> QED BY <3>1 DEF AccountsInit
    <2>5. AccountsTypeOK
      BY <2>3, <2>4 DEF AccountsInit, AccountsTypeOK
    <2>6. CodePart
      BY DEF AccountsInit, CodePart, CodesLeft, RecoveryCodeOnce
    <2>7. GuardStands
      BY DEF AccountsInit, GuardStands
    <2>8. WayInKept
      BY <2>2, <2>3 DEF WayInKept, WayIn
    <2> QED BY <2>5, <2>6, <2>7, <2>8, AccountsParts DEF WayPart
  <1>2. AccountsInv /\ [AccountsNext]_accountVars => AccountsInv'
    <2> SUFFICES ASSUME AccountsInv, [AccountsNext]_accountVars
        PROVE  AccountsInv'
      OBVIOUS
    <2>1. ASSUME NEW u \in Users,
                 handleLogin(u) \/ LockExpires(u) \/ \E r \in Roles : CreateUser(u, r)
          PROVE  AccountsInv'
      BY <2>1, LoginReadsInv, LockExpiresInv, CreateUserInv
    <2>2. CASE LoginWrites
      BY <2>2, LoginWritesInv
    <2>3. ASSUME NEW s \in SessionIds,
                 \/ SetupLetIn(s) \/ BeginTOTPEnrollment(s) \/ handleTOTPEnable(s) \/ handleTOTPVerify(s)
                 \/ regenerateRecoveryCodes(s) \/ handleLogout(s) \/ SessionExpires(s)
                 \/ \E by \in SessionIds : handleRevokeOwnSession(by, s)
                 \/ ChangePassword(s) \/ \E t \in TokenIds : handleRevokeToken(s, t)
                 \/ \E t \in TokenIds, r \in Roles : CreateAPIToken(s, t, r)
          PROVE  AccountsInv'
      <3>1. CASE \/ SetupLetIn(s) \/ BeginTOTPEnrollment(s) \/ handleTOTPEnable(s) \/ handleTOTPVerify(s)
                 \/ regenerateRecoveryCodes(s)
        BY <3>1, SetupInv, EnableInv, VerifyInv, RegenerateInv
      <3>2. CASE \/ handleLogout(s) \/ SessionExpires(s) \/ ChangePassword(s)
                 \/ \E by \in SessionIds : handleRevokeOwnSession(by, s)
        BY <3>2, SessionInv DEF handleLogout, SessionExpires, handleRevokeOwnSession
      <3>3. CASE \/ \E t \in TokenIds : handleRevokeToken(s, t)
                 \/ \E t \in TokenIds, r \in Roles : CreateAPIToken(s, t, r)
        BY <3>3, TokenInv DEF handleRevokeToken
      <3> QED BY <2>3, <3>1, <3>2, <3>3
    <2>4. ASSUME NEW t \in TokenIds, TokenExpires(t)
          PROVE  AccountsInv'
      BY <2>4, TokenInv DEF TokenExpires
    <2>5. ASSUME NEW q \in Requests,
                 \/ \E k \in ChangeKinds, u \in Users : AskChange(q, k, u)
                 \/ SetRole(q) \/ SetDisabled(q) \/ DeleteUser(q) \/ ResetTOTP(q)
          PROVE  AccountsInv'
      BY <2>5, AskChangeInv, SetRoleInv, SetDisabledInv, DeleteUserInv, ResetTOTPInv
    <2>6. ASSUME NEW cred \in SessionIds \cup TokenIds, NEW cap \in {"service.control", "destructive"},
                 ServeMutation(cred, cap)
          PROVE  AccountsInv'
      BY <2>6, ServeInv
    <2>7. CASE UNCHANGED accountVars
      BY <2>7 DEF accountVars, AccountsInv, AccountsTypeOK, CodesLeft, GuardStands, guardLastAdmin, Exists,
                  WayInKept, WayIn, RecoveryCodeOnce
    <2> QED BY <2>1, <2>2, <2>3, <2>4, <2>5, <2>6, <2>7 DEF AccountsNext
  <1> QED BY <1>1, <1>2, PTL DEF AccountsSpec

---------------------------------------------------------------------------
(* Terminals: the streams.                                                 *)

\* The bytes a queue still holds follow those received and reach to the newest.
Unbroken(got, q, newest) ==
  /\ q = <<>> => got = newest
  /\ q # <<>> => /\ q[1][1] = got + 1 /\ q[Len(q)][2] = newest
                 /\ \A n \in 2..Len(q) : q[n][1] = q[n - 1][2] + 1

Chunks == Seq(Nat \X Nat)

LEMMA StreamForm ==
  ASSUME NEW got, NEW q \in Chunks, NEW newest, NEW edges,
         edges[0] = got, \A n \in 1..Len(q) : edges[n] = q[n][2]
  PROVE  (/\ \A n \in DOMAIN q : q[n][1] = edges[n - 1] + 1
          /\ edges[Len(q)] = newest) <=> Unbroken(got, q, newest)
  <1> DEFINE A == /\ \A n \in DOMAIN q : q[n][1] = edges[n - 1] + 1
                  /\ edges[Len(q)] = newest
  <1>1. Len(q) \in Nat /\ DOMAIN q = 1..Len(q)
    BY DEF Chunks
  <1>2. edges[0] = got /\ \A n \in 1..Len(q) : edges[n] = q[n][2]
    OBVIOUS
  <1>3. CASE q = <<>>
    <2>1. Len(q) = 0 /\ DOMAIN q = {}
      BY <1>1, <1>3
    <2>2. A <=> got = newest
      BY <1>2, <2>1
    <2> QED BY <1>3, <2>2 DEF Unbroken
  <1>4. CASE q # <<>>
    <2>1. Len(q) >= 1
      BY <1>1, <1>4 DEF Chunks
    <2>2. edges[Len(q)] = q[Len(q)][2] /\ 1 \in DOMAIN q /\ edges[1 - 1] = got
      BY <1>1, <1>2, <2>1
    <2>3. \A n \in 2..Len(q) : n \in DOMAIN q /\ edges[n - 1] = q[n - 1][2]
      BY <1>1, <1>2
    <2>4. A => Unbroken(got, q, newest)
      BY <1>4, <2>2, <2>3 DEF Unbroken
    <2>5. Unbroken(got, q, newest) => A
      <3> SUFFICES ASSUME Unbroken(got, q, newest)
          PROVE  A
        OBVIOUS
      <3>1. ASSUME NEW n \in DOMAIN q
            PROVE  q[n][1] = edges[n - 1] + 1
        <4>1. CASE n = 1
          BY <1>4, <2>2, <4>1 DEF Unbroken
        <4>2. CASE n \in 2..Len(q)
          BY <1>4, <2>3, <4>2 DEF Unbroken
        <4> QED BY <1>1, <4>1, <4>2
      <3> QED BY <1>4, <2>2, <3>1 DEF Unbroken
    <2> QED BY <2>4, <2>5
  <1> QED BY <1>3, <1>4

\* What Append and Tail make of a queue.
LEMMA ChunkAppended ==
  ASSUME NEW q \in Chunks, NEW c \in Nat \X Nat
  PROVE  /\ Append(q, c) \in Chunks /\ Len(Append(q, c)) = Len(q) + 1 /\ Append(q, c) # <<>>
         /\ Append(q, c)[Len(q) + 1] = c
         /\ \A n \in 1..Len(q) : Append(q, c)[n] = q[n]
  BY DEF Chunks

LEMMA ChunkTaken ==
  ASSUME NEW q \in Chunks, q # <<>>
  PROVE  /\ Tail(q) \in Chunks /\ Len(Tail(q)) = Len(q) - 1 /\ Len(q) \in Nat /\ Len(q) >= 1
         /\ \A n \in 1..Len(Tail(q)) : Tail(q)[n] = q[n + 1]
         /\ \A n \in 1..Len(q) : q[n] \in Nat \X Nat
         /\ Tail(q) = <<>> <=> Len(q) = 1
  <1>1. q \in Seq(Nat \X Nat)
    BY DEF Chunks
  <1>2. Len(q) \in Nat /\ Len(q) >= 1 /\ \A n \in 1..Len(q) : q[n] \in Nat \X Nat
    BY <1>1
  <1>3. Tail(q) \in Seq(Nat \X Nat) /\ Len(Tail(q)) = Len(q) - 1
    BY <1>1
  <1>4. \A n \in 1..Len(Tail(q)) : Tail(q)[n] = q[n + 1]
    BY <1>1, <1>2, <1>3
  <1>5. Tail(q) = <<>> <=> Len(q) = 1
    <2> DEFINE t == Tail(q)
    <2>1. t \in Seq(Nat \X Nat) /\ Len(t) = Len(q) - 1
      BY <1>3
    <2> HIDE DEF t
    <2>2. t # <<>> => Len(t) \in Nat \ {0}
      BY <2>1, EmptySeq
    <2>3. t = <<>> => Len(t) = 0
      OBVIOUS
    <2>4. t = <<>> <=> Len(q) = 1
      BY <1>2, <2>1, <2>2, <2>3
    <2> QED BY <2>4 DEF t
  <1> QED BY <1>2, <1>3, <1>4, <1>5 DEF Chunks

LEMMA UnbrokenAppend ==
  ASSUME NEW q \in Chunks, NEW got \in Nat, NEW w \in Nat, Unbroken(got, q, w),
         NEW r, r = Append(q, <<w + 1, w + 1>>)
  PROVE  r \in Chunks /\ Unbroken(got, r, w + 1)
  <1>1. <<w + 1, w + 1>> \in Nat \X Nat /\ <<w + 1, w + 1>>[1] = w + 1 /\ <<w + 1, w + 1>>[2] = w + 1
    OBVIOUS
  <1> DEFINE c == <<w + 1, w + 1>>
  <1> HIDE DEF c
  <1>2. /\ r \in Chunks /\ Len(r) = Len(q) + 1 /\ r # <<>> /\ r[Len(q) + 1] = c
        /\ \A n \in 1..Len(q) : r[n] = q[n]
        /\ Len(q) \in Nat /\ c[1] = w + 1 /\ c[2] = w + 1
    <2>1. c \in Nat \X Nat /\ c[1] = w + 1 /\ c[2] = w + 1 /\ r = Append(q, c)
      BY <1>1 DEF c
    <2> QED BY <2>1, ChunkAppended DEF Chunks
  <1>3. CASE q = <<>>
    <2>1. Len(q) = 0 /\ got = w
      BY <1>3 DEF Unbroken
    <2>2. r[1] = c /\ Len(r) = 1 /\ 2..Len(r) = {}
      BY <1>2, <2>1
    <2> QED BY <1>2, <2>1, <2>2 DEF Unbroken
  <1>4. CASE q # <<>>
    <2>0. Len(q) >= 1
      BY <1>2, <1>4 DEF Chunks
    <2>1. /\ q[1][1] = got + 1 /\ q[Len(q)][2] = w
          /\ \A n \in 2..Len(q) : q[n][1] = q[n - 1][2] + 1
      BY <1>4 DEF Unbroken
    <2>2. r[1] = q[1] /\ r[Len(r)] = c /\ r[Len(q)] = q[Len(q)]
      BY <1>2, <2>0
    <2>3. ASSUME NEW n \in 2..Len(r)
          PROVE  r[n][1] = r[n - 1][2] + 1
      <3>1. CASE n = Len(q) + 1
        <4>1. n - 1 = Len(q)
          BY <1>2, <3>1
        <4>2. r[n] = c /\ r[n - 1] = q[Len(q)]
          BY <1>2, <2>2, <3>1, <4>1
        <4> QED BY <1>2, <2>1, <4>2
      <3>2. CASE n \in 2..Len(q)
        <4>1. n \in 1..Len(q) /\ n - 1 \in 1..Len(q)
          BY <1>2, <3>2
        <4>2. r[n] = q[n] /\ r[n - 1] = q[n - 1]
          BY <1>2, <4>1
        <4> QED BY <2>1, <3>2, <4>2
      <3> QED BY <1>2, <3>1, <3>2
    <2> QED BY <1>2, <2>1, <2>2, <2>3 DEF Unbroken
  <1> QED BY <1>2, <1>3, <1>4

LEMMA UnbrokenMerge ==
  ASSUME NEW q \in Chunks, NEW got \in Nat, NEW w \in Nat, Unbroken(got, q, w), q # <<>>
  PROVE  <<<<q[1][1], w + 1>>>> \in Chunks /\ Unbroken(got, <<<<q[1][1], w + 1>>>>, w + 1)
  <1>1. q[1] \in Nat \X Nat
    BY DEF Chunks
  <1>2. q[1][1] \in Nat /\ q[1][1] = got + 1
    BY <1>1 DEF Unbroken
  <1> DEFINE c == <<q[1][1], w + 1>>
  <1>3. c \in Nat \X Nat /\ c[1] = got + 1 /\ c[2] = w + 1
    BY <1>2
  <1> HIDE DEF c
  <1>4. <<c>> \in Chunks /\ <<c>>[1] = c /\ Len(<<c>>) = 1 /\ <<c>> # <<>> /\ 2..1 = {}
    BY <1>3 DEF Chunks
  <1>5. Unbroken(got, <<c>>, w + 1)
    BY <1>3, <1>4 DEF Unbroken
  <1> QED BY <1>4, <1>5 DEF c

LEMMA UnbrokenTail ==
  ASSUME NEW q \in Chunks, NEW got, NEW w, Unbroken(got, q, w), q # <<>>,
         NEW t, t = Tail(q)
  PROVE  q[1][2] \in Nat /\ t \in Chunks /\ Unbroken(q[1][2], t, w)
  <1>1. /\ t \in Chunks /\ Len(t) = Len(q) - 1 /\ Len(q) \in Nat /\ Len(q) >= 1
        /\ \A n \in 1..Len(t) : t[n] = q[n + 1]
        /\ q[1] \in Nat \X Nat /\ (t = <<>> <=> Len(q) = 1)
    BY ChunkTaken
  <1>2. q[Len(q)][2] = w /\ \A n \in 2..Len(q) : q[n][1] = q[n - 1][2] + 1
    BY DEF Unbroken
  <1>3. CASE Len(q) = 1
    BY <1>1, <1>2, <1>3 DEF Unbroken
  <1>4. CASE Len(q) > 1
    <2>1. 1 \in 1..Len(t) /\ Len(t) \in 1..Len(t) /\ Len(t) + 1 = Len(q) /\ 2 \in 2..Len(q) /\ 1 + 1 = 2 /\ 2 - 1 = 1
      BY <1>1, <1>4
    <2>2. t # <<>> /\ t[1] = q[2] /\ t[Len(t)] = q[Len(q)]
      BY <1>1, <1>4, <2>1
    <2>3. t[1][1] = q[1][2] + 1
      BY <1>2, <2>1, <2>2
    <2>4. ASSUME NEW n \in 2..Len(t)
          PROVE  t[n][1] = t[n - 1][2] + 1
      <3>1. n \in 1..Len(t) /\ n - 1 \in 1..Len(t) /\ n - 1 + 1 = n /\ n + 1 \in 2..Len(q) /\ n + 1 - 1 = n
        BY <1>1, <1>4
      <3>2. t[n] = q[n + 1] /\ t[n - 1] = q[n]
        BY <1>1, <3>1
      <3> QED BY <1>2, <3>1, <3>2
    <2> QED BY <1>1, <1>2, <2>2, <2>3, <2>4 DEF Unbroken
  <1> QED BY <1>1, <1>3, <1>4

\* A byte is queued, merged or costs the client its channel.
LEMMA DeliveredOK ==
  ASSUME NEW s \in Socket, NEW w \in Nat, s.stage = "on", Unbroken(s.got, s.queue, w)
  PROVE  LET d == Delivered(s, w + 1) IN
         /\ d \in Socket /\ d.at = s.at /\ d.stage \in {"on", "closed"}
         /\ d.stage = "on" => Unbroken(d.got, d.queue, w + 1)
  <1> DEFINE d == Delivered(s, w + 1)
             added == Append(s.queue, <<w + 1, w + 1>>)
             merged == <<<<s.queue[1][1], w + 1>>>>
  <1>1. /\ s.queue \in Chunks /\ s.got \in Nat /\ Len(s.queue) \in Nat /\ chanChunks \in Nat \ {0}
        /\ s = [at |-> s.at, stage |-> s.stage, got |-> s.got, queue |-> s.queue, redraw |-> s.redraw]
        /\ s.at \in 0..MaxOpened /\ s.redraw \in BOOLEAN
    BY TerminalsAssumption DEF Socket, Chunks
  <1>2. \/ Len(s.queue) < chanChunks /\ d = [s EXCEPT !.queue = added]
        \/ s.queue # <<>> /\ d = [s EXCEPT !.stage = "closed", !.queue = <<>>]
        \/ s.queue # <<>> /\ d = [s EXCEPT !.queue = merged]
    <2>1. CASE Len(s.queue) < chanChunks
      BY <2>1 DEF Delivered
    <2>2. CASE ~(Len(s.queue) < chanChunks)
      <3>1. s.queue # <<>>
        BY <1>1, <2>2
      <3> QED BY <2>2, <3>1 DEF Delivered
    <2> QED BY <2>1, <2>2
  <1> HIDE DEF d, added, merged
  <1>3. CASE Len(s.queue) < chanChunks /\ d = [s EXCEPT !.queue = added]
    <2>1. added \in Chunks /\ Unbroken(s.got, added, w + 1)
      BY <1>1, UnbrokenAppend DEF added
    <2>2. d \in Socket /\ d.at = s.at /\ d.stage = "on" /\ d.got = s.got /\ d.queue = added
      BY <1>1, <1>3, <2>1 DEF Socket, Chunks
    <2> QED BY <2>1, <2>2 DEF d
  <1>4. CASE s.queue # <<>> /\ d = [s EXCEPT !.stage = "closed", !.queue = <<>>]
    <2>1. <<>> \in Chunks
      BY DEF Chunks
    <2>2. d \in Socket /\ d.at = s.at /\ d.stage = "closed"
      BY <1>1, <1>4, <2>1 DEF Socket, Chunks
    <2> QED BY <2>2 DEF d
  <1>5. CASE s.queue # <<>> /\ d = [s EXCEPT !.queue = merged]
    <2>1. merged \in Chunks /\ Unbroken(s.got, merged, w + 1)
      BY <1>1, <1>5, UnbrokenMerge DEF merged
    <2>2. d \in Socket /\ d.at = s.at /\ d.stage = "on" /\ d.got = s.got /\ d.queue = merged
      BY <1>1, <1>5, <2>1 DEF Socket, Chunks
    <2> QED BY <2>1, <2>2 DEF d
  <1> QED BY <1>2, <1>3, <1>4, <1>5 DEF d

\* The writer takes the oldest chunk.
LEMMA ReceivedOK ==
  ASSUME NEW s \in Socket, NEW w, s.queue # <<>>, Unbroken(s.got, s.queue, w)
  PROVE  /\ s.queue[1][2] \in Nat /\ Tail(s.queue) \in Chunks
         /\ Unbroken(s.queue[1][2], Tail(s.queue), w)
  <1>1. s.queue \in Chunks
    BY DEF Socket, Chunks
  <1> QED BY <1>1, UnbrokenTail

LEMMA OpenedNumbers ==
  /\ Opened \subseteq 0..MaxOpened /\ 0 \in 0..MaxOpened /\ 0 \notin Opened
  /\ \A t \in {0} \cup Opened : t \in 0..MaxOpened
  BY TerminalsAssumption DEF Opened

\* The invariant in the parts the steps below keep one by one.
SocketOK(s, bytes) ==
  /\ s.stage # "away" => s.at \in Opened
  /\ s.stage = "on" => Unbroken(s.got, s.queue, bytes[s.at])

StreamPart == \A b \in Browsers : SocketOK(browser[b], written)
SlotPart == SlotsKept /\ EndedStayOut
ImagePart == ImagesKnown /\ NoImageOfKilled
TermParts == TermTypeOK /\ SlotPart /\ StreamPart /\ ImagePart

LEMMA StreamsByBrowser ==
  ASSUME TermTypeOK
  PROVE  StreamPart <=> SocketsKnown /\ StreamUnbroken
  <1>1. \A b \in Browsers : browser[b] \in Socket
    BY DEF TermTypeOK
  <1>2. ASSUME NEW b \in Browsers
        PROVE  LET s == browser[b]
                   edges == [n \in 0..Len(s.queue) |-> IF n = 0 THEN s.got ELSE s.queue[n][2]]
               IN (/\ \A n \in DOMAIN s.queue : s.queue[n][1] = edges[n - 1] + 1
                   /\ edges[Len(s.queue)] = written[s.at]) <=> Unbroken(s.got, s.queue, written[s.at])
    <2> DEFINE q == browser[b].queue
               got == browser[b].got
               newest == written[browser[b].at]
               edges == [n \in 0..Len(q) |-> IF n = 0 THEN got ELSE q[n][2]]
    <2>1. q \in Chunks /\ Len(q) \in Nat
      BY <1>1 DEF Socket, Chunks
    <2>2. edges[0] = got /\ \A n \in 1..Len(q) : edges[n] = q[n][2]
      <3> HIDE DEF q, got
      <3> QED BY <2>1
    <2> HIDE DEF q, got, newest, edges
    <2>3. (/\ \A n \in DOMAIN q : q[n][1] = edges[n - 1] + 1
           /\ edges[Len(q)] = newest) <=> Unbroken(got, q, newest)
      <3>1. \A f, g : (/\ f[0] = g /\ \A n \in 1..Len(q) : f[n] = q[n][2]) =>
              ((/\ \A n \in DOMAIN q : q[n][1] = f[n - 1] + 1
                /\ f[Len(q)] = newest) <=> Unbroken(g, q, newest))
        BY <2>1, StreamForm
      <3> QED BY <2>2, <3>1
    <2> QED BY <2>3 DEF q, got, newest, edges
  <1> QED BY <1>2 DEF StreamPart, SocketOK, SocketsKnown, StreamUnbroken

\* Sockets that go away, lose their channel or change what is no part of the stream.
LEMMA SameStreams ==
  ASSUME StreamPart, UNCHANGED written,
         \A b \in Browsers :
           \/ browser'[b] = browser[b]
           \/ browser'[b].stage = "away"
           \/ browser'[b].stage = "closed" /\ browser'[b].at = browser[b].at /\ browser[b].stage = "on"
           \/ /\ browser'[b].stage = browser[b].stage /\ browser'[b].at = browser[b].at
              /\ browser'[b].got = browser[b].got /\ browser'[b].queue = browser[b].queue
  PROVE  StreamPart'
  BY DEF StreamPart, SocketOK

\* Sessions leave the map, or are ended having left it.
LEMMA SameSlots ==
  ASSUME TermTypeOK, SlotPart, UNCHANGED <<pending, opening>>, held' \subseteq held,
         \A i \in Opened : ending'[i] = "killing" \/ i \in killed' =>
           i \notin held' /\ (ending[i] = "killing" \/ i \in killed \/ i \in held)
  PROVE  SlotPart'
  <1>1. held \subseteq Opened /\ maxSessions \in Nat
    BY TerminalsAssumption DEF TermTypeOK
  <1>2. SlotsKept'
    <2>1. Claimed' = Claimed /\ InFlight' = InFlight
      BY DEF Claimed, InFlight
    <2>2. IsFiniteSet(held \cup Claimed) /\ held' \cup Claimed \in SUBSET (held \cup Claimed)
      <3>1. IsFiniteSet(Opened)
        BY FS_Interval, TerminalsAssumption DEF Opened
      <3>2. held \cup Claimed \in SUBSET Opened
        BY <1>1 DEF Claimed
      <3> QED BY <3>1, <3>2, FS_Subset
    <2>3. Cardinality(held' \cup Claimed) <= Cardinality(held \cup Claimed)
      BY <2>2, FS_Subset
    <2>4. Cardinality(held \cup Claimed) \in Nat /\ Cardinality(held' \cup Claimed) \in Nat
      BY <2>2, FS_Subset, FS_CardinalityType
    <2> QED BY <1>1, <2>1, <2>3, <2>4 DEF SlotPart, SlotsKept
  <1>3. EndedStayOut'
    BY DEF SlotPart, EndedStayOut
  <1> QED BY <1>2, <1>3 DEF SlotPart

LEMMA SameImages ==
  ASSUME ImagePart, UNCHANGED upload, images' \subseteq images,
         \A f \in images' : f[1] \in killed' => f[1] \in killed
  PROVE  ImagePart'
  BY DEF ImagePart, ImagesKnown, NoImageOfKilled

\* A slot more is claimed only where one is free.
LEMMA OpenedFinite ==
  ASSUME TermTypeOK
  PROVE  /\ IsFiniteSet(held) /\ IsFiniteSet(Claimed) /\ IsFiniteSet(InFlight)
         /\ Cardinality(held) \in Nat /\ Cardinality(Claimed) \in Nat /\ Cardinality(InFlight) \in Nat
         /\ Cardinality(Claimed) <= Cardinality(InFlight)
         /\ IsFiniteSet(held \cup Claimed) /\ Cardinality(held \cup Claimed) \in Nat
         /\ Cardinality(held \cup Claimed) <= Cardinality(held) + Cardinality(Claimed)
  <1>1. IsFiniteSet(Opened)
    BY FS_Interval, TerminalsAssumption DEF Opened
  <1>2. held \in SUBSET Opened /\ Claimed \in SUBSET InFlight /\ InFlight \in SUBSET Opened
    BY DEF TermTypeOK, Claimed, InFlight
  <1>3. IsFiniteSet(held) /\ IsFiniteSet(InFlight) /\ IsFiniteSet(Claimed)
    BY <1>1, <1>2, FS_Subset
  <1>4. Cardinality(held) \in Nat /\ Cardinality(Claimed) \in Nat /\ Cardinality(InFlight) \in Nat
    BY <1>3, FS_CardinalityType
  <1>5. Cardinality(Claimed) <= Cardinality(InFlight)
    BY <1>2, <1>3, FS_Subset
  <1>6. /\ IsFiniteSet(held \cup Claimed)
        /\ Cardinality(held \cup Claimed)
             = Cardinality(held) + Cardinality(Claimed) - Cardinality(held \cap Claimed)
    BY <1>3, FS_Union
  <1>7. Cardinality(held \cap Claimed) \in Nat /\ Cardinality(held \cup Claimed) \in Nat
    <2>1. held \cap Claimed \in SUBSET held
      OBVIOUS
    <2>2. IsFiniteSet(held \cap Claimed)
      BY <1>3, <2>1, FS_Subset
    <2> QED BY <1>6, <2>2, FS_CardinalityType
  <1> QED BY <1>3, <1>4, <1>5, <1>6, <1>7

LEMMA ReserveKeepsSlots ==
  ASSUME TermTypeOK, SlotPart, NEW i \in Opened, opening[i] = "new", reserve(i),
         UNCHANGED <<held, ending, killed>>
  PROVE  SlotPart' /\ opening' \in [Opened -> {"new", "reserved", "started", "returning", "done"}]
         /\ pending' \in Nat
  <1>1. /\ opening \in [Opened -> {"new", "reserved", "started", "returning", "done"}] /\ pending \in Nat
        /\ maxSessions \in Nat
    BY TerminalsAssumption DEF TermTypeOK
  <1>2. Claimed' = Claimed \cup {i} /\ InFlight' = InFlight \cup {i} /\ i \notin Claimed /\ i \notin InFlight
    BY <1>1 DEF reserve, Claimed, InFlight
  <1>3. Cardinality(InFlight') = pending + 1
    BY <1>2, OpenedFinite, FS_AddElement DEF SlotPart, SlotsKept
  <1>4. Cardinality(held \cup Claimed') <= maxSessions
    <2>1. held \cup Claimed' = (held \cup Claimed) \cup {i}
      BY <1>2
    <2>2. \/ Cardinality(held \cup Claimed') = Cardinality(held \cup Claimed)
          \/ Cardinality(held \cup Claimed') = Cardinality(held \cup Claimed) + 1
      BY <2>1, OpenedFinite, FS_AddElement
    <2>3. Cardinality(held) + pending < maxSessions /\ pending = Cardinality(InFlight)
      BY DEF reserve, SlotPart, SlotsKept
    <2> QED BY <1>1, <2>2, <2>3, OpenedFinite
  <1>5. SlotsKept'
    BY <1>3, <1>4 DEF SlotsKept, reserve
  <1>6. EndedStayOut'
    BY <1>1 DEF SlotPart, EndedStayOut, reserve
  <1> QED BY <1>1, <1>5, <1>6 DEF SlotPart, reserve

---------------------------------------------------------------------------
(* Terminals: sessions open.                                               *)

LEMMA OpenInv ==
  ASSUME TermParts, NEW i \in Opened, Create(i) \/ Reattach(i)
  PROVE  TermParts'
  <1>1. /\ TermTypeOK /\ SlotPart /\ StreamPart /\ ImagePart /\ opening[i] = "new" /\ reserve(i)
        /\ UNCHANGED <<held, tmux, pty, endVars, written, unpainted, browser, imageVars, reaping, boots>>
    BY DEF TermParts, Create, Reattach, NextId
  <1>2. PICK t \in 0..MaxOpened : tmuxOf' = [tmuxOf EXCEPT ![i] = t]
    BY <1>1, OpenedNumbers DEF Create, Reattach, TermTypeOK
  <1>3. /\ SlotPart' /\ pending' \in Nat
        /\ opening' \in [Opened -> {"new", "reserved", "started", "returning", "done"}]
    BY <1>1, ReserveKeepsSlots DEF endVars
  <1>4. tmuxOf' \in [Opened -> 0..MaxOpened]
    BY <1>1, <1>2 DEF TermTypeOK
  <1>5. TermTypeOK'
    BY <1>1, <1>3, <1>4 DEF TermTypeOK, endVars, imageVars
  <1> QED BY <1>1, <1>3, <1>5, SameStreams, SameImages DEF TermParts, endVars, imageVars

LEMMA StartInv ==
  ASSUME TermParts, NEW i \in Opened, StartWithSize(i)
  PROVE  TermParts'
  <1>1. /\ TermTypeOK /\ SlotPart /\ StreamPart /\ ImagePart /\ opening[i] = "reserved"
        /\ opening' = [opening EXCEPT ![i] = "started"] \/ opening' = [opening EXCEPT ![i] = "returning"]
        /\ UNCHANGED <<held, tmuxOf, pending, endVars, written, unpainted, browser, imageVars, reaping, boots>>
    BY DEF TermParts, StartWithSize
  <1>2. opening \in [Opened -> {"new", "reserved", "started", "returning", "done"}]
    BY <1>1 DEF TermTypeOK
  <1>3. opening' \in [Opened -> {"new", "reserved", "started", "returning", "done"}]
    BY <1>1, <1>2
  <1>4. tmux' \subseteq Opened /\ pty' \in [Opened -> {"none", "open", "exited", "over"}]
    BY <1>1 DEF StartWithSize, TermTypeOK
  <1>5. TermTypeOK'
    BY <1>1, <1>3, <1>4 DEF TermTypeOK, endVars, imageVars
  <1>6. InFlight' = InFlight /\ Claimed' \subseteq Claimed
    BY <1>1, <1>2 DEF InFlight, Claimed
  <1>7. Cardinality((held \cup Claimed)') <= maxSessions
    <2>1. (held \cup Claimed)' \in SUBSET (held \cup Claimed)
      BY <1>1, <1>6
    <2>2. /\ Cardinality((held \cup Claimed)') <= Cardinality(held \cup Claimed)
          /\ IsFiniteSet((held \cup Claimed)')
      BY <1>1, <2>1, OpenedFinite, FS_Subset
    <2>3. Cardinality((held \cup Claimed)') \in Nat /\ maxSessions \in Nat
      BY <2>2, FS_CardinalityType, TerminalsAssumption
    <2> QED BY <1>1, <2>2, <2>3, OpenedFinite DEF SlotPart, SlotsKept
  <1>8. SlotPart'
    <2>1. SlotsKept'
      BY <1>1, <1>6, <1>7 DEF SlotPart, SlotsKept
    <2>2. EndedStayOut'
      BY <1>1, <1>2 DEF SlotPart, EndedStayOut, endVars
    <2> QED BY <2>1, <2>2 DEF SlotPart
  <1> QED BY <1>1, <1>5, <1>8, SameStreams, SameImages DEF TermParts, endVars, imageVars

\* A claim becomes a session.
LEMMA InsertInv ==
  ASSUME TermParts, NEW i \in Opened, Insert(i)
  PROVE  TermParts'
  <1>1. /\ TermTypeOK /\ SlotPart /\ StreamPart /\ ImagePart /\ opening[i] = "started"
        /\ held' = held \cup {i} /\ opening' = [opening EXCEPT ![i] = "returning"]
        /\ UNCHANGED <<tmuxOf, pending, tmux, pty, endVars, written, unpainted, browser, imageVars, reaping, boots>>
    BY DEF TermParts, Insert
  <1>2. opening \in [Opened -> {"new", "reserved", "started", "returning", "done"}]
    BY <1>1 DEF TermTypeOK
  <1>3. TermTypeOK'
    <2>1. opening' \in [Opened -> {"new", "reserved", "started", "returning", "done"}] /\ held' \subseteq Opened
      BY <1>1, <1>2 DEF TermTypeOK
    <2> QED BY <1>1, <2>1 DEF TermTypeOK, endVars, imageVars
  <1>4. InFlight' = InFlight /\ held' \cup Claimed' = held \cup Claimed
    BY <1>1, <1>2 DEF InFlight, Claimed
  <1>5. SlotsKept'
    BY <1>1, <1>4 DEF SlotPart, SlotsKept
  <1>6. EndedStayOut'
    BY <1>1, <1>2 DEF SlotPart, EndedStayOut, endVars
  <1> QED BY <1>1, <1>3, <1>5, <1>6, SameStreams, SameImages DEF TermParts, SlotPart, endVars, imageVars

LEMMA ReleaseInv ==
  ASSUME TermParts, NEW i \in Opened, Release(i)
  PROVE  TermParts'
  <1>1. /\ TermTypeOK /\ SlotPart /\ StreamPart /\ ImagePart /\ opening[i] = "returning"
        /\ pending' = pending - 1 /\ opening' = [opening EXCEPT ![i] = "done"]
        /\ UNCHANGED <<held, tmuxOf, tmux, pty, endVars, written, unpainted, browser, imageVars, reaping, boots>>
    BY DEF TermParts, Release
  <1>2. opening \in [Opened -> {"new", "reserved", "started", "returning", "done"}]
    BY <1>1 DEF TermTypeOK
  <1>3. i \in InFlight /\ InFlight' = InFlight \ {i} /\ Claimed' = Claimed
    BY <1>1, <1>2 DEF InFlight, Claimed
  <1>4. pending = Cardinality(InFlight) /\ Cardinality(InFlight') = Cardinality(InFlight) - 1
    BY <1>1, <1>3, OpenedFinite, FS_RemoveElement DEF SlotPart, SlotsKept
  <1>5. pending' \in Nat /\ pending' = Cardinality(InFlight')
    <2>1. Cardinality(InFlight') \in Nat
      BY <1>1, <1>3, OpenedFinite, FS_RemoveElement, FS_CardinalityType
    <2> QED BY <1>1, <1>4, <2>1
  <1>6. TermTypeOK'
    <2>1. opening' \in [Opened -> {"new", "reserved", "started", "returning", "done"}]
      BY <1>1, <1>2
    <2> QED BY <1>1, <1>5, <2>1 DEF TermTypeOK, endVars, imageVars
  <1>7. SlotsKept'
    BY <1>1, <1>3, <1>5 DEF SlotPart, SlotsKept
  <1>8. EndedStayOut'
    BY <1>1, <1>2 DEF SlotPart, EndedStayOut, endVars
  <1> QED BY <1>1, <1>6, <1>7, <1>8, SameStreams, SameImages DEF TermParts, SlotPart, endVars, imageVars

---------------------------------------------------------------------------
(* Terminals: output and attached browsers.                                *)

\* Only sockets, output and repaints are touched.
LEMMA SocketsOnly ==
  ASSUME TermParts, browser' \in [Browsers -> Socket], written' \in [Opened -> Nat],
         unpainted' \subseteq Opened, StreamPart',
         UNCHANGED <<held, openVars, tmux, pty, endVars, imageVars, reaping, boots>>
  PROVE  TermParts'
  <1>1. TermTypeOK'
    BY DEF TermParts, TermTypeOK, openVars, endVars, imageVars
  <1>2. SlotPart'
    BY DEF TermParts, SlotPart, SlotsKept, EndedStayOut, Claimed, InFlight, openVars, endVars
  <1>3. ImagePart'
    BY SameImages DEF TermParts, imageVars, endVars
  <1> QED BY <1>1, <1>2, <1>3 DEF TermParts

LEMMA BroadcastInv ==
  ASSUME TermParts, NEW i \in Opened, broadcast(i)
  PROVE  TermParts'
  <1>1. /\ TermTypeOK /\ StreamPart
        /\ written' = [written EXCEPT ![i] = @ + 1]
        /\ browser' = [b \in Browsers |-> IF b \in On(i) THEN Delivered(browser[b], written'[i])
                                          ELSE browser[b]]
        /\ UNCHANGED <<held, openVars, tmux, pty, endVars, unpainted, imageVars, reaping, boots>>
    BY DEF TermParts, broadcast
  <1>2. written \in [Opened -> Nat] /\ browser \in [Browsers -> Socket]
    BY <1>1 DEF TermTypeOK
  <1>3. /\ written' \in [Opened -> Nat] /\ written'[i] = written[i] + 1
        /\ \A j \in Opened : j # i => written'[j] = written[j]
    BY <1>1, <1>2
  <1>4. ASSUME NEW b \in Browsers
        PROVE  browser'[b] \in Socket /\ SocketOK(browser'[b], written')
    <2>1. browser[b] \in Socket /\ SocketOK(browser[b], written)
      BY <1>1, <1>2 DEF StreamPart
    <2>2. CASE b \in On(i)
      <3>1. browser[b].at = i /\ browser[b].stage = "on" /\ browser'[b] = Delivered(browser[b], written[i] + 1)
        BY <1>1, <1>3, <2>2 DEF On
      <3>2. Unbroken(browser[b].got, browser[b].queue, written[i]) /\ written[i] \in Nat
        BY <1>2, <2>1, <3>1 DEF SocketOK
      <3> QED BY <1>3, <2>1, <3>1, <3>2, DeliveredOK DEF SocketOK
    <2>3. CASE b \notin On(i)
      <3>1. browser'[b] = browser[b] /\ (browser[b].stage = "on" => browser[b].at # i)
        BY <1>1, <2>3 DEF On
      <3> QED BY <1>3, <2>1, <3>1 DEF SocketOK
    <2> QED BY <2>2, <2>3
  <1>5. browser' \in [Browsers -> Socket]
    BY <1>1, <1>4
  <1>6. StreamPart'
    BY <1>4 DEF StreamPart, SocketOK
  <1> QED BY <1>1, <1>3, <1>5, <1>6, SocketsOnly DEF TermTypeOK

LEMMA OneSocket ==
  ASSUME TermParts, NEW b \in Browsers, NEW s \in Socket, SocketOK(s, written),
         browser' = [browser EXCEPT ![b] = s], unpainted' \subseteq Opened,
         UNCHANGED <<held, openVars, tmux, pty, endVars, written, imageVars, reaping, boots>>
  PROVE  TermParts'
  <1>1. browser \in [Browsers -> Socket] /\ written \in [Opened -> Nat] /\ StreamPart
    BY DEF TermParts, TermTypeOK
  <1>2. browser' \in [Browsers -> Socket] /\ \A c \in Browsers : browser'[c] = IF c = b THEN s ELSE browser[c]
    BY <1>1
  <1>3. StreamPart'
    BY <1>1, <1>2 DEF StreamPart, SocketOK
  <1> QED BY <1>1, <1>2, <1>3, SocketsOnly

LEMMA NoSocketOK == NoSocket \in Socket /\ SocketOK(NoSocket, written)
  <1>1. <<>> \in Seq(Nat \X Nat) /\ 0 \in 0..MaxOpened
    BY TerminalsAssumption
  <1> QED BY <1>1 DEF NoSocket, Socket, SocketOK

LEMMA AttachInv ==
  ASSUME TermParts, NEW b \in Browsers,
         (\E i \in Opened : LookUp(b, i)) \/ Subscribe(b) \/ Unsubscribe(b)
  PROVE  TermParts'
  <1> DEFINE s == browser[b]
  <1>1. /\ TermTypeOK /\ StreamPart /\ unpainted \subseteq Opened /\ s \in Socket /\ SocketOK(s, written)
        /\ <<>> \in Seq(Nat \X Nat) /\ Opened \subseteq 0..MaxOpened /\ written \in [Opened -> Nat]
    <2>1. <<>> \in Seq(Nat \X Nat)
      OBVIOUS
    <2>2. TermTypeOK /\ StreamPart
      BY DEF TermParts
    <2>3. unpainted \subseteq Opened /\ s \in Socket /\ written \in [Opened -> Nat]
      BY <2>2 DEF TermTypeOK
    <2>4. SocketOK(s, written)
      BY <2>2 DEF StreamPart
    <2> QED BY <2>1, <2>2, <2>3, <2>4, OpenedNumbers
  <1>2. ASSUME NEW i \in Opened, LookUp(b, i)
        PROVE  TermParts'
    <2> DEFINE n == [NoSocket EXCEPT !.at = i, !.stage = "named"]
    <2>1. n \in Socket /\ n.stage = "named" /\ n.at = i
      BY <1>1, NoSocketOK DEF Socket, NoSocket
    <2>2. browser' = [browser EXCEPT ![b] = n]
      BY <1>2 DEF LookUp
    <2> HIDE DEF n
    <2>3. SocketOK(n, written)
      BY <2>1 DEF SocketOK
    <2> QED BY <1>1, <1>2, <2>1, <2>2, <2>3, OneSocket DEF LookUp
  <1>3. CASE Subscribe(b)
    <2> DEFINE n == [NoSocket EXCEPT !.at = s.at, !.stage = "on", !.got = written[s.at]]
    <2>1. s.at \in Opened
      BY <1>1, <1>3 DEF Subscribe, SocketOK
    <2>2. n \in Socket /\ n.stage = "on" /\ n.at = s.at /\ n.got = written[s.at] /\ n.queue = <<>>
      BY <1>1, <2>1, NoSocketOK DEF Socket, NoSocket
    <2>3. \/ browser' = [browser EXCEPT ![b] = n]
          \/ browser' = [browser EXCEPT ![b] = NoSocket]
      BY <1>3 DEF Subscribe
    <2> HIDE DEF n
    <2>4. SocketOK(n, written)
      BY <2>1, <2>2 DEF SocketOK, Unbroken
    <2> QED BY <1>1, <1>3, <2>2, <2>3, <2>4, OneSocket, NoSocketOK DEF Subscribe
  <1>4. CASE Unsubscribe(b)
    BY <1>1, <1>4, OneSocket, NoSocketOK DEF Unsubscribe
  <1> QED BY <1>2, <1>3, <1>4

LEMMA ReceiveInv ==
  ASSUME TermParts, NEW b \in Browsers, Receive(b) \/ Resize(b) \/ Redraw(b)
  PROVE  TermParts'
  <1> DEFINE s == browser[b]
  <1>1. /\ TermTypeOK /\ StreamPart /\ unpainted \subseteq Opened /\ s \in Socket /\ SocketOK(s, written)
        /\ browser \in [Browsers -> Socket] /\ closed \in [Opened -> BOOLEAN]
    BY DEF TermParts, TermTypeOK, StreamPart
  <1>2. CASE Receive(b)
    <2> DEFINE n == [s EXCEPT !.got = s.queue[1][2], !.queue = Tail(s.queue)]
    <2>1. /\ s.queue[1][2] \in Nat /\ Tail(s.queue) \in Seq(Nat \X Nat) /\ s.stage = "on" /\ s.at \in Opened
          /\ Unbroken(s.queue[1][2], Tail(s.queue), written[s.at])
      BY <1>1, <1>2, ReceivedOK DEF Receive, SocketOK, Chunks
    <2>2. /\ n \in Socket /\ n.stage = "on" /\ n.at = s.at /\ n.got = s.queue[1][2] /\ n.queue = Tail(s.queue)
      BY <1>1, <2>1 DEF Socket
    <2>3. browser' = [browser EXCEPT ![b] = n]
      BY <1>1, <1>2 DEF Receive
    <2> HIDE DEF n
    <2>4. SocketOK(n, written)
      BY <2>1, <2>2 DEF SocketOK
    <2> QED BY <1>1, <1>2, <2>2, <2>3, <2>4, OneSocket DEF Receive
  <1>3. ASSUME NEW r \in BOOLEAN, browser' = [browser EXCEPT ![b].redraw = r],
               unpainted' \subseteq Opened,
               UNCHANGED <<held, openVars, tmux, pty, endVars, written, imageVars, reaping, boots>>
        PROVE  TermParts'
    <2> DEFINE n == [s EXCEPT !.redraw = r]
    <2>1. /\ n \in Socket /\ n.stage = s.stage /\ n.at = s.at /\ n.got = s.got /\ n.queue = s.queue
      BY <1>1 DEF Socket
    <2>2. browser' = [browser EXCEPT ![b] = n]
      BY <1>1, <1>3
    <2> HIDE DEF n
    <2>3. SocketOK(n, written)
      BY <1>1, <2>1 DEF SocketOK
    <2> QED BY <1>3, <2>1, <2>2, <2>3, OneSocket
  <1>4. CASE Resize(b)
    <2>1. s.at \in Opened
      BY <1>1, <1>4 DEF Resize, SocketOK
    <2>2. unpainted' \subseteq Opened /\ (~closed[s.at]) \in BOOLEAN
      BY <1>1, <1>4, <2>1 DEF Resize, Resized
    <2> QED BY <1>3, <1>4, <2>2 DEF Resize
  <1>5. CASE Redraw(b)
    <2>1. unpainted' \subseteq Opened
      BY <1>1, <1>5 DEF Redraw
    <2> QED BY <1>3, <1>5, <2>1 DEF Redraw
  <1> QED BY <1>2, <1>4, <1>5

---------------------------------------------------------------------------
(* Terminals: the ways a session ends.                                     *)

\* Close ends the streams of a session and leaves the others alone.
LEMMA ClosedStreams ==
  ASSUME TermTypeOK, StreamPart, NEW i \in Opened, browser' = HungUp(i), UNCHANGED written
  PROVE  browser' \in [Browsers -> Socket] /\ StreamPart'
  <1>1. ASSUME NEW b \in Browsers
        PROVE  /\ browser'[b] \in Socket
               /\ \/ browser'[b] = browser[b]
                  \/ /\ browser'[b].stage = "closed" /\ browser'[b].at = browser[b].at
                     /\ browser[b].stage = "on"
    <2>1. browser[b] \in Socket
      BY DEF TermTypeOK
    <2>2. CASE b \in On(i)
      <3>1. browser'[b] = [browser[b] EXCEPT !.stage = "closed"]
        BY <2>2 DEF HungUp
      <3> QED BY <2>1, <2>2, <3>1 DEF On, Socket
    <2>3. CASE b \notin On(i)
      BY <2>1, <2>3 DEF HungUp
    <2> QED BY <2>2, <2>3
  <1>2. browser' \in [Browsers -> Socket]
    BY <1>1 DEF HungUp
  <1>3. StreamPart'
    BY <1>1, SameStreams
  <1> QED BY <1>2, <1>3

LEMMA KillInv ==
  ASSUME TermParts, NEW i \in Opened, Kill(i) \/ KillCloses(i)
  PROVE  TermParts'
  <1>1. TermTypeOK /\ SlotPart /\ StreamPart /\ ImagePart
    BY DEF TermParts
  <1>2. CASE Kill(i)
    <2>1. /\ i \in held /\ held' = held \ {i} /\ ending' = [ending EXCEPT ![i] = "killing"]
          /\ UNCHANGED <<openVars, tmux, pty, closed, killed, written, unpainted, browser, imageVars, reaping, boots>>
      BY <1>2 DEF Kill
    <2>2. /\ ending \in [Opened -> {"no", "killing", "removing"}] /\ held \subseteq Opened
          /\ ending' \in [Opened -> {"no", "killing", "removing"}]
          /\ \A j \in Opened : ending'[j] = IF j = i THEN "killing" ELSE ending[j]
      BY <1>1, <2>1 DEF TermTypeOK
    <2>3. TermTypeOK'
      BY <1>1, <2>1, <2>2 DEF TermTypeOK, openVars, imageVars
    <2>4. SlotPart'
      <3>1. \A j \in Opened : ending'[j] = "killing" \/ j \in killed' =>
              j \notin held' /\ (ending[j] = "killing" \/ j \in killed \/ j \in held)
        BY <1>1, <2>1, <2>2 DEF SlotPart, EndedStayOut
      <3> QED BY <1>1, <2>1, <3>1, SameSlots DEF openVars
    <2> QED BY <1>1, <2>1, <2>3, <2>4, SameStreams, SameImages DEF TermParts, imageVars
  <1>3. CASE KillCloses(i)
    <2>1. /\ ending[i] = "killing" /\ tmux' = tmux \ {tmuxOf[i]}
          /\ closed' = [closed EXCEPT ![i] = TRUE] /\ browser' = HungUp(i)
          /\ images' = {f \in images : f[1] # i}
          /\ killed' = killed \cup {i} /\ ending' = [ending EXCEPT ![i] = "no"]
          /\ UNCHANGED <<held, openVars, pty, written, unpainted, upload, reaping, boots>>
      BY <1>3 DEF KillCloses, Close, removeSession
    <2>2. /\ ending \in [Opened -> {"no", "killing", "removing"}] /\ killed' \subseteq Opened
          /\ ending' \in [Opened -> {"no", "killing", "removing"}]
          /\ \A j \in Opened : ending'[j] = IF j = i THEN "no" ELSE ending[j]
          /\ closed' \in [Opened -> BOOLEAN] /\ tmux' \subseteq Opened /\ images' \subseteq images
      BY <1>1, <2>1 DEF TermTypeOK
    <2>3. browser' \in [Browsers -> Socket] /\ StreamPart'
      BY <1>1, <2>1, ClosedStreams
    <2>4. TermTypeOK'
      BY <1>1, <2>1, <2>2, <2>3 DEF TermTypeOK, openVars
    <2>5. SlotPart'
      <3>1. \A j \in Opened : ending'[j] = "killing" \/ j \in killed' =>
              j \notin held' /\ (ending[j] = "killing" \/ j \in killed \/ j \in held)
        BY <1>1, <2>1, <2>2 DEF SlotPart, EndedStayOut
      <3> QED BY <1>1, <2>1, <3>1, SameSlots DEF openVars
    <2>6. ImagePart'
      BY <1>1, <2>1, <2>2, SameImages
    <2> QED BY <2>3, <2>4, <2>5, <2>6 DEF TermParts
  <1> QED BY <1>2, <1>3

\* A step of ending a session keeps the parts when it only takes sessions out of
\* the map, hangs up on one, and marks as being killed what it has taken out.
LEMMA EndInv ==
  ASSUME TermParts, NEW i \in Opened,
         held' \subseteq held, tmux' \subseteq Opened, images' \subseteq images, reaping' \in 0..MaxOpened,
         pty' \in [Opened -> {"none", "open", "exited", "over"}], closed' \in [Opened -> BOOLEAN],
         ending' \in [Opened -> {"no", "killing", "removing"}],
         \A j \in Opened : ending'[j] = "killing" => j \notin held' /\ (ending[j] = "killing" \/ j \in held),
         browser' = browser \/ browser' = HungUp(i),
         UNCHANGED <<openVars, killed, written, unpainted, upload, boots>>
  PROVE  TermParts'
  <1>1. TermTypeOK /\ SlotPart /\ StreamPart /\ ImagePart
    BY DEF TermParts
  <1>2. browser' \in [Browsers -> Socket] /\ StreamPart'
    <2>1. CASE browser' = browser
      BY <1>1, <2>1, SameStreams DEF TermTypeOK
    <2>2. CASE browser' = HungUp(i)
      BY <1>1, <2>2, ClosedStreams
    <2> QED BY <2>1, <2>2
  <1>3. TermTypeOK'
    BY <1>1, <1>2 DEF TermTypeOK, openVars
  <1>4. SlotPart'
    <2>1. \A j \in Opened : ending'[j] = "killing" \/ j \in killed' =>
            j \notin held' /\ (ending[j] = "killing" \/ j \in killed \/ j \in held)
      BY <1>1 DEF SlotPart, EndedStayOut
    <2> QED BY <1>1, <2>1, SameSlots DEF openVars
  <1>5. ImagePart'
    BY <1>1, SameImages
  <1> QED BY <1>2, <1>3, <1>4, <1>5 DEF TermParts

LEMMA DetachInv ==
  ASSUME TermParts, NEW i \in Opened, Detach(i) \/ ReapFinds(i)
  PROVE  TermParts'
  <1>1. /\ held \subseteq Opened /\ tmux \subseteq Opened /\ reaping \in 0..MaxOpened /\ Opened \subseteq 0..MaxOpened
        /\ pty \in [Opened -> {"none", "open", "exited", "over"}] /\ closed \in [Opened -> BOOLEAN]
        /\ ending \in [Opened -> {"no", "killing", "removing"}]
    BY OpenedNumbers DEF TermParts, TermTypeOK
  <1>2. \A j \in Opened : ending[j] = "killing" => j \notin held
    BY DEF TermParts, SlotPart, EndedStayOut
  <1>3. CASE ReapFinds(i)
    <2>1. /\ reaping' = i
          /\ UNCHANGED <<held, openVars, tmux, pty, endVars, written, unpainted, browser, imageVars, boots>>
      BY <1>3 DEF ReapFinds
    <2> QED BY <1>1, <1>2, <2>1, EndInv DEF endVars, imageVars
  <1>4. CASE Detach(i)
    <2>1. /\ i \in held /\ held' = held \ {i}
          /\ UNCHANGED <<openVars, tmux, pty, killed, written, unpainted, imageVars, reaping, boots>>
      BY <1>4 DEF Detach
    <2>2. CASE ending' = [ending EXCEPT ![i] = "killing"] /\ UNCHANGED <<closed, browser>>
      <3>1. /\ ending' \in [Opened -> {"no", "killing", "removing"}]
            /\ \A j \in Opened : ending'[j] = IF j = i THEN "killing" ELSE ending[j]
        BY <1>1, <2>2
      <3>2. \A j \in Opened : ending'[j] = "killing" => j \notin held' /\ (ending[j] = "killing" \/ j \in held)
        BY <1>2, <2>1, <3>1
      <3> QED BY <1>1, <2>1, <2>2, <3>1, <3>2, EndInv DEF imageVars
    <2>3. CASE Close(i) /\ UNCHANGED ending
      <3>1. closed' \in [Opened -> BOOLEAN] /\ browser' = HungUp(i)
        BY <1>1, <2>3 DEF Close
      <3> QED BY <1>1, <1>2, <2>1, <2>3, <3>1, EndInv DEF imageVars
    <2> QED BY <1>4, <2>2, <2>3 DEF Detach
  <1> QED BY <1>3, <1>4

LEMMA ReapInv ==
  ASSUME TermParts, Reap
  PROVE  TermParts'
  <1>1. /\ held \subseteq Opened /\ tmux \subseteq Opened /\ reaping \in Opened /\ 0 \in 0..MaxOpened
        /\ pty \in [Opened -> {"none", "open", "exited", "over"}] /\ closed \in [Opened -> BOOLEAN]
        /\ ending \in [Opened -> {"no", "killing", "removing"}]
    <2>1. reaping \in 0..MaxOpened /\ reaping # 0
      BY DEF TermParts, TermTypeOK, Reap
    <2>2. reaping \in Opened
      BY <2>1, TerminalsAssumption DEF Opened
    <2> QED BY <2>2, OpenedNumbers DEF TermParts, TermTypeOK
  <1>2. \A j \in Opened : ending[j] = "killing" => j \notin held
    BY DEF TermParts, SlotPart, EndedStayOut
  <1>3. /\ reaping' = 0 /\ held' = held \ {reaping}
        /\ UNCHANGED <<openVars, tmux, pty, killed, written, unpainted, imageVars, boots>>
    BY DEF Reap
  <1>4. CASE reaping \in held /\ ending' = [ending EXCEPT ![reaping] = "killing"] /\ UNCHANGED <<closed, browser>>
    <2>1. /\ ending' \in [Opened -> {"no", "killing", "removing"}]
          /\ \A j \in Opened : ending'[j] = IF j = reaping THEN "killing" ELSE ending[j]
      BY <1>1, <1>4
    <2>2. \A j \in Opened : ending'[j] = "killing" => j \notin held' /\ (ending[j] = "killing" \/ j \in held)
      BY <1>2, <1>3, <1>4, <2>1
    <2> QED BY <1>1, <1>3, <1>4, <2>1, <2>2, EndInv DEF imageVars
  <1>5. CASE Close(reaping) /\ UNCHANGED ending
    <2>1. closed' \in [Opened -> BOOLEAN] /\ browser' = HungUp(reaping)
      BY <1>1, <1>5 DEF Close
    <2> QED BY <1>1, <1>2, <1>3, <1>5, <2>1, EndInv DEF imageVars
  <1>6. CASE UNCHANGED <<closed, browser, ending>>
    BY <1>1, <1>2, <1>3, <1>6, EndInv DEF imageVars
  <1> QED BY <1>4, <1>5, <1>6 DEF Reap

LEMMA LoopInv ==
  ASSUME TermParts, NEW i \in Opened, PtyExits(i) \/ ReadLoopEnds(i) \/ remove(i)
  PROVE  TermParts'
  <1>1. /\ held \subseteq Opened /\ tmux \subseteq Opened /\ reaping \in 0..MaxOpened
        /\ pty \in [Opened -> {"none", "open", "exited", "over"}] /\ closed \in [Opened -> BOOLEAN]
        /\ ending \in [Opened -> {"no", "killing", "removing"}]
    BY DEF TermParts, TermTypeOK
  <1>2. \A j \in Opened : ending[j] = "killing" => j \notin held
    BY DEF TermParts, SlotPart, EndedStayOut
  <1>3. CASE PtyExits(i)
    <2>1. /\ pty' = [pty EXCEPT ![i] = "exited"] /\ tmux' \in {tmux, tmux \ {tmuxOf[i]}}
          /\ UNCHANGED <<held, openVars, endVars, written, unpainted, browser, imageVars, reaping, boots>>
      BY <1>3 DEF PtyExits
    <2>2. pty' \in [Opened -> {"none", "open", "exited", "over"}] /\ tmux' \subseteq Opened
      BY <1>1, <2>1
    <2> QED BY <1>1, <1>2, <2>1, <2>2, EndInv DEF endVars, imageVars
  <1>4. CASE ReadLoopEnds(i)
    <2>1. /\ pty' = [pty EXCEPT ![i] = "over"]
          /\ ending' = [ending EXCEPT ![i] = IF i \in held THEN "removing" ELSE ending[i]]
          /\ held' = held \ {i}
          /\ UNCHANGED <<openVars, tmux, closed, killed, written, unpainted, browser, imageVars, reaping, boots>>
      BY <1>1, <1>4 DEF ReadLoopEnds
    <2>2. /\ pty' \in [Opened -> {"none", "open", "exited", "over"}]
          /\ ending' \in [Opened -> {"no", "killing", "removing"}]
          /\ \A j \in Opened : ending'[j] = IF j = i /\ i \in held THEN "removing" ELSE ending[j]
      BY <1>1, <2>1
    <2>3. \A j \in Opened : ending'[j] = "killing" => j \notin held' /\ (ending[j] = "killing" \/ j \in held)
      BY <1>2, <2>1, <2>2
    <2> QED BY <1>1, <2>1, <2>2, <2>3, EndInv DEF imageVars
  <1>5. CASE remove(i)
    <2>1. /\ closed' = [closed EXCEPT ![i] = TRUE] /\ browser' = HungUp(i) /\ images' \subseteq images
          /\ ending' = [ending EXCEPT ![i] = "no"]
          /\ UNCHANGED <<held, openVars, tmux, pty, killed, written, unpainted, upload, reaping, boots>>
      BY <1>5 DEF remove, Close, removeSession
    <2>2. /\ closed' \in [Opened -> BOOLEAN] /\ ending' \in [Opened -> {"no", "killing", "removing"}]
          /\ \A j \in Opened : ending'[j] = IF j = i THEN "no" ELSE ending[j]
      BY <1>1, <2>1
    <2>3. \A j \in Opened : ending'[j] = "killing" => j \notin held' /\ (ending[j] = "killing" \/ j \in held)
      BY <1>2, <2>1, <2>2
    <2> QED BY <1>1, <2>1, <2>2, <2>3, EndInv
  <1> QED BY <1>3, <1>4, <1>5

LEMMA ShutdownInv ==
  ASSUME TermParts, Shutdown
  PROVE  TermParts'
  <1>1. /\ TermTypeOK /\ SlotPart /\ StreamPart /\ ImagePart /\ maxSessions \in Nat /\ 0 \in 0..MaxOpened
    BY TerminalsAssumption, OpenedNumbers DEF TermParts
  <1>2. /\ boots' = boots + 1 /\ held' = {} /\ pending' = 0 /\ reaping' = 0
        /\ opening' = [i \in Opened |-> IF opening[i] = "new" THEN "new" ELSE "done"]
        /\ pty' = [i \in Opened |-> IF pty[i] = "none" THEN "none" ELSE "over"]
        /\ closed' = [i \in Opened |-> closed[i] \/ i \in held]
        /\ ending' = [i \in Opened |-> "no"]
        /\ browser' = [b \in Browsers |-> NoSocket]
        /\ upload' = [u \in Uploads |-> IF upload[u].step \in {"writing", "saved"}
                                        THEN [step |-> "cut off", id |-> 0] ELSE upload[u]]
        /\ UNCHANGED <<tmuxOf, tmux, killed, written, unpainted, images>>
    BY DEF Shutdown
  <1>3. upload \in [Uploads -> [step : {"new", "writing", "saved", "done", "cut off"}, id : 0..MaxOpened]]
    BY <1>1 DEF TermTypeOK
  <1>4. /\ upload' \in [Uploads -> [step : {"new", "writing", "saved", "done", "cut off"}, id : 0..MaxOpened]]
        /\ \A u \in Uploads : upload'[u].step = IF upload[u].step \in {"writing", "saved"} THEN "cut off"
                                                ELSE upload[u].step
    BY <1>1, <1>2, <1>3
  <1>5. browser' \in [Browsers -> Socket] /\ \A b \in Browsers : browser'[b].stage = "away"
    <2>1. NoSocket.stage = "away"
      BY DEF NoSocket
    <2> QED BY <1>2, <2>1, NoSocketOK
  <1>6. TermTypeOK'
    <2>1. /\ opening' \in [Opened -> {"new", "reserved", "started", "returning", "done"}]
          /\ pty' \in [Opened -> {"none", "open", "exited", "over"}]
          /\ closed' \in [Opened -> BOOLEAN] /\ ending' \in [Opened -> {"no", "killing", "removing"}]
      BY <1>1, <1>2 DEF TermTypeOK
    <2>2. /\ held' \subseteq Opened /\ pending' \in Nat /\ boots' \in Nat /\ reaping' \in 0..MaxOpened
          /\ tmuxOf' \in [Opened -> 0..MaxOpened] /\ tmux' \subseteq Opened /\ killed' \subseteq Opened
          /\ written' \in [Opened -> Nat] /\ unpainted' \subseteq Opened /\ images' \subseteq Opened \X Uploads
      <3>1. /\ held' = {} /\ pending' = 0 /\ boots' = boots + 1 /\ reaping' = 0
            /\ UNCHANGED <<tmuxOf, tmux, killed, written, unpainted, images>>
        BY <1>2
      <3>2. /\ boots \in Nat /\ tmuxOf \in [Opened -> 0..MaxOpened] /\ tmux \subseteq Opened
            /\ killed \subseteq Opened /\ written \in [Opened -> Nat] /\ unpainted \subseteq Opened
            /\ images \subseteq Opened \X Uploads
        BY <1>1 DEF TermTypeOK
      <3>3. 0 \in 0..MaxOpened /\ 0 \in Nat
        BY OpenedNumbers
      <3>4. boots' \in Nat
        BY <3>1, <3>2
      <3> QED BY <3>1, <3>2, <3>3, <3>4
    <2> QED BY <1>4, <1>5, <2>1, <2>2 DEF TermTypeOK
  <1>7. SlotsKept'
    <2>1. InFlight' = {} /\ (held \cup Claimed)' = {}
      BY <1>2 DEF InFlight, Claimed
    <2>2. Cardinality({}) = 0
      BY FS_EmptySet
    <2>3. Cardinality(InFlight') = 0 /\ Cardinality((held \cup Claimed)') = 0
      BY <2>1, <2>2
    <2>4. pending' = 0
      BY DEF Shutdown
    <2>5. 0 <= maxSessions
      BY TerminalsAssumption
    <2> QED BY <2>3, <2>4, <2>5 DEF SlotsKept
  <1>8. EndedStayOut'
    BY <1>1, <1>2 DEF SlotPart, EndedStayOut
  <1>9. StreamPart'
    BY <1>1, <1>2, <1>5, SameStreams
  <1>10. ImagePart'
    <2>1. images \subseteq Opened \X Uploads
      BY <1>1 DEF TermTypeOK
    <2>2. ImagesKnown' /\ NoImageOfKilled'
      BY <1>1, <1>2, <1>4, <2>1 DEF ImagePart, ImagesKnown, NoImageOfKilled
    <2> QED BY <2>2 DEF ImagePart
  <1> QED BY <1>6, <1>7, <1>8, <1>9, <1>10 DEF TermParts, SlotPart

---------------------------------------------------------------------------
(* Terminals: images.                                                      *)

\* Only images and uploads are touched.
LEMMA ImagesOnly ==
  ASSUME TermParts, images' \subseteq Opened \X Uploads,
         upload' \in [Uploads -> [step : {"new", "writing", "saved", "done", "cut off"}, id : 0..MaxOpened]],
         ImagePart',
         UNCHANGED <<held, openVars, tmux, pty, endVars, written, unpainted, browser, reaping, boots>>
  PROVE  TermParts'
  <1>1. TermTypeOK'
    BY DEF TermParts, TermTypeOK, openVars, endVars
  <1>2. SlotPart'
    BY DEF TermParts, SlotPart, SlotsKept, EndedStayOut, Claimed, InFlight, openVars, endVars
  <1>3. StreamPart'
    BY SameStreams DEF TermParts
  <1> QED BY <1>1, <1>2, <1>3 DEF TermParts

LEMMA UploadInv ==
  ASSUME TermParts, NEW u \in Uploads, (\E i \in Opened : SaveClipboard(u, i)) \/ save(u) \/ SecondLookUp(u)
  PROVE  TermParts'
  <1> DEFINE Upload == [step : {"new", "writing", "saved", "done", "cut off"}, id : 0..MaxOpened]
  <1>1. /\ upload \in [Uploads -> Upload] /\ images \subseteq Opened \X Uploads /\ 0 \in 0..MaxOpened
        /\ Opened \subseteq 0..MaxOpened /\ ImagesKnown /\ NoImageOfKilled
    BY OpenedNumbers DEF TermParts, TermTypeOK, ImagePart
  <1>2. /\ UNCHANGED <<held, openVars, tmux, pty, endVars, written, unpainted, browser, reaping, boots>>
        /\ UNCHANGED killed
    BY DEF SaveClipboard, save, SecondLookUp, endVars
  <1>3. \A i \in killed : i \in Opened /\ i \notin held
    BY DEF TermParts, TermTypeOK, SlotPart, EndedStayOut
  <1>4. \A f \in images : f \in Opened \X Uploads /\ f[2] \in Uploads /\ f = <<f[1], f[2]>>
    <2>1. \A f \in Opened \X Uploads : f[2] \in Uploads /\ f = <<f[1], f[2]>>
      OBVIOUS
    <2> QED BY <1>1, <2>1
  <1> HIDE DEF Upload
  <1>5. ASSUME NEW i \in Opened, SaveClipboard(u, i)
        PROVE  TermParts'
    <2> DEFINE n == [step |-> "writing", id |-> i]
    <2>1. /\ upload[u].step = "new" /\ images' = images /\ upload' = [upload EXCEPT ![u] = n]
          /\ n \in Upload /\ n.step = "writing" /\ n.id = i
      BY <1>1, <1>5 DEF SaveClipboard, Upload
    <2> HIDE DEF n
    <2>2. /\ upload' \in [Uploads -> Upload] /\ upload'[u] = n
          /\ \A v \in Uploads : v # u => upload'[v] = upload[v]
      BY <1>1, <2>1
    <2>3. \A f \in images : f[2] # u
      BY <1>1, <2>1 DEF ImagesKnown
    <2>4. ImagePart'
      BY <1>1, <1>2, <1>4, <2>1, <2>2, <2>3 DEF ImagePart, ImagesKnown, NoImageOfKilled
    <2> QED BY <1>1, <1>2, <2>1, <2>2, <2>4, ImagesOnly DEF Upload
  <1>6. CASE save(u)
    <2>1. upload[u].step = "writing" /\ upload[u] \in Upload /\ upload[u].id \in Opened
      BY <1>1, <1>6 DEF save, ImagesKnown
    <2>2. \A f \in images : f[2] # u
      BY <1>1, <2>1 DEF ImagesKnown
    <2>3. CASE /\ upload' = [upload EXCEPT ![u].step = "saved"]
               /\ images' = images \cup {<<upload[u].id, u>>}
      <3> DEFINE n == [upload[u] EXCEPT !.step = "saved"]
      <3>1. upload' = [upload EXCEPT ![u] = n] /\ n \in Upload /\ n.step = "saved" /\ n.id = upload[u].id
        BY <1>1, <2>1, <2>3 DEF Upload
      <3> HIDE DEF n
      <3>2. /\ upload' \in [Uploads -> Upload] /\ upload'[u] = n
            /\ \A v \in Uploads : v # u => upload'[v] = upload[v]
        BY <1>1, <3>1
      <3>3. images' \subseteq Opened \X Uploads
        BY <1>1, <2>1, <2>3
      <3>4. \A f \in images' : \/ f \in images /\ f[2] # u
                               \/ f[2] = u /\ f[1] = n.id
        BY <2>2, <2>3, <3>1
      <3>5. ImagePart'
        BY <1>1, <1>2, <1>4, <2>1, <3>1, <3>2, <3>4 DEF ImagePart, ImagesKnown, NoImageOfKilled
      <3> QED BY <1>2, <3>2, <3>3, <3>5, ImagesOnly DEF Upload
    <2>4. CASE upload' = [upload EXCEPT ![u] = [step |-> "done", id |-> 0]] /\ UNCHANGED images
      <3> DEFINE n == [step |-> "done", id |-> 0]
      <3>1. upload' = [upload EXCEPT ![u] = n] /\ n \in Upload /\ n.step = "done"
        BY <1>1, <2>4 DEF Upload
      <3> HIDE DEF n
      <3>2. /\ upload' \in [Uploads -> Upload] /\ upload'[u] = n
            /\ \A v \in Uploads : v # u => upload'[v] = upload[v]
        BY <1>1, <3>1
      <3>3. ImagePart'
        BY <1>1, <1>2, <1>4, <2>2, <2>4, <3>1, <3>2 DEF ImagePart, ImagesKnown, NoImageOfKilled
      <3> QED BY <1>1, <1>2, <2>4, <3>2, <3>3, ImagesOnly DEF Upload
    <2> QED BY <1>6, <2>3, <2>4 DEF save
  <1>7. CASE SecondLookUp(u)
    <2> DEFINE n == [step |-> "done", id |-> 0]
    <2>1. /\ upload[u].step = "saved" /\ upload' = [upload EXCEPT ![u] = n] /\ n \in Upload /\ n.step = "done"
          /\ images' = IF upload[u].id \in held THEN images ELSE images \ {<<upload[u].id, u>>}
      BY <1>1, <1>7 DEF SecondLookUp, Upload
    <2> HIDE DEF n
    <2>2. /\ upload' \in [Uploads -> Upload] /\ upload'[u] = n
          /\ \A v \in Uploads : v # u => upload'[v] = upload[v]
      BY <1>1, <2>1
    <2>3. images' \subseteq images
      BY <2>1
    <2>4. ASSUME NEW f \in images', f[2] = u
          PROVE  f[1] \notin killed
      <3>1. f[1] = upload[u].id /\ f = <<upload[u].id, u>>
        BY <1>1, <1>4, <2>1, <2>3, <2>4 DEF ImagesKnown
      <3> QED BY <1>3, <2>1, <2>4, <3>1
    <2>5. ImagePart'
      BY <1>1, <1>2, <1>4, <2>1, <2>2, <2>3, <2>4 DEF ImagePart, ImagesKnown, NoImageOfKilled
    <2> QED BY <1>1, <1>2, <2>2, <2>3, <2>5, ImagesOnly DEF Upload
  <1> QED BY <1>5, <1>6, <1>7

LEMMA CleanupInv ==
  ASSUME TermParts, cleanupExpired
  PROVE  TermParts'
  <1>1. /\ images' \subseteq images
        /\ UNCHANGED <<held, openVars, tmux, pty, endVars, written, unpainted, browser, upload, reaping, boots>>
    BY DEF cleanupExpired
  <1>2. ImagePart'
    BY <1>1, SameImages DEF TermParts, endVars
  <1> QED BY <1>1, <1>2, ImagesOnly DEF TermParts, TermTypeOK

\* Whatever requests, clients and reapers overlap, no more sessions are held than
\* allowed, an attached client's stream has no hole and a killed session keeps no
\* image, for every limit and any number of clients (reserve, broadcast, SaveClipboard).
THEOREM TerminalsInvariance == TermSpec => []TerminalsInv
  <1>1. TermInit => TermParts
    <2> SUFFICES ASSUME TermInit
        PROVE  TermParts
      OBVIOUS
    <2>1. 0 \in 0..MaxOpened /\ maxSessions \in Nat /\ 1 \in Nat
      BY TerminalsAssumption
    <2>2. TermTypeOK
      BY <2>1, NoSocketOK DEF TermInit, TermTypeOK
    <2>3. SlotPart
      <3>1. InFlight = {} /\ held \cup Claimed = {}
        BY DEF TermInit, InFlight, Claimed
      <3>2. SlotsKept
        <4>1. Cardinality({}) = 0
          BY FS_EmptySet
        <4>2. Cardinality(InFlight) = 0 /\ Cardinality(held \cup Claimed) = 0
          BY <3>1, <4>1
        <4> QED BY <2>1, <4>2 DEF TermInit, SlotsKept
      <3>3. EndedStayOut
        BY DEF TermInit, EndedStayOut
      <3> QED BY <3>2, <3>3 DEF SlotPart
    <2>4. StreamPart
      BY NoSocketOK DEF TermInit, StreamPart, SocketOK, NoSocket
    <2>5. ImagePart
      BY DEF TermInit, ImagePart, ImagesKnown, NoImageOfKilled
    <2> QED BY <2>2, <2>3, <2>4, <2>5 DEF TermParts
  <1>2. TermParts /\ [TermNext]_termVars => TermParts'
    <2> SUFFICES ASSUME TermParts, [TermNext]_termVars
        PROVE  TermParts'
      OBVIOUS
    <2>1. ASSUME NEW i \in Opened,
                 \/ Create(i) \/ Reattach(i) \/ StartWithSize(i) \/ Insert(i) \/ Release(i)
                 \/ broadcast(i) \/ Kill(i) \/ KillCloses(i) \/ Detach(i) \/ ReapFinds(i)
                 \/ PtyExits(i) \/ ReadLoopEnds(i) \/ remove(i)
          PROVE  TermParts'
      BY <2>1, OpenInv, StartInv, InsertInv, ReleaseInv, BroadcastInv, KillInv, DetachInv, LoopInv
    <2>2. ASSUME NEW b \in Browsers,
                 \/ \E i \in Opened : LookUp(b, i)
                 \/ Subscribe(b) \/ Receive(b) \/ Resize(b) \/ Redraw(b) \/ Unsubscribe(b)
          PROVE  TermParts'
      BY <2>2, AttachInv, ReceiveInv
    <2>3. ASSUME NEW u \in Uploads,
                 save(u) \/ SecondLookUp(u) \/ \E i \in Opened : SaveClipboard(u, i)
          PROVE  TermParts'
      BY <2>3, UploadInv
    <2>4. CASE Reap \/ Shutdown \/ cleanupExpired
      BY <2>4, ReapInv, ShutdownInv, CleanupInv
    <2>5. CASE UNCHANGED termVars
      <3>1. /\ UNCHANGED <<held, openVars, tmux, pty, endVars, written, unpainted, browser, images, upload, reaping, boots>>
            /\ UNCHANGED killed
        BY <2>5 DEF termVars, imageVars, endVars
      <3>2. ImagePart'
        BY <3>1, SameImages DEF TermParts
      <3> QED BY <3>1, <3>2, ImagesOnly DEF TermParts, TermTypeOK
    <2> QED BY <2>1, <2>2, <2>3, <2>4, <2>5 DEF TermNext
  <1>3. TermParts => TerminalsInv
    <2> SUFFICES ASSUME TermParts
        PROVE  TerminalsInv
      OBVIOUS
    <2>1. TermTypeOK /\ SlotsKept /\ EndedStayOut /\ ImagesKnown /\ NoImageOfKilled /\ StreamPart
      BY DEF TermParts, SlotPart, ImagePart
    <2>2. SocketsKnown /\ StreamUnbroken
      BY <2>1, StreamsByBrowser
    <2>3. SessionsBounded
      <3>1. held \in SUBSET (held \cup Claimed)
        OBVIOUS
      <3>2. Cardinality(held) <= Cardinality(held \cup Claimed)
        BY <2>1, <3>1, OpenedFinite, FS_Subset
      <3> QED BY <2>1, <3>2, OpenedFinite, TerminalsAssumption DEF SlotsKept, SessionsBounded
    <2> QED BY <2>1, <2>2, <2>3 DEF TerminalsInv
  <1> QED BY <1>1, <1>2, <1>3, PTL DEF TermSpec

---------------------------------------------------------------------------
(* Terminal folders.                                                       *)

\* What taking a window out of a strip and putting one in leaves.
LEMMA WindowOut ==
  ASSUME NEW S, NEW w \in Seq(S), NEW i \in DOMAIN w
  PROVE  RemoveAt(w, i) \in Seq(S) /\ Len(RemoveAt(w, i)) = Len(w) - 1
  <1> DEFINE before == SubSeq(w, 1, i - 1)
  <1> DEFINE after == SubSeq(w, i + 1, Len(w))
  <1>1. i \in Nat /\ 1 <= i /\ i <= Len(w) /\ Len(w) \in Nat
    OBVIOUS
  <1>2. before \in Seq(S) /\ Len(before) = i - 1
    BY <1>1, SubSeqProperties
  <1>3. after \in Seq(S) /\ Len(after) = Len(w) - i
    BY <1>1, SubSeqProperties
  <1>4. RemoveAt(w, i) = before \o after
    BY DEF RemoveAt
  <1> HIDE DEF before, after
  <1>5. before \o after \in Seq(S) /\ Len(before \o after) = Len(before) + Len(after)
    BY <1>2, <1>3, ConcatProperties
  <1> QED
    BY <1>1, <1>2, <1>3, <1>4, <1>5

LEMMA WindowIn ==
  ASSUME NEW S, NEW w \in Seq(S), NEW e \in S, NEW i \in 1..(Len(w) + 1)
  PROVE  InsertAt(w, i, e) \in Seq(S) /\ InsertAt(w, i, e) # <<>>
  <1> DEFINE before == SubSeq(w, 1, i - 1)
  <1> DEFINE after == SubSeq(w, i, Len(w))
  <1> DEFINE one == <<e>>
  <1>1. i \in Nat /\ 1 <= i /\ i <= Len(w) + 1 /\ Len(w) \in Nat
    OBVIOUS
  <1>2. before \in Seq(S)
    BY <1>1, SubSeqProperties
  <1>3. after \in Seq(S)
    BY <1>1, SubSeqProperties
  <1>4. one \in Seq(S) /\ Len(one) = 1
    OBVIOUS
  <1>5. InsertAt(w, i, e) = (before \o one) \o after
    BY DEF InsertAt
  <1> HIDE DEF before, after, one
  <1>6. before \o one \in Seq(S) /\ Len(before \o one) = Len(before) + Len(one)
    BY <1>2, <1>4, ConcatProperties
  <1> DEFINE first == before \o one
  <1>7. first \in Seq(S) /\ Len(first) = Len(before) + 1
    BY <1>4, <1>6
  <1>8. InsertAt(w, i, e) = first \o after
    BY <1>5
  <1> HIDE DEF first
  <1>9. first \o after \in Seq(S) /\ Len(first \o after) = Len(first) + Len(after)
    BY <1>3, <1>7, ConcatProperties
  <1>10. Len(before) \in Nat /\ Len(after) \in Nat
    BY <1>2, <1>3
  <1>11. Len(first \o after) # 0
    BY <1>7, <1>9, <1>10
  <1> QED
    BY <1>8, <1>9, <1>11

LEMMA WindowAdded ==
  ASSUME NEW S, NEW w \in Seq(S), NEW e \in S
  PROVE  Append(w, e) \in Seq(S) /\ Append(w, e) # <<>>
  BY AppendProperties

LEMMA NoneLeft ==
  ASSUME NEW S, NEW w \in Seq(S), NEW v \in Seq(S), Len(v) = Len(w) - 1
  PROVE  v = <<>> <=> Len(w) = 1
  <1>1. Len(w) \in Nat /\ Len(v) \in Nat
    OBVIOUS
  <1>2. v = <<>> <=> Len(v) = 0
    BY EmptySeq
  <1> QED
    BY <1>1, <1>2

StripsOK ==
  /\ strip \in [Shells -> Seq(1..MaxWindows)]
  /\ \A s \in Shells : s \in inTmux <=> strip[s] # <<>>
CallsOK ==
  req \in [Clients -> [step : {"none", "read", "saved", "moving", "over"}, from : Places,
                       to : Places, read : SUBSET Folders, todo : SUBSET Shells]]
PlacesOK ==
  /\ mine \subseteq opened /\ inTmux \subseteq opened /\ opened \subseteq Shells
  /\ memory \in [Shells -> Places] /\ option \in [Shells -> Places]
  /\ owed \subseteq Shells \X Places /\ record \subseteq Folders
  /\ refiled \in [Clients -> SUBSET Shells] /\ folderOps \in 0..MaxFolderOps

LEMMA FoldersTypes == FoldersTypeOK <=> PlacesOK /\ CallsOK /\ StripsOK
  BY DEF FoldersTypeOK, PlacesOK, CallsOK, StripsOK

LEMMA FoldersTypesAfter ==
  ASSUME PlacesOK', CallsOK', StripsOK'
  PROVE  FoldersTypeOK'
  BY DEF FoldersTypeOK, PlacesOK, CallsOK, StripsOK

Where(s) == IF s \in mine THEN memory[s] ELSE option[s]
OwedHeld == \A o \in owed : o[1] \in mine
Emptying(c) ==
  req[c].step = "moving" /\ req[c].to # req[c].from =>
    FiledIn(req[c].from) \subseteq req[c].todo \cup refiled[c]

LEMMA EmptiesParts == FolderEmpties <=> OwedHeld /\ \A c \in Clients : Emptying(c)
  BY DEF FolderEmpties, OwedHeld, Emptying

LEMMA EmptiesAfter ==
  ASSUME OwedHeld', \A c \in Clients : Emptying(c)'
  PROVE  FolderEmpties'
  BY DEF FolderEmpties, OwedHeld, Emptying

\* A step that changes where the sessions in moved are, and tells a request so,
\* leaves the folder it empties on its way.
LEMMA OthersStay ==
  ASSUME NEW c \in Clients, NEW moved, Emptying(c), req'[c] = req[c],
         refiled[c] \subseteq refiled'[c], moved \subseteq refiled'[c],
         \A s \in (mine' \cup inTmux') \ moved : s \in mine \cup inTmux /\ Where(s)' = Where(s)
  PROVE  Emptying(c)'
  <1> SUFFICES ASSUME req[c].step = "moving", req[c].to # req[c].from,
                      NEW s \in FiledIn(req[c].from)'
               PROVE  s \in req[c].todo \cup refiled'[c]
    BY DEF Emptying, FiledIn
  <1>1. CASE s \in moved
    BY <1>1
  <1>2. CASE s \notin moved
    <2>1. s \in mine' \cup inTmux' /\ Where(s)' = req[c].from
      BY DEF FiledIn, Where
    <2>2. s \in mine \cup inTmux /\ Where(s) = req[c].from
      BY <1>2, <2>1
    <2>3. s \in FiledIn(req[c].from)
      BY <2>2 DEF FiledIn, Where
    <2> QED
      BY <2>3 DEF Emptying
  <1> QED
    BY <1>1, <1>2

\* A step that files nothing differently.
LEMMA AllStay ==
  ASSUME FolderEmpties, UNCHANGED <<req, refiled>>, OwedHeld',
         \A s \in mine' \cup inTmux' : s \in mine \cup inTmux /\ Where(s)' = Where(s)
  PROVE  FolderEmpties'
  <1>1. ASSUME NEW c \in Clients PROVE Emptying(c)'
    <2>1. Emptying(c)
      BY EmptiesParts
    <2> QED
      BY <2>1, OthersStay
  <1> QED
    BY <1>1, EmptiesAfter

\* A step that files the sessions in moved, of which every request is told.
LEMMA SomeMove ==
  ASSUME FolderEmpties, PlacesOK, NEW moved, UNCHANGED req, OwedHeld', Refile(Clients, moved),
         \A s \in (mine' \cup inTmux') \ moved : s \in mine \cup inTmux /\ Where(s)' = Where(s)
  PROVE  FolderEmpties'
  <1>1. ASSUME NEW c \in Clients PROVE Emptying(c)'
    <2>1. Emptying(c)
      BY EmptiesParts
    <2>2. refiled'[c] = refiled[c] \cup moved
      BY DEF Refile
    <2> QED
      BY <2>1, <2>2, OthersStay
  <1> QED
    BY <1>1, EmptiesAfter

\* A step of one request that is not moving sessions then.
LEMMA OneRequest ==
  ASSUME FolderEmpties, NEW c \in Clients, UNCHANGED <<mine, inTmux, memory, option, owed, refiled>>,
         \A d \in Clients \ {c} : req'[d] = req[d], req'[c].step # "moving"
  PROVE  FolderEmpties'
  <1>1. OwedHeld'
    BY EmptiesParts DEF OwedHeld
  <1>2. ASSUME NEW d \in Clients PROVE Emptying(d)'
    <2>1. CASE d = c
      BY <2>1 DEF Emptying
    <2>2. CASE d # c
      <3>1. Emptying(d) /\ req'[d] = req[d]
        BY <2>2, EmptiesParts
      <3> QED
        BY <3>1 DEF Emptying, FiledIn
    <2> QED
      BY <2>1, <2>2
  <1> QED
    BY <1>1, <1>2, EmptiesAfter

FoldersInv == FoldersTypeOK /\ FolderEmpties

LEMMA FoldersInvParts == FoldersInv <=> PlacesOK /\ CallsOK /\ StripsOK /\ FolderEmpties
  BY FoldersTypes DEF FoldersInv

LEMMA FoldersInvAfter ==
  ASSUME PlacesOK', CallsOK', StripsOK', FolderEmpties'
  PROVE  FoldersInv'
  BY FoldersTypesAfter DEF FoldersInv

LEMMA SameCalls ==
  ASSUME CallsOK, UNCHANGED req
  PROVE  CallsOK'
  BY DEF CallsOK

LEMMA SameStrips ==
  ASSUME StripsOK, UNCHANGED <<strip, inTmux>>
  PROVE  StripsOK'
  BY DEF StripsOK

LEMMA RefileOK ==
  ASSUME PlacesOK, NEW clients, NEW sessions \in SUBSET Shells, Refile(clients, sessions)
  PROVE  refiled' \in [Clients -> SUBSET Shells]
  BY DEF PlacesOK, Refile

\* What SetMeta leaves of the places.
LEMMA SetMetaOK ==
  ASSUME PlacesOK, NEW s \in Shells, NEW f \in Places, SetMeta(s, f)
  PROVE  /\ memory' \in [Shells -> Places] /\ option' \in [Shells -> Places]
         /\ owed' \subseteq Shells \X Places
  BY DEF PlacesOK, SetMeta

LEMMA SetMetaMoves ==
  ASSUME PlacesOK, OwedHeld, NEW s \in Shells, NEW f, SetMeta(s, f),
         UNCHANGED <<mine, inTmux>>
  PROVE  /\ OwedHeld'
         /\ \A x \in (mine' \cup inTmux') \ {s} : x \in mine \cup inTmux /\ Where(x)' = Where(x)
         /\ s \in mine' \cup inTmux' => Where(s)' = f
  <1>1. OwedHeld'
    BY DEF OwedHeld, SetMeta
  <1>2. \A x \in (mine' \cup inTmux') \ {s} : x \in mine \cup inTmux /\ Where(x)' = Where(x)
    BY DEF PlacesOK, SetMeta, Where
  <1>3. s \in mine' \cup inTmux' => Where(s)' = f
    BY DEF PlacesOK, SetMeta, Where
  <1> QED
    BY <1>1, <1>2, <1>3

LEMMA OpenInInv ==
  ASSUME FoldersInv, NEW s \in Shells, NEW f \in Places, OpenIn(s, f)
  PROVE  FoldersInv'
  <1> USE FoldersInvParts
  <1>1. refiled' \in [Clients -> SUBSET Shells]
    BY RefileOK DEF OpenIn
  <1>2. PlacesOK'
    BY <1>1 DEF PlacesOK, OpenIn
  <1>3. CallsOK' /\ StripsOK'
    BY SameCalls, SameStrips DEF OpenIn
  <1>4. OwedHeld'
    BY EmptiesParts DEF OwedHeld, OpenIn
  <1>5. \A x \in (mine' \cup inTmux') \ {s} : x \in mine \cup inTmux /\ Where(x)' = Where(x)
    BY DEF PlacesOK, OpenIn, Where
  <1>6. FolderEmpties'
    BY <1>4, <1>5, SomeMove DEF OpenIn
  <1> QED
    BY <1>2, <1>3, <1>6, FoldersInvAfter

LEMMA TmuxStartsInv ==
  ASSUME FoldersInv, NEW s \in Shells, TmuxStarts(s), FoldersAssumption
  PROVE  FoldersInv'
  <1> USE FoldersInvParts
  <1>1. PlacesOK'
    BY DEF PlacesOK, TmuxStarts, filing
  <1>2. CallsOK'
    BY SameCalls DEF TmuxStarts
  <1>3. <<1>> \in Seq(1..MaxWindows) /\ <<1>> # <<>>
    BY DEF FoldersAssumption
  <1>4. StripsOK'
    BY <1>3 DEF StripsOK, TmuxStarts
  <1>5. OwedHeld'
    BY EmptiesParts DEF OwedHeld, TmuxStarts, filing
  <1>6. \A x \in mine' \cup inTmux' : x \in mine \cup inTmux /\ Where(x)' = Where(x)
    BY DEF TmuxStarts, Where, filing
  <1>7. FolderEmpties'
    BY <1>5, <1>6, AllStay DEF TmuxStarts
  <1> QED
    BY <1>1, <1>2, <1>4, <1>7, FoldersInvAfter

LEMMA RememberInv ==
  ASSUME FoldersInv, NEW o \in Shells \X Places, rememberOptions(o)
  PROVE  FoldersInv'
  <1> USE FoldersInvParts
  <1>0. o[1] \in Shells /\ o[2] \in Places
    OBVIOUS
  <1>1. PlacesOK'
    BY <1>0 DEF PlacesOK, rememberOptions
  <1>2. CallsOK' /\ StripsOK'
    BY SameCalls, SameStrips DEF rememberOptions
  <1>3. OwedHeld' /\ o[1] \in mine
    BY EmptiesParts DEF OwedHeld, rememberOptions
  <1>4. \A x \in mine' \cup inTmux' : x \in mine \cup inTmux /\ Where(x)' = Where(x)
    BY <1>0, <1>3 DEF PlacesOK, rememberOptions, Where
  <1>5. FolderEmpties'
    BY <1>3, <1>4, AllStay DEF rememberOptions
  <1> QED
    BY <1>1, <1>2, <1>5, FoldersInvAfter

LEMMA MetaInv ==
  ASSUME FoldersInv, NEW s \in Shells, NEW f \in Places, handleTerminalMeta(s, f), FoldersAssumption
  PROVE  FoldersInv'
  <1> USE FoldersInvParts
  <1>1. /\ memory' \in [Shells -> Places] /\ option' \in [Shells -> Places]
        /\ owed' \subseteq Shells \X Places /\ refiled' \in [Clients -> SUBSET Shells]
    BY RefileOK, SetMetaOK DEF handleTerminalMeta
  <1>2. PlacesOK'
    BY <1>1 DEF PlacesOK, handleTerminalMeta, FoldersAssumption
  <1>3. CallsOK' /\ StripsOK'
    BY SameCalls, SameStrips DEF handleTerminalMeta
  <1>4. /\ OwedHeld'
        /\ \A x \in (mine' \cup inTmux') \ {s} : x \in mine \cup inTmux /\ Where(x)' = Where(x)
    BY EmptiesParts, SetMetaMoves DEF handleTerminalMeta
  <1>5. FolderEmpties'
    BY <1>4, SomeMove DEF handleTerminalMeta
  <1> QED
    BY <1>2, <1>3, <1>5, FoldersInvAfter

LEMMA ForgetInv ==
  ASSUME FoldersInv, NEW gone \in SUBSET Shells, Forget(gone)
  PROVE  FoldersInv'
  <1> USE FoldersInvParts
  <1>1. refiled' \in [Clients -> SUBSET Shells]
    BY RefileOK DEF Forget
  <1>2. PlacesOK'
    BY <1>1 DEF PlacesOK, Forget
  <1>3. CallsOK' /\ StripsOK'
    BY SameCalls, SameStrips DEF Forget
  <1>4. OwedHeld'
    BY EmptiesParts DEF OwedHeld, Forget
  <1>5. \A x \in (mine' \cup inTmux') \ gone : x \in mine \cup inTmux /\ Where(x)' = Where(x)
    BY DEF Forget, Where
  <1>6. FolderEmpties'
    BY <1>4, <1>5, SomeMove DEF Forget
  <1> QED
    BY <1>2, <1>3, <1>6, FoldersInvAfter

LEMMA PickUpInv ==
  ASSUME FoldersInv, NEW s \in Shells, PickUp(s)
  PROVE  FoldersInv'
  <1> USE FoldersInvParts
  <1>1. PlacesOK'
    BY DEF PlacesOK, PickUp
  <1>2. CallsOK' /\ StripsOK'
    BY SameCalls, SameStrips DEF PickUp
  <1>3. OwedHeld'
    BY EmptiesParts DEF OwedHeld, PickUp
  <1>4. \A x \in mine' \cup inTmux' : x \in mine \cup inTmux /\ Where(x)' = Where(x)
    BY DEF PlacesOK, PickUp, Where
  <1>5. FolderEmpties'
    BY <1>3, <1>4, AllStay DEF PickUp
  <1> QED
    BY <1>1, <1>2, <1>5, FoldersInvAfter

\* A request is received.
LEMMA BeginInv ==
  ASSUME FoldersInv, FoldersAssumption, NEW c \in Clients, NEW from \in Places, NEW to \in Places,
         Begin(c, from, to)
  PROVE  FoldersInv'
  <1> USE FoldersInvParts
  <1> DEFINE Call == [step : {"none", "read", "saved", "moving", "over"}, from : Places,
                      to : Places, read : SUBSET Folders, todo : SUBSET Shells]
  <1> DEFINE call == [NoReq EXCEPT !.step = "read", !.from = from, !.to = to, !.read = record]
  <1>1. NoReq \in Call
    BY DEF NoReq, Places
  <1>2. call \in Call /\ call.step = "read"
    BY <1>1 DEF PlacesOK
  <1>3. req' = [req EXCEPT ![c] = call]
    BY DEF Begin
  <1>4. req \in [Clients -> Call]
    BY DEF CallsOK
  <1> HIDE DEF Call, call
  <1>5. req' \in [Clients -> Call] /\ req'[c] = call /\ \A d \in Clients \ {c} : req'[d] = req[d]
    BY <1>2, <1>3, <1>4
  <1>6. CallsOK'
    BY <1>5 DEF CallsOK, Call
  <1>7. PlacesOK'
    BY DEF PlacesOK, Begin, filing, FoldersAssumption
  <1>8. StripsOK'
    BY SameStrips DEF Begin
  <1>9. UNCHANGED <<mine, inTmux, memory, option, owed, refiled>> /\ req'[c].step # "moving"
    BY <1>2, <1>5 DEF Begin, filing
  <1>10. FolderEmpties'
    BY <1>5, <1>9, OneRequest
  <1> QED
    BY <1>6, <1>7, <1>8, <1>10, FoldersInvAfter

LEMMA OrderInv ==
  ASSUME FoldersInv, FoldersAssumption, NEW fs \in SUBSET Folders, handleTerminalFolderOrder(fs)
  PROVE  FoldersInv'
  <1> USE FoldersInvParts
  <1>1. PlacesOK'
    BY DEF PlacesOK, handleTerminalFolderOrder, filing, FoldersAssumption
  <1>2. CallsOK' /\ StripsOK'
    BY SameCalls, SameStrips DEF handleTerminalFolderOrder
  <1>3. OwedHeld'
    BY EmptiesParts DEF OwedHeld, handleTerminalFolderOrder, filing
  <1>4. \A x \in mine' \cup inTmux' : x \in mine \cup inTmux /\ Where(x)' = Where(x)
    BY DEF handleTerminalFolderOrder, Where, filing
  <1>5. FolderEmpties'
    BY <1>3, <1>4, AllStay DEF handleTerminalFolderOrder
  <1> QED
    BY <1>1, <1>2, <1>5, FoldersInvAfter

LEMMA SaveInv ==
  ASSUME FoldersInv, NEW c \in Clients, saveTerminalFolders(c)
  PROVE  FoldersInv'
  <1> USE FoldersInvParts
  <1>1. req[c].read \subseteq Folders /\ req[c].to \in Places
    BY DEF CallsOK
  <1>2. PlacesOK'
    BY <1>1 DEF PlacesOK, saveTerminalFolders, filing, Places
  <1>3. CallsOK' /\ req'[c].step # "moving" /\ \A d \in Clients \ {c} : req'[d] = req[d]
    BY DEF CallsOK, saveTerminalFolders
  <1>4. StripsOK'
    BY SameStrips DEF saveTerminalFolders
  <1>5. UNCHANGED <<mine, inTmux, memory, option, owed, refiled>>
    BY DEF saveTerminalFolders, filing
  <1>6. FolderEmpties'
    BY <1>3, <1>5, OneRequest
  <1> QED
    BY <1>2, <1>3, <1>4, <1>6, FoldersInvAfter

LEMMA RespondInv ==
  ASSUME FoldersInv, NEW c \in Clients, Respond(c)
  PROVE  FoldersInv'
  <1> USE FoldersInvParts
  <1>1. PlacesOK'
    BY DEF PlacesOK, Respond, filing
  <1>2. NoReq \in [step : {"none", "read", "saved", "moving", "over"}, from : Places,
                   to : Places, read : SUBSET Folders, todo : SUBSET Shells]
    BY DEF NoReq, Places
  <1>3. CallsOK' /\ req'[c] = NoReq /\ \A d \in Clients \ {c} : req'[d] = req[d]
    BY <1>2 DEF CallsOK, Respond
  <1>4. StripsOK'
    BY SameStrips DEF Respond
  <1>5. UNCHANGED <<mine, inTmux, memory, option, owed, refiled>> /\ req'[c].step # "moving"
    BY <1>3 DEF Respond, filing, NoReq
  <1>6. FolderEmpties'
    BY <1>3, <1>5, OneRequest
  <1> QED
    BY <1>1, <1>3, <1>4, <1>6, FoldersInvAfter

LEMMA ListFiledInv ==
  ASSUME FoldersInv, NEW c \in Clients, ListFiled(c)
  PROVE  FoldersInv'
  <1> USE FoldersInvParts
  <1>1. PlacesOK'
    BY DEF PlacesOK, ListFiled, filing
  <1>2. FiledUnder(req[c].from) = FiledIn(req[c].from)
    BY DEF FiledUnder, FiledIn, AllMeta
  <1>3. FiledIn(req[c].from) \subseteq Shells
    BY DEF FiledIn, PlacesOK
  <1>4. CallsOK'
    BY <1>2, <1>3 DEF CallsOK, ListFiled
  <1>5. req'[c].todo = FiledIn(req[c].from) /\ req'[c].from = req[c].from
    BY <1>2 DEF CallsOK, ListFiled
  <1>6. StripsOK'
    BY SameStrips DEF ListFiled
  <1>7. OwedHeld'
    BY EmptiesParts DEF OwedHeld, ListFiled, filing
  <1>8. ASSUME NEW d \in Clients PROVE Emptying(d)'
    <2>1. \A f : FiledIn(f)' = FiledIn(f)
      BY DEF FiledIn, ListFiled, filing
    <2>2. CASE d = c
      BY <1>5, <2>1, <2>2 DEF Emptying
    <2>3. CASE d # c
      <3>1. Emptying(d) /\ req'[d] = req[d] /\ refiled'[d] = refiled[d]
        BY <2>3, EmptiesParts DEF ListFiled, CallsOK, PlacesOK
      <3> QED
        BY <2>1, <3>1 DEF Emptying
    <2> QED
      BY <2>2, <2>3
  <1> QED
    BY <1>1, <1>4, <1>6, <1>7, <1>8, EmptiesAfter, FoldersInvAfter

LEMMA RefileInv ==
  ASSUME FoldersInv, NEW c \in Clients, refileSessions(c)
  PROVE  FoldersInv'
  <1> USE FoldersInvParts
  <1>1. PICK s \in req[c].todo :
          /\ SetMeta(s, req[c].to)
          /\ req' = [req EXCEPT ![c].todo = @ \ {s}]
          /\ Refile(Clients \ {c}, {s})
    BY DEF refileSessions
  <1>2. s \in Shells /\ req[c].to \in Places
    BY <1>1 DEF CallsOK
  <1>3. refiled' \in [Clients -> SUBSET Shells]
    BY <1>1, <1>2, RefileOK
  <1>4. PlacesOK'
    <2>1. /\ memory' \in [Shells -> Places] /\ option' \in [Shells -> Places]
          /\ owed' \subseteq Shells \X Places
      BY <1>1, <1>2, SetMetaOK
    <2> QED
      BY <1>3, <2>1 DEF PlacesOK, refileSessions
  <1>5. CallsOK'
    BY <1>1 DEF CallsOK
  <1>6. StripsOK'
    BY SameStrips DEF refileSessions
  <1>7. /\ OwedHeld'
        /\ \A x \in (mine' \cup inTmux') \ {s} : x \in mine \cup inTmux /\ Where(x)' = Where(x)
        /\ s \in mine' \cup inTmux' => Where(s)' = req[c].to
    BY <1>1, <1>2, EmptiesParts, SetMetaMoves DEF refileSessions
  <1>8. ASSUME NEW d \in Clients PROVE Emptying(d)'
    <2>1. Emptying(d)
      BY EmptiesParts
    <2>2. CASE d = c
      <3>1. /\ req'[c].todo = req[c].todo \ {s} /\ req'[c].from = req[c].from
            /\ req'[c].to = req[c].to /\ req'[c].step = req[c].step
        BY <1>1 DEF CallsOK
      <3>2. refiled'[c] = refiled[c]
        BY <1>1 DEF Refile
      <3>3. SUFFICES ASSUME req[c].step = "moving", req[c].to # req[c].from,
                            NEW x \in FiledIn(req[c].from)'
                     PROVE  x \in (req[c].todo \ {s}) \cup refiled[c]
        BY <2>2, <3>1, <3>2 DEF Emptying, FiledIn
      <3>4. x \in mine' \cup inTmux' /\ Where(x)' = req[c].from
        BY <3>1 DEF FiledIn, Where
      <3>5. x # s
        BY <1>7, <3>3, <3>4
      <3>6. x \in FiledIn(req[c].from)
        BY <1>7, <3>4, <3>5 DEF FiledIn, Where
      <3> QED
        BY <2>1, <2>2, <3>3, <3>5, <3>6 DEF Emptying
    <2>3. CASE d # c
      <3>1. req'[d] = req[d] /\ refiled'[d] = refiled[d] \cup {s}
        BY <1>1, <2>3 DEF Refile, CallsOK
      <3> QED
        BY <1>7, <2>1, <3>1, OthersStay
    <2> QED
      BY <2>2, <2>3
  <1> QED
    BY <1>4, <1>5, <1>6, <1>7, <1>8, EmptiesAfter, FoldersInvAfter

\* Only the windows of a session change, or it ends with its last one.
LEMMA WindowsOnly ==
  ASSUME FoldersInv, StripsOK', inTmux' \subseteq inTmux,
         UNCHANGED <<mine, opened, filing, record, req, refiled, folderOps>>
  PROVE  FoldersInv'
  <1> USE FoldersInvParts
  <1>1. PlacesOK'
    BY DEF PlacesOK, filing
  <1>2. CallsOK'
    BY SameCalls
  <1>3. OwedHeld'
    BY EmptiesParts DEF OwedHeld, filing
  <1>4. \A x \in mine' \cup inTmux' : x \in mine \cup inTmux /\ Where(x)' = Where(x)
    BY DEF Where, filing
  <1>5. FolderEmpties'
    BY <1>3, <1>4, AllStay
  <1> QED
    BY <1>1, <1>2, <1>5, FoldersInvAfter

LEMMA ArrangeInv ==
  ASSUME FoldersInv, NEW s \in Shells, NEW windows \in Seq(1..MaxWindows), windows # <<>>,
         Arrange(s, windows), UNCHANGED inTmux
  PROVE  FoldersInv'
  <1>1. StripsOK
    BY FoldersInvParts
  <1>2. StripsOK'
    BY <1>1 DEF StripsOK, Arrange
  <1> QED
    BY <1>2, WindowsOnly DEF Arrange

LEMMA ShrinkInv ==
  ASSUME FoldersInv, NEW s \in Shells, NEW windows \in Seq(1..MaxWindows), Shrink(s, windows)
  PROVE  FoldersInv'
  <1>1. StripsOK
    BY FoldersInvParts
  <1>2. strip' = [strip EXCEPT ![s] = windows] /\ s \in inTmux
    BY DEF Shrink, Arrange
  <1>3. StripsOK'
    <2>1. CASE windows = <<>>
      BY <1>1, <1>2, <2>1 DEF StripsOK, Shrink
    <2>2. CASE windows # <<>>
      BY <1>1, <1>2, <2>2 DEF StripsOK, Shrink
    <2> QED
      BY <2>1, <2>2
  <1>4. inTmux' \subseteq inTmux
    BY DEF Shrink
  <1> QED
    BY <1>3, <1>4, WindowsOnly DEF Shrink, Arrange

LEMMA WindowStepInv ==
  ASSUME FoldersInv, FoldersAssumption, WindowStep
  PROVE  FoldersInv'
  <1> DEFINE Strips == Seq(1..MaxWindows)
  <1>0. StripsOK /\ \A s \in Shells : strip[s] \in Strips
    BY FoldersInvParts DEF StripsOK
  <1>1. PICK s \in Shells :
          \/ NewWindow(s)
          \/ \E i \in 1..MaxWindows :
               \/ KillWindow(s, i) \/ SplitPane(s, i) \/ KillPane(s, i) \/ WindowExits(s, i)
               \/ \E to \in 1..MaxWindows : MoveWindow(s, i, to)
               \/ \E d \in Shells : MoveWindowToSession(s, i, d)
    BY DEF WindowStep
  <1>2. CASE NewWindow(s)
    <2>1. Append(strip[s], 1) \in Strips /\ Append(strip[s], 1) # <<>>
      BY <1>0 DEF FoldersAssumption
    <2> QED
      BY <1>2, <2>1, ArrangeInv DEF NewWindow
  <1>3. ASSUME NEW i \in 1..MaxWindows, KillWindow(s, i) \/ WindowExits(s, i)
        PROVE  FoldersInv'
    <2>1. RemoveAt(strip[s], i) \in Strips
      BY <1>0, <1>3, WindowOut DEF KillWindow, WindowExits
    <2> QED
      BY <1>3, <2>1, ShrinkInv DEF KillWindow, WindowExits
  <1>4. ASSUME NEW i \in 1..MaxWindows, SplitPane(s, i)
        PROVE  FoldersInv'
    <2>1. i \in DOMAIN strip[s] /\ strip[s][i] \in 1..MaxWindows /\ strip[s][i] < MaxWindows
      BY <1>0, <1>4 DEF SplitPane
    <2>2. strip[s][i] + 1 \in 1..MaxWindows
      BY <2>1 DEF FoldersAssumption
    <2>3. [strip[s] EXCEPT ![i] = strip[s][i] + 1] \in Strips
          /\ [strip[s] EXCEPT ![i] = strip[s][i] + 1] # <<>>
      BY <1>0, <2>1, <2>2
    <2> QED
      BY <1>4, <2>3, ArrangeInv DEF SplitPane
  <1>5. ASSUME NEW i \in 1..MaxWindows, KillPane(s, i)
        PROVE  FoldersInv'
    <2>1. i \in DOMAIN strip[s] /\ strip[s][i] \in 1..MaxWindows /\ strip[s][i] > 1
      BY <1>0, <1>5 DEF KillPane
    <2>2. strip[s][i] - 1 \in 1..MaxWindows
      BY <2>1 DEF FoldersAssumption
    <2>3. [strip[s] EXCEPT ![i] = strip[s][i] - 1] \in Strips
          /\ [strip[s] EXCEPT ![i] = strip[s][i] - 1] # <<>>
      BY <1>0, <2>1, <2>2
    <2> QED
      BY <1>5, <2>3, ArrangeInv DEF KillPane
  <1>6. ASSUME NEW i \in 1..MaxWindows, NEW to \in 1..MaxWindows, MoveWindow(s, i, to)
        PROVE  FoldersInv'
    <2>1. i \in DOMAIN strip[s] /\ to \in DOMAIN strip[s] /\ strip[s][i] \in 1..MaxWindows
      BY <1>0, <1>6 DEF MoveWindow
    <2>2. RemoveAt(strip[s], i) \in Strips /\ Len(RemoveAt(strip[s], i)) = Len(strip[s]) - 1
      BY <1>0, <2>1, WindowOut
    <2>3. to \in 1..(Len(RemoveAt(strip[s], i)) + 1)
      BY <1>0, <2>1, <2>2
    <2>4. InsertAt(RemoveAt(strip[s], i), to, strip[s][i]) \in Strips
          /\ InsertAt(RemoveAt(strip[s], i), to, strip[s][i]) # <<>>
      BY <2>1, <2>2, <2>3, WindowIn
    <2> QED
      BY <1>6, <2>4, ArrangeInv DEF MoveWindow
  <1>7. ASSUME NEW i \in 1..MaxWindows, NEW d \in Shells, MoveWindowToSession(s, i, d)
        PROVE  FoldersInv'
    <2>1. i \in DOMAIN strip[s] /\ strip[s][i] \in 1..MaxWindows /\ s # d
          /\ s \in inTmux /\ d \in inTmux
      BY <1>0, <1>7 DEF MoveWindowToSession
    <2>2. RemoveAt(strip[s], i) \in Strips /\ Len(RemoveAt(strip[s], i)) = Len(strip[s]) - 1
      BY <1>0, <2>1, WindowOut
    <2>3. Append(strip[d], strip[s][i]) \in Strips /\ Append(strip[d], strip[s][i]) # <<>>
      BY <1>0, <2>1, WindowAdded
    <2>4. RemoveAt(strip[s], i) = <<>> <=> Len(strip[s]) = 1
      BY <1>0, <2>2, NoneLeft
    <2>5. /\ strip' = [strip EXCEPT ![s] = RemoveAt(strip[s], i), ![d] = Append(strip[d], strip[s][i])]
          /\ inTmux' = IF Len(strip[s]) = 1 THEN inTmux \ {s} ELSE inTmux
      BY <1>7, <2>1 DEF MoveWindowToSession
    <2>6. /\ strip' \in [Shells -> Strips]
          /\ strip'[s] = RemoveAt(strip[s], i) /\ strip'[d] = Append(strip[d], strip[s][i])
          /\ \A x \in Shells \ {s, d} : strip'[x] = strip[x]
      BY <1>0, <2>1, <2>2, <2>3, <2>5 DEF StripsOK
    <2>7. \A x \in Shells : x \in inTmux' <=> strip'[x] # <<>>
      BY <1>0, <2>1, <2>3, <2>4, <2>5, <2>6 DEF StripsOK
    <2>8. StripsOK'
      BY <2>6, <2>7 DEF StripsOK
    <2>9. inTmux' \subseteq inTmux
      BY <2>5
    <2> QED
      BY <1>7, <2>8, <2>9, WindowsOnly DEF MoveWindowToSession
  <1> QED
    BY <1>1, <1>2, <1>3, <1>4, <1>5, <1>6, <1>7

LEMMA FilingStepInv ==
  ASSUME FoldersInv, FoldersAssumption, FilingStep
  PROVE  FoldersInv'
  <1>1. ASSUME NEW s \in Shells, NEW f \in Places, OpenIn(s, f) \/ handleTerminalMeta(s, f)
        PROVE  FoldersInv'
    BY <1>1, OpenInInv, MetaInv
  <1>2. ASSUME NEW s \in Shells, TmuxStarts(s) \/ PickUp(s)
        PROVE  FoldersInv'
    BY <1>2, TmuxStartsInv, PickUpInv
  <1>3. ASSUME NEW o \in Shells \X Places, rememberOptions(o)
        PROVE  FoldersInv'
    BY <1>3, RememberInv
  <1>4. ASSUME NEW gone \in SUBSET Shells, Forget(gone)
        PROVE  FoldersInv'
    BY <1>4, ForgetInv
  <1>5. ASSUME NEW fs \in SUBSET Folders, handleTerminalFolderOrder(fs)
        PROVE  FoldersInv'
    BY <1>5, OrderInv
  <1>6. ASSUME NEW c \in Clients, NEW f \in Folders,
               handleTerminalFolderCreate(c, f) \/ handleTerminalFolderDelete(c, f)
        PROVE  FoldersInv'
    <2>1. f \in Places /\ Unfiled \in Places
      BY DEF Places
    <2> QED
      BY <1>6, <2>1, BeginInv DEF handleTerminalFolderCreate, handleTerminalFolderDelete
  <1>7. ASSUME NEW c \in Clients, NEW f \in Folders, NEW g \in Folders,
               handleTerminalFolderUpdate(c, f, g)
        PROVE  FoldersInv'
    <2>1. f \in Places /\ g \in Places
      BY DEF Places
    <2> QED
      BY <1>7, <2>1, BeginInv DEF handleTerminalFolderUpdate
  <1>8. ASSUME NEW c \in Clients,
               saveTerminalFolders(c) \/ ListFiled(c) \/ refileSessions(c) \/ Respond(c)
        PROVE  FoldersInv'
    BY <1>8, SaveInv, ListFiledInv, RefileInv, RespondInv
  <1> QED
    BY <1>1, <1>2, <1>3, <1>4, <1>5, <1>6, <1>7, <1>8 DEF FilingStep

LEMMA FoldersStutter ==
  ASSUME FoldersInv, UNCHANGED folderVars
  PROVE  FoldersInv'
  <1>1. StripsOK' /\ inTmux' \subseteq inTmux
    BY FoldersInvParts, SameStrips DEF folderVars
  <1> QED
    BY <1>1, WindowsOnly DEF folderVars

\* Folders: every renamed or deleted folder is emptied when the request answers,
\* for any number of sessions, folders, browsers and requests, with sessions opened,
\* detached and picked up and tmux late in between (refileSessions, SetMeta).
THEOREM FoldersEmptied == FoldersSpec => FoldersKept
  <1>1. FoldersInit => FoldersInv
    <2> SUFFICES ASSUME FoldersInit
                 PROVE  FoldersInv
      OBVIOUS
    <2>1. Unfiled \in Places /\ 0 \in 0..MaxFolderOps
      BY FoldersAssumption DEF Places, FoldersAssumption
    <2>2. PlacesOK
      BY <2>1 DEF PlacesOK, FoldersInit
    <2>3. NoReq \in [step : {"none", "read", "saved", "moving", "over"}, from : Places,
                     to : Places, read : SUBSET Folders, todo : SUBSET Shells]
      BY <2>1 DEF NoReq
    <2>4. CallsOK
      BY <2>3 DEF CallsOK, FoldersInit
    <2>5. StripsOK
      BY DEF StripsOK, FoldersInit
    <2>6. FolderEmpties
      BY DEF FolderEmpties, FoldersInit, NoReq
    <2> QED
      BY <2>2, <2>4, <2>5, <2>6, FoldersTypes DEF FoldersInv
  <1>2. FoldersInv /\ [FoldersNext]_folderVars => FoldersInv'
    BY WindowStepInv, FilingStepInv, FoldersStutter, FoldersAssumption DEF FoldersNext
  <1>3. FoldersInv /\ [FoldersNext]_folderVars =>
          [\A c \in Clients :
             (Respond(c) /\ req[c].step = "moving" /\ req[c].to # req[c].from) =>
               FiledIn(req[c].from) \subseteq refiled[c]]_folderVars
    BY DEF FoldersInv, FolderEmpties, Respond
  <1>4. FoldersInv <=> FoldersTypeOK /\ FolderEmpties
    BY DEF FoldersInv
  <1> QED
    BY <1>1, <1>2, <1>3, <1>4, PTL DEF FoldersSpec, FoldersKept, FolderMovedWhole
=============================================================================
