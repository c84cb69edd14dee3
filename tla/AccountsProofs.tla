---------------------------- MODULE AccountsProofs ----------------------------
(***************************************************************************)
(* What holds of the accounts of a tenant although almost no command locks *)
(* them, for any number of users, sessions, requests and roles: the rows   *)
(* stay of their types, a secret is spent once, and authority is handed    *)
(* down from the owner.                                                    *)
(***************************************************************************)
EXTENDS Accounts, SequenceTheorems, TLAPS

AccountTypes ==
  /\ account \in [User -> Account]
  /\ \A u, v \in User : account[u].google = account[v].google => u = v \/ account[u].google = None

SessionTypes ==
  /\ session \in [Session -> SessionRow]
  /\ \A s \in Session : session[s].live => session[s].user \in User

OthersTypes ==
  /\ failures \in [User -> 0..LockFailures]
  /\ attempts \in [User -> Attempts]
  /\ tenant \in {"active", "inactive"}

RequestTypes == request \in [Request -> Requests]

\* A secret that is not a refresh token is good once, and while it is not used not at all.
GoodOnce(row) ==
  /\ row \in Secret /\ row.kind # "refresh"
  /\ row.taken <= 1 /\ (row.taken = 1 => row.state = "used")
  /\ row.kind \in Recovery => row.of \in User

\* Of the refresh tokens of a session exactly the one it knows was not exchanged.
GoodToken(i) ==
  LET row == secret[i] IN
  /\ row \in Secret /\ row.taken <= 1
  /\ row.of \in Session /\ session[row.of].user # None
  /\ row.taken = 0 <=> i = session[row.of].token

SecretsHold ==
  /\ secret \in Seq(Secret) /\ Len(secret) <= MaxSecrets
  /\ \A i \in DOMAIN secret : IF secret[i].kind = "refresh" THEN GoodToken(i) ELSE GoodOnce(secret[i])

OneAssignment ==
  \A i, j \in DOMAIN assignment :
    LET a == assignment[i] b == assignment[j] IN
    a.live /\ b.live /\ a.user = b.user /\ a.role = b.role /\ a.scope = b.scope => i = j

\* Made by v1, which gives a cashier the role of one in its branch.
MadeByV1(a) == a.role = Cashier /\ a.scope \in Branch

\* One of the assignments grants the permission to the user at that scope.
GrantedTo(u, p, scope) ==
  \E j \in DOMAIN assignment :
    assignment[j].user = u /\ assignment[j].scope = scope /\ p \in role[assignment[j].role]

\* A principal was built from assignments that were made.
PrincipalsHold ==
  \A r \in Request : Command(r) =>
    \A g \in request[r].grants : GrantedTo(request[r].actor, g.permission, g.scope)

\* A role once handed out is not empty.
AuthorityHolds ==
  /\ assignment \in Seq(Assignment) /\ Len(assignment) <= MaxAssignments
  /\ role \in [Role -> RolePermissions]
  /\ \A i \in DOMAIN assignment :
       assignment[i].by # None /\ ~MadeByV1(assignment[i]) => role[assignment[i].role] # {}
  /\ PrincipalsHold

AInv ==
  /\ AccountTypes /\ SessionTypes /\ OthersTypes /\ RequestTypes
  /\ SecretsHold /\ OneAssignment /\ AuthorityHolds /\ AuthorityIsHandedDown

-----------------------------------------------------------------------------
LEMMA AInitially == Init => AInv
<1> SUFFICES ASSUME Init PROVE AInv
  OBVIOUS
<1>1. PICK owner \in User :
        /\ account = [u \in User |->
             IF u = owner
             THEN [Absent EXCEPT !.status = "active", !.activated = TRUE, !.password = TRUE, !.v1 = "admin"]
             ELSE Absent]
        /\ assignment = <<[user |-> owner, role |-> Owner, scope |-> "tenant", by |-> None, live |-> TRUE]>>
  BY DEF Init
<1>2. AccountTypes
  <2> DEFINE row == [Absent EXCEPT !.status = "active", !.activated = TRUE, !.password = TRUE, !.v1 = "admin"]
  <2>1. Absent \in Account /\ Absent.google = None
    BY DEF Absent, Account, Status, V1Role
  <2>2. row \in Account /\ row.google = None
    BY <2>1 DEF Account, Status, V1Role
  <2> HIDE DEF row
  <2>3. account = [u \in User |-> IF u = owner THEN row ELSE Absent]
    BY <1>1 DEF row
  <2> QED BY <2>1, <2>2, <2>3 DEF AccountTypes
<1>3. SessionTypes
  BY AccountsAssumption DEF Init, SessionTypes, SessionRow
<1>4. OthersTypes /\ RequestTypes
  BY AccountsAssumption DEF Init, OthersTypes, RequestTypes, Attempts, Requests
<1>5. SecretsHold
  BY AccountsAssumption DEF Init, SecretsHold
<1>6. /\ assignment \in Seq(Assignment) /\ Len(assignment) <= MaxAssignments
      /\ DOMAIN assignment = {1} /\ assignment[1].by = None
  <2> DEFINE row == [user |-> owner, role |-> Owner, scope |-> "tenant", by |-> None, live |-> TRUE]
  <2>1. row \in Assignment /\ row.by = None
    BY AccountsAssumption DEF Assignment, Scope
  <2> HIDE DEF row
  <2>2. assignment = <<row>>
    BY <1>1 DEF row
  <2> QED BY <2>1, <2>2, AccountsAssumption
<1>7. role \in [Role -> RolePermissions]
  BY DEF Init, RolePermissions
<1>8. \A r \in Request : ~Command(r)
  BY DEF Init, Command, NoRequest
<1>9. OneAssignment /\ AuthorityHolds /\ AuthorityIsHandedDown
  BY <1>6, <1>7, <1>8 DEF OneAssignment, AuthorityHolds, AuthorityIsHandedDown, PrincipalsHold
<1> QED BY <1>2, <1>3, <1>4, <1>5, <1>9 DEF AInv

-----------------------------------------------------------------------------
LEMMA IdentityStays ==
  ASSUME UNCHANGED identity
  PROVE  UNCHANGED <<account, access, throttle, authority>>
BY DEF identity

LEMMA EverythingStays ==
  ASSUME UNCHANGED accountVars
  PROVE  UNCHANGED <<identity, request, tenant>>
BY DEF accountVars

LEMMA GroupsStay ==
  /\ UNCHANGED access => UNCHANGED <<session, secret>>
  /\ UNCHANGED throttle => UNCHANGED <<failures, attempts>>
  /\ UNCHANGED authority => UNCHANGED <<role, assignment>>
BY DEF access, throttle, authority

-----------------------------------------------------------------------------
(* What a request loaded.                                                  *)

LEMMA VisitLoaded ==
  ASSUME RequestTypes, NEW r \in Request, Visit(r)
  PROVE  request[r].user \in User /\ request[r].row \in Account /\ request[r].known \in Nat
<1>1. request[r] \in Requests /\ request[r].kind = "visit"
  BY DEF RequestTypes, Visit
<1>2. request[r] \in [kind : {"visit"}, user : User, row : Account, known : 0..MaxSecrets]
  BY <1>1 DEF Requests, NoRequest
<1> QED BY <1>2, AccountsAssumption

LEMMA CommandLoaded ==
  ASSUME RequestTypes, NEW r \in Request, Command(r)
  PROVE  /\ request[r].user \in User /\ request[r].row \in Account /\ request[r].known \in Nat
         /\ request[r].actor \in User /\ request[r].session \in Session
         /\ request[r].grants \in SUBSET Grant
<1>1. request[r] \in Requests /\ request[r].kind = "command"
  BY DEF RequestTypes, Command
<1>2. request[r] \in [kind : {"command"}, actor : User, session : Session, grants : SUBSET Grant,
                      v1 : V1Role \cup {None}, user : User, row : Account, known : 0..MaxSecrets]
  BY <1>1 DEF Requests, NoRequest
<1> QED BY <1>2, AccountsAssumption

LEMMA RequestsStay ==
  ASSUME RequestTypes, NEW r \in Request, Done(r)
  PROVE  RequestTypes' /\ \A q \in Request : Command(q)' => Command(q) /\ request'[q] = request[q]
<1>1. request' = [request EXCEPT ![r] = NoRequest] /\ NoRequest \in Requests /\ NoRequest.kind = "none"
  BY DEF Done, Requests, NoRequest
<1> QED BY <1>1 DEF RequestTypes, Command

LEMMA RequestsUnchanged ==
  ASSUME RequestTypes, UNCHANGED request
  PROVE  RequestTypes' /\ \A q \in Request : Command(q)' => Command(q) /\ request'[q] = request[q]
BY DEF RequestTypes, Command

LEMMA GrantsAreGrants == ASSUME NEW u PROVE Grants(u) \in SUBSET Grant
BY DEF Grants

LEMMA RequestsByArrival ==
  ASSUME AInv, NEW r \in Request, NEW u \in User,
         Arrive(r, u) \/ \E s \in Session : Authenticate(r, s, u)
  PROVE  RequestTypes'
<1>1. account[u] \in Account /\ Len(secret) \in 0..MaxSecrets
  BY AccountsAssumption DEF AInv, AccountTypes, SecretsHold
<1>2. CASE Arrive(r, u)
  <2> DEFINE new == [kind |-> "visit", user |-> u, row |-> account[u], known |-> Len(secret)]
  <2>1. new \in Requests
    BY <1>1 DEF Requests
  <2> HIDE DEF new
  <2>2. request' = [request EXCEPT ![r] = new]
    BY <1>2 DEF Arrive, new
  <2> QED BY <2>1, <2>2 DEF AInv, RequestTypes
<1>3. ASSUME NEW s \in Session, Authenticate(r, s, u) PROVE RequestTypes'
  <2> DEFINE a == session[s].user
             new == [kind |-> "command", actor |-> a, session |-> s, grants |-> Grants(a),
                     v1 |-> account[a].v1, user |-> u, row |-> account[u], known |-> Len(secret)]
  <2>1. a \in User
    BY <1>3 DEF Authenticate, AInv, SessionTypes
  <2>2. Grants(a) \in SUBSET Grant /\ account[a].v1 \in V1Role \cup {None}
    BY <2>1, GrantsAreGrants DEF AInv, AccountTypes, Account
  <2>3. request' = [request EXCEPT ![r] = new]
    BY <1>3 DEF Authenticate
  <2> HIDE DEF a
  <2>4. new \in Requests
    BY <1>1, <2>1, <2>2 DEF Requests
  <2> HIDE DEF new
  <2> QED BY <2>3, <2>4 DEF AInv, RequestTypes
<1> QED BY <1>2, <1>3

LEMMA RequestsPreserved ==
  ASSUME AInv, [Next]_accountVars
  PROVE  RequestTypes'
<1>1. RequestTypes
  BY DEF AInv
<1>2. UNCHANGED request => RequestTypes'
  BY <1>1, RequestsUnchanged
<1>3. \A r \in Request : Done(r) => RequestTypes'
  BY <1>1, RequestsStay
<1>4. CASE UNCHANGED accountVars
  BY <1>2, <1>4 DEF accountVars
<1>5. ASSUME NEW r \in Request, Visits(r) PROVE RequestTypes'
  BY <1>3, <1>5 DEF Visits, LoginFails, LoginDenied, RequestRecovery, RequestCode, CodeRejected, Login,
                    VerifyCode, GoogleDenied, LoginGoogle
<1>6. ASSUME NEW r \in Request, Commands(r) PROVE RequestTypes'
  BY <1>3, <1>6 DEF Commands, Logout, ChangePassword, ChallengeToLink, UnlinkGoogle, LinkGoogle,
                    CreateUser, DisableUser, EnableUser, RevokeUserSessions, CreateRole, AssignRole,
                    RemoveRole, CreateUserV1, UpdateUser
<1>7. ASSUME NEW i \in DOMAIN secret,
             CompleteRecovery(i) \/ \E s \in Session : Refresh(s, i) \/ RefreshReused(s, i)
      PROVE  RequestTypes'
  BY <1>2, <1>7 DEF CompleteRecovery, Refresh, RefreshReused
<1>8. CASE CreateChallenge \/ Platform \/ Time
  BY <1>2, <1>8 DEF CreateChallenge, Platform, Time, SuspendCompany, ReactivateCompany,
                    RevokeCompanySessions, ResetAdminPassword, LockRunsOut, SessionRunsOut, SecretRunsOut,
                    ThrottleRunsOut
<1>9. ASSUME NEW r \in Request, Abandon(r) PROVE RequestTypes'
  BY <1>3, <1>9 DEF Abandon
<1> QED BY <1>4, <1>5, <1>6, <1>7, <1>8, <1>9, RequestsByArrival DEF Next

-----------------------------------------------------------------------------
(* The rows of the users.                                                  *)

\* The row of one user is rewritten and links no new Google account.
LEMMA AccountRewritten ==
  ASSUME AccountTypes, NEW u \in User, NEW row \in Account, account' = [account EXCEPT ![u] = row],
         row.google \in {account[u].google, None}
  PROVE  AccountTypes'
<1>1. account'[u] = row /\ \A v \in User \ {u} : account'[v] = account[v]
  BY DEF AccountTypes
<1>2. \A v \in User : account'[v].google \in {account[v].google, None}
  BY <1>1
<1>3. account' \in [User -> Account]
  BY DEF AccountTypes
<1> QED BY <1>2, <1>3 DEF AccountTypes

LEMMA AccountByUnlock ==
  ASSUME AccountTypes, NEW u \in User, NEW row, Unlock(u, row)
  PROVE  AccountTypes'
<1>1. CASE LockExpired(row)
  <2> DEFINE new == [account[u] EXCEPT !.status = "active", !.lockOver = FALSE]
  <2>1. account[u] \in Account
    BY DEF AccountTypes
  <2>2. new \in Account /\ new.google = account[u].google
    BY <2>1 DEF Account, Status
  <2>3. account' = [account EXCEPT ![u] = new]
    BY <1>1 DEF Unlock
  <2> HIDE DEF new
  <2> QED BY <2>2, <2>3, AccountRewritten
<1>2. CASE ~LockExpired(row)
  BY <1>2 DEF Unlock, AccountTypes
<1> QED BY <1>1, <1>2

LEMMA AccountsByVisits ==
  ASSUME AInv, NEW r \in Request, Visits(r)
  PROVE  AccountTypes'
<1>1. AccountTypes /\ RequestTypes
  BY DEF AInv
<1>2. Visit(r)
  BY DEF Visits, LoginFails, LoginDenied, RequestRecovery, RequestCode, CodeRejected, Login,
         VerifyCode, GoogleDenied, LoginGoogle
<1>3. request[r].user \in User
  BY <1>1, <1>2, VisitLoaded
<1>4. UNCHANGED account => AccountTypes'
  BY <1>1 DEF AccountTypes
<1>5. CASE LoginFails(r)
  <2> DEFINE u == request[r].user
             new == [account[u] EXCEPT !.status = "locked", !.lockOver = FALSE]
  <2>1. account[u] \in Account
    BY <1>1, <1>3 DEF AccountTypes
  <2>2. new \in Account /\ new.google = account[u].google
    BY <2>1 DEF Account, Status
  <2>3. account' = [account EXCEPT ![u] = new] \/ UNCHANGED account
    BY <1>5 DEF LoginFails
  <2> HIDE DEF new
  <2> QED BY <1>1, <1>3, <1>4, <2>2, <2>3, AccountRewritten
<1>6. (\E row : Unlock(request[r].user, row)) => AccountTypes'
  BY <1>1, <1>3, AccountByUnlock
<1>7. CASE LoginDenied(r) \/ (\E s \in Session : Login(r, s))
           \/ (\E i \in DOMAIN secret, s \in Session : LoginGoogle(r, i, s))
  BY <1>6, <1>7 DEF LoginDenied, Login, LoginGoogle
<1> QED BY <1>4, <1>5, <1>7
        DEF Visits, RequestRecovery, RequestCode, CodeRejected, VerifyCode, GoogleDenied, access

LEMMA AccountsByAdministration ==
  ASSUME AInv, NEW r \in Request, CreateUser(r) \/ DisableUser(r) \/ EnableUser(r) \/ UnlinkGoogle(r)
  PROVE  AccountTypes'
<1>1. AccountTypes /\ RequestTypes
  BY DEF AInv
<1>2. Command(r)
  BY DEF CreateUser, DisableUser, EnableUser, UnlinkGoogle, Allows, OwnCommand
<1>3. request[r].user \in User /\ request[r].actor \in User
  BY <1>1, <1>2, CommandLoaded
<1> DEFINE u == request[r].user
<1>4. account[u] \in Account /\ account[request[r].actor] \in Account
  BY <1>1, <1>3 DEF AccountTypes
<1>5. CASE CreateUser(r)
  <2> DEFINE new == [Absent EXCEPT !.status = "pending"]
  <2>1. new \in Account /\ new.google = None
    BY DEF Absent, Account, Status, V1Role
  <2>2. account' = [account EXCEPT ![u] = new]
    BY <1>5 DEF CreateUser
  <2> HIDE DEF new
  <2> QED BY <1>1, <1>3, <2>1, <2>2, AccountRewritten
<1>6. CASE DisableUser(r)
  <2> DEFINE new == [account[u] EXCEPT !.status = "disabled"]
  <2>1. new \in Account /\ new.google = account[u].google
    BY <1>4 DEF Account, Status
  <2>2. account' = [account EXCEPT ![u] = new]
    BY <1>6 DEF DisableUser
  <2> HIDE DEF new
  <2> QED BY <1>1, <1>3, <2>1, <2>2, AccountRewritten
<1>7. CASE EnableUser(r)
  <2> DEFINE status == IF request[r].row.activated THEN "active" ELSE "pending"
             new == [account[u] EXCEPT !.status = status, !.lockOver = FALSE]
  <2>1. status \in Status
    BY DEF Status
  <2>2. account' = [account EXCEPT ![u] = new]
    BY <1>7 DEF EnableUser
  <2> HIDE DEF status
  <2>3. new \in Account /\ new.google = account[u].google
    BY <1>4, <2>1 DEF Account
  <2> HIDE DEF new
  <2> QED BY <1>1, <1>3, <2>2, <2>3, AccountRewritten
<1>8. CASE UnlinkGoogle(r)
  <2> DEFINE v == request[r].actor
             new == [account[v] EXCEPT !.google = None]
  <2>1. new \in Account /\ new.google = None
    BY <1>4 DEF Account
  <2>2. account' = [account EXCEPT ![v] = new]
    BY <1>8 DEF UnlinkGoogle
  <2> HIDE DEF new
  <2> QED BY <1>1, <1>3, <2>1, <2>2, AccountRewritten
<1> QED BY <1>5, <1>6, <1>7, <1>8

\* A subject that nobody has linked is linked to a user who has none.
LEMMA AccountsByLink ==
  ASSUME AInv, NEW r \in Request, NEW i, NEW subject \in Subject, LinkGoogle(r, i, subject)
  PROVE  AccountTypes'
<1>1. AccountTypes /\ RequestTypes
  BY DEF AInv
<1>2. request[r].actor \in User
  BY <1>1, CommandLoaded DEF LinkGoogle, OwnCommand
<1> DEFINE u == request[r].actor
           new == [account[u] EXCEPT !.google = subject]
<1>3. CASE IndexAdmitsLink(u, subject)
  <2>1. account' = [account EXCEPT ![u] = new] /\ \A v \in User : account[v].google # subject
    BY <1>3 DEF LinkGoogle, IndexAdmitsLink
  <2>2. new \in Account /\ new.google = subject
    BY <1>1, <1>2 DEF AccountTypes, Account
  <2> HIDE DEF u, new
  <2>3. account'[u] = new /\ account' \in [User -> Account] /\ \A v \in User \ {u} : account'[v] = account[v]
    BY <1>1, <1>2, <2>1, <2>2 DEF AccountTypes, u
  <2> QED BY <1>1, <2>1, <2>2, <2>3 DEF AccountTypes
<1>4. CASE ~IndexAdmitsLink(u, subject)
  BY <1>1, <1>4 DEF LinkGoogle, AccountTypes
<1> QED BY <1>3, <1>4

LEMMA AccountsByV1 ==
  ASSUME AInv, NEW r \in Request, NEW v1 \in V1Role, NEW b \in Branch,
         CreateUserV1(r, v1, b) \/ \E active, password \in BOOLEAN : UpdateUser(r, v1, b, active, password)
  PROVE  AccountTypes'
<1>1. AccountTypes /\ RequestTypes
  BY DEF AInv
<1>2. request[r].user \in User /\ request[r].row \in Account
  BY <1>1, CommandLoaded DEF CreateUserV1, UpdateUser, AdminV1
<1> DEFINE u == request[r].user
           row == request[r].row
<1>3. account[u] \in Account
  BY <1>1, <1>2 DEF AccountTypes
<1>4. CASE CreateUserV1(r, v1, b)
  <2> DEFINE new == [Absent EXCEPT !.status = "active", !.password = TRUE, !.v1 = v1]
  <2>1. Absent \in Account /\ Absent.google = None
    BY DEF Absent, Account, Status, V1Role
  <2>2. new \in Account /\ new.google = None
    BY <2>1 DEF Account, Status
  <2>3. account' = [account EXCEPT ![u] = new]
    BY <1>4 DEF CreateUserV1
  <2> HIDE DEF new
  <2> QED BY <1>1, <1>2, <2>2, <2>3, AccountRewritten
<1>5. ASSUME NEW active \in BOOLEAN, NEW password \in BOOLEAN, UpdateUser(r, v1, b, active, password)
      PROVE  AccountTypes'
  <2> DEFINE set == SetActive(account[u], row, active)
             new == [set EXCEPT !.v1 = v1, !.password = password \/ set.password]
  <2>1. set \in Account /\ set.google = account[u].google
    <3>1. CASE active /\ row.status # "active"
      BY <1>3, <3>1 DEF SetActive, Account, Status
    <3>2. CASE ~active /\ row.status # "disabled"
      BY <1>3, <3>2 DEF SetActive, Account, Status
    <3>3. CASE ~(active /\ row.status # "active") /\ ~(~active /\ row.status # "disabled")
      BY <1>3, <3>3 DEF SetActive
    <3> QED BY <3>1, <3>2, <3>3
  <2>2. account' = [account EXCEPT ![u] = new]
    BY <1>5 DEF UpdateUser
  <2> HIDE DEF set
  <2>3. (password \/ set.password) \in BOOLEAN
    OBVIOUS
  <2>4. new \in Account /\ new.google = set.google
    BY <2>1, <2>3 DEF Account
  <2> HIDE DEF new
  <2> QED BY <1>1, <1>2, <2>1, <2>2, <2>4, AccountRewritten
<1> QED BY <1>4, <1>5

LEMMA AccountsByCommands ==
  ASSUME AInv, NEW r \in Request, Commands(r)
  PROVE  AccountTypes'
<1>1. UNCHANGED account => AccountTypes'
  BY DEF AInv, AccountTypes
<1> QED BY <1>1, AccountsByAdministration, AccountsByLink, AccountsByV1
        DEF Commands, Logout, ChangePassword, ChallengeToLink, RevokeUserSessions, CreateRole, AssignRole,
            RemoveRole

\* A recovery is of a user.
LEMMA AccountsByRecovery ==
  ASSUME AInv, NEW i \in DOMAIN secret, CompleteRecovery(i)
  PROVE  AccountTypes'
<1> DEFINE u == secret[i].of
           old == account[u]
           new == IF old.status \in {"pending", "locked"}
                  THEN [old EXCEPT !.status = "active", !.activated = TRUE, !.lockOver = FALSE,
                                   !.password = TRUE]
                  ELSE [old EXCEPT !.password = TRUE]
<1>1. u \in User
  BY DEF AInv, SecretsHold, GoodOnce, CompleteRecovery, Recovery
<1>2. old \in Account
  BY <1>1 DEF AInv, AccountTypes
<1>3. UNCHANGED account \/ account' = [account EXCEPT ![u] = new]
  BY DEF CompleteRecovery
<1> HIDE DEF old
<1>4. new \in Account /\ new.google = old.google
  BY <1>2 DEF Account, Status
<1> HIDE DEF new
<1>5. CASE UNCHANGED account
  BY <1>5 DEF AInv, AccountTypes
<1>6. CASE account' = [account EXCEPT ![u] = new]
  BY <1>1, <1>4, <1>6, AccountRewritten DEF AInv, old
<1> QED BY <1>3, <1>5, <1>6

LEMMA AccountsByOthers ==
  ASSUME AInv, CreateChallenge \/ Platform \/ Time
  PROVE  AccountTypes'
<1>1. UNCHANGED account => AccountTypes'
  BY DEF AInv, AccountTypes
<1>2. ASSUME NEW u \in User, ResetAdminPassword(u) PROVE AccountTypes'
  <2> DEFINE status == IF account[u].status = "locked" THEN "active" ELSE account[u].status
             new == [account[u] EXCEPT !.password = TRUE, !.status = status, !.lockOver = FALSE]
  <2>1. account[u] \in Account
    BY DEF AInv, AccountTypes
  <2>2. status \in Status
    BY <2>1 DEF Account, Status
  <2>3. account' = [account EXCEPT ![u] = new]
    BY <1>2 DEF ResetAdminPassword
  <2> HIDE DEF status
  <2>4. new \in Account /\ new.google = account[u].google
    BY <2>1, <2>2 DEF Account
  <2> HIDE DEF new
  <2> QED BY <2>3, <2>4, AccountRewritten DEF AInv
<1>3. ASSUME NEW u \in User, LockRunsOut(u) PROVE AccountTypes'
  <2> DEFINE new == [account[u] EXCEPT !.lockOver = TRUE]
  <2>1. account[u] \in Account
    BY DEF AInv, AccountTypes
  <2>2. account' = [account EXCEPT ![u] = new]
    BY <1>3 DEF LockRunsOut
  <2>3. new \in Account /\ new.google = account[u].google
    BY <2>1 DEF Account
  <2> HIDE DEF new
  <2> QED BY <2>2, <2>3, AccountRewritten DEF AInv
<1> QED BY <1>1, <1>2, <1>3
        DEF CreateChallenge, Platform, Time, SuspendCompany, ReactivateCompany, RevokeCompanySessions,
            SessionRunsOut, SecretRunsOut, ThrottleRunsOut, identity, access

LEMMA AccountsPreserved ==
  ASSUME AInv, [Next]_accountVars
  PROVE  AccountTypes'
<1>1. UNCHANGED account => AccountTypes'
  BY DEF AInv, AccountTypes
<1>2. ASSUME NEW i \in DOMAIN secret, \E s \in Session : Refresh(s, i) \/ RefreshReused(s, i)
      PROVE  AccountTypes'
  BY <1>1, <1>2 DEF Refresh, RefreshReused
<1>3. CASE UNCHANGED accountVars
  BY <1>1, <1>3 DEF accountVars, identity
<1>4. ASSUME NEW r \in Request,
             Abandon(r) \/ \E u \in User : Arrive(r, u) \/ \E s \in Session : Authenticate(r, s, u)
      PROVE  AccountTypes'
  BY <1>1, <1>4 DEF Abandon, Arrive, Authenticate, identity
<1> QED BY <1>2, <1>3, <1>4, AccountsByVisits, AccountsByCommands, AccountsByRecovery, AccountsByOthers
        DEF Next

-----------------------------------------------------------------------------
(* Sessions and their tokens.                                              *)

\* No session was opened and none got another refresh token.
SameTokens ==
  \A s \in Session : session'[s].user = session[s].user /\ session'[s].token = session[s].token

LEMMA SessionsStay ==
  ASSUME SessionTypes, UNCHANGED session
  PROVE  SessionTypes' /\ SameTokens
BY DEF SessionTypes, SameTokens

LEMMA SessionsRevoked ==
  ASSUME SessionTypes, NEW S, RevokeSessions(S)
  PROVE  SessionTypes' /\ SameTokens
<1>1. \A s \in Session : LET new == [session[s] EXCEPT !.live = FALSE] IN
        /\ new \in SessionRow /\ new.user = session[s].user /\ new.token = session[s].token /\ ~new.live
  BY DEF SessionTypes, SessionRow
<1>2. session' = [s \in Session |-> IF s \in S THEN [session[s] EXCEPT !.live = FALSE] ELSE session[s]]
  BY DEF RevokeSessions, Revoked
<1> QED BY <1>1, <1>2 DEF SessionTypes, SameTokens

LEMMA SessionRewritten ==
  ASSUME SessionTypes, NEW s \in Session, NEW new \in SessionRow, session' = [session EXCEPT ![s] = new],
         new.live => session[s].live, new.user = session[s].user, new.token = session[s].token
  PROVE  SessionTypes' /\ SameTokens
BY DEF SessionTypes, SameTokens

LEMMA SessionRevoked ==
  ASSUME SessionTypes, NEW s \in Session, session' = [session EXCEPT ![s] = Revoked(@)]
  PROVE  SessionTypes' /\ SameTokens
<1> DEFINE new == [session[s] EXCEPT !.live = FALSE]
<1>1. session' = [session EXCEPT ![s] = new]
  BY DEF Revoked
<1>2. new \in SessionRow /\ ~new.live /\ new.user = session[s].user /\ new.token = session[s].token
  BY DEF SessionTypes, SessionRow
<1> HIDE DEF new
<1> QED BY <1>1, <1>2, SessionRewritten

\* Two steps open a session or give it its next token.
LEMMA SessionIssued ==
  ASSUME SessionTypes, NEW s \in Session, NEW u \in User, NEW secrets \in Seq(Secret),
         IssueSession(s, u, secrets)
  PROVE  /\ SessionTypes'
         /\ session'[s].user = u /\ session'[s].token = Len(secrets) + 1
         /\ \A o \in Session \ {s} : session'[o] = session[o]
<1> DEFINE new == [user |-> u, live |-> TRUE, over |-> FALSE, token |-> Len(secrets) + 1]
<1>1. session' = [session EXCEPT ![s] = new] /\ Len(secrets) < MaxSecrets
  BY DEF IssueSession
<1>2. Len(secrets) \in Nat
  OBVIOUS
<1>3. new \in SessionRow /\ new.user = u /\ new.token = Len(secrets) + 1
  BY <1>1, <1>2, AccountsAssumption DEF SessionRow
<1> HIDE DEF new
<1> QED BY <1>1, <1>3 DEF SessionTypes

LEMMA SessionRefreshed ==
  ASSUME AInv, NEW s \in Session, NEW i, Refresh(s, i)
  PROVE  /\ SessionTypes'
         /\ session'[s].user = session[s].user /\ session'[s].token = Len(secret) + 1
         /\ \A o \in Session \ {s} : session'[o] = session[o]
<1> DEFINE new == [session[s] EXCEPT !.token = Len(secret) + 1]
<1>1. session' = [session EXCEPT ![s] = new] /\ Len(secret) < MaxSecrets /\ Len(secret) \in Nat
  BY DEF Refresh, AInv, SecretsHold
<1>2. session[s] \in SessionRow
  BY DEF AInv, SessionTypes
<1>3. new \in SessionRow /\ new.user = session[s].user /\ new.token = Len(secret) + 1
      /\ new.live = session[s].live
  BY <1>1, <1>2, AccountsAssumption DEF SessionRow
<1> HIDE DEF new
<1> QED BY <1>1, <1>3 DEF SessionTypes, AInv

\* What every step but those two does to the sessions.
LEMMA SessionsKept ==
  ASSUME AInv, [Next]_accountVars,
         ~(\E i \in DOMAIN secret, s \in Session : Refresh(s, i)),
         ~(\E r \in Request, s \in Session : Login(r, s)),
         ~(\E r \in Request, i \in DOMAIN secret, s \in Session : LoginGoogle(r, i, s))
  PROVE  SessionTypes' /\ SameTokens
<1>1. SessionTypes
  BY DEF AInv
<1> DEFINE Kept == SessionTypes' /\ SameTokens
<1>2. UNCHANGED session => Kept
  BY <1>1, SessionsStay
<1>3. \A S : RevokeSessions(S) => Kept
  BY <1>1, SessionsRevoked
<1>4. \A s \in Session : session' = [session EXCEPT ![s] = Revoked(@)] => Kept
  BY <1>1, SessionRevoked
<1> HIDE DEF Kept
<1>5. ASSUME NEW r \in Request, Visits(r) PROVE Kept
  BY <1>2, <1>3, <1>5 DEF Visits, LoginFails, LoginDenied, RequestRecovery, RequestCode, CodeRejected,
                          VerifyCode, GoogleDenied, access
<1>6. ASSUME NEW r \in Request, Commands(r) PROVE Kept
  <2>1. CASE Logout(r)
    <3>1. request[r].session \in Session
      BY <2>1, CommandLoaded DEF AInv, Logout, OwnCommand
    <3> QED BY <1>4, <2>1, <3>1 DEF Logout
  <2>2. CASE ~Logout(r)
    BY <1>2, <1>3, <1>6, <2>2
       DEF Commands, ChangePassword, ChallengeToLink, UnlinkGoogle, LinkGoogle, CreateUser, DisableUser,
           EnableUser, RevokeUserSessions, CreateRole, AssignRole, RemoveRole, CreateUserV1, UpdateUser,
           access
  <2> QED BY <2>1, <2>2
<1>7. ASSUME NEW i \in DOMAIN secret, CompleteRecovery(i) PROVE Kept
  BY <1>2, <1>3, <1>7 DEF CompleteRecovery
<1>8. ASSUME NEW i \in DOMAIN secret, NEW s \in Session, RefreshReused(s, i) PROVE Kept
  BY <1>4, <1>8 DEF RefreshReused
<1>9. ASSUME NEW s \in Session, SessionRunsOut(s) PROVE Kept
  <2> DEFINE new == [session[s] EXCEPT !.over = TRUE]
  <2>1. session' = [session EXCEPT ![s] = new]
    BY <1>9 DEF SessionRunsOut
  <2>2. /\ new \in SessionRow /\ new.live = session[s].live
        /\ new.user = session[s].user /\ new.token = session[s].token
    BY <1>1 DEF SessionTypes, SessionRow
  <2> HIDE DEF new
  <2> QED BY <1>1, <2>1, <2>2, SessionRewritten DEF Kept
<1>10. ASSUME CreateChallenge \/ Platform PROVE Kept
  BY <1>2, <1>3, <1>10, IdentityStays, GroupsStay
     DEF CreateChallenge, Platform, SuspendCompany, ReactivateCompany, RevokeCompanySessions,
         ResetAdminPassword
<1>11. ASSUME Time PROVE Kept
  BY <1>2, <1>9, <1>11, GroupsStay DEF Time, LockRunsOut, SecretRunsOut, ThrottleRunsOut
<1>12. ASSUME UNCHANGED accountVars PROVE Kept
  BY <1>2, <1>12, EverythingStays, IdentityStays, GroupsStay
<1>13. ASSUME NEW r \in Request,
              Abandon(r) \/ \E u \in User : Arrive(r, u) \/ \E s \in Session : Authenticate(r, s, u)
       PROVE  Kept
  BY <1>2, <1>13, IdentityStays, GroupsStay DEF Abandon, Arrive, Authenticate
<1>14. Kept
  BY <1>5, <1>6, <1>7, <1>8, <1>10, <1>11, <1>12, <1>13 DEF Next
<1> QED BY <1>14 DEF Kept

LEMMA OthersPreserved ==
  ASSUME AInv, [Next]_accountVars
  PROVE  OthersTypes'
<1>1. OthersTypes /\ RequestTypes
  BY DEF AInv
<1> DEFINE Counted == failures' \in [User -> 0..LockFailures] /\ attempts' \in [User -> Attempts]
<1>2. UNCHANGED throttle => Counted
  BY <1>1 DEF OthersTypes, throttle
<1>3. \A u \in User : UNCHANGED attempts /\ failures' = [failures EXCEPT ![u] = 0] => Counted
  BY <1>1, AccountsAssumption DEF OthersTypes
<1>4. \A u \in User :
        UNCHANGED failures /\ attempts' = [attempts EXCEPT ![u] = [tries |-> 0, blocked |-> FALSE]] =>
          Counted
  <2>1. [tries |-> 0, blocked |-> FALSE] \in Attempts
    BY AccountsAssumption DEF Attempts
  <2> QED BY <1>1, <2>1 DEF OthersTypes
<1>5. ASSUME NEW r \in Request, LoginFails(r) PROVE Counted
  <2> DEFINE u == request[r].user
             n == IF failures[u] = LockFailures THEN LockFailures ELSE failures[u] + 1
  <2>1. u \in User
    BY <1>1, <1>5, VisitLoaded DEF LoginFails
  <2>2. n \in 0..LockFailures
    BY <1>1, <2>1, AccountsAssumption DEF OthersTypes
  <2>3. failures' = [failures EXCEPT ![u] = n] /\ UNCHANGED attempts
    BY <1>5 DEF LoginFails
  <2> HIDE DEF n
  <2> QED BY <1>1, <2>2, <2>3 DEF OthersTypes
<1>6. ASSUME NEW r \in Request, CodeRejected(r) PROVE Counted
  <2> DEFINE u == request[r].user
             n == IF attempts[u].tries = CodeAttempts THEN CodeAttempts ELSE attempts[u].tries + 1
             new == [tries |-> n, blocked |-> n = CodeAttempts]
  <2>1. u \in User
    BY <1>1, <1>6, VisitLoaded DEF CodeRejected
  <2>2. attempts[u].tries \in 0..CodeAttempts
    BY <1>1, <2>1 DEF OthersTypes, Attempts
  <2>3. n \in 0..CodeAttempts
    BY <2>2, AccountsAssumption
  <2>4. attempts' = [attempts EXCEPT ![u] = new] /\ UNCHANGED failures
    BY <1>6 DEF CodeRejected
  <2> HIDE DEF n
  <2>5. new \in Attempts
    BY <2>3 DEF Attempts
  <2> HIDE DEF new
  <2> QED BY <1>1, <2>4, <2>5 DEF OthersTypes
<1>7. ASSUME NEW u \in User, ThrottleRunsOut(u) PROVE Counted
  <2> DEFINE new == [attempts[u] EXCEPT !.blocked = FALSE]
  <2>1. CASE UNCHANGED failures /\ attempts' = [attempts EXCEPT ![u] = new]
    <3>1. new \in Attempts
      BY <1>1 DEF OthersTypes, Attempts
    <3> HIDE DEF new
    <3> QED BY <1>1, <2>1, <3>1 DEF OthersTypes
  <2> QED BY <1>3, <1>7, <2>1 DEF ThrottleRunsOut
<1> HIDE DEF Counted
<1>8. ASSUME NEW r \in Request, Visits(r) PROVE Counted
  <2>1. CASE RequestCode(r) \/ \E i \in DOMAIN secret : VerifyCode(r, i)
    BY <1>1, <1>4, <2>1, VisitLoaded DEF RequestCode, VerifyCode
  <2>2. CASE \E s \in Session : Login(r, s)
    BY <1>1, <1>3, <2>2, VisitLoaded DEF Login
  <2> QED BY <1>2, <1>5, <1>6, <1>8, <2>1, <2>2
          DEF Visits, LoginDenied, RequestRecovery, GoogleDenied, LoginGoogle, throttle
<1>9. ASSUME NEW r \in Request, Commands(r) PROVE Counted
  BY <1>2, <1>9 DEF Commands, Logout, ChangePassword, ChallengeToLink, UnlinkGoogle, LinkGoogle,
                    CreateUser, DisableUser, EnableUser, RevokeUserSessions, CreateRole, AssignRole,
                    RemoveRole, CreateUserV1, UpdateUser, throttle
<1>10. ASSUME NEW i \in DOMAIN secret,
              CompleteRecovery(i) \/ \E s \in Session : Refresh(s, i) \/ RefreshReused(s, i)
       PROVE  Counted
  <2>1. CompleteRecovery(i) => secret[i].of \in User
    BY DEF AInv, SecretsHold, GoodOnce, CompleteRecovery, Recovery
  <2> QED BY <1>2, <1>3, <1>10, <2>1 DEF CompleteRecovery, Refresh, RefreshReused, throttle
<1>11. ASSUME CreateChallenge \/ Platform \/ Time PROVE Counted
  BY <1>2, <1>7, <1>11, IdentityStays DEF CreateChallenge, Platform, Time, SuspendCompany, ReactivateCompany,
                    RevokeCompanySessions, ResetAdminPassword, LockRunsOut, SessionRunsOut, SecretRunsOut
<1>12. ASSUME UNCHANGED accountVars PROVE Counted
  BY <1>2, <1>12, EverythingStays, IdentityStays
<1>13. ASSUME NEW r \in Request,
              Abandon(r) \/ \E u \in User : Arrive(r, u) \/ \E s \in Session : Authenticate(r, s, u)
       PROVE  Counted
  BY <1>2, <1>13, IdentityStays DEF Abandon, Arrive, Authenticate
<1>14. Counted
  BY <1>8, <1>9, <1>10, <1>11, <1>12, <1>13 DEF Next
<1>15. tenant' \in {"active", "inactive"}
  <2>1. UNCHANGED tenant => tenant' \in {"active", "inactive"}
    BY <1>1 DEF OthersTypes
  <2>2. ASSUME NEW r \in Request, Visits(r) PROVE UNCHANGED tenant
    BY <2>2 DEF Visits, LoginFails, LoginDenied, RequestRecovery, RequestCode, CodeRejected, Login,
                VerifyCode, GoogleDenied, LoginGoogle
  <2>3. ASSUME NEW r \in Request, Commands(r) PROVE UNCHANGED tenant
    BY <2>3 DEF Commands, Logout, ChangePassword, ChallengeToLink, UnlinkGoogle, LinkGoogle,
                CreateUser, DisableUser, EnableUser, RevokeUserSessions, CreateRole, AssignRole,
                RemoveRole, CreateUserV1, UpdateUser
  <2>4. ASSUME NEW i \in DOMAIN secret,
               CompleteRecovery(i) \/ \E s \in Session : Refresh(s, i) \/ RefreshReused(s, i)
        PROVE  UNCHANGED tenant
    BY <2>4 DEF CompleteRecovery, Refresh, RefreshReused
  <2>5. CASE CreateChallenge \/ Platform \/ Time
    BY <2>1, <2>5 DEF CreateChallenge, Platform, Time, SuspendCompany, ReactivateCompany,
                      RevokeCompanySessions, ResetAdminPassword, LockRunsOut, SessionRunsOut,
                      SecretRunsOut, ThrottleRunsOut
  <2>6. CASE UNCHANGED accountVars
    BY <2>1, <2>6 DEF accountVars
  <2>7. ASSUME NEW r \in Request,
               Abandon(r) \/ \E u \in User : Arrive(r, u) \/ \E s \in Session : Authenticate(r, s, u)
        PROVE  UNCHANGED tenant
    BY <2>7 DEF Abandon, Arrive, Authenticate
  <2> QED BY <2>1, <2>2, <2>3, <2>4, <2>5, <2>6, <2>7 DEF Next
<1> QED BY <1>14, <1>15 DEF Counted, OthersTypes

-----------------------------------------------------------------------------
(* Secrets.                                                                *)

LEMMA RowsAreSeq ==
  ASSUME NEW S, NEW n \in Nat, NEW rows \in [1..n -> S]
  PROVE  rows \in Seq(S) /\ Len(rows) = n
BY SeqDef

\* Rows of secrets that were there, of which others than refresh tokens may have changed for good.
FollowUp(rows) ==
  /\ rows \in Seq(Secret) /\ Len(rows) = Len(secret)
  /\ \A i \in DOMAIN secret : rows[i] = secret[i] \/ (secret[i].kind # "refresh" /\ GoodOnce(rows[i]))

LEMMA SecretsFollowUp ==
  ASSUME SecretsHold, SameTokens, NEW rows, FollowUp(rows),
         \/ secret' = rows
         \/ Len(secret) < MaxSecrets /\ \E new : GoodOnce(new) /\ secret' = Append(rows, new)
  PROVE  SecretsHold'
<1>1. DOMAIN secret = 1..Len(secret) /\ DOMAIN rows = 1..Len(secret) /\ Len(secret) \in Nat
  BY DEF SecretsHold, FollowUp
<1>2. ASSUME NEW i \in DOMAIN secret, secret'[i] = rows[i]
      PROVE  IF secret'[i].kind = "refresh" THEN GoodToken(i)' ELSE GoodOnce(secret'[i])
  <2>1. CASE rows[i] = secret[i]
    BY <1>2, <2>1 DEF SecretsHold, GoodToken, SameTokens
  <2>2. CASE GoodOnce(rows[i])
    BY <1>2, <2>2 DEF GoodOnce
  <2> QED BY <2>1, <2>2 DEF FollowUp
<1>3. CASE secret' = rows
  <2>1. secret' \in Seq(Secret) /\ Len(secret') <= MaxSecrets /\ DOMAIN secret' = DOMAIN secret
    BY <1>1, <1>3 DEF FollowUp, SecretsHold
  <2>2. \A i \in DOMAIN secret' : IF secret'[i].kind = "refresh" THEN GoodToken(i)' ELSE GoodOnce(secret'[i])
    BY <1>2, <1>3, <2>1
  <2> QED BY <2>1, <2>2 DEF SecretsHold, GoodOnce
<1>4. ASSUME NEW new, GoodOnce(new), secret' = Append(rows, new), Len(secret) < MaxSecrets
      PROVE  SecretsHold'
  <2>1. new \in Secret /\ new.kind # "refresh"
    BY <1>4 DEF GoodOnce
  <2>2. /\ secret' \in Seq(Secret) /\ Len(secret') = Len(secret) + 1
        /\ secret'[Len(secret) + 1] = new /\ \A i \in 1..Len(secret) : secret'[i] = rows[i]
    <3>1. rows \in Seq(Secret) /\ Len(rows) = Len(secret)
      BY DEF FollowUp
    <3>2. /\ Append(rows, new) \in Seq(Secret) /\ Len(Append(rows, new)) = Len(rows) + 1
          /\ Append(rows, new)[Len(rows) + 1] = new
          /\ \A i \in 1..Len(rows) : Append(rows, new)[i] = rows[i]
      BY <2>1, <3>1, AppendProperties
    <3> QED BY <1>4, <3>1, <3>2
  <2>3. Len(secret') <= MaxSecrets /\ DOMAIN secret' = 1..(Len(secret) + 1)
    <3>1. DOMAIN secret' = 1..Len(secret')
      BY <2>2
    <3>2. MaxSecrets \in Nat
      BY AccountsAssumption
    <3>3. Len(secret) + 1 <= MaxSecrets
      <4>1. \A m, n \in Nat : m < n => m + 1 <= n
        OBVIOUS
      <4>2. Len(secret) < MaxSecrets
        BY <1>4
      <4> QED BY <1>1, <3>2, <4>1, <4>2
    <3> QED BY <2>2, <3>1, <3>3
  <2>4. ASSUME NEW i \in DOMAIN secret'
        PROVE  IF secret'[i].kind = "refresh" THEN GoodToken(i)' ELSE GoodOnce(secret'[i])
    <3>1. CASE i \in DOMAIN secret
      BY <1>1, <1>2, <2>2, <3>1
    <3>2. CASE i = Len(secret) + 1
      BY <1>4, <2>1, <2>2, <3>2
    <3> QED BY <1>1, <2>3, <3>1, <3>2
  <2> QED BY <2>2, <2>3, <2>4 DEF SecretsHold, GoodOnce
<1> QED BY <1>3, <1>4

\* What a command makes of one secret that it takes.
LEMMA SecretTaken ==
  ASSUME SecretsHold, NEW i \in DOMAIN secret, secret[i].kind # "refresh", Usable(i)
  PROVE  GoodOnce(Used(i)) /\ GoodOnce(Spent(i)) /\ Used(i).of = secret[i].of
<1>1. GoodOnce(secret[i]) /\ secret[i].state = "live"
  BY DEF SecretsHold, Usable
<1>2. secret[i].taken = 0 /\ secret[i] \in Secret
  BY <1>1 DEF GoodOnce, Secret
<1>3. Used(i) \in Secret /\ Used(i).taken = 0 /\ Used(i).state = "used" /\ Used(i).kind = secret[i].kind
      /\ Used(i).of = secret[i].of
  BY <1>2 DEF Used, Secret
<1>4. Spent(i) = [Used(i) EXCEPT !.taken = 1]
  BY <1>3 DEF Spent, Secret
<1>5. Spent(i) \in Secret /\ Spent(i).taken = 1 /\ Spent(i).state = "used" /\ Spent(i).kind = secret[i].kind
      /\ Spent(i).of = secret[i].of
  BY <1>3, <1>4 DEF Secret
<1> QED BY <1>1, <1>3, <1>5 DEF GoodOnce

LEMMA SecretNew ==
  /\ \A u \in User : GoodOnce(New("link", u)) /\ GoodOnce(New("code", u)) /\ GoodOnce(New("attach", u))
  /\ GoodOnce(New("login", None))
BY DEF GoodOnce, New, Secret, Recovery

LEMMA SecretRewritten ==
  ASSUME SecretsHold, NEW rows, FollowUp(rows), NEW i \in DOMAIN secret, secret[i].kind # "refresh",
         NEW new, GoodOnce(new)
  PROVE  FollowUp([rows EXCEPT ![i] = new])
<1>1. new \in Secret /\ i \in 1..Len(rows) /\ rows \in Seq(Secret) /\ DOMAIN secret = 1..Len(rows)
  BY DEF GoodOnce, FollowUp, SecretsHold
<1>2. /\ [rows EXCEPT ![i] = new] \in Seq(Secret) /\ Len([rows EXCEPT ![i] = new]) = Len(rows)
      /\ \A j \in 1..Len(rows) : [rows EXCEPT ![i] = new][j] = IF j = i THEN new ELSE rows[j]
  BY <1>1, ExceptSeq
<1> QED BY <1>1, <1>2 DEF FollowUp

LEMMA SecretsAsTheyAre ==
  ASSUME SecretsHold
  PROVE  FollowUp(secret)
BY DEF SecretsHold, FollowUp

LEMMA SecretsRevoked ==
  ASSUME SecretsHold, NEW u \in User, NEW I \in SUBSET LiveTokens(u)
  PROVE  FollowUp(WithRevoked(I))
<1> DEFINE rows == WithRevoked(I)
<1>1. secret \in Seq(Secret) /\ DOMAIN secret = 1..Len(secret) /\ Len(secret) \in Nat
  BY DEF SecretsHold
<1>2. ASSUME NEW i \in DOMAIN secret
      PROVE  rows[i] \in Secret /\ (rows[i] = secret[i] \/ (secret[i].kind # "refresh" /\ GoodOnce(rows[i])))
  <2>1. CASE i \in I
    <3>1. rows[i] = [secret[i] EXCEPT !.state = "revoked"]
      BY <2>1 DEF WithRevoked
    <3>2. secret[i].kind \in Recovery /\ secret[i].state = "live"
      BY <2>1 DEF LiveTokens
    <3>3. secret[i].kind # "refresh" /\ GoodOnce(secret[i])
      BY <3>2 DEF SecretsHold, Recovery
    <3>4. rows[i] \in Secret /\ rows[i].kind = secret[i].kind /\ rows[i].of = secret[i].of
          /\ rows[i].taken = secret[i].taken /\ rows[i].state = "revoked"
      BY <3>1, <3>3 DEF GoodOnce, Secret
    <3>5. rows[i].taken # 1
      BY <3>2, <3>3, <3>4 DEF GoodOnce
    <3> QED BY <3>3, <3>4, <3>5 DEF GoodOnce
  <2>2. CASE i \notin I
    BY <1>1, <2>2 DEF WithRevoked
  <2> QED BY <2>1, <2>2
<1>3. rows \in [1..Len(secret) -> Secret]
  BY <1>1, <1>2 DEF WithRevoked
<1> HIDE DEF rows
<1>4. rows \in Seq(Secret) /\ Len(rows) = Len(secret)
  BY <1>1, <1>3, RowsAreSeq
<1> QED BY <1>2, <1>4 DEF FollowUp, rows

LEMMA TokenIssued ==
  ASSUME SecretsHold, SameTokens, NEW r, request[r].user \in User, NEW kind \in Recovery,
         IssueToken(r, kind)
  PROVE  SecretsHold'
<1> DEFINE u == request[r].user
<1>1. PICK missed \in SUBSET Missable(r) :
        secret' = Append(WithRevoked(LiveTokens(u) \ missed), New(kind, u))
  BY DEF IssueToken
<1>2. FollowUp(WithRevoked(LiveTokens(u) \ missed))
  BY SecretsRevoked
<1>3. GoodOnce(New(kind, u))
  BY SecretNew DEF Recovery
<1>4. Len(secret) < MaxSecrets
  BY DEF IssueToken
<1> QED BY <1>1, <1>2, <1>3, <1>4, SecretsFollowUp

LEMMA RefreshNew == \A s \in Session : LET new == New("refresh", s) IN
  new \in Secret /\ new.kind = "refresh" /\ new.of = s /\ new.taken = 0
BY DEF New, Secret

\* A row after the others, for SecretsHold.
LEMMA SecretsExtended ==
  ASSUME NEW rows \in Seq(Secret), NEW new \in Secret, Len(rows) = Len(secret), Len(secret) < MaxSecrets,
         Len(secret) \in Nat, secret' = Append(rows, new)
  PROVE  /\ secret' \in Seq(Secret) /\ Len(secret') <= MaxSecrets
         /\ DOMAIN secret' = 1..(Len(secret) + 1)
         /\ secret'[Len(secret) + 1] = new /\ \A i \in 1..Len(secret) : secret'[i] = rows[i]
<1>1. /\ Append(rows, new) \in Seq(Secret) /\ Len(Append(rows, new)) = Len(rows) + 1
      /\ Append(rows, new)[Len(rows) + 1] = new
      /\ \A i \in 1..Len(rows) : Append(rows, new)[i] = rows[i]
  BY AppendProperties
<1>2. MaxSecrets \in Nat /\ \A m, n \in Nat : m < n => m + 1 <= n
  BY AccountsAssumption
<1>3. Len(secret) + 1 <= MaxSecrets
  BY <1>2
<1> QED BY <1>1, <1>3

LEMMA SecretsIssued ==
  ASSUME SecretsHold, SessionTypes, NEW s \in Session, NEW u \in User, NEW rows, FollowUp(rows),
         IssueSession(s, u, rows)
  PROVE  SecretsHold'
<1> DEFINE new == New("refresh", s)
<1>1. new \in Secret /\ new.kind = "refresh" /\ new.of = s /\ new.taken = 0
  BY RefreshNew
<1>2. rows \in Seq(Secret) /\ Len(rows) = Len(secret) /\ Len(secret) < MaxSecrets /\ Len(secret) \in Nat
      /\ DOMAIN secret = 1..Len(secret)
  BY DEF FollowUp, SecretsHold, IssueSession
<1>3. secret' = Append(rows, new) /\ session[s].user = None
  BY DEF IssueSession
<1>4. /\ session'[s].user = u /\ session'[s].token = Len(secret) + 1 /\ u # None
      /\ \A o \in Session \ {s} : session'[o] = session[o]
  BY <1>2, SessionIssued, AccountsAssumption
<1> HIDE DEF new
<1>5. /\ secret' \in Seq(Secret) /\ Len(secret') <= MaxSecrets
      /\ DOMAIN secret' = 1..(Len(secret) + 1)
      /\ secret'[Len(secret) + 1] = new /\ \A i \in 1..Len(secret) : secret'[i] = rows[i]
  BY <1>1, <1>2, <1>3, SecretsExtended
<1>6. ASSUME NEW i \in DOMAIN secret
      PROVE  IF secret'[i].kind = "refresh" THEN GoodToken(i)' ELSE GoodOnce(secret'[i])
  <2>1. secret'[i] = rows[i]
    BY <1>2, <1>5
  <2>2. CASE rows[i] = secret[i] /\ secret[i].kind = "refresh"
    <3>1. GoodToken(i)
      BY <2>2 DEF SecretsHold
    <3>2. secret[i].of \in Session \ {s}
      BY <1>3, <3>1 DEF GoodToken
    <3>3. session'[secret[i].of] = session[secret[i].of]
      BY <1>4, <3>2
    <3> QED BY <2>1, <2>2, <3>1, <3>3 DEF GoodToken
  <2>3. CASE rows[i] = secret[i] /\ secret[i].kind # "refresh"
    BY <2>1, <2>3 DEF SecretsHold
  <2>4. CASE GoodOnce(rows[i])
    BY <2>1, <2>4 DEF GoodOnce
  <2> QED BY <2>2, <2>3, <2>4 DEF FollowUp
<1>7. ASSUME NEW n, n = Len(secret) + 1
      PROVE  IF secret'[n].kind = "refresh" THEN GoodToken(n)' ELSE GoodOnce(secret'[n])
  BY <1>1, <1>4, <1>5, <1>7 DEF GoodToken
<1>8. \A i \in DOMAIN secret' : i \in DOMAIN secret \/ i = Len(secret) + 1
  BY <1>2, <1>5
<1> QED BY <1>5, <1>6, <1>7, <1>8 DEF SecretsHold, GoodOnce

LEMMA SecretsRefreshed ==
  ASSUME AInv, NEW s \in Session, NEW i \in DOMAIN secret, Refresh(s, i)
  PROVE  SecretsHold'
<1> DEFINE new == New("refresh", s)
           spent == Spent(i)
           rows == [secret EXCEPT ![i] = spent]
<1>1. new \in Secret /\ new.kind = "refresh" /\ new.of = s /\ new.taken = 0
  BY RefreshNew
<1>2. secret' = Append(rows, new) /\ Len(secret) < MaxSecrets /\ i = session[s].token
      /\ secret[i].kind = "refresh" /\ secret[i].of = s
  BY DEF Refresh
<1>3. secret \in Seq(Secret) /\ Len(secret) \in Nat /\ DOMAIN secret = 1..Len(secret)
      /\ GoodToken(i)
  BY <1>2 DEF AInv, SecretsHold
<1>4. secret[i] \in Secret /\ secret[i].taken = 0
  BY <1>2, <1>3 DEF GoodToken
<1>5. spent \in Secret /\ spent.taken = 1 /\ spent.kind = "refresh" /\ spent.of = s
  <2>1. Used(i) \in Secret /\ Used(i).taken = 0 /\ Used(i).kind = "refresh" /\ Used(i).of = s
    BY <1>2, <1>4 DEF Used, Secret
  <2>2. spent = [Used(i) EXCEPT !.taken = 1]
    BY <2>1 DEF Spent, Secret
  <2> HIDE DEF spent
  <2> QED BY <2>1, <2>2 DEF Secret
<1>6. /\ session'[s].user = session[s].user /\ session'[s].token = Len(secret) + 1
      /\ \A o \in Session \ {s} : session'[o] = session[o]
  BY SessionRefreshed
<1> HIDE DEF new, spent
<1>7. /\ rows \in Seq(Secret) /\ Len(rows) = Len(secret)
      /\ \A j \in 1..Len(secret) : rows[j] = IF j = i THEN spent ELSE secret[j]
  BY <1>3, <1>5, ExceptSeq
<1> HIDE DEF rows
<1>8. /\ secret' \in Seq(Secret) /\ Len(secret') <= MaxSecrets
      /\ DOMAIN secret' = 1..(Len(secret) + 1)
      /\ secret'[Len(secret) + 1] = new /\ \A j \in 1..Len(secret) : secret'[j] = rows[j]
  BY <1>1, <1>2, <1>3, <1>7, SecretsExtended
<1>9. session[s].user # None
  BY <1>2, <1>3 DEF GoodToken
<1>10. ASSUME NEW j \in DOMAIN secret
       PROVE  IF secret'[j].kind = "refresh" THEN GoodToken(j)' ELSE GoodOnce(secret'[j])
  <2>1. secret'[j] = IF j = i THEN spent ELSE secret[j]
    BY <1>3, <1>7, <1>8
  <2>2. j # Len(secret) + 1 /\ j \in Nat
    BY <1>3
  <2>3. CASE j = i
    BY <1>5, <1>6, <1>9, <2>1, <2>2, <2>3 DEF GoodToken
  <2>4. CASE j # i /\ secret[j].kind = "refresh"
    <3>1. GoodToken(j)
      BY <2>4 DEF AInv, SecretsHold
    <3>2. CASE secret[j].of = s
      BY <1>2, <1>6, <1>9, <2>1, <2>2, <2>4, <3>1, <3>2 DEF GoodToken
    <3>3. CASE secret[j].of # s
      <4>1. session'[secret[j].of] = session[secret[j].of]
        BY <1>6, <3>1, <3>3 DEF GoodToken
      <4> QED BY <2>1, <2>4, <3>1, <4>1 DEF GoodToken
    <3> QED BY <3>2, <3>3
  <2>5. CASE j # i /\ secret[j].kind # "refresh"
    BY <2>1, <2>5 DEF AInv, SecretsHold
  <2> QED BY <2>3, <2>4, <2>5
<1>11. ASSUME NEW n, n = Len(secret) + 1
       PROVE  IF secret'[n].kind = "refresh" THEN GoodToken(n)' ELSE GoodOnce(secret'[n])
  BY <1>1, <1>6, <1>8, <1>9, <1>11 DEF GoodToken
<1>12. \A j \in DOMAIN secret' : j \in DOMAIN secret \/ j = Len(secret) + 1
  BY <1>3, <1>8
<1> QED BY <1>8, <1>10, <1>11, <1>12 DEF SecretsHold, GoodOnce

\* The steps that take no session further: Login, LoginGoogle and Refresh are the others.
LEMMA SecretsByVisits ==
  ASSUME AInv, SameTokens, NEW r \in Request,
         \/ RequestRecovery(r) \/ RequestCode(r) \/ CodeRejected(r)
         \/ \E i \in DOMAIN secret : VerifyCode(r, i) \/ GoogleDenied(r, i)
  PROVE  SecretsHold'
<1>1. SecretsHold /\ Visit(r)
  BY DEF AInv, RequestRecovery, RequestCode, CodeRejected, VerifyCode, GoogleDenied
<1> DEFINE u == request[r].user
<1>2. u \in User
  BY <1>1, VisitLoaded DEF AInv
<1>3. CASE RequestRecovery(r) \/ RequestCode(r)
  BY <1>1, <1>2, <1>3, TokenIssued DEF RequestRecovery, RequestCode, Recovery
<1>4. CASE CodeRejected(r)
  <2>1. CASE UNCHANGED secret
    BY <1>1, <2>1, SecretsAsTheyAre, SecretsFollowUp
  <2>2. ASSUME NEW missed \in SUBSET Missable(r), secret' = WithRevoked(LiveTokens(u) \ missed)
        PROVE  SecretsHold'
    <3>1. FollowUp(WithRevoked(LiveTokens(u) \ missed))
      BY <1>1, <1>2, SecretsRevoked
    <3> QED BY <1>1, <2>2, <3>1, SecretsFollowUp
  <2> QED BY <1>4, <2>1, <2>2 DEF CodeRejected
<1>5. ASSUME NEW i \in DOMAIN secret, VerifyCode(r, i)
      PROVE  SecretsHold'
  <2>1. PICK missed \in SUBSET (Missable(r) \ {i}) :
          secret' = Append([WithRevoked(LiveTokens(u) \ missed) EXCEPT ![i] = Spent(i)], New("link", u))
    BY <1>5 DEF VerifyCode
  <2>2. secret[i].kind # "refresh" /\ Usable(i) /\ Len(secret) < MaxSecrets
    BY <1>5 DEF VerifyCode
  <2> DEFINE revoked == WithRevoked(LiveTokens(u) \ missed)
  <2>3. FollowUp(revoked)
    BY <1>1, <1>2, SecretsRevoked
  <2> HIDE DEF revoked
  <2>4. GoodOnce(Spent(i)) /\ GoodOnce(New("link", u))
    BY <1>1, <1>2, <2>2, SecretTaken, SecretNew
  <2> DEFINE rows == [revoked EXCEPT ![i] = Spent(i)]
  <2>5. FollowUp(rows)
    BY <1>1, <2>2, <2>3, <2>4, SecretRewritten
  <2>6. secret' = Append(rows, New("link", u))
    BY <2>1 DEF revoked
  <2> HIDE DEF rows
  <2> QED BY <1>1, <2>2, <2>4, <2>5, <2>6, SecretsFollowUp
<1>6. ASSUME NEW i \in DOMAIN secret, GoogleDenied(r, i)
      PROVE  SecretsHold'
  <2>1. secret[i].kind # "refresh" /\ Usable(i) /\ secret' = [secret EXCEPT ![i] = Used(i)]
    BY <1>6 DEF GoogleDenied
  <2>2. FollowUp([secret EXCEPT ![i] = Used(i)])
    BY <1>1, <2>1, SecretTaken, SecretsAsTheyAre, SecretRewritten
  <2> QED BY <1>1, <2>1, <2>2, SecretsFollowUp
<1> QED BY <1>3, <1>4, <1>5, <1>6

LEMMA SecretsByCommands ==
  ASSUME AInv, SameTokens, NEW r \in Request, Commands(r)
  PROVE  SecretsHold'
<1>1. SecretsHold
  BY DEF AInv
<1>2. UNCHANGED secret => SecretsHold'
  BY <1>1, SecretsAsTheyAre, SecretsFollowUp
<1>3. CASE CreateUser(r)
  <2>1. request[r].user \in User
    BY <1>3, CommandLoaded DEF AInv, CreateUser, Allows
  <2> QED BY <1>1, <1>3, <2>1, TokenIssued DEF CreateUser, Recovery
<1>4. CASE ChallengeToLink(r)
  <2>1. request[r].actor \in User
    BY <1>4, CommandLoaded DEF AInv, ChallengeToLink, OwnCommand
  <2>2. GoodOnce(New("attach", request[r].actor))
    BY <2>1, SecretNew
  <2> QED BY <1>1, <1>4, <2>2, SecretsAsTheyAre, SecretsFollowUp DEF ChallengeToLink
<1>5. ASSUME NEW i \in DOMAIN secret, NEW sub, LinkGoogle(r, i, sub)
      PROVE  SecretsHold'
  <2>1. secret[i].kind # "refresh" /\ Usable(i)
        /\ (secret' = [secret EXCEPT ![i] = Used(i)] \/ secret' = [secret EXCEPT ![i] = Spent(i)])
    BY <1>5 DEF LinkGoogle
  <2>2. FollowUp([secret EXCEPT ![i] = Used(i)]) /\ FollowUp([secret EXCEPT ![i] = Spent(i)])
    BY <1>1, <2>1, SecretTaken, SecretsAsTheyAre, SecretRewritten
  <2> QED BY <1>1, <2>1, <2>2, SecretsFollowUp
<1> QED BY <1>2, <1>3, <1>4, <1>5, GroupsStay
        DEF Commands, Logout, ChangePassword, UnlinkGoogle, DisableUser, EnableUser, RevokeUserSessions,
            CreateRole, AssignRole, RemoveRole, CreateUserV1, UpdateUser

LEMMA SecretsByOthers ==
  ASSUME AInv, SameTokens,
         \/ CreateChallenge \/ Platform \/ Time
         \/ \E i \in DOMAIN secret : CompleteRecovery(i)
  PROVE  SecretsHold'
<1>1. SecretsHold
  BY DEF AInv
<1>2. UNCHANGED secret => SecretsHold'
  BY <1>1, SecretsAsTheyAre, SecretsFollowUp
<1>3. CASE CreateChallenge
  BY <1>1, <1>3, SecretNew, SecretsAsTheyAre, SecretsFollowUp DEF CreateChallenge
<1>4. ASSUME NEW i \in DOMAIN secret, CompleteRecovery(i)
      PROVE  SecretsHold'
  <2>1. secret[i].kind # "refresh" /\ Usable(i)
        /\ (secret' = [secret EXCEPT ![i] = Used(i)] \/ secret' = [secret EXCEPT ![i] = Spent(i)])
    BY <1>4 DEF CompleteRecovery
  <2>2. FollowUp([secret EXCEPT ![i] = Used(i)]) /\ FollowUp([secret EXCEPT ![i] = Spent(i)])
    BY <1>1, <2>1, SecretTaken, SecretsAsTheyAre, SecretRewritten
  <2> QED BY <1>1, <2>1, <2>2, SecretsFollowUp
<1>5. ASSUME NEW i \in DOMAIN secret, SecretRunsOut(i)
      PROVE  SecretsHold'
  <2> DEFINE over == [secret[i] EXCEPT !.state = "over"]
  <2>1. secret[i].kind # "refresh" /\ secret[i].state = "live" /\ secret' = [secret EXCEPT ![i] = over]
    BY <1>5 DEF SecretRunsOut
  <2>2. GoodOnce(secret[i])
    BY <1>1, <2>1 DEF SecretsHold
  <2>3. over \in Secret /\ over.kind = secret[i].kind /\ over.of = secret[i].of
        /\ over.taken = secret[i].taken
    BY <2>2 DEF GoodOnce, Secret
  <2> HIDE DEF over
  <2>4. GoodOnce(over)
    BY <2>1, <2>2, <2>3 DEF GoodOnce
  <2>5. FollowUp([secret EXCEPT ![i] = over])
    BY <1>1, <2>1, <2>4, SecretsAsTheyAre, SecretRewritten
  <2> QED BY <1>1, <2>1, <2>5, SecretsFollowUp
<1>6. CASE Platform
  BY <1>2, <1>6, IdentityStays, GroupsStay
     DEF Platform, SuspendCompany, ReactivateCompany, RevokeCompanySessions, ResetAdminPassword
<1>7. CASE Time
  BY <1>2, <1>5, <1>7, GroupsStay DEF Time, LockRunsOut, SessionRunsOut, ThrottleRunsOut
<1> QED BY <1>3, <1>4, <1>6, <1>7

LEMMA SecretsPreserved ==
  ASSUME AInv, [Next]_accountVars
  PROVE  SecretsHold' /\ SessionTypes'
<1>1. SecretsHold /\ SessionTypes /\ RequestTypes
  BY DEF AInv
<1>2. ASSUME NEW s \in Session, NEW r \in Request, Login(r, s)
      PROVE  SecretsHold' /\ SessionTypes'
  <2>1. request[r].user \in User /\ IssueSession(s, request[r].user, secret)
    BY <1>1, <1>2, VisitLoaded DEF Login
  <2>2. FollowUp(secret) /\ secret \in Seq(Secret)
    BY <1>1, SecretsAsTheyAre DEF FollowUp
  <2> QED BY <1>1, <2>1, <2>2, SecretsIssued, SessionIssued
<1>3. ASSUME NEW s \in Session, NEW r \in Request, NEW i \in DOMAIN secret, LoginGoogle(r, i, s)
      PROVE  SecretsHold' /\ SessionTypes'
  <2> DEFINE rows == [secret EXCEPT ![i] = Spent(i)]
  <2>1. request[r].user \in User /\ IssueSession(s, request[r].user, rows)
    BY <1>1, <1>3, VisitLoaded DEF LoginGoogle
  <2>2. secret[i].kind # "refresh" /\ Usable(i)
    BY <1>3 DEF LoginGoogle
  <2>3. FollowUp(rows)
    BY <1>1, <2>2, SecretTaken, SecretsAsTheyAre, SecretRewritten
  <2> HIDE DEF rows
  <2>4. rows \in Seq(Secret)
    BY <2>3 DEF FollowUp
  <2> QED BY <1>1, <2>1, <2>3, <2>4, SecretsIssued, SessionIssued
<1>4. ASSUME NEW s \in Session, NEW i \in DOMAIN secret, Refresh(s, i)
      PROVE  SecretsHold' /\ SessionTypes'
  BY <1>4, SecretsRefreshed, SessionRefreshed
<1>5. ASSUME ~(\E i \in DOMAIN secret, s \in Session : Refresh(s, i)),
             ~(\E r \in Request, s \in Session : Login(r, s)),
             ~(\E r \in Request, i \in DOMAIN secret, s \in Session : LoginGoogle(r, i, s))
      PROVE  SecretsHold' /\ SessionTypes'
  <2>1. SessionTypes' /\ SameTokens
    BY <1>5, SessionsKept
  <2>2. UNCHANGED secret => SecretsHold'
    BY <1>1, <2>1, SecretsAsTheyAre, SecretsFollowUp
  <2>3. ASSUME NEW r \in Request, Visits(r) PROVE SecretsHold'
    BY <1>5, <2>1, <2>2, <2>3, SecretsByVisits, GroupsStay DEF Visits, LoginFails, LoginDenied
  <2>4. ASSUME NEW i \in DOMAIN secret, NEW s \in Session, RefreshReused(s, i) PROVE SecretsHold'
    BY <2>2, <2>4 DEF RefreshReused
  <2>5. ASSUME UNCHANGED accountVars PROVE SecretsHold'
    BY <2>2, <2>5, EverythingStays, IdentityStays, GroupsStay
  <2>6. ASSUME NEW r \in Request,
               Abandon(r) \/ \E u \in User : Arrive(r, u) \/ \E s \in Session : Authenticate(r, s, u)
        PROVE  SecretsHold'
    BY <2>2, <2>6, IdentityStays, GroupsStay DEF Abandon, Arrive, Authenticate
  <2>7. SecretsHold'
    BY <1>5, <2>1, <2>3, <2>4, <2>5, <2>6, SecretsByCommands, SecretsByOthers DEF Next
  <2> QED BY <2>1, <2>7
<1> QED BY <1>2, <1>3, <1>4, <1>5

-----------------------------------------------------------------------------
(* Roles and assignments.                                                  *)

\* Rows of assignments that differ from those there are only in those that ended.
SameRows(rows) ==
  /\ rows \in Seq(Assignment) /\ Len(rows) = Len(assignment)
  /\ \A i \in DOMAIN assignment :
       /\ rows[i].user = assignment[i].user /\ rows[i].role = assignment[i].role
       /\ rows[i].scope = assignment[i].scope /\ rows[i].by = assignment[i].by
       /\ rows[i].live => assignment[i].live

\* A role gets its permissions once.
RolesGrow ==
  /\ role' \in [Role -> RolePermissions]
  /\ \A ro \in Role : role'[ro] = role[ro] \/ role[ro] = {}

\* The principals there will be rest on assignments there are.
PrincipalsRest ==
  \A r \in Request : Command(r)' =>
    \A g \in request'[r].grants : GrantedTo(request'[r].actor, g.permission, g.scope)

\* An assignment at that scope stands for what is asked at the other.
Reaches(held, asked) ==
  \/ held = "tenant"
  \/ held \in Branch \cup CashPoint /\ held = asked
  \/ asked \in CashPoint /\ held = BranchOf[asked]
Stands(u, p, asked) ==
  \E j \in DOMAIN assignment :
    /\ assignment[j].user = u /\ p \in role[assignment[j].role]
    /\ Reaches(assignment[j].scope, asked)

LEMMA AssignmentRows ==
  ASSUME AuthorityHolds
  PROVE  /\ assignment \in Seq(Assignment) /\ Len(assignment) \in Nat /\ DOMAIN assignment = 1..Len(assignment)
         /\ \A i \in DOMAIN assignment : assignment[i] \in Assignment
BY DEF AuthorityHolds

LEMMA RowsWithout ==
  ASSUME AuthorityHolds, NEW I
  PROVE  /\ SameRows(WithoutAssignments(I))
         /\ \A i \in DOMAIN assignment \cap I : ~WithoutAssignments(I)[i].live
<1> DEFINE rows == WithoutAssignments(I)
<1>1. DOMAIN assignment = 1..Len(assignment) /\ Len(assignment) \in Nat
  BY AssignmentRows
<1>2. ASSUME NEW i \in DOMAIN assignment
      PROVE  /\ rows[i] \in Assignment
             /\ rows[i].user = assignment[i].user /\ rows[i].role = assignment[i].role
             /\ rows[i].scope = assignment[i].scope /\ rows[i].by = assignment[i].by
             /\ rows[i].live => assignment[i].live
             /\ i \in I => ~rows[i].live
  <2>1. assignment[i] \in Assignment
    BY AssignmentRows
  <2>2. rows[i] = IF i \in I THEN [assignment[i] EXCEPT !.live = FALSE] ELSE assignment[i]
    BY DEF WithoutAssignments
  <2> HIDE DEF rows
  <2> QED BY <2>1, <2>2 DEF Assignment
<1>3. rows \in [1..Len(assignment) -> Assignment]
  BY <1>1, <1>2 DEF WithoutAssignments
<1> HIDE DEF rows
<1>4. rows \in Seq(Assignment) /\ Len(rows) = Len(assignment)
  BY <1>1, <1>3, RowsAreSeq
<1> QED BY <1>2, <1>4 DEF SameRows, rows

LEMMA RowsAsTheyAre ==
  ASSUME AuthorityHolds
  PROVE  SameRows(assignment)
BY DEF AuthorityHolds, SameRows

\* Grants that stand, stand on.
LEMMA GrantsLast ==
  ASSUME AuthorityHolds, RolesGrow, NEW rows, SameRows(rows),
         \A i \in DOMAIN assignment : i \in DOMAIN assignment' /\ assignment'[i] = rows[i],
         NEW u, NEW p, NEW scope, GrantedTo(u, p, scope)
  PROVE  GrantedTo(u, p, scope)'
<1>1. PICK j \in DOMAIN assignment :
        assignment[j].user = u /\ assignment[j].scope = scope /\ p \in role[assignment[j].role]
  BY DEF GrantedTo
<1>2. assignment'[j].user = u /\ assignment'[j].scope = scope /\ assignment'[j].role = assignment[j].role
  BY <1>1 DEF SameRows
<1>3. assignment[j].role \in Role
  BY AssignmentRows DEF Assignment
<1>4. p \in role'[assignment[j].role]
  BY <1>1, <1>3 DEF RolesGrow
<1> QED BY <1>1, <1>2, <1>4 DEF GrantedTo

\* Why an assignment may be there: it was the first, v1 made it, or others stand for it.
Backed(i) ==
  LET a == assignment[i] IN
  a.by # None /\ ~MadeByV1(a) =>
    /\ role[a.role] # {}
    /\ \A p \in role[a.role] : \E j \in 1..(i - 1) :
         /\ assignment[j].user = a.by /\ p \in role[assignment[j].role]
         /\ Reaches(assignment[j].scope, a.scope)

LEMMA AllBacked ==
  ASSUME AuthorityHolds, AuthorityIsHandedDown, NEW i \in DOMAIN assignment
  PROVE  Backed(i)
BY DEF AuthorityHolds, AuthorityIsHandedDown, Backed, MadeByV1, Reaches

LEMMA BackedLasts ==
  ASSUME AuthorityHolds, AuthorityIsHandedDown, RolesGrow, NEW rows, SameRows(rows),
         \A i \in DOMAIN assignment : i \in DOMAIN assignment' /\ assignment'[i] = rows[i],
         NEW i \in DOMAIN assignment
  PROVE  Backed(i)'
<1>1. Backed(i) /\ DOMAIN assignment = 1..Len(assignment) /\ Len(assignment) \in Nat
  BY AllBacked, AssignmentRows
<1>2. \A j \in DOMAIN assignment :
        /\ assignment'[j].user = assignment[j].user /\ assignment'[j].role = assignment[j].role
        /\ assignment'[j].scope = assignment[j].scope /\ assignment'[j].by = assignment[j].by
        /\ assignment[j].role \in Role
  BY AssignmentRows DEF SameRows, Assignment
<1>3. \A j \in 1..(i - 1) : j \in DOMAIN assignment
  BY <1>1
<1>4. \A j \in DOMAIN assignment : role[assignment[j].role] \subseteq role'[assignment'[j].role]
  BY <1>2 DEF RolesGrow
<1> SUFFICES ASSUME assignment'[i].by # None, ~MadeByV1(assignment'[i])
             PROVE  /\ role'[assignment'[i].role] # {}
                    /\ \A p \in role'[assignment'[i].role] : \E j \in 1..(i - 1) :
                         /\ assignment'[j].user = assignment'[i].by /\ p \in role'[assignment'[j].role]
                         /\ Reaches(assignment'[j].scope, assignment'[i].scope)
  BY DEF Backed, MadeByV1, Reaches
<1>5. assignment[i].by # None /\ ~MadeByV1(assignment[i])
  BY <1>2 DEF MadeByV1
<1>6. role[assignment[i].role] # {} /\ role'[assignment'[i].role] = role[assignment[i].role]
  BY <1>1, <1>2, <1>5 DEF Backed, RolesGrow
<1>7. ASSUME NEW p \in role'[assignment'[i].role]
      PROVE  \E j \in 1..(i - 1) :
               /\ assignment'[j].user = assignment'[i].by /\ p \in role'[assignment'[j].role]
               /\ Reaches(assignment'[j].scope, assignment'[i].scope)
  <2>1. PICK j \in 1..(i - 1) :
          /\ assignment[j].user = assignment[i].by /\ p \in role[assignment[j].role]
          /\ Reaches(assignment[j].scope, assignment[i].scope)
    BY <1>1, <1>5, <1>6 DEF Backed
  <2> QED BY <1>2, <1>3, <1>4, <2>1
<1> QED BY <1>6, <1>7

\* Every assignment there will be is backed and every principal rests on assignments: that is authority.
LEMMA AuthorityFromBacked ==
  ASSUME assignment' \in Seq(Assignment), Len(assignment') <= MaxAssignments,
         role' \in [Role -> RolePermissions], \A i \in DOMAIN assignment' : Backed(i)',
         PrincipalsHold'
  PROVE  AuthorityHolds' /\ AuthorityIsHandedDown'
<1>1. AuthorityHolds'
  BY DEF AuthorityHolds, Backed
<1>2. AuthorityIsHandedDown'
  BY DEF AuthorityIsHandedDown, Backed, MadeByV1, Reaches
<1> QED BY <1>1, <1>2

LEMMA PrincipalsLast ==
  ASSUME AuthorityHolds, RolesGrow, NEW rows, SameRows(rows), PrincipalsRest,
         \A i \in DOMAIN assignment : i \in DOMAIN assignment' /\ assignment'[i] = rows[i]
  PROVE  PrincipalsHold'
<1> SUFFICES ASSUME NEW r \in Request, Command(r)', NEW g \in request'[r].grants,
                    NEW a, a = request'[r].actor
             PROVE  GrantedTo(a, g.permission, g.scope)'
  BY DEF PrincipalsHold
<1>1. GrantedTo(a, g.permission, g.scope)
  BY DEF PrincipalsRest
<1> DEFINE p == g.permission
           scope == g.scope
<1> HIDE DEF p, scope
<1>2. GrantedTo(a, p, scope)
  BY <1>1 DEF p, scope
<1>3. GrantedTo(a, p, scope)'
  BY <1>2, GrantsLast
<1> QED BY <1>3 DEF p, scope

\* The rows stay, but for assignments that end, and roles are made.
LEMMA AuthorityKept ==
  ASSUME AuthorityHolds, AuthorityIsHandedDown, OneAssignment, RolesGrow, PrincipalsRest,
         NEW rows, SameRows(rows), assignment' = rows
  PROVE  AuthorityHolds' /\ AuthorityIsHandedDown' /\ OneAssignment'
<1>1. /\ assignment' \in Seq(Assignment) /\ Len(assignment') <= MaxAssignments
      /\ DOMAIN assignment' = DOMAIN assignment
  BY AssignmentRows DEF SameRows, AuthorityHolds
<1>2. \A i \in DOMAIN assignment : i \in DOMAIN assignment' /\ assignment'[i] = rows[i]
  BY <1>1
<1>3. PrincipalsHold'
  BY <1>2, PrincipalsLast
<1>4. \A i \in DOMAIN assignment' : Backed(i)'
  BY <1>1, <1>2, BackedLasts
<1>5. OneAssignment'
  BY <1>1, <1>2 DEF SameRows, OneAssignment
<1> QED BY <1>1, <1>3, <1>4, <1>5, AuthorityFromBacked DEF RolesGrow

\* One more that no live one equals, and that v1 makes or others stand for.
LEMMA AuthorityHandedDown ==
  ASSUME AuthorityHolds, AuthorityIsHandedDown, OneAssignment, UNCHANGED role, PrincipalsRest,
         Len(assignment) < MaxAssignments, NEW rows, SameRows(rows), NEW a \in Assignment,
         assignment' = Append(rows, a),
         \A i \in DOMAIN assignment :
           rows[i].live => ~(rows[i].user = a.user /\ rows[i].role = a.role /\ rows[i].scope = a.scope),
         MadeByV1(a) \/ (role[a.role] # {} /\ \A p \in role[a.role] : Stands(a.by, p, a.scope))
  PROVE  AuthorityHolds' /\ AuthorityIsHandedDown' /\ OneAssignment'
<1>1. DOMAIN assignment = 1..Len(assignment) /\ Len(assignment) \in Nat /\ Len(rows) = Len(assignment)
      /\ rows \in Seq(Assignment)
  BY AssignmentRows DEF SameRows
<1>2. /\ Append(rows, a) \in Seq(Assignment) /\ Len(Append(rows, a)) = Len(rows) + 1
      /\ Append(rows, a)[Len(rows) + 1] = a
      /\ \A i \in 1..Len(rows) : Append(rows, a)[i] = rows[i]
  BY <1>1, AppendProperties
<1>3. MaxAssignments \in Nat /\ \A m, n \in Nat : m < n => m + 1 <= n
  BY AccountsAssumption
<1>4. Len(assignment) + 1 <= MaxAssignments
  BY <1>1, <1>3
<1>5. /\ assignment' \in Seq(Assignment) /\ Len(assignment') <= MaxAssignments
      /\ DOMAIN assignment' = 1..(Len(assignment) + 1)
      /\ assignment'[Len(assignment) + 1] = a
  BY <1>1, <1>2, <1>4
<1>6. \A i \in DOMAIN assignment : i \in DOMAIN assignment' /\ assignment'[i] = rows[i]
  BY <1>1, <1>2, <1>5
<1>7. RolesGrow
  BY DEF AuthorityHolds, RolesGrow
<1>8. PrincipalsHold'
  BY <1>6, <1>7, PrincipalsLast
<1>9. \A i \in DOMAIN assignment : Backed(i)'
  BY <1>6, <1>7, BackedLasts
<1>10. ASSUME NEW n, n = Len(assignment) + 1
       PROVE  Backed(n)'
  <2>1. n - 1 = Len(assignment) /\ assignment'[n] = a
    BY <1>1, <1>5, <1>10
  <2>2. CASE MadeByV1(a)
    BY <2>1, <2>2 DEF Backed, MadeByV1
  <2>3. CASE role[a.role] # {} /\ \A p \in role[a.role] : Stands(a.by, p, a.scope)
    <3>1. ASSUME NEW p \in role'[a.role]
          PROVE  \E j \in 1..(n - 1) :
                   /\ assignment'[j].user = a.by /\ p \in role'[assignment'[j].role]
                   /\ Reaches(assignment'[j].scope, a.scope)
      <4>1. PICK j \in DOMAIN assignment :
              /\ assignment[j].user = a.by /\ p \in role[assignment[j].role]
              /\ Reaches(assignment[j].scope, a.scope)
        BY <2>3 DEF Stands
      <4>2. /\ assignment'[j].user = assignment[j].user /\ assignment'[j].role = assignment[j].role
            /\ assignment'[j].scope = assignment[j].scope
        BY <1>6 DEF SameRows
      <4> QED BY <1>1, <2>1, <4>1, <4>2
    <3>2. role'[a.role] # {}
      BY <2>3
    <3>3. /\ role'[assignment'[n].role] # {}
          /\ \A p \in role'[assignment'[n].role] : \E j \in 1..(n - 1) :
               /\ assignment'[j].user = assignment'[n].by /\ p \in role'[assignment'[j].role]
               /\ Reaches(assignment'[j].scope, assignment'[n].scope)
      BY <2>1, <3>1, <3>2
    <3> QED BY <3>3 DEF Backed, MadeByV1, Reaches
  <2> QED BY <2>2, <2>3
<1>11. \A i \in DOMAIN assignment' : i \in DOMAIN assignment \/ i = Len(assignment) + 1
  BY <1>1, <1>5
<1>12. \A i \in DOMAIN assignment' : Backed(i)'
  BY <1>9, <1>10, <1>11
<1>13. OneAssignment'
  <2>1. \A i \in DOMAIN assignment :
          assignment'[i].live => ~(/\ assignment'[i].user = a.user /\ assignment'[i].role = a.role
                                   /\ assignment'[i].scope = a.scope)
    BY <1>6
  <2>2. \A i \in DOMAIN assignment :
          /\ assignment'[i].user = assignment[i].user /\ assignment'[i].role = assignment[i].role
          /\ assignment'[i].scope = assignment[i].scope
          /\ assignment'[i].live => assignment[i].live
    BY <1>6 DEF SameRows
  <2> QED BY <1>5, <1>11, <2>1, <2>2 DEF OneAssignment
<1> QED BY <1>5, <1>8, <1>12, <1>13, AuthorityFromBacked DEF AuthorityHolds

LEMMA RolesAsTheyAre ==
  ASSUME AuthorityHolds, UNCHANGED role
  PROVE  RolesGrow
BY DEF AuthorityHolds, RolesGrow

\* Principals that there were, and none built in this step.
LEMMA PrincipalsStay ==
  ASSUME AuthorityHolds,
         \A q \in Request : Command(q)' => Command(q) /\ request'[q] = request[q]
  PROVE  PrincipalsRest
BY DEF AuthorityHolds, PrincipalsHold, PrincipalsRest

LEMMA AuthorityUntouched ==
  ASSUME AInv, UNCHANGED authority, PrincipalsRest
  PROVE  AuthorityHolds' /\ AuthorityIsHandedDown' /\ OneAssignment'
<1>1. AuthorityHolds /\ AuthorityIsHandedDown /\ OneAssignment
  BY DEF AInv
<1>2. UNCHANGED role /\ assignment' = assignment
  BY GroupsStay
<1> QED BY <1>1, <1>2, RolesAsTheyAre, RowsAsTheyAre, AuthorityKept

LEMMA GrantsAreGranted ==
  ASSUME NEW u, NEW g \in Grants(u)
  PROVE  GrantedTo(u, g.permission, g.scope)
BY DEF Grants, GrantedTo, Live

\* What a request that is not answered now finds.
LEMMA PrincipalsByDone ==
  ASSUME AInv, (\E r \in Request : Done(r)) \/ UNCHANGED request
  PROVE  PrincipalsRest
<1>1. RequestTypes /\ AuthorityHolds
  BY DEF AInv
<1>2. CASE UNCHANGED request
  BY <1>1, <1>2, RequestsUnchanged, PrincipalsStay
<1>3. ASSUME NEW r \in Request, Done(r) PROVE PrincipalsRest
  BY <1>1, <1>3, RequestsStay, PrincipalsStay
<1> QED BY <1>2, <1>3

LEMMA PrincipalsByArrival ==
  ASSUME AInv, NEW r \in Request, NEW u \in User,
         Arrive(r, u) \/ \E s \in Session : Authenticate(r, s, u)
  PROVE  PrincipalsRest
<1>1. RequestTypes /\ AuthorityHolds
  BY DEF AInv
<1>2. CASE Arrive(r, u)
  <2>1. \A q \in Request : Command(q)' => Command(q) /\ request'[q] = request[q]
    BY <1>1, <1>2 DEF Arrive, Command, RequestTypes
  <2> QED BY <1>1, <2>1, PrincipalsStay
<1>3. ASSUME NEW s \in Session, Authenticate(r, s, u)
      PROVE  PrincipalsRest
  <2> DEFINE a == session[s].user
             new == [kind |-> "command", actor |-> a, session |-> s, grants |-> Grants(a),
                     v1 |-> account[a].v1, user |-> u, row |-> account[u], known |-> Len(secret)]
  <2>1. request' = [request EXCEPT ![r] = new]
    BY <1>3 DEF Authenticate
  <2> HIDE DEF a
  <2>2. new.actor = a /\ new.grants = Grants(a)
    OBVIOUS
  <2> HIDE DEF new
  <2>3. request'[r] = new /\ \A q \in Request \ {r} : request'[q] = request[q]
    BY <1>1, <2>1 DEF RequestTypes
  <2>4. ASSUME NEW q \in Request, Command(q)', NEW g \in request'[q].grants
        PROVE  GrantedTo(request'[q].actor, g.permission, g.scope)
    <3>1. CASE q = r
      <4>1. g \in Grants(a) /\ request'[q].actor = a
        BY <2>2, <2>3, <2>4, <3>1
      <4> QED BY <4>1, GrantsAreGranted
    <3>2. CASE q # r
      <4>1. request'[q] = request[q]
        BY <2>3, <3>2
      <4>2. Command(q) /\ g \in request[q].grants
        BY <2>4, <4>1 DEF Command
      <4>3. PrincipalsHold
        BY <1>1 DEF AuthorityHolds
      <4> QED BY <4>1, <4>2, <4>3 DEF PrincipalsHold
    <3> QED BY <3>1, <3>2
  <2> QED BY <2>4 DEF PrincipalsRest
<1> QED BY <1>2, <1>3

-----------------------------------------------------------------------------
(* The commands that give or take roles.                                   *)

LEMMA AuthorityByCreateRole ==
  ASSUME AInv, NEW r \in Request, NEW ro \in Role, NEW P \in SUBSET Permission, CreateRole(r, ro, P)
  PROVE  AuthorityHolds' /\ AuthorityIsHandedDown' /\ OneAssignment'
<1>1. AuthorityHolds /\ AuthorityIsHandedDown /\ OneAssignment
  BY DEF AInv
<1>2. role[ro] = {} /\ role' = [role EXCEPT ![ro] = P] /\ assignment' = assignment /\ Done(r)
  BY DEF CreateRole
<1>3. RolesGrow
  BY <1>1, <1>2 DEF AuthorityHolds, RolesGrow, RolePermissions
<1> QED BY <1>1, <1>2, <1>3, RowsAsTheyAre, PrincipalsByDone, AuthorityKept

LEMMA AuthorityByAssignRole ==
  ASSUME AInv, NEW r \in Request, NEW ro \in Role, NEW scope \in Scope, AssignRole(r, ro, scope)
  PROVE  AuthorityHolds' /\ AuthorityIsHandedDown' /\ OneAssignment'
<1> DEFINE u == request[r].user
           a == [user |-> u, role |-> ro, scope |-> scope, by |-> request[r].actor, live |-> TRUE]
<1>1. AuthorityHolds /\ AuthorityIsHandedDown /\ OneAssignment /\ RequestTypes
  BY DEF AInv
<1>2. Command(r) /\ Done(r) /\ role[ro] # {} /\ WithinCeiling(request[r].grants, role[ro], scope)
      /\ IndexAdmits(u, ro, scope) /\ Len(assignment) < MaxAssignments
      /\ assignment' = Append(assignment, a) /\ UNCHANGED role
  BY DEF AssignRole, Allows
<1>3. u \in User /\ request[r].actor \in User
  BY <1>1, <1>2, CommandLoaded
<1>4. a \in Assignment /\ a.user = u /\ a.role = ro /\ a.scope = scope /\ a.by = request[r].actor
  BY <1>3 DEF Assignment
<1> HIDE DEF a
<1>5. \A i \in DOMAIN assignment :
        assignment[i].live =>
          ~(assignment[i].user = a.user /\ assignment[i].role = a.role /\ assignment[i].scope = a.scope)
  BY <1>2, <1>4 DEF IndexAdmits, Live
<1>6. ASSUME NEW p \in role[ro]
      PROVE  Stands(request[r].actor, p, scope)
  <2>1. PICK g \in request[r].grants : g.permission = p /\ Covers(g.scope, scope)
    BY <1>2 DEF WithinCeiling
  <2>2. GrantedTo(request[r].actor, g.permission, g.scope)
    BY <1>1, <1>2 DEF AuthorityHolds, PrincipalsHold
  <2>3. Reaches(g.scope, scope)
    BY <2>1, AccountsAssumption DEF Covers, Reaches
  <2> QED BY <2>1, <2>2, <2>3 DEF GrantedTo, Stands
<1>7. role[a.role] # {} /\ \A p \in role[a.role] : Stands(a.by, p, a.scope)
  BY <1>2, <1>4, <1>6
<1> QED BY <1>1, <1>2, <1>4, <1>5, <1>7, RowsAsTheyAre, PrincipalsByDone, AuthorityHandedDown

LEMMA AuthorityByRemoveRole ==
  ASSUME AInv, NEW r \in Request, NEW ro \in Role, RemoveRole(r, ro)
  PROVE  AuthorityHolds' /\ AuthorityIsHandedDown' /\ OneAssignment'
<1> DEFINE rows == {i \in Live : assignment[i].user = request[r].user /\ assignment[i].role = ro}
<1>1. AuthorityHolds /\ AuthorityIsHandedDown /\ OneAssignment
  BY DEF AInv
<1>2. assignment' = WithoutAssignments(rows) /\ UNCHANGED role /\ Done(r)
  BY DEF RemoveRole
<1> HIDE DEF rows
<1>3. SameRows(WithoutAssignments(rows))
  BY <1>1, RowsWithout
<1> QED BY <1>1, <1>2, <1>3, RolesAsTheyAre, PrincipalsByDone, AuthorityKept

LEMMA AuthorityBySync ==
  ASSUME AInv, NEW r \in Request, Command(r), Done(r), UNCHANGED role,
         NEW branches \in SUBSET Branch, SyncCashier(r, request[r].user, branches)
  PROVE  AuthorityHolds' /\ AuthorityIsHandedDown' /\ OneAssignment'
<1> DEFINE u == request[r].user
           held == {i \in Live : assignment[i].user = u /\ assignment[i].role = Cashier}
           kept == {i \in held : assignment[i].scope \in branches}
           rows == WithoutAssignments(held \ kept)
<1>1. AuthorityHolds /\ AuthorityIsHandedDown /\ OneAssignment /\ RequestTypes
  BY DEF AInv
<1>2. SameRows(rows) /\ PrincipalsRest /\ RolesGrow
  BY <1>1, RowsWithout, PrincipalsByDone, RolesAsTheyAre
<1>3. CASE assignment' = rows
  <2> HIDE DEF rows
  <2> QED BY <1>1, <1>2, <1>3, AuthorityKept
<1>4. ASSUME kept = {}, Len(assignment) < MaxAssignments, NEW b \in branches,
             assignment' = Append(rows,
               [user |-> u, role |-> Cashier, scope |-> b, by |-> request[r].actor, live |-> TRUE])
      PROVE  AuthorityHolds' /\ AuthorityIsHandedDown' /\ OneAssignment'
  <2> DEFINE a == [user |-> u, role |-> Cashier, scope |-> b, by |-> request[r].actor, live |-> TRUE]
  <2>1. u \in User /\ request[r].actor \in User /\ Cashier \in Role
    BY <1>1, CommandLoaded, AccountsAssumption
  <2>2. a \in Assignment /\ a.user = u /\ a.role = Cashier /\ a.scope = b /\ MadeByV1(a)
    BY <2>1 DEF Assignment, Scope, MadeByV1
  <2>3. assignment' = Append(rows, a)
    BY <1>4
  <2> HIDE DEF a
  <2>4. ASSUME NEW i \in DOMAIN assignment, rows[i].live
        PROVE  ~(rows[i].user = a.user /\ rows[i].role = a.role /\ rows[i].scope = a.scope)
    <3>1. i \notin held \ kept /\ assignment[i].live
      BY <1>1, <1>2, <2>4, RowsWithout DEF SameRows
    <3>2. i \notin held
      BY <1>4, <3>1
    <3>3. ~(assignment[i].user = u /\ assignment[i].role = Cashier)
      BY <3>1, <3>2 DEF Live
    <3> HIDE DEF rows
    <3> QED BY <1>2, <2>2, <3>3 DEF SameRows
  <2> HIDE DEF rows
  <2> QED BY <1>1, <1>2, <1>4, <2>2, <2>3, <2>4, AuthorityHandedDown
<1> QED BY <1>3, <1>4 DEF SyncCashier

LEMMA AuthorityPreserved ==
  ASSUME AInv, [Next]_accountVars
  PROVE  AuthorityHolds' /\ AuthorityIsHandedDown' /\ OneAssignment'
<1> DEFINE Kept == AuthorityHolds' /\ AuthorityIsHandedDown' /\ OneAssignment'
<1> HIDE DEF Kept
<1>1. UNCHANGED authority /\ PrincipalsRest => Kept
  BY AuthorityUntouched DEF Kept
<1>2. UNCHANGED request \/ (\E r \in Request : Done(r)) => PrincipalsRest
  BY PrincipalsByDone
<1>3. ASSUME UNCHANGED accountVars PROVE Kept
  BY <1>1, <1>2, <1>3, EverythingStays, IdentityStays
<1>4. ASSUME NEW r \in Request, NEW u \in User,
             Arrive(r, u) \/ \E s \in Session : Authenticate(r, s, u)
      PROVE  Kept
  <2>1. UNCHANGED authority
    BY <1>4, IdentityStays DEF Arrive, Authenticate
  <2> QED BY <1>1, <1>4, <2>1, PrincipalsByArrival
<1>5. ASSUME NEW r \in Request, Visits(r) \/ Abandon(r) PROVE Kept
  <2>1. UNCHANGED authority /\ Done(r)
    BY <1>5, IdentityStays
       DEF Visits, LoginFails, LoginDenied, RequestRecovery, RequestCode, CodeRejected, Login,
           VerifyCode, GoogleDenied, LoginGoogle, Abandon
  <2> QED BY <1>1, <1>2, <2>1
<1>6. ASSUME NEW r \in Request,
             \/ Logout(r) \/ ChangePassword(r) \/ ChallengeToLink(r) \/ UnlinkGoogle(r)
             \/ \E i \in DOMAIN secret, sub \in Subject : LinkGoogle(r, i, sub)
             \/ CreateUser(r) \/ DisableUser(r) \/ EnableUser(r) \/ RevokeUserSessions(r)
      PROVE  Kept
  <2>1. UNCHANGED authority /\ Done(r)
    BY <1>6 DEF Logout, ChangePassword, ChallengeToLink, UnlinkGoogle, LinkGoogle, CreateUser,
                DisableUser, EnableUser, RevokeUserSessions
  <2> QED BY <1>1, <1>2, <2>1
<1>7. ASSUME NEW r \in Request, NEW v1, NEW b \in Branch, CreateUserV1(r, v1, b)
      PROVE  Kept
  <2>1. CashierBranch(v1, "active", b) \in SUBSET Branch
    BY DEF CashierBranch
  <2> QED BY <1>7, <2>1, AuthorityBySync DEF CreateUserV1, AdminV1, Kept
<1>8. ASSUME NEW r \in Request, NEW v1, NEW b \in Branch, NEW active, NEW password,
             UpdateUser(r, v1, b, active, password)
      PROVE  Kept
  <2> DEFINE status == IF active THEN "active" ELSE "disabled"
  <2>1. SyncCashier(r, request[r].user, CashierBranch(v1, status, b)) /\ Command(r) /\ Done(r)
        /\ UNCHANGED role
    BY <1>8 DEF UpdateUser, AdminV1
  <2> HIDE DEF status
  <2>2. CashierBranch(v1, status, b) \in SUBSET Branch
    BY DEF CashierBranch
  <2> QED BY <2>1, <2>2, AuthorityBySync DEF Kept
<1>9. ASSUME NEW r \in Request, NEW ro \in Role,
             \/ \E P \in SUBSET Permission : CreateRole(r, ro, P)
             \/ \E sc \in Scope : AssignRole(r, ro, sc)
             \/ RemoveRole(r, ro)
      PROVE  Kept
  BY <1>9, AuthorityByCreateRole, AuthorityByAssignRole, AuthorityByRemoveRole DEF Kept
<1>10. ASSUME NEW r \in Request, Commands(r) PROVE Kept
  BY <1>6, <1>7, <1>8, <1>9, <1>10 DEF Commands
<1>11. ASSUME NEW i \in DOMAIN secret,
              CompleteRecovery(i) \/ \E s \in Session : Refresh(s, i) \/ RefreshReused(s, i)
       PROVE  Kept
  BY <1>1, <1>2, <1>11 DEF CompleteRecovery, Refresh, RefreshReused
<1>12. ASSUME CreateChallenge \/ Platform \/ Time PROVE Kept
  <2>1. UNCHANGED authority /\ UNCHANGED request
    BY <1>12, IdentityStays
       DEF CreateChallenge, Platform, Time, SuspendCompany, ReactivateCompany, RevokeCompanySessions,
           ResetAdminPassword, LockRunsOut, SessionRunsOut, SecretRunsOut, ThrottleRunsOut
  <2> QED BY <1>1, <1>2, <2>1
<1>13. Kept
  BY <1>3, <1>4, <1>5, <1>10, <1>11, <1>12 DEF Next
<1> QED BY <1>13 DEF Kept

LEMMA APreserved == AInv /\ [Next]_accountVars => AInv'
<1> SUFFICES ASSUME AInv, [Next]_accountVars PROVE AInv'
  OBVIOUS
<1>1. AccountTypes'
  BY AccountsPreserved
<1>2. OthersTypes'
  BY OthersPreserved
<1>3. RequestTypes'
  BY RequestsPreserved
<1>4. SecretsHold' /\ SessionTypes'
  BY SecretsPreserved
<1>5. AuthorityHolds' /\ AuthorityIsHandedDown' /\ OneAssignment'
  BY AuthorityPreserved
<1> QED BY <1>1, <1>2, <1>3, <1>4, <1>5 DEF AInv

-----------------------------------------------------------------------------
\* The strengthening is inductive: the rows of their types, every session of a user, what a secret was
\* good for against its state and against the token its session knows, who a request acts for against
\* the assignments there are, and who stands for each of them (app/modules/identity).
THEOREM AccountsInductive == Spec => []AInv
<1>1. Init => AInv
  BY AInitially
<1>2. AInv /\ [Next]_accountVars => AInv'
  BY APreserved
<1> QED BY <1>1, <1>2, PTL DEF Spec

\* Whatever requests overlap, the rows stay of their types, a Google account is linked to one user at
\* most, and no user holds one role twice at one scope (the models and the unique indexes of identity).
THEOREM AccountsTypes == Spec => []AccountsTypeOK
<1>1. AInv => AccountsTypeOK
  BY DEF AInv, AccountTypes, SessionTypes, OthersTypes, RequestTypes, SecretsHold, OneAssignment,
         AuthorityHolds, AccountsTypeOK
<1> QED BY <1>1, AccountsInductive, PTL

\* A recovery link, a code or a challenge is good for one thing and a refresh token for one exchange,
\* whatever replays, revocations and expiries come between (recovery.py, google.py and refresh in auth.py).
THEOREM SpentOnce == Spec => []SecretsAreSpentOnce
<1>1. AInv => SecretsAreSpentOnce
  BY DEF AInv, SecretsHold, GoodToken, GoodOnce, SecretsAreSpentOnce
<1> QED BY <1>1, AccountsInductive, PTL

\* Nobody hands out more than they were handed: not by a principal built before their roles were
\* removed, nor by making a role first and assigning it later (assert_within_ceiling).
THEOREM HandedDown == Spec => []AuthorityIsHandedDown
<1>1. AInv => AuthorityIsHandedDown
  BY DEF AInv
<1> QED BY <1>1, AccountsInductive, PTL
=============================================================================
