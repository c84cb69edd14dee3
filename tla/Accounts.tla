------------------------------- MODULE Accounts -------------------------------
(***************************************************************************)
(* The accounts of a tenant (app/modules/identity and the v1 users route): *)
(* their status, sessions with a rotating refresh token, recovery tokens   *)
(* and codes, Google challenges and links, roles and their assignments.    *)
(*                                                                         *)
(* Almost no command locks the account.  A request therefore begins by     *)
(* loading what it decides on (Arrive, Authenticate) and commits later,    *)
(* writing the columns it changed over whatever others wrote meanwhile;    *)
(* the bulk revocations reach the rows there are when they run.  What is   *)
(* taken by one UPDATE ... WHERE or under FOR UPDATE is one step.          *)
(*                                                                         *)
(* A secret is the number it was issued under.  E-mail addresses, delivery *)
(* and the per-address throttles, which only turn a request away, are left *)
(* out; permissions are a few, each for the commands it opens.             *)
(***************************************************************************)
EXTENDS Naturals, FiniteSets, Sequences

CONSTANTS
  User, Session, Request, Subject,
  Role, Permission,             \* what roles are made of; "users" and "roles" open the commands here
  Branch, CashPoint, BranchOf,  \* the scopes of an assignment below the tenant
  LockFailures, CodeAttempts,   \* failed logins before a lock; wrong codes before the code dies
  None,
  MaxSecrets, MaxAssignments    \* bounds: secrets issued, assignments made

\* The system roles: of the owner, made with the company, and of a cashier.
Owner == "Administrador de agencia"
Cashier == "Cajero"

ASSUME AccountsAssumption ==
  /\ {Owner, Cashier} \subseteq Role
  /\ {"users", "roles"} \subseteq Permission
  /\ BranchOf \in [CashPoint -> Branch]
  /\ None \notin User \cup Session \cup Subject \cup Branch
  /\ {LockFailures, CodeAttempts, MaxSecrets} \subseteq Nat /\ MaxAssignments \in Nat \ {0}

VARIABLES
  account,     \* users, with the Google subject of their active external identity
  session,     \* user_sessions
  secret,      \* recovery_tokens, oidc_challenges and the refresh tokens handed out, in order
  failures,    \* auth_throttle, of logins: failed in a row
  attempts,    \* auth_throttle, of codes
  role,        \* roles with role_permissions
  assignment,  \* user_role_assignments, in order
  request,     \* what each request loaded
  tenant       \* the status of the company

access == <<session, secret>>
throttle == <<failures, attempts>>
authority == <<role, assignment>>
identity == <<account, access, throttle, authority>>
accountVars == <<identity, request, tenant>>

Scope == {"tenant", "own"} \cup Branch \cup CashPoint
Grant == [permission : Permission, scope : Scope]
Status == {"absent", "pending", "active", "locked", "disabled"}
V1Role == {"admin", "cashier", "collector"}

\* `password` is whether the person chose one: an invited account has a placeholder nobody knows.
Account ==
  [status : Status, activated : BOOLEAN, lockOver : BOOLEAN, password : BOOLEAN,
   v1 : V1Role \cup {None}, google : Subject \cup {None}]
Absent ==
  [status |-> "absent", activated |-> FALSE, lockOver |-> FALSE, password |-> FALSE, v1 |-> None,
   google |-> None]

\* A refresh token is of its session, another secret of its user; `taken` counts what it was good for.
Secret ==
  [kind : {"refresh", "link", "code", "login", "attach"}, of : User \cup Session \cup {None},
   state : {"live", "used", "revoked", "over"}, taken : 0..2]
Recovery == {"link", "code"}

SessionRow ==
  [user : User \cup {None}, live : BOOLEAN, over : BOOLEAN, token : 0..MaxSecrets]
Attempts == [tries : 0..CodeAttempts, blocked : BOOLEAN]
RolePermissions == SUBSET Permission

Assignment ==
  [user : User, role : Role, scope : Scope, by : User \cup {None}, live : BOOLEAN]

NoRequest == [kind |-> "none"]
\* `known` is how many secrets there were: a revocation may miss those issued since.
Requests ==
  {NoRequest}
    \cup [kind : {"visit"}, user : User, row : Account, known : 0..MaxSecrets]
    \cup [kind : {"command"}, actor : User, session : Session, grants : SUBSET Grant,
          v1 : V1Role \cup {None}, user : User, row : Account, known : 0..MaxSecrets]

AccountsTypeOK ==
  /\ account \in [User -> Account]
  /\ session \in [Session -> SessionRow]
  /\ secret \in Seq(Secret) /\ Len(secret) <= MaxSecrets
  /\ \A u, v \in User : account[u].google = account[v].google => u = v \/ account[u].google = None
  /\ failures \in [User -> 0..LockFailures]
  /\ attempts \in [User -> Attempts]
  /\ role \in [Role -> RolePermissions]
  /\ assignment \in Seq(Assignment) /\ Len(assignment) <= MaxAssignments
  /\ \A i, j \in DOMAIN assignment :
       LET a == assignment[i] b == assignment[j] IN
       a.live /\ b.live /\ a.user = b.user /\ a.role = b.role /\ a.scope = b.scope => i = j
  /\ request \in [Request -> Requests]
  /\ tenant \in {"active", "inactive"}

-----------------------------------------------------------------------------
Revoked(s) == [s EXCEPT !.live = FALSE]
SessionsOf(u) == {s \in Session : session[s].user = u /\ session[s].live}
RevokeSessions(S) == session' = [s \in Session |-> IF s \in S THEN Revoked(session[s]) ELSE session[s]]

\* The recovery tokens of the user that a bulk revocation reaches; `missed` were inserted meanwhile.
LiveTokens(u) ==
  {i \in DOMAIN secret : secret[i].of = u /\ secret[i].kind \in Recovery /\ secret[i].state = "live"}
Missable(r) == {i \in LiveTokens(request[r].user) : i > request[r].known}
WithRevoked(I) ==
  [i \in DOMAIN secret |-> IF i \in I THEN [secret[i] EXCEPT !.state = "revoked"] ELSE secret[i]]
New(kind, of) == [kind |-> kind, of |-> of, state |-> "live", taken |-> 0]
\* issue_token: the live ones the revocation reached give way to a new one.
IssueToken(r, kind) ==
  /\ Len(secret) < MaxSecrets
  /\ \E missed \in SUBSET Missable(r) :
       secret' = Append(WithRevoked(LiveTokens(request[r].user) \ missed), New(kind, request[r].user))
\* Taken by one UPDATE: whoever comes second finds used_at set.
MutantUsable(i) == secret[i].state \in {"live", "used"}
Usable(i) == secret[i].state = "live"
Used(i) == [secret[i] EXCEPT !.state = "used"]
Spent(i) == [Used(i) EXCEPT !.taken = (@ + 1)]

Done(r) == request' = [request EXCEPT ![r] = NoRequest]
Command(r) == request[r].kind = "command"
OwnCommand(r) == Command(r) /\ request[r].user = request[r].actor
Visit(r) == request[r].kind = "visit"

-----------------------------------------------------------------------------
(* Authorization. *)
Live == {i \in DOMAIN assignment : assignment[i].live}
Grants(u) ==
  {g \in Grant : \E i \in Live : /\ assignment[i].user = u /\ assignment[i].scope = g.scope
                                 /\ g.permission \in role[assignment[i].role]}
Held(u) == {g.permission : g \in Grants(u)}

\* A grant covers a scope: tenant-wide, or there, or in the branch of the cash point.
MutantCovers(scope, asked) == scope # "own"
Covers(scope, asked) ==
  \/ scope = "tenant"
  \/ asked \in Branch /\ scope = asked
  \/ asked \in CashPoint /\ scope \in {asked, BranchOf[asked]}
WithinCeiling(grants, permissions, scope) ==
  \A p \in permissions : \E g \in grants : g.permission = p /\ Covers(g.scope, scope)
Allows(r, p) == Command(r) /\ [permission |-> p, scope |-> "tenant"] \in request[r].grants

\* authenticate_access_token and build_principal, and the load of the user the command is about.
Authenticate(r, s, u) ==
  /\ request[r] = NoRequest
  /\ session[s].live /\ ~session[s].over
  /\ tenant = "active"
  /\ LET a == session[s].user IN
     /\ account[a].status = "active"
     /\ request' = [request EXCEPT ![r] =
          [kind |-> "command", actor |-> a, session |-> s, grants |-> Grants(a),
           v1 |-> account[a].v1, user |-> u, row |-> account[u], known |-> Len(secret)]]
  /\ UNCHANGED <<identity, tenant>>

\* An anonymous request resolves the account it names.
Arrive(r, u) ==
  /\ request[r] = NoRequest
  /\ account[u].status # "absent"
  /\ request' = [request EXCEPT ![r] =
       [kind |-> "visit", user |-> u, row |-> account[u], known |-> Len(secret)]]
  /\ UNCHANGED <<identity, tenant>>

Abandon(r) == request[r] # NoRequest /\ Done(r) /\ UNCHANGED <<identity, tenant>>

-----------------------------------------------------------------------------
(* Login, sessions and passwords (auth.py). *)
LockExpired(row) == row.status = "locked" /\ row.lockOver
StatusAtLogin(row) == IF LockExpired(row) THEN "active" ELSE row.status
\* Only an expired lock makes a login write the status.
Unlock(u, row) ==
  account' = IF LockExpired(row)
             THEN [account EXCEPT ![u].status = "active", ![u].lockOver = FALSE]
             ELSE account

\* A session is inserted with its first refresh token.
IssueSession(s, u, secrets) ==
  /\ Len(secrets) < MaxSecrets
  /\ session[s].user = None
  /\ secret' = Append(secrets, New("refresh", s))
  /\ session' = [session EXCEPT ![s] =
       [user |-> u, live |-> TRUE, over |-> FALSE, token |-> Len(secrets) + 1]]

LoginFails(r) ==
  LET u == request[r].user
      n == IF failures[u] = LockFailures THEN LockFailures ELSE failures[u] + 1 IN
  /\ Visit(r)
  /\ failures' = [failures EXCEPT ![u] = n]
  /\ IF request[r].row.status = "active" /\ n = LockFailures
     THEN /\ account' = [account EXCEPT ![u].status = "locked", ![u].lockOver = FALSE]
          /\ RevokeSessions(SessionsOf(u))
     ELSE UNCHANGED <<account, session>>
  /\ Done(r)
  /\ UNCHANGED <<secret, attempts, authority, tenant>>

\* With the password: a session, unless the status or the tenant denies it.
Login(r, s) ==
  LET u == request[r].user row == request[r].row IN
  /\ Visit(r)
  /\ row.password /\ StatusAtLogin(row) = "active" /\ tenant = "active"
  /\ Unlock(u, row)
  /\ IssueSession(s, u, secret)
  /\ failures' = [failures EXCEPT ![u] = 0]
  /\ Done(r)
  /\ UNCHANGED <<attempts, authority, tenant>>
LoginDenied(r) ==
  LET row == request[r].row IN
  /\ Visit(r)
  /\ row.password
  /\ StatusAtLogin(row) = "active" => tenant = "inactive"
  /\ Unlock(request[r].user, row)
  /\ Done(r)
  /\ UNCHANGED <<access, throttle, authority, tenant>>

\* Under FOR UPDATE of the session: the current token is exchanged, a superseded one ends the session.
Refresh(s, i) ==
  /\ secret[i].kind = "refresh" /\ secret[i].of = s
  /\ session[s].live
  /\ i = session[s].token
  /\ ~session[s].over /\ account[session[s].user].status = "active"
  /\ Len(secret) < MaxSecrets
  /\ secret' = Append([secret EXCEPT ![i] = Spent(i)], New("refresh", s))
  /\ session' = [session EXCEPT ![s].token = Len(secret) + 1]
  /\ UNCHANGED <<account, throttle, authority, request, tenant>>
RefreshReused(s, i) ==
  /\ secret[i].kind = "refresh" /\ secret[i].of = s
  /\ session[s].live
  /\ i # session[s].token
  /\ session' = [session EXCEPT ![s] = Revoked(@)]
  /\ UNCHANGED <<account, secret, throttle, authority, request, tenant>>

Logout(r) ==
  /\ OwnCommand(r)
  /\ session' = [session EXCEPT ![request[r].session] = Revoked(@)]
  /\ Done(r)
  /\ UNCHANGED <<account, secret, throttle, authority, tenant>>
ChangePassword(r) ==
  /\ OwnCommand(r) /\ request[r].row.password
  /\ RevokeSessions(SessionsOf(request[r].actor) \ {request[r].session})
  /\ Done(r)
  /\ UNCHANGED <<account, secret, throttle, authority, tenant>>

-----------------------------------------------------------------------------
(* Recovery (recovery.py). *)
RequestRecovery(r) ==
  /\ Visit(r) /\ tenant = "active"
  /\ request[r].row.status # "disabled"
  /\ IssueToken(r, "link")
  /\ Done(r)
  /\ UNCHANGED <<account, session, throttle, authority, tenant>>
\* The token is consumed first and the account locked; of a disabled account it stays consumed.
CompleteRecovery(i) ==
  LET u == secret[i].of IN
  /\ secret[i].kind = "link" /\ Usable(i)
  /\ IF account[u].status = "disabled"
     THEN secret' = [secret EXCEPT ![i] = Used(i)] /\ UNCHANGED <<account, session, failures>>
     ELSE /\ secret' = [secret EXCEPT ![i] = Spent(i)]
          /\ account' = [account EXCEPT ![u] =
               IF @.status \in {"pending", "locked"}
               THEN [@ EXCEPT !.status = "active", !.activated = TRUE, !.lockOver = FALSE,
                              !.password = TRUE]
               ELSE [@ EXCEPT !.password = TRUE]]
          /\ RevokeSessions(SessionsOf(u))
          /\ failures' = [failures EXCEPT ![u] = 0]
  /\ UNCHANGED <<attempts, authority, request, tenant>>

RequestCode(r) ==
  /\ Visit(r)
  /\ request[r].row.status = "active"
  /\ IssueToken(r, "code")
  /\ attempts' = [attempts EXCEPT ![request[r].user] = [tries |-> 0, blocked |-> FALSE]]
  /\ Done(r)
  /\ UNCHANGED <<account, session, failures, authority, tenant>>
\* A right code is exchanged for a token; of another live code there is none.
VerifyCode(r, i) ==
  LET u == request[r].user IN
  /\ Visit(r) /\ ~attempts[u].blocked
  /\ request[r].row.status = "active"
  /\ secret[i].kind = "code" /\ secret[i].of = u /\ Usable(i)
  /\ Len(secret) < MaxSecrets
  /\ \E missed \in SUBSET (Missable(r) \ {i}) :
       secret' = Append([WithRevoked(LiveTokens(u) \ missed) EXCEPT ![i] = Spent(i)], New("link", u))
  /\ attempts' = [attempts EXCEPT ![u] = [tries |-> 0, blocked |-> FALSE]]
  /\ Done(r)
  /\ UNCHANGED <<account, session, failures, authority, tenant>>
\* A wrong one counts, and at the limit the live tokens die with it.
CodeRejected(r) ==
  LET u == request[r].user
      n == IF attempts[u].tries = CodeAttempts THEN CodeAttempts ELSE attempts[u].tries + 1 IN
  /\ Visit(r) /\ ~attempts[u].blocked
  /\ attempts' = [attempts EXCEPT ![u] = [tries |-> n, blocked |-> n = CodeAttempts]]
  /\ IF n = CodeAttempts
     THEN \E missed \in SUBSET Missable(r) : secret' = WithRevoked(LiveTokens(u) \ missed)
     ELSE UNCHANGED secret
  /\ Done(r)
  /\ UNCHANGED <<account, session, failures, authority, tenant>>

-----------------------------------------------------------------------------
(* Google (google.py). *)
CreateChallenge ==
  /\ tenant = "active"
  /\ Len(secret) < MaxSecrets
  /\ secret' = Append(secret, New("login", None))
  /\ UNCHANGED <<account, session, throttle, authority, request, tenant>>
ChallengeToLink(r) ==
  /\ OwnCommand(r)
  /\ Len(secret) < MaxSecrets
  /\ secret' = Append(secret, New("attach", request[r].actor))
  /\ Done(r)
  /\ UNCHANGED <<account, session, throttle, authority, tenant>>

\* The challenge is consumed whatever becomes of the login.
LoginGoogle(r, i, s) ==
  LET row == request[r].row IN
  /\ Visit(r) /\ tenant = "active"
  /\ secret[i].kind = "login" /\ Usable(i)
  /\ row.google # None /\ StatusAtLogin(row) = "active"
  /\ Unlock(request[r].user, row)
  /\ IssueSession(s, request[r].user, [secret EXCEPT ![i] = Spent(i)])
  /\ Done(r)
  /\ UNCHANGED <<throttle, authority, tenant>>
GoogleDenied(r, i) ==
  LET row == request[r].row IN
  /\ Visit(r) /\ tenant = "active"
  /\ secret[i].kind = "login" /\ Usable(i)
  /\ row.google = None \/ StatusAtLogin(row) # "active"
  /\ secret' = [secret EXCEPT ![i] = Used(i)]
  /\ Done(r)
  /\ UNCHANGED <<account, session, throttle, authority, tenant>>

\* Consumed too when the subject or the account is already linked; then nothing changes.
IndexAdmitsLink(u, subject) ==
  account[u].google = None /\ \A v \in User : account[v].google # subject
LinkGoogle(r, i, subject) ==
  LET u == request[r].actor IN
  /\ OwnCommand(r)
  /\ secret[i].kind = "attach" /\ secret[i].of = u /\ Usable(i)
  /\ IF IndexAdmitsLink(u, subject)
     THEN /\ secret' = [secret EXCEPT ![i] = Spent(i)]
          /\ account' = [account EXCEPT ![u].google = subject]
     ELSE secret' = [secret EXCEPT ![i] = Used(i)] /\ UNCHANGED account
  /\ Done(r)
  /\ UNCHANGED <<session, throttle, authority, tenant>>
UnlinkGoogle(r) ==
  /\ OwnCommand(r)
  /\ account' = [account EXCEPT ![request[r].actor].google = None]
  /\ Done(r)
  /\ UNCHANGED <<access, throttle, authority, tenant>>

-----------------------------------------------------------------------------
(* Administration (admin.py), and the v1 users route. *)
CreateUser(r) ==
  LET u == request[r].user IN
  /\ Allows(r, "users")
  /\ account[u].status = "absent"
  /\ account' = [account EXCEPT ![u] = [Absent EXCEPT !.status = "pending"]]
  /\ IssueToken(r, "link")
  /\ Done(r)
  /\ UNCHANGED <<session, throttle, authority, tenant>>

\* The custody and cash guards are those of FieldCustody and CashSessions.
DisableUser(r) ==
  LET u == request[r].user IN
  /\ Allows(r, "users")
  /\ u # request[r].actor
  /\ request[r].row.status \in {"pending", "active", "locked"}
  /\ WithinCeiling(request[r].grants, Held(u), "tenant")
  /\ account' = [account EXCEPT ![u].status = "disabled"]
  /\ RevokeSessions(SessionsOf(u))
  /\ Done(r)
  /\ UNCHANGED <<secret, throttle, authority, tenant>>

EnableUser(r) ==
  LET u == request[r].user row == request[r].row IN
  /\ Allows(r, "users")
  /\ row.status \in {"disabled", "locked"}
  /\ account' = [account EXCEPT
       ![u].status = IF row.activated THEN "active" ELSE "pending", ![u].lockOver = FALSE]
  /\ Done(r)
  /\ UNCHANGED <<access, throttle, authority, tenant>>

RevokeUserSessions(r) ==
  /\ Allows(r, "users")
  /\ RevokeSessions(SessionsOf(request[r].user))
  /\ Done(r)
  /\ UNCHANGED <<account, secret, throttle, authority, tenant>>

CreateRole(r, ro, permissions) ==
  /\ Allows(r, "roles")
  /\ role[ro] = {} /\ permissions # {}
  /\ WithinCeiling(request[r].grants, permissions, "tenant")
  /\ role' = [role EXCEPT ![ro] = permissions]
  /\ Done(r)
  /\ UNCHANGED <<account, access, throttle, assignment, tenant>>

\* The unique indexes of active assignments.
IndexAdmits(u, ro, scope) ==
  \A i \in Live : assignment[i].user = u /\ assignment[i].role = ro => assignment[i].scope # scope
AssignRole(r, ro, scope) ==
  LET u == request[r].user IN
  /\ Allows(r, "roles")
  /\ role[ro] # {}
  /\ u # request[r].actor
  /\ request[r].row.status \notin {"absent", "disabled"}
  /\ WithinCeiling(request[r].grants, role[ro], scope)
  /\ IndexAdmits(u, ro, scope)
  /\ Len(assignment) < MaxAssignments
  /\ assignment' = Append(assignment,
       [user |-> u, role |-> ro, scope |-> scope, by |-> request[r].actor, live |-> TRUE])
  /\ Done(r)
  /\ UNCHANGED <<account, access, throttle, role, tenant>>

WithoutAssignments(I) ==
  [i \in DOMAIN assignment |-> IF i \in I THEN [assignment[i] EXCEPT !.live = FALSE] ELSE assignment[i]]
RemoveRole(r, ro) ==
  LET rows == {i \in Live : assignment[i].user = request[r].user /\ assignment[i].role = ro} IN
  /\ Allows(r, "roles")
  /\ WithinCeiling(request[r].grants, role[ro], "tenant")
  /\ rows # {}
  /\ assignment' = WithoutAssignments(rows)
  /\ Done(r)
  /\ UNCHANGED <<account, access, throttle, role, tenant>>

\* sync_cashier_assignment: an active cashier holds its role in its branch, anyone else nowhere.
SyncCashier(r, u, branches) ==
  LET held == {i \in Live : assignment[i].user = u /\ assignment[i].role = Cashier}
      kept == {i \in held : assignment[i].scope \in branches}
      revoked == WithoutAssignments(held \ kept) IN
  IF branches # {} /\ kept = {}
  THEN /\ Len(assignment) < MaxAssignments
       /\ \E b \in branches : assignment' = Append(revoked,
            [user |-> u, role |-> Cashier, scope |-> b, by |-> request[r].actor, live |-> TRUE])
  ELSE assignment' = revoked
CashierBranch(v1, status, b) == IF v1 = "cashier" /\ status = "active" THEN {b} ELSE {}

\* The v1 routes, open to the administrator of the company.
AdminV1(r) == Command(r) /\ request[r].v1 = "admin"
CreateUserV1(r, v1, b) ==
  LET u == request[r].user IN
  /\ AdminV1(r)
  /\ account[u].status = "absent"
  /\ account' = [account EXCEPT ![u] =
       [Absent EXCEPT !.status = "active", !.password = TRUE, !.v1 = v1]]
  /\ SyncCashier(r, u, CashierBranch(v1, "active", b))
  /\ Done(r)
  /\ UNCHANGED <<access, throttle, role, tenant>>

\* The setter of is_active, from the status that was loaded.
SetActive(u, row, active) ==
  CASE active /\ row.status # "active" ->
         [u EXCEPT !.status = "active", !.lockOver = FALSE, !.activated = TRUE]
    [] ~active /\ row.status # "disabled" -> [u EXCEPT !.status = "disabled"]
    [] OTHER -> u
UpdateUser(r, v1, b, active, password) ==
  LET u == request[r].user
      row == request[r].row
      status == IF active THEN "active" ELSE "disabled"
      changed == status # row.status
      new == SetActive(account[u], row, active) IN
  /\ AdminV1(r)
  /\ row.status # "absent" /\ row.v1 # None
  /\ account' = [account EXCEPT ![u] =
       [new EXCEPT !.v1 = v1, !.password = password \/ new.password]]
  /\ SyncCashier(r, u, CashierBranch(v1, status, b))
  /\ RevokeSessions(IF changed \/ password THEN SessionsOf(u) ELSE {})
  /\ Done(r)
  /\ UNCHANGED <<secret, throttle, role, tenant>>

-----------------------------------------------------------------------------
(* The platform (routes/platform.py), and what time does. *)
SuspendCompany ==
  tenant = "active" /\ tenant' = "inactive" /\ UNCHANGED <<identity, request>>
ReactivateCompany ==
  tenant = "inactive" /\ tenant' = "active" /\ UNCHANGED <<identity, request>>
RevokeCompanySessions ==
  /\ RevokeSessions(Session)
  /\ UNCHANGED <<account, secret, throttle, authority, request, tenant>>
ResetAdminPassword(u) ==
  /\ account[u].v1 = "admin"
  /\ account' = [account EXCEPT ![u].password = TRUE,
       ![u].status = IF @ = "locked" THEN "active" ELSE @, ![u].lockOver = FALSE]
  /\ RevokeSessions(SessionsOf(u))
  /\ UNCHANGED <<secret, throttle, authority, request, tenant>>

LockRunsOut(u) ==
  /\ account[u].status = "locked" /\ ~account[u].lockOver
  /\ account' = [account EXCEPT ![u].lockOver = TRUE]
  /\ UNCHANGED <<access, throttle, authority, request, tenant>>
SessionRunsOut(s) ==
  /\ session[s].live /\ ~session[s].over
  /\ session' = [session EXCEPT ![s].over = TRUE]
  /\ UNCHANGED <<account, secret, throttle, authority, request, tenant>>
SecretRunsOut(i) ==
  /\ secret[i].kind # "refresh" /\ secret[i].state = "live"
  /\ secret' = [secret EXCEPT ![i].state = "over"]
  /\ UNCHANGED <<account, session, throttle, authority, request, tenant>>
\* The window of the counters passes, and with it the failures; a block ends, and the tries stay.
ThrottleRunsOut(u) ==
  /\ \/ failures[u] > 0 /\ failures' = [failures EXCEPT ![u] = 0] /\ UNCHANGED attempts
     \/ attempts[u].blocked /\ attempts' = [attempts EXCEPT ![u].blocked = FALSE] /\ UNCHANGED failures
  /\ UNCHANGED <<account, access, authority, request, tenant>>

-----------------------------------------------------------------------------
\* A tenant begins with its owner, who holds every permission; the role of a cashier is the system's.
Init ==
  /\ \E owner \in User :
       /\ account = [u \in User |->
            IF u = owner
            THEN [Absent EXCEPT !.status = "active", !.activated = TRUE, !.password = TRUE, !.v1 = "admin"]
            ELSE Absent]
       /\ assignment = <<[user |-> owner, role |-> Owner, scope |-> "tenant", by |-> None, live |-> TRUE]>>
  /\ role = [ro \in Role |-> CASE ro = Owner -> Permission
                               [] ro = Cashier -> Permission \ {"users", "roles"}
                               [] OTHER -> {}]
  /\ session = [s \in Session |-> [user |-> None, live |-> FALSE, over |-> FALSE, token |-> 0]]
  /\ secret = <<>>
  /\ failures = [u \in User |-> 0]
  /\ attempts = [u \in User |-> [tries |-> 0, blocked |-> FALSE]]
  /\ request = [r \in Request |-> NoRequest]
  /\ tenant = "active"

Visits(r) ==
  \/ LoginFails(r) \/ LoginDenied(r) \/ RequestRecovery(r) \/ RequestCode(r) \/ CodeRejected(r)
  \/ \E s \in Session : Login(r, s)
  \/ \E i \in DOMAIN secret :
       \/ VerifyCode(r, i) \/ GoogleDenied(r, i)
       \/ \E s \in Session : LoginGoogle(r, i, s)
Commands(r) ==
  \/ Logout(r) \/ ChangePassword(r) \/ ChallengeToLink(r) \/ UnlinkGoogle(r)
  \/ \E i \in DOMAIN secret, sub \in Subject : LinkGoogle(r, i, sub)
  \/ CreateUser(r) \/ DisableUser(r) \/ EnableUser(r) \/ RevokeUserSessions(r)
  \/ \E ro \in Role : \/ \E P \in SUBSET Permission : CreateRole(r, ro, P)
                      \/ \E sc \in Scope : AssignRole(r, ro, sc)
                      \/ RemoveRole(r, ro)
  \/ \E v1 \in V1Role, b \in Branch :
       \/ CreateUserV1(r, v1, b)
       \/ \E active, password \in BOOLEAN : UpdateUser(r, v1, b, active, password)
Platform == SuspendCompany \/ ReactivateCompany \/ RevokeCompanySessions \/ \E u \in User : ResetAdminPassword(u)
Time ==
  \/ \E u \in User : LockRunsOut(u) \/ ThrottleRunsOut(u)
  \/ \E s \in Session : SessionRunsOut(s)
  \/ \E i \in DOMAIN secret : SecretRunsOut(i)

Next ==
  \/ \E r \in Request :
       \/ \E u \in User : Arrive(r, u) \/ \E s \in Session : Authenticate(r, s, u)
       \/ Abandon(r) \/ Visits(r) \/ Commands(r)
  \/ \E i \in DOMAIN secret : CompleteRecovery(i) \/ \E s \in Session : Refresh(s, i) \/ RefreshReused(s, i)
  \/ CreateChallenge
  \/ Platform \/ Time

Spec == Init /\ [][Next]_accountVars

-----------------------------------------------------------------------------
\* A secret is good for one thing only, and the refresh tokens of a session form one line that ends in
\* the token the session knows: replays of a link, a code, a challenge or a superseded token, in
\* whatever order, buy nothing (complete_recovery, verify_code, _consume_challenge, refresh).
SecretsAreSpentOnce ==
  \A i \in DOMAIN secret :
    /\ secret[i].taken <= 1
    /\ secret[i].kind # "refresh" => (secret[i].taken = 1 => secret[i].state = "used")
    /\ secret[i].kind = "refresh" =>
         (secret[i].taken = 0 <=> i = session[secret[i].of].token)

\* Whoever assigned a role held every permission of it, at least as widely and from an earlier
\* assignment: the authority of a tenant is its owner's handed down, even by commands that run on a
\* principal built before roles were removed (assert_within_ceiling in create_role and assign_role).
\* The v1 routes also make a cashier one in its branch.
AuthorityIsHandedDown ==
  \A i \in DOMAIN assignment :
    LET a == assignment[i] IN
    a.by # None /\ ~(a.role = Cashier /\ a.scope \in Branch) =>
      \A p \in role[a.role] : \E j \in 1..(i - 1) :
        /\ assignment[j].user = a.by
        /\ p \in role[assignment[j].role]
        /\ \/ assignment[j].scope = "tenant"
           \/ assignment[j].scope \in Branch \cup CashPoint /\ assignment[j].scope = a.scope
           \/ a.scope \in CashPoint /\ assignment[j].scope = BranchOf[a.scope]

\* What enable_user says of an account that goes back to pending: it has no usable password.  Not
\* kept: the v1 route makes active accounts without activated_at (README, section 4).
PendingHasNoPassword == \A u \in User : account[u].status = "pending" => ~account[u].password
=============================================================================
