------------------------------ MODULE MCAccounts ------------------------------
(* Three persons, two sessions and two requests at a time. *)
EXTENDS Accounts, TLC

MCBranchOf == [c \in CashPoint |-> CHOOSE b \in Branch : TRUE]
MCPermission == {"users", "roles", "cash"}
MCRole == {Owner, Cashier, "made"}

\* Who owns the tenant tells which of the scenes below the behaviour is for.
CONSTANTS ana, bob, eva
OwnerIs(u) == assignment[1].user = u

Here == {u \in User : account[u].status # "absent"}
Kinds == {request[r].kind : r \in Request}
Idle == {r \in Request : request[r] = NoRequest}
Others == {i \in DOMAIN secret : secret[i].kind # "refresh"}
NoRoles == Len(assignment) = 1 /\ role["made"] = {}
NoFailures == \A u \in User : failures[u] = 0
NoAttempts == \A u \in User : attempts[u].tries = 0
Opened == {s \in Session : session[s].user # None}
SessionsLast == \A s \in Session : session[s].live = (s \in Opened) /\ ~session[s].over
V1(v1) == {u \in User : account[u].v1 = v1}

\* The bounds of the scenes: the owner alone, who logs in, refreshes and recovers the password, or is
\* sent codes; the owner and a second user, administered by two commands at once, or both linking
\* Google accounts; and the roles of three.
Alone ==
  Cardinality(Here) = 1 /\ NoRoles /\ "command" \notin Kinds /\ Len(secret) <= 3
LoginScene ==
  /\ Alone /\ NoAttempts
  /\ Others = {} \/ NoFailures
  /\ \A i \in DOMAIN secret : secret[i].kind # "code"
  /\ \A s \in Session : session[s].over => Len(secret) = 1
CodesScene ==
  /\ Alone /\ Opened = {} /\ NoFailures /\ tenant = "active"
  /\ account[ana].status = "active" /\ \A i \in Others : secret[i].kind \in {"link", "code"}
AdminScene ==
  /\ Here \subseteq {ana, bob} /\ role["made"] = {} /\ Len(assignment) <= 2 /\ tenant = "active"
  /\ SessionsLast /\ Cardinality(Opened) <= 1
  /\ Len(secret) <= 2 /\ Cardinality(Others) <= 1
  /\ NoAttempts /\ \A u \in V1("admin") : failures[u] = 0
  /\ \A u \in User : account[u].google = None
  /\ V1("collector") = {} /\ Cardinality(V1("admin")) = 1
  /\ "visit" \notin Kinds \/ Cardinality(Idle) = 1
  /\ V1("cashier") # {} => Idle # {}
GoogleScene ==
  /\ Here \subseteq {ana, eva} /\ NoRoles /\ tenant = "active"
  /\ SessionsLast /\ Cardinality(Others) <= 2
  /\ NoFailures /\ NoAttempts /\ Idle # {}
  /\ \A u \in User : account[u].status \in {"absent", "active"} /\ account[u].v1 \in {None, "admin"}
RolesScene ==
  /\ Others = {} /\ Len(secret) <= 2 /\ tenant = "active"
  /\ SessionsLast /\ NoFailures /\ NoAttempts
  /\ \A u \in User : account[u].status \in {"absent", "active"} /\ account[u].google = None
  /\ V1("admin") = {eva} /\ Here \cap {ana} = V1("cashier")
  /\ role["made"] \in {{}, {"roles"}}
  /\ \A i \in DOMAIN assignment : assignment[i].live
  /\ \/ role["made"] = {} /\ Idle # {} /\ Len(assignment) <= 2
     \/ /\ Here = User /\ "visit" \notin Kinds /\ Len(secret) = 2
        /\ V1("cashier") = {ana} /\ \E s \in Session : session[s].user = ana
Bounds ==
  \/ OwnerIs(ana) /\ (LoginScene \/ CodesScene)
  \/ OwnerIs(bob) /\ AdminScene
  \/ OwnerIs(eva) /\ (GoogleScene \/ RolesScene)

Ids == Permutations(Session) \cup Permutations(Request)
=============================================================================
