------------------------------ MODULE MCCustomers ------------------------------
(* Two workers over two persons, in a tenant of one branch. *)
EXTENDS Customers, TLC

CONSTANT dop
Configured ==
  /\ clerk = [k \in Clerk |-> Idle] /\ base = dop /\ Enabled = {dop}
  /\ point = [p \in CashPoint |-> NoPoint]
NobodyYet == person = [p \in Person |-> NoPerson]
AtRest == task = [w \in Worker |-> NoTask]

Gathered == {r \in Row : row[r] # NoRow}
Plain(p) ==
  /\ profile[p].version <= 1 /\ profile[p].branch = None
  /\ person[p].document = None
Edited == {p \in Person : profile[p].version > 1 \/ profile[p].branch # None}
InFlight(kinds) == \A w \in Worker : task[w].kind \in kinds \cup {"none"}

\* The bound of the composition: the organization while there is no customer; then customers in a
\* tenant at rest, who are made and edited with a contact at most, or gather contacts, or gather
\* addresses and references, or share contacts and are flagged.
Bounds ==
  \/ NobodyYet /\ AtRest
  \/ /\ Configured /\ Gathered = {} /\ InFlight({"look", "assign", "create"})
     /\ Cardinality(Edited) <= 1
     /\ \/ tenant = "active" /\ branch = [b \in Branch |-> "active"]
        \/ \A p \in Person : profile[p].version <= 1 /\ Cardinality(Customer) <= 1
  \/ /\ Configured
     /\ tenant = "active" /\ branch = [b \in Branch |-> "none"]
     /\ \A p \in Person : Plain(p)
     /\ \A w \in Worker : task[w].kind = "create" => task[w].document = None /\ task[w].branch = None
     /\ InFlight({"create", "add", "primary", "deactivate", "review"})
     /\ \/ Cardinality(Customer) <= 1 /\ Gathered \subseteq Contact
        \/ Cardinality(Customer) <= 1 /\ Gathered \subseteq Address \cup Reference
        \/ Gathered \subseteq Contact /\ Cardinality(Gathered) <= 2

Ids ==
  Permutations(Person) \cup Permutations(Contact) \cup Permutations(Address)
    \cup Permutations(Worker)
=============================================================================
