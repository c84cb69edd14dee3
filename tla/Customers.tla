------------------------------- MODULE Customers -------------------------------
(***************************************************************************)
(* The customers of a tenant (app/modules/customers/service.py, dedup.py,  *)
(* legacy_import.py): persons with their document and its revisions,       *)
(* profiles with an optimistic version, contacts and addresses with their  *)
(* primary, references, and flags on pairs that may be one person.         *)
(*                                                                         *)
(* No command locks a row: it is what it reads (Read...) and its commit,   *)
(* which a unique index, a check or the version column may refuse.  Where  *)
(* the profile's version stands between the two they are one step.         *)
(*                                                                         *)
(* A person has at most one profile and names it; contacts are of one      *)
(* type; likeness of name and birth date, which flags as a shared contact  *)
(* does, customer codes and the branch of origin are left out.             *)
(***************************************************************************)
EXTENDS Organization, Sequences

CONSTANTS
  Person, Document, Note, Value,
  Contact, Address, Reference,  \* ids of the rows a customer gathers
  Worker,                       \* those who attend customers, one command at a time each
  MaxVersion                    \* bound: changes of a profile

Row == Contact \cup Address \cup Reference
Group(r) == CHOOSE S \in {Contact, Address, Reference} : r \in S

VARIABLES
  person,   \* persons, with person_identity_revisions
  profile,  \* customer_profiles, of the person
  row,      \* customer_contacts, customer_addresses, customer_references
  flag,     \* customer_duplicate_flags, of <<customer, candidate>>
  task      \* what each worker has read and not yet committed

customers == <<person, profile, row, flag, task>>

PersonRow ==
  [exists : BOOLEAN, document : NoneOr(Document),
   revisions : Seq([before : NoneOr(Document), after : NoneOr(Document)])]
NoPerson == [exists |-> FALSE, document |-> None, revisions |-> <<>>]

Profile ==
  [status : {"none", "pending", "active", "inactive"}, branch : NoneOr(Branch),
   note : NoneOr(Note), version : 0..MaxVersion]
NoProfile == [status |-> "none", branch |-> None, note |-> None, version |-> 0]

ChildRow ==
  [status : {"none", "active", "inactive"}, of : NoneOr(Person), value : NoneOr(Value),
   primary : BOOLEAN]
FlagStatus == {"none", "pending_review", "dismissed", "confirmed_duplicate"}
NoRow == [status |-> "none", of |-> None, value |-> None, primary |-> FALSE]
\* The check of the tables.
RowChecks(r) == r.primary => r.status = "active"

\* What a client edits with a version in hand.
Content == [document : NoneOr(Document), branch : NoneOr(Branch), note : NoneOr(Note)]
ContentOf(p) ==
  [document |-> person[p].document, branch |-> profile[p].branch, note |-> profile[p].note]

\* What a worker carries from a read to the commit; `seen` is the customer as the client saw it.
NoTask == [kind |-> "none"]
Task ==
  {NoTask}
    \cup [kind : {"look"}, of : Person, seen : Content, version : 1..MaxVersion]
    \cup [kind : {"assign"}, of : Person, seen : Content, version : 1..MaxVersion,
          to : NoneOr(Branch)]
    \cup [kind : {"create"}, of : Person, linked : BOOLEAN, document : NoneOr(Document),
          branch : NoneOr(Branch), row : NoneOr(Contact), value : NoneOr(Value),
          matches : SUBSET Person]
    \cup [kind : {"add"}, of : Person, row : Row, value : NoneOr(Value), primary : BOOLEAN,
          demoted : SUBSET Row, matches : SUBSET Person]
    \cup [kind : {"primary"}, row : Row, demoted : SUBSET Row]
    \cup [kind : {"deactivate"}, row : Row, was : BOOLEAN]
    \cup [kind : {"review"}, pair : Person \X Person, to : {"dismissed", "confirmed_duplicate"}]

CustomersTypeOK ==
  /\ person \in [Person -> PersonRow]
  /\ profile \in [Person -> Profile]
  /\ row \in [Row -> ChildRow]
  /\ \A r \in Row : row[r].primary => row[r].status = "active"
  /\ flag \in [Person \X Person -> FlagStatus]
  /\ \A p \in Person : flag[<<p, p>>] = "none"
  /\ task \in [Worker -> Task]

CustomersInit ==
  /\ person = [p \in Person |-> NoPerson]
  /\ profile = [p \in Person |-> NoProfile]
  /\ row = [r \in Row |-> NoRow]
  /\ flag = [pair \in Person \X Person |-> "none"]
  /\ task = [w \in Worker |-> NoTask]

-----------------------------------------------------------------------------
(* Reads.                                                                  *)

Customer == {p \in Person : profile[p].status # "none"}
Holders(d) == {p \in Person : d # None /\ person[p].document = d}
ActiveIn(p, S) == {r \in S : row[r].of = p /\ row[r].status = "active"}
Primaries(p, S) == {r \in S : row[r].of = p /\ row[r].primary}

\* classify: the customers, but p, with that value as an active contact.
Matches(p, v) ==
  {q \in Customer \ {p} : \E r \in ActiveIn(q, Contact) : v # None /\ row[r].value = v}
\* _flag_pairs leaves out the pairs flagged either way.
Unflagged(p, others) ==
  {q \in others : flag[<<p, q>>] = "none" /\ flag[<<q, p>>] = "none"}

ActiveBranch(b) == b \in NoneOr({x \in Branch : branch[x] = "active"})

Start(w, t) ==
  /\ task[w] = NoTask
  /\ task' = [task EXCEPT ![w] = t]
  /\ UNCHANGED <<person, profile, row, flag>>

\* get_customer: what a client will send back with its version.
Look(w, p) ==
  /\ p \in Customer
  /\ Start(w, [kind |-> "look", of |-> p, seen |-> ContentOf(p), version |-> profile[p].version])

\* A document someone holds is refused; a shared contact must be acknowledged, as it is here.
ReadCreate(w, p, d, b, c, v) ==
  /\ tenant = "active" /\ ActiveBranch(b)
  /\ p \notin Customer
  /\ IF person[p].exists THEN d = person[p].document ELSE Holders(d) = {}
  /\ (c = None) = (v = None)
  /\ c # None => row[c] = NoRow
  /\ Start(w, [kind |-> "create", of |-> p, linked |-> person[p].exists, document |-> d,
               branch |-> b, row |-> c, value |-> v, matches |-> Matches(p, v)])

\* The first active row of its group is primary, another if asked; the older ones it loaded yield.
ReadAdd(w, p, r, v, asked) ==
  LET peers == ActiveIn(p, Group(r))
      primary == r \notin Reference /\ (asked \/ peers = {})
  IN /\ p \in Customer
     /\ row[r] = NoRow
     /\ (v # None) = (r \in Contact)
     /\ Start(w, [kind |-> "add", of |-> p, row |-> r, value |-> v, primary |-> primary,
                  demoted |-> IF primary THEN Primaries(p, peers) ELSE {},
                  matches |-> Unflagged(p, Matches(p, v))])

ReadSetPrimary(w, r) ==
  /\ r \notin Reference
  /\ row[r].status = "active" /\ ~row[r].primary
  /\ Start(w, [kind |-> "primary", row |-> r, demoted |-> Primaries(row[r].of, Group(r))])

ReadDeactivate(w, r) ==
  /\ row[r].status = "active"
  /\ Start(w, [kind |-> "deactivate", row |-> r, was |-> row[r].primary])

ReadReview(w, pair, to) ==
  /\ flag[pair] = "pending_review"
  /\ Start(w, [kind |-> "review", pair |-> pair, to |-> to])

\* assign_management_branch checks the version and the branch; the version decides again at commit.
ReadAssign(w, b) ==
  /\ task[w].kind = "look"
  /\ profile[task[w].of].version = task[w].version
  /\ ActiveBranch(b) /\ b # profile[task[w].of].branch
  /\ task' = [task EXCEPT ![w] = [kind |-> "assign", of |-> @.of, seen |-> @.seen,
                                  version |-> @.version, to |-> b]]
  /\ UNCHANGED <<person, profile, row, flag>>

-----------------------------------------------------------------------------
(* Commits.                                                                *)

Finish(w, kind) ==
  /\ task[w].kind = kind
  /\ task' = [task EXCEPT ![w] = NoTask]

\* A version behind, an index or a check: the transaction is rolled back.
Refuse(w) ==
  /\ task[w] # NoTask
  /\ task' = [task EXCEPT ![w] = NoTask]
  /\ UNCHANGED <<person, profile, row, flag>>

Flagged(p, others) ==
  [pair \in Person \X Person |->
     IF pair[1] = p /\ pair[2] \in others THEN "pending_review" ELSE flag[pair]]
\* The unique index of the pairs, and their check.
FlagsAreNew(p, others) == \A q \in others : q # p /\ flag[<<p, q>>] = "none"

\* The unique index of the documents.
MutantDocumentIsFree(p, d) == TRUE
DocumentIsFree(p, d) == Holders(d) \subseteq {p}

\* The partial unique index of the primaries, over the rows as they will be.
PrimaryIsFree(p, S, rows) ==
  Cardinality({r \in S : rows[r].of = p /\ rows[r].primary /\ rows[r].status = "active"}) <= 1

NewRow(p, v, primary) == [status |-> "active", of |-> p, value |-> v, primary |-> primary]

\* The version column, at the flush: an ORM write of the profile bumps it.
VersionStands(p, version) == profile[p].version = version
MutantTouched(p) == profile[p]
Touched(p) == [profile[p] EXCEPT !.version = @ + 1]

CreateCustomer(w) ==
  LET t == task[w] IN
  /\ Finish(w, "create")
  /\ t.of \notin Customer
  /\ ~t.linked => ~person[t.of].exists /\ DocumentIsFree(t.of, t.document)
  /\ t.row # None => row[t.row] = NoRow
  /\ FlagsAreNew(t.of, t.matches)
  /\ person' = IF t.linked THEN person
               ELSE [person EXCEPT ![t.of] = [NoPerson EXCEPT !.exists = TRUE, !.document = t.document]]
  /\ profile' = [profile EXCEPT ![t.of] =
                   [status |-> "pending", branch |-> t.branch, note |-> None, version |-> 1]]
  /\ row' = IF t.row = None THEN row ELSE [row EXCEPT ![t.row] = NewRow(t.of, t.value, TRUE)]
  /\ flag' = Flagged(t.of, t.matches)

\* import_legacy_customers, a script run before the tenant works here: a document already held is
\* left out and its holder flagged.
ImportCustomer(p, d, c, v) ==
  LET kept == IF Holders(d) = {} THEN d ELSE None
      others == Matches(p, v) \cup (Holders(d) \cap Customer)
  IN /\ ~person[p].exists
     /\ (c = None) = (v = None)
     /\ c # None => row[c] = NoRow
     /\ FlagsAreNew(p, others)
     /\ person' = [person EXCEPT ![p] = [NoPerson EXCEPT !.exists = TRUE, !.document = kept]]
     /\ profile' = [profile EXCEPT ![p] =
                      [NoProfile EXCEPT !.status = "active", !.version = 1]]
     /\ row' = IF c = None THEN row ELSE [row EXCEPT ![c] = NewRow(p, v, TRUE)]
     /\ flag' = Flagged(p, others)
     /\ UNCHANGED task

\* create_user makes a person without a document, who may become a customer.
RegisterPerson(p) ==
  /\ ~person[p].exists
  /\ person' = [person EXCEPT ![p].exists = TRUE]
  /\ UNCHANGED <<profile, row, flag, task>>

UpdateCustomer(w, note) ==
  LET p == task[w].of IN
  /\ Finish(w, "look")
  /\ VersionStands(p, task[w].version)
  /\ profile[p].version < MaxVersion
  /\ note # profile[p].note
  /\ profile' = [profile EXCEPT ![p] = [Touched(p) EXCEPT !.note = note]]
  /\ UNCHANGED <<person, row, flag>>

\* The profile has nothing to write but its date, which is what bumps the version.
CorrectIdentity(w, d) ==
  LET p == task[w].of IN
  /\ Finish(w, "look")
  /\ VersionStands(p, task[w].version)
  /\ profile[p].version < MaxVersion
  /\ d # person[p].document
  /\ DocumentIsFree(p, d)
  /\ person' = [person EXCEPT
       ![p].document = d,
       ![p].revisions = Append(@, [before |-> task[w].seen.document, after |-> d])]
  /\ profile' = [profile EXCEPT ![p] = Touched(p)]
  /\ UNCHANGED <<row, flag>>

MayActivate(p) == profile[p].status \in {"pending", "inactive"}
\* No version of the client's: the column's stands between the read and the write.
SetStatus(p) ==
  /\ p \in Customer
  /\ profile[p].version < MaxVersion
  /\ \E to \in {"active", "inactive"} :
       /\ IF to = "active" THEN MayActivate(p) ELSE profile[p].status \in {"pending", "active"}
       /\ profile' = [profile EXCEPT ![p] = [Touched(p) EXCEPT !.status = to]]
  /\ UNCHANGED <<person, row, flag, task>>

AssignManagementBranch(w) ==
  LET p == task[w].of IN
  /\ Finish(w, "assign")
  /\ VersionStands(p, task[w].version)
  /\ profile[p].version < MaxVersion
  /\ profile' = [profile EXCEPT ![p] = [Touched(p) EXCEPT !.branch = task[w].to]]
  /\ UNCHANGED <<person, row, flag>>

AddRow(w, S) ==
  LET t == task[w]
      demoted == [r \in Row |-> IF r \in t.demoted THEN [row[r] EXCEPT !.primary = FALSE] ELSE row[r]]
      rows == [demoted EXCEPT ![t.row] = NewRow(t.of, t.value, t.primary)]
  IN /\ Finish(w, "add") /\ t.row \in S
     /\ row[t.row] = NoRow
     /\ PrimaryIsFree(t.of, S, rows)
     /\ FlagsAreNew(t.of, t.matches)
     /\ row' = rows
     /\ flag' = Flagged(t.of, t.matches)
     /\ UNCHANGED <<person, profile>>

AddContact(w) == AddRow(w, Contact)
AddAddress(w) == AddRow(w, Address)
AddReference(w) == AddRow(w, Reference)

SetPrimary(w, S) ==
  LET t == task[w]
      demoted == [r \in Row |-> IF r \in t.demoted THEN [row[r] EXCEPT !.primary = FALSE] ELSE row[r]]
      rows == [demoted EXCEPT ![t.row].primary = TRUE]
  IN /\ Finish(w, "primary") /\ t.row \in S
     /\ RowChecks(rows[t.row])
     /\ PrimaryIsFree(row[t.row].of, S, rows)
     /\ row' = rows
     /\ UNCHANGED <<person, profile, flag>>

SetPrimaryContact(w) == SetPrimary(w, Contact)
SetPrimaryAddress(w) == SetPrimary(w, Address)

\* is_primary is written only by who loaded it true; nobody is promoted.
DeactivateRow(w, S) ==
  LET t == task[w]
      gone == [row[t.row] EXCEPT !.status = "inactive", !.primary = @ /\ ~t.was]
  IN /\ Finish(w, "deactivate") /\ t.row \in S
     /\ RowChecks(gone)
     /\ row' = [row EXCEPT ![t.row] = gone]
     /\ UNCHANGED <<person, profile, flag>>

DeactivateContact(w) == DeactivateRow(w, Contact)
DeactivateAddress(w) == DeactivateRow(w, Address)
DeactivateReference(w) == DeactivateRow(w, Reference)

ReviewFlag(w) ==
  /\ Finish(w, "review")
  /\ flag' = [flag EXCEPT ![task[w].pair] = task[w].to]
  /\ UNCHANGED <<person, profile, row>>

ReadCustomers(w) ==
  \/ \E p \in Person : Look(w, p)
  \/ \E p \in Person, d \in NoneOr(Document), b \in NoneOr(Branch), c \in NoneOr(Contact),
        v \in NoneOr(Value) : ReadCreate(w, p, d, b, c, v)
  \/ \E p \in Person, r \in Row, v \in NoneOr(Value), asked \in BOOLEAN : ReadAdd(w, p, r, v, asked)
  \/ \E r \in Row : ReadSetPrimary(w, r) \/ ReadDeactivate(w, r)
  \/ \E pair \in Person \X Person, to \in {"dismissed", "confirmed_duplicate"} :
       ReadReview(w, pair, to)
  \/ \E b \in NoneOr(Branch) : ReadAssign(w, b)

CommitCustomers(w) ==
  \/ CreateCustomer(w)
  \/ \E note \in Note : UpdateCustomer(w, note)
  \/ \E d \in NoneOr(Document) : CorrectIdentity(w, d)
  \/ AssignManagementBranch(w)
  \/ AddContact(w) \/ SetPrimaryContact(w) \/ DeactivateContact(w)
  \/ AddAddress(w) \/ SetPrimaryAddress(w) \/ DeactivateAddress(w)
  \/ AddReference(w) \/ DeactivateReference(w)
  \/ ReviewFlag(w)
  \/ Refuse(w)

CustomersNext ==
  \/ \E w \in Worker : ReadCustomers(w) \/ CommitCustomers(w)
  \/ \E p \in Person, d \in NoneOr(Document), c \in NoneOr(Contact), v \in NoneOr(Value) :
       ImportCustomer(p, d, c, v)
  \/ \E p \in Person : RegisterPerson(p) \/ SetStatus(p)

Init == OrganizationInit /\ CustomersInit
Next ==
  \/ OrganizationNext /\ UNCHANGED customers
  \/ CustomersNext /\ UNCHANGED organization
Spec == Init /\ [][Next]_<<organization, customers>>

-----------------------------------------------------------------------------
(* Properties.                                                             *)

\* A document belongs to one person of the tenant, and the revisions of a person chain from one
\* document to the next up to the one held, whoever else corrected it meanwhile.
IdentityIsAccountedFor ==
  \A p \in Person :
    LET steps == person[p].revisions IN
    /\ \A q \in Person \ {p} :
         person[p].document # None => person[q].document # person[p].document
    /\ \A i \in 1..Len(steps) - 1 : steps[i].after = steps[i + 1].before
    /\ steps # <<>> => steps[Len(steps)].after = person[p].document

\* A client's edit of a customer (update_customer, correct_identity, assign_management_branch) lands
\* only on the document, the branch and the note that the client had in front of it.
EditsBuildOnWhatWasSeen ==
  [][\A p \in Customer :
       ContentOf(p)' # ContentOf(p)
         => \E w \in Worker : /\ task[w].kind \in {"look", "assign"}
                              /\ task'[w] = NoTask
                              /\ task[w].of = p /\ task[w].seen = ContentOf(p)]_customers

\* A customer has at most one primary contact and one primary address, each of them active, with any
\* number of additions, changes of primary and withdrawals in flight.
OnePrimaryAtMost ==
  \A p \in Person, S \in {Contact, Address} :
    /\ Cardinality(Primaries(p, S)) <= 1
    /\ Primaries(p, S) \subseteq ActiveIn(p, S)
=============================================================================
