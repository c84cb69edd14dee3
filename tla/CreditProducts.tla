--------------------------- MODULE CreditProducts ---------------------------
(***************************************************************************)
(* The versions of a credit product (app/modules/credit/service.py): rules *)
(* are drafted, validated, published with the day they start, superseded,  *)
(* retired, and never rewritten.                                           *)
(*                                                                         *)
(* Every command that writes takes the row of the product and then that of *)
(* the version FOR UPDATE before it reads anything else, and publishing    *)
(* pins the currencies of the version as well, so each command is one      *)
(* step.  A content stands for the rules with their currencies; it is the  *)
(* largest amount they allow, and its hash is itself.                      *)
(***************************************************************************)
EXTENDS Integers, FiniteSets, FiniteSetsExt

CONSTANTS
  Version,
  Content,     \* the largest amount the rules of a version allow
  WellFormed,  \* the contents that validate where their currencies are enabled
  None,
  MaxDay,      \* bound: the last day
  MaxRow       \* bound: the row_version at which a draft is edited no more

ASSUME ContentIsAmount == Content \subseteq Nat \ {0} /\ WellFormed \subseteq Content
ASSUME DaysAreBounded == MaxDay \in Nat /\ MaxRow \in Nat \ {0}
ASSUME NoneIsNoDay == None \notin Int /\ None \notin Version

VARIABLES
  today,     \* the business date of the tenant
  enabled,   \* whether the currency of the rules is enabled for the tenant
  product,   \* credit_products.status
  version,   \* credit_product_versions
  look       \* what the one who publishes last read of a draft

catalogue == <<today, enabled, product, version, look>>

\* A version may start the day after the last one that is modelled.
Day == 0 .. MaxDay
NoneOr(S) == S \cup {None}

ProductStatus == {"draft", "active", "inactive"}
VersionRow ==
  [state : {"none", "draft", "published", "retired"}, content : NoneOr(Content), row : Nat,
   validated : NoneOr(Content), hash : NoneOr(Content),
   from : NoneOr(Nat), to : NoneOr(Int)]
NoVersion ==
  [state |-> "none", content |-> None, row |-> 0, validated |-> None, hash |-> None,
   from |-> None, to |-> None]
Look == [of : NoneOr(Version), row : Nat, content : NoneOr(Content)]
NoLook == [of |-> None, row |-> 0, content |-> None]

\* The checks of the table: what is issued has a hash and a day, and a window is not inverted.
RowChecks(row) ==
  /\ row.state \in {"none", "draft"} <=> row.hash = None
  /\ row.hash = None <=> row.from = None
  /\ row.to # None => row.from # None /\ row.from <= row.to

ProductsTypeOK ==
  /\ today \in Day
  /\ enabled \in BOOLEAN
  /\ product \in ProductStatus
  /\ version \in [Version -> VersionRow] /\ \A v \in Version : RowChecks(version[v])
  /\ look \in Look

\* create_product leaves a product in draft, without versions.
ProductsInit ==
  /\ today = 0
  /\ enabled = TRUE
  /\ product = "draft"
  /\ version = [v \in Version |-> NoVersion]
  /\ look = NoLook

-----------------------------------------------------------------------------
(* Versions and the days they are in force.                                *)

IsDraft(v) == version[v].state = "draft"
IsPublished(v) == version[v].state = "published"
Issued == {v \in Version : version[v].state \in {"published", "retired"}}

\* The one offered without an end: the index allows one per product.
OpenEnded == {v \in Version : IsPublished(v) /\ version[v].to = None}

Covers(v, day) == version[v].from <= day /\ (version[v].to = None \/ day <= version[v].to)
InForce(day) == {v \in Issued : Covers(v, day)}

\* The day the windows issued so far reach to.
MutantReach == {version[o].from : o \in {v \in Issued : version[v].to = None}}
Reach == {IF version[o].to = None THEN version[o].from ELSE version[o].to : o \in Issued}

IsValid(content) == content \in WellFormed /\ enabled

\* What is stored and what was frozen still have the hash that was published.
Verified(v) == version[v].hash # None /\ version[v].content = version[v].hash

-----------------------------------------------------------------------------
(* Commands on versions.                                                   *)

\* Read by whoever will publish; no lock is held between reading and publishing.
ReadVersion(v) ==
  /\ IsDraft(v)
  /\ look' = [of |-> v, row |-> version[v].row, content |-> version[v].content]
  /\ UNCHANGED <<today, enabled, product, version>>

CreateVersion(v, content) ==
  /\ version[v].state = "none"
  /\ version' = [version EXCEPT ![v] = [NoVersion EXCEPT !.state = "draft", !.content = content,
                                                          !.row = 1]]
  /\ UNCHANGED <<today, enabled, product, look>>

Edited(row, content) ==
  [row EXCEPT !.content = content, !.validated = None, !.row = @ + 1]

UpdateVersion(v, content) ==
  /\ IsDraft(v)
  /\ version[v].row < MaxRow
  /\ version' = [version EXCEPT ![v] = Edited(@, content)]
  /\ UNCHANGED <<today, enabled, product, look>>

ValidateVersion(v) ==
  /\ IsDraft(v)
  /\ version' = [version EXCEPT
       ![v].validated = IF IsValid(version[v].content) THEN version[v].content ELSE None]
  /\ UNCHANGED <<today, enabled, product, look>>

Publishable(v, from) ==
  /\ IsDraft(v)
  /\ look.of = v /\ look.row = version[v].row
  /\ product # "inactive"
  /\ IsValid(version[v].content)
  /\ version[v].validated = version[v].content
  /\ from >= today
  /\ \A day \in Reach : day < from

\* The version offered until now ends the day before; an end that is set stays.
Superseded(from) ==
  [o \in Version |-> IF o \in OpenEnded THEN [version[o] EXCEPT !.to = from - 1] ELSE version[o]]

PublishVersion(v, from) ==
  /\ Publishable(v, from)
  /\ version' = [Superseded(from) EXCEPT
       ![v] = [version[v] EXCEPT !.state = "published", !.hash = version[v].content,
                                 !.from = from, !.row = @ + 1]]
  /\ product' = "active"
  /\ look' = NoLook
  /\ UNCHANGED <<today, enabled>>

MutantRetiredEnd(v) == IF version[v].to = None THEN version[v].from ELSE version[v].to
RetiredEnd(v) ==
  IF version[v].to = None THEN Max({version[v].from, today}) ELSE version[v].to

RetireVersion(v) ==
  /\ IsPublished(v)
  /\ version' = [version EXCEPT ![v].state = "retired", ![v].to = RetiredEnd(v), ![v].row = @ + 1]
  /\ UNCHANGED <<today, enabled, product, look>>

-----------------------------------------------------------------------------
(* The product, the currencies of the tenant, and the passing days.        *)

SetProductActive(active) ==
  /\ IF active THEN product = "inactive" /\ OpenEnded # {} ELSE product = "active"
  /\ product' = IF active THEN "active" ELSE "inactive"
  /\ UNCHANGED <<today, enabled, version, look>>

\* enable_currency and disable_currency; the update waits for a publication that pins the row.
SetCurrency ==
  /\ enabled' = ~enabled
  /\ UNCHANGED <<today, product, version, look>>

NextDay ==
  /\ today < MaxDay
  /\ today' = today + 1
  /\ UNCHANGED <<enabled, product, version, look>>

WriteVersion ==
  \/ \E v \in Version, content \in Content : UpdateVersion(v, content)
  \/ \E v \in Version : ValidateVersion(v) \/ RetireVersion(v)
  \/ \E v \in Version, from \in Day : PublishVersion(v, from)
  \/ \E active \in BOOLEAN : SetProductActive(active)

AroundVersions ==
  \/ \E v \in Version : ReadVersion(v)
  \/ \E v \in Version, content \in Content : CreateVersion(v, content)
  \/ SetCurrency
  \/ NextDay

ProductsNext == WriteVersion \/ AroundVersions
ProductsSpec == ProductsInit /\ [][ProductsNext]_catalogue

-----------------------------------------------------------------------------
(* What the trigger on the versions would refuse.                          *)

VersionGuardRefuses(old, new) ==
  IF old.state \in {"published", "retired"}
  THEN \/ new.content # old.content
       \/ new.hash # old.hash
       \/ new.from # old.from
       \/ old.to # None /\ new.to # old.to
       \/ new.state # old.state /\ ~(old.state = "published" /\ new.state = "retired")
  ELSE old.state = "draft" /\ new.state \notin {"draft", "published"}

-----------------------------------------------------------------------------
(* Properties.                                                             *)

\* However versions are published ahead of their day, superseded and retired, at most one is in force
\* on any day: effective_version takes whichever row comes first, and prices credit with it.
OneVersionInForce == \A day \in Day : \A v, w \in InForce(day) : v = w

\* What was in force on a day before the one the command reads is never changed by publishing,
\* superseding or retiring: history can be priced again.
PastVigencyStands ==
  [][\A day \in Day : day < today => InForce(day)' = InForce(day)]_catalogue

\* A publication offers the very content its author last read, although nothing was locked since
\* (update_version and validate_version commit in between), and the trigger on issued versions
\* never has to refuse a step of the service, which no handler expects.
IssuedAsRead ==
  [][\A v \in Version :
       /\ IsDraft(v) /\ version'[v].state = "published" => version'[v].hash = look.content
       /\ ~VersionGuardRefuses(version[v], version'[v])]_catalogue
=============================================================================
