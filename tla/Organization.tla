----------------------------- MODULE Organization -----------------------------
(***************************************************************************)
(* The configuration of a tenant (app/modules/organization/service.py):    *)
(* base currency, enabled currencies, branches and cash points.            *)
(*                                                                         *)
(* No command takes a lock: each is what it reads and checks (Read...) and *)
(* its commit, which writes only the columns whose value it changed from   *)
(* what it had read.  Timezones, names and addresses are left out.         *)
(***************************************************************************)
EXTENDS Integers, FiniteSets

CONSTANTS
  Currency,
  Branch,
  CashPoint,
  Clerk,   \* those who configure the tenant, one command at a time each
  None

ASSUME NoneIsNoName == None \notin Currency \cup Branch \cup CashPoint

VARIABLES
  tenant,    \* companies.status
  base,      \* companies.base_currency_code
  currency,  \* tenant_currencies: absent, or its disabled_at
  branch,    \* branches.status
  point,     \* cash_points with cash_point_currencies
  clerk      \* the command each clerk has read for and not committed

organization == <<tenant, base, currency, branch, point, clerk>>

NoneOr(S) == S \cup {None}

TenantStatus == {"active", "inactive"}
CurrencyState == {"absent", "enabled", "disabled"}
PointRow ==
  [status : {"none", "active", "inactive", "suspended"}, suspended_at : BOOLEAN,
   branch : NoneOr(Branch), currencies : SUBSET Currency]
NoPoint == [status |-> "none", suspended_at |-> FALSE, branch |-> None, currencies |-> {}]

\* What a command carries from its reads to its commit; `was` is the old value where it matters.
Command ==
  [kind : {"none"}]
    \cup [kind : {"base", "enable", "disable"}, of : Currency, was : Currency \cup {"absent", "disabled"}]
    \cup [kind : {"branch"}, of : Branch, to : {"active", "inactive"}]
    \cup [kind : {"point"}, of : CashPoint, branch : Branch, currencies : SUBSET Currency]
    \cup [kind : {"currencies"}, of : CashPoint, currencies : SUBSET Currency, was : SUBSET Currency]
    \cup [kind : {"status"}, of : CashPoint, to : {"active", "inactive", "suspended"}, was : BOOLEAN]
Idle == [kind |-> "none"]

OrganizationTypeOK ==
  /\ tenant \in TenantStatus
  /\ base \in Currency
  /\ currency \in [Currency -> CurrencyState]
  /\ branch \in [Branch -> {"none", "active", "inactive"}]
  /\ point \in [CashPoint -> PointRow]
  /\ \A p \in CashPoint : point[p].suspended_at <=> point[p].status = "suspended"
  /\ clerk \in [Clerk -> Command]

\* A tenant is created with its base currency enabled.
OrganizationInit ==
  /\ tenant = "active"
  /\ base \in Currency
  /\ currency = [c \in Currency |-> IF c = base THEN "enabled" ELSE "absent"]
  /\ branch = [b \in Branch |-> "none"]
  /\ point = [p \in CashPoint |-> NoPoint]
  /\ clerk = [k \in Clerk |-> Idle]

Enabled == {c \in Currency : currency[c] = "enabled"}

\* What a new session or operation needs of a cash point; no currencies of its own means all of them.
Usable(p, c) ==
  /\ tenant = "active" /\ point[p].status = "active" /\ branch[point[p].branch] = "active"
  /\ c \in Enabled
  /\ point[p].currencies = {} \/ c \in point[p].currencies

-----------------------------------------------------------------------------
(* Reads and checks.                                                       *)

Begin(k, command) ==
  /\ clerk[k] = Idle
  /\ clerk' = [clerk EXCEPT ![k] = command]
  /\ UNCHANGED <<tenant, base, currency, branch, point>>

ReadBase(k, c) ==
  /\ c \in Enabled
  /\ Begin(k, [kind |-> "base", of |-> c, was |-> base])

ReadEnable(k, c) ==
  /\ c \notin Enabled
  /\ Begin(k, [kind |-> "enable", of |-> c, was |-> currency[c]])

MayDisable(c) == c \in Enabled /\ c # base

ReadDisable(k, c) ==
  /\ MayDisable(c)
  /\ Begin(k, [kind |-> "disable", of |-> c, was |-> base])

ReadBranchStatus(k, b, to) ==
  /\ branch[b] \notin {"none", to}
  /\ Begin(k, [kind |-> "branch", of |-> b, to |-> to])

ReadCreatePoint(k, p, b, currencies) ==
  /\ branch[b] = "active" /\ tenant = "active"
  /\ currencies \subseteq Enabled
  /\ Begin(k, [kind |-> "point", of |-> p, branch |-> b, currencies |-> currencies])

\* The DELETE that follows removes the rows this statement saw.
ReadPointCurrencies(k, p, currencies) ==
  /\ point[p].status # "none"
  /\ currencies \subseteq Enabled
  /\ Begin(k, [kind |-> "currencies", of |-> p, currencies |-> currencies,
               was |-> point[p].currencies])

\* disable, enable, suspend and resume.
Transitions ==
  {<<"active", "inactive">>, <<"suspended", "inactive">>, <<"inactive", "active">>,
   <<"active", "suspended">>, <<"suspended", "active">>}

ReadPointStatus(k, p, to) ==
  /\ <<point[p].status, to>> \in Transitions
  /\ Begin(k, [kind |-> "status", of |-> p, to |-> to, was |-> point[p].suspended_at])

-----------------------------------------------------------------------------
(* Commits.  A constraint that refuses one ends the command without effect.*)

Commit(k, kind) ==
  /\ clerk[k].kind = kind
  /\ clerk' = [clerk EXCEPT ![k] = Idle]

Refused(k) ==
  /\ clerk[k] # Idle
  /\ clerk' = [clerk EXCEPT ![k] = Idle]
  /\ UNCHANGED <<tenant, base, currency, branch, point>>

UpdateTenantSettings(k) ==
  /\ Commit(k, "base")
  /\ base' = IF clerk[k].of = clerk[k].was THEN base ELSE clerk[k].of
  /\ UNCHANGED <<tenant, currency, branch, point>>

\* Two that insert the same row: the key admits one.
EnableCurrency(k) ==
  /\ Commit(k, "enable")
  /\ clerk[k].was = "absent" => currency[clerk[k].of] = "absent"
  /\ currency' = [currency EXCEPT ![clerk[k].of] = "enabled"]
  /\ UNCHANGED <<tenant, base, branch, point>>

DisableCurrency(k) ==
  /\ Commit(k, "disable")
  /\ currency' = [currency EXCEPT ![clerk[k].of] = "disabled"]
  /\ UNCHANGED <<tenant, base, branch, point>>

CreateBranch(b) ==
  /\ tenant = "active"
  /\ branch[b] = "none"
  /\ branch' = [branch EXCEPT ![b] = "active"]
  /\ UNCHANGED <<tenant, base, currency, point, clerk>>

SetBranchStatus(k) ==
  /\ Commit(k, "branch")
  /\ branch' = [branch EXCEPT ![clerk[k].of] = clerk[k].to]
  /\ UNCHANGED <<tenant, base, currency, point>>

\* The code is unique in the tenant.
CreateCashPoint(k) ==
  /\ Commit(k, "point")
  /\ point[clerk[k].of].status = "none"
  /\ point' = [point EXCEPT
       ![clerk[k].of] = [NoPoint EXCEPT !.status = "active", !.branch = clerk[k].branch,
                                        !.currencies = clerk[k].currencies]]
  /\ UNCHANGED <<tenant, base, currency, branch>>

\* What another command inserted meanwhile stays, unless both insert the same row.
SetPointCurrencies(k) ==
  LET p == clerk[k].of
      kept == point[p].currencies \ clerk[k].was
  IN /\ Commit(k, "currencies")
     /\ kept \cap clerk[k].currencies = {}
     /\ point' = [point EXCEPT ![p].currencies = kept \cup clerk[k].currencies]
     /\ UNCHANGED <<tenant, base, currency, branch>>

\* suspended_at is written if it differs from what was read; the check of the table decides.
SetPointStatus(k) ==
  LET p == clerk[k].of
      suspended_at == IF (clerk[k].to = "suspended") = clerk[k].was
                      THEN point[p].suspended_at ELSE clerk[k].to = "suspended"
  IN /\ Commit(k, "status")
     /\ suspended_at = (clerk[k].to = "suspended")
     /\ point' = [point EXCEPT ![p].status = clerk[k].to, ![p].suspended_at = suspended_at]
     /\ UNCHANGED <<tenant, base, currency, branch>>

\* suspend_company and reactivate_company: the platform decides, whatever runs in the tenant.
SetTenantStatus ==
  /\ tenant' = IF tenant = "active" THEN "inactive" ELSE "active"
  /\ UNCHANGED <<base, currency, branch, point, clerk>>

ReadOrganization(k) ==
  \/ \E c \in Currency : ReadBase(k, c) \/ ReadEnable(k, c) \/ ReadDisable(k, c)
  \/ \E b \in Branch, to \in {"active", "inactive"} : ReadBranchStatus(k, b, to)
  \/ \E p \in CashPoint, b \in Branch, currencies \in SUBSET Currency :
       ReadCreatePoint(k, p, b, currencies)
  \/ \E p \in CashPoint, currencies \in SUBSET Currency : ReadPointCurrencies(k, p, currencies)
  \/ \E p \in CashPoint, to \in {"active", "inactive", "suspended"} : ReadPointStatus(k, p, to)

CommitOrganization(k) ==
  \/ UpdateTenantSettings(k) \/ EnableCurrency(k) \/ DisableCurrency(k)
  \/ SetBranchStatus(k) \/ CreateCashPoint(k) \/ SetPointCurrencies(k) \/ SetPointStatus(k)
  \/ Refused(k)

OrganizationNext ==
  \/ \E k \in Clerk : ReadOrganization(k) \/ CommitOrganization(k)
  \/ \E b \in Branch : CreateBranch(b)
  \/ SetTenantStatus

OrganizationSpec == OrganizationInit /\ [][OrganizationNext]_organization

-----------------------------------------------------------------------------
(* Properties.                                                             *)

\* The base currency of the tenant is enabled: update_tenant_settings only takes an enabled one and
\* disable_currency refuses the base, but neither locks what it
\* looked at.  Not kept when both run at once (README, section 4).
BaseIsEnabled == base \in Enabled
=============================================================================
