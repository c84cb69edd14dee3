# Money Fast API — a verification development

TLA+ modules of the parts of this repository that move money between people or decide who may: what
each part keeps, what each handler reads, locks and writes, which orders of the handlers are
possible, and what stays true in all of them. TLC checks the modules on small instances; the TLA+
proof system proves the most important of the properties for every instance.

## 1. The system

A multi-tenant lending back end: FastAPI routers call services, a service runs in one PostgreSQL
transaction and ends in one commit. There is no background worker, no queue and no retry: every step
below is the request of a person. What is concurrent is requests; what orders them is row locks
(`SELECT ... FOR UPDATE`), unique indexes and triggers; what repeats them is clients, which send an
idempotency key.

| Component | State it keeps | Operations | Talks to |
|---|---|---|---|
| Cash sessions, handovers, differences (`app/modules/cash`, T-021 to T-023) | session (box, point, cashier, state, balance), direct handover (pending, declined, confirmed, cancelled), difference and its resolution | open, close with a named receiver, close empty, close simple, accept, decline, redirect, resolve | users' custody guard; `port.py` serves loans and field custody |
| Cash port (`cash/port.py`) | movements and balances of open sessions | deposit, withdraw, for a payment, a reversal, a disbursement, a rendition or a refund | called by loans and field custody, inside their transaction |
| Legacy cash command (`services/cash_service.py`) | the same boxes, sessions and movements, with deliveries, additions, expenses, transfers | one `command` with a key for replay, and `register_payment` | v1 payments and disbursements |
| Field custody (`app/modules/field_custody`, T-019, T-020) | receipt per field payment, rendition with items, refund | born with the payment; declare, accept, reject, cancel, refund | payments and reversals, cash port, users |
| Credit loans (`app/modules/loans`, T-007 to T-010) | loan, obligations, disbursement, payments, applications, reversals | disburse, pay, reverse, assess overdue | formalization, cash port, field receipts |
| Collections (`loans/assignments, activities, promises`, T-012, T-014, T-015) | one open assignment and one current promise per loan, activities | assign, end, record, promise, replace, cancel | payments (promise status is derived from them) |
| Collection worklist (`loans/worklist.py`, T-011, T-013, T-016 to T-018) | none: a list read in several statements, page by page | a page with its filter, sort and cursor | loans, payments, promises, assignments, activities |
| Credit origination (`app/modules/origination`, T-006) | application, submissions, evaluations, decision, condition, formalization, policy, limits | draft, submit, reopen, review, evaluate, approve, reject, cancel, formalize | product versions, customers, users |
| Credit products (`credit/service.py`, T-005) | product, versions with their window and rules | draft, validate, publish, retire, switch off and on | origination, disbursement, currencies |
| Amortization engine and rules (`credit/engine.py`, `rules.py`) | none: functions | validate rules, build a schedule | products, origination, disbursement |
| Customers (`app/modules/customers`, T-004) | person with document and revisions, profile with a version, contacts, addresses, references, duplicate flags | create, import, update, correct, assign, add, review | organization, origination |
| Identity (`app/modules/identity`, T-002; `api/routes/users.py`) | accounts, sessions, refresh tokens, recovery tokens and codes, Google links, roles, assignments | login, refresh, recover, link, disable, assign | everybody: the principal of a request |
| Organization (`app/modules/organization`, T-003) | base and enabled currencies, branches, cash points | enable, disable, create, suspend, resume | cash, products, customers |
| Legacy loans, payments, routes, payroll (v1) | v1 loan balances, payments, routes | register, revert, assign | legacy cash |
| Billing, subscriptions, PayPal, limits | plan and subscription of a tenant | subscribe, webhook, cancel | everybody, as limits |
| Core, routers, schemas, migrations | none, or installation-wide | parsing, errors, audit trail | everybody |

### What is hard here

* **Interleavings.** Two people open the same point; an acceptance and a redirect of one handover; a
  declaration, a decision and a refund over one receipt; two approvers of one application; two
  replacements of one promise; a disable between the naming of a receiver and the handover.
* **Reads before locks, or without any.** The transaction isolation is READ COMMITTED. A check made
  before the first lock (permission, key, surplus, state of another row) may be old when the write
  comes. Organization, customers and identity lock almost nothing: an index or a version column is
  all that stands between two commands.
* **Reads of several statements.** A page of the worklist is a dozen statements, each of which sees
  another moment.
* **Long sequences.** Decline, redirect, decline, ... and the cash must still belong to exactly one
  person; declare, reject, declare, reverse, refund, ... and it must leave its collector once;
  refresh, replay, refresh, ... and a token must be good once.
* **Repeated requests.** The same request twice, at once or later.
* **Arithmetic at the edge.** A withdrawal of the whole balance; differences of either sign;
  allocation of a payment over obligations; the last instalment of a rounded schedule; the first and
  last day of a version.

There is no crash hazard beyond the transaction: nothing is written outside it, and the models'
steps are transactions. There is no message passing.

### What makes each component correct

* *Sessions:* one active session per point; cash in custody of one person at any moment; a handover
  confirmed once, by its receiver, whole; refusals respected; differences exact and decided by
  somebody else; history never rewritten.
* *Field custody:* a receipt claimed once; its cash goes into a drawer or back to the customer,
  never both, never before the debt is restored; cash changes hands between two people in a proper
  session; nobody is disabled holding cash.
* *Loans:* net applied never above what is due, a payment is allocated in full, reversed once, with
  the cash it moved; the projected status follows the obligations.
* *Idempotency:* a key has one effect and one answer.
* *Collections:* one open assignment, one current promise, which can be kept when it is made, and is
  not cancelled when it has been kept.
* *Worklist:* a loan that stays where it is, is listed once; what a row shows fits the filter, but
  for the assignment of a loan that was reassigned meanwhile.
* *Origination:* one decision, on what the one who decided had read, by somebody with the authority;
  formalized once, as approved, for rules not withdrawn meanwhile.
* *Products:* one version in force on a day; days already lived are never changed.
* *Engine:* what validation publishes gives schedules that add up, on days in order.
* *Customers:* a document is one person's, its corrections a chain; no lost edit.
* *Identity:* a secret is spent once; authority is handed down, never made.
* *Database backstops:* no legal command is refused by a trigger or a check, which would be a server
  error. One is, see `ClosesHandOn` in section 4.

## 2. The plan, and how far it got

1. `CashSessions`, with the abstract `CashCustody` it implements, and proofs. Done.
2. `FieldCustody`, with the abstract `FieldCash` it implements, and proofs. Done.
3. `CreditLoans`, with the abstract `LoanAccount` it implements, and proofs. Done.
4. `IdempotentCommand`, with the abstract `OnceOnly` it implements, and proofs. Done.
5. `LegacyCash`: the v1 command over the same boxes, with proofs. Done.
6. The triggers and checks of the database under 1 to 3 (`CashBackstops`, `FieldBackstops`,
   `LoanBackstops`). Done.
7. `Collections`, over `CreditLoans`; `Worklist`. Done.
8. `CreditProducts`, and `Origination` over it; `Schedules`. Done.
9. `Organization`, and `Customers` over it; `Accounts`. Done.
10. Proofs of `CreditProducts` (a window argument without sums) and of `Origination`. Done.
11. Sums without induction theorems (`Sums`), and with them the drawers, statuses, allocations,
    triggers and the refinement of `CreditLoans`, and the drawers and triggers of `FieldCustody`;
    `Collections` and `Accounts`; the refinement of `CashCustody` and the triggers of the cash
    tables as theorems; what `LegacyCash` derives by adding rows. Done.
12. Open: proofs of `Customers` and `Worklist`; lock order as data; v1 loans, payroll and billing.

## 3. How the modules read the code

One action is one transaction of one handler. Where a handler reads something that matters before
its first row lock, and acts on it afterwards, it has two steps: an `Enter...` step that reads and
remembers, and the step under the locks (`CashSessions`; payments in `LegacyCash`), or a step that
locks and looks and a step that writes (`FieldCustody`, the refund; `CreditLoans`, payments and
reversals; `Collections`; `Origination`, approval and formalization). Where nothing is locked, the
two steps are the reads and the commit (`Organization`, `Customers`, `Accounts`). What a handler
re-reads under its lock (`populate_existing`) is read in the second step. A handler that fails
leaves no trace (rollback): its failing branches are the absence of a step, or `Abort`, `GiveUp`,
`Refuse` where it has taken a step before. An idempotent replay reads only: a stuttering step,
except in `IdempotentCommand`, whose subject it is.

Common abstractions, all named in the modules: permissions are constant sets of users except in
`Accounts` (the code checks them at the start of the request); amounts are small integers of one
currency (the code's decimals of two places, compared and added only; `Schedules` rounds them);
sequence numbers, texts, audit events and the tenant are left out (every query is filtered by the
tenant, so one tenant is the system).

### `CashSessions` — sessions, handovers, differences, port

| Model | Code |
|---|---|
| `session`, `handover`, `difference` | the rows of `CashSession`, `CashSessionHandover`, `CashSessionDifference` with its resolution, reduced to the columns that decide something |
| `inflight` | the handlers past their first reads and before their locks |
| `account`, `point`, `surplus` | the status of a user, of a cash point, and a surplus under review in a box |
| `EnterOpen`/`OpenSession`, `EnterClose`/`CloseWithHandover`, `CloseEmpty`, `CloseSimpleSession` | `sessions.py`, the part before and under the locks |
| `CloseMeetsTrigger` | the same close of a session that was opened with a declared amount: no check of the service refuses it, the trigger of `simple_ddl.py:50-52` does, and the request ends in a server error that changes no row. It leaves a `broken` ticket in `inflight`, so that properties can speak of it |
| `EnterAccept`/`AcceptSessionHandover`, `EnterDecline`/..., `EnterRedirect`/... | `session_handovers.py` |
| `EnterResolve`/`ResolveDifference` | `differences.py` |
| `Deposit`, `Withdraw` | `port.py`: any movement that loans or field custody make |
| `ReportSurplus`, `ConfirmSurplus`, `RejectSurplus` | the legacy command, as far as v2 closing depends on it |
| `DisableUser`, `EnableUser`, `SetCashPointStatus` | identity and organization |

`CashCustody` is the promise: every cash point's cash has one keeper, it is offered, taken,
returned, and never divided. `CashSessionsRefinement` maps the tables to it.

### `FieldCustody` — receipts, renditions, refunds

| Model | Code |
|---|---|
| `receipt`, `rendition`, `refund` | `CreditFieldCustodyReceipt`, `CreditFieldRendition` with its items, `CreditFieldRefund` |
| `reversed` | the reversals of field payments (they do not touch cash) |
| `refunding` | the refund that has locked a receipt and looked at its rendition |
| `drawer` | the sessions behind the port; `other` counts what came by other ways and exists for `DrawerIsBacked` only |
| `account` | the status of a user, read `FOR SHARE` |
| `CreateReceipt`, `Declare`, `Accept`, `Reject`, `Cancel`, `LockReceipt` then `RefundFromCollector`, `RefundFromBranch` or `RefundAborted` | the functions of the same names in `receipts.py` and `service.py` |
| `ReverseField`, `DisableUser`, `EnableUser`, `OpenDrawer`, `CloseDrawer`, `OtherWithdrawal` | the neighbours |

`ListCustody`, `CustodySummary`, `PhysicalState`, `TrackingStatus` and `RefundPending` are the
reports (`receipts.py`, `service.py`), derived from the rows.

`FieldCash` is the promise: the cash of a payment goes from the customer to one collector, to the
branch or back, from the branch only back, and back only when the debt is restored; a collector
stays on the staff while they hold cash. The refinement mapping `Place` is the code's own derived
`physical_state` (`payment_custody`), a state that is never stored.

### `CreditLoans` — loans, payments, reversals, delinquency

| Model | Code |
|---|---|
| `loan` | `CreditLoan` with its disbursement and the stored statuses of its obligations |
| `payment`, `reversal` | `CreditPayment` and `CreditPaymentReversal` with their applications, one amount per slot (an instalment and a component) |
| `work` | the command that holds the row of a loan, with what it computed under the lock |
| `drawer` | the sessions behind the port; the fund is what a drawer opened with |
| `today` | the business date, which the calendar moves on and a command reads once |
| `Applied`, `Outstanding`, `Projected` | `ledger.py`: nothing but statuses is stored, balances are derived |
| `Payable`, `Run`, `Allocate`, `ObligationStatus`, `LoanStatus` | `allocation.py`, a fold over the slots in the order of the contract |
| `Disburse` | `service.disburse`, under the lock of the formalization |
| `LockToPay`, `CommitPayment` | `payments.pay` up to its allocation; its movement, rows and projection |
| `LockToReverse`, `CommitReversal` | `reversals.reverse` likewise |
| `Assess` | `overdue.assess` |
| `OpenDrawer`, `CloseDrawer`, `NextDay` | the neighbours |

`LoanAccount` is the promise: a debt starts once at the whole of its contract, a payment lowers it
by its amount and never below nothing, and one reversal per payment puts the amount back. A payment
in the field has no session; what becomes of its cash is the subject of `FieldCustody`.

### `IdempotentCommand` — keys, whatever the command

| Model | Code |
|---|---|
| `looks` | when the command on a row looks its key up: before the lock (`declare`, `refund`), under it (`pay`, `reverse`, the decisions on a rendition) or both (cash sessions) |
| `call` | a request and how far its handler is |
| `effect` | the rows committed, with key and digest (target and content) |
| `row` | the row a command locks, and whether its state would refuse a command (point busy, receipt claimed, session not open) |
| `LookBefore`, `TakeRow`, `CheckUnder`, `Commit` | the four stations of every v2 command, see `open_session` |
| `Cut` | a failure, or a lost connection: the transaction is rolled back |
| `Elsewhere` | another command on the same row |

`OnceOnly` is the promise: a key is served once, the same request is told so, another one is
refused.

### `LegacyCash` — the cash command of the first API

| Model | Code |
|---|---|
| `payment`, `delivery`, `movement`, `order`, `transfer` | the tables `payments`, `cash_deliveries` with `cash_allocations`, `cash_movements`, `cash_addition_requests`, `cash_transfers`, as sequences: rows are appended, and only states change |
| `session`, `loan` | the drawer of a session, and what a loan owes |
| `entered` | the payment that holds the row of the box: it looked at its collector's account when it took it |
| `account` | where a collector is, and the change of that which has looked and not yet written |
| `Allocated`, `Remaining`, `OutstandingRows`, `Pending` | what the service derives from payments and allocations, never stored |
| `Spread` | the loop of `receive` over the oldest payments, in closed form: a payment takes what the older ones leave of the amount, up to what it has itself (`Left`) |
| `EnterPayment`, then `FieldPayment`, `FieldTransfer` or `PaymentFails`; `CounterPayment` | `register_payment` |
| `Declare` ... `ReverseMovement` | the branches of `command`, one action each |
| `CheckChange`, `Change` | `update_user` of the user routes |

Every branch of `command` starts with an update of the row of the box (`scope`), so it is one step,
and `Free` says that no payment holds it. Left out: versions (a stale one is a refusal), bank
transfers that a cashier registers (they book no cash) and field payments that an administrator
registers (as a collector's), instalments, interest and fees (a loan is one amount: `owed`), the end
of a session by handover (`CashSessions`), bank deposits (an expense to this module) and the
movements of the retired Capital fund.

### `CashBackstops`, `FieldBackstops`, `LoanBackstops` — what the database itself refuses

One operator per trigger, check or index of `cash/*_ddl.py`, `field_custody/models.py` and
`loans/models.py`: the row guards relate a row before and after a step, the deferred ones look at
the tables as a step leaves them. They constrain nothing. They are the condition of an action
property, `[][...]_vars`: what a handler writes never meets one, which would answer a legal request
with a server error. They extend the module whose tables they guard. In `CashSessions` one request
does meet one. There the guards of the steps that write are those of the service and of the trigger
together, `CloseMeetsTrigger` is the request that only the trigger refuses, and
`BackstopsRefuseOneClose` says that there is no other. `Collections` has its own
(`CollectionBackstopsAdmit`), and the guards of `CreditProducts` and `Origination` are parts of
`PastVigencyStands` and `DecidedAsRead`.

### `Collections` — assignments, activities, promises, over `CreditLoans`

| Model | Code |
|---|---|
| `promise`, `assignment`, `activity` | the three tables, with the snapshot of the open assignment that activities and promises keep |
| `paidOn` | the business dates of payments, by which a promise is judged |
| `desk` | the command that holds the row of a loan: the same lock as `work` of `CreditLoans` (`Free`) |
| `LockToAssign`, `CommitAssign` ... `LockToCancel`, `CommitCancel` | `assignments.py`, `activities.py`, `promises.py`: what is read under the lock, the commit with its unique index |
| `Qualifying`, `ProjectedStatus` | a promise's result, never stored: the payments received after it, by its date, net of reversals |
| `DueBy`, `ValidTerms` | the cap of a promise: what will be due by its date |
| `Pay`, `Lend` | the payments and the disbursement of `CreditLoans`, with the date |

Who is eligible for an assignment is looked up when it is made and not again (`Agent`), as in the
code.

### `Worklist` — a list read in several statements

| Model | Code |
|---|---|
| `Begin` ... `Answer` | `worklist.py`: candidates in SQL, the exact promise filter, gross and reversed amounts (`ledger.py:33-56`, two statements), order and cut, then the assignments, promises and activities the rows show |
| `reader` | the page being read, with the cursor it starts after |
| `After`, `Sorted`, `PastCursor` | the order with ties broken by id, and where a page starts |
| `zone`, `Local` | the contract's own date, a day ahead of or behind the UTC date by which SQL preselects |
| `steady` | a history variable: the loans whose place in the list has not changed since the walk began |
| `Pay`, `Undo`, `Promise`, `Cancel`, `Record`, `Assign`, `NextDay` | everybody else, between any two statements |

A page issues about a dozen statements. Each group whose order against the others a property can
tell is a step; the promises with the payments that keep them are one, and so are names and other
lookups that no row is chosen by. The assignment of a row is read again after the filter on
assignments let the loan in, so a loan that was reassigned in between may show one the filter
excludes. `RowsMatchFilter` demands agreement of the loans that kept their place. A net amount whose
payment and reversal were read at two moments is possible too, and no property forbids it.

### `CreditProducts`, `Origination` — versions, and the contract made of one

| Model | Code |
|---|---|
| `version`, `product`, `enabled` | `credit_product_versions` with its window and hash, `credit_products.status`, the currency of the rules |
| `CreateVersion` ... `RetireVersion` | `credit/service.py`: each locks the product and then the version before it reads, so one step |
| `look` | what the one who publishes last read (`row_version`) |
| `app`, `submission`, `decision`, `condition`, `contract`, `documents` | the tables of origination |
| `seen` | what the one who decides last read: the `row_version` they send |
| `policy`, `grants` | approval policy and limits, read without a lock |
| `LockToApprove`/`CommitApproval`, `LockToFormalize`/`CommitFormalization` | the two commands whose reads another may overtake; `Shared` is the `FOR SHARE` on product and version that keeps it out |
| `parties` | whether customer and branches are active: looked at when an application is created and submitted, and not at approval or formalization, so the customer of an approved application may be inactive |

A content stands for the rules; it is the largest amount they allow. The scopes of limits and
policies (product, branch, role) and non-blocking conditions are left out.

### `Schedules` — rules, their validation, the engine

| Model | Code |
|---|---|
| `RulesRow` and the `...IsConsistent` operators | `credit/rules.py`: the sections of the rules and what is refused of each |
| `Ratio`, `Plus`, `Times`, `Over`, `Money` | the decimals: exact ratios, with the side to which a value errs where 40 digits do not hold it |
| `ReducingBalance`, `InterestOnly`, `Bullet`, `Flat`, `FixedTotalCost` | the five methods of `engine.py` |
| `AddPeriods`, `EffectiveDue`, `Contractual`, `Effective` | the calendar |
| `Publish`, `Simulate`, `Formalize`, `Disburse` | the uses of the engine: by the draft, the quote, the contract and the loan |
| `Hash` | the canonical form that the hash of rules is taken of |

Amounts are whole minor units. The error side is an over-approximation: where the exact value is not
held, both roundings at its edge are taken. `SearchLimit` bounds the days scanned for a business day
(400 in the code, `credit/engine.py:32`) and is beyond what the calendars here need. Left out:
per-currency amounts of fees, mora and cap, the scale and the time zone, and SHA-256.

### `Organization`, `Customers` — configuration, persons and profiles

| Model | Code |
|---|---|
| `tenant`, `base`, `currency`, `branch`, `point` | the tables of the organization |
| `clerk`, `Read...` and its commit | a command, which locks nothing: it writes the columns whose value it changed from what it had read, as the ORM does |
| `person`, `profile`, `row`, `flag` | persons with revisions of their document, profiles with their version, contacts, addresses, references, duplicate flags |
| `task` | what a worker has read and not committed |
| `DocumentIsFree`, `PrimaryIsFree`, `FlagsAreNew`, `VersionStands` | the unique indexes and the version column, which decide at the commit |
| `Matches`, `Unflagged` | `dedup.py`: who shares a contact with whom |
| `ImportCustomer`, `RegisterPerson` | `legacy_import.py` (a script; each customer is one step) and the applicants of the v1 customers |

Left out: time zones, names, customer codes, the branch of origin; likeness of name and birth date
(one more value compared as the contact is); contacts are of one type.

### `Accounts` — accounts, secrets, roles

| Model | Code |
|---|---|
| `account`, `session`, `secret`, `role`, `assignment`, `tenant` | the tables of identity; a secret is the number it was issued under |
| `failures`, `attempts` | `auth_throttle` of logins and of codes |
| `request` | what a request loaded when it began (`Arrive`, `Authenticate`) and decides on when it commits |
| `Missable` | the recovery tokens inserted after the request began, any of which a bulk revocation may miss |
| `Login` ... `UnlinkGoogle`, `CreateUser` ... `RemoveRole`, `UpdateUser` | `auth.py`, `recovery.py`, `oidc.py`, `admin.py`, `users.py` |
| `SuspendCompany`, `ReactivateCompany`, `RevokeCompanySessions`, `ResetAdminPassword` | what the platform does to accounts |
| `LockRunsOut`, `SessionRunsOut`, `SecretRunsOut`, `ThrottleRunsOut` | time |
| `taken` | a history field: how often a secret was exchanged |

Permissions are "users", "roles" and one that opens nothing here. Left out: the per-address
throttles, the maintenance mode, the limit of seats (they turn requests away), the superadmin, the
staff roles of a branch (`sync_branch_staff`).

## 4. The runs

| Run | Instance | What it shows |
|---|---|---|
| `handover` | one point, three users of whom one supervises, two sessions, two handovers, at most `MaxInflight` handlers between their two steps | `TypeOK`, `HandoversAreSound`, `ReceiverCanAnswer`, `DifferencesAreSound`, `CustodyIsKept`, `BackstopsRefuseOneClose`, with one handler between its two steps while accounts, points, surpluses and movements change around it (`MaxInflight` is 1); the theorems of section 6 are for any number of handlers at a time |
| `field` | two users who may do everything, two payments, two renditions, two sessions in one branch, amounts up to 2 | `ReceiptsAreSound`, `DrawerIsBacked`, `NobodyLeavesWithCash`, `CashGoesOneWay`, `CustodyBackstopsAdmit` |
| `loans` | one loan of two instalments (interest and principal, then interest) over three days, or two loans on one day with three drawers of two cashiers in two branches; two payments, two keys, a reference | `StatusOnlyLags`, `KeyHasOneEffect`, `CashFollowsLedger`, `OldestFirst`, `DebtIsKept`, `LoanBackstopsAdmit` in every order of payments, reversals, assessments and days |
| `idempotent` | three calls under one key for three rows: two whose commands look before and under the lock, one that looks under it | `ReplaysTheAnswer`, `EveryCallIsAnswered`, `ServedOnce` |
| `legacy_cash` | one collector, one cashier with one session, one loan of 2, at most four documents and three movements | `BookedOnce`, `HandedInExactly`, `DeclaredIsHeld` under every sequence of payments, deliveries, receptions in part, reversals and orders |
| `collections` | one loan of two instalments, two payments and two promises over three days; on the first, before any payment, two agents, two assignments and an activity | `PromiseCanBeKept`, `HistoryIsALine`, `KeptIsNotCancelled`, `CollectionBackstopsAdmit` |
| `origination` | three versions over three days while nobody applies; one application for one version under every policy, or for two under the lax one; a document and the parties around one version | `OneVersionInForce`, `PastVigencyStands`, `ContractIsTraceable`, `NothingWithdrawnIsPromised`, `DecidedAsRead` |
| `customers` | the organization while there is no customer; then two workers over two persons who are edited, gather contacts, or gather addresses and references | `IdentityIsAccountedFor`, `EditsBuildOnWhatWasSeen` |
| `accounts` | two requests at a time in five scenes: the owner logs in, or is sent codes; two users administered; Google links; roles of three users | `SecretsAreSpentOnce`, `AuthorityIsHandedDown` |
| `schedules` | 306 drafts of every method, rounding, calendar policy and fee, valid and invalid; principals of 1, 2, 100 and a refused 101; two to four instalments and a refused five; from days around the end of January of a leap year | `ScheduleAddsUp`, `MoraFollowsDue` |
| `schedules_negative` | the same | **must fail**: `NoNegativeComponents`, see below |
| `worklist` | three loans in three time zones, nine requests, a page of one row, at most two changes beside the days during a walk | `EveryLoanOnce`, `RowsMatchFilter` |

Why small is enough here. Two sessions at one point are what it takes for a handover to move cash
and for a third actor to interfere; two handovers are a refusal and its redirect; three users are a
maker, a receiver and a supervisor. In `field` two receipts are what distinguishes one rendition of
two items from two renditions of one; the two users take every role in turn. In `loans` a slot of
zero, an instalment that falls due later, and two payments (one stands or is reversed, one comes
after) are what an allocation can get wrong; two loans only meet in keys and drawers, hence the
second part of its bound. In `idempotent` three calls are the one served, its repetition and a rival
for another row. In `legacy_cash` four documents are a payment, its delivery in part, the reversal
of that and a second delivery, and three movements are one and two attempts to reverse it; `Lent` is
2 so that a reception may be partial. In `collections` two promises are a promise and its
replacement, two payments one that keeps it and one that did not count. In `origination` three
versions are one in force, one published ahead and one that replaces it. In `worklist` three loans
are the last row of a page, one before and one after it, and two of them are alike in debt, so that
the id decides. Each bound (the ids, `MaxAmount`, `MaxInflight`, ...) is a constant named in its
cfg, and what composes several scenes in one run is a `CONSTRAINT` named `Bounds` in the MC module,
with a comment that says what each disjunct is for; TLC evaluates the invariants also on the states
at its edge. Symmetry is taken over interchangeable ids only. Deadlock checking stays on, except
where a cfg says otherwise: with finite ids the program really may come to rest (every id used), and
those cfgs say so.

The type invariants that no run names (`...TypeOK` of each module) hold in the same configurations;
where a proof module states one it is proved.

Fairness: none is assumed in the cash, credit, customer and identity components, and no liveness is
claimed of them: every step is a person's decision, and the code has no scheduler that would make a
cashier accept or a supervisor decide. `IdempotentCommand` is about one request, which the server
does drive: `LookBefore`, `CheckUnder` and `Commit` are the next statement of a running handler
(weak fairness), and `TakeRow` is a wait in PostgreSQL's queue for a row lock, which is granted in
turn: the lock may be taken by others again and again, so strong fairness is what it justifies.
`Send`, `Cut` and `Elsewhere` are not fair.

### A disagreement a run shows: `schedules_negative`

`docs/T-005-CREDIT-PRODUCTS.md:110-111` says that no component of a schedule
is negative. `_even_split` (`credit/engine.py:98-107`) rounds the even part and leaves the rest to
the last instalment: 2 units over 4 under half-up are 1, 1, 1 and -1. The quote shows it, the
application is approved and formalized, and the disbursement meets the check `amounts_non_negative`
(`loans/models.py:200`), which `disburse` takes for a second disbursement (`loans/service.py:295`).
`ScheduleAddsUp` states what does hold: a negative component has this cause and is on the last
instalment only.

### What the models show beyond the runs

Formulas that a document or a comment promises and the code does not keep, or keeps only when
requests do not overlap. Each is defined in its module, with a comment that says so; none is a
property of a run, and TLC refutes each in a few steps when it is made one.

* `ClosesHandOn` (`CashSessions`). The docstring of `close_session` (`sessions.py:592-595`) says that
  the counted cash of a close is left in a pending handover to the named cashier, and
  `docs/T-021-CASHPOINT-SESSION-LIFECYCLE.md:63` that a close with `counted > 0` yields `closing` and
  one handover. A session opened with a declared amount (`source` is `initial`) is meant to close by
  `close_simple_session`, but the route calls that only when the request carries `counted`
  (`api.py:51-77`), and `close_session` does not look at the source. The update to `closing`
  (`sessions.py:654`) then meets the trigger of `simple_ddl.py:50-52`. Its exception is no
  `IntegrityError`, so neither the handler nor `core/errors/handlers.py:111-116` takes it: the
  request ends in a server error, is rolled back, and fails alike when repeated. The legacy command
  looks at the source (`cash_service.py:402-406`). The `handover` run takes this step, and
  `BackstopsRefuseOneClose` says that it is the only one of its kind.
* `SurplusBlocksClose` (`CashSessions`). `CASH.md:53` says that a surplus under review blocks the
  close of a session. The v2 handlers look for it before they take the lock of the box and not again
  (`sessions.py:621`, `770`): one reported in between does not. The legacy close looks under the
  lock (`cash_service.py:400`).
* `ReplaysTheAnswer` where commands look only before the lock (`IdempotentCommand` with `looks <-
  MCLooksBefore`). T-019 (73-75) and T-020 (68-69) say that the same key and content replays the
  stored answer. `declare` (`service.py:188-196`) and `refund` (696-702) look before they wait for
  the receipts: the second of two identical requests in flight finds them claimed, or the payment
  refunded, and is answered 409. Nothing is done twice.
* `NobodyLeavesWithPending` (`LegacyCash`). `CASH.md:29` says that a user with a balance, a delivery
  or a transfer pending can neither be moved nor disabled. `update_user` looks for them under the
  row of the user (`users.py:286-287`), `register_payment` looks at the user under the row of the
  box (`cash_service.py:54`), and neither waits for the other.
* `ReversalCorrectsCashOnly` (`LegacyCash`). `CASH.md:27` says that reversing the movement of a
  payment corrects the cash only. For a payment at the counter the code also puts it back on the
  loan (`cash_service.py:422-426`, `revert_payment`); `BookedOnce` describes what the code does.
* `BaseIsEnabled` (`Organization`). `docs/T-003-ORGANIZATION.md:32` says that the base currency is
  enabled. `update_tenant_settings` (`organization/service.py:100`) and `disable_currency` (492)
  each look at what the other writes, without a lock.
* `PendingHasNoPassword` (`Accounts`). A comment in `enable_user` (`identity/admin.py:182`) says
  that an account which goes back to pending has no usable password. `create_user` of the v1 routes
  (`users.py:245`) makes active accounts with a password and no `activated_at`; disabled and
  enabled, they are pending.

## 5. The properties

Each is stated in words above its definition. Each has a mutant: a copy of one operator with one
plausible mistake (`Mutant...`, next to the operator) under which TLC finds it violated.

`CashSessions`: `HandoversAreSound`, which is `OneActiveSession` (a point has one open or closing
session), `ClosingCashIsOffered` (the cash of a closing session is owed to one live handover),
`OneStandingHandover`, `RedirectsFormAChain` (each redirect carries the same cash on from a
refusal), `ConfirmedOpensOne` and `RefusalIsRespected`; `ReceiverCanAnswer` (a person named in a
live handover is not disabled); `DifferencesAreSound` (exact, and reviewed by somebody else);
`HistoryIsFrozen` (proved); `CustodyIsKept` (refinement); `BackstopsRefuseOneClose` (every row that
is committed passes the triggers, and the only request that breaks on one hands on the cash of a
session no close may leave waiting).

`FieldCustody`: `ReceiptsAreSound`, which is `ClaimedOnce`, `OneWayOut` and `CashIsWitnessed`;
`DrawerIsBacked` (a drawer holds what its movements say, and the reports of the custody add up to
the cash that is out); `NobodyLeavesWithCash`; `CashGoesOneWay` (refinement);
`CustodyBackstopsAdmit`.

`CreditLoans`: `StatusOnlyLags` (a stored status is wrong in one direction only: a loan may have
become overdue since it was projected; that of an instalment that owes something is right);
`OldestFirst` (an action property); `KeyHasOneEffect`; `CashFollowsLedger` (drawers agree with the
tables, and a reversal takes from a proper drawer); `DebtIsKept` (refinement); `LoanBackstopsAdmit`
(no slot is over- or underpaid after any history, every payment is applied to the cent, rows are
written once).

`IdempotentCommand`: `ReplaysTheAnswer` (a request that was served is never refused);
`EveryCallIsAnswered` (liveness); `ServedOnce` (refinement).

`LegacyCash`: `BookedOnce` (after any corrections the movements of a delivery, surplus or order are
those of its state, and a loan owes what its payments left); `HandedInExactly` (the cash of a field
payment is with its collector or handed in, to the cent); `DeclaredIsHeld` (a declared delivery can
still be received whole).

`Collections`: `PromiseCanBeKept` (what an open promise still lacks is not more than what is due by
its date, whatever was paid and reversed since); `HistoryIsALine`; `KeptIsNotCancelled` (an action
property); `CollectionBackstopsAdmit`.

`Worklist`: `EveryLoanOnce` (a loan that keeps its place during a walk is listed once, or not at all
if it does not belong); `RowsMatchFilter` (the promise and the activity a row shows never contradict
its filter, and neither does the assignment of a loan that kept its place).

`CreditProducts`, `Origination`: `OneVersionInForce`; `PastVigencyStands` (an action property: no
step changes what was in force on a day gone by); `ContractIsTraceable` (request, submission,
version, authority, decision and contract agree); `NothingWithdrawnIsPromised` (an action property);
`DecidedAsRead` (a publication and a decision are about the content last read; what is closed is
never written again).

`Schedules`: `ScheduleAddsUp` (principal to the cent, days in order, the parts of an even split
equal but for the last, which takes the residual, and the hash fixes the schedule);
`MoraFollowsDue`.

`Customers`: `IdentityIsAccountedFor` (one document, one person, its revisions a chain);
`EditsBuildOnWhatWasSeen` (an action property: no lost update). `OnePrimaryAtMost` was checked with
the same configuration.

`Accounts`: `SecretsAreSpentOnce`; `AuthorityIsHandedDown`.

## 6. The proofs

The eight modules with proofs hold theorems for every set of users, points, sessions, loans,
instalments, payments, promises, calls, keys and ids. They rest on the assumptions the modules name
and nothing else: permission sets are sets of users, `None` is nobody and no number, bounds are
natural numbers, the tables of `FieldCustody` are finite (their keys are 32-bit integers), a
contract lends something (some principal is due) and its order lists each component once, amounts
of cash asked for are positive, and the roles of the owner and the cashier exist, with room for one
assignment.

The invariants are not inductive one by one. That a confirmed handover opened one session needs that
the source was closing, which needs that the rows refer to each other; that a receiver is never
disabled needs what a request between its two steps may still do. `IInv` is the conjunction of the
type invariant, of `RowsAreConnected` (what foreign keys, checks and triggers promise) and of the
safety invariants. The argument has three layers:

1. *Rows*: what each record update yields, field by field.
2. *Shapes*: every action is one of a few shapes (opens a session, books, declares, accepts, ends,
   refunds, ...), each of which says which rows it touches (`StepShapes`, `Shapes`).
3. *Invariants*: for each conjunct, each shape that can disturb it.

`CashSessionsProofs`: `SoundHandovers` and `SoundDifferences` state the properties of the run.
`CustodyImplemented` is the refinement of `CashCustody`: of one point, `OneActiveSession` makes the
keeper a function, and an acceptance moves offered cash whole because the handover carries what was
counted. `OneCloseIsRefused` goes trigger by trigger. Those of the moment of COMMIT follow from
the invariant of the next state alone (`SessionsAtCommit`, `HandoversAtCommit`); those of an insert
or update need the shape, and one more invariant, `NotReplaced`: only a handover that a redirect
cancelled has a replacement. Its last part is about the request that breaks: the session is one
opened with a declared amount, whatever is counted (`BrokenOnlyBySimpleClose`).

`FieldCustodyProofs` proves the refinement as well: `Implements == Spec => CashGoesOneWay`. The
interesting cases are an acceptance, where each item has to be shown to be still with the collector
(it is claimed, so nobody refunded it), and a refund, whose source was read under the receipt's lock
only: nothing can claim a locked receipt, and an accepted rendition is never reopened. `Backed` adds
up: a drawer is its accepted renditions less the refunds made from it (`DrawersHold`), and the
receipts of an accepted rendition belong to no other, so that drawers, hands and customers partition
what was collected. `TriggersAdmit` is the database's side of the same steps.

`Sums` has what these proofs need of sums. `MapThenSumSet` is a fold that takes the elements in an
order `CHOOSE` picks, and the library's induction theorems take an operator as a parameter, so the
facts (a sum does not depend on the order, grows by what is added, splits over a partition, is
bounded by another one term by term) are proved from least counterexamples: if a natural number
failed, the least one that does would have a predecessor that does not (`EveryNatural`), and the
number of elements of a set carries the induction. A table adds up to the same by rows and by
columns (`RowsAndColumns`), which is shown by adding a row at a time. Likewise a finite set of
distinct slots has exactly one listing in the order of the contract, which is what `Run` sorts into.

`CreditLoansProofs` has four layers, each using those before it:

* `IInv`: a loan's lock belongs to one command, and what that command read under it is still so when
  it commits (`RowsAndLocks`: the payment it reverses is not reversed, it is of this loan). From it
  follow that keys and references have one effect across loans, that a payment is reversed once
  (`Final`), and that a reversal takes the money from an own drawer of the right branch.
* `Books`: finitely many payments have been made, and each drawer is its fund plus what it received
  less what it handed back and lent. `CashIsAccountedFor` needs both layers.
* `Lags`, one loan at a time: its stored statuses are those of what is applied to it, but for the
  days since. Only slots that were projected count, so an instalment that owes nothing from the
  start is exempt (the contract has none, the model admits it).
* `LInv`: nothing is applied beyond its due, the parts of a payment add up to it, and the allocation
  computed under the lock (`Fits`) still fits at the commit: it is within what is outstanding, and
  touches a slot only where the earlier ones of the run end up settled. From it `OldestIsFirst`,
  `LoansPassTheirTriggers` and the refinement `DebtKept`, where the debt of a loan is the sum of its
  dues less the sum of what is applied.

The second part of `CreditLoansProofs` is about `Collections`: `LedgerUnderCollections` carries all
of that over, since a step of collections leaves the ledger alone. `HInv` says of every command what
it read under the row of its loan (the open assignment, the current promise, what was paid), from
which `OneLine` and `KeptStays`. That an open promise can be paid (`PromisesAreKeepable`) is not
inductive: a payment lowers what is due and what is missing, a reversal raises both, and a promise
that is kept at the moment may be reopened by one. `Keepable` therefore speaks of kept promises too,
and `PaidWhenDue` (a payment went to slots that were due on its day, so by the date of the promise)
makes both move by the same amount.

`IdempotentCommandProofs`: that a key is served once does not follow from the index alone, because
the answer has to be right as well. `ReadyIsFresh` says that a call which looked under its lock and
found nothing still has no row of the very same request before it: such a row would be of the same
target, whose lock the call holds. With it, every step of a command is a step of `OnceOnly` or none
(`ServesOnce`), if no command looks only before its lock; the theorem's premise
`NoneLooksOnlyBefore` is exactly what section 4 says two commands lack.

`OriginationProofs` begins with the catalogue. That one version at most is in force on a day does
not say why publishing the next one keeps it so. `WindowsApart` does: of two issued versions, one
ends before the other starts (`Before`). A publication ends the open window on the eve of the new
one; a retirement never moves an end that is already set, and never sets one before the version
starts. `LookIsHonest` relates what an author last read to the `row_version` it had, from which a
publication is of what was read (`PublishedAsRead`): an edit in between has moved the row.

The applications come on top, with the catalogue's invariant as a conjunct. `Held` is the heart of
it: what an approval or a formalization looked at when it took its locks (the version is usable, the
authority suffices, the request is the one that was read) is still so when it commits, because
whoever withdraws a version waits for the row of the product, and whoever edits the request for the
row of the application. `AsSubmitted`, `AsDecided` and `AsFormalized` relate the request to its last
submission, the decision to that, and the contract to the decision; that a contract goes on
verifying after its version is retired follows from `Issued`: an issued version keeps its content
and hash. The theorems are the five properties of the `origination` run, for any number of
applications, people, versions and days.

`LegacyCashProofs`: what a collector holds and what a document booked is never stored, so each of
the three properties compares sums over rows that are appended and otherwise only change state. The
invariant comes in two layers.

* `BooksInv`: there is room for the rows, which are as typed; a movement is reversed by one other at
  most, which undoes it exactly, and each document is booked by one movement besides those
  (`DocumentsStand`); a loan that was disbursed owes what its payments left (`LoansOwe`).
  `BookedOnce` follows: the movements of a document are the one that booked it, or that one and its
  reversal, which cancel.
* `HeldInv`: the parts allotted to payments. What is not decided is allotted to none (`PartsStand`);
  the parts of a confirmed delivery are of field cash of its own collector and add up to what was
  received; what all rows allot to a payment is what the confirmed ones do, since a reversal cancels
  what it reverses (`OnlyConfirmedCount`); no payment is allotted beyond its amount
  (`NoneAllottedTwice`); and what is declared and not decided, with what was received, is within
  what its collector took (`DeclaredFits`).

`HandedInExactly` exchanges rows and columns: what a collector took less what each payment still has
is the sum of the parts by payment, and what the boxes received is the same sum by delivery.
`SharesAddUp` is why a confirmation keeps it so: the oldest payments, one after another, take the
whole amount whenever it is within what is pending, and `DeclaredIsHeld` says that it is.

`AccountsProofs`: here almost nothing is locked, so the invariant has to survive requests that act
on what they read earlier. `SecretsHold` relates how often a secret was good for something to its
state, and for a refresh token to the one its session knows; whoever takes it looks at the row as it
is then, and leaves it used. `PrincipalsHold` says that what a request was granted when it was
authenticated comes from assignments that were made, which are ended but never deleted; and a role
that was handed out is not empty, so that nobody defines it anew. From these follows `HandedDown`,
also for a request whose author has lost the role in the meantime.

Model-checked only:

* `EveryCallIsAnswered`: liveness, out of the prover's reach.
* `ScheduleAddsUp`, `MoraFollowsDue`: what the engine's recursion yields for every input would need
  induction over data.
* `EveryLoanOnce`, `RowsMatchFilter` (`Worklist`): a page is a sorted sequence cut at an offset, and
  what sorting and cutting yields needs induction over its length.
* `IdentityIsAccountedFor`, `EditsBuildOnWhatWasSeen` (`Customers`): not yet proved.

## 7. What is not modelled

* *Legacy loans and payments* (`loan_service.py`, `payment_service.py`): the instalments, fees and
  renewals of v1 loans. What the cash command needs of them, the amount owed, is in `LegacyCash`;
  with instalments that module would not fit a run.
* *Routes, payroll, billing, subscriptions, PayPal, platform settings*: not yet.
* *Lock order*: an action takes all its locks at once. Handlers that wait on each other are aborted
  by PostgreSQL and leave no trace, as a refused command does.
* *Left out for good*: parsing and serialisation, pagination other than the worklist's, the audit
  trail, texts, sequence numbers, e-mail, migrations, one-line placeholder packages.
* *Of the modelled components*: currencies (a mismatch is refused at the start), the tenant, keys
  outside `IdempotentCommand`, and what section 3 names under each module. A calendar day does not
  change within a transaction. `payment_custody` (three statements) is taken as one moment in
  `FieldCustody`. The triggers of the retired capital custody are not among the backstops. In
  `LegacyCash`: versions (a stale one is a refusal), bank transfers that a cashier registers (they
  book no cash) and field payments that an administrator registers (as a collector's).
