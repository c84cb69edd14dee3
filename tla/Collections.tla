----------------------------- MODULE Collections -----------------------------
(***************************************************************************)
(* The collection of a loan (app/modules/loans: assignments, activities,   *)
(* promises) over the ledger of CreditLoans: who is responsible for it,    *)
(* what was done about it, what its customer promised, and what became of  *)
(* the promise, which is never stored but derived from the payments that   *)
(* followed.  Activities and promises keep a snapshot of the assignment    *)
(* that was open when they were written.                                   *)
(*                                                                         *)
(* Every command holds the row of its loan, as payments and reversals do.  *)
(* It is two steps, the lock with everything read under it and the commit  *)
(* with the unique index.  A command refused changes nothing and is no     *)
(* action; keys and replayed answers are IdempotentCommand's.              *)
(***************************************************************************)
EXTENDS CreditLoans

CONSTANTS
  Promise, Assignment, Activity,
  Agent,  \* the active users who may be made responsible
  Till  \* where payments are received: a drawer, or None for one collected in the field

ASSUME CollectionsTill == Till \subseteq SessionId \cup {None}
ASSUME CollectionsNone == None \notin Promise \cup Assignment \cup Agent

VARIABLES
  promise,     \* credit_collection_promises
  assignment,  \* credit_collection_assignments
  activity,    \* credit_collection_activities
  paidOn,      \* the business dates of credit_payments
  desk         \* the collection command that holds the row of each loan

deskVars == <<promise, assignment, activity, paidOn, desk>>
allVars == <<vars, deskVars>>

\* "earlier" stands for created_at: the payments the loan had received by then.
PromiseRow ==
  [loan : Loan \cup {None}, amount : Nat, date : Day, earlier : SUBSET Payment,
   supersedes : Promise \cup {None}, closed : {"no", "cancelled", "superseded"},
   assignment : Assignment \cup {None}]
AssignmentRow == [loan : Loan \cup {None}, to : Agent \cup {None}, ended : BOOLEAN]
ActivityRow == [loan : Loan \cup {None}, assignment : Assignment \cup {None}]
Task ==
  [kind : {"none", "promise", "cancel", "assign", "end", "record"}, old : Promise \cup {None},
   amount : Nat, date : Day, earlier : SUBSET Payment,
   open : Assignment \cup {None}, to : Agent \cup {None}]

NoPromise == [loan |-> None, amount |-> 0, date |-> 0, earlier |-> {}, supersedes |-> None,
              closed |-> "no", assignment |-> None]
NoAssignment == [loan |-> None, to |-> None, ended |-> FALSE]
NoActivity == [loan |-> None, assignment |-> None]
NoTask == [kind |-> "none", old |-> None, amount |-> 0, date |-> 0, earlier |-> {},
           open |-> None, to |-> None]

CollectionsInit ==
  /\ Init
  /\ promise = [n \in Promise |-> NoPromise]
  /\ assignment = [a \in Assignment |-> NoAssignment]
  /\ activity = [v \in Activity |-> NoActivity]
  /\ paidOn = [p \in Payment |-> 0]
  /\ desk = [l \in Loan |-> NoTask]

-----------------------------------------------------------------------------
(* The row of the loan is held by one command, of either kind.             *)

MutantFree(l) == desk[l] = NoTask
Free(l) == Idle(l) /\ desk[l] = NoTask

Begin(l, task) ==
  /\ Free(l)
  /\ desk' = [desk EXCEPT ![l] = task]
  /\ UNCHANGED <<vars, promise, assignment, activity, paidOn>>

Done(l) == desk' = [desk EXCEPT ![l] = NoTask]

GiveUp(l) ==
  /\ desk[l] # NoTask
  /\ Done(l)
  /\ UNCHANGED <<vars, promise, assignment, activity, paidOn>>

-----------------------------------------------------------------------------
(* Assignments and activities.                                             *)

IsOpenFor(a, l) == assignment[a].loan = l /\ ~assignment[a].ended
MutantOpen(l) ==
  IF \E a \in Assignment : assignment[a].loan = l
  THEN CHOOSE a \in Assignment : assignment[a].loan = l ELSE None
Open(l) ==
  IF \E a \in Assignment : IsOpenFor(a, l) THEN CHOOSE a \in Assignment : IsOpenFor(a, l) ELSE None

LockToAssign(l, u) ==
  /\ loan[l].status \in {"active", "past_due"}
  /\ Open(l) # None => assignment[Open(l)].to # u
  /\ Begin(l, [NoTask EXCEPT !.kind = "assign", !.open = Open(l), !.to = u])

Ended(rows, a) == IF a = None THEN rows ELSE [rows EXCEPT ![a].ended = TRUE]

AssignmentIndexes(rows) ==
  \A a, b \in Assignment :
    a # b /\ rows[a].loan # None /\ rows[a].loan = rows[b].loan => rows[a].ended \/ rows[b].ended

\* A reassignment closes the open row and inserts the new one.
CommitAssign(l, a) ==
  /\ desk[l].kind = "assign"
  /\ assignment[a] = NoAssignment
  /\ assignment' = [Ended(assignment, desk[l].open) EXCEPT
                      ![a] = [loan |-> l, to |-> desk[l].to, ended |-> FALSE]]
  /\ AssignmentIndexes(assignment')
  /\ Done(l)
  /\ UNCHANGED <<vars, promise, activity, paidOn>>

LockToEnd(l) == Open(l) # None /\ Begin(l, [NoTask EXCEPT !.kind = "end", !.open = Open(l)])

CommitEnd(l) ==
  /\ desk[l].kind = "end"
  /\ assignment' = Ended(assignment, desk[l].open)
  /\ Done(l)
  /\ UNCHANGED <<vars, promise, activity, paidOn>>

LockToRecord(l) == Disbursed(l) /\ Begin(l, [NoTask EXCEPT !.kind = "record", !.open = Open(l)])

CommitRecord(l, v) ==
  /\ desk[l].kind = "record"
  /\ activity[v] = NoActivity
  /\ activity' = [activity EXCEPT ![v] = [loan |-> l, assignment |-> desk[l].open]]
  /\ Done(l)
  /\ UNCHANGED <<vars, promise, assignment, paidOn>>

-----------------------------------------------------------------------------
(* Promises: the result of one is derived from the ledger at every read.   *)

Qualifying(n) ==
  {p \in Payment : /\ payment[p].loan = promise[n].loan
                   /\ p \notin promise[n].earlier
                   /\ paidOn[p] <= promise[n].date
                   /\ ~IsReversed(p)}
QualifyingPaid(n) == MapThenSumSet(LAMBDA p : payment[p].amount, Qualifying(n))

ProjectedStatus(n, date) ==
  IF promise[n].closed # "no" THEN promise[n].closed
  ELSE IF QualifyingPaid(n) >= promise[n].amount THEN "fulfilled"
  ELSE IF date > promise[n].date THEN "broken" ELSE "open"

IsCurrent(n, l) == promise[n].loan = l /\ promise[n].closed = "no"
Current(l) ==
  IF \E n \in Promise : IsCurrent(n, l) THEN CHOOSE n \in Promise : IsCurrent(n, l) ELSE None

PromiseIndexes(rows) ==
  \A m, n \in Promise :
    m # n /\ rows[m].loan # None /\ rows[m].loan = rows[n].loan =>
      rows[m].closed # "no" \/ rows[n].closed # "no"

\* What will be due by a date, on the net ledger of now.
DueBy(l, date) == DueToDate(l, date, Outstanding(NetApplied(l)))

MutantValidTerms(l, amount, date) == date >= today /\ amount <= Debt(l)
ValidTerms(l, amount, date) == date >= today /\ DueBy(l, date) > 0 /\ amount <= DueBy(l, date)

\* A first promise needs that there is no current one, a replacement that there is.
Promisable(l, replaces) == Disbursed(l) /\ (replaces <=> Current(l) # None)

LockToPromise(l, replaces, amount, date) ==
  /\ Promisable(l, replaces)
  /\ ValidTerms(l, amount, date)
  /\ Begin(l, [NoTask EXCEPT !.kind = "promise",
                             !.old = IF replaces THEN Current(l) ELSE None,
                             !.amount = amount, !.date = date, !.open = Open(l),
                             !.earlier = {p \in Payment : payment[p].loan = l}])

MutantSupersededLabel(rows, n) ==
  IF n = None THEN rows ELSE [rows EXCEPT ![n].closed = "cancelled"]
Superseded(rows, n) == IF n = None THEN rows ELSE [rows EXCEPT ![n].closed = "superseded"]

NewPromise(l, task) ==
  [NoPromise EXCEPT !.loan = l, !.amount = task.amount, !.date = task.date,
                    !.earlier = task.earlier, !.supersedes = task.old, !.assignment = task.open]

CommitPromise(l, n) ==
  LET task == desk[l]
  IN /\ task.kind = "promise"
     /\ promise[n] = NoPromise
     /\ promise' = [Superseded(promise, task.old) EXCEPT ![n] = NewPromise(l, task)]
     /\ PromiseIndexes(promise')
     /\ Done(l)
     /\ UNCHANGED <<vars, assignment, activity, paidOn>>

Cancellable(n) == ProjectedStatus(n, today) = "open"

LockToCancel(n) ==
  /\ promise[n].loan # None
  /\ Cancellable(n)
  /\ Begin(promise[n].loan, [NoTask EXCEPT !.kind = "cancel", !.old = n])

CommitCancel(l) ==
  LET n == desk[l].old
  IN /\ desk[l].kind = "cancel"
     /\ promise' = [promise EXCEPT ![n].closed = "cancelled"]
     /\ Done(l)
     /\ UNCHANGED <<vars, assignment, activity, paidOn>>

-----------------------------------------------------------------------------
(* The commands of CreditLoans, which wait for the row of the loan too.    *)

Pay(l, p) ==
  /\ CommitPayment(l, p)
  /\ paidOn' = [paidOn EXCEPT ![p] = work[l].date]
  /\ UNCHANGED <<promise, assignment, activity, desk>>

Lend ==
  /\ UNCHANGED deskVars
  /\ \/ \E l \in Loan :
          \/ \E s \in SessionId : Disburse(l, s)
          \/ /\ Free(l)
             /\ \/ \E amount \in 1 .. Contract, s \in Till, key \in Key,
                      reference \in Reference \cup {None} : LockToPay(l, amount, s, key, reference)
                \/ Assess(l)
          \/ CommitReversal(l)
          \/ Abort(l)
     \/ \E u \in User, p \in Payment, s \in Till, key \in Key :
          payment[p].loan # None /\ Free(payment[p].loan) /\ LockToReverse(u, p, s, key)
     \/ NextDay
     \/ \E s \in SessionId : (\E fund \in 0 .. MaxFund : OpenDrawer(s, fund)) \/ CloseDrawer(s)

Promising ==
  \/ \E l \in Loan :
       \/ \E replaces \in BOOLEAN, amount \in 1 .. Contract, date \in Day :
            LockToPromise(l, replaces, amount, date)
  \/ \E n \in Promise : LockToCancel(n)
  \/ \E l \in Loan :
       \/ \E n \in Promise : CommitPromise(l, n)
       \/ CommitCancel(l)
       \/ GiveUp(l)
       \/ \E p \in Payment : Pay(l, p)

Assigning ==
  \E l \in Loan :
    \/ \E u \in Agent : LockToAssign(l, u)
    \/ \E a \in Assignment : CommitAssign(l, a)
    \/ LockToEnd(l)
    \/ CommitEnd(l)
    \/ LockToRecord(l)
    \/ \E v \in Activity : CommitRecord(l, v)

CollectionsNext == Lend \/ Promising \/ Assigning
CollectionsSpec == CollectionsInit /\ [][CollectionsNext]_allVars

-----------------------------------------------------------------------------
(* Properties.                                                             *)

\* The rows the collection commands leave have the columns of their tables, the unique indexes hold,
\* and a command waiting for its commit is alone on the row of its loan.
CollectionsTypeOK ==
  /\ promise \in [Promise -> PromiseRow]
  /\ assignment \in [Assignment -> AssignmentRow]
  /\ activity \in [Activity -> ActivityRow]
  /\ paidOn \in [Payment -> Day]
  /\ desk \in [Loan -> Task]
  /\ \A l \in Loan : desk[l] # NoTask => Idle(l)

\* However payments and reversals fall around it, what is missing from a promise that is not broken
\* can still be paid by its date: a payment may never exceed what is due on its day (promises.py's cap).
PromiseCanBeKept ==
  \A n \in Promise :
    promise[n].loan # None /\ ProjectedStatus(n, today) = "open" =>
      promise[n].amount - QualifyingPaid(n) <= DueBy(promise[n].loan, promise[n].date)

\* Commands that race leave one line of promises and one of assignments per loan: at most one current
\* of each, and every superseded promise replaced by exactly one other of its loan.
HistoryIsALine ==
  /\ \A l \in Loan : \A m, n \in Promise : IsCurrent(m, l) /\ IsCurrent(n, l) => m = n
  /\ \A l \in Loan : \A a, b \in Assignment : IsOpenFor(a, l) /\ IsOpenFor(b, l) => a = b
  /\ \A m \in Promise : promise[m].supersedes # None =>
       /\ promise[promise[m].supersedes].loan = promise[m].loan
       /\ promise[promise[m].supersedes].closed = "superseded"
       /\ \A n \in Promise : promise[n].supersedes = promise[m].supersedes => m = n
  /\ \A n \in Promise : promise[n].closed = "superseded" =>
       \E m \in Promise : promise[m].supersedes = n

\* A promise that its customer has kept is never relabelled as cancelled.
KeptIsNotCancelled ==
  [][\A n \in Promise :
       promise'[n].closed = "cancelled" /\ promise[n].closed = "no" =>
         QualifyingPaid(n) < promise[n].amount]_allVars

-----------------------------------------------------------------------------
(* The triggers under the three tables (models.py).                        *)

AssignmentInsertCheck(row) == ~row.ended
AssignmentGuard(old, new) == ~old.ended /\ new = [old EXCEPT !.ended = TRUE]

\* Whether a is the assignment of the loan that is open as a row is inserted, None when there is none.
OpenAt(rows, l, a) == IF a = None THEN \A b \in Assignment : rows[b].loan = l => rows[b].ended
                      ELSE rows[a].loan = l /\ ~rows[a].ended

PromiseInsertCheck(n) ==
  LET row == promise'[n] IN
  /\ row.closed = "no"
  /\ OpenAt(assignment, row.loan, row.assignment)
  /\ row.supersedes # None =>
       promise'[row.supersedes].loan = row.loan /\ promise'[row.supersedes].closed = "superseded"
PromiseGuard(n) ==
  /\ promise[n].closed = "no"
  /\ promise'[n].closed # "no"
  /\ promise'[n] = [promise[n] EXCEPT !.closed = promise'[n].closed]

\* No trigger refuses what a command does under the lock of its loan: a snapshot is of the assignment
\* that is open at that moment, whatever reassignments raced for the loan, and history stands.
CollectionBackstopsAdmit ==
  [][/\ \A a \in Assignment : assignment'[a] # assignment[a] =>
          IF assignment[a] = NoAssignment THEN AssignmentInsertCheck(assignment'[a])
          ELSE AssignmentGuard(assignment[a], assignment'[a])
     /\ \A v \in Activity : activity'[v] # activity[v] =>
          activity[v] = NoActivity /\ OpenAt(assignment, activity'[v].loan, activity'[v].assignment)
     /\ \A n \in Promise : promise'[n] # promise[n] =>
          IF promise[n] = NoPromise THEN PromiseInsertCheck(n) ELSE PromiseGuard(n)]_allVars
=============================================================================
