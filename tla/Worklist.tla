------------------------------ MODULE Worklist ------------------------------
(***************************************************************************)
(* The collection worklist (app/modules/loans/worklist.py): a client walks *)
(* its pages while payments, reversals, promises, activities, assignments  *)
(* and days go on.  A page is read by several statements, each of which    *)
(* sees what is committed when it starts; the loans of the second stage    *)
(* come from the first, and the next page starts after the last row of     *)
(* this one.                                                               *)
(*                                                                         *)
(* Every loan has one obligation here and every payment is of one unit:    *)
(* CreditLoans has the ledger behind the net amounts.                      *)
(***************************************************************************)
EXTENDS Integers, FiniteSets, FiniteSetsExt, SequencesExt

CONSTANTS
  Loan,          \* their ids
  zone,          \* days by which the contract of a loan is ahead of UTC
  DueOn, Debt,   \* its obligation
  Payment, User, None,
  Filter,        \* the requests of clients: a filter, a sort and an order
  Limit,         \* rows of a page
  MaxDay, MaxPromises

Request ==
  [sort : {"days_overdue", "overdue_outstanding", "oldest_overdue_date"}, order : {"asc", "desc"},
   minDays : Nat, assignment : {"any", "unassigned", "assigned"} \cup User,
   activity : {"any", "has_activity", "no_activity"},
   promise : {"any", "none", "open", "fulfilled", "broken"}]
ASSUME FiltersAreRequests == Filter \subseteq Request

VARIABLES
  today,      \* the UTC date
  payment, promise, assignee,
  active,     \* whether any activity was recorded for a loan
  reader,     \* the page that is being read
  listed,     \* the rows of the pages so far
  steady      \* the loans whose place in the list has not changed since the walk began

vars == <<today, payment, promise, assignee, active, reader, listed, steady>>

NoPayment == [loan |-> None, date |-> 0, after |-> 0, reversed |-> FALSE]
NoPromise == [n |-> 0, current |-> FALSE, date |-> 0]
NoReader == [pc |-> "idle", filter |-> None, now |-> 0, cursor |-> None, cands |-> {},
             made |-> <<>>, gross |-> <<>>, page |-> <<>>, more |-> FALSE, owner |-> <<>>, shown |-> <<>>]

WorklistTypeOK ==
  /\ today \in 0 .. MaxDay
  /\ \A p \in Payment : payment[p].loan \in Loan \cup {None}
  /\ \A l \in Loan : promise[l].n \in 0 .. MaxPromises
  /\ assignee \in [Loan -> User \cup {None}] /\ active \in [Loan -> BOOLEAN]
  /\ reader.pc \in {"idle", "candidates", "promises", "gross", "reversed", "assignments", "shown",
                    "activities", "done"}
  /\ steady \subseteq Loan

Init ==
  /\ today = 0
  /\ payment = [p \in Payment |-> NoPayment]
  /\ promise = [l \in Loan |-> NoPromise]
  /\ assignee = [l \in Loan |-> None]
  /\ active = [l \in Loan |-> FALSE]
  /\ reader = NoReader
  /\ listed = <<>>
  /\ steady = {}

-----------------------------------------------------------------------------
(* What a row is derived from.                                             *)

Local(l, day) == day + zone[l]

Gross(l) == Cardinality({p \in Payment : payment[p].loan = l})
Reversed(l) == Cardinality({p \in Payment : payment[p].loan = l /\ payment[p].reversed})

IsOverdue(l, net, day) == Local(l, day) > DueOn[l] /\ net < Debt[l]

\* The payments since the promise was made, dated no later than it and not reversed, cover it.
IsKept(l, made) ==
  \E p \in Payment :
    /\ payment[p].loan = l /\ ~payment[p].reversed
    /\ payment[p].after >= made.n /\ payment[p].date <= made.date

PromiseStatus(l, made, kept, day) ==
  IF ~made.current THEN "none"
  ELSE IF kept THEN "fulfilled" ELSE IF Local(l, day) > made.date THEN "broken" ELSE "open"

SortValue(l, sort, net, day) ==
  CASE sort = "days_overdue" -> Local(l, day) - DueOn[l]
    [] sort = "overdue_outstanding" -> Debt[l] - net
    [] sort = "oldest_overdue_date" -> DueOn[l]

-----------------------------------------------------------------------------
(* The candidates.                                                         *)

AssignmentFits(owner, wanted) ==
  CASE wanted = "any" -> TRUE
    [] wanted = "unassigned" -> owner = None
    [] wanted = "assigned" -> owner # None
    [] wanted \in User -> owner = wanted

ActivityFits(l, wanted) == wanted # "any" => (active[l] <=> (wanted = "has_activity"))

\* Dates that may be of the wanted status in some time zone; the status is decided afterwards.
PromiseMayFit(l, wanted) ==
  CASE wanted = "any" -> TRUE
    [] wanted = "none" -> ~promise[l].current
    [] wanted = "fulfilled" -> promise[l].current
    [] wanted = "broken" -> promise[l].current /\ promise[l].date <= today
    [] wanted = "open" -> promise[l].current /\ promise[l].date >= today - 1

Candidate(l, filter) ==
  /\ DueOn[l] <= today
  /\ AssignmentFits(assignee[l], filter.assignment)
  /\ ActivityFits(l, filter.activity)
  /\ PromiseMayFit(l, filter.promise)

Decides(wanted) == wanted \in {"open", "fulfilled", "broken"}

-----------------------------------------------------------------------------
(* The order of the rows and the cursor.                                   *)

MutantAfter(value, l, other, k, order) == IF order = "asc" THEN value > other ELSE value < other
After(value, l, other, k, order) ==
  \/ value = other /\ l > k
  \/ value # other /\ (IF order = "asc" THEN value > other ELSE value < other)

\* The loans of a set in the order of the request, after its cursor.
Sorted(loans, value, order) ==
  SetToSortSeq(loans, LAMBDA a, b : (value[a] = value[b] /\ a < b)
                                    \/ (value[a] # value[b] /\ (value[a] < value[b]) = (order = "asc")))
PastCursor(loans, value, filter, cursor) ==
  {l \in loans : cursor = None \/ After(value[l], l, cursor[1], cursor[2], filter.order)}

-----------------------------------------------------------------------------
(* The walk.                                                               *)

\* What places a loan in the list now: the conditions it meets, and its value.
Conditions(l, filter) ==
  [overdue |-> /\ IsOverdue(l, Gross(l) - Reversed(l), today)
               /\ Local(l, today) - DueOn[l] >= filter.minDays,
   assignment |-> AssignmentFits(assignee[l], filter.assignment),
   activity |-> ActivityFits(l, filter.activity),
   promise |-> filter.promise \in {"any", PromiseStatus(l, promise[l], IsKept(l, promise[l]), today)}]
Belongs(l, filter) == \A c \in Range(Conditions(l, filter)) : c
Place(l) ==
  <<Conditions(l, reader.filter), SortValue(l, reader.filter.sort, Gross(l) - Reversed(l), today)>>

Reads(next) == UNCHANGED <<today, payment, promise, assignee, active, steady>> /\ reader' = next

\* The first page of a request.
Begin(filter) ==
  /\ reader.pc = "idle"
  /\ reader' = [NoReader EXCEPT !.pc = "candidates", !.filter = filter]
  /\ listed' = <<>>
  /\ steady' = Loan
  /\ UNCHANGED <<today, payment, promise, assignee, active>>

ReadCandidates ==
  /\ reader.pc = "candidates"
  /\ Reads([reader EXCEPT
       !.pc = IF Decides(reader.filter.promise) THEN "promises" ELSE "gross",
       !.now = today,
       !.cands = {l \in Loan : Candidate(l, reader.filter)},
       !.made = IF Decides(reader.filter.promise) THEN promise ELSE <<>>])
  /\ UNCHANGED listed

\* The exact stage of the promise filter, over the promises the first statement returned.
FilterByPromise ==
  LET status == [l \in Loan |-> PromiseStatus(l, reader.made[l], IsKept(l, reader.made[l]), reader.now)]
  IN /\ reader.pc = "promises"
     /\ Reads([reader EXCEPT !.pc = "gross", !.cands = {l \in @ : status[l] = reader.filter.promise},
                            !.shown = status, !.made = <<>>])
     /\ UNCHANGED listed

ReadGross ==
  /\ reader.pc = "gross"
  /\ Reads([reader EXCEPT !.pc = "reversed", !.gross = [l \in Loan |-> Gross(l)]])
  /\ UNCHANGED listed

\* The reversals and the obligations; then the rows are derived, sorted and cut to the page.
CutPage ==
  LET filter == reader.filter
      net == [l \in Loan |-> reader.gross[l] - Reversed(l)]
      value == [l \in Loan |-> SortValue(l, filter.sort, net[l], reader.now)]
      rows == {l \in reader.cands : /\ IsOverdue(l, net[l], reader.now)
                                    /\ Local(l, reader.now) - DueOn[l] >= filter.minDays}
      left == Sorted(PastCursor(rows, value, filter, reader.cursor), value, filter.order)
      page == SubSeq(left, 1, Min({Limit, Len(left)}))
  IN /\ reader.pc = "reversed"
     /\ Reads([reader EXCEPT !.pc = "assignments", !.cands = {}, !.gross = <<>>, !.page = page,
          !.more = Len(left) > Limit,
          !.cursor = IF page = <<>> THEN @ ELSE <<value[Last(page)], Last(page)>>])
     /\ UNCHANGED listed

\* Who has the loans of the page now, whatever the assignment filter found when it let them in.
ReadAssignments ==
  /\ reader.pc = "assignments"
  /\ Reads([reader EXCEPT !.pc = "shown", !.owner = [l \in Range(reader.page) |-> assignee[l]]])
  /\ UNCHANGED listed

\* The promises the rows show: those of the filter, or read for the page.
MutantShownPromises == [l \in Loan |-> PromiseStatus(l, promise[l], IsKept(l, promise[l]), reader.now)]
ShownPromises ==
  IF Decides(reader.filter.promise) THEN reader.shown
  ELSE [l \in Loan |-> IF reader.filter.promise = "none" THEN "none"
                       ELSE PromiseStatus(l, promise[l], IsKept(l, promise[l]), reader.now)]

ReadPromises ==
  /\ reader.pc = "shown"
  /\ Reads([reader EXCEPT !.pc = "activities", !.shown = ShownPromises])
  /\ UNCHANGED listed

\* A row shows no activity where the filter excludes them, whatever was recorded since.
ShownActivity(l) == reader.filter.activity # "no_activity" /\ active[l]

\* What the cursor carries to the next page: the request and the last row of this one.
NextPage == [NoReader EXCEPT !.pc = "candidates", !.filter = reader.filter, !.cursor = reader.cursor]

\* The activities, and the answer with the cursor of the next page, which the client asks for.
Answer ==
  LET Shows(l) == [loan |-> l, assignment |-> reader.owner[l], promise |-> reader.shown[l],
                   activity |-> ShownActivity(l)]
  IN /\ reader.pc = "activities"
     /\ listed' = listed \o [i \in DOMAIN reader.page |-> Shows(reader.page[i])]
     /\ Reads(IF reader.more THEN NextPage ELSE [NoReader EXCEPT !.pc = "done", !.filter = reader.filter])

-----------------------------------------------------------------------------
(* What goes on meanwhile.                                                 *)

Keeps == UNCHANGED <<reader, listed>> /\ steady' = {l \in steady : Place(l)' = Place(l)}

Pay(p, l) ==
  /\ payment[p] = NoPayment
  /\ Local(l, today) >= DueOn[l]
  /\ Gross(l) - Reversed(l) < Debt[l]
  /\ payment' = [payment EXCEPT ![p] =
       [NoPayment EXCEPT !.loan = l, !.date = Local(l, today), !.after = promise[l].n]]
  /\ UNCHANGED <<today, promise, assignee, active>>
  /\ Keeps

Undo(p) ==
  /\ payment[p].loan # None /\ ~payment[p].reversed
  /\ payment' = [payment EXCEPT ![p].reversed = TRUE]
  /\ UNCHANGED <<today, promise, assignee, active>>
  /\ Keeps

\* A promise of one unit of what is due by its date, in place of the current one if there is one.
Promise(l, date) ==
  /\ promise[l].n < MaxPromises
  /\ date >= Local(l, today) /\ date >= DueOn[l]
  /\ Gross(l) - Reversed(l) < Debt[l]
  /\ promise' = [promise EXCEPT ![l] = [n |-> @.n + 1, current |-> TRUE, date |-> date]]
  /\ UNCHANGED <<today, payment, assignee, active>>
  /\ Keeps

Cancel(l) ==
  /\ PromiseStatus(l, promise[l], IsKept(l, promise[l]), today) = "open"
  /\ promise' = [promise EXCEPT ![l].current = FALSE]
  /\ UNCHANGED <<today, payment, assignee, active>>
  /\ Keeps

Record(l) ==
  /\ ~active[l]
  /\ active' = [active EXCEPT ![l] = TRUE]
  /\ UNCHANGED <<today, payment, promise, assignee>>
  /\ Keeps

Assign(l, u) ==
  /\ assignee[l] # u
  /\ assignee' = [assignee EXCEPT ![l] = u]
  /\ UNCHANGED <<today, payment, promise, active>>
  /\ Keeps

NextDay ==
  /\ today < MaxDay
  /\ today' = today + 1
  /\ UNCHANGED <<payment, promise, assignee, active>>
  /\ Keeps

Next ==
  \/ \E filter \in Filter : Begin(filter)
  \/ ReadCandidates
  \/ FilterByPromise
  \/ ReadGross
  \/ CutPage
  \/ ReadAssignments
  \/ ReadPromises
  \/ Answer
  \/ \E l \in Loan :
       \/ \E p \in Payment : Pay(p, l)
       \/ \E date \in 0 .. MaxDay : Promise(l, date)
       \/ Cancel(l)
       \/ Record(l)
       \/ \E u \in User \cup {None} : Assign(l, u)
  \/ \E p \in Payment : Undo(p)
  \/ NextDay

Spec == Init /\ [][Next]_vars

-----------------------------------------------------------------------------
(* Properties.                                                             *)

\* A loan that keeps its place, condition by condition, during a walk is listed once if it belongs to
\* the list and not at all if it does not, in whatever time zone its contract is and whatever enters,
\* leaves or moves around it between the pages and between the statements of one page.
EveryLoanOnce ==
  reader.pc = "done" =>
    \A l \in steady :
      Cardinality({i \in DOMAIN listed : listed[i].loan = l}) = IF Belongs(l, reader.filter) THEN 1 ELSE 0

\* All of a row but its assignment is made to agree with the filter: the promise and the activity it
\* shows never contradict it, although they are read after the membership was decided.  The assignment
\* is read again with no such care, so it agrees for the loans that kept their place during the walk;
\* one that was reassigned meanwhile may show an assignment its filter excludes.
RowsMatchFilter ==
  \A i \in DOMAIN listed :
    /\ reader.filter.promise # "any" => listed[i].promise = reader.filter.promise
    /\ reader.filter.activity # "any" => (listed[i].activity <=> (reader.filter.activity = "has_activity"))
    /\ listed[i].loan \in steady => AssignmentFits(listed[i].assignment, reader.filter.assignment)
=============================================================================
