---------------------------- MODULE CreditLoans ----------------------------
(***************************************************************************)
(* Credit loans (app/modules/loans): disbursement, payment, reversal of a  *)
(* payment and assessment of delinquency, with the ledger they derive the  *)
(* balances from and the drawer behind the cash port.                      *)
(*                                                                         *)
(* Every command but the disbursement takes the row of its loan first and  *)
(* holds it to the end.  A payment and a reversal are two steps each: the  *)
(* lock, with everything that is read under it, and the commit, where they *)
(* meet the drawer and the unique keys that commands on other loans use.   *)
(***************************************************************************)
EXTENDS Integers, FiniteSets, FiniteSetsExt, SequencesExt

CONSTANTS
  User, Loan, Payment,
  Key,           \* idempotency keys
  Reference,     \* external references of payments
  SessionId, cashierOf, branchOf,
  Component,     \* of a debt: fees, interest, principal, ...
  Terms,         \* instalments of the contract of every loan
  DueAfter,      \* days from the disbursement to each effective due date
  Due,           \* what each instalment owes of each component
  Order,         \* the order of the components frozen in the contract
  None,
  MaxDay, MaxFund  \* bounds of the calendar and of the fund a drawer opens with

Instalment == 1 .. Terms
Slot == Instalment \X Component

ASSUME LoanContract ==
  /\ Terms \in Nat \ {0} /\ "principal" \in Component
  /\ DueAfter \in [Instalment -> Nat] /\ Due \in [Slot -> Nat]
  /\ \E k \in Instalment : Due[<<k, "principal">>] > 0
  /\ Order \in Seq(Component) /\ IsInjective(Order)
  /\ \A c \in Component : \E i \in DOMAIN Order : Order[i] = c
ASSUME LoanSessions == cashierOf \in [SessionId -> User] /\ DOMAIN branchOf = SessionId
ASSUME LoanNone == None \notin User \cup Loan \cup Payment \cup Key \cup Reference \cup SessionId
ASSUME LoanNoneIsNoAmount == None \notin Nat
ASSUME LoanBounds == MaxDay \in Nat /\ MaxFund \in Nat

VARIABLES
  today,     \* the business date
  loan,      \* credit_loans with the statuses of their obligations
  payment,   \* credit_payments with their applications
  reversal,  \* credit_payment_reversals with theirs, by payment
  work,      \* the command that holds the row of each loan
  drawer     \* the cash sessions

vars == <<today, loan, payment, reversal, work, drawer>>

Day == 0 .. MaxDay
Parts == [Slot -> Nat]
NoParts == [x \in Slot |-> 0]

LoanRow ==
  [status : {"none", "active", "past_due", "paid"}, since : Day, funded : SessionId \cup {None},
   obligation : [Instalment -> {"pending", "partially_paid", "paid"}]]
PaymentRow ==
  [loan : Loan \cup {None}, amount : Nat, session : SessionId \cup {None}, key : Key \cup {None},
   reference : Reference \cup {None}, parts : Parts]
ReversalRow ==
  [by : User \cup {None}, session : SessionId \cup {None}, key : Key \cup {None}, parts : Parts]
Command ==
  [kind : {"none", "pay", "reverse"}, of : Payment \cup {None}, pays : PaymentRow,
   undoes : ReversalRow, date : Day]

NoLoan == [status |-> "none", since |-> 0, funded |-> None,
           obligation |-> [k \in Instalment |-> "pending"]]
NoPayment == [loan |-> None, amount |-> 0, session |-> None, key |-> None, reference |-> None,
              parts |-> NoParts]
NoReversal == [by |-> None, session |-> None, key |-> None, parts |-> NoParts]
NoCommand == [kind |-> "none", of |-> None, pays |-> NoPayment, undoes |-> NoReversal, date |-> 0]

TypeOK ==
  /\ today \in Day
  /\ loan \in [Loan -> LoanRow]
  /\ payment \in [Payment -> PaymentRow]
  /\ reversal \in [Payment -> ReversalRow]
  /\ work \in [Loan -> Command]
  /\ drawer \in [SessionId -> [state : {"unopened", "open", "closed"}, balance : Nat, fund : Nat]]

Init ==
  /\ today = 0
  /\ loan = [l \in Loan |-> NoLoan]
  /\ payment = [p \in Payment |-> NoPayment]
  /\ reversal = [p \in Payment |-> NoReversal]
  /\ work = [l \in Loan |-> NoCommand]
  /\ drawer = [s \in SessionId |-> [state |-> "unopened", balance |-> 0, fund |-> 0]]

-----------------------------------------------------------------------------
(* The ledger: everything is derived from the applications and their       *)
(* reversals (ledger.py, allocation.py).                                   *)

DueDate(l, k) == loan[l].since + DueAfter[k]

\* Net applied to each slot of loan l by the payments pay and the reversals rev.
MutantApplied(pay, rev, l) ==
  [x \in Slot |-> MapThenSumSet(LAMBDA p : pay[p].parts[x], {p \in Payment : pay[p].loan = l})]
Applied(pay, rev, l) ==
  [x \in Slot |->
    MapThenSumSet(LAMBDA p : pay[p].parts[x] - rev[p].parts[x], {p \in Payment : pay[p].loan = l})]

Outstanding(applied) == [x \in Slot |-> Due[x] - applied[x]]

\* Instalments exigible on a date, oldest effective due date first, ties by sequence.
Payable(l, date) ==
  LET due == {k \in Instalment : DueDate(l, k) <= date}
      Before(j, k) == DueDate(l, j) < DueDate(l, k) \/ (DueDate(l, j) = DueDate(l, k) /\ j < k)
  IN CHOOSE ks \in [1 .. Cardinality(due) -> due] :
       \A i, j \in 1 .. Cardinality(due) : i < j => Before(ks[i], ks[j])

\* The slots a payment on that date runs through.
MutantRun(l, date) ==
  LET ks == Payable(l, date)
  IN [i \in 1 .. Len(Order) * Len(ks) |->
       <<ks[((i - 1) % Len(ks)) + 1], Order[((i - 1) \div Len(ks)) + 1]>>]
Run(l, date) ==
  LET ks == Payable(l, date)
  IN [i \in 1 .. Len(Order) * Len(ks) |->
       <<ks[((i - 1) \div Len(Order)) + 1], Order[((i - 1) % Len(Order)) + 1]>>]

DueToDate(l, date, open) == MapThenSumSet(LAMBDA x : open[x], Range(Run(l, date)))

MutantAllocate(amount, run, open) ==
  LET Take(rest, x) ==
        LET take == Min({Due[x], rest.left})
        IN IF take > 0 THEN [left |-> rest.left - take, parts |-> [rest.parts EXCEPT ![x] = take]]
           ELSE rest
  IN FoldLeft(Take, [left |-> amount, parts |-> NoParts], run).parts
Allocate(amount, run, open) ==
  LET Take(rest, x) ==
        LET take == Min({open[x], rest.left})
        IN IF take > 0 THEN [left |-> rest.left - take, parts |-> [rest.parts EXCEPT ![x] = take]]
           ELSE rest
  IN FoldLeft(Take, [left |-> amount, parts |-> NoParts], run).parts

ObligationStatus(applied, k) ==
  IF \A c \in Component : applied[<<k, c>>] = Due[<<k, c>>] THEN "paid"
  ELSE IF \E c \in Component : applied[<<k, c>>] > 0 THEN "partially_paid" ELSE "pending"

Owes(applied, k) == \E c \in Component : applied[<<k, c>>] < Due[<<k, c>>]

LoanStatus(l, applied, date) ==
  IF \A k \in Instalment : ~Owes(applied, k) THEN "paid"
  ELSE IF \E k \in Instalment : date > DueDate(l, k) /\ Owes(applied, k) THEN "past_due"
  ELSE "active"

\* The row of loan l projected from the ledger pay and rev.
MutantProjected(l, pay, rev, date) ==
  LET applied == Applied(pay, rev, l)
  IN [loan[l] EXCEPT !.obligation = [k \in Instalment |-> ObligationStatus(applied, k)],
                     !.status = IF @ = "paid" THEN @ ELSE LoanStatus(l, applied, date)]
Projected(l, pay, rev, date) ==
  LET applied == Applied(pay, rev, l)
  IN [loan[l] EXCEPT !.obligation = [k \in Instalment |-> ObligationStatus(applied, k)],
                     !.status = LoanStatus(l, applied, date)]

-----------------------------------------------------------------------------
(* The cash port.                                                          *)

IsOpen(s) == drawer[s].state = "open"
Covers(s, amount) == drawer[s].balance - amount >= 0
Moved(s, amount) == [drawer EXCEPT ![s].balance = @ + amount]

-----------------------------------------------------------------------------
(* Disbursement, under the lock of the formalization.                      *)

Principal == MapThenSumSet(LAMBDA k : Due[<<k, "principal">>], Instalment)

Disburse(l, s) ==
  /\ loan[l].status = "none"
  /\ IsOpen(s)
  /\ Covers(s, Principal)
  /\ drawer' = Moved(s, -Principal)
  /\ loan' = [loan EXCEPT ![l] = [NoLoan EXCEPT !.status = "active", !.since = today, !.funded = s]]
  /\ UNCHANGED <<today, payment, reversal, work>>

-----------------------------------------------------------------------------
(* Payment.  One without a session is collected in the field.              *)

Idle(l) == work[l].kind = "none"

KeyIsNew(key) == \A p \in Payment : payment[p].key # key
ReferenceIsNew(reference) ==
  reference = None \/ \A p \in Payment : payment[p].reference # reference

LockToPay(l, amount, s, key, reference) ==
  LET open == Outstanding(Applied(payment, reversal, l))
  IN /\ Idle(l)
     /\ KeyIsNew(key)
     /\ ReferenceIsNew(reference)
     /\ loan[l].status \in {"active", "past_due"}
     /\ amount <= DueToDate(l, today, open)
     /\ work' = [work EXCEPT ![l] =
          [NoCommand EXCEPT !.kind = "pay", !.date = today,
             !.pays = [loan |-> l, amount |-> amount, session |-> s, key |-> key,
                       reference |-> reference, parts |-> Allocate(amount, Run(l, today), open)]]]
     /\ UNCHANGED <<today, loan, payment, reversal, drawer>>

\* The unique indexes of credit_payments.
MutantPassesIndexes(row) == KeyIsNew(row.key)
PassesIndexes(row) == KeyIsNew(row.key) /\ ReferenceIsNew(row.reference)

Released(l) == [work EXCEPT ![l] = NoCommand]

CommitPayment(l, p) ==
  LET row == work[l].pays
  IN /\ work[l].kind = "pay"
     /\ payment[p] = NoPayment
     /\ PassesIndexes(row)
     /\ \/ row.session = None /\ UNCHANGED drawer
        \/ row.session # None /\ IsOpen(row.session) /\ drawer' = Moved(row.session, row.amount)
     /\ payment' = [payment EXCEPT ![p] = row]
     /\ loan' = [loan EXCEPT ![l] = Projected(l, payment', reversal, work[l].date)]
     /\ work' = Released(l)
     /\ UNCHANGED <<today, reversal>>

-----------------------------------------------------------------------------
(* Reversal: always of the whole payment.                                  *)

IsReversed(p) == reversal[p].by # None
ReversalKeyIsNew(key) == \A p \in Payment : reversal[p].key # key

Reversible(p) == ~IsReversed(p)

LockToReverse(u, p, s, key) ==
  LET l == payment[p].loan
  IN /\ l # None
     /\ Idle(l)
     /\ ReversalKeyIsNew(key)
     /\ Reversible(p)
     /\ (s = None) <=> (payment[p].session = None)
     /\ work' = [work EXCEPT ![l] =
          [NoCommand EXCEPT !.kind = "reverse", !.of = p, !.date = today,
             !.undoes = [by |-> u, session |-> s, key |-> key, parts |-> payment[p].parts]]]
     /\ UNCHANGED <<today, loan, payment, reversal, drawer>>

\* The money leaves a drawer of the one who reverses, in the branch that received it.
MutantHandsBack(row, p) == IsOpen(row.session) /\ Covers(row.session, payment[p].amount)
HandsBack(row, p) ==
  /\ IsOpen(row.session)
  /\ cashierOf[row.session] = row.by
  /\ branchOf[row.session] = branchOf[payment[p].session]
  /\ Covers(row.session, payment[p].amount)

CommitReversal(l) ==
  LET row == work[l].undoes
      p == work[l].of
  IN /\ work[l].kind = "reverse"
     /\ ReversalKeyIsNew(row.key)
     /\ \/ row.session = None /\ UNCHANGED drawer
        \/ /\ row.session # None
           /\ HandsBack(row, p)
           /\ drawer' = Moved(row.session, -payment[p].amount)
     /\ reversal' = [reversal EXCEPT ![p] = row]
     /\ loan' = [loan EXCEPT ![l] = Projected(l, payment, reversal', work[l].date)]
     /\ work' = Released(l)
     /\ UNCHANGED <<today, payment>>

\* A payment or a reversal refused after its lock, or cut off.
Abort(l) ==
  /\ ~Idle(l)
  /\ work' = Released(l)
  /\ UNCHANGED <<today, loan, payment, reversal, drawer>>

-----------------------------------------------------------------------------
(* Assessment, the calendar and the drawers.                               *)

Assess(l) ==
  /\ Idle(l)
  /\ loan[l].status # "none"
  /\ loan' = [loan EXCEPT ![l].status = LoanStatus(l, Applied(payment, reversal, l), today)]
  /\ UNCHANGED <<today, payment, reversal, work, drawer>>

NextDay ==
  /\ today < MaxDay
  /\ today' = today + 1
  /\ UNCHANGED <<loan, payment, reversal, work, drawer>>

OpenDrawer(s, fund) ==
  /\ drawer[s].state = "unopened"
  /\ drawer' = [drawer EXCEPT ![s] = [state |-> "open", balance |-> fund, fund |-> fund]]
  /\ UNCHANGED <<today, loan, payment, reversal, work>>

CloseDrawer(s) ==
  /\ IsOpen(s)
  /\ drawer' = [drawer EXCEPT ![s].state = "closed"]
  /\ UNCHANGED <<today, loan, payment, reversal, work>>

-----------------------------------------------------------------------------
Contract == MapThenSumSet(LAMBDA x : Due[x], Slot)

Next ==
  \/ \E l \in Loan :
       \/ \E s \in SessionId : Disburse(l, s)
       \/ \E amount \in 1 .. Contract, s \in SessionId \cup {None}, key \in Key,
             reference \in Reference \cup {None} : LockToPay(l, amount, s, key, reference)
       \/ \E p \in Payment : CommitPayment(l, p)
       \/ CommitReversal(l)
       \/ Abort(l)
       \/ Assess(l)
  \/ \E u \in User, p \in Payment, s \in SessionId \cup {None}, key \in Key : LockToReverse(u, p, s, key)
  \/ NextDay
  \/ \E s \in SessionId : (\E fund \in 0 .. MaxFund : OpenDrawer(s, fund)) \/ CloseDrawer(s)

Spec == Init /\ [][Next]_vars

-----------------------------------------------------------------------------
(* Properties.                                                             *)

Disbursed(l) == loan[l].status # "none"
NetApplied(l) == Applied(payment, reversal, l)

\* The stored status may only lag in one direction: a loan is marked paid exactly while it is, what
\* is marked past due is past due, and only a loan marked active may have become overdue since.  The
\* status of an instalment that owes anything never lags.
StatusOnlyLags ==
  \A l \in Loan : Disbursed(l) =>
    LET net == NetApplied(l)
        status == LoanStatus(l, net, today)
    IN /\ (loan[l].status = "paid") <=> (status = "paid")
       /\ loan[l].status = "past_due" => status = "past_due"
       /\ \A k \in Instalment : (\E c \in Component : Due[<<k, c>>] > 0) =>
            loan[l].obligation[k] = ObligationStatus(net, k)

\* A key or an external reference, used at the same time on whatever loans, makes one payment, and
\* the reference of a reversed payment stays taken.
KeyHasOneEffect ==
  \A p, q \in Payment : p # q =>
    /\ payment[p].key # None => payment[p].key # payment[q].key
    /\ payment[p].reference # None => payment[p].reference # payment[q].reference
    /\ reversal[p].key # None => reversal[p].key # reversal[q].key

\* Nothing that was confirmed is confirmed again or rewritten: of all the commands that locked a loan
\* before, the first to reverse a payment is the only one, whatever their keys.
HistoryStands ==
  [][\A p \in Payment :
       /\ payment[p].loan # None => payment'[p] = payment[p]
       /\ IsReversed(p) => reversal'[p] = reversal[p]]_vars

\* A payment settles the oldest instalment before it touches the next one, and nothing before its date.
OldestFirst ==
  [][\A p \in Payment, l \in Loan : payment[p].loan = None /\ payment'[p].loan = l =>
       \A j, k \in Instalment : \A c \in Component : payment'[p].parts[<<k, c>>] > 0 =>
         /\ DueDate(l, k) <= today
         /\ DueDate(l, j) < DueDate(l, k) => ~Owes(NetApplied(l)', j)]_vars

\* Every drawer holds its fund plus the counter payments it received, minus the payments reversed
\* from it and the loans disbursed from it; who reverses takes from an own drawer of the branch
\* that received the payment.
CashFollowsLedger ==
  /\ \A s \in SessionId :
       LET paid == MapThenSumSet(LAMBDA p : payment[p].amount, {p \in Payment : payment[p].session = s})
           undone == MapThenSumSet(LAMBDA p : payment[p].amount,
                                   {p \in Payment : reversal[p].session = s})
           lent == Principal * Cardinality({l \in Loan : loan[l].funded = s})
       IN drawer[s].balance = drawer[s].fund + paid - undone - lent
  /\ \A p \in Payment : reversal[p].session # None =>
       /\ cashierOf[reversal[p].session] = reversal[p].by
       /\ branchOf[reversal[p].session] = branchOf[payment[p].session]

-----------------------------------------------------------------------------
(* The abstract view.                                                      *)

Debt(l) ==
  LET open == Outstanding(NetApplied(l))
  IN IF Disbursed(l) THEN MapThenSumSet(LAMBDA x : open[x], Slot) ELSE None

Account == INSTANCE LoanAccount WITH
  debt <- [l \in Loan |-> Debt(l)],
  standing <- [p \in Payment |->
    [loan |-> payment[p].loan, amount |-> payment[p].amount, undone |-> IsReversed(p)]]

\* Obligations, applications, reversals and statuses implement one account per loan, which a payment
\* lowers by its amount and at most one reversal raises again by the same.
DebtIsKept == Account!Spec
=============================================================================
