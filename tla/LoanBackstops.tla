---------------------------- MODULE LoanBackstops ----------------------------
(***************************************************************************)
(* What the tables of the credit loans accept (app/modules/loans/models.py)*)
(* as checks, foreign keys and triggers, for the steps of CreditLoans:     *)
(* the row guards see each row as it changes, the deferred triggers the    *)
(* tables as the transaction leaves them.                                  *)
(***************************************************************************)
EXTENDS CreditLoans

Total(parts) == MapThenSumSet(LAMBDA x : parts[x], Slot)

\* A loan and its schedule change in their statuses only; a disbursement not at all.
LoanGuard(l) ==
  loan'[l] = [loan[l] EXCEPT !.status = loan'[l].status, !.obligation = loan'[l].obligation]
DisbursementCheck(l) ==
  LET s == loan'[l].funded
  IN s \in SessionId /\ drawer'[s].balance = drawer[s].balance - Principal /\ drawer'[s].balance >= 0

PaymentCheck(p) ==
  /\ payment[p] = NoPayment
  /\ payment'[p].amount > 0
  /\ payment'[p].loan \in Loan /\ loan[payment'[p].loan].status # "none"
PaymentSum(p) == Total(payment'[p].parts) = payment'[p].amount

\* The reversal of the whole of one payment, at the counter exactly if it was one of the counter, in the
\* branch that received it, by applications that mirror those of the payment.
ReversalCheck(p) ==
  LET row == reversal'[p]
  IN /\ reversal[p] = NoReversal
     /\ payment[p] # NoPayment
     /\ (row.session = None) <=> (payment[p].session = None)
     /\ row.session # None => branchOf[row.session] = branchOf[payment[p].session]
     /\ \A x \in Slot : row.parts[x] \in {0, payment[p].parts[x]}
ReversalSum(p) == Total(reversal'[p].parts) = payment[p].amount
ReversalCash(p) ==
  LET s == reversal'[p].session
  IN s # None =>
       drawer'[s].balance = drawer[s].balance - payment[p].amount /\ drawer'[s].balance >= 0

\* No slot of an obligation is applied beyond its due, net of reversals.
ComponentCheck(l) ==
  LET net == Applied(payment', reversal', l) IN \A x \in Slot : net[x] <= Due[x]

\* Whatever payments and reversals raced for a loan, and however a contract was split, no command meets
\* a constraint or a trigger at its commit: the allocation under the lock is enough.
LoanBackstopsAdmit ==
  [][/\ \A l \in Loan : loan'[l] # loan[l] =>
          IF loan[l] = NoLoan THEN DisbursementCheck(l) ELSE LoanGuard(l)
     /\ \A p \in Payment : payment'[p] # payment[p] => PaymentCheck(p) /\ PaymentSum(p)
     /\ \A p \in Payment : reversal'[p] # reversal[p] =>
          ReversalCheck(p) /\ ReversalSum(p) /\ ReversalCash(p)
     /\ payment' # payment => \A l \in Loan : ComponentCheck(l)]_vars
=============================================================================
