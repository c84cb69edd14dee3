---------------------------- MODULE LoanAccount ----------------------------
(***************************************************************************)
(* What app/modules/loans promises of the debt of each loan, without       *)
(* obligations, components, drawers, dates or requests: it starts once at  *)
(* the whole of the contract, a payment takes no more than is owed off it, *)
(* and a payment may be undone once, which puts all of it back.            *)
(***************************************************************************)
EXTENDS Integers

CONSTANTS Loan, Payment, Contract, None

VARIABLES
  debt,      \* what is owed on each loan, or None
  standing   \* the loan and the amount of each payment, and whether it stands or was undone

vars == <<debt, standing>>

NoPayment == [loan |-> None, amount |-> 0, undone |-> FALSE]

Init ==
  /\ debt = [l \in Loan |-> None]
  /\ standing = [p \in Payment |-> NoPayment]

Disburse(l) ==
  /\ debt[l] = None
  /\ debt' = [debt EXCEPT ![l] = Contract]
  /\ UNCHANGED standing

Pay(l, p, amount) ==
  /\ debt[l] # None
  /\ amount <= debt[l]
  /\ standing[p] = NoPayment
  /\ debt' = [debt EXCEPT ![l] = @ - amount]
  /\ standing' = [standing EXCEPT ![p] = [loan |-> l, amount |-> amount, undone |-> FALSE]]

Undo(p) ==
  /\ standing[p] # NoPayment
  /\ ~standing[p].undone
  /\ debt' = [debt EXCEPT ![standing[p].loan] = @ + standing[p].amount]
  /\ standing' = [standing EXCEPT ![p].undone = TRUE]

Next ==
  \/ \E l \in Loan : Disburse(l)
  \/ \E l \in Loan, p \in Payment, amount \in 1 .. Contract : Pay(l, p, amount)
  \/ \E p \in Payment : Undo(p)

Spec == Init /\ [][Next]_vars
=============================================================================
