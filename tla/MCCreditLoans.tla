--------------------------- MODULE MCCreditLoans ---------------------------
(* Loans of two instalments and their drawers, two of one branch. *)
EXTENDS LoanBackstops

CONSTANTS ana, beto, s1, s2, s3, b1, b2, l1

MCCashierOf == [s \in SessionId |-> IF s = s2 THEN beto ELSE ana]
MCBranchOf == [s \in SessionId |-> IF s = s3 THEN b2 ELSE b1]

\* Interest and principal, then interest alone; both instalments may be owed at once.
MCDueAfter == <<0, 1>>
MCDue == [x \in Slot |-> IF x = <<2, "principal">> THEN 0 ELSE 1]
MCOrder == <<"interest", "principal">>

\* Either one loan over all the days with its payments at the counter of ana or in the field, or two
\* loans on the first day, each with its own drawer of one fund, paid in the
\* first drawer or in the field, and a third drawer.
Bounds ==
  \/ /\ \A l \in Loan : l # l1 => loan[l] = NoLoan
     /\ drawer[s2].state = "unopened" /\ drawer[s3].state = "unopened"
     /\ \A l \in Loan : work[l].pays.reference = None /\ work[l].undoes.by \in {None, ana}
  \/ /\ today = 0
     /\ \A l \in Loan : work[l].pays.amount <= 1 /\ work[l].pays.session \in {None, s1}
     /\ \A s \in SessionId : drawer[s].state = "open" => drawer[s].fund = 1
     /\ \A s \in SessionId : drawer[s].state # "closed"
     /\ \A l \in Loan : loan[l].funded # None => loan[l].funded = IF l = l1 THEN s1 ELSE s2
     /\ (\E s \in SessionId : drawer[s].state = "unopened") => \A l \in Loan : loan[l] = NoLoan

Ids == Permutations(Payment) \cup Permutations(Key)
=============================================================================
