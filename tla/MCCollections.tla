--------------------------- MODULE MCCollections --------------------------
(* Loans of two instalments of principal, and who collects them. *)
EXTENDS Collections, TLC

CONSTANTS ana, s1, b1

MCCashierOf == [s \in SessionId |-> ana]
MCBranchOf == [s \in SessionId |-> b1]
MCDueAfter == <<0, 1>>
MCDue == [x \in Slot |-> IF x = <<2, "principal">> \/ x = <<1, "interest">> THEN 0 ELSE 1]
MCOrder == <<"interest", "principal">>

Ids == UNION {Permutations(S) : S \in {Payment, Key, Promise, Assignment, Agent}}

\* Assignments and activities are explored with the promises on the first day, while nothing is paid.
Bounds ==
  \/ /\ \A a \in Assignment : assignment[a] = NoAssignment
     /\ \A v \in Activity : activity[v] = NoActivity
     /\ \A l \in Loan : desk[l].kind \notin {"assign", "record"}
  \/ /\ \A l \in Loan : Idle(l)
     /\ \A p \in Payment : payment[p] = NoPayment
     /\ today = 0
=============================================================================
