----------------------------- MODULE MCWorklist -----------------------------
(* Three loans on three time zones, two of them alike in debt, and a few requests one row at a time. *)
EXTENDS Worklist

MCZone == <<0, 1, -1>>
MCDueOn == <<0, 0, 0>>
MCDebt == <<2, 1, 1>>

All == [sort |-> "overdue_outstanding", order |-> "desc", minDays |-> 0, assignment |-> "any",
        activity |-> "any", promise |-> "any"]
MCFilter ==
  {All, [All EXCEPT !.order = "asc", !.activity = "has_activity"],
   [All EXCEPT !.sort = "days_overdue", !.minDays = 1, !.activity = "no_activity"],
   [All EXCEPT !.sort = "oldest_overdue_date", !.order = "asc", !.assignment = "unassigned"],
   [All EXCEPT !.assignment = "assigned"],
   [All EXCEPT !.promise = "open"], [All EXCEPT !.promise = "broken", !.order = "asc"],
   [All EXCEPT !.promise = "fulfilled"], [All EXCEPT !.promise = "none", !.assignment = "ana"]}

\* The walk begins on the second day, little changes in all, and what its filter does not look at
\* does not change.
Changes ==
  Cardinality({p \in Payment : payment[p].loan # None})
  + Cardinality({l \in Loan : promise[l].n > 0}) + Cardinality({l \in Loan : active[l]})
  + Cardinality({l \in Loan : assignee[l] # None})
Bounds ==
  /\ Changes <= 2
  /\ reader.pc # "idle" =>
       /\ today > 0
       /\ reader.filter.promise = "any" => \A l \in Loan : promise[l].n = 0
       /\ reader.filter.activity = "any" => \A l \in Loan : ~active[l]
       /\ reader.filter.assignment = "any" => \A l \in Loan : assignee[l] = None

Ids == Permutations(Payment)
=============================================================================
