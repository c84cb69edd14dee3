------------------------- MODULE MCIdempotentCommand -------------------------
(* Commands of every kind of lookup, and only those that look before. *)
EXTENDS IdempotentCommand, TLC

CONSTANTS t1, t2, t3

MCLooks == [t \in Target |-> IF t = t3 THEN "under" ELSE "both"]
MCLooksBefore == [t \in Target |-> "before"]

Ids == Permutations(Call) \cup Permutations(Key)
=============================================================================
