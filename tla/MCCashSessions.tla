---------------------------- MODULE MCCashSessions ----------------------------
(* Small instances of CashSessions for TLC.                                *)
EXTENDS CashSessionsRefinement, CashBackstops, TLC

CONSTANTS ana, beto, carla, p1, p2, b1, b2

\* Every cash point of the first box; the second point, if any, is in the second box.
MCBoxOf == [p \in CashPoint |-> IF p = p1 THEN b1 ELSE b2]

\* Ids are interchangeable, and so are two users that no role tells apart.
Ids == Permutations(SessionId) \cup Permutations(HandoverId)
IdsAndTellers == Ids \cup Permutations({ana, beto})
=============================================================================
