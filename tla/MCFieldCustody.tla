---------------------------- MODULE MCFieldCustody ----------------------------
(* Small instances of FieldCustody for TLC.                                *)
EXTENDS FieldBackstops, TLC

CONSTANTS ana, beto, b1, b2, r1, r2, s1, s2, n1, n2

MCCashierOf == [s \in SessionId |-> IF s = s1 THEN ana ELSE beto]
MCBranchOf == [s \in SessionId |-> b1]
Ids == Permutations(Receipt) \cup Permutations(RenditionId)
=============================================================================
