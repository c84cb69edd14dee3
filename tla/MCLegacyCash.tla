---------------------------- MODULE MCLegacyCash ----------------------------
(* One branch with one cashier.                                            *)
EXTENDS LegacyCash

CONSTANTS ana

MCCashierOf == [s \in SessionId |-> ana]
=============================================================================
