------------------------ MODULE CashSessionsRefinement ------------------------
(* CashSessions implements CashCustody: the keeper of a point is the owner  *)
(* of its open or closing session; its cash is the balance while it is open *)
(* and the counted amount while it waits in a handover.                     *)
EXTENDS CashSessions

SessionAt(p) == CHOOSE s \in SessionId : session[s].point = p /\ Active(s)

Kept(p) == \E s \in SessionId : session[s].point = p /\ Active(s)

KeeperOf == [p \in CashPoint |-> IF Kept(p) THEN session[SessionAt(p)].cashier ELSE None]

OfferedPoints == {p \in CashPoint : Kept(p) /\ session[SessionAt(p)].state = "closing"}

CashAt ==
  [p \in CashPoint |->
    IF ~Kept(p) THEN 0
    ELSE IF p \in OfferedPoints THEN session[SessionAt(p)].counted
    ELSE session[SessionAt(p)].balance]

Custody == INSTANCE CashCustody WITH keeper <- KeeperOf, offered <- OfferedPoints, cash <- CashAt

\* Every behaviour of sessions and handovers is one of the abstract custody: through refusals,
\* redirects, suspended points and disabled users, offered cash reaches a next keeper whole or
\* stays offered, and no point ever has two keepers.
CustodyIsKept == Custody!Spec
=============================================================================
