----------------------------- MODULE CashCustody -----------------------------
(***************************************************************************)
(* What the cash module promises of the cash at a cash point, without      *)
(* sessions, handovers or requests: somebody keeps it or nobody does; a    *)
(* keeper may put a counted amount on offer; cash on offer does not        *)
(* change, is never left to nobody, and goes as it is to another keeper.   *)
(***************************************************************************)
EXTENDS Integers

CONSTANTS User, CashPoint, None

VARIABLES
  keeper,   \* who answers for the cash at each point, or None
  offered,  \* the points whose cash waits for its next keeper
  cash      \* the amount somebody answers for at each point

vars == <<keeper, offered, cash>>

Init ==
  /\ keeper = [p \in CashPoint |-> None]
  /\ offered = {}
  /\ cash = [p \in CashPoint |-> 0]

\* Only the cash of p changes, to any amount.
Recount(p) == cash'[p] \in Nat /\ cash' = [cash EXCEPT ![p] = cash'[p]]

Take(p, u) ==
  /\ keeper[p] = None
  /\ keeper' = [keeper EXCEPT ![p] = u]
  /\ Recount(p)
  /\ UNCHANGED offered

Move(p) ==
  /\ keeper[p] # None
  /\ p \notin offered
  /\ Recount(p)
  /\ UNCHANGED <<keeper, offered>>

Offer(p) ==
  /\ keeper[p] # None
  /\ p \notin offered
  /\ Recount(p)
  /\ cash'[p] > 0
  /\ offered' = offered \cup {p}
  /\ UNCHANGED keeper

Pass(p, u) ==
  /\ p \in offered
  /\ u # keeper[p]
  /\ keeper' = [keeper EXCEPT ![p] = u]
  /\ offered' = offered \ {p}
  /\ UNCHANGED cash

Leave(p) ==
  /\ keeper[p] # None
  /\ p \notin offered
  /\ keeper' = [keeper EXCEPT ![p] = None]
  /\ cash' = [cash EXCEPT ![p] = 0]
  /\ UNCHANGED offered

Next ==
  \E p \in CashPoint :
    \/ \E u \in User : Take(p, u) \/ Pass(p, u)
    \/ Move(p)
    \/ Offer(p)
    \/ Leave(p)

Spec == Init /\ [][Next]_vars
=============================================================================
