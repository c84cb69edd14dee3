------------------------------ MODULE FieldCash ------------------------------
(***************************************************************************)
(* What the field custody of app/modules/field_custody promises of the     *)
(* cash of each payment collected in the field, without renditions, items, *)
(* drawers or requests: it goes from the customer to one collector, from   *)
(* there to the branch or back to the customer, from the branch only back  *)
(* to the customer, never twice, and back only once the debt is restored.  *)
(* A collector stays on the staff while cash is in their hands.            *)
(***************************************************************************)
CONSTANTS User, Receipt, None

VARIABLES
  place,     \* where the cash of each payment is
  holder,    \* who collected it, or None
  restored,  \* the payments whose debt has been restored
  staff      \* the users who may work

vars == <<place, holder, restored, staff>>

Init ==
  /\ place = [r \in Receipt |-> "customer"]
  /\ holder = [r \in Receipt |-> None]
  /\ restored = {}
  /\ staff = User

Collect(r, u) ==
  /\ u \in staff
  /\ holder[r] = None
  /\ place' = [place EXCEPT ![r] = "collector"]
  /\ holder' = [holder EXCEPT ![r] = u]
  /\ UNCHANGED <<restored, staff>>

Restore(r) ==
  /\ holder[r] # None
  /\ restored' = restored \cup {r}
  /\ UNCHANGED <<place, holder, staff>>

\* A collector hands in the cash of the payments R.
HandIn(R, u) ==
  /\ \A r \in R : holder[r] = u /\ place[r] = "collector"
  /\ place' = [r \in Receipt |-> IF r \in R THEN "branch" ELSE place[r]]
  /\ UNCHANGED <<holder, restored, staff>>

Return(r) ==
  /\ r \in restored
  /\ place[r] \in {"collector", "branch"}
  /\ place' = [place EXCEPT ![r] = "returned"]
  /\ UNCHANGED <<holder, restored, staff>>

Leave(u) ==
  /\ \A r \in Receipt : holder[r] = u => place[r] # "collector"
  /\ staff' = staff \ {u}
  /\ UNCHANGED <<place, holder, restored>>

Join(u) == staff' = staff \cup {u} /\ UNCHANGED <<place, holder, restored>>

Next ==
  \/ \E r \in Receipt : Restore(r) \/ Return(r) \/ \E u \in User : Collect(r, u)
  \/ \E u \in User : Leave(u) \/ Join(u) \/ \E R \in SUBSET Receipt : HandIn(R, u)

Spec == Init /\ [][Next]_vars
=============================================================================
