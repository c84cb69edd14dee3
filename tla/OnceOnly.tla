------------------------------ MODULE OnceOnly ------------------------------
(***************************************************************************)
(* What an idempotency key promises its clients: the first request served  *)
(* under a key is the only one; the same request is told so again, another *)
(* one is refused, and while nothing was served any may be refused.        *)
(***************************************************************************)
CONSTANTS Call, Slot, Request, None

VARIABLES
  done,   \* the requests served, by the key of their table
  told    \* what each call was told

vars == <<done, told>>

Init == done = {} /\ told = [c \in Call |-> None]

Tell(c, k, r, served) == told' = [told EXCEPT ![c] = [slot |-> k, request |-> r, served |-> served]]

Serve(c, k, r) ==
  /\ told[c] = None
  /\ \A d \in done : d.slot # k
  /\ done' = done \cup {[slot |-> k, request |-> r]}
  /\ Tell(c, k, r, TRUE)

Replay(c, k, r) ==
  /\ told[c] = None
  /\ [slot |-> k, request |-> r] \in done
  /\ Tell(c, k, r, TRUE)
  /\ UNCHANGED done

Refuse(c, k, r) ==
  /\ told[c] = None
  /\ [slot |-> k, request |-> r] \notin done
  /\ Tell(c, k, r, FALSE)
  /\ UNCHANGED done

Next == \E c \in Call, k \in Slot, r \in Request : Serve(c, k, r) \/ Replay(c, k, r) \/ Refuse(c, k, r)

Spec == Init /\ [][Next]_vars
=============================================================================
