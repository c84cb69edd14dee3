---------------------------- MODULE FieldBackstops ----------------------------
(***************************************************************************)
(* The triggers under the custody tables (field_custody/models.py): what   *)
(* the database itself refuses of a receipt, a rendition, its items and a  *)
(* refund as they are written, and of them as they stand at COMMIT.  The   *)
(* refund chose its source before it wrote, without the rendition's lock:  *)
(* the trigger looks again, and would turn the request into a server error.*)
(***************************************************************************)
EXTENDS FieldCustody

\* What a movement of this step did to the drawer of session s.
Moved(s) == drawer'[s].balance - drawer[s].balance

ReceiptGuard(r) == ~Born(r)

RenditionInsertCheck(n) ==
  LET row == rendition'[n] IN row.state = "declared" /\ row.decidedBy = None /\ row.session = None

RenditionGuard(n) ==
  LET old == rendition[n] new == rendition'[n] IN
  /\ old.state = "declared"
  /\ new.state \in {"accepted", "rejected", "cancelled"}
  /\ \A field \in {"custodian", "branch", "amount"} : new[field] = old[field]

ItemInsertCheck(r) == ~CollectorRefunded(r)

\* Each receipt has one item that is not released (a partial unique index).
ItemIndex(r) == \A m, n \in RenditionId : Claims(m, r)' /\ Claims(n, r)' => m = n

ItemGuard(n) ==
  LET old == rendition[n] new == rendition'[n] IN
  /\ new.items = old.items
  /\ old.released => new.released
  /\ new.released /\ ~old.released => new.state \in {"rejected", "cancelled"}

RenditionConsistencyCheck(n) ==
  LET row == rendition'[n] IN
  /\ row.items # {}
  /\ row.amount = Total(row.items)
  /\ row.state \in {"declared", "accepted"} => ~row.released
  /\ row.state \in {"rejected", "cancelled"} => row.released
  /\ row.state = "accepted" => Moved(row.session) = row.amount

RefundInsertCheck(r) ==
  LET source == refund'[r].source IN
  /\ ~LiveIn(r, "declared")
  /\ source = "collector" => ~LiveIn(r, "accepted")
  /\ source = "branch_cash" => LiveIn(r, "accepted")

RefundGuard(r) == refund[r].source = "none"

RefundCashCheck(r) ==
  refund'[r].source = "branch_cash" => Moved(refund'[r].session) = -receipt[r].amount

\* No trigger of the custody tables refuses a step of a handler, in whatever order declarations,
\* decisions and refunds commit; receipts, decided renditions and refunds are history.
CustodyBackstopsAdmit ==
  [][/\ \A r \in Receipt :
          /\ receipt'[r] # receipt[r] => ReceiptGuard(r)
          /\ refund'[r] # refund[r] => RefundInsertCheck(r) /\ RefundGuard(r) /\ RefundCashCheck(r)
          /\ rendition' # rendition => ItemIndex(r)
     /\ \A n \in RenditionId : rendition'[n] # rendition[n] =>
          /\ IF rendition[n].state = "none"
             THEN RenditionInsertCheck(n) /\ \A r \in rendition'[n].items : ItemInsertCheck(r)
             ELSE RenditionGuard(n) /\ ItemGuard(n)
          /\ RenditionConsistencyCheck(n)]_vars
=============================================================================
