---------------------------- MODULE FieldCustody ----------------------------
(***************************************************************************)
(* The physical custody of cash collected in the field                     *)
(* (app/modules/field_custody): the receipt born with a field payment, the *)
(* rendition that hands receipts to a cashier, the refund of a reversed    *)
(* payment, and what these read and write of their neighbours: the status  *)
(* of the user (identity), the reversal of the debt (loans) and the drawer *)
(* behind the cash port (cash).  One receipt is one payment.               *)
(*                                                                         *)
(* A handler that takes its row locks before its first read is one step.   *)
(* The refund is two: it locks the receipt and reads the rendition the     *)
(* receipt is live in without locking that one, and writes afterwards.     *)
(***************************************************************************)
EXTENDS Integers, FiniteSets, FiniteSetsExt

CONSTANTS
  User,
  Collectors, Acceptors, Refunders,  \* who holds which permission
  Branch,
  Receipt,       \* the field payments, each with its custody receipt
  RenditionId,
  SessionId,     \* the cash sessions of the branches
  cashierOf, branchOf,               \* the owner and the branch of each session
  None,
  MaxAmount      \* bound of a payment and of a drawer

ASSUME FieldPeople ==
  Collectors \subseteq User /\ Acceptors \subseteq User /\ Refunders \subseteq User
ASSUME FieldSessions == cashierOf \in [SessionId -> User] /\ branchOf \in [SessionId -> Branch]
ASSUME FieldNone == None \notin User \cup Branch \cup SessionId
ASSUME FieldBound == MaxAmount \in Nat
\* The keys of the tables are 32-bit integers.
ASSUME FieldTables == \A S \in {User, Receipt, RenditionId, SessionId} : IsFiniteSet(S)

VARIABLES
  account,     \* the status of each user
  receipt,     \* credit_field_custody_receipts
  rendition,   \* credit_field_renditions with their items
  reversed,    \* the payments whose debt has been reversed
  refund,      \* credit_field_refunds, by receipt
  refunding,   \* the refund that holds the lock of a receipt, if any
  drawer       \* the cash sessions

vars == <<account, receipt, rendition, reversed, refund, refunding, drawer>>

Amount == 1 .. MaxAmount

ReceiptRow == [custodian : User \cup {None}, branch : Branch \cup {None}, amount : 0 .. MaxAmount]
RenditionRow ==
  [state : {"none", "declared", "accepted", "rejected", "cancelled"}, custodian : User \cup {None},
   branch : Branch \cup {None}, items : SUBSET Receipt, amount : 0 .. MaxAmount, released : BOOLEAN,
   decidedBy : User \cup {None}, session : SessionId \cup {None}]
RefundRow ==
  [source : {"none", "collector", "branch_cash"}, by : User \cup {None},
   session : SessionId \cup {None}]
DrawerRow == [state : {"unopened", "open", "closed"}, balance : Int, other : Int]

NoReceipt == [custodian |-> None, branch |-> None, amount |-> 0]
NoRendition == [state |-> "none", custodian |-> None, branch |-> None, items |-> {},
                amount |-> 0, released |-> FALSE, decidedBy |-> None, session |-> None]
NoRefund == [source |-> "none", by |-> None, session |-> None]

TypeOK ==
  /\ account \in [User -> {"active", "disabled"}]
  /\ receipt \in [Receipt -> ReceiptRow]
  /\ rendition \in [RenditionId -> RenditionRow]
  /\ reversed \subseteq Receipt
  /\ refund \in [Receipt -> RefundRow]
  /\ refunding \in [Receipt -> RefundRow]
  /\ drawer \in [SessionId -> DrawerRow]
  /\ \A s \in SessionId : drawer[s].balance >= 0

Init ==
  /\ account = [u \in User |-> "active"]
  /\ receipt = [r \in Receipt |-> NoReceipt]
  /\ rendition = [n \in RenditionId |-> NoRendition]
  /\ reversed = {}
  /\ refund = [r \in Receipt |-> NoRefund]
  /\ refunding = [r \in Receipt |-> NoRefund]
  /\ drawer = [s \in SessionId |-> [state |-> "unopened", balance |-> 0, other |-> 0]]

-----------------------------------------------------------------------------
(* What the handlers ask of the tables.                                    *)

Born(r) == receipt[r].custodian # None
Locked(r) == refunding[r].source # "none"

\* The item that claims receipt r is in rendition n.
Claims(n, r) == r \in rendition[n].items /\ ~rendition[n].released
LiveIn(r, state) == \E n \in RenditionId : Claims(n, r) /\ rendition[n].state = state

CollectorRefunded(r) == refund[r].source = "collector"

\* The receipts of u that are neither accepted into a drawer nor refunded by u.
MutantHasOpenCustody(u) ==
  \E n \in RenditionId : rendition[n].state = "declared" /\ rendition[n].custodian = u
HasOpenCustody(u) ==
  \/ \E r \in Receipt :
       receipt[r].custodian = u /\ ~LiveIn(r, "accepted") /\ ~CollectorRefunded(r)
  \/ \E n \in RenditionId : rendition[n].state = "declared" /\ rendition[n].custodian = u

\* What may be declared by u for branch b: own receipts of that branch, neither claimed nor refunded.
MutantDeclarable(u, b, r) ==
  /\ receipt[r].custodian = u
  /\ receipt[r].branch = b
  /\ \A n \in RenditionId : ~Claims(n, r)
MutantDeclarableTwice(u, b, r) ==
  /\ receipt[r].custodian = u
  /\ receipt[r].branch = b
  /\ ~Locked(r)
  /\ ~LiveIn(r, "accepted")
  /\ ~CollectorRefunded(r)
Declarable(u, b, r) ==
  /\ receipt[r].custodian = u
  /\ receipt[r].branch = b
  /\ ~Locked(r)
  /\ \A n \in RenditionId : ~Claims(n, r)
  /\ ~CollectorRefunded(r)

Total(R) == MapThenSumSet(LAMBDA r : receipt[r].amount, R)

\* The cash port: a session that is open, of the branch and of its cashier.
OwnSession(s, b, u) == drawer[s].state = "open" /\ branchOf[s] = b /\ cashierOf[s] = u

MutantBooked(s, amount) == [drawer[s] EXCEPT !.balance = @ + amount, !.other = @ + amount]
Booked(s, amount) == [drawer[s] EXCEPT !.balance = @ + amount]

Covers(s, amount) == drawer[s].balance - amount >= 0

-----------------------------------------------------------------------------
(* The payment collected in the field and the reversal of its debt.        *)

CreateReceipt(u, b, r, amount) ==
  /\ u \in Collectors
  /\ ~Born(r)
  /\ account[u] = "active"
  /\ receipt' = [receipt EXCEPT ![r] = [custodian |-> u, branch |-> b, amount |-> amount]]
  /\ UNCHANGED <<account, rendition, reversed, refund, refunding, drawer>>

\* A field reversal restores the debt and stops before the cash.
ReverseField(r) ==
  /\ Born(r)
  /\ r \notin reversed
  /\ reversed' = reversed \cup {r}
  /\ UNCHANGED <<account, receipt, rendition, refund, refunding, drawer>>

-----------------------------------------------------------------------------
(* Renditions.                                                             *)

Declared(u, b, R) ==
  [NoRendition EXCEPT !.state = "declared", !.custodian = u, !.branch = b, !.items = R,
                      !.amount = Total(R)]

\* Bound: a rendition of at most MaxAmount.

Declare(u, b, R) ==
  /\ u \in Collectors
  /\ account[u] = "active"
  /\ R # {}
  /\ \A r \in R : Declarable(u, b, r)
  /\ Total(R) \in Amount
  /\ \E n \in RenditionId :
       /\ rendition[n].state = "none"
       /\ rendition' = [rendition EXCEPT ![n] = Declared(u, b, R)]
  /\ UNCHANGED <<account, receipt, reversed, refund, refunding, drawer>>

\* The row of rendition n once u has decided it, without and with release of its items.
Kept(n, u, s) ==
  [rendition[n] EXCEPT !.state = "accepted", !.decidedBy = u, !.session = s]
Released(n, state, u) ==
  [rendition[n] EXCEPT !.state = state, !.decidedBy = u, !.released = TRUE]

\* Only the exact count is accepted; the amount enters the acceptor's own open session.
Accept(u, n, s) ==
  /\ u \in Acceptors
  /\ rendition[n].state = "declared"
  /\ u # rendition[n].custodian
  /\ OwnSession(s, rendition[n].branch, u)
  /\ drawer[s].balance + rendition[n].amount <= MaxAmount
  /\ drawer' = [drawer EXCEPT ![s] = Booked(s, rendition[n].amount)]
  /\ rendition' = [rendition EXCEPT ![n] = Kept(n, u, s)]
  /\ UNCHANGED <<account, receipt, reversed, refund, refunding>>

Reject(u, n) ==
  /\ u \in Acceptors
  /\ rendition[n].state = "declared"
  /\ u # rendition[n].custodian
  /\ rendition' = [rendition EXCEPT ![n] = Released(n, "rejected", u)]
  /\ UNCHANGED <<account, receipt, reversed, refund, refunding, drawer>>

Cancel(u, n) ==
  /\ u \in Collectors
  /\ rendition[n].state = "declared"
  /\ u = rendition[n].custodian
  /\ rendition' = [rendition EXCEPT ![n] = Released(n, "cancelled", u)]
  /\ UNCHANGED <<account, receipt, reversed, refund, refunding, drawer>>

-----------------------------------------------------------------------------
(* The refund of a reversed payment.                                       *)

\* Where the cash of receipt r is when a refund looks.
Source(r) ==
  IF LiveIn(r, "declared") THEN "none"
  ELSE IF LiveIn(r, "accepted") THEN "branch_cash" ELSE "collector"

MutantRefundable(r) == Born(r) /\ refund[r].source = "none"
Refundable(r) == r \in reversed /\ refund[r].source = "none"

\* The session s is given exactly when the source is branch cash.
LockReceipt(u, r, s) ==
  /\ u \in Refunders
  /\ Refundable(r)
  /\ ~Locked(r)
  /\ Source(r) # "none"
  /\ (s = None) <=> (Source(r) = "collector")
  /\ refunding' = [refunding EXCEPT ![r] = [source |-> Source(r), by |-> u, session |-> s]]
  /\ UNCHANGED <<account, receipt, rendition, reversed, refund, drawer>>

Unlocked(r) == [refunding EXCEPT ![r] = NoRefund]

MayHandBack(r) ==
  refunding[r].by = receipt[r].custodian /\ account[refunding[r].by] = "active"

RefundFromCollector(r) ==
  /\ refunding[r].source = "collector"
  /\ MayHandBack(r)
  /\ refund' = [refund EXCEPT ![r] = refunding[r]]
  /\ refunding' = Unlocked(r)
  /\ UNCHANGED <<account, receipt, rendition, reversed, drawer>>

RefundFromBranch(r) ==
  LET s == refunding[r].session
  IN /\ refunding[r].source = "branch_cash"
     /\ OwnSession(s, receipt[r].branch, refunding[r].by)
     /\ Covers(s, receipt[r].amount)
     /\ drawer' = [drawer EXCEPT ![s] = Booked(s, -receipt[r].amount)]
     /\ refund' = [refund EXCEPT ![r] = refunding[r]]
     /\ refunding' = Unlocked(r)
     /\ UNCHANGED <<account, receipt, rendition, reversed>>

\* Refused after the lock, or cut off: nothing is written.
RefundAborted(r) ==
  /\ Locked(r)
  /\ refunding' = Unlocked(r)
  /\ UNCHANGED <<account, receipt, rendition, reversed, refund, drawer>>

-----------------------------------------------------------------------------
(* The neighbours.                                                         *)

DisableUser(u) ==
  /\ account[u] = "active"
  /\ ~HasOpenCustody(u)
  /\ account' = [account EXCEPT ![u] = "disabled"]
  /\ UNCHANGED <<receipt, rendition, reversed, refund, refunding, drawer>>

EnableUser(u) ==
  /\ account[u] = "disabled"
  /\ account' = [account EXCEPT ![u] = "active"]
  /\ UNCHANGED <<receipt, rendition, reversed, refund, refunding, drawer>>

\* Opening, closing and every movement of another kind.
OpenDrawer(s, fund) ==
  /\ drawer[s].state = "unopened"
  /\ drawer' = [drawer EXCEPT ![s] = [state |-> "open", balance |-> fund, other |-> fund]]
  /\ UNCHANGED <<account, receipt, rendition, reversed, refund, refunding>>

CloseDrawer(s) ==
  /\ drawer[s].state = "open"
  /\ drawer' = [drawer EXCEPT ![s] = [drawer[s] EXCEPT !.state = "closed"]]
  /\ UNCHANGED <<account, receipt, rendition, reversed, refund, refunding>>

OtherWithdrawal(s) ==
  /\ drawer[s].state = "open"
  /\ drawer[s].balance > 0
  /\ drawer' = [drawer EXCEPT ![s] =
       [drawer[s] EXCEPT !.balance = @ - 1, !.other = @ - 1]]
  /\ UNCHANGED <<account, receipt, rendition, reversed, refund, refunding>>

-----------------------------------------------------------------------------
(* What is reported.  The list and the summary are one query each; the     *)
(* three that tell of one payment are taken here as of one moment.         *)

\* The custody not yet accepted of the payments received in branch b.
ListCustody(b) ==
  {r \in Receipt : receipt[r].branch = b /\ ~LiveIn(r, "accepted") /\ ~CollectorRefunded(r)}

CustodySummary(u, b) ==
  LET outstanding == {r \in ListCustody(b) : receipt[r].custodian = u}
      pending == {r \in outstanding : LiveIn(r, "declared")}
  IN [receipts |-> Cardinality(outstanding), amount |-> Total(outstanding),
      pendingReceipts |-> Cardinality(pending), pendingAmount |-> Total(pending)]

\* payment_custody: the state of the cash of one payment, and the status it is tracked under.
PhysicalState(r) ==
  IF CollectorRefunded(r) THEN "refunded_from_collector"
  ELSE IF \A n \in RenditionId : ~Claims(n, r) THEN "collector_custody"
  ELSE IF ~LiveIn(r, "accepted") THEN "rendition_declared"
  ELSE IF refund[r].source # "none" THEN "refunded_from_branch" ELSE "branch_cash"
TrackingStatus ==
  [refunded_from_collector |-> "refunded", collector_custody |-> "outstanding",
   rendition_declared |-> "pending_rendition", branch_cash |-> "rendered",
   refunded_from_branch |-> "rendered"]
RefundPending(r) == r \in reversed /\ refund[r].source = "none"

-----------------------------------------------------------------------------
Next ==
  \/ \E u \in User, b \in Branch :
       \/ \E r \in Receipt, amount \in Amount : CreateReceipt(u, b, r, amount)
       \/ \E R \in SUBSET Receipt : Declare(u, b, R)
  \/ \E u \in User, n \in RenditionId :
       \/ \E s \in SessionId : Accept(u, n, s)
       \/ Reject(u, n)
       \/ Cancel(u, n)
  \/ \E r \in Receipt :
       \/ ReverseField(r)
       \/ \E u \in User, s \in SessionId \cup {None} : LockReceipt(u, r, s)
       \/ RefundFromCollector(r)
       \/ RefundFromBranch(r)
       \/ RefundAborted(r)
  \/ \E u \in User : DisableUser(u) \/ EnableUser(u)
  \/ \E s \in SessionId :
       \/ \E fund \in 0 .. MaxAmount : OpenDrawer(s, fund)
       \/ CloseDrawer(s)
       \/ OtherWithdrawal(s)

Spec == Init /\ [][Next]_vars

-----------------------------------------------------------------------------
(* Invariants.                                                             *)

\* The tables refer to each other as keys and triggers promise: an id without a row is blank, items
\* are receipts of the rendition's own custodian and branch, they are released exactly when it was
\* rejected or cancelled, and a refund needs the reversal and is written once.
IsConnected(row) ==
  /\ row.state = "none" => row = NoRendition
  /\ row.state # "none" => row.custodian \in User
  /\ row.released <=> row.state \in {"rejected", "cancelled"}
  /\ row.state = "accepted" => row.session \in SessionId
  /\ \A r \in row.items : receipt[r].custodian = row.custodian /\ receipt[r].branch = row.branch

\* Every rendition is connected, and refunds go with reversals and with one lock each.
RowsAreConnected ==
  /\ \A n \in RenditionId : IsConnected(rendition[n])
  /\ \A r \in Receipt :
       /\ r \in reversed => Born(r)
       /\ refund[r].source # "none" => r \in reversed /\ ~Locked(r)
       /\ Locked(r) => r \in reversed
       /\ \A row \in {refund[r], refunding[r]} :
            (row.source = "branch_cash") <=> (row.session # None)

\* A receipt is claimed by one rendition at most: whatever declarations, rejections and
\* cancellations came before, two cashiers are never owed the same cash.
ClaimedOnce ==
  \A m, n \in RenditionId, r \in Receipt : Claims(m, r) /\ Claims(n, r) => m = n

\* Cash leaves a collector once: into a drawer or back to the customer, never both; and only cash
\* that entered a drawer is refunded from one.  It holds of a refund between its look and its write.
OneWayOut ==
  \A r \in Receipt :
    /\ "collector" \in {refund[r].source, refunding[r].source} =>
         \A n \in RenditionId : ~Claims(n, r)
    /\ "branch_cash" \in {refund[r].source, refunding[r].source} => LiveIn(r, "accepted")

\* A decided rendition was decided by somebody else than its custodian, unless cancelled, and cash
\* is accepted into, and refunded from, an own session of the branch that received the payment.
CashIsWitnessed ==
  /\ \A n \in RenditionId : rendition[n].state = "accepted" =>
       /\ rendition[n].decidedBy # rendition[n].custodian
       /\ cashierOf[rendition[n].session] = rendition[n].decidedBy
       /\ \A r \in rendition[n].items :
            /\ branchOf[rendition[n].session] = receipt[r].branch
            /\ rendition[n].custodian = receipt[r].custodian
  /\ \A r \in Receipt : refund[r].source = "collector" => refund[r].by = receipt[r].custodian
  /\ \A r \in Receipt : refund[r].source = "branch_cash" =>
       /\ cashierOf[refund[r].session] = refund[r].by
       /\ branchOf[refund[r].session] = receipt[r].branch

\* Every drawer holds what came into it by other ways, plus the payments of the renditions accepted
\* in it, minus the payments refunded from it: no movement without its rows, none counted twice.
DrawersHoldTheirPayments ==
  \A s \in SessionId :
    LET accepted == {r \in Receipt : \E n \in RenditionId :
                      Claims(n, r) /\ rendition[n].state = "accepted" /\ rendition[n].session = s}
        refunded == {r \in Receipt : refund[r].source = "branch_cash" /\ refund[r].session = s}
    IN drawer[s].balance = drawer[s].other + Total(accepted) - Total(refunded)

\* What was received in a branch is what its summaries say its collectors hold, what its drawers
\* hold of it and what went back to customers; what is pending is what the renditions declare; and
\* the list, the state of each payment and the check for who may leave tell of the same cash.
ReportsAddUp ==
  /\ \A b \in Branch :
       LET received == {r \in Receipt : receipt[r].branch = b}
       IN Total(received) =
            MapThenSumSet(LAMBDA u : CustodySummary(u, b).amount, User)
            + MapThenSumSet(LAMBDA s : drawer[s].balance - drawer[s].other,
                            {s \in SessionId : branchOf[s] = b})
            + Total({r \in received : refund[r].source # "none"})
  /\ \A u \in User, b \in Branch :
       CustodySummary(u, b).pendingAmount =
         MapThenSumSet(LAMBDA n : rendition[n].amount,
           {n \in RenditionId : rendition[n].state = "declared" /\ rendition[n].custodian = u
                                /\ rendition[n].branch = b})
  /\ \A u \in User : HasOpenCustody(u) <=> \E b \in Branch : CustodySummary(u, b).receipts > 0
  /\ \A r \in Receipt : Born(r) =>
       /\ r \in ListCustody(receipt[r].branch) <=>
            TrackingStatus[PhysicalState(r)] \in {"outstanding", "pending_rendition"}
       /\ RefundPending(r) => TrackingStatus[PhysicalState(r)] # "refunded"

\* Every unit collected is in one drawer, in one pair of hands or with its customer, and each of the
\* reports says so.
DrawerIsBacked == DrawersHoldTheirPayments /\ ReportsAddUp

\* However declarations, decisions, reversals and refunds interleave, the cash of a receipt is owed
\* to one cashier at most, leaves its collector once, and only between two people who both count it.
ReceiptsAreSound == ClaimedOnce /\ OneWayOut /\ CashIsWitnessed

\* Nobody is disabled while field cash is in their hands, in whatever order a payment, a rejection
\* and the request to disable them commit.
NobodyLeavesWithCash ==
  \A r \in Receipt :
    Born(r) /\ account[receipt[r].custodian] = "disabled" =>
      LiveIn(r, "accepted") \/ CollectorRefunded(r)

-----------------------------------------------------------------------------
(* The abstract view.                                                      *)

Place ==
  [r \in Receipt |->
    IF ~Born(r) THEN "customer"
    ELSE IF refund[r].source # "none" THEN "returned"
    ELSE IF LiveIn(r, "accepted") THEN "branch" ELSE "collector"]

Cash == INSTANCE FieldCash WITH
  place <- Place, holder <- [r \in Receipt |-> receipt[r].custodian], restored <- reversed,
  staff <- {u \in User : account[u] = "active"}

\* Through every order of declarations, decisions, reversals and refunds the cash of a payment goes
\* one way, once, and back only after its debt was restored.
CashGoesOneWay == Cash!Spec
=============================================================================
