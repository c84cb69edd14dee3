-------------------------- MODULE FieldCustodyProofs --------------------------
(* Theorems about FieldCustody, for every set of users, payments, renditions *)
(* and sessions.                                                             *)
EXTENDS FieldBackstops, Sums, TLAPS

IInv ==
  /\ TypeOK
  /\ RowsAreConnected
  /\ ClaimedOnce
  /\ OneWayOut
  /\ CashIsWitnessed
  /\ NobodyLeavesWithCash

-----------------------------------------------------------------------------
(* Rows.                                                                    *)

LEMMA AmountIsNat == Amount \subseteq Nat /\ 0 .. MaxAmount \subseteq Nat /\ Amount \subseteq 0 .. MaxAmount
  BY FieldBound DEF Amount

LEMMA EmptyRowsOK == NoReceipt \in ReceiptRow /\ NoRendition \in RenditionRow /\ NoRefund \in RefundRow
  BY FieldBound DEF NoReceipt, ReceiptRow, NoRendition, RenditionRow, NoRefund, RefundRow

LEMMA RowsOK ==
  ASSUME TypeOK
  PROVE  /\ \A r \in Receipt :
              receipt[r] \in ReceiptRow /\ receipt[r].amount \in Nat
              /\ refund[r] \in RefundRow /\ refunding[r] \in RefundRow
         /\ \A n \in RenditionId :
              rendition[n] \in RenditionRow /\ rendition[n].amount \in Nat
              /\ rendition[n].items \subseteq Receipt
         /\ \A s \in SessionId :
              drawer[s] \in DrawerRow /\ drawer[s].balance \in Nat /\ drawer[s].other \in Int
  BY AmountIsNat DEF TypeOK, ReceiptRow, RefundRow, RenditionRow, DrawerRow

\* A new rendition, field by field.
LEMMA DeclaredFields ==
  ASSUME NEW u \in User, NEW b \in Branch, NEW R \in SUBSET Receipt, Total(R) \in Amount
  PROVE  /\ Declared(u, b, R) \in RenditionRow
         /\ Declared(u, b, R).state = "declared"
         /\ Declared(u, b, R).custodian = u
         /\ Declared(u, b, R).branch = b
         /\ Declared(u, b, R).items = R
         /\ ~Declared(u, b, R).released
<1>1. \A t \in 0 .. MaxAmount :
        LET row == [NoRendition EXCEPT !.state = "declared", !.custodian = u, !.branch = b,
                                       !.items = R, !.amount = t]
        IN /\ row \in RenditionRow
           /\ row.state = "declared" /\ row.custodian = u /\ row.branch = b
           /\ row.items = R /\ ~row.released
  BY FieldBound DEF NoRendition, RenditionRow
<1>2. Total(R) \in 0 .. MaxAmount
  BY AmountIsNat
<1> QED BY <1>1, <1>2 DEF Declared

LEMMA KeptFields ==
  ASSUME TypeOK, NEW n \in RenditionId, NEW u \in User, NEW s \in SessionId
  PROVE  /\ Kept(n, u, s) \in RenditionRow
         /\ Kept(n, u, s).state = "accepted"
         /\ Kept(n, u, s).decidedBy = u
         /\ Kept(n, u, s).session = s
         /\ Kept(n, u, s).custodian = rendition[n].custodian
         /\ Kept(n, u, s).branch = rendition[n].branch
         /\ Kept(n, u, s).items = rendition[n].items
         /\ Kept(n, u, s).released = rendition[n].released
<1>1. rendition[n] \in RenditionRow BY RowsOK
<1> QED BY <1>1 DEF Kept, RenditionRow

LEMMA ReleasedFields ==
  ASSUME TypeOK, NEW n \in RenditionId, NEW u \in User, NEW state \in {"rejected", "cancelled"}
  PROVE  /\ Released(n, state, u) \in RenditionRow
         /\ Released(n, state, u).state = state
         /\ Released(n, state, u).session = rendition[n].session
         /\ Released(n, state, u).custodian = rendition[n].custodian
         /\ Released(n, state, u).branch = rendition[n].branch
         /\ Released(n, state, u).items = rendition[n].items
         /\ Released(n, state, u).released
<1>1. rendition[n] \in RenditionRow BY RowsOK
<1> QED BY <1>1 DEF Released, RenditionRow

LEMMA BookedOK ==
  ASSUME TypeOK, NEW s \in SessionId, NEW amount \in Int
  PROVE  /\ Booked(s, amount) \in DrawerRow
         /\ Booked(s, amount).balance = drawer[s].balance + amount
<1>1. \A b \in Int : [drawer[s] EXCEPT !.balance = b] \in DrawerRow
                     /\ [drawer[s] EXCEPT !.balance = b].balance = b
  BY RowsOK DEF DrawerRow
<1>2. drawer[s].balance + amount \in Int
  BY RowsOK
<1> QED BY <1>1, <1>2 DEF Booked

-----------------------------------------------------------------------------
(* Type correctness.                                                        *)

LEMMA InitTypeOK == Init => TypeOK
  BY EmptyRowsOK DEF Init, TypeOK, DrawerRow

LEMMA NextTypeOK == TypeOK /\ [Next]_vars => TypeOK'
<1> SUFFICES ASSUME TypeOK, [Next]_vars PROVE TypeOK'
  OBVIOUS
<1>1. ASSUME NEW u \in User, NEW b \in Branch, NEW r \in Receipt, NEW amount \in Amount,
             CreateReceipt(u, b, r, amount)
      PROVE  TypeOK'
  <2>1. [custodian |-> u, branch |-> b, amount |-> amount] \in ReceiptRow
    BY AmountIsNat DEF ReceiptRow
  <2> QED BY <1>1, <2>1 DEF CreateReceipt, TypeOK
<1>2. ASSUME NEW u \in User, NEW b \in Branch, NEW R \in SUBSET Receipt, Declare(u, b, R)
      PROVE  TypeOK'
  <2>1. Declared(u, b, R) \in RenditionRow
    BY <1>2, DeclaredFields DEF Declare
  <2> QED BY <1>2, <2>1 DEF Declare, TypeOK
<1>3. ASSUME NEW u \in User, NEW n \in RenditionId, NEW s \in SessionId, Accept(u, n, s)
      PROVE  TypeOK'
  <2>1. rendition' \in [RenditionId -> RenditionRow]
    BY <1>3, KeptFields DEF Accept, TypeOK
  <2>2. /\ Booked(s, rendition[n].amount) \in DrawerRow
        /\ Booked(s, rendition[n].amount).balance = drawer[s].balance + rendition[n].amount
        /\ rendition[n].amount \in Nat /\ drawer[s].balance \in Nat
    BY BookedOK, RowsOK
  <2>3. drawer' \in [SessionId -> DrawerRow] /\ \A x \in SessionId : drawer'[x].balance >= 0
    BY <1>3, <2>2 DEF Accept, TypeOK
  <2> QED BY <1>3, <2>1, <2>3 DEF Accept, TypeOK
<1>4. ASSUME NEW u \in User, NEW n \in RenditionId, Reject(u, n) \/ Cancel(u, n)
      PROVE  TypeOK'
  <2>1. \A state \in {"rejected", "cancelled"} : Released(n, state, u) \in RenditionRow
    BY ReleasedFields
  <2>2. \E state \in {"rejected", "cancelled"} :
          rendition' = [rendition EXCEPT ![n] = Released(n, state, u)]
    BY <1>4 DEF Reject, Cancel
  <2>3. rendition' \in [RenditionId -> RenditionRow]
    BY <2>1, <2>2 DEF TypeOK
  <2> QED BY <1>4, <2>3 DEF Reject, Cancel, TypeOK
<1>5. ASSUME NEW r \in Receipt, ReverseField(r)
      PROVE  TypeOK'
  BY <1>5 DEF ReverseField, TypeOK
<1>6. ASSUME NEW r \in Receipt, NEW u \in User, NEW s \in SessionId \cup {None}, LockReceipt(u, r, s)
      PROVE  TypeOK'
  <2>1. [source |-> Source(r), by |-> u, session |-> s] \in RefundRow
    BY DEF Source, RefundRow
  <2> QED BY <1>6, <2>1 DEF LockReceipt, TypeOK
<1>7. ASSUME NEW r \in Receipt, RefundFromCollector(r) \/ RefundAborted(r)
      PROVE  TypeOK'
  BY <1>7, EmptyRowsOK DEF RefundFromCollector, RefundAborted, Unlocked, TypeOK
<1>8. ASSUME NEW r \in Receipt, RefundFromBranch(r)
      PROVE  TypeOK'
  <2> DEFINE s == refunding[r].session
  <2>1. refund' \in [Receipt -> RefundRow] /\ refunding' \in [Receipt -> RefundRow]
    BY <1>8, EmptyRowsOK DEF RefundFromBranch, Unlocked, TypeOK
  <2>2. CASE s \in SessionId
    <3>1. receipt[r].amount \in Nat /\ drawer[s].balance \in Nat
      BY <2>2, RowsOK
    <3>2. /\ Booked(s, -receipt[r].amount) \in DrawerRow
          /\ Booked(s, -receipt[r].amount).balance = drawer[s].balance - receipt[r].amount
      BY <2>2, <3>1, BookedOK
    <3>3. drawer' \in [SessionId -> DrawerRow] /\ \A x \in SessionId : drawer'[x].balance >= 0
      BY <1>8, <2>2, <3>1, <3>2 DEF RefundFromBranch, Covers, TypeOK
    <3> QED BY <1>8, <2>1, <3>3 DEF RefundFromBranch, TypeOK
  <2>3. CASE s \notin SessionId
    <3>1. drawer' = drawer
      BY <1>8, <2>3 DEF RefundFromBranch, TypeOK
    <3> QED BY <1>8, <2>1, <3>1 DEF RefundFromBranch, TypeOK
  <2> QED BY <2>2, <2>3
<1>9. ASSUME NEW u \in User, DisableUser(u) \/ EnableUser(u)
      PROVE  TypeOK'
  BY <1>9 DEF DisableUser, EnableUser, TypeOK
<1>10. ASSUME NEW s \in SessionId, NEW fund \in 0 .. MaxAmount, OpenDrawer(s, fund)
       PROVE  TypeOK'
  BY <1>10, FieldBound DEF OpenDrawer, TypeOK, DrawerRow
<1>11. ASSUME NEW s \in SessionId, CloseDrawer(s)
       PROVE  TypeOK'
  <2>1. /\ [drawer[s] EXCEPT !.state = "closed"] \in DrawerRow
        /\ [drawer[s] EXCEPT !.state = "closed"].balance = drawer[s].balance
    BY RowsOK DEF DrawerRow
  <2> QED BY <1>11, <2>1 DEF CloseDrawer, TypeOK
<1>12. ASSUME NEW s \in SessionId, OtherWithdrawal(s)
       PROVE  TypeOK'
  <2>1. drawer[s].balance - 1 \in Nat /\ drawer[s].other - 1 \in Int
    BY <1>12, RowsOK DEF OtherWithdrawal
  <2>2. \A d \in DrawerRow, b \in Int, o \in Int :
          /\ [d EXCEPT !.balance = b, !.other = o] \in DrawerRow
          /\ [d EXCEPT !.balance = b, !.other = o].balance = b
    BY DEF DrawerRow
  <2> DEFINE row == [drawer[s] EXCEPT !.balance = drawer[s].balance - 1,
                                      !.other = drawer[s].other - 1]
  <2>3. drawer' = [drawer EXCEPT ![s] = row]
    BY <1>12 DEF OtherWithdrawal
  <2>4. row \in DrawerRow /\ row.balance >= 0
    <3>1. drawer[s] \in DrawerRow
      BY RowsOK
    <3> DEFINE b == drawer[s].balance - 1
               o == drawer[s].other - 1
    <3>2. b \in Int /\ o \in Int /\ b >= 0
      BY <2>1
    <3>3. row = [drawer[s] EXCEPT !.balance = b, !.other = o]
      OBVIOUS
    <3> HIDE DEF b, o, row
    <3> QED BY <2>2, <3>1, <3>2, <3>3
  <2> HIDE DEF row
  <2>5. drawer' \in [SessionId -> DrawerRow] /\ \A x \in SessionId : drawer'[x].balance >= 0
    BY <2>3, <2>4 DEF TypeOK
  <2>6. UNCHANGED <<account, receipt, rendition, reversed, refund, refunding>>
    BY <1>12 DEF OtherWithdrawal
  <2> QED BY <2>5, <2>6 DEF TypeOK
<1>13. CASE UNCHANGED vars
  BY <1>13 DEF vars, TypeOK
<1> QED BY <1>1, <1>2, <1>3, <1>4, <1>5, <1>6, <1>7, <1>8, <1>9, <1>10, <1>11, <1>12, <1>13 DEF Next

-----------------------------------------------------------------------------
(* What a step does to receipts, renditions and refunds.                    *)

Quiet == UNCHANGED <<receipt, rendition, reversed, refund, refunding>>

Declares(u, b, R, n) ==
  /\ Total(R) \in Amount
  /\ \A r \in R : Declarable(u, b, r)
  /\ rendition[n].state = "none"
  /\ rendition' = [rendition EXCEPT ![n] = Declared(u, b, R)]
  /\ UNCHANGED <<account, receipt, reversed, refund, refunding>>

Accepts(u, n, s) ==
  /\ rendition[n].state = "declared"
  /\ u # rendition[n].custodian
  /\ branchOf[s] = rendition[n].branch
  /\ cashierOf[s] = u
  /\ rendition' = [rendition EXCEPT ![n] = Kept(n, u, s)]
  /\ UNCHANGED <<account, receipt, reversed, refund, refunding>>

Ends(u, n, state) ==
  /\ rendition[n].state = "declared"
  /\ rendition' = [rendition EXCEPT ![n] = Released(n, state, u)]
  /\ UNCHANGED <<account, receipt, reversed, refund, refunding>>

Refunds(r) ==
  /\ \/ refunding[r].source = "collector" /\ refunding[r].by = receipt[r].custodian
     \/ /\ refunding[r].source = "branch_cash"
        /\ cashierOf[refunding[r].session] = refunding[r].by
        /\ branchOf[refunding[r].session] = receipt[r].branch
  /\ refund' = [refund EXCEPT ![r] = refunding[r]]
  /\ refunding' = Unlocked(r)
  /\ UNCHANGED <<account, receipt, rendition, reversed>>

LEMMA Shapes ==
  ASSUME [Next]_vars
  PROVE  \/ Quiet
         \/ \E u \in User, b \in Branch, r \in Receipt, amount \in Amount : CreateReceipt(u, b, r, amount)
         \/ \E u \in User, b \in Branch, R \in SUBSET Receipt, n \in RenditionId : Declares(u, b, R, n)
         \/ \E u \in User, n \in RenditionId, s \in SessionId : Accepts(u, n, s)
         \/ \E u \in User, n \in RenditionId, state \in {"rejected", "cancelled"} : Ends(u, n, state)
         \/ \E r \in Receipt : ReverseField(r)
         \/ \E r \in Receipt, u \in User, s \in SessionId \cup {None} : LockReceipt(u, r, s)
         \/ \E r \in Receipt : Refunds(r)
         \/ \E r \in Receipt : RefundAborted(r)
<1>1. ASSUME NEW u \in User, NEW b \in Branch, NEW R \in SUBSET Receipt, Declare(u, b, R)
      PROVE  \E n \in RenditionId : Declares(u, b, R, n)
  BY <1>1 DEF Declare, Declares
<1>2. ASSUME NEW u \in User, NEW n \in RenditionId, NEW s \in SessionId, Accept(u, n, s)
      PROVE  Accepts(u, n, s)
  BY <1>2 DEF Accept, Accepts, OwnSession
<1>3. ASSUME NEW u \in User, NEW n \in RenditionId, Reject(u, n) \/ Cancel(u, n)
      PROVE  \E state \in {"rejected", "cancelled"} : Ends(u, n, state)
  BY <1>3 DEF Reject, Cancel, Ends
<1>4. ASSUME NEW r \in Receipt, RefundFromCollector(r) \/ RefundFromBranch(r)
      PROVE  Refunds(r)
  BY <1>4 DEF RefundFromCollector, RefundFromBranch, MayHandBack, OwnSession, Refunds
<1>5. ASSUME NEW u \in User, DisableUser(u) \/ EnableUser(u)
      PROVE  Quiet
  BY <1>5 DEF DisableUser, EnableUser, Quiet
<1>6. ASSUME NEW s \in SessionId, NEW fund \in 0 .. MaxAmount,
             OpenDrawer(s, fund) \/ CloseDrawer(s) \/ OtherWithdrawal(s)
      PROVE  Quiet
  BY <1>6 DEF OpenDrawer, CloseDrawer, OtherWithdrawal, Quiet
<1>7. CASE UNCHANGED vars
  BY <1>7 DEF vars, Quiet
<1>8. \A s \in SessionId : CloseDrawer(s) \/ OtherWithdrawal(s) => Quiet
  BY DEF CloseDrawer, OtherWithdrawal, Quiet
<1>9. CASE Next
  BY <1>1, <1>2, <1>3, <1>4, <1>5, <1>6, <1>8, <1>9 DEF Next
<1> QED BY <1>7, <1>9

-----------------------------------------------------------------------------
(* The tables are connected.                                                *)

LEMMA InitConnected == Init => RowsAreConnected
  BY DEF Init, RowsAreConnected, IsConnected, Born, Locked, NoReceipt, NoRendition, NoRefund

LEMMA NextConnected == IInv /\ [Next]_vars => RowsAreConnected'
<1> SUFFICES ASSUME IInv, [Next]_vars PROVE RowsAreConnected'
  OBVIOUS
<1>a. TypeOK /\ RowsAreConnected /\ TypeOK'
  BY NextTypeOK DEF IInv
<1>1. CASE Quiet
  BY <1>a, <1>1 DEF Quiet, RowsAreConnected, IsConnected, Born, Locked
<1>2. ASSUME NEW u \in User, NEW b \in Branch, NEW r \in Receipt, NEW amount \in Amount,
             CreateReceipt(u, b, r, amount)
      PROVE  RowsAreConnected'
  <2>1. \A n \in RenditionId : r \notin rendition[n].items
    <3>1. receipt[r].custodian = None
      BY <1>2 DEF CreateReceipt, Born
    <3>2. SUFFICES ASSUME NEW n \in RenditionId, r \in rendition[n].items PROVE FALSE
      OBVIOUS
    <3>3. rendition[n].custodian = None /\ rendition[n].state # "none"
      BY <1>a, <3>1, <3>2 DEF RowsAreConnected, IsConnected, NoRendition
    <3> QED BY <1>a, <3>3, FieldNone DEF RowsAreConnected, IsConnected
  <2>2. \A x \in Receipt : x # r => receipt'[x] = receipt[x]
    BY <1>a, <1>2 DEF CreateReceipt, TypeOK
  <2>3. Born(r)'
    BY <1>a, <1>2, FieldNone DEF CreateReceipt, TypeOK, Born
  <2>4. UNCHANGED <<rendition, reversed, refund, refunding>>
    BY <1>2 DEF CreateReceipt
  <2>5. \A n \in RenditionId : \A x \in rendition[n].items : x \in Receipt
    BY <1>a, RowsOK
  <2> QED BY <1>a, <2>1, <2>2, <2>3, <2>4, <2>5 DEF RowsAreConnected, IsConnected, Born, Locked
<1>3. ASSUME NEW u \in User, NEW b \in Branch, NEW R \in SUBSET Receipt, NEW n \in RenditionId,
             Declares(u, b, R, n)
      PROVE  RowsAreConnected'
  <2>1. \A m \in RenditionId : rendition'[m] = IF m = n THEN Declared(u, b, R) ELSE rendition[m]
    BY <1>a, <1>3 DEF Declares, TypeOK
  <2>2. \A r \in R : receipt[r].custodian = u /\ receipt[r].branch = b
    BY <1>3 DEF Declares, Declarable
  <2>3. UNCHANGED <<receipt, reversed, refund, refunding>> /\ Total(R) \in Amount
    BY <1>3 DEF Declares
  <2>4. IsConnected(Declared(u, b, R))
    <3>1. /\ Declared(u, b, R) \in RenditionRow
          /\ Declared(u, b, R).state = "declared"
          /\ Declared(u, b, R).custodian = u
          /\ Declared(u, b, R).branch = b
          /\ Declared(u, b, R).items = R
          /\ ~Declared(u, b, R).released
      BY <2>3, DeclaredFields
    <3> QED BY <2>2, <3>1 DEF IsConnected
  <2>5. \A m \in RenditionId : IsConnected(rendition[m])'
    BY <1>a, <2>1, <2>3, <2>4 DEF RowsAreConnected, IsConnected
  <2> QED BY <1>a, <2>3, <2>5 DEF RowsAreConnected, Born, Locked
<1>4. ASSUME NEW u \in User, NEW n \in RenditionId, NEW s \in SessionId, Accepts(u, n, s)
      PROVE  RowsAreConnected'
  <2>1. \A m \in RenditionId : rendition'[m] = IF m = n THEN Kept(n, u, s) ELSE rendition[m]
    BY <1>a, <1>4 DEF Accepts, TypeOK
  <2>2. UNCHANGED <<receipt, reversed, refund, refunding>> /\ rendition[n].state = "declared"
    BY <1>4 DEF Accepts
  <2>3. IsConnected(Kept(n, u, s))
    <3>1. IsConnected(rendition[n])
      BY <1>a DEF RowsAreConnected
    <3> QED BY <1>a, <2>2, <3>1, KeptFields DEF IsConnected
  <2>4. \A m \in RenditionId : IsConnected(rendition[m])'
    BY <1>a, <2>1, <2>2, <2>3 DEF RowsAreConnected, IsConnected
  <2> QED BY <1>a, <2>2, <2>4 DEF RowsAreConnected, Born, Locked
<1>5. ASSUME NEW u \in User, NEW n \in RenditionId, NEW state \in {"rejected", "cancelled"},
             Ends(u, n, state)
      PROVE  RowsAreConnected'
  <2>1. \A m \in RenditionId :
          rendition'[m] = IF m = n THEN Released(n, state, u) ELSE rendition[m]
    BY <1>a, <1>5 DEF Ends, TypeOK
  <2>2. UNCHANGED <<receipt, reversed, refund, refunding>> /\ rendition[n].state = "declared"
    BY <1>5 DEF Ends
  <2>3. IsConnected(Released(n, state, u))
    <3>1. IsConnected(rendition[n])
      BY <1>a DEF RowsAreConnected
    <3>2. /\ Released(n, state, u).state = state /\ Released(n, state, u).released
          /\ Released(n, state, u).custodian = rendition[n].custodian
          /\ Released(n, state, u).branch = rendition[n].branch
          /\ Released(n, state, u).items = rendition[n].items
      BY <1>a, ReleasedFields
    <3> QED BY <2>2, <3>1, <3>2 DEF IsConnected
  <2>4. \A m \in RenditionId : IsConnected(rendition[m])'
    BY <1>a, <2>1, <2>2, <2>3 DEF RowsAreConnected, IsConnected
  <2> QED BY <1>a, <2>2, <2>4 DEF RowsAreConnected, Born, Locked
<1>6. ASSUME NEW r \in Receipt, ReverseField(r)
      PROVE  RowsAreConnected'
  BY <1>a, <1>6 DEF ReverseField, RowsAreConnected, IsConnected, Born, Locked
<1>7. ASSUME NEW r \in Receipt, NEW u \in User, NEW s \in SessionId \cup {None}, LockReceipt(u, r, s)
      PROVE  RowsAreConnected'
  <2> DEFINE row == [source |-> Source(r), by |-> u, session |-> s]
  <2>1. \A x \in Receipt : refunding'[x] = IF x = r THEN row ELSE refunding[x]
    BY <1>a, <1>7 DEF LockReceipt, TypeOK
  <2>2. /\ r \in reversed /\ refund[r].source = "none" /\ Source(r) # "none"
        /\ (s = None) <=> (Source(r) = "collector")
        /\ UNCHANGED <<receipt, rendition, reversed, refund>>
    BY <1>7 DEF LockReceipt, Refundable
  <2>3. Source(r) \in {"none", "collector", "branch_cash"}
    BY DEF Source
  <2> QED BY <1>a, <2>1, <2>2, <2>3 DEF RowsAreConnected, IsConnected, Born, Locked
<1>8. ASSUME NEW r \in Receipt, Refunds(r)
      PROVE  RowsAreConnected'
  <2>1. \A x \in Receipt :
          /\ refund'[x] = IF x = r THEN refunding[r] ELSE refund[x]
          /\ refunding'[x] = IF x = r THEN NoRefund ELSE refunding[x]
    BY <1>a, <1>8 DEF Refunds, Unlocked, TypeOK
  <2>2. Locked(r) /\ UNCHANGED <<receipt, rendition, reversed>>
    BY <1>8 DEF Refunds, Locked
  <2> QED BY <1>a, <2>1, <2>2 DEF RowsAreConnected, IsConnected, Born, Locked, NoRefund
<1>9. ASSUME NEW r \in Receipt, RefundAborted(r)
      PROVE  RowsAreConnected'
  <2>1. \A x \in Receipt : refunding'[x] = IF x = r THEN NoRefund ELSE refunding[x]
    BY <1>a, <1>9 DEF RefundAborted, Unlocked, TypeOK
  <2>2. UNCHANGED <<receipt, rendition, reversed, refund>>
    BY <1>9 DEF RefundAborted
  <2> QED BY <1>a, <2>1, <2>2 DEF RowsAreConnected, IsConnected, Born, Locked, NoRefund
<1> QED BY <1>1, <1>2, <1>3, <1>4, <1>5, <1>6, <1>7, <1>8, <1>9, Shapes

-----------------------------------------------------------------------------
(* One claim per receipt, one way out for its cash.                         *)

\* Only a declared or an accepted rendition claims receipts.
LEMMA ClaimsAreLive ==
  ASSUME TypeOK, RowsAreConnected, NEW n \in RenditionId, NEW r \in Receipt, Claims(n, r)
  PROVE  rendition[n].state \in {"declared", "accepted"}
<1>1. rendition[n] \in RenditionRow /\ IsConnected(rendition[n])
  BY RowsOK DEF RowsAreConnected
<1>2. rendition[n].state # "none"
  BY <1>1 DEF IsConnected, NoRendition, Claims
<1> QED BY <1>1, <1>2 DEF IsConnected, Claims, RenditionRow

\* A step that changes no rendition, or ends or keeps one, adds no claim.
LEMMA ClaimsPersist ==
  ASSUME IInv, [Next]_vars
  PROVE  \/ \A n \in RenditionId, r \in Receipt : Claims(n, r)' => Claims(n, r)
         \/ \E u \in User, b \in Branch, R \in SUBSET Receipt, n \in RenditionId : Declares(u, b, R, n)
<1>a. TypeOK /\ RowsAreConnected
  BY DEF IInv
<1>1. CASE UNCHANGED rendition
  BY <1>1 DEF Claims
<1>2. ASSUME NEW u \in User, NEW n \in RenditionId, NEW s \in SessionId, Accepts(u, n, s)
      PROVE  \A m \in RenditionId, r \in Receipt : Claims(m, r)' => Claims(m, r)
  <2>1. \A m \in RenditionId : rendition'[m] = IF m = n THEN Kept(n, u, s) ELSE rendition[m]
    BY <1>a, <1>2 DEF Accepts, TypeOK
  <2>2. Kept(n, u, s).items = rendition[n].items /\ Kept(n, u, s).released = rendition[n].released
    BY <1>a, KeptFields
  <2> QED BY <2>1, <2>2 DEF Claims
<1>3. ASSUME NEW u \in User, NEW n \in RenditionId, NEW state \in {"rejected", "cancelled"},
             Ends(u, n, state)
      PROVE  \A m \in RenditionId, r \in Receipt : Claims(m, r)' => Claims(m, r)
  <2>1. \A m \in RenditionId :
          rendition'[m] = IF m = n THEN Released(n, state, u) ELSE rendition[m]
    BY <1>a, <1>3 DEF Ends, TypeOK
  <2>2. Released(n, state, u).released
    BY <1>a, ReleasedFields
  <2> QED BY <2>1, <2>2 DEF Claims
<1>4. UNCHANGED rendition
      \/ (\E u \in User, b \in Branch, R \in SUBSET Receipt, n \in RenditionId : Declares(u, b, R, n))
      \/ (\E u \in User, n \in RenditionId, s \in SessionId : Accepts(u, n, s))
      \/ (\E u \in User, n \in RenditionId, state \in {"rejected", "cancelled"} : Ends(u, n, state))
  BY Shapes DEF Quiet, CreateReceipt, ReverseField, LockReceipt, Refunds, RefundAborted
<1> QED BY <1>1, <1>2, <1>3, <1>4

\* Cash accepted into a drawer stays accepted.
LEMMA AcceptedStays ==
  ASSUME IInv, [Next]_vars, NEW r \in Receipt, LiveIn(r, "accepted")
  PROVE  LiveIn(r, "accepted")'
<1>a. TypeOK
  BY DEF IInv
<1>1. PICK m \in RenditionId : Claims(m, r) /\ rendition[m].state = "accepted"
  BY DEF LiveIn
<1>2. rendition'[m] = rendition[m]
  <2>1. CASE UNCHANGED rendition
    BY <2>1
  <2>2. ASSUME NEW n \in RenditionId, rendition[n].state # "accepted", NEW row,
               rendition' = [rendition EXCEPT ![n] = row]
        PROVE  rendition'[m] = rendition[m]
    BY <1>a, <1>1, <2>2 DEF TypeOK
  <2>3. UNCHANGED rendition \/ \E n \in RenditionId :
          rendition[n].state # "accepted" /\ \E row : rendition' = [rendition EXCEPT ![n] = row]
    BY Shapes DEF Quiet, CreateReceipt, ReverseField, LockReceipt, Refunds, RefundAborted,
                  Declares, Accepts, Ends
  <2> QED BY <2>1, <2>2, <2>3
<1> QED BY <1>1, <1>2 DEF LiveIn, Claims

LEMMA NextClaimedOnce == IInv /\ [Next]_vars => ClaimedOnce'
<1> SUFFICES ASSUME IInv, [Next]_vars PROVE ClaimedOnce'
  OBVIOUS
<1>a. TypeOK /\ ClaimedOnce
  BY DEF IInv
<1>1. CASE \A n \in RenditionId, r \in Receipt : Claims(n, r)' => Claims(n, r)
  BY <1>a, <1>1 DEF ClaimedOnce
<1>2. ASSUME NEW u \in User, NEW b \in Branch, NEW R \in SUBSET Receipt, NEW n \in RenditionId,
             Declares(u, b, R, n)
      PROVE  ClaimedOnce'
  <2>1. \A m \in RenditionId : rendition'[m] = IF m = n THEN Declared(u, b, R) ELSE rendition[m]
    BY <1>a, <1>2 DEF Declares, TypeOK
  <2>2. Declared(u, b, R) \in RenditionRow /\ Declared(u, b, R).items = R
    BY <1>2, DeclaredFields DEF Declares
  <2>3. \A r \in R, m \in RenditionId : ~Claims(m, r)
    BY <1>2 DEF Declares, Declarable
  <2>4. \A m \in RenditionId, r \in Receipt :
          Claims(m, r)' => IF m = n THEN r \in R ELSE Claims(m, r)
    BY <2>1, <2>2 DEF Claims
  <2> QED BY <1>a, <2>3, <2>4 DEF ClaimedOnce
<1> QED BY <1>1, <1>2, ClaimsPersist

LEMMA NextOneWayOut == IInv /\ [Next]_vars => OneWayOut'
<1> SUFFICES ASSUME IInv, [Next]_vars, NEW r \in Receipt
             PROVE  /\ "collector" \in {refund'[r].source, refunding'[r].source} =>
                         \A n \in RenditionId : ~Claims(n, r)'
                    /\ "branch_cash" \in {refund'[r].source, refunding'[r].source} =>
                         LiveIn(r, "accepted")'
  BY DEF OneWayOut
<1>a. TypeOK /\ RowsAreConnected /\ OneWayOut
  BY DEF IInv
<1>b. LiveIn(r, "accepted") => LiveIn(r, "accepted")'
  BY AcceptedStays
<1> DEFINE sources == {refund[r].source, refunding[r].source}
<1>c. /\ "collector" \in sources => \A n \in RenditionId : ~Claims(n, r)
      /\ "branch_cash" \in sources => LiveIn(r, "accepted")
  BY <1>a DEF OneWayOut
<1>1. CASE UNCHANGED <<refund, refunding>>
  <2>1. sources' = sources
    BY <1>1
  <2>2. ASSUME "collector" \in sources
        PROVE  \A n \in RenditionId : ~Claims(n, r)'
    <3>1. CASE \A n \in RenditionId, x \in Receipt : Claims(n, x)' => Claims(n, x)
      BY <1>c, <2>2, <3>1
    <3>2. ASSUME NEW u \in User, NEW b \in Branch, NEW R \in SUBSET Receipt, NEW n \in RenditionId,
                 Declares(u, b, R, n)
          PROVE  \A m \in RenditionId : ~Claims(m, r)'
      <4>1. r \notin R
        BY <2>2, <3>2 DEF Declares, Declarable, CollectorRefunded, Locked
      <4>2. \A m \in RenditionId :
              rendition'[m] = IF m = n THEN Declared(u, b, R) ELSE rendition[m]
        BY <1>a, <3>2 DEF Declares, TypeOK
      <4>3. Declared(u, b, R) \in RenditionRow /\ Declared(u, b, R).items = R
        BY <3>2, DeclaredFields DEF Declares
      <4> QED BY <1>c, <2>2, <4>1, <4>2, <4>3 DEF Claims
    <3> QED BY <3>1, <3>2, ClaimsPersist
  <2> QED BY <1>b, <1>c, <2>1, <2>2
<1>2. ASSUME NEW x \in Receipt, NEW u \in User, NEW s \in SessionId \cup {None}, LockReceipt(u, x, s)
      PROVE  /\ "collector" \in sources' => \A n \in RenditionId : ~Claims(n, r)'
             /\ "branch_cash" \in sources' => LiveIn(r, "accepted")'
  <2>1. /\ refund' = refund /\ UNCHANGED rendition
        /\ refunding'[r].source = IF x = r THEN Source(r) ELSE refunding[r].source
        /\ Source(x) # "none"
    BY <1>a, <1>2 DEF LockReceipt, TypeOK
  <2>2. Source(r) = "collector" => \A n \in RenditionId : ~Claims(n, r)
    BY <1>a, ClaimsAreLive DEF Source, LiveIn
  <2>3. Source(r) = "branch_cash" => LiveIn(r, "accepted")
    BY DEF Source
  <2>4. \A n \in RenditionId : Claims(n, r)' = Claims(n, r)
    BY <2>1 DEF Claims
  <2> QED BY <1>b, <1>c, <2>1, <2>2, <2>3, <2>4
<1>3. ASSUME NEW x \in Receipt, Refunds(x) \/ RefundAborted(x)
      PROVE  /\ "collector" \in sources' => \A n \in RenditionId : ~Claims(n, r)'
             /\ "branch_cash" \in sources' => LiveIn(r, "accepted")'
  <2>1. \A y \in Receipt : y # x => refund'[y] = refund[y] /\ refunding'[y] = refunding[y]
    BY <1>a, <1>3 DEF Refunds, RefundAborted, Unlocked, TypeOK
  <2>2. UNCHANGED rendition
    BY <1>3 DEF Refunds, RefundAborted
  <2>3. refund'[x] \in {refund[x], refunding[x]} /\ refunding'[x] = NoRefund
    BY <1>a, <1>3 DEF Refunds, RefundAborted, Unlocked, TypeOK
  <2>4. sources' \subseteq sources \cup {"none"}
    BY <2>1, <2>3 DEF NoRefund
  <2>5. \A n \in RenditionId : Claims(n, r)' = Claims(n, r)
    BY <2>2 DEF Claims
  <2> QED BY <1>b, <1>c, <2>4, <2>5
<1>4. \/ UNCHANGED <<refund, refunding>>
      \/ \E x \in Receipt, u \in User, s \in SessionId \cup {None} : LockReceipt(u, x, s)
      \/ \E x \in Receipt : Refunds(x) \/ RefundAborted(x)
  BY Shapes DEF Quiet, CreateReceipt, ReverseField, Declares, Accepts, Ends
<1> QED BY <1>1, <1>2, <1>3, <1>4 DEF sources

-----------------------------------------------------------------------------
(* Witnesses.                                                               *)

Witnessed(row) ==
  row.state = "accepted" =>
    /\ row.decidedBy # row.custodian
    /\ cashierOf[row.session] = row.decidedBy
    /\ \A r \in row.items :
         /\ branchOf[row.session] = receipt[r].branch
         /\ row.custodian = receipt[r].custodian

WitnessedRefund(r) ==
  /\ refund[r].source = "collector" => refund[r].by = receipt[r].custodian
  /\ refund[r].source = "branch_cash" =>
       /\ cashierOf[refund[r].session] = refund[r].by
       /\ branchOf[refund[r].session] = receipt[r].branch

LEMMA WitnessedParts ==
  CashIsWitnessed <=> /\ \A n \in RenditionId : Witnessed(rendition[n])
                      /\ \A r \in Receipt : WitnessedRefund(r)
  BY DEF CashIsWitnessed, Witnessed, WitnessedRefund

\* A payment is not collected twice, so its receipt keeps its custodian and its branch.
LEMMA BornStays ==
  ASSUME IInv, [Next]_vars, NEW r \in Receipt, Born(r)
  PROVE  receipt'[r] = receipt[r]
<1>1. TypeOK
  BY DEF IInv
<1>2. ASSUME NEW u \in User, NEW b \in Branch, NEW x \in Receipt, NEW amount \in Amount,
             CreateReceipt(u, b, x, amount)
      PROVE  receipt'[r] = receipt[r]
  BY <1>1, <1>2 DEF CreateReceipt, TypeOK
<1> QED BY <1>2, Shapes DEF Quiet, Declares, Accepts, Ends, ReverseField, LockReceipt, Refunds, RefundAborted

LEMMA NextCashIsWitnessed == IInv /\ [Next]_vars => CashIsWitnessed'
<1> SUFFICES ASSUME IInv, [Next]_vars PROVE CashIsWitnessed'
  OBVIOUS
<1>a. TypeOK /\ RowsAreConnected /\ CashIsWitnessed
  BY DEF IInv
<1>b. \A n \in RenditionId : Witnessed(rendition[n]) /\ IsConnected(rendition[n])
  BY <1>a, WitnessedParts DEF RowsAreConnected
<1>c. \A r \in Receipt : refund[r].source # "none" => Born(r)
  BY <1>a DEF RowsAreConnected
<1>d. \A n \in RenditionId : \A r \in rendition[n].items :
        r \in Receipt /\ Born(r) /\ receipt'[r] = receipt[r]
  <2> SUFFICES ASSUME NEW n \in RenditionId, NEW r \in rendition[n].items
               PROVE  r \in Receipt /\ Born(r)
    BY BornStays
  <2>1. r \in Receipt
    BY <1>a, RowsOK
  <2>2. rendition[n].state # "none"
    BY <1>b DEF IsConnected, NoRendition
  <2> QED BY <1>b, <2>1, <2>2, FieldNone DEF IsConnected, Born
<1>1. \A n \in RenditionId : rendition'[n] = rendition[n] => Witnessed(rendition[n])'
  BY <1>b, <1>d DEF Witnessed
<1>2. \A n \in RenditionId : rendition'[n].state # "accepted" => Witnessed(rendition[n])'
  BY DEF Witnessed
<1>3. ASSUME NEW u \in User, NEW n \in RenditionId, NEW s \in SessionId, Accepts(u, n, s)
      PROVE  \A m \in RenditionId : Witnessed(rendition[m])'
  <2>1. \A m \in RenditionId : rendition'[m] = IF m = n THEN Kept(n, u, s) ELSE rendition[m]
    BY <1>a, <1>3 DEF Accepts, TypeOK
  <2>2. /\ u # rendition[n].custodian /\ branchOf[s] = rendition[n].branch /\ cashierOf[s] = u
        /\ UNCHANGED receipt
    BY <1>3 DEF Accepts
  <2>3. /\ Kept(n, u, s).decidedBy = u /\ Kept(n, u, s).session = s
        /\ Kept(n, u, s).custodian = rendition[n].custodian
        /\ Kept(n, u, s).items = rendition[n].items
    BY <1>a, KeptFields
  <2>4. \A r \in rendition[n].items :
          receipt[r].custodian = rendition[n].custodian /\ receipt[r].branch = rendition[n].branch
    BY <1>b DEF IsConnected
  <2>5. Witnessed(rendition[n])'
    BY <2>1, <2>2, <2>3, <2>4 DEF Witnessed
  <2> QED BY <1>1, <2>1, <2>5
<1>4. ASSUME NEW n \in RenditionId, NEW row, row.state # "accepted",
             rendition' = [rendition EXCEPT ![n] = row]
      PROVE  \A m \in RenditionId : Witnessed(rendition[m])'
  <2>1. \A m \in RenditionId : rendition'[m] = IF m = n THEN row ELSE rendition[m]
    BY <1>a, <1>4 DEF TypeOK
  <2> QED BY <1>1, <1>2, <1>4, <2>1
<1>5. \A m \in RenditionId : Witnessed(rendition[m])'
  <2>1. CASE UNCHANGED rendition
    BY <1>1, <2>1
  <2>2. ASSUME NEW u \in User, NEW b \in Branch, NEW R \in SUBSET Receipt, NEW n \in RenditionId,
               Declares(u, b, R, n)
        PROVE  \A m \in RenditionId : Witnessed(rendition[m])'
    <3>1. Declared(u, b, R) \in RenditionRow /\ Declared(u, b, R).state = "declared"
      BY <2>2, DeclaredFields DEF Declares
    <3> QED BY <1>4, <2>2, <3>1 DEF Declares
  <2>3. ASSUME NEW u \in User, NEW n \in RenditionId, NEW state \in {"rejected", "cancelled"},
               Ends(u, n, state)
        PROVE  \A m \in RenditionId : Witnessed(rendition[m])'
    <3>1. Released(n, state, u).state = state
      BY <1>a, ReleasedFields
    <3> QED BY <1>4, <2>3, <3>1 DEF Ends
  <2>4. UNCHANGED rendition
        \/ (\E u \in User, b \in Branch, R \in SUBSET Receipt, n \in RenditionId : Declares(u, b, R, n))
        \/ (\E u \in User, n \in RenditionId, s \in SessionId : Accepts(u, n, s))
        \/ (\E u \in User, n \in RenditionId, state \in {"rejected", "cancelled"} : Ends(u, n, state))
    BY Shapes DEF Quiet, CreateReceipt, ReverseField, LockReceipt, Refunds, RefundAborted
  <2> QED BY <1>3, <2>1, <2>2, <2>3, <2>4
<1>6. ASSUME NEW r \in Receipt
      PROVE  WitnessedRefund(r)'
  <2>1. CASE refund'[r] = refund[r]
    <3>1. refund[r].source # "none" => receipt'[r] = receipt[r]
      BY <1>c, BornStays
    <3>2. WitnessedRefund(r)
      BY <1>a, WitnessedParts
    <3> QED BY <2>1, <3>1, <3>2 DEF WitnessedRefund
  <2>2. ASSUME NEW x \in Receipt, Refunds(x), refund'[r] # refund[r]
        PROVE  WitnessedRefund(r)'
    <3>1. r = x /\ refund'[r] = refunding[r] /\ UNCHANGED receipt
      BY <1>a, <2>2 DEF Refunds, TypeOK
    <3>2. \/ refunding[r].source = "collector" /\ refunding[r].by = receipt[r].custodian
          \/ /\ refunding[r].source = "branch_cash"
             /\ cashierOf[refunding[r].session] = refunding[r].by
             /\ branchOf[refunding[r].session] = receipt[r].branch
      BY <2>2, <3>1 DEF Refunds
    <3> QED BY <3>1, <3>2 DEF WitnessedRefund
  <2>3. refund' = refund \/ \E x \in Receipt : Refunds(x)
    BY Shapes DEF Quiet, CreateReceipt, ReverseField, LockReceipt, RefundAborted, Declares, Accepts, Ends
  <2> QED BY <2>1, <2>2, <2>3
<1>7. CashIsWitnessed' <=> /\ \A n \in RenditionId : Witnessed(rendition[n])'
                           /\ \A r \in Receipt : WitnessedRefund(r)'
  BY DEF CashIsWitnessed, Witnessed, WitnessedRefund
<1> QED BY <1>5, <1>6, <1>7

-----------------------------------------------------------------------------
(* Nobody leaves with cash.                                                 *)

Settled(r) == LiveIn(r, "accepted") \/ CollectorRefunded(r)

\* Cash that a collector no longer answers for stays so.
LEMMA SettledStays ==
  ASSUME IInv, [Next]_vars, NEW r \in Receipt, Settled(r)
  PROVE  Settled(r)'
<1>a. TypeOK /\ RowsAreConnected
  BY DEF IInv
<1>1. CASE LiveIn(r, "accepted")
  BY <1>1, AcceptedStays DEF Settled
<1>2. CASE CollectorRefunded(r)
  <2>1. ~Locked(r)
    BY <1>a, <1>2 DEF RowsAreConnected, CollectorRefunded
  <2>2. ASSUME NEW x \in Receipt, Refunds(x)
        PROVE  refund'[r] = refund[r]
    BY <1>a, <2>1, <2>2 DEF Refunds, Locked, TypeOK
  <2>3. refund' = refund \/ \E x \in Receipt : Refunds(x)
    BY Shapes DEF Quiet, CreateReceipt, ReverseField, LockReceipt, RefundAborted, Declares, Accepts, Ends
  <2> QED BY <1>2, <2>2, <2>3 DEF Settled, CollectorRefunded
<1> QED BY <1>1, <1>2 DEF Settled

LEMMA NobodyLeavesParts ==
  NobodyLeavesWithCash <=>
    \A r \in Receipt : Born(r) /\ account[receipt[r].custodian] = "disabled" => Settled(r)
  BY DEF NobodyLeavesWithCash, Settled

\* Who is disabled by a step had settled all their cash before it.
LEMMA DisabledSettled ==
  ASSUME TypeOK, [Next]_vars, NEW u \in User, account[u] # "disabled", account'[u] = "disabled"
  PROVE  \A r \in Receipt : receipt[r].custodian = u => Settled(r)
<1>1. PICK x \in User : DisableUser(x) \/ EnableUser(x)
  BY DEF Next, vars, CreateReceipt, Declare, Accept, Reject, Cancel, ReverseField, LockReceipt,
         RefundFromCollector, RefundFromBranch, RefundAborted, OpenDrawer, CloseDrawer, OtherWithdrawal
<1>2. DisableUser(u)
  BY <1>1 DEF DisableUser, EnableUser, TypeOK
<1> QED BY <1>2 DEF DisableUser, HasOpenCustody, Settled

LEMMA NextNobodyLeaves == IInv /\ [Next]_vars => NobodyLeavesWithCash'
<1> SUFFICES ASSUME IInv, [Next]_vars, NEW r \in Receipt,
                    Born(r)', account'[receipt'[r].custodian] = "disabled"
             PROVE  Settled(r)'
  BY DEF NobodyLeavesWithCash, Settled
<1>a. TypeOK /\ NobodyLeavesWithCash
  BY DEF IInv
<1>1. CASE Born(r)
  <2> DEFINE u == receipt[r].custodian
  <2>1. receipt'[r] = receipt[r] /\ u \in User /\ account'[u] = "disabled"
    <3>1. receipt'[r] = receipt[r]
      BY <1>1, BornStays
    <3>2. u \in User
      BY <1>a, <1>1, RowsOK DEF Born, ReceiptRow
    <3> QED BY <3>1, <3>2
  <2>2. Settled(r)
    <3>1. CASE account[u] = "disabled"
      BY <1>a, <1>1, <3>1, NobodyLeavesParts
    <3>2. CASE account[u] # "disabled"
      BY <1>a, <2>1, <3>2, DisabledSettled
    <3> QED BY <3>1, <3>2
  <2> QED BY <2>2, SettledStays
<1>2. CASE ~Born(r)
  <2>1. PICK u \in User, b \in Branch, x \in Receipt, amount \in Amount :
          CreateReceipt(u, b, x, amount)
    BY <1>2, Shapes DEF Born, Quiet, Declares, Accepts, Ends, ReverseField, LockReceipt, Refunds,
                        RefundAborted
  <2>2. r = x /\ receipt'[r].custodian = u
    BY <1>a, <1>2, <2>1 DEF CreateReceipt, Born, TypeOK
  <2>3. account'[u] = "active"
    BY <2>1 DEF CreateReceipt
  <2> QED BY <2>2, <2>3
<1> QED BY <1>1, <1>2

-----------------------------------------------------------------------------
(* The theorems.                                                            *)

LEMMA InitIInv == Init => IInv
<1> SUFFICES ASSUME Init PROVE IInv
  OBVIOUS
<1>1. \A n \in RenditionId : rendition[n].items = {} /\ rendition[n].state = "none"
  BY DEF Init, NoRendition
<1>2. \A r \in Receipt : /\ refund[r].source = "none" /\ refunding[r].source = "none"
                         /\ receipt[r].custodian = None
  BY DEF Init, NoRefund, NoReceipt
<1>3. ClaimedOnce /\ OneWayOut /\ CashIsWitnessed /\ NobodyLeavesWithCash
  BY <1>1, <1>2 DEF ClaimedOnce, OneWayOut, CashIsWitnessed, NobodyLeavesWithCash, Claims, LiveIn, Born
<1> QED BY <1>3, InitTypeOK, InitConnected DEF IInv

LEMMA NextIInv == IInv /\ [Next]_vars => IInv'
  BY NextTypeOK, NextConnected, NextClaimedOnce, NextOneWayOut, NextCashIsWitnessed, NextNobodyLeaves
     DEF IInv

\* The invariant that carries the others: it holds at the start and every handler keeps it.
THEOREM Inductive == Spec => []IInv
  BY InitIInv, NextIInv, PTL DEF Spec

\* Every row of the custody tables keeps its form and no drawer is overdrawn by a refund, whatever
\* the handlers of service.py and the cash port do.
THEOREM TypeCorrect == Spec => []TypeOK
  BY Inductive, PTL DEF IInv

\* The rows refer to each other as keys and triggers of models.py promise, and a refund is written
\* once, after the reversal of its payment.
THEOREM Connected == Spec => []RowsAreConnected
  BY Inductive, PTL DEF IInv

\* No two renditions ever claim the same receipt.
THEOREM OneClaim == Spec => []ClaimedOnce
  BY Inductive, PTL DEF IInv

\* The cash of a payment is never both accepted into a drawer and refunded by its collector, nor
\* refunded from a drawer it never entered, although a refund reads the rendition without its lock.
THEOREM OneWay == Spec => []OneWayOut
  BY Inductive, PTL DEF IInv

\* Field cash changes hands only between two people, in an own session of the payment's branch.
THEOREM Witness == Spec => []CashIsWitnessed
  BY Inductive, PTL DEF IInv

\* The custody of every receipt is sound: one claim, one way out, witnessed.
THEOREM SoundReceipts == Spec => []ReceiptsAreSound
<1>1. IInv => ReceiptsAreSound  BY DEF IInv, ReceiptsAreSound
<1> QED BY <1>1, Inductive, PTL

\* No user is disabled while they hold cash collected in the field.
THEOREM StaffAnswersForCash == Spec => []NobodyLeavesWithCash
  BY Inductive, PTL DEF IInv

-----------------------------------------------------------------------------
(* FieldCustody implements FieldCash.                                       *)

HolderNow == [r \in Receipt |-> receipt[r].custodian]
StaffNow == {u \in User : account[u] = "active"}

\* The only step that brings cash into a branch is the acceptance of its rendition.
LEMMA AcceptedBack ==
  ASSUME IInv, [Next]_vars, NEW r \in Receipt, LiveIn(r, "accepted")', ~LiveIn(r, "accepted")
  PROVE  \E u \in User, n \in RenditionId, s \in SessionId : Accepts(u, n, s)
<1>a. TypeOK
  BY DEF IInv
<1>1. SUFFICES ASSUME \A u \in User, n \in RenditionId, s \in SessionId : ~Accepts(u, n, s)
               PROVE  FALSE
  OBVIOUS
<1>2. CASE UNCHANGED rendition
  BY <1>2 DEF LiveIn, Claims
<1>3. ASSUME NEW n \in RenditionId, NEW row, row.state # "accepted",
             rendition' = [rendition EXCEPT ![n] = row]
      PROVE  FALSE
  <2>1. \A m \in RenditionId : rendition'[m] = IF m = n THEN row ELSE rendition[m]
    BY <1>a, <1>3 DEF TypeOK
  <2> QED BY <1>3, <2>1 DEF LiveIn, Claims
<1>4. ASSUME NEW u \in User, NEW b \in Branch, NEW R \in SUBSET Receipt, NEW n \in RenditionId,
             Declares(u, b, R, n)
      PROVE  FALSE
  <2>1. Declared(u, b, R) \in RenditionRow /\ Declared(u, b, R).state = "declared"
    BY <1>4, DeclaredFields DEF Declares
  <2> QED BY <1>3, <1>4, <2>1 DEF Declares
<1>5. ASSUME NEW u \in User, NEW n \in RenditionId, NEW state \in {"rejected", "cancelled"},
             Ends(u, n, state)
      PROVE  FALSE
  <2>1. Released(n, state, u).state = state
    BY <1>a, ReleasedFields
  <2> QED BY <1>3, <1>5, <2>1 DEF Ends
<1>6. UNCHANGED rendition
      \/ (\E u \in User, b \in Branch, R \in SUBSET Receipt, n \in RenditionId : Declares(u, b, R, n))
      \/ (\E u \in User, n \in RenditionId, state \in {"rejected", "cancelled"} : Ends(u, n, state))
  BY <1>1, Shapes DEF Quiet, CreateReceipt, ReverseField, LockReceipt, Refunds, RefundAborted
<1> QED BY <1>2, <1>4, <1>5, <1>6

\* Cash stays where it is as long as its receipt, its refund and its acceptance do.
LEMMA PlaceStays ==
  ASSUME IInv, [Next]_vars, NEW r \in Receipt,
         Born(r)' <=> Born(r), refund'[r].source = refund[r].source,
         \A u \in User, n \in RenditionId, s \in SessionId : ~Accepts(u, n, s)
  PROVE  Place'[r] = Place[r]
<1>1. LiveIn(r, "accepted")' <=> LiveIn(r, "accepted")
  BY AcceptedStays, AcceptedBack
<1> QED BY <1>1 DEF Place

LEMMA PlaceOf ==
  ASSUME NEW r \in Receipt
  PROVE  /\ ~Born(r) => Place[r] = "customer"
         /\ Born(r) /\ refund[r].source # "none" => Place[r] = "returned"
         /\ Born(r) /\ refund[r].source = "none" /\ LiveIn(r, "accepted") => Place[r] = "branch"
         /\ Born(r) /\ refund[r].source = "none" /\ ~LiveIn(r, "accepted") => Place[r] = "collector"
  BY DEF Place

\* What a rendition waiting for its decision holds: cash of its custodian, still to be handed in.
LEMMA WaitingCash ==
  ASSUME IInv, NEW n \in RenditionId, rendition[n].state = "declared", NEW r \in rendition[n].items
  PROVE  /\ r \in Receipt /\ Born(r) /\ receipt[r].custodian = rendition[n].custodian
         /\ refund[r].source = "none" /\ ~LiveIn(r, "accepted")
<1>a. TypeOK /\ RowsAreConnected /\ ClaimedOnce /\ OneWayOut
  BY DEF IInv
<1>1. r \in Receipt /\ refund[r] \in RefundRow
  BY <1>a, RowsOK
<1>2. IsConnected(rendition[n])
  BY <1>a DEF RowsAreConnected
<1>3. Claims(n, r) /\ receipt[r].custodian = rendition[n].custodian /\ Born(r)
  BY <1>2, FieldNone DEF IsConnected, Claims, Born
<1>4. ~LiveIn(r, "accepted")
  BY <1>a, <1>1, <1>3 DEF ClaimedOnce, LiveIn
<1>5. refund[r].source = "none"
  BY <1>a, <1>1, <1>3, <1>4 DEF OneWayOut, RefundRow
<1> QED BY <1>1, <1>3, <1>4, <1>5

LEMMA InitCash == Init => Cash!Init
<1> SUFFICES ASSUME Init PROVE Cash!Init
  OBVIOUS
<1>1. \A r \in Receipt : receipt[r].custodian = None
  BY DEF Init, NoReceipt
<1>2. Place = [r \in Receipt |-> "customer"]
  BY <1>1 DEF Place, Born
<1>3. HolderNow = [r \in Receipt |-> None] /\ StaffNow = User /\ reversed = {}
  BY <1>1 DEF HolderNow, StaffNow, Init
<1> QED BY <1>2, <1>3 DEF Cash!Init, HolderNow, StaffNow

LEMMA NextCash == IInv /\ [Next]_vars => [Cash!Next]_(Cash!vars)
<1> SUFFICES ASSUME IInv, [Next]_vars PROVE Cash!Next \/ UNCHANGED Cash!vars
  OBVIOUS
<1>a. TypeOK /\ RowsAreConnected /\ OneWayOut
  BY DEF IInv
<1>b. /\ DOMAIN Place = Receipt /\ DOMAIN Place' = Receipt
      /\ Place = [r \in Receipt |-> Place[r]] /\ Place' = [r \in Receipt |-> Place'[r]]
  BY DEF Place
<1>c. \A r \in Receipt : HolderNow[r] = receipt[r].custodian
  BY DEF HolderNow
<1>1. ASSUME UNCHANGED <<receipt, reversed, refund>>,
             \A u \in User, n \in RenditionId, s \in SessionId : ~Accepts(u, n, s)
      PROVE  Place' = Place /\ HolderNow' = HolderNow /\ reversed' = reversed
  <2>1. \A r \in Receipt : Place'[r] = Place[r]
    BY <1>1, PlaceStays DEF Born
  <2> QED BY <1>1, <1>b, <2>1 DEF HolderNow
<1>2. ASSUME NEW u \in User, DisableUser(u) \/ EnableUser(u)
      PROVE  Cash!Next
  <2>1. Place' = Place /\ HolderNow' = HolderNow /\ reversed' = reversed
    <3>1. UNCHANGED <<receipt, rendition, reversed, refund>>
      BY <1>2 DEF DisableUser, EnableUser
    <3> QED BY <3>1 DEF Place, HolderNow, Born, LiveIn, Claims
  <2>2. CASE DisableUser(u)
    <3>1. StaffNow' = StaffNow \ {u}
      BY <1>a, <2>2 DEF DisableUser, StaffNow, TypeOK
    <3>2. \A r \in Receipt : receipt[r].custodian = u => Place[r] # "collector"
      BY <2>2 DEF DisableUser, HasOpenCustody, CollectorRefunded, Place
    <3>3. Cash!Leave(u)
      BY <1>c, <2>1, <3>1, <3>2 DEF Cash!Leave, HolderNow, StaffNow
    <3> QED BY <3>3 DEF Cash!Next
  <2>3. CASE EnableUser(u)
    <3>1. StaffNow' = StaffNow \cup {u}
      BY <1>a, <2>3 DEF EnableUser, StaffNow, TypeOK
    <3>2. Cash!Join(u)
      BY <2>1, <3>1 DEF Cash!Join, HolderNow, StaffNow
    <3> QED BY <3>2 DEF Cash!Next
  <2> QED BY <1>2, <2>2, <2>3
<1>3. CASE \A u \in User : ~DisableUser(u) /\ ~EnableUser(u)
  <2>a. account' = account /\ StaffNow' = StaffNow
    BY <1>3 DEF StaffNow, Next, vars, CreateReceipt, Declare, Accept, Reject, Cancel, ReverseField,
         LockReceipt, RefundFromCollector, RefundFromBranch, RefundAborted, OpenDrawer, CloseDrawer,
         OtherWithdrawal
  <2>1. ASSUME NEW u \in User, NEW b \in Branch, NEW r \in Receipt, NEW amount \in Amount,
               CreateReceipt(u, b, r, amount)
        PROVE  Cash!Next
    <3>1. /\ receipt' = [receipt EXCEPT ![r] = [custodian |-> u, branch |-> b, amount |-> amount]]
          /\ ~Born(r) /\ u \in StaffNow
          /\ UNCHANGED <<rendition, reversed, refund>>
      BY <2>1 DEF CreateReceipt, StaffNow
    <3>2. refund[r].source = "none" /\ ~LiveIn(r, "accepted")
      <4>1. refund[r].source = "none"
        BY <1>a, <3>1 DEF RowsAreConnected
      <4>2. ASSUME NEW n \in RenditionId, Claims(n, r)
            PROVE  Born(r)
        <5>1. IsConnected(rendition[n])
          BY <1>a DEF RowsAreConnected
        <5> QED BY <4>2, <5>1, FieldNone DEF IsConnected, NoRendition, Claims, Born
      <4> QED BY <3>1, <4>1, <4>2 DEF LiveIn
    <3>3. receipt'[r].custodian = u /\ \A x \in Receipt : x # r => receipt'[x] = receipt[x]
      BY <1>a, <3>1 DEF TypeOK
    <3>4. \A x \in Receipt : Place'[x] = IF x = r THEN "collector" ELSE Place[x]
      BY <3>1, <3>2, <3>3, FieldNone DEF Place, Born, LiveIn, Claims
    <3>5. Place' = [Place EXCEPT ![r] = "collector"]
      BY <1>b, <3>4
    <3>6. HolderNow' = [HolderNow EXCEPT ![r] = u] /\ HolderNow[r] = None
      <4>1. \A x \in Receipt : HolderNow'[x] = IF x = r THEN u ELSE HolderNow[x]
        BY <3>3 DEF HolderNow
      <4>2. HolderNow' = [x \in Receipt |-> HolderNow'[x]] /\ DOMAIN HolderNow = Receipt
        BY DEF HolderNow
      <4>3. receipt[r].custodian = None
        BY <3>1 DEF Born
      <4> QED BY <1>c, <4>1, <4>2, <4>3
    <3>7. Cash!Collect(r, u)
      BY <2>a, <3>1, <3>5, <3>6 DEF Cash!Collect, HolderNow, StaffNow
    <3> QED BY <3>7 DEF Cash!Next
  <2>2. ASSUME NEW u \in User, NEW n \in RenditionId, NEW s \in SessionId, Accepts(u, n, s)
        PROVE  Cash!Next
    <3> DEFINE R == rendition[n].items
               c == rendition[n].custodian
    <3>1. /\ rendition[n].state = "declared" /\ UNCHANGED <<receipt, reversed, refund>>
          /\ \A m \in RenditionId : rendition'[m] = IF m = n THEN Kept(n, u, s) ELSE rendition[m]
      BY <1>a, <2>2 DEF Accepts, TypeOK
    <3>2. /\ R \in SUBSET Receipt /\ c \in User /\ ~rendition[n].released
      BY <1>a, <3>1, RowsOK DEF RowsAreConnected, IsConnected
    <3>3. /\ Kept(n, u, s).state = "accepted" /\ Kept(n, u, s).items = R
          /\ Kept(n, u, s).released = rendition[n].released
      BY <1>a, KeptFields
    <3>4. \A r \in R : /\ Born(r) /\ receipt[r].custodian = c
                       /\ refund[r].source = "none" /\ ~LiveIn(r, "accepted")
      BY <3>1, WaitingCash
    <3>5. \A r \in Receipt : LiveIn(r, "accepted")' <=> LiveIn(r, "accepted") \/ r \in R
      BY <3>1, <3>2, <3>3 DEF LiveIn, Claims
    <3>6. \A r \in Receipt : Place'[r] = IF r \in R THEN "branch" ELSE Place[r]
      BY <3>1, <3>4, <3>5 DEF Place, Born
    <3>7. \A r \in R : HolderNow[r] = c /\ Place[r] = "collector"
      BY <1>c, <3>2, <3>4, PlaceOf
    <3>8. Place' = [r \in Receipt |-> IF r \in R THEN "branch" ELSE Place[r]]
      BY <1>b, <3>6
    <3>9. HolderNow' = HolderNow /\ reversed' = reversed
      BY <3>1 DEF HolderNow
    <3> HIDE DEF R, c
    <3>10. Cash!HandIn(R, c)
      BY <2>a, <3>7, <3>8, <3>9 DEF Cash!HandIn, HolderNow, StaffNow
    <3> QED BY <3>2, <3>10 DEF Cash!Next
  <2>3. ASSUME NEW r \in Receipt, ReverseField(r),
               \A u \in User, n \in RenditionId, s \in SessionId : ~Accepts(u, n, s)
        PROVE  Cash!Next
    <3>1. /\ reversed' = reversed \cup {r} /\ receipt[r].custodian # None
          /\ UNCHANGED <<receipt, refund>>
      BY <2>3 DEF ReverseField, Born
    <3>2. \A x \in Receipt : Place'[x] = Place[x]
      BY <2>3, <3>1, PlaceStays DEF Born
    <3>3. Place' = Place /\ HolderNow' = HolderNow
      BY <1>b, <3>1, <3>2 DEF HolderNow
    <3>4. Cash!Restore(r)
      BY <1>c, <2>a, <3>1, <3>3 DEF Cash!Restore, HolderNow, StaffNow
    <3> QED BY <3>4 DEF Cash!Next
  <2>4. ASSUME NEW r \in Receipt, Refunds(r),
               \A u \in User, n \in RenditionId, s \in SessionId : ~Accepts(u, n, s)
        PROVE  Cash!Next
    <3>1. Locked(r) /\ UNCHANGED <<receipt, reversed>>
      BY <2>4 DEF Refunds, Locked
    <3>2. r \in reversed /\ refund[r].source = "none" /\ Born(r)
      BY <1>a, <3>1 DEF RowsAreConnected
    <3>3. \A x \in Receipt : refund'[x] = IF x = r THEN refunding[r] ELSE refund[x]
      BY <1>a, <2>4 DEF Refunds, TypeOK
    <3>4. \A x \in Receipt : x # r => Place'[x] = Place[x]
      BY <2>4, <3>1, <3>3, PlaceStays DEF Born
    <3>5. Place'[r] = "returned"
      BY <3>1, <3>2, <3>3 DEF Place, Born, Locked
    <3>6. Place[r] \in {"collector", "branch"}
      BY <3>2, PlaceOf
    <3>7. Place' = [Place EXCEPT ![r] = "returned"]
      BY <1>b, <3>4, <3>5
    <3>8. HolderNow' = HolderNow
      BY <3>1 DEF HolderNow
    <3>9. Cash!Return(r)
      BY <2>a, <3>1, <3>2, <3>6, <3>7, <3>8 DEF Cash!Return, HolderNow, StaffNow
    <3> QED BY <3>9 DEF Cash!Next
  <2>5. ASSUME UNCHANGED <<receipt, reversed, refund>>,
               \A u \in User, n \in RenditionId, s \in SessionId : ~Accepts(u, n, s)
        PROVE  UNCHANGED Cash!vars
    BY <1>1, <2>a, <2>5 DEF Cash!vars, HolderNow, StaffNow
  <2>6. \/ UNCHANGED <<receipt, reversed, refund>>
        \/ \E u \in User, b \in Branch, r \in Receipt, amount \in Amount : CreateReceipt(u, b, r, amount)
        \/ \E u \in User, n \in RenditionId, s \in SessionId : Accepts(u, n, s)
        \/ \E r \in Receipt : ReverseField(r)
        \/ \E r \in Receipt : Refunds(r)
    BY Shapes DEF Quiet, Declares, Ends, LockReceipt, RefundAborted
  <2> QED BY <2>1, <2>2, <2>3, <2>4, <2>5, <2>6
<1> QED BY <1>2, <1>3

\* Through every order of payments, renditions, decisions, reversals and refunds, the cash of a
\* payment moves as the abstract custody allows.
THEOREM Implements == Spec => CashGoesOneWay
<1>1. Cash!Spec <=> Cash!Init /\ [][Cash!Next]_(Cash!vars)
  BY DEF Cash!Spec
<1> QED BY InitCash, NextCash, Inductive, <1>1, PTL DEF Spec, CashGoesOneWay

-----------------------------------------------------------------------------
(* What the drawers hold.                                                   *)

Worth == [r \in Receipt |-> receipt[r].amount]

AcceptedIn(s) ==
  {r \in Receipt : \E n \in RenditionId :
    Claims(n, r) /\ rendition[n].state = "accepted" /\ rendition[n].session = s}
RefundedFrom(s) == {r \in Receipt : refund[r].source = "branch_cash" /\ refund[r].session = s}

\* Rows that agree: a receipt has a branch, a rendition declares what its items are worth, and cash
\* comes only into a drawer that was opened.
RowsAgree ==
  /\ \A r \in Receipt : IF Born(r) THEN receipt[r].branch \in Branch ELSE receipt[r] = NoReceipt
  /\ \A n \in RenditionId : rendition[n].state # "none" =>
       rendition[n].amount = SumOver(Worth, rendition[n].items) /\ rendition[n].amount > 0
  /\ \A s \in SessionId : drawer[s].state = "unopened" => drawer[s].balance = 0 /\ drawer[s].other = 0

Holds(s) ==
  drawer[s].balance = drawer[s].other + SumOver(Worth, AcceptedIn(s)) - SumOver(Worth, RefundedFrom(s))
DrawersHold == \A s \in SessionId : Holds(s)

LEMMA WorthOf ==
  ASSUME TypeOK, NEW R \in SUBSET Receipt
  PROVE  /\ IsFiniteSet(R) /\ Total(R) = SumOver(Worth, R) /\ SumOver(Worth, R) \in Nat
         /\ \A r \in R : Worth[r] = receipt[r].amount /\ Worth[r] \in Nat
<1>1. IsFiniteSet(R)
  BY FieldTables, FS_Subset
<1>2. \A r \in R : Worth[r] = receipt[r].amount /\ Worth[r] \in Nat
  BY RowsOK DEF Worth
<1> HIDE DEF Worth
<1>3. MapThenSumSet(LAMBDA r : receipt[r].amount, R) = SumOver(Worth, R)
  BY <1>1, <1>2, FieldSum
<1> QED BY <1>1, <1>2, <1>3, SumIsNatural DEF Total

LEMMA ItemsBorn ==
  ASSUME IInv, NEW n \in RenditionId, NEW r \in rendition[n].items
  PROVE  Born(r) /\ r \in Receipt
<1>1. rendition[n] \in RenditionRow /\ IsConnected(rendition[n])
  BY RowsOK DEF IInv, RowsAreConnected
<1>2. rendition[n].state # "none"
  BY <1>1 DEF IsConnected, NoRendition
<1> QED BY <1>1, <1>2, FieldNone DEF IsConnected, RenditionRow, Born

LEMMA WorthStays ==
  ASSUME IInv, IInv', [Next]_vars, NEW R \in SUBSET Receipt, \A r \in R : Born(r)
  PROVE  SumOver(Worth', R) = SumOver(Worth, R)
<1>1. IsFiniteSet(R)
  BY WorthOf DEF IInv
<1>2. \A r \in R : Worth'[r] = Worth[r]
  BY BornStays DEF Worth
<1> QED BY <1>1, <1>2, SumsAgree

LEMMA SetsBorn ==
  ASSUME IInv, NEW s
  PROVE  /\ AcceptedIn(s) \in SUBSET Receipt /\ \A r \in AcceptedIn(s) : Born(r)
         /\ RefundedFrom(s) \in SUBSET Receipt /\ \A r \in RefundedFrom(s) : Born(r)
<1>1. \A r \in AcceptedIn(s) : Born(r)
  BY ItemsBorn DEF AcceptedIn, Claims
<1>2. \A r \in RefundedFrom(s) : Born(r)
  BY DEF RefundedFrom, IInv, RowsAreConnected
<1> QED BY <1>1, <1>2 DEF AcceptedIn, RefundedFrom

LEMMA AcceptedSame ==
  ASSUME TypeOK, NEW s,
         \/ UNCHANGED rendition
         \/ \E n \in RenditionId : \E row :
              /\ rendition[n].state # "accepted" /\ row.state # "accepted"
              /\ rendition' = [rendition EXCEPT ![n] = row]
  PROVE  AcceptedIn(s)' = AcceptedIn(s)
<1>1. CASE UNCHANGED rendition
  BY <1>1 DEF AcceptedIn, Claims
<1>2. ASSUME NEW n \in RenditionId, NEW row, rendition[n].state # "accepted", row.state # "accepted",
             rendition' = [rendition EXCEPT ![n] = row]
      PROVE  AcceptedIn(s)' = AcceptedIn(s)
  <2>1. \A m \in RenditionId : rendition'[m] = IF m = n THEN row ELSE rendition[m]
    BY <1>2 DEF TypeOK
  <2> QED BY <1>2, <2>1 DEF AcceptedIn, Claims
<1> QED BY <1>1, <1>2

LEMMA HoldsStill ==
  ASSUME IInv, IInv', [Next]_vars, NEW s \in SessionId, Holds(s),
         AcceptedIn(s)' = AcceptedIn(s), RefundedFrom(s)' = RefundedFrom(s),
         drawer'[s].balance - drawer'[s].other = drawer[s].balance - drawer[s].other
  PROVE  Holds(s)'
<1>1. SumOver(Worth', AcceptedIn(s)) = SumOver(Worth, AcceptedIn(s))
      /\ SumOver(Worth', RefundedFrom(s)) = SumOver(Worth, RefundedFrom(s))
  BY SetsBorn, WorthStays
<1>2. /\ SumOver(Worth, AcceptedIn(s)) \in Nat /\ SumOver(Worth, RefundedFrom(s)) \in Nat
      /\ drawer[s].balance \in Int /\ drawer[s].other \in Int
  BY SetsBorn, WorthOf, RowsOK DEF IInv
<1>3. drawer'[s].balance \in Int /\ drawer'[s].other \in Int
  BY DEF IInv, TypeOK, DrawerRow
<1>4. SumOver(Worth, AcceptedIn(s))' = SumOver(Worth, AcceptedIn(s))
      /\ SumOver(Worth, RefundedFrom(s))' = SumOver(Worth, RefundedFrom(s))
  BY <1>1
<1> DEFINE a == SumOver(Worth, AcceptedIn(s))
           f == SumOver(Worth, RefundedFrom(s))
<1>5. drawer[s].balance = drawer[s].other + a - f /\ a \in Nat /\ f \in Nat
  BY <1>2 DEF Holds
<1> HIDE DEF a, f
<1>6. drawer'[s].balance = drawer'[s].other + a - f
  BY <1>2, <1>3, <1>5
<1> QED BY <1>4, <1>6 DEF Holds, a, f

\* What a step makes of a rendition: a new one, or one with the items and the amount it had.
LEMMA RenditionSteps ==
  ASSUME IInv, [Next]_vars, NEW n \in RenditionId
  PROVE  \/ rendition'[n] = rendition[n]
         \/ /\ rendition[n].state = "none" /\ receipt' = receipt
            /\ \E R \in SUBSET Receipt : /\ rendition'[n].items = R /\ rendition'[n].amount = Total(R)
                                         /\ Total(R) \in Amount
         \/ /\ rendition[n].state = "declared"
            /\ rendition'[n].items = rendition[n].items /\ rendition'[n].amount = rendition[n].amount
<1>1. TypeOK
  BY DEF IInv
<1>2. ASSUME NEW u \in User, NEW b \in Branch, NEW R \in SUBSET Receipt, NEW m \in RenditionId,
             Declares(u, b, R, m), m = n
      PROVE  /\ rendition[n].state = "none" /\ receipt' = receipt
             /\ rendition'[n].items = R /\ rendition'[n].amount = Total(R) /\ Total(R) \in Amount
  <2>1. \A t \in Amount :
          LET row == [NoRendition EXCEPT !.state = "declared", !.custodian = u, !.branch = b,
                                         !.items = R, !.amount = t]
          IN row.items = R /\ row.amount = t
    BY DEF NoRendition
  <2>2. Declared(u, b, R).items = R /\ Declared(u, b, R).amount = Total(R)
    BY <1>2, <2>1 DEF Declares, Declared
  <2>3. rendition'[n] = Declared(u, b, R)
    BY <1>1, <1>2 DEF Declares, TypeOK
  <2> QED BY <1>2, <2>2, <2>3 DEF Declares
<1>3. ASSUME NEW u \in User, NEW m \in RenditionId, NEW row, m = n, rendition[m].state = "declared",
             rendition' = [rendition EXCEPT ![m] = row],
             \/ \E s \in SessionId : row = Kept(m, u, s)
             \/ \E state \in {"rejected", "cancelled"} : row = Released(m, state, u)
      PROVE  /\ rendition[n].state = "declared"
             /\ rendition'[n].items = rendition[n].items /\ rendition'[n].amount = rendition[n].amount
  <2>1. rendition[n] \in RenditionRow
    BY <1>1, RowsOK
  <2>2. row.items = rendition[n].items /\ row.amount = rendition[n].amount
    BY <1>3, <2>1 DEF Kept, Released, RenditionRow
  <2>3. rendition'[n] = row
    BY <1>1, <1>3 DEF TypeOK
  <2> QED BY <1>3, <2>2, <2>3
<1>4. ASSUME NEW u \in User, NEW m \in RenditionId, NEW s \in SessionId, Accepts(u, m, s), m = n
      PROVE  /\ rendition[n].state = "declared"
             /\ rendition'[n].items = rendition[n].items /\ rendition'[n].amount = rendition[n].amount
  BY <1>3, <1>4 DEF Accepts
<1>5. ASSUME NEW u \in User, NEW m \in RenditionId, NEW state \in {"rejected", "cancelled"},
             Ends(u, m, state), m = n
      PROVE  /\ rendition[n].state = "declared"
             /\ rendition'[n].items = rendition[n].items /\ rendition'[n].amount = rendition[n].amount
  BY <1>3, <1>5 DEF Ends
<1>6. \/ rendition'[n] = rendition[n]
      \/ \E u \in User, b \in Branch, R \in SUBSET Receipt, m \in RenditionId :
           Declares(u, b, R, m) /\ m = n
      \/ \E u \in User, m \in RenditionId, s \in SessionId : Accepts(u, m, s) /\ m = n
      \/ \E u \in User, m \in RenditionId, state \in {"rejected", "cancelled"} :
           Ends(u, m, state) /\ m = n
  BY <1>1, Shapes DEF Quiet, CreateReceipt, Declares, Accepts, Ends, ReverseField, LockReceipt, Refunds,
       RefundAborted, TypeOK
<1> QED BY <1>2, <1>4, <1>5, <1>6

RenditionAgrees(n) ==
  rendition[n].state # "none" =>
    rendition[n].amount = SumOver(Worth, rendition[n].items) /\ rendition[n].amount > 0

LEMMA NextRenditionAgrees ==
  ASSUME IInv, IInv', [Next]_vars, NEW n \in RenditionId, RenditionAgrees(n)
  PROVE  RenditionAgrees(n)'
<1>1. TypeOK /\ TypeOK'
  BY DEF IInv
<1>2. SumOver(Worth', rendition[n].items) = SumOver(Worth, rendition[n].items)
  BY <1>1, RowsOK, ItemsBorn, WorthStays
<1>3. CASE rendition'[n] = rendition[n]
  BY <1>2, <1>3 DEF RenditionAgrees
<1>4. ASSUME receipt' = receipt, NEW R \in SUBSET Receipt, rendition'[n].items = R,
             rendition'[n].amount = Total(R), Total(R) \in Amount
      PROVE  RenditionAgrees(n)'
  <2>1. Total(R) = SumOver(Worth, R)
    BY <1>1, WorthOf
  <2>2. Worth' = Worth
    BY <1>4 DEF Worth
  <2>3. rendition'[n].amount = SumOver(Worth', rendition'[n].items)
    BY <1>4, <2>1, <2>2
  <2>4. rendition'[n].amount > 0
    BY <1>4, FieldBound DEF Amount
  <2> QED BY <2>3, <2>4 DEF RenditionAgrees
<1>5. ASSUME rendition[n].state = "declared", rendition'[n].items = rendition[n].items,
             rendition'[n].amount = rendition[n].amount
      PROVE  RenditionAgrees(n)'
  <2>1. rendition[n].amount = SumOver(Worth, rendition[n].items) /\ rendition[n].amount > 0
    BY <1>5 DEF RenditionAgrees
  <2> QED BY <1>2, <1>5, <2>1 DEF RenditionAgrees
<1> QED BY <1>3, <1>4, <1>5, RenditionSteps

\* What a step makes of the drawer of a session that is not opened: nothing, or it opens it.
LEMMA UnopenedSteps ==
  ASSUME IInv, [Next]_vars, NEW s \in SessionId, drawer'[s].state = "unopened"
  PROVE  drawer'[s] = drawer[s]
<1>1. TypeOK
  BY DEF IInv
<1>2. ASSUME NEW q \in SessionId, NEW fund \in 0 .. MaxAmount, OpenDrawer(q, fund)
      PROVE  drawer'[s] = drawer[s]
  BY <1>1, <1>2 DEF OpenDrawer, TypeOK
<1>3. ASSUME NEW q \in SessionId, NEW row, drawer' = [drawer EXCEPT ![q] = row],
             row.state # "unopened"
      PROVE  drawer'[s] = drawer[s]
  BY <1>1, <1>3 DEF TypeOK
<1>4. ASSUME NEW q \in SessionId, CloseDrawer(q) \/ OtherWithdrawal(q)
      PROVE  drawer'[s] = drawer[s]
  <2>1. drawer[q] \in DrawerRow
    BY <1>1, RowsOK
  <2>2. CASE CloseDrawer(q)
    <3>1. drawer' = [drawer EXCEPT ![q] = [drawer[q] EXCEPT !.state = "closed"]]
      BY <2>2 DEF CloseDrawer
    <3>2. [drawer[q] EXCEPT !.state = "closed"].state # "unopened"
      BY <2>1 DEF DrawerRow
    <3> QED BY <1>3, <3>1, <3>2
  <2>3. CASE OtherWithdrawal(q)
    <3> DEFINE row == [drawer[q] EXCEPT !.balance = drawer[q].balance - 1,
                                        !.other = drawer[q].other - 1]
    <3>1. drawer' = [drawer EXCEPT ![q] = row] /\ drawer[q].state = "open"
      BY <2>3 DEF OtherWithdrawal
    <3>2. row.state # "unopened"
      BY <2>1, <3>1 DEF DrawerRow
    <3> HIDE DEF row
    <3> QED BY <1>3, <3>1, <3>2
  <2> QED BY <1>4, <2>2, <2>3
<1>5. ASSUME NEW q \in SessionId, NEW amount, drawer[q].state = "open",
             drawer' = [drawer EXCEPT ![q] = Booked(q, amount)]
      PROVE  drawer'[s] = drawer[s]
  <2>1. drawer[q] \in DrawerRow
    BY <1>1, RowsOK
  <2>2. Booked(q, amount).state # "unopened"
    BY <1>5, <2>1 DEF Booked, DrawerRow
  <2> QED BY <1>3, <1>5, <2>2
<1>6. ASSUME NEW u \in User, NEW n \in RenditionId, NEW q \in SessionId, Accept(u, n, q)
      PROVE  drawer'[s] = drawer[s]
  BY <1>5, <1>6 DEF Accept, OwnSession
<1>7. ASSUME NEW r \in Receipt, RefundFromBranch(r)
      PROVE  drawer'[s] = drawer[s]
  <2>1. CASE refunding[r].session \in SessionId
    BY <1>5, <1>7, <2>1 DEF RefundFromBranch, OwnSession
  <2>2. CASE refunding[r].session \notin SessionId
    BY <1>1, <1>7, <2>2 DEF RefundFromBranch, TypeOK
  <2> QED BY <2>1, <2>2
<1>8. \/ drawer' = drawer
      \/ \E q \in SessionId, fund \in 0 .. MaxAmount : OpenDrawer(q, fund)
      \/ \E q \in SessionId : CloseDrawer(q) \/ OtherWithdrawal(q)
      \/ \E u \in User, n \in RenditionId, q \in SessionId : Accept(u, n, q)
      \/ \E r \in Receipt : RefundFromBranch(r)
  BY DEF Next, vars, CreateReceipt, Declare, Reject, Cancel, ReverseField, LockReceipt,
       RefundFromCollector, RefundAborted, DisableUser, EnableUser
<1> QED BY <1>2, <1>4, <1>6, <1>7, <1>8

LEMMA NextRowsAgree ==
  ASSUME IInv, IInv', [Next]_vars, RowsAgree
  PROVE  RowsAgree'
<1>1. TypeOK
  BY DEF IInv
<1>2. ASSUME NEW r \in Receipt
      PROVE  IF Born(r)' THEN receipt'[r].branch \in Branch ELSE receipt'[r] = NoReceipt
  <2>1. CASE receipt'[r] = receipt[r]
    BY <2>1 DEF RowsAgree, Born
  <2>2. ASSUME NEW u \in User, NEW b \in Branch, NEW q \in Receipt, NEW amount \in Amount,
               CreateReceipt(u, b, q, amount)
        PROVE  receipt'[r] = receipt[r] \/ (Born(r)' /\ receipt'[r].branch \in Branch)
    BY <1>1, <2>2, FieldNone DEF CreateReceipt, TypeOK, Born
  <2>3. receipt'[r] = receipt[r] \/ (Born(r)' /\ receipt'[r].branch \in Branch)
    BY <2>2, Shapes DEF Quiet, Declares, Accepts, Ends, ReverseField, LockReceipt, Refunds, RefundAborted
  <2> QED BY <2>1, <2>3
<1>3. ASSUME NEW n \in RenditionId
      PROVE  RenditionAgrees(n)'
  <2>1. RenditionAgrees(n)
    BY DEF RowsAgree, RenditionAgrees
  <2> QED BY <2>1, NextRenditionAgrees
<1>4. ASSUME NEW s \in SessionId, drawer'[s].state = "unopened"
      PROVE  drawer'[s].balance = 0 /\ drawer'[s].other = 0
  BY <1>4, UnopenedSteps DEF RowsAgree
<1> QED BY <1>2, <1>3, <1>4 DEF RowsAgree, RenditionAgrees

\* What the sums of a drawer are, as numbers.
LEMMA DrawerSums ==
  ASSUME IInv, NEW s \in SessionId
  PROVE  /\ SumOver(Worth, AcceptedIn(s)) \in Nat /\ SumOver(Worth, RefundedFrom(s)) \in Nat
         /\ drawer[s].balance \in Int /\ drawer[s].other \in Int
  BY SetsBorn, WorthOf, RowsOK DEF IInv

\* The cash of an accepted rendition enters the drawer of the session it is accepted in.
LEMMA AcceptHolds ==
  ASSUME IInv, IInv', RowsAgree, [Next]_vars, NEW u \in User, NEW n \in RenditionId,
         NEW s \in SessionId, Accept(u, n, s), NEW x \in SessionId, Holds(x)
  PROVE  Holds(x)'
<1>a. TypeOK /\ ClaimedOnce /\ RowsAreConnected
  BY DEF IInv
<1> DEFINE R == rendition[n].items
<1>1. /\ rendition[n].state = "declared" /\ UNCHANGED <<receipt, refund>>
      /\ rendition' = [rendition EXCEPT ![n] = Kept(n, u, s)]
      /\ drawer' = [drawer EXCEPT ![s] = Booked(s, rendition[n].amount)]
  BY DEF Accept
<1>2. \A m \in RenditionId : rendition'[m] = IF m = n THEN Kept(n, u, s) ELSE rendition[m]
  BY <1>a, <1>1 DEF TypeOK
<1>3. /\ Kept(n, u, s).state = "accepted" /\ Kept(n, u, s).session = s /\ Kept(n, u, s).items = R
      /\ Kept(n, u, s).released = rendition[n].released
  BY <1>a, KeptFields
<1>4. R \in SUBSET Receipt /\ ~rendition[n].released
  BY <1>a, <1>1, RowsOK DEF RowsAreConnected, IsConnected
<1>5. RefundedFrom(x)' = RefundedFrom(x) /\ Worth' = Worth
  BY <1>1 DEF RefundedFrom, Worth
<1>6. CASE x # s
  <2>1. drawer'[x] = drawer[x]
    BY <1>a, <1>1, <1>6 DEF TypeOK
  <2>2. AcceptedIn(x)' = AcceptedIn(x)
    BY <1>1, <1>2, <1>3, <1>6 DEF AcceptedIn, Claims
  <2> QED BY <1>5, <2>1, <2>2, HoldsStill
<1>7. CASE x = s
  <2>1. AcceptedIn(s)' = AcceptedIn(s) \cup R
    <3>1. \A r \in Receipt : r \in AcceptedIn(s)' <=> r \in AcceptedIn(s) \/ r \in R
      BY <1>1, <1>2, <1>3, <1>4 DEF AcceptedIn, Claims
    <3>2. AcceptedIn(s)' \subseteq Receipt /\ AcceptedIn(s) \subseteq Receipt
      BY DEF AcceptedIn
    <3> QED BY <1>4, <3>1, <3>2
  <2>2. AcceptedIn(s) \cap R = {}
    BY <1>a, <1>1, <1>4 DEF AcceptedIn, Claims, ClaimedOnce
  <2>3. /\ IsFiniteSet(R) /\ IsFiniteSet(AcceptedIn(s))
        /\ SumOver(Worth, R) \in Nat
        /\ \A r \in AcceptedIn(s) \cup R : Worth[r] \in Int
    BY <1>a, <1>4, SetsBorn, WorthOf
  <2> HIDE DEF R
  <2>4. SumOver(Worth, AcceptedIn(s) \cup R) = SumOver(Worth, AcceptedIn(s)) + SumOver(Worth, R)
    BY <2>2, <2>3, SumOfDisjoint
  <2>5. rendition[n].amount = SumOver(Worth, R) /\ rendition[n].amount \in Nat
    BY <1>a, <1>1, RowsOK DEF RowsAgree, R
  <2>6. drawer'[s].balance = drawer[s].balance + rendition[n].amount /\ drawer'[s].other = drawer[s].other
    <3>1. drawer'[s] = Booked(s, rendition[n].amount)
      BY <1>a, <1>1 DEF TypeOK
    <3>2. drawer[s] \in DrawerRow
      BY <1>a, RowsOK
    <3>3. Booked(s, rendition[n].amount).other = drawer[s].other
      BY <3>2 DEF Booked, DrawerRow
    <3> QED BY <1>a, <2>5, <3>1, <3>3, BookedOK
  <2>7. SumOver(Worth, AcceptedIn(s))' = SumOver(Worth, AcceptedIn(s)) + SumOver(Worth, R)
    BY <1>5, <2>1, <2>4
  <2>8. SumOver(Worth, RefundedFrom(s))' = SumOver(Worth, RefundedFrom(s))
    BY <1>5, <1>7
  <2>9. drawer[s].balance = drawer[s].other + SumOver(Worth, AcceptedIn(s)) - SumOver(Worth, RefundedFrom(s))
    BY <1>7 DEF Holds
  <2>10. drawer'[s].balance =
           drawer'[s].other + (SumOver(Worth, AcceptedIn(s)) + SumOver(Worth, R))
             - SumOver(Worth, RefundedFrom(s))
    <3> DEFINE a == SumOver(Worth, AcceptedIn(s))
               f == SumOver(Worth, RefundedFrom(s))
               t == SumOver(Worth, R)
    <3>1. a \in Nat /\ f \in Nat /\ drawer[s].balance \in Int /\ drawer[s].other \in Int /\ t \in Nat
      BY <2>3, DrawerSums
    <3>2. drawer[s].balance = drawer[s].other + a - f /\ rendition[n].amount = t
      BY <2>5, <2>9
    <3> HIDE DEF a, f, t
    <3>3. drawer'[s].balance = drawer'[s].other + (a + t) - f
      BY <2>6, <3>1, <3>2
    <3> QED BY <3>3 DEF a, f, t
  <2> QED BY <1>7, <2>7, <2>8, <2>10 DEF Holds
<1> QED BY <1>6, <1>7

\* A refund from branch cash takes the payment out of the drawer of the session it names.
LEMMA RefundHolds ==
  ASSUME IInv, IInv', [Next]_vars, NEW r \in Receipt, RefundFromBranch(r),
         NEW x \in SessionId, Holds(x)
  PROVE  Holds(x)'
<1>a. TypeOK /\ RowsAreConnected
  BY DEF IInv
<1> DEFINE s == refunding[r].session
           t == receipt[r].amount
<1>1. /\ refunding[r].source = "branch_cash" /\ UNCHANGED <<receipt, rendition>>
      /\ refund' = [refund EXCEPT ![r] = refunding[r]]
      /\ drawer' = [drawer EXCEPT ![s] = Booked(s, -t)]
  BY DEF RefundFromBranch
<1>2. refund[r].source = "none" /\ refunding[r] \in RefundRow /\ s \in SessionId
  <2>1. refund[r].source = "none"
    BY <1>a, <1>1 DEF RowsAreConnected, Locked
  <2>2. refunding[r] \in RefundRow
    BY <1>a, RowsOK
  <2>3. s # None
    BY <1>a, <1>1 DEF RowsAreConnected
  <2> QED BY <2>1, <2>2, <2>3 DEF RefundRow
<1>3. \A q \in Receipt : refund'[q] = IF q = r THEN refunding[r] ELSE refund[q]
  BY <1>a, <1>1 DEF TypeOK
<1>4. AcceptedIn(x)' = AcceptedIn(x) /\ Worth' = Worth
  BY <1>1 DEF AcceptedIn, Claims, Worth
<1>5. t \in Nat /\ drawer[s] \in DrawerRow /\ Worth[r] = t
  BY <1>a, <1>2, RowsOK DEF Worth
<1> HIDE DEF s, t
<1>6. CASE x # s
  <2>1. drawer'[x] = drawer[x]
    BY <1>a, <1>1, <1>6 DEF TypeOK
  <2>2. RefundedFrom(x)' = RefundedFrom(x)
    BY <1>2, <1>3, <1>6 DEF RefundedFrom, s
  <2> QED BY <1>4, <2>1, <2>2, HoldsStill
<1>7. CASE x = s
  <2>1. RefundedFrom(x)' = RefundedFrom(x) \cup {r}
    BY <1>1, <1>2, <1>3, <1>7 DEF RefundedFrom, s
  <2>2. r \notin RefundedFrom(x)
    BY <1>2 DEF RefundedFrom
  <2>3. IsFiniteSet(RefundedFrom(x)) /\ \A q \in RefundedFrom(x) \cup {r} : Worth[q] \in Int
    <3>1. IsFiniteSet(RefundedFrom(x)) /\ \A q \in RefundedFrom(x) : Worth[q] \in Nat
      BY <1>a, SetsBorn, WorthOf
    <3> QED BY <1>5, <3>1
  <2>4. SumOver(Worth, RefundedFrom(x) \cup {r}) = Worth[r] + SumOver(Worth, RefundedFrom(x))
    BY <2>2, <2>3, SumOfOneMore
  <2>5. drawer'[x].balance = drawer[x].balance - t /\ drawer'[x].other = drawer[x].other
    <3>1. drawer'[x] = Booked(x, -t)
      BY <1>a, <1>1, <1>7 DEF TypeOK
    <3>2. Booked(x, -t).other = drawer[x].other
      BY <1>5, <1>7 DEF Booked, DrawerRow
    <3>3. Booked(x, -t).balance = drawer[x].balance + (-t)
      BY <1>a, <1>5, BookedOK
    <3> QED BY <1>5, <1>7, <3>1, <3>2, <3>3, DrawerSums
  <2>6. SumOver(Worth, RefundedFrom(x))' = t + SumOver(Worth, RefundedFrom(x))
    BY <1>4, <1>5, <2>1, <2>4
  <2>7. SumOver(Worth, AcceptedIn(x))' = SumOver(Worth, AcceptedIn(x))
    BY <1>4
  <2>8. drawer'[x].balance =
          drawer'[x].other + SumOver(Worth, AcceptedIn(x)) - (t + SumOver(Worth, RefundedFrom(x)))
    <3> DEFINE a == SumOver(Worth, AcceptedIn(x))
               f == SumOver(Worth, RefundedFrom(x))
    <3>1. a \in Nat /\ f \in Nat /\ drawer[x].balance \in Int /\ drawer[x].other \in Int
      BY DrawerSums
    <3>2. drawer[x].balance = drawer[x].other + a - f
      BY DEF Holds
    <3> HIDE DEF a, f
    <3>3. drawer'[x].balance = drawer'[x].other + a - (t + f)
      BY <1>5, <2>5, <3>1, <3>2
    <3> QED BY <3>3 DEF a, f
  <2> QED BY <2>6, <2>7, <2>8 DEF Holds
<1> QED BY <1>6, <1>7

\* A session opened or closed, and every movement of another kind.
LEMMA OtherHolds ==
  ASSUME IInv, IInv', RowsAgree, [Next]_vars, NEW s \in SessionId,
         \/ \E fund \in 0 .. MaxAmount : OpenDrawer(s, fund)
         \/ CloseDrawer(s)
         \/ OtherWithdrawal(s),
         NEW x \in SessionId, Holds(x)
  PROVE  Holds(x)'
<1>a. TypeOK
  BY DEF IInv
<1>1. UNCHANGED <<receipt, rendition, refund>>
  BY DEF OpenDrawer, CloseDrawer, OtherWithdrawal
<1>2. AcceptedIn(x)' = AcceptedIn(x) /\ RefundedFrom(x)' = RefundedFrom(x)
  BY <1>1 DEF AcceptedIn, RefundedFrom, Claims
<1>b. drawer[x] \in DrawerRow /\ drawer[x].balance \in Int /\ drawer[x].other \in Int
  BY <1>a, RowsOK DEF DrawerRow
<1>3. ASSUME NEW fund \in 0 .. MaxAmount, OpenDrawer(s, fund), x = s
      PROVE  drawer'[x].balance - drawer'[x].other = drawer[x].balance - drawer[x].other
  <2>1. drawer'[x] = [state |-> "open", balance |-> fund, other |-> fund]
    BY <1>a, <1>3 DEF OpenDrawer, TypeOK
  <2>2. drawer[x].balance = 0 /\ drawer[x].other = 0
    BY <1>3 DEF OpenDrawer, RowsAgree
  <2> QED BY <2>1, <2>2, FieldBound
<1>4. ASSUME CloseDrawer(s), x = s
      PROVE  drawer'[x].balance - drawer'[x].other = drawer[x].balance - drawer[x].other
  <2>1. drawer'[x] = [drawer[x] EXCEPT !.state = "closed"]
    BY <1>a, <1>4 DEF CloseDrawer, TypeOK
  <2> QED BY <1>b, <2>1 DEF DrawerRow
<1>5. ASSUME OtherWithdrawal(s), x = s
      PROVE  drawer'[x].balance - drawer'[x].other = drawer[x].balance - drawer[x].other
  <2>1. drawer'[x] = [drawer[x] EXCEPT !.balance = drawer[x].balance - 1, !.other = drawer[x].other - 1]
    BY <1>a, <1>5 DEF OtherWithdrawal, TypeOK
  <2>2. \A d \in DrawerRow, b \in Int, o \in Int :
          /\ [d EXCEPT !.balance = b, !.other = o].balance = b
          /\ [d EXCEPT !.balance = b, !.other = o].other = o
    BY DEF DrawerRow
  <2>3. drawer'[x].balance = drawer[x].balance - 1 /\ drawer'[x].other = drawer[x].other - 1
    <3> DEFINE b == drawer[x].balance - 1
               o == drawer[x].other - 1
    <3>1. b \in Int /\ o \in Int
      BY <1>b
    <3>2. drawer'[x] = [drawer[x] EXCEPT !.balance = b, !.other = o]
      BY <2>1
    <3> HIDE DEF b, o
    <3>3. drawer'[x].balance = b /\ drawer'[x].other = o
      BY <1>b, <2>2, <3>1, <3>2
    <3> QED BY <3>3 DEF b, o
  <2> QED BY <1>b, <2>3
<1>6. ASSUME x # s
      PROVE  drawer'[x].balance - drawer'[x].other = drawer[x].balance - drawer[x].other
  BY <1>a, <1>6 DEF OpenDrawer, CloseDrawer, OtherWithdrawal, TypeOK
<1>7. drawer'[x].balance - drawer'[x].other = drawer[x].balance - drawer[x].other
  BY <1>3, <1>4, <1>5, <1>6
<1> QED BY <1>2, <1>7, HoldsStill

LEMMA NextDrawersHold ==
  ASSUME IInv, IInv', RowsAgree, DrawersHold, [Next]_vars
  PROVE  DrawersHold'
<1> SUFFICES ASSUME NEW x \in SessionId PROVE Holds(x)'
  BY DEF DrawersHold
<1>a. TypeOK /\ RowsAreConnected /\ Holds(x)
  BY DEF IInv, DrawersHold
<1>1. ASSUME drawer' = drawer,
             \/ UNCHANGED rendition
             \/ \E n \in RenditionId : \E row :
                  /\ rendition[n].state # "accepted" /\ row.state # "accepted"
                  /\ rendition' = [rendition EXCEPT ![n] = row],
             RefundedFrom(x)' = RefundedFrom(x)
      PROVE  Holds(x)'
  <2>1. AcceptedIn(x)' = AcceptedIn(x)
    BY <1>a, <1>1, AcceptedSame
  <2> QED BY <1>a, <1>1, <2>1, HoldsStill
<1>2. ASSUME UNCHANGED <<drawer, rendition, refund>>
      PROVE  Holds(x)'
  BY <1>1, <1>2 DEF RefundedFrom
<1>3. ASSUME NEW u \in User, NEW b \in Branch, NEW R \in SUBSET Receipt, Declare(u, b, R)
      PROVE  Holds(x)'
  <2>1. \A n \in RenditionId : Declared(u, b, R).state # "accepted"
    BY <1>3, DeclaredFields DEF Declare
  <2>2. PICK n \in RenditionId : /\ rendition[n].state = "none"
                                 /\ rendition' = [rendition EXCEPT ![n] = Declared(u, b, R)]
    BY <1>3 DEF Declare
  <2>3. drawer' = drawer /\ RefundedFrom(x)' = RefundedFrom(x)
    BY <1>3 DEF Declare, RefundedFrom
  <2>4. rendition[n].state # "accepted" /\ Declared(u, b, R).state # "accepted"
    BY <2>1, <2>2
  <2> QED BY <1>1, <2>2, <2>3, <2>4
<1>4. ASSUME NEW u \in User, NEW n \in RenditionId, Reject(u, n) \/ Cancel(u, n)
      PROVE  Holds(x)'
  <2>1. PICK state \in {"rejected", "cancelled"} :
          rendition' = [rendition EXCEPT ![n] = Released(n, state, u)]
    BY <1>4 DEF Reject, Cancel
  <2>2. Released(n, state, u).state # "accepted" /\ rendition[n].state # "accepted"
    BY <1>a, <1>4, ReleasedFields DEF Reject, Cancel
  <2>3. drawer' = drawer /\ RefundedFrom(x)' = RefundedFrom(x)
    BY <1>4 DEF Reject, Cancel, RefundedFrom
  <2> QED BY <1>1, <2>1, <2>2, <2>3
<1>5. ASSUME NEW r \in Receipt, RefundFromCollector(r)
      PROVE  Holds(x)'
  <2>1. refund[r].source = "none" /\ refunding[r].source = "collector"
    BY <1>a, <1>5 DEF RefundFromCollector, RowsAreConnected, Locked
  <2>2. \A q \in Receipt : refund'[q] = IF q = r THEN refunding[r] ELSE refund[q]
    BY <1>a, <1>5 DEF RefundFromCollector, TypeOK
  <2>3. RefundedFrom(x)' = RefundedFrom(x)
    BY <2>1, <2>2 DEF RefundedFrom
  <2> QED BY <1>1, <1>5, <2>3 DEF RefundFromCollector
<1>6. \/ UNCHANGED <<drawer, rendition, refund>>
      \/ \E u \in User, b \in Branch, R \in SUBSET Receipt : Declare(u, b, R)
      \/ \E u \in User, n \in RenditionId, s \in SessionId : Accept(u, n, s)
      \/ \E u \in User, n \in RenditionId : Reject(u, n) \/ Cancel(u, n)
      \/ \E r \in Receipt : RefundFromCollector(r)
      \/ \E r \in Receipt : RefundFromBranch(r)
      \/ \E s \in SessionId : \/ \E fund \in 0 .. MaxAmount : OpenDrawer(s, fund)
                              \/ CloseDrawer(s)
                              \/ OtherWithdrawal(s)
  BY DEF Next, vars, CreateReceipt, ReverseField, LockReceipt, RefundAborted, DisableUser, EnableUser
<1> QED BY <1>a, <1>2, <1>3, <1>4, <1>5, <1>6, AcceptHolds, RefundHolds, OtherHolds

LEMMA InitDrawersHold == Init => RowsAgree /\ DrawersHold
<1> SUFFICES ASSUME Init PROVE RowsAgree /\ DrawersHold
  OBVIOUS
<1>1. RowsAgree
  BY DEF Init, RowsAgree, Born, NoReceipt, NoRendition
<1>2. ASSUME NEW s \in SessionId
      PROVE  Holds(s)
  <2>1. AcceptedIn(s) = {} /\ RefundedFrom(s) = {}
    BY DEF Init, AcceptedIn, RefundedFrom, NoRendition, NoRefund
  <2>2. SumOver(Worth, AcceptedIn(s)) = 0 /\ SumOver(Worth, RefundedFrom(s)) = 0
    BY <2>1, SumOfNone
  <2>3. drawer[s].balance = 0 /\ drawer[s].other = 0
    BY DEF Init
  <2> QED BY <2>2, <2>3 DEF Holds
<1> QED BY <1>1, <1>2 DEF DrawersHold

LEMMA BackingInductive == Spec => [](IInv /\ RowsAgree /\ DrawersHold)
<1>1. Init => IInv /\ RowsAgree /\ DrawersHold
  BY InitIInv, InitDrawersHold
<1>2. IInv /\ RowsAgree /\ DrawersHold /\ [Next]_vars => (IInv /\ RowsAgree /\ DrawersHold)'
  BY NextIInv, NextRowsAgree, NextDrawersHold
<1> QED BY <1>1, <1>2, PTL DEF Spec

LEMMA DrawersPart ==
  ASSUME IInv, DrawersHold
  PROVE  DrawersHoldTheirPayments
<1> SUFFICES ASSUME NEW s \in SessionId
             PROVE  drawer[s].balance = drawer[s].other + Total(AcceptedIn(s)) - Total(RefundedFrom(s))
  BY DEF DrawersHoldTheirPayments, AcceptedIn, RefundedFrom
<1>1. Total(AcceptedIn(s)) = SumOver(Worth, AcceptedIn(s))
      /\ Total(RefundedFrom(s)) = SumOver(Worth, RefundedFrom(s))
  BY SetsBorn, WorthOf DEF IInv
<1> QED BY <1>1 DEF DrawersHold, Holds

-----------------------------------------------------------------------------
(* What the reports add up to.                                              *)

Outstanding(u, b) == {r \in ListCustody(b) : receipt[r].custodian = u}
Pending(u, b) == {r \in Outstanding(u, b) : LiveIn(r, "declared")}
DeclaredBy(u, b) ==
  {n \in RenditionId : rendition[n].state = "declared" /\ rendition[n].custodian = u
                       /\ rendition[n].branch = b}

LEMMA SummaryOf ==
  ASSUME TypeOK, NEW u, NEW b
  PROVE  /\ Outstanding(u, b) \in SUBSET Receipt /\ Pending(u, b) \in SUBSET Receipt
         /\ CustodySummary(u, b).receipts = Cardinality(Outstanding(u, b))
         /\ CustodySummary(u, b).amount = SumOver(Worth, Outstanding(u, b))
         /\ CustodySummary(u, b).pendingAmount = SumOver(Worth, Pending(u, b))
<1>1. Outstanding(u, b) \in SUBSET Receipt /\ Pending(u, b) \in SUBSET Receipt
  BY DEF Outstanding, Pending, ListCustody
<1>2. CustodySummary(u, b) =
        [receipts |-> Cardinality(Outstanding(u, b)), amount |-> Total(Outstanding(u, b)),
         pendingReceipts |-> Cardinality(Pending(u, b)), pendingAmount |-> Total(Pending(u, b))]
  BY DEF CustodySummary, Outstanding, Pending
<1>3. Total(Outstanding(u, b)) = SumOver(Worth, Outstanding(u, b))
      /\ Total(Pending(u, b)) = SumOver(Worth, Pending(u, b))
  BY <1>1, WorthOf
<1> QED BY <1>1, <1>2, <1>3

\* The state of each payment and the list tell of the same cash.
LEMMA TrackingAgrees ==
  ASSUME NEW r \in Receipt
  PROVE  /\ r \in ListCustody(receipt[r].branch) <=>
              TrackingStatus[PhysicalState(r)] \in {"outstanding", "pending_rendition"}
         /\ RefundPending(r) => TrackingStatus[PhysicalState(r)] # "refunded"
<1> DEFINE listed == ~LiveIn(r, "accepted") /\ ~CollectorRefunded(r)
<1>1. r \in ListCustody(receipt[r].branch) <=> listed
  BY DEF ListCustody
<1>2. /\ TrackingStatus["refunded_from_collector"] = "refunded"
      /\ TrackingStatus["collector_custody"] = "outstanding"
      /\ TrackingStatus["rendition_declared"] = "pending_rendition"
      /\ TrackingStatus["branch_cash"] = "rendered"
      /\ TrackingStatus["refunded_from_branch"] = "rendered"
  BY DEF TrackingStatus
<1>3. CASE CollectorRefunded(r)
  <2>1. PhysicalState(r) = "refunded_from_collector" /\ ~listed /\ ~RefundPending(r)
    BY <1>3 DEF PhysicalState, RefundPending, CollectorRefunded
  <2> QED BY <1>1, <1>2, <2>1
<1>4. CASE ~CollectorRefunded(r) /\ LiveIn(r, "accepted")
  <2>1. PhysicalState(r) \in {"branch_cash", "refunded_from_branch"} /\ ~listed
    BY <1>4 DEF PhysicalState, LiveIn
  <2> QED BY <1>1, <1>2, <2>1
<1>5. CASE listed
  <2>1. PhysicalState(r) \in {"collector_custody", "rendition_declared"}
    BY <1>5 DEF PhysicalState
  <2> QED BY <1>1, <1>2, <1>5, <2>1
<1> QED BY <1>3, <1>4, <1>5

\* Who may leave is who has nothing in a summary.
LEMMA SummaryNames ==
  ASSUME IInv, RowsAgree, NEW u \in User
  PROVE  HasOpenCustody(u) <=> \E b \in Branch : CustodySummary(u, b).receipts > 0
<1>a. TypeOK
  BY DEF IInv
<1>1. \A b \in Branch : CustodySummary(u, b).receipts > 0 <=> Outstanding(u, b) # {}
  <2> SUFFICES ASSUME NEW b \in Branch
               PROVE  CustodySummary(u, b).receipts > 0 <=> Outstanding(u, b) # {}
    OBVIOUS
  <2>1. IsFiniteSet(Outstanding(u, b))
    BY <1>a, SummaryOf, WorthOf
  <2>2. Cardinality(Outstanding(u, b)) \in Nat
        /\ (Cardinality(Outstanding(u, b)) = 0 <=> Outstanding(u, b) = {})
    BY <2>1, FS_CardinalityType, FS_EmptySet
  <2> QED BY <1>a, <2>2, SummaryOf
<1>2. ASSUME NEW r \in Receipt, receipt[r].custodian = u, ~LiveIn(r, "accepted"), ~CollectorRefunded(r)
      PROVE  \E b \in Branch : Outstanding(u, b) # {}
  <2>1. receipt[r].branch \in Branch
    BY <1>2, FieldNone DEF RowsAgree, Born
  <2>2. r \in Outstanding(u, receipt[r].branch)
    BY <1>2 DEF Outstanding, ListCustody
  <2> QED BY <2>1, <2>2
<1>3. ASSUME NEW n \in RenditionId, rendition[n].state = "declared", rendition[n].custodian = u
      PROVE  \E b \in Branch : Outstanding(u, b) # {}
  <2>1. rendition[n].items # {}
    <3>1. rendition[n].amount = SumOver(Worth, rendition[n].items) /\ rendition[n].amount > 0
      BY <1>3 DEF RowsAgree
    <3> SUFFICES ASSUME rendition[n].items = {} PROVE FALSE
      OBVIOUS
    <3>2. rendition[n].amount = 0
      BY <3>1, SumOfNone
    <3> QED BY <3>1, <3>2
  <2>2. PICK r \in rendition[n].items : TRUE
    BY <2>1
  <2>3. r \in Receipt /\ receipt[r].custodian = u /\ refund[r].source = "none" /\ ~LiveIn(r, "accepted")
    BY <1>3, <2>2, WaitingCash
  <2> QED BY <1>2, <2>3 DEF CollectorRefunded
<1>4. ASSUME NEW b \in Branch, NEW r \in Outstanding(u, b)
      PROVE  HasOpenCustody(u)
  BY <1>4 DEF Outstanding, ListCustody, HasOpenCustody
<1> QED BY <1>1, <1>2, <1>3, <1>4 DEF HasOpenCustody

\* What is pending is what the renditions declare.
LEMMA PendingIsDeclared ==
  ASSUME IInv, RowsAgree, NEW u \in User, NEW b \in Branch
  PROVE  CustodySummary(u, b).pendingAmount =
           MapThenSumSet(LAMBDA n : rendition[n].amount, DeclaredBy(u, b))
<1>a. TypeOK /\ ClaimedOnce /\ RowsAreConnected
  BY DEF IInv
<1> DEFINE S == Pending(u, b)
           C == DeclaredBy(u, b)
           class == [r \in S |-> CHOOSE n \in C : r \in rendition[n].items]
           total == [n \in C |-> rendition[n].amount]
<1>1. \A r \in S : \E n \in C : r \in rendition[n].items
  <2> SUFFICES ASSUME NEW r \in S PROVE \E n \in C : r \in rendition[n].items
    OBVIOUS
  <2>1. receipt[r].custodian = u /\ receipt[r].branch = b /\ LiveIn(r, "declared")
    BY DEF Pending, Outstanding, ListCustody
  <2>2. PICK n \in RenditionId : Claims(n, r) /\ rendition[n].state = "declared"
    BY <2>1 DEF LiveIn
  <2>3. IsConnected(rendition[n])
    BY <1>a DEF RowsAreConnected
  <2>4. rendition[n].custodian = u /\ rendition[n].branch = b /\ r \in rendition[n].items
    BY <2>1, <2>2, <2>3 DEF IsConnected, Claims
  <2> QED BY <2>2, <2>4 DEF DeclaredBy
<1>2. \A n \in C : \A r \in rendition[n].items : r \in S /\ Claims(n, r)
  <2> SUFFICES ASSUME NEW n \in C, NEW r \in rendition[n].items PROVE r \in S /\ Claims(n, r)
    OBVIOUS
  <2>1. /\ n \in RenditionId /\ rendition[n].state = "declared" /\ rendition[n].custodian = u
        /\ rendition[n].branch = b
    BY DEF DeclaredBy
  <2>2. IsConnected(rendition[n])
    BY <1>a, <2>1 DEF RowsAreConnected
  <2>3. receipt[r].branch = b /\ Claims(n, r)
    BY <2>1, <2>2 DEF IsConnected, Claims
  <2>4. r \in Receipt /\ receipt[r].custodian = u /\ refund[r].source = "none" /\ ~LiveIn(r, "accepted")
    BY <2>1, WaitingCash
  <2> QED BY <2>1, <2>3, <2>4 DEF Pending, Outstanding, ListCustody, LiveIn, CollectorRefunded
<1>3. \A n \in C : total[n] = SumOver(Worth, rendition[n].items)
  BY DEF RowsAgree, DeclaredBy
<1>4. S \in SUBSET Receipt /\ IsFiniteSet(S) /\ \A r \in S : Worth[r] \in Int
  BY <1>a, SummaryOf, WorthOf
<1>5. IsFiniteSet(C) /\ C \subseteq RenditionId
  BY FieldTables, FS_Subset DEF DeclaredBy
<1>6. CustodySummary(u, b).pendingAmount = SumOver(Worth, S)
  BY <1>a, SummaryOf
<1>7. \A n \in C : total[n] = rendition[n].amount
  OBVIOUS
<1>8. \A r \in S : class[r] \in C /\ r \in rendition[class[r]].items
  BY <1>1
<1> HIDE DEF S, C, class, total
<1>9. \A n \in C : {r \in S : class[r] = n} = rendition[n].items
  <2> SUFFICES ASSUME NEW n \in C PROVE {r \in S : class[r] = n} = rendition[n].items
    OBVIOUS
  <2>1. ASSUME NEW r \in rendition[n].items
        PROVE  r \in S /\ class[r] = n
    <3>1. r \in S /\ Claims(n, r) /\ class[r] \in C /\ r \in rendition[class[r]].items
      BY <1>2, <1>8
    <3>2. Claims(class[r], r)
      BY <1>2, <3>1
    <3>3. class[r] \in RenditionId /\ n \in RenditionId /\ r \in Receipt
      BY <1>4, <1>5, <3>1
    <3> QED BY <1>a, <3>1, <3>2, <3>3 DEF ClaimedOnce
  <2> QED BY <1>8, <2>1
<1>10. \A n \in C : total[n] = SumOver(Worth, {r \in S : class[r] = n})
  BY <1>3, <1>9
<1>11. SumOver(total, C) = SumOver(Worth, S)
  <2>1. \A r \in S : class[r] \in C
    BY <1>8
  <2>2. IsFiniteSet(S) /\ IsFiniteSet(C)
    BY <1>4, <1>5
  <2>3. \A r \in S : Worth[r] \in Int
    BY <1>4
  <2>4. TotalsByClass(total, Worth, S, class, C)
    BY <1>10, <2>1 DEF TotalsByClass
  <2> QED BY <2>2, <2>3, <2>4, SumByClass
<1>12. MapThenSumSet(LAMBDA n : rendition[n].amount, C) = SumOver(total, C)
  BY <1>5, <1>7, FieldSum
<1> QED BY <1>6, <1>11, <1>12 DEF C

\* The cash of the payments of one branch: in a drawer, handed back by its collector, refunded from
\* a drawer.
Received(b) == {r \in Receipt : receipt[r].branch = b}
Taken(b) == {r \in Received(b) : LiveIn(r, "accepted")}
HandedBack(b) == {r \in Received(b) : CollectorRefunded(r)}
PaidBack(b) == {r \in Received(b) : refund[r].source = "branch_cash"}
SessionsOf(b) == {s \in SessionId : branchOf[s] = b}

LEMMA BranchSets ==
  ASSUME IInv, NEW b \in Branch
  PROVE  /\ ListCustody(b) \in SUBSET Receipt /\ Taken(b) \in SUBSET Receipt
         /\ HandedBack(b) \in SUBSET Receipt /\ PaidBack(b) \in SUBSET Receipt
         /\ Received(b) = (ListCustody(b) \cup Taken(b)) \cup HandedBack(b)
         /\ ListCustody(b) \cap Taken(b) = {}
         /\ (ListCustody(b) \cup Taken(b)) \cap HandedBack(b) = {}
         /\ {r \in Received(b) : refund[r].source # "none"} = HandedBack(b) \cup PaidBack(b)
         /\ HandedBack(b) \cap PaidBack(b) = {}
<1>1. \A r \in Receipt : refund[r].source \in {"none", "collector", "branch_cash"}
  BY RowsOK DEF IInv, RefundRow
<1>2. \A r \in Receipt : CollectorRefunded(r) => ~LiveIn(r, "accepted")
  BY DEF IInv, OneWayOut, CollectorRefunded, LiveIn
<1>3. /\ ListCustody(b) \in SUBSET Receipt /\ Taken(b) \in SUBSET Receipt
      /\ HandedBack(b) \in SUBSET Receipt /\ PaidBack(b) \in SUBSET Receipt
  BY DEF ListCustody, Taken, HandedBack, PaidBack, Received
<1>4. /\ Received(b) = (ListCustody(b) \cup Taken(b)) \cup HandedBack(b)
      /\ ListCustody(b) \cap Taken(b) = {}
      /\ (ListCustody(b) \cup Taken(b)) \cap HandedBack(b) = {}
  BY <1>2 DEF ListCustody, Taken, HandedBack, Received
<1>5. /\ {r \in Received(b) : refund[r].source # "none"} = HandedBack(b) \cup PaidBack(b)
      /\ HandedBack(b) \cap PaidBack(b) = {}
  BY <1>1 DEF HandedBack, PaidBack, Received, CollectorRefunded
<1> QED BY <1>3, <1>4, <1>5

LEMMA BranchSums ==
  ASSUME IInv, NEW b \in Branch
  PROVE  /\ SumOver(Worth, Received(b)) =
              SumOver(Worth, ListCustody(b)) + SumOver(Worth, Taken(b)) + SumOver(Worth, HandedBack(b))
         /\ SumOver(Worth, {r \in Received(b) : refund[r].source # "none"}) =
              SumOver(Worth, HandedBack(b)) + SumOver(Worth, PaidBack(b))
<1>1. \A R \in SUBSET Receipt : IsFiniteSet(R) /\ \A r \in R : Worth[r] \in Int
  <2> SUFFICES ASSUME NEW R \in SUBSET Receipt
               PROVE  IsFiniteSet(R) /\ \A r \in R : Worth[r] \in Int
    OBVIOUS
  <2>1. IsFiniteSet(R) /\ \A r \in R : Worth[r] \in Nat
    BY WorthOf DEF IInv
  <2> QED BY <2>1
<1> DEFINE L == ListCustody(b)
           A == Taken(b)
           H == HandedBack(b)
           P == PaidBack(b)
<1>2. /\ IsFiniteSet(L) /\ IsFiniteSet(A) /\ IsFiniteSet(H) /\ IsFiniteSet(P) /\ IsFiniteSet(L \cup A)
      /\ (\A r \in L \cup A : Worth[r] \in Int) /\ (\A r \in (L \cup A) \cup H : Worth[r] \in Int)
      /\ \A r \in H \cup P : Worth[r] \in Int
  BY <1>1, BranchSets
<1>3. L \cap A = {} /\ (L \cup A) \cap H = {} /\ H \cap P = {}
  BY BranchSets
<1>4. Received(b) = (L \cup A) \cup H
  BY BranchSets
<1>5. {r \in Received(b) : refund[r].source # "none"} = H \cup P
  BY BranchSets
<1> HIDE DEF L, A, H, P
<1>6. SumOver(Worth, L \cup A) = SumOver(Worth, L) + SumOver(Worth, A)
  BY <1>2, <1>3, SumOfDisjoint
<1>7. SumOver(Worth, (L \cup A) \cup H) = SumOver(Worth, L \cup A) + SumOver(Worth, H)
  BY <1>2, <1>3, SumOfDisjoint
<1>8. SumOver(Worth, H \cup P) = SumOver(Worth, H) + SumOver(Worth, P)
  BY <1>2, <1>3, SumOfDisjoint
<1>9. SumOver(Worth, Received(b)) = SumOver(Worth, L) + SumOver(Worth, A) + SumOver(Worth, H)
  BY <1>4, <1>6, <1>7
<1>10. SumOver(Worth, {r \in Received(b) : refund[r].source # "none"})
         = SumOver(Worth, H) + SumOver(Worth, P)
  BY <1>5, <1>8
<1> QED BY <1>9, <1>10 DEF L, A, H, P

\* What the summaries of a branch add up to is what its list holds.
LEMMA SummariesAddUp ==
  ASSUME IInv, RowsAgree, NEW b \in Branch
  PROVE  MapThenSumSet(LAMBDA u : CustodySummary(u, b).amount, User) = SumOver(Worth, ListCustody(b))
<1>a. TypeOK
  BY DEF IInv
<1> DEFINE S == ListCustody(b)
           class == [r \in S |-> receipt[r].custodian]
           total == [u \in User |-> CustodySummary(u, b).amount]
<1>1. S \in SUBSET Receipt /\ IsFiniteSet(S) /\ IsFiniteSet(User) /\ \A r \in S : Worth[r] \in Int
  BY <1>a, WorthOf, FieldTables DEF ListCustody
<1>2. \A r \in S : class[r] \in User
  <2> SUFFICES ASSUME NEW r \in S PROVE receipt[r].custodian \in User
    OBVIOUS
  <2>1. r \in Receipt /\ receipt[r].branch = b /\ receipt[r] \in ReceiptRow
    BY <1>a, RowsOK DEF ListCustody
  <2>2. Born(r)
    BY <2>1, FieldNone DEF RowsAgree, NoReceipt
  <2> QED BY <2>1, <2>2 DEF ReceiptRow, Born
<1>3. \A u \in User : total[u] = SumOver(Worth, {r \in S : class[r] = u})
  <2> SUFFICES ASSUME NEW u \in User
               PROVE  CustodySummary(u, b).amount = SumOver(Worth, {r \in S : class[r] = u})
    OBVIOUS
  <2>1. {r \in S : class[r] = u} = Outstanding(u, b)
    BY DEF Outstanding
  <2> HIDE DEF S, class
  <2> QED BY <1>a, <2>1, SummaryOf
<1>4. MapThenSumSet(LAMBDA u : CustodySummary(u, b).amount, User) = SumOver(total, User)
  <2>1. PICK k : IsTable(total, User, k)
    BY <1>1, TableExists
  <2> DEFINE m == CHOOSE m : m = [s \in SUBSET User |->
                    IF s = {} THEN 0 ELSE CustodySummary(Chosen(s), b).amount + m[s \ {Chosen(s)}]]
  <2>2. \A u \in User : total[u] = CustodySummary(u, b).amount
    OBVIOUS
  <2> HIDE DEF total
  <2>3. \A x : IsTable(total, User, x) <=>
          x = [s \in SUBSET User |->
                IF s = {} THEN 0 ELSE CustodySummary(Chosen(s), b).amount + x[s \ {Chosen(s)}]]
    BY <2>2, ChosenIn DEF IsTable
  <2>4. IsTable(total, User, m)
    BY <2>1, <2>3
  <2>5. MapThenSumSet(LAMBDA u : CustodySummary(u, b).amount, User) = m[User]
    BY DEF MapThenSumSet, MapThenFoldSet, Chosen
  <2> HIDE DEF m
  <2> QED BY <1>1, <2>4, <2>5, SumInTable
<1>5. SumOver(total, User) = SumOver(Worth, S)
  <2> HIDE DEF S, class, total
  <2>1. TotalsByClass(total, Worth, S, class, User)
    BY <1>2, <1>3 DEF TotalsByClass
  <2> QED BY <1>1, <2>1, SumByClass
<1> QED BY <1>4, <1>5

\* What the drawers of a branch hold of field payments: what was accepted less what was refunded.
LEMMA DrawersAddUp ==
  ASSUME IInv, DrawersHold, NEW b \in Branch
  PROVE  MapThenSumSet(LAMBDA s : drawer[s].balance - drawer[s].other, SessionsOf(b))
           = SumOver(Worth, Taken(b)) - SumOver(Worth, PaidBack(b))
<1>a. TypeOK /\ ClaimedOnce /\ CashIsWitnessed /\ RowsAreConnected
  BY DEF IInv
<1> DEFINE C == SessionsOf(b)
           in == [s \in C |-> SumOver(Worth, AcceptedIn(s))]
           out == [s \in C |-> SumOver(Worth, RefundedFrom(s))]
           total == [s \in C |-> drawer[s].balance - drawer[s].other]
           A == Taken(b)
           P == PaidBack(b)
           entered == [r \in A |-> CHOOSE s \in SessionId : r \in AcceptedIn(s)]
           left == [r \in P |-> refund[r].session]
<1>1. C \subseteq SessionId /\ IsFiniteSet(C)
  BY FieldTables, FS_Subset DEF SessionsOf
<1>2. /\ IsFiniteSet(A) /\ (\A r \in A : Worth[r] \in Int)
      /\ IsFiniteSet(P) /\ (\A r \in P : Worth[r] \in Int)
  <2>1. A \in SUBSET Receipt /\ P \in SUBSET Receipt
    BY DEF Taken, PaidBack, Received
  <2>2. /\ IsFiniteSet(A) /\ (\A r \in A : Worth[r] \in Nat)
        /\ IsFiniteSet(P) /\ (\A r \in P : Worth[r] \in Nat)
    BY <1>a, <2>1, WorthOf
  <2> QED BY <2>2
<1>3. \A s \in C : /\ in[s] \in Int /\ out[s] \in Int /\ total[s] = in[s] - out[s]
  <2> SUFFICES ASSUME NEW s \in C
               PROVE  /\ SumOver(Worth, AcceptedIn(s)) \in Int /\ SumOver(Worth, RefundedFrom(s)) \in Int
                      /\ drawer[s].balance - drawer[s].other =
                           SumOver(Worth, AcceptedIn(s)) - SumOver(Worth, RefundedFrom(s))
    OBVIOUS
  <2>1. s \in SessionId
    BY <1>1
  <2>2. Holds(s)
    BY <2>1 DEF DrawersHold
  <2>3. /\ SumOver(Worth, AcceptedIn(s)) \in Nat /\ SumOver(Worth, RefundedFrom(s)) \in Nat
        /\ drawer[s].balance \in Int /\ drawer[s].other \in Int
    BY <2>1, DrawerSums
  <2> QED BY <2>2, <2>3 DEF Holds
\* A payment that entered a drawer entered one, of a session of its branch.
<1>4. \A s, q \in SessionId, r \in Receipt :
        r \in AcceptedIn(s) => branchOf[s] = receipt[r].branch /\ (r \in AcceptedIn(q) => s = q)
  BY <1>a DEF AcceptedIn, ClaimedOnce, CashIsWitnessed, Claims
<1>5. \A r \in A : \E s \in C : r \in AcceptedIn(s)
  <2> SUFFICES ASSUME NEW r \in A PROVE \E s \in C : r \in AcceptedIn(s)
    OBVIOUS
  <2>1. r \in Receipt /\ receipt[r].branch = b /\ LiveIn(r, "accepted")
    BY DEF Taken, Received
  <2>2. PICK n \in RenditionId : Claims(n, r) /\ rendition[n].state = "accepted"
    BY <2>1 DEF LiveIn
  <2>3. rendition[n].session \in SessionId
    BY <1>a, <2>2 DEF RowsAreConnected, IsConnected
  <2>4. r \in AcceptedIn(rendition[n].session)
    BY <2>1, <2>2 DEF AcceptedIn
  <2> QED BY <1>4, <2>1, <2>3, <2>4 DEF SessionsOf
<1>6. \A s \in C : {r \in A : entered[r] = s} = AcceptedIn(s)
  <2> SUFFICES ASSUME NEW s \in C PROVE {r \in A : entered[r] = s} = AcceptedIn(s)
    OBVIOUS
  <2>1. s \in SessionId /\ branchOf[s] = b
    BY DEF SessionsOf
  <2>2. AcceptedIn(s) \subseteq A
    <3>1. \A r \in AcceptedIn(s) : r \in Receipt /\ LiveIn(r, "accepted")
      BY DEF AcceptedIn, LiveIn
    <3> QED BY <1>4, <2>1, <3>1 DEF Taken, Received
  <2>3. \A r \in A : entered[r] \in SessionId /\ r \in AcceptedIn(entered[r])
    BY <1>1, <1>5
  <2>4. A \subseteq Receipt
    BY DEF Taken, Received
  <2> HIDE DEF A, entered, C
  <2> QED BY <1>4, <2>1, <2>2, <2>3, <2>4
<1>7. \A s \in C : {r \in P : left[r] = s} = RefundedFrom(s)
  <2> SUFFICES ASSUME NEW s \in C PROVE {r \in P : left[r] = s} = RefundedFrom(s)
    OBVIOUS
  <2>1. branchOf[s] = b
    BY DEF SessionsOf
  <2> QED BY <1>a, <2>1 DEF PaidBack, Received, RefundedFrom, CashIsWitnessed
<1>8. \A r \in A : entered[r] \in C
  <2> SUFFICES ASSUME NEW r \in A PROVE entered[r] \in C
    OBVIOUS
  <2>1. PICK s \in C : r \in AcceptedIn(s)
    BY <1>5
  <2>2. entered[r] \in SessionId /\ r \in AcceptedIn(entered[r])
    BY <1>1, <2>1
  <2>3. r \in Receipt
    BY DEF Taken, Received
  <2> HIDE DEF A, entered, C
  <2> QED BY <1>1, <1>4, <2>1, <2>2, <2>3
<1>9. \A r \in P : left[r] \in C
  <2> SUFFICES ASSUME NEW r \in P PROVE refund[r].session \in C
    OBVIOUS
  <2>1. r \in Receipt /\ receipt[r].branch = b /\ refund[r].source = "branch_cash"
    BY DEF PaidBack, Received
  <2>2. refund[r] \in RefundRow /\ refund[r].session # None
    BY <1>a, <2>1, RowsOK DEF RowsAreConnected
  <2>3. branchOf[refund[r].session] = b
    BY <1>a, <2>1 DEF CashIsWitnessed
  <2> QED BY <2>2, <2>3 DEF RefundRow, SessionsOf
<1>10. MapThenSumSet(LAMBDA s : drawer[s].balance - drawer[s].other, C) = SumOver(total, C)
  <2>1. PICK k : IsTable(total, C, k)
    BY <1>1, TableExists
  <2> DEFINE m == CHOOSE m : m = [t \in SUBSET C |->
               IF t = {} THEN 0
               ELSE drawer[Chosen(t)].balance - drawer[Chosen(t)].other + m[t \ {Chosen(t)}]]
  <2>2. \A s \in C : total[s] = drawer[s].balance - drawer[s].other
    OBVIOUS
  <2> HIDE DEF total, C
  <2>3. \A x : IsTable(total, C, x) <=>
          x = [t \in SUBSET C |->
                IF t = {} THEN 0
                ELSE drawer[Chosen(t)].balance - drawer[Chosen(t)].other + x[t \ {Chosen(t)}]]
    BY <2>2, ChosenIn DEF IsTable
  <2>4. IsTable(total, C, m)
    BY <2>1, <2>3
  <2>5. MapThenSumSet(LAMBDA s : drawer[s].balance - drawer[s].other, C) = m[C]
    BY DEF MapThenSumSet, MapThenFoldSet, Chosen
  <2> HIDE DEF m, in, out, A, P, entered, left
  <2>6. SumOver(total, C) = m[C]
    BY ONLY <1>1, <2>4, SumInTable
  <2> QED BY <2>5, <2>6
<1>11. (\A s \in C : in[s] = SumOver(Worth, AcceptedIn(s)))
       /\ \A s \in C : out[s] = SumOver(Worth, RefundedFrom(s))
  OBVIOUS
<1> HIDE DEF C, in, out, total, A, P, entered, left
<1>12. SumOver(total, C) = SumOver(in, C) - SumOver(out, C)
  BY <1>1, <1>3, SumOfDifferences
<1>13. SumOver(in, C) = SumOver(Worth, A)
  <2>1. TotalsByClass(in, Worth, A, entered, C)
    BY <1>6, <1>8, <1>11 DEF TotalsByClass
  <2> QED BY <1>1, <1>2, <2>1, SumByClass
<1>14. SumOver(out, C) = SumOver(Worth, P)
  <2>1. TotalsByClass(out, Worth, P, left, C)
    BY <1>7, <1>9, <1>11 DEF TotalsByClass
  <2> QED BY <1>1, <1>2, <2>1, SumByClass
<1> QED BY <1>10, <1>12, <1>13, <1>14 DEF A, P, C

\* What a branch received is with its collectors, in its drawers or back with its customers.
LEMMA BranchAddsUp ==
  ASSUME IInv, RowsAgree, DrawersHold, NEW b \in Branch
  PROVE  Total(Received(b)) =
           MapThenSumSet(LAMBDA u : CustodySummary(u, b).amount, User)
           + MapThenSumSet(LAMBDA s : drawer[s].balance - drawer[s].other, SessionsOf(b))
           + Total({r \in Received(b) : refund[r].source # "none"})
<1> DEFINE back == {r \in Received(b) : refund[r].source # "none"}
           l == SumOver(Worth, ListCustody(b))
           a == SumOver(Worth, Taken(b))
           h == SumOver(Worth, HandedBack(b))
           p == SumOver(Worth, PaidBack(b))
<1>1. Total(Received(b)) = SumOver(Worth, Received(b)) /\ Total(back) = SumOver(Worth, back)
  <2>1. Received(b) \in SUBSET Receipt /\ back \in SUBSET Receipt
    BY DEF Received
  <2> HIDE DEF back
  <2> QED BY <2>1, WorthOf DEF IInv
<1>2. SumOver(Worth, Received(b)) = l + a + h /\ SumOver(Worth, back) = h + p
  BY BranchSums
<1>3. MapThenSumSet(LAMBDA u : CustodySummary(u, b).amount, User) = l
  BY SummariesAddUp
<1>4. MapThenSumSet(LAMBDA s : drawer[s].balance - drawer[s].other, SessionsOf(b)) = a - p
  BY DrawersAddUp
<1>5. l \in Nat /\ a \in Nat /\ h \in Nat /\ p \in Nat
  <2>1. /\ ListCustody(b) \in SUBSET Receipt /\ Taken(b) \in SUBSET Receipt
        /\ HandedBack(b) \in SUBSET Receipt /\ PaidBack(b) \in SUBSET Receipt
    BY BranchSets
  <2> QED BY <2>1, WorthOf DEF IInv
<1> HIDE DEF back, l, a, h, p
<1>6. l + a + h = l + (a - p) + (h + p)
  BY <1>5
<1> QED BY <1>1, <1>2, <1>3, <1>4, <1>6 DEF back

LEMMA ReportsPart ==
  ASSUME IInv, RowsAgree, DrawersHold
  PROVE  ReportsAddUp
<1>1. ASSUME NEW b \in Branch
      PROVE  Total({r \in Receipt : receipt[r].branch = b}) =
               MapThenSumSet(LAMBDA u : CustodySummary(u, b).amount, User)
               + MapThenSumSet(LAMBDA s : drawer[s].balance - drawer[s].other,
                               {s \in SessionId : branchOf[s] = b})
               + Total({r \in {r \in Receipt : receipt[r].branch = b} : refund[r].source # "none"})
  BY BranchAddsUp DEF Received, SessionsOf
<1>2. ASSUME NEW u \in User, NEW b \in Branch
      PROVE  CustodySummary(u, b).pendingAmount =
               MapThenSumSet(LAMBDA n : rendition[n].amount,
                 {n \in RenditionId : rendition[n].state = "declared" /\ rendition[n].custodian = u
                                      /\ rendition[n].branch = b})
  BY PendingIsDeclared DEF DeclaredBy
<1> QED BY <1>1, <1>2, SummaryNames, TrackingAgrees DEF ReportsAddUp

\* Every unit collected in the field is in one drawer, in one pair of hands or with its customer,
\* and the summaries, the list and the status of each payment say so.
THEOREM Backed == Spec => []DrawerIsBacked
<1>1. IInv /\ RowsAgree /\ DrawersHold => DrawerIsBacked
  BY DrawersPart, ReportsPart DEF DrawerIsBacked
<1> QED BY <1>1, BackingInductive, PTL

-----------------------------------------------------------------------------
(* The triggers under the custody tables.                                   *)

RenditionAdmitted(n) ==
  /\ IF rendition[n].state = "none"
     THEN RenditionInsertCheck(n) /\ \A r \in rendition'[n].items : ItemInsertCheck(r)
     ELSE RenditionGuard(n) /\ ItemGuard(n)
  /\ RenditionConsistencyCheck(n)

\* What the tables hold of a rendition once it is written.
LEMMA ConsistentRow ==
  ASSUME IInv, IInv', RowsAgree', receipt' = receipt, NEW n \in RenditionId, rendition'[n].state # "none",
         rendition'[n].state = "accepted" => Moved(rendition'[n].session) = rendition'[n].amount
  PROVE  RenditionConsistencyCheck(n)
<1>a. TypeOK /\ TypeOK' /\ IsConnected(rendition[n])'
  BY DEF IInv, RowsAreConnected
<1>1. rendition'[n].released <=> rendition'[n].state \in {"rejected", "cancelled"}
  BY <1>a DEF IsConnected
<1>2. rendition'[n].items \in SUBSET Receipt
  BY <1>a, RowsOK DEF TypeOK, RenditionRow
<1>3. Worth' = Worth
  BY DEF Worth
<1>4. rendition'[n].amount = SumOver(Worth', rendition'[n].items) /\ rendition'[n].amount > 0
  BY DEF RowsAgree
<1>5. rendition'[n].amount = Total(rendition'[n].items)
  BY <1>a, <1>2, <1>3, <1>4, WorthOf
<1>6. rendition'[n].items # {}
  <2> SUFFICES ASSUME rendition'[n].items = {} PROVE FALSE
    OBVIOUS
  <2>1. rendition'[n].amount = 0
    BY <1>4, SumOfNone
  <2> QED BY <1>4, <2>1
<1> QED BY <1>1, <1>5, <1>6 DEF RenditionConsistencyCheck

LEMMA NextRenditionAdmitted ==
  ASSUME IInv, IInv', RowsAgree, RowsAgree', [Next]_vars, NEW n \in RenditionId,
         rendition'[n] # rendition[n]
  PROVE  RenditionAdmitted(n)
<1>a. TypeOK /\ RowsAreConnected
  BY DEF IInv
<1>b. rendition[n] \in RenditionRow
  BY <1>a, RowsOK
<1>1. ASSUME NEW u \in User, NEW b \in Branch, NEW R \in SUBSET Receipt, Declare(u, b, R)
      PROVE  RenditionAdmitted(n)
  <2>1. PICK m \in RenditionId : /\ rendition[m].state = "none"
                                 /\ rendition' = [rendition EXCEPT ![m] = Declared(u, b, R)]
    BY <1>1 DEF Declare
  <2>2. m = n /\ rendition'[n] = Declared(u, b, R)
    BY <1>a, <2>1 DEF TypeOK
  <2>3. \A t \in Amount :
          LET row == [NoRendition EXCEPT !.state = "declared", !.custodian = u, !.branch = b,
                                         !.items = R, !.amount = t]
          IN row.decidedBy = None /\ row.session = None
    BY DEF NoRendition
  <2>4. Declared(u, b, R).decidedBy = None /\ Declared(u, b, R).session = None
    BY <1>1, <2>3 DEF Declare, Declared
  <2>5. Declared(u, b, R).state = "declared" /\ Declared(u, b, R).items = R
    BY <1>1, DeclaredFields DEF Declare
  <2>6. receipt' = receipt /\ \A r \in R : ~CollectorRefunded(r)
    BY <1>1 DEF Declare, Declarable
  <2>7. RenditionConsistencyCheck(n)
    BY <2>2, <2>5, <2>6, ConsistentRow
  <2> QED BY <2>1, <2>2, <2>4, <2>5, <2>6, <2>7
          DEF RenditionAdmitted, RenditionInsertCheck, ItemInsertCheck
<1>2. ASSUME NEW u \in User, NEW m \in RenditionId, NEW s \in SessionId, Accept(u, m, s)
      PROVE  RenditionAdmitted(n)
  <2>1. /\ rendition[m].state = "declared" /\ receipt' = receipt
        /\ rendition' = [rendition EXCEPT ![m] = Kept(m, u, s)]
        /\ drawer' = [drawer EXCEPT ![s] = Booked(s, rendition[m].amount)]
    BY <1>2 DEF Accept
  <2>2. m = n /\ rendition'[n] = Kept(n, u, s)
    BY <1>a, <2>1 DEF TypeOK
  <2>3. /\ Kept(n, u, s).state = "accepted" /\ Kept(n, u, s).session = s
        /\ Kept(n, u, s).custodian = rendition[n].custodian
        /\ Kept(n, u, s).branch = rendition[n].branch
        /\ Kept(n, u, s).items = rendition[n].items
        /\ Kept(n, u, s).released = rendition[n].released
    BY <1>a, KeptFields
  <2>4. Kept(n, u, s).amount = rendition[n].amount
    BY <1>b DEF Kept, RenditionRow
  <2>5. Moved(s) = rendition[n].amount
    <3>1. drawer'[s] = Booked(s, rendition[n].amount)
      BY <1>a, <2>1, <2>2 DEF TypeOK
    <3>2. rendition[n].amount \in Int /\ drawer[s].balance \in Int
      BY <1>a, RowsOK
    <3>3. drawer'[s].balance = drawer[s].balance + rendition[n].amount
      BY <1>a, <3>1, <3>2, BookedOK
    <3> QED BY <3>2, <3>3 DEF Moved
  <2>6. RenditionConsistencyCheck(n)
    BY <2>1, <2>2, <2>3, <2>4, <2>5, ConsistentRow
  <2>7. RenditionGuard(n)
    BY <2>1, <2>2, <2>3, <2>4 DEF RenditionGuard
  <2>8. ItemGuard(n)
    BY <2>2, <2>3 DEF ItemGuard
  <2> QED BY <2>1, <2>2, <2>6, <2>7, <2>8 DEF RenditionAdmitted
<1>3. ASSUME NEW u \in User, NEW m \in RenditionId, NEW state \in {"rejected", "cancelled"},
             Ends(u, m, state)
      PROVE  RenditionAdmitted(n)
  <2>1. /\ rendition[m].state = "declared" /\ receipt' = receipt
        /\ rendition' = [rendition EXCEPT ![m] = Released(m, state, u)]
    BY <1>3 DEF Ends
  <2>2. m = n /\ rendition'[n] = Released(n, state, u)
    BY <1>a, <2>1 DEF TypeOK
  <2>3. /\ Released(n, state, u).state = state
        /\ Released(n, state, u).custodian = rendition[n].custodian
        /\ Released(n, state, u).branch = rendition[n].branch
        /\ Released(n, state, u).items = rendition[n].items
        /\ Released(n, state, u).released
    BY <1>a, ReleasedFields
  <2>4. Released(n, state, u).amount = rendition[n].amount
    BY <1>b DEF Released, RenditionRow
  <2>5. RenditionConsistencyCheck(n)
    BY <2>1, <2>2, <2>3, ConsistentRow
  <2>6. RenditionGuard(n)
    BY <2>1, <2>2, <2>3, <2>4 DEF RenditionGuard
  <2>7. ItemGuard(n)
    BY <2>2, <2>3 DEF ItemGuard
  <2> QED BY <2>1, <2>2, <2>5, <2>6, <2>7 DEF RenditionAdmitted
<1>4. \/ \E u \in User, b \in Branch, R \in SUBSET Receipt : Declare(u, b, R)
      \/ \E u \in User, m \in RenditionId, s \in SessionId : Accept(u, m, s)
      \/ \E u \in User, m \in RenditionId : Reject(u, m) \/ Cancel(u, m)
  BY DEF Next, vars, CreateReceipt, ReverseField, LockReceipt, RefundFromCollector, RefundFromBranch,
         RefundAborted, DisableUser, EnableUser, OpenDrawer, CloseDrawer, OtherWithdrawal
<1>5. \A u \in User, m \in RenditionId : Reject(u, m) \/ Cancel(u, m) =>
        \E state \in {"rejected", "cancelled"} : Ends(u, m, state)
  BY DEF Reject, Cancel, Ends
<1> QED BY <1>1, <1>2, <1>3, <1>4, <1>5

LEMMA NextRefundAdmitted ==
  ASSUME IInv, [Next]_vars, NEW r \in Receipt, refund'[r] # refund[r]
  PROVE  RefundInsertCheck(r) /\ RefundGuard(r) /\ RefundCashCheck(r)
<1>a. TypeOK /\ RowsAreConnected /\ OneWayOut /\ ClaimedOnce
  BY DEF IInv
<1>1. RefundFromCollector(r) \/ RefundFromBranch(r)
  <2>1. ASSUME NEW q \in Receipt, RefundFromCollector(q) \/ RefundFromBranch(q)
        PROVE  q = r
    BY <1>a, <2>1 DEF RefundFromCollector, RefundFromBranch, TypeOK
  <2>2. \E q \in Receipt : RefundFromCollector(q) \/ RefundFromBranch(q)
    BY DEF Next, vars, CreateReceipt, ReverseField, LockReceipt, RefundAborted, Declare, Accept, Reject,
           Cancel, DisableUser, EnableUser, OpenDrawer, CloseDrawer, OtherWithdrawal
  <2> QED BY <2>1, <2>2
<1>2. refund'[r] = refunding[r] /\ UNCHANGED rendition
  BY <1>a, <1>1 DEF RefundFromCollector, RefundFromBranch, TypeOK
<1>3. refund[r].source = "none"
  BY <1>a, <1>1 DEF RefundFromCollector, RefundFromBranch, RowsAreConnected, Locked
<1>4. RefundInsertCheck(r)
  <2>1. CASE refunding[r].source = "collector"
    <3>1. \A n \in RenditionId : ~Claims(n, r)
      BY <1>a, <2>1 DEF OneWayOut
    <3> QED BY <1>2, <2>1, <3>1 DEF RefundInsertCheck, LiveIn
  <2>2. CASE refunding[r].source = "branch_cash"
    <3>1. LiveIn(r, "accepted")
      BY <1>a, <2>2 DEF OneWayOut
    <3>2. ~LiveIn(r, "declared")
      BY <1>a, <3>1 DEF LiveIn, ClaimedOnce
    <3> QED BY <1>2, <2>2, <3>1, <3>2 DEF RefundInsertCheck
  <2> QED BY <1>1, <2>1, <2>2 DEF RefundFromCollector, RefundFromBranch
<1>5. RefundCashCheck(r)
  <2> SUFFICES ASSUME refunding[r].source = "branch_cash"
               PROVE  Moved(refunding[r].session) = -receipt[r].amount
    BY <1>2 DEF RefundCashCheck
  <2> DEFINE s == refunding[r].session
             t == receipt[r].amount
  <2>1. drawer' = [drawer EXCEPT ![s] = Booked(s, -t)]
    BY <1>1 DEF RefundFromBranch, RefundFromCollector
  <2>2. s \in SessionId
    <3>1. refunding[r] \in RefundRow /\ s # None
      BY <1>a, RowsOK DEF RowsAreConnected
    <3> QED BY <3>1 DEF RefundRow
  <2>3. t \in Nat /\ drawer[s].balance \in Int
    BY <1>a, <2>2, RowsOK
  <2> HIDE DEF s, t
  <2>4. drawer'[s] = Booked(s, -t)
    BY <1>a, <2>1, <2>2 DEF TypeOK
  <2>5. -t \in Int
    BY <2>3
  <2>6. drawer'[s].balance = drawer[s].balance + (-t)
    BY <1>a, <2>2, <2>4, <2>5, BookedOK
  <2>7. Moved(s) = -t
    BY <2>3, <2>6 DEF Moved
  <2> QED BY <2>7 DEF s, t
<1> QED BY <1>3, <1>4, <1>5 DEF RefundGuard

\* No trigger of the custody tables refuses a step of a handler: what the handlers read before they
\* write is still so when they write, whatever committed in between.
THEOREM TriggersAdmit == Spec => CustodyBackstopsAdmit
<1> DEFINE Admitted ==
      /\ \A r \in Receipt :
           /\ receipt'[r] # receipt[r] => ReceiptGuard(r)
           /\ refund'[r] # refund[r] => RefundInsertCheck(r) /\ RefundGuard(r) /\ RefundCashCheck(r)
           /\ rendition' # rendition => ItemIndex(r)
      /\ \A n \in RenditionId : rendition'[n] # rendition[n] =>
           /\ IF rendition[n].state = "none"
              THEN RenditionInsertCheck(n) /\ \A r \in rendition'[n].items : ItemInsertCheck(r)
              ELSE RenditionGuard(n) /\ ItemGuard(n)
           /\ RenditionConsistencyCheck(n)
<1>1. ASSUME IInv, RowsAgree, IInv', RowsAgree', [Next]_vars
      PROVE  Admitted
  <2>1. ASSUME NEW r \in Receipt
        PROVE  /\ receipt'[r] # receipt[r] => ReceiptGuard(r)
               /\ refund'[r] # refund[r] => RefundInsertCheck(r) /\ RefundGuard(r) /\ RefundCashCheck(r)
               /\ rendition' # rendition => ItemIndex(r)
    <3>1. receipt'[r] # receipt[r] => ReceiptGuard(r)
      BY <1>1, BornStays DEF ReceiptGuard
    <3>2. refund'[r] # refund[r] => RefundInsertCheck(r) /\ RefundGuard(r) /\ RefundCashCheck(r)
      BY <1>1, NextRefundAdmitted
    <3>3. ItemIndex(r)
      BY <1>1 DEF IInv, ClaimedOnce, ItemIndex, Claims
    <3> QED BY <3>1, <3>2, <3>3
  <2>2. ASSUME NEW n \in RenditionId, rendition'[n] # rendition[n]
        PROVE  RenditionAdmitted(n)
    BY <1>1, <2>2, NextRenditionAdmitted
  <2> QED BY <2>1, <2>2 DEF RenditionAdmitted
<1>2. IInv /\ RowsAgree /\ (IInv /\ RowsAgree)' /\ [Next]_vars => [Admitted]_vars
  BY <1>1
<1> QED BY <1>2, BackingInductive, PTL DEF Spec, CustodyBackstopsAdmit
=============================================================================
