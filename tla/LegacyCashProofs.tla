-------------------------- MODULE LegacyCashProofs --------------------------
(***************************************************************************)
(* The documents of LegacyCash and the cash: what is booked about each of  *)
(* them, what a loan owes, and what a collector holds, for any number of   *)
(* collectors, loans, sessions, documents and movements.                   *)
(***************************************************************************)
EXTENDS LegacyCash, Sums, SequenceTheorems, TLAPS

Bounded == Len(payment) + Len(delivery) + Len(order) + Len(transfer) <= MaxDocuments
Types == TypeOK /\ Bounded

-----------------------------------------------------------------------------
(* Rows of tables.                                                         *)

IsExtended(s, t, x) ==
  /\ DOMAIN s = 1 .. Len(s) /\ DOMAIN t = 1 .. (Len(s) + 1) /\ Len(t) = Len(s) + 1
  /\ t[Len(s) + 1] = x /\ \A i \in DOMAIN s : t[i] = s[i]

IsReplaced(s, t, i, x) ==
  /\ DOMAIN t = DOMAIN s /\ Len(t) = Len(s) /\ DOMAIN s = 1 .. Len(s)
  /\ t[i] = x /\ \A j \in DOMAIN s \ {i} : t[j] = s[j]

LEMMA Appended ==
  ASSUME NEW S, NEW s \in Seq(S), NEW x \in S
  PROVE  Append(s, x) \in Seq(S) /\ IsExtended(s, Append(s, x), x) /\ Len(s) \in Nat
<1>1. /\ Append(s, x) \in Seq(S) /\ Len(Append(s, x)) = Len(s) + 1
      /\ Append(s, x)[Len(s) + 1] = x /\ \A i \in 1 .. Len(s) : Append(s, x)[i] = s[i]
  BY AppendProperties
<1>2. DOMAIN s = 1 .. Len(s) /\ Len(s) \in Nat /\ DOMAIN Append(s, x) = 1 .. Len(Append(s, x))
  BY <1>1
<1> QED BY <1>1, <1>2 DEF IsExtended

LEMMA Replaced ==
  ASSUME NEW S, NEW s \in Seq(S), NEW i \in DOMAIN s, NEW x \in S
  PROVE  [s EXCEPT ![i] = x] \in Seq(S) /\ IsReplaced(s, [s EXCEPT ![i] = x], i, x)
<1>1. DOMAIN s = 1 .. Len(s) /\ Len(s) \in Nat
  OBVIOUS
<1>2. /\ [s EXCEPT ![i] = x] \in Seq(S) /\ Len([s EXCEPT ![i] = x]) = Len(s)
      /\ \A j \in 1 .. Len(s) : [s EXCEPT ![i] = x][j] = IF j = i THEN x ELSE s[j]
  BY <1>1, ExceptSeq
<1>3. DOMAIN [s EXCEPT ![i] = x] = DOMAIN s
  OBVIOUS
<1> QED BY <1>1, <1>2, <1>3 DEF IsReplaced

LEMMA MinOfTwo ==
  ASSUME NEW a \in Int, NEW b \in Int
  PROVE  Min({a, b}) = IF a <= b THEN a ELSE b
BY DEF Min

LEMMA MaxOfTwo ==
  ASSUME NEW a \in Int, NEW b \in Int
  PROVE  Max({a, b}) = IF a <= b THEN b ELSE a
BY DEF Max

\* Total is the sum of Sums.
LEMMA TotalIs == \A f, S : Total(f, S) = SumOver(f, S)
BY DEF Total, SumOver

-----------------------------------------------------------------------------
(* Types.                                                                  *)

LEMMA Tables ==
  ASSUME Types
  PROVE  /\ DOMAIN payment = 1 .. Len(payment) /\ Len(payment) \in Nat
         /\ DOMAIN delivery = 1 .. Len(delivery) /\ Len(delivery) \in Nat
         /\ DOMAIN movement = 1 .. Len(movement) /\ Len(movement) \in Nat
         /\ DOMAIN order = 1 .. Len(order) /\ Len(order) \in Nat
         /\ DOMAIN transfer = 1 .. Len(transfer) /\ Len(transfer) \in Nat
         /\ DOMAIN payment \subseteq PaymentId /\ MaxDocuments \in Nat /\ Lent \in Nat
         /\ \A p \in DOMAIN payment : payment[p] \in PaymentRow
         /\ \A d \in DOMAIN delivery : delivery[d] \in DeliveryRow
         /\ \A m \in DOMAIN movement : movement[m] \in MovementRow
         /\ \A o \in DOMAIN order : order[o] \in OrderRow
         /\ \A t \in DOMAIN transfer : transfer[t] \in TransferRow
<1> USE DEF Types, TypeOK
<1>1. /\ payment \in Seq(PaymentRow) /\ delivery \in Seq(DeliveryRow) /\ movement \in Seq(MovementRow)
      /\ order \in Seq(OrderRow) /\ transfer \in Seq(TransferRow)
  OBVIOUS
<1>2. MaxDocuments \in Nat /\ Lent \in Nat
  BY CashBounds
<1>3. /\ Len(payment) \in Nat /\ Len(delivery) \in Nat /\ Len(order) \in Nat /\ Len(transfer) \in Nat
      /\ Len(movement) \in Nat
  BY <1>1
<1>4. DOMAIN payment = 1 .. Len(payment) /\ DOMAIN delivery = 1 .. Len(delivery)
      /\ DOMAIN movement = 1 .. Len(movement) /\ DOMAIN order = 1 .. Len(order)
      /\ DOMAIN transfer = 1 .. Len(transfer)
  BY <1>1
<1>5. Len(payment) <= MaxDocuments
  BY <1>2, <1>3 DEF Bounded
<1>6. DOMAIN payment \subseteq PaymentId
  BY <1>2, <1>3, <1>4, <1>5 DEF PaymentId
<1>7. /\ \A p \in DOMAIN payment : payment[p] \in PaymentRow
      /\ \A d \in DOMAIN delivery : delivery[d] \in DeliveryRow
      /\ \A m \in DOMAIN movement : movement[m] \in MovementRow
  BY <1>1, <1>4
<1>8. /\ \A o \in DOMAIN order : order[o] \in OrderRow
      /\ \A t \in DOMAIN transfer : transfer[t] \in TransferRow
  BY <1>1, <1>4
<1> HIDE DEF Types, TypeOK
<1> QED BY <1>2, <1>3, <1>4, <1>6, <1>7, <1>8

LEMMA IdsAreFinite ==
  /\ IsFiniteSet(PaymentId)
  /\ Types => /\ IsFiniteSet(DOMAIN payment) /\ IsFiniteSet(DOMAIN delivery)
              /\ IsFiniteSet(DOMAIN movement) /\ IsFiniteSet(DOMAIN order)
<1>1. MaxDocuments \in Int /\ 1 \in Int
  BY CashBounds
<1>2. IsFiniteSet(PaymentId)
  BY <1>1, FS_Interval DEF PaymentId
<1>3. ASSUME Types
      PROVE  /\ IsFiniteSet(1 .. Len(payment)) /\ IsFiniteSet(1 .. Len(delivery))
             /\ IsFiniteSet(1 .. Len(movement)) /\ IsFiniteSet(1 .. Len(order))
  <2>1. /\ Len(payment) \in Int /\ Len(delivery) \in Int /\ Len(movement) \in Int /\ Len(order) \in Int
        /\ 1 \in Int
    BY <1>3, Tables
  <2> QED BY <2>1, FS_Interval
<1> QED BY <1>2, <1>3, Tables

\* What payments still leave with their collectors is a number.
LEMMA HandedInType ==
  ASSUME Types
  PROVE  /\ \A p \in PaymentId : Allocated(p) \in Int
         /\ \A p \in DOMAIN payment : Remaining(p) \in Int /\ Left[p] = Remaining(p)
         /\ \A c : OutstandingRows(c) \subseteq DOMAIN payment /\ IsFiniteSet(OutstandingRows(c))
         /\ \A c : Pending(c) \in Int
<1>1. ASSUME NEW p \in PaymentId
      PROVE  Allocated(p) \in Int
  <2> DEFINE f == [d \in DOMAIN delivery |-> delivery[d].parts[p]]
  <2>1. \A d \in DOMAIN delivery : f[d] \in Int
    BY <1>1, Tables DEF DeliveryRow, Parts
  <2>2. Allocated(p) = SumOver(f, DOMAIN delivery)
    BY TotalIs DEF Allocated
  <2> HIDE DEF f
  <2> QED BY <2>1, <2>2, SumType, IdsAreFinite
<1>2. ASSUME NEW p \in DOMAIN payment
      PROVE  Remaining(p) \in Int /\ Left[p] = Remaining(p)
  <2>1. payment[p].amount \in Int /\ p \in PaymentId
    BY Tables DEF PaymentRow, Amount
  <2> QED BY <1>1, <2>1 DEF Remaining, Left
<1>3. ASSUME NEW c
      PROVE  /\ OutstandingRows(c) \subseteq DOMAIN payment /\ IsFiniteSet(OutstandingRows(c))
             /\ Pending(c) \in Int
  <2>1. OutstandingRows(c) \subseteq DOMAIN payment
    BY DEF OutstandingRows
  <2>2. IsFiniteSet(OutstandingRows(c))
    BY <2>1, IdsAreFinite, FS_Subset
  <2>3. Pending(c) = SumOver(Left, OutstandingRows(c))
    BY TotalIs DEF Pending
  <2>4. \A p \in OutstandingRows(c) : Left[p] \in Int
    BY <1>2, <2>1
  <2> QED BY <2>1, <2>2, <2>3, <2>4, SumType
<1> QED BY <1>1, <1>2, <1>3

LEMMA SpreadType ==
  ASSUME Types, NEW c, NEW amount \in Int
  PROVE  Spread(c, amount) \in Parts
<1> DEFINE Older(p) == Total(Left, {q \in OutstandingRows(c) : q < p})
           part == Spread(c, amount)
<1>1. part = [p \in PaymentId |->
        IF p \in OutstandingRows(c) THEN Min({Remaining(p), Max({0, amount - Older(p)})}) ELSE 0]
  BY DEF Spread
<1>2. ASSUME NEW p \in PaymentId
      PROVE  part[p] \in Int
  <2>1. CASE p \in OutstandingRows(c)
    <3> DEFINE before == {q \in OutstandingRows(c) : q < p}
    <3>1. before \subseteq DOMAIN payment /\ p \in DOMAIN payment
      BY <2>1, HandedInType
    <3>2. IsFiniteSet(before) /\ \A q \in before : Left[q] \in Int
      BY <3>1, IdsAreFinite, FS_Subset, HandedInType
    <3>3. Older(p) \in Int
      <4> HIDE DEF before
      <4>1. SumOver(Left, before) \in Int
        BY <3>2, SumType
      <4> QED BY <4>1, TotalIs DEF before
    <3> HIDE DEF Older
    <3>4. Remaining(p) \in Int /\ amount - Older(p) \in Int
      BY <3>1, <3>3, HandedInType
    <3>5. Max({0, amount - Older(p)}) \in Int
      BY <3>4, MaxOfTwo
    <3>6. Min({Remaining(p), Max({0, amount - Older(p)})}) \in Int
      BY <3>4, <3>5, MinOfTwo
    <3> QED BY <1>1, <2>1, <3>6
  <2>2. CASE p \notin OutstandingRows(c)
    BY <1>1, <2>2
  <2> QED BY <2>1, <2>2
<1> HIDE DEF Older
<1>3. part = [p \in PaymentId |-> part[p]]
  BY <1>1
<1> HIDE DEF part
<1>4. part \in [PaymentId -> Int]
  BY <1>2, <1>3
<1> QED BY <1>4 DEF Parts, part

MovementKinds ==
  {"opening_initial_fund", "counter_payment", "delivery", "surplus", "cash_addition", "withdrawal",
   "expense", "disbursement", "bank_disbursement", "reversal"}
Row(s, kind, amount, of, reverses) ==
  [session |-> s, amount |-> amount, reverses |-> reverses, kind |-> kind, of |-> of]

LEMMA MovementAdded ==
  ASSUME Types, NEW s \in SessionId, NEW kind \in MovementKinds, NEW amount \in Int, NEW of \in Nat,
         NEW reverses \in Nat, AddMovement(s, kind, amount, of, reverses)
  PROVE  /\ movement' \in Seq(MovementRow)
         /\ IsExtended(movement, movement', Row(s, kind, amount, of, reverses))
         /\ session' \in [SessionId -> [state : {"unopened", "open", "closed"}, balance : Nat]]
<1>1. Row(s, kind, amount, of, reverses) \in MovementRow
  BY DEF Row, MovementRow, MovementKinds
<1>2. movement \in Seq(MovementRow)
  BY DEF Types, TypeOK
<1>3. movement' = Append(movement, Row(s, kind, amount, of, reverses))
  BY DEF AddMovement, Row
<1>4. session \in [SessionId -> [state : {"unopened", "open", "closed"}, balance : Nat]]
  BY DEF Types, TypeOK
<1>5. session[s].balance + amount \in Nat
  BY <1>4 DEF AddMovement, Covers
<1>6. session' = [session EXCEPT ![s].balance = session[s].balance + amount]
  BY DEF AddMovement
<1>7. session' \in [SessionId -> [state : {"unopened", "open", "closed"}, balance : Nat]]
  BY <1>4, <1>5, <1>6
<1> QED BY <1>1, <1>2, <1>3, <1>7, Appended

LoanRow == [state : {"signed", "disbursed"}, owed : 0 .. Lent]

LEMMA PaymentApplied ==
  ASSUME Types, NEW by \in Collector \cup {None}, NEW l \in Loan, NEW amount \in Amount,
         NEW origin \in {"field", "counter"}, NEW method \in {"cash", "transfer"},
         ApplyExactPayment(by, l, amount, origin, method)
  PROVE  LET row == [by |-> by, loan |-> l, amount |-> amount, origin |-> origin, method |-> method]
         IN /\ payment' \in Seq(PaymentRow)
            /\ IsExtended(payment, payment', row)
            /\ row \in PaymentRow
            /\ loan' \in [Loan -> LoanRow]
            /\ loan[l].state = "disbursed" /\ loan'[l].state = "disbursed"
            /\ loan'[l].owed = loan[l].owed - amount
            /\ \A k \in Loan \ {l} : loan'[k] = loan[k]
            /\ Room
<1> DEFINE row == [by |-> by, loan |-> l, amount |-> amount, origin |-> origin, method |-> method]
<1>1. row \in PaymentRow
  BY DEF PaymentRow
<1>2. payment \in Seq(PaymentRow) /\ payment' = Append(payment, row)
  BY DEF Types, TypeOK, ApplyExactPayment
<1>3. loan \in [Loan -> LoanRow] /\ Lent \in Nat
  BY CashBounds DEF Types, TypeOK, LoanRow
<1>4. loan' = [loan EXCEPT ![l].owed = loan[l].owed - amount] /\ amount <= loan[l].owed /\ Room
      /\ loan[l].state = "disbursed"
  BY DEF ApplyExactPayment
<1>5. loan[l].owed - amount \in 0 .. Lent
  <2>1. loan[l].owed \in 0 .. Lent /\ amount \in Int /\ amount >= 1
    BY <1>3 DEF LoanRow, Amount
  <2> QED BY <1>3, <1>4, <2>1
<1>6. loan' \in [Loan -> LoanRow] /\ loan'[l].state = "disbursed"
      /\ loan'[l].owed = loan[l].owed - amount /\ \A k \in Loan \ {l} : loan'[k] = loan[k]
  BY <1>3, <1>4, <1>5 DEF LoanRow
<1> HIDE DEF row
<1>7. payment' \in Seq(PaymentRow) /\ IsExtended(payment, payment', row)
  BY <1>1, <1>2, Appended
<1> QED BY <1>1, <1>4, <1>6, <1>7 DEF row

\* What commands leave of the sizes of the tables.
LEMMA Fits ==
  ASSUME NEW a \in Nat, NEW b \in Nat, NEW c \in Nat, NEW d \in Nat, MaxDocuments \in Nat,
         a + b + c + d < MaxDocuments
  PROVE  /\ a + 1 + b + c + d <= MaxDocuments /\ a + (b + 1) + c + d <= MaxDocuments
         /\ a + b + (c + 1) + d <= MaxDocuments /\ a + b + c + (d + 1) <= MaxDocuments
OBVIOUS

LEMMA DocumentFits ==
  ASSUME Types,
         \/ Len(payment') = Len(payment) /\ Len(delivery') = Len(delivery)
            /\ Len(order') = Len(order) /\ Len(transfer') = Len(transfer)
         \/ /\ Room
            /\ \/ Len(payment') = Len(payment) + 1 /\ Len(delivery') = Len(delivery)
                  /\ Len(order') = Len(order) /\ Len(transfer') = Len(transfer)
               \/ Len(payment') = Len(payment) /\ Len(delivery') = Len(delivery) + 1
                  /\ Len(order') = Len(order) /\ Len(transfer') = Len(transfer)
               \/ Len(payment') = Len(payment) /\ Len(delivery') = Len(delivery)
                  /\ Len(order') = Len(order) + 1 /\ Len(transfer') = Len(transfer)
               \/ Len(payment') = Len(payment) /\ Len(delivery') = Len(delivery)
                  /\ Len(order') = Len(order) /\ Len(transfer') = Len(transfer) + 1
  PROVE  Bounded'
<1>1. /\ Len(payment) \in Nat /\ Len(delivery) \in Nat /\ Len(order) \in Nat /\ Len(transfer) \in Nat
      /\ MaxDocuments \in Nat
  BY Tables
<1>2. Len(payment) + Len(delivery) + Len(order) + Len(transfer) <= MaxDocuments
  BY DEF Types, Bounded
<1> QED BY <1>1, <1>2, Fits DEF Room, Bounded

-----------------------------------------------------------------------------
(* What each action does to the tables.                                    *)

SessionTable == [SessionId -> [state : {"unopened", "open", "closed"}, balance : Nat]]
AccountTable == [Collector -> [place : Place, to : Place \cup {None}]]

LEMMA TablesTyped ==
  ASSUME account' \in AccountTable, entered' \in Collector \cup {None}, session' \in SessionTable,
         payment' \in Seq(PaymentRow), delivery' \in Seq(DeliveryRow), movement' \in Seq(MovementRow),
         order' \in Seq(OrderRow), transfer' \in Seq(TransferRow), loan' \in [Loan -> LoanRow], Bounded'
  PROVE  Types'
BY DEF Types, TypeOK, AccountTable, SessionTable, LoanRow

LEMMA TypesGive ==
  ASSUME Types
  PROVE  /\ account \in AccountTable /\ entered \in Collector \cup {None} /\ session \in SessionTable
         /\ payment \in Seq(PaymentRow) /\ delivery \in Seq(DeliveryRow)
         /\ movement \in Seq(MovementRow) /\ order \in Seq(OrderRow)
         /\ transfer \in Seq(TransferRow) /\ loan \in [Loan -> LoanRow]
BY DEF Types, TypeOK, AccountTable, SessionTable, LoanRow

LEMMA PaymentsDo ==
  ASSUME Types
  PROVE  /\ \A c \in Collector : EnterPayment(c) => Types'
         /\ \A c \in Collector, l \in Loan, amount \in Amount :
              FieldPayment(c, l, amount) \/ FieldTransfer(c, l, amount) => Types'
         /\ PaymentFails => Types'
         /\ \A l \in Loan, amount \in Amount, s \in SessionId : CounterPayment(l, amount, s) =>
              /\ Types'
              /\ IsExtended(movement, movement', Row(s, "counter_payment", amount, Len(payment'), 0))
         /\ \A t \in DOMAIN transfer :
              ConfirmTransfer(t) \/ RejectTransfer(t) =>
                /\ Types'
                /\ transfer[t].by \in Collector /\ transfer[t].loan \in Loan /\ transfer[t].amount \in Amount
<1>1. ASSUME NEW c \in Collector, EnterPayment(c)
      PROVE  Types'
  BY <1>1, TypesGive, TablesTyped DEF EnterPayment, Types, Bounded
<1>2. ASSUME NEW c \in Collector, NEW l \in Loan, NEW amount \in Amount, FieldPayment(c, l, amount)
      PROVE  Types'
  <2>1. ApplyExactPayment(c, l, amount, "field", "cash")
    BY <1>2 DEF FieldPayment
  <2>2. payment' \in Seq(PaymentRow) /\ loan' \in [Loan -> LoanRow] /\ Room
        /\ Len(payment') = Len(payment) + 1
    BY <2>1, PaymentApplied DEF IsExtended
  <2>3. UNCHANGED <<account, session, delivery, movement, order, transfer>> /\ entered' = None
    BY <1>2 DEF FieldPayment
  <2>4. Bounded'
    BY <2>2, <2>3, DocumentFits
  <2> QED BY <2>2, <2>3, <2>4, TypesGive, TablesTyped
<1>3. ASSUME NEW c \in Collector, NEW l \in Loan, NEW amount \in Amount, FieldTransfer(c, l, amount)
      PROVE  Types'
  <2> DEFINE row == [by |-> c, loan |-> l, amount |-> amount, state |-> "pending"]
  <2>1. row \in TransferRow
    BY DEF TransferRow
  <2>2. transfer' = Append(transfer, row) /\ Room /\ entered' = None
        /\ UNCHANGED <<account, session, payment, delivery, movement, order, loan>>
    BY <1>3 DEF FieldTransfer
  <2> HIDE DEF row
  <2>3. transfer' \in Seq(TransferRow) /\ Len(transfer') = Len(transfer) + 1
    BY <2>1, <2>2, TypesGive, Appended DEF IsExtended
  <2>4. Bounded'
    BY <2>2, <2>3, DocumentFits
  <2> QED BY <2>2, <2>3, <2>4, TypesGive, TablesTyped
<1>4. ASSUME PaymentFails
      PROVE  Types'
  BY <1>4, TypesGive, TablesTyped DEF PaymentFails, Types, Bounded
<1>5. ASSUME NEW l \in Loan, NEW amount \in Amount, NEW s \in SessionId, CounterPayment(l, amount, s)
      PROVE  /\ Types'
             /\ IsExtended(movement, movement', Row(s, "counter_payment", amount, Len(payment'), 0))
  <2>1. /\ ApplyExactPayment(None, l, amount, "counter", "cash")
        /\ AddMovement(s, "counter_payment", amount, Len(payment'), 0)
        /\ UNCHANGED <<account, entered, delivery, order, transfer>>
    BY <1>5 DEF CounterPayment
  <2>2. payment' \in Seq(PaymentRow) /\ loan' \in [Loan -> LoanRow] /\ Room
        /\ Len(payment') = Len(payment) + 1
    BY <2>1, PaymentApplied DEF IsExtended
  <2>3. Len(payment') \in Nat /\ amount \in Int /\ "counter_payment" \in MovementKinds
    BY <2>2, Tables DEF Amount, MovementKinds
  <2>4. /\ movement' \in Seq(MovementRow) /\ session' \in SessionTable
        /\ IsExtended(movement, movement', Row(s, "counter_payment", amount, Len(payment'), 0))
    BY <2>1, <2>3, MovementAdded DEF SessionTable
  <2>5. Bounded'
    BY <2>1, <2>2, DocumentFits
  <2> QED BY <2>1, <2>2, <2>4, <2>5, TypesGive, TablesTyped
<1>6. ASSUME NEW t \in DOMAIN transfer
      PROVE  transfer[t] \in TransferRow /\ transfer[t].by \in Collector /\ transfer[t].loan \in Loan
             /\ transfer[t].amount \in Amount
  BY <1>6, Tables DEF TransferRow
<1>7. ASSUME NEW t \in DOMAIN transfer, ConfirmTransfer(t)
      PROVE  Types'
  <2>1. /\ ApplyExactPayment(transfer[t].by, transfer[t].loan, transfer[t].amount, "field", "transfer")
        /\ transfer' = [transfer EXCEPT ![t] = [transfer[t] EXCEPT !.state = "confirmed"]]
        /\ UNCHANGED <<account, entered, session, delivery, movement, order>>
    BY <1>7, <1>6 DEF ConfirmTransfer, TransferRow
  <2>2. payment' \in Seq(PaymentRow) /\ loan' \in [Loan -> LoanRow] /\ Room
        /\ Len(payment') = Len(payment) + 1
    BY <1>6, <2>1, PaymentApplied DEF IsExtended
  <2>3. [transfer[t] EXCEPT !.state = "confirmed"] \in TransferRow
    BY <1>6 DEF TransferRow
  <2>4. transfer' \in Seq(TransferRow) /\ Len(transfer') = Len(transfer)
    BY <2>1, <2>3, TypesGive, Replaced DEF IsReplaced
  <2>5. Bounded'
    BY <2>1, <2>2, <2>4, DocumentFits
  <2> QED BY <2>1, <2>2, <2>4, <2>5, TypesGive, TablesTyped
<1>8. ASSUME NEW t \in DOMAIN transfer, RejectTransfer(t)
      PROVE  Types'
  <2>1. /\ transfer' = [transfer EXCEPT ![t] = [transfer[t] EXCEPT !.state = "rejected"]]
        /\ UNCHANGED <<account, entered, session, payment, delivery, movement, order, loan>>
    BY <1>8, <1>6 DEF RejectTransfer, TransferRow
  <2>2. [transfer[t] EXCEPT !.state = "rejected"] \in TransferRow
    BY <1>6 DEF TransferRow
  <2>3. transfer' \in Seq(TransferRow) /\ Len(transfer') = Len(transfer)
    BY <2>1, <2>2, TypesGive, Replaced DEF IsReplaced
  <2>4. Bounded'
    BY <2>1, <2>3, DocumentFits
  <2> QED BY <2>1, <2>3, <2>4, TypesGive, TablesTyped
<1> QED BY <1>1, <1>2, <1>3, <1>4, <1>5, <1>6, <1>7, <1>8

LEMMA DeliveryAdded ==
  ASSUME Types, NEW row \in DeliveryRow, delivery' = Append(delivery, row)
  PROVE  delivery' \in Seq(DeliveryRow) /\ IsExtended(delivery, delivery', row)
         /\ Len(delivery') = Len(delivery) + 1
BY TypesGive, Appended DEF IsExtended

LEMMA DeliveryChanged ==
  ASSUME Types, NEW d \in DOMAIN delivery, NEW row \in DeliveryRow,
         delivery' = [delivery EXCEPT ![d] = row]
  PROVE  delivery' \in Seq(DeliveryRow) /\ IsReplaced(delivery, delivery', d, row)
         /\ Len(delivery') = Len(delivery)
BY TypesGive, Replaced DEF IsReplaced

NewDelivery(state, c, declared) ==
  [state |-> state, collector |-> c, declared |-> declared, received |-> 0, parts |-> NoParts]

LEMMA NewDeliveryType ==
  ASSUME NEW c \in Collector, NEW declared \in Nat, NEW state \in {"pending", "surplus_review"}
  PROVE  NewDelivery(state, c, declared) \in DeliveryRow
<1>1. NoParts \in Parts
  BY DEF NoParts, Parts
<1> QED BY <1>1 DEF NewDelivery, DeliveryRow

LEMMA ReceivedType ==
  ASSUME Types, NEW row \in DeliveryRow, NEW amount \in Int
  PROVE  /\ Received(row, amount) \in DeliveryRow
         /\ Received(row, amount).state = "confirmed" /\ Received(row, amount).received = amount
         /\ Received(row, amount).parts = Spread(row.collector, amount)
         /\ Received(row, amount).collector = row.collector
         /\ Received(row, amount).declared = row.declared
<1>1. Spread(row.collector, amount) \in Parts
  BY SpreadType
<1> QED BY <1>1 DEF Received, DeliveryRow

LEMMA DeclareDoes ==
  ASSUME Types, NEW c \in Collector, NEW amount \in 1 .. Pending(c), Declare(c, amount)
  PROVE  Types' /\ IsExtended(delivery, delivery', NewDelivery("pending", c, amount)) /\ amount \in Nat
<1>1. amount \in Nat
  BY HandedInType
<1>2. /\ delivery' = Append(delivery, NewDelivery("pending", c, amount)) /\ Room
      /\ UNCHANGED <<account, entered, session, payment, movement, order, transfer, loan>>
  BY DEF Declare, NewDelivery
<1>3. /\ delivery' \in Seq(DeliveryRow) /\ Len(delivery') = Len(delivery) + 1
      /\ IsExtended(delivery, delivery', NewDelivery("pending", c, amount))
  BY <1>1, <1>2, NewDeliveryType, DeliveryAdded
<1>4. Bounded'
  BY <1>2, <1>3, DocumentFits
<1> QED BY <1>1, <1>2, <1>3, <1>4, TypesGive, TablesTyped

LEMMA ReportDoes ==
  ASSUME Types, NEW c \in Collector, NEW amount \in Sums, NEW s \in SessionId,
         ReportSurplus(c, amount, s)
  PROVE  Types' /\ IsExtended(delivery, delivery', NewDelivery("surplus_review", c, amount))
<1>1. amount \in Nat
  BY CashSums
<1>2. /\ delivery' = Append(delivery, NewDelivery("surplus_review", c, amount)) /\ Room
      /\ UNCHANGED <<account, entered, session, payment, movement, order, transfer, loan>>
  BY DEF ReportSurplus, NewDelivery
<1>3. /\ delivery' \in Seq(DeliveryRow) /\ Len(delivery') = Len(delivery) + 1
      /\ IsExtended(delivery, delivery', NewDelivery("surplus_review", c, amount))
  BY <1>1, <1>2, NewDeliveryType, DeliveryAdded
<1>4. Bounded'
  BY <1>2, <1>3, DocumentFits
<1> QED BY <1>2, <1>3, <1>4, TypesGive, TablesTyped

LEMMA ReceiveDoes ==
  ASSUME Types, NEW d \in DOMAIN delivery, NEW amount \in 1 .. delivery[d].declared,
         NEW s \in SessionId, Receive(d, amount, s)
  PROVE  /\ Types'
         /\ IsReplaced(delivery, delivery', d, Received(delivery[d], amount))
         /\ IsExtended(movement, movement', Row(s, "delivery", amount, d, 0))
         /\ amount \in Nat
<1>1. delivery[d] \in DeliveryRow /\ d \in Nat /\ "delivery" \in MovementKinds
  BY Tables DEF MovementKinds
<1>2. amount \in Nat /\ amount \in Int
  BY <1>1 DEF DeliveryRow
<1>3. /\ delivery' = [delivery EXCEPT ![d] = Received(delivery[d], amount)]
      /\ AddMovement(s, "delivery", amount, d, 0)
      /\ UNCHANGED <<account, entered, payment, order, transfer, loan>>
  BY DEF Receive
<1>4. /\ movement' \in Seq(MovementRow) /\ session' \in SessionTable
      /\ IsExtended(movement, movement', Row(s, "delivery", amount, d, 0))
  BY <1>1, <1>2, <1>3, MovementAdded DEF SessionTable
<1>5. Received(delivery[d], amount) \in DeliveryRow
  BY <1>1, <1>2, ReceivedType
<1>6. /\ delivery' \in Seq(DeliveryRow) /\ Len(delivery') = Len(delivery)
      /\ IsReplaced(delivery, delivery', d, Received(delivery[d], amount))
  BY <1>3, <1>5, DeliveryChanged
<1>7. Bounded'
  BY <1>3, <1>6, DocumentFits
<1> QED BY <1>2, <1>3, <1>4, <1>6, <1>7, TypesGive, TablesTyped

LEMMA ReceiveCollectorDoes ==
  ASSUME Types, NEW c \in Collector, NEW amount \in 1 .. Pending(c), NEW s \in SessionId,
         ReceiveCollector(c, amount, s)
  PROVE  LET row == NewDelivery("pending", c, Pending(c))
         IN /\ Types'
            /\ row \in DeliveryRow
            /\ IsExtended(delivery, delivery', Received(row, amount))
            /\ IsExtended(movement, movement', Row(s, "delivery", amount, Len(delivery) + 1, 0))
            /\ amount \in Nat
<1> DEFINE row == NewDelivery("pending", c, Pending(c))
<1>1. amount \in Nat /\ amount \in Int /\ Pending(c) \in Nat
  BY HandedInType
<1>2. row \in DeliveryRow
  BY <1>1, NewDeliveryType
<1>3. /\ delivery' = Append(delivery, Received(row, amount)) /\ Room
      /\ AddMovement(s, "delivery", amount, Len(delivery'), 0)
      /\ UNCHANGED <<account, entered, payment, order, transfer, loan>>
  BY DEF ReceiveCollector, NewDelivery
<1> HIDE DEF row
<1>4. Received(row, amount) \in DeliveryRow
  BY <1>1, <1>2, ReceivedType
<1>5. /\ delivery' \in Seq(DeliveryRow) /\ Len(delivery') = Len(delivery) + 1
      /\ IsExtended(delivery, delivery', Received(row, amount))
  BY <1>3, <1>4, DeliveryAdded
<1>6. "delivery" \in MovementKinds /\ Len(delivery') \in Nat
  BY <1>5, Tables DEF MovementKinds
<1>7. /\ movement' \in Seq(MovementRow) /\ session' \in SessionTable
      /\ IsExtended(movement, movement', Row(s, "delivery", amount, Len(delivery'), 0))
  BY <1>1, <1>3, <1>6, MovementAdded DEF SessionTable
<1>8. Bounded'
  BY <1>3, <1>5, DocumentFits
<1>9. Types'
  BY <1>3, <1>5, <1>7, <1>8, TypesGive, TablesTyped
<1> QED BY <1>1, <1>2, <1>5, <1>7, <1>9 DEF row

LEMMA DecidedType ==
  ASSUME Types, NEW d \in DOMAIN delivery
  PROVE  /\ [delivery[d] EXCEPT !.state = "rejected"] \in DeliveryRow
         /\ [delivery[d] EXCEPT !.state = "surplus_rejected"] \in DeliveryRow
         /\ [delivery[d] EXCEPT !.state = "surplus_confirmed", !.received = delivery[d].declared]
              \in DeliveryRow
<1>1. delivery[d] \in DeliveryRow
  BY Tables
<1>2. delivery[d].declared \in Int
  BY <1>1 DEF DeliveryRow
<1>3. [delivery[d] EXCEPT !.state = "rejected"] \in DeliveryRow
  BY <1>1 DEF DeliveryRow
<1>4. [delivery[d] EXCEPT !.state = "surplus_rejected"] \in DeliveryRow
  BY <1>1 DEF DeliveryRow
<1>5. [delivery[d] EXCEPT !.state = "surplus_confirmed", !.received = delivery[d].declared] \in DeliveryRow
  BY <1>1, <1>2 DEF DeliveryRow
<1> QED BY <1>3, <1>4, <1>5

LEMMA RejectDoes ==
  ASSUME Types, NEW d \in DOMAIN delivery, NEW state,
         \/ RejectDelivery(d) /\ state = "rejected"
         \/ RejectSurplus(d) /\ state = "surplus_rejected"
  PROVE  Types' /\ IsReplaced(delivery, delivery', d, [delivery[d] EXCEPT !.state = state])
<1> DEFINE row == [delivery[d] EXCEPT !.state = state]
<1>1. row \in DeliveryRow
  BY DecidedType
<1>2. /\ delivery' = [delivery EXCEPT ![d] = row]
      /\ UNCHANGED <<account, entered, session, payment, movement, order, transfer, loan>>
  BY DEF RejectDelivery, RejectSurplus
<1> HIDE DEF row
<1>3. /\ delivery' \in Seq(DeliveryRow) /\ Len(delivery') = Len(delivery)
      /\ IsReplaced(delivery, delivery', d, row)
  BY <1>1, <1>2, DeliveryChanged
<1>4. Bounded'
  BY <1>2, <1>3, DocumentFits
<1> QED BY <1>2, <1>3, <1>4, TypesGive, TablesTyped DEF row

LEMMA ConfirmSurplusDoes ==
  ASSUME Types, NEW d \in DOMAIN delivery, NEW s \in SessionId, ConfirmSurplus(d, s)
  PROVE  /\ Types'
         /\ IsReplaced(delivery, delivery', d,
              [delivery[d] EXCEPT !.state = "surplus_confirmed", !.received = delivery[d].declared])
         /\ IsExtended(movement, movement', Row(s, "surplus", delivery[d].declared, d, 0))
<1> DEFINE row == [delivery[d] EXCEPT !.state = "surplus_confirmed", !.received = delivery[d].declared]
           amount == delivery[d].declared
<1>1. row \in DeliveryRow
  BY DecidedType
<1>2. /\ delivery' = [delivery EXCEPT ![d] = row]
      /\ AddMovement(s, "surplus", amount, d, 0)
      /\ UNCHANGED <<account, entered, payment, order, transfer, loan>>
  BY DEF ConfirmSurplus
<1>3. amount \in Int /\ d \in Nat /\ "surplus" \in MovementKinds
  BY Tables DEF DeliveryRow, MovementKinds
<1> HIDE DEF row, amount
<1>4. /\ delivery' \in Seq(DeliveryRow) /\ Len(delivery') = Len(delivery)
      /\ IsReplaced(delivery, delivery', d, row)
  BY <1>1, <1>2, DeliveryChanged
<1>5. /\ movement' \in Seq(MovementRow) /\ session' \in SessionTable
      /\ IsExtended(movement, movement', Row(s, "surplus", amount, d, 0))
  BY <1>2, <1>3, MovementAdded DEF SessionTable
<1>6. Bounded'
  BY <1>2, <1>4, DocumentFits
<1>7. Types'
  BY <1>2, <1>4, <1>5, <1>6, TypesGive, TablesTyped
<1> QED BY <1>4, <1>5, <1>7 DEF row, amount

\* Movements of no document: expenses, disbursements, the fund of an opening.
LEMMA LooseMovementsDo ==
  ASSUME Types, NEW s \in SessionId
  PROVE  /\ \A amount \in Sums : Expense(s, amount) =>
              Types' /\ IsExtended(movement, movement', Row(s, "expense", -amount, 0, 0))
         /\ \A l \in Loan : Disburse(l, "cash", s) =>
              Types' /\ IsExtended(movement, movement', Row(s, "disbursement", -Lent, 0, 0))
         /\ \A l \in Loan : Disburse(l, "transfer", s) =>
              Types' /\ IsExtended(movement, movement', Row(s, "bank_disbursement", 0, 0, 0))
         /\ \A fund \in Funds : OpenSession(s, fund) =>
              /\ Types'
              /\ \/ movement' = movement
                 \/ IsExtended(movement, movement', Row(s, "opening_initial_fund", fund, 0, 0))
<1>1. ASSUME NEW amount \in Sums, Expense(s, amount)
      PROVE  Types' /\ IsExtended(movement, movement', Row(s, "expense", -amount, 0, 0))
  <2>1. -amount \in Int /\ 0 \in Nat /\ "expense" \in MovementKinds
    BY CashSums DEF MovementKinds
  <2>2. /\ AddMovement(s, "expense", -amount, 0, 0)
        /\ UNCHANGED <<account, entered, payment, delivery, order, transfer, loan>>
    BY <1>1 DEF Expense
  <2>3. /\ movement' \in Seq(MovementRow) /\ session' \in SessionTable
        /\ IsExtended(movement, movement', Row(s, "expense", -amount, 0, 0))
    BY <2>1, <2>2, MovementAdded DEF SessionTable
  <2>4. Bounded'
    BY <2>2, DocumentFits
  <2> QED BY <2>2, <2>3, <2>4, TypesGive, TablesTyped
<1>2. ASSUME NEW l \in Loan, loan' = [loan EXCEPT ![l] = [state |-> "disbursed", owed |-> Lent]]
      PROVE  loan' \in [Loan -> LoanRow]
  <2>1. Lent \in Nat
    BY CashBounds
  <2>2. [state |-> "disbursed", owed |-> Lent] \in LoanRow
    BY <2>1 DEF LoanRow
  <2> QED BY <1>2, <2>2, TypesGive
<1>3. ASSUME NEW l \in Loan, Disburse(l, "cash", s)
      PROVE  Types' /\ IsExtended(movement, movement', Row(s, "disbursement", -Lent, 0, 0))
  <2>1. -Lent \in Int /\ 0 \in Nat /\ "disbursement" \in MovementKinds
    BY CashBounds DEF MovementKinds
  <2>2. /\ AddMovement(s, "disbursement", -Lent, 0, 0)
        /\ loan' = [loan EXCEPT ![l] = [state |-> "disbursed", owed |-> Lent]]
        /\ UNCHANGED <<account, entered, payment, delivery, order, transfer>>
    BY <1>3 DEF Disburse
  <2>3. /\ movement' \in Seq(MovementRow) /\ session' \in SessionTable
        /\ IsExtended(movement, movement', Row(s, "disbursement", -Lent, 0, 0))
    BY <2>1, <2>2, MovementAdded DEF SessionTable
  <2>4. Bounded'
    BY <2>2, DocumentFits
  <2> QED BY <1>2, <2>2, <2>3, <2>4, TypesGive, TablesTyped
<1>4. ASSUME NEW l \in Loan, Disburse(l, "transfer", s)
      PROVE  Types' /\ IsExtended(movement, movement', Row(s, "bank_disbursement", 0, 0, 0))
  <2>1. 0 \in Int /\ 0 \in Nat /\ "bank_disbursement" \in MovementKinds
    BY DEF MovementKinds
  <2>2. /\ AddMovement(s, "bank_disbursement", 0, 0, 0)
        /\ loan' = [loan EXCEPT ![l] = [state |-> "disbursed", owed |-> Lent]]
        /\ UNCHANGED <<account, entered, payment, delivery, order, transfer>>
    BY <1>4 DEF Disburse
  <2>3. /\ movement' \in Seq(MovementRow) /\ session' \in SessionTable
        /\ IsExtended(movement, movement', Row(s, "bank_disbursement", 0, 0, 0))
    BY <2>1, <2>2, MovementAdded DEF SessionTable
  <2>4. Bounded'
    BY <2>2, DocumentFits
  <2> QED BY <1>2, <2>2, <2>3, <2>4, TypesGive, TablesTyped
<1>5. ASSUME NEW fund \in Funds, OpenSession(s, fund)
      PROVE  /\ Types'
             /\ \/ movement' = movement
                \/ IsExtended(movement, movement', Row(s, "opening_initial_fund", fund, 0, 0))
  <2> DEFINE row == Row(s, "opening_initial_fund", fund, 0, 0)
  <2>1. fund \in Nat /\ row \in MovementRow
    BY CashBounds DEF Row, MovementRow
  <2>2. /\ session' = [session EXCEPT ![s] = [state |-> "open", balance |-> fund]]
        /\ movement' = movement \/ movement' = Append(movement, row)
        /\ UNCHANGED <<account, entered, payment, delivery, order, transfer, loan>>
    BY <1>5 DEF OpenSession, Row
  <2>3. session' \in SessionTable
    BY <2>1, <2>2, TypesGive DEF SessionTable
  <2> HIDE DEF row
  <2>4. movement' \in Seq(MovementRow) /\ (movement' = movement \/ IsExtended(movement, movement', row))
    BY <2>1, <2>2, TypesGive, Appended
  <2>5. Bounded'
    BY <2>2, DocumentFits
  <2> QED BY <2>2, <2>3, <2>4, <2>5, TypesGive, TablesTyped DEF row
<1> QED BY <1>1, <1>3, <1>4, <1>5

LEMMA OrdersDo ==
  ASSUME Types
  PROVE  /\ \A k \in Cashier, amount \in Int : RequestAddition(k, amount) =>
              /\ Types'
              /\ IsExtended(order, order', [cashier |-> k, amount |-> amount, state |-> "pending"])
         /\ \A o \in DOMAIN order : DropAddition(o) =>
              Types' /\ IsReplaced(order, order', o, [order[o] EXCEPT !.state = "dropped"])
         /\ \A o \in DOMAIN order, s \in SessionId : ConfirmAddition(o, s) =>
              /\ Types'
              /\ IsReplaced(order, order', o, [order[o] EXCEPT !.state = "confirmed"])
              /\ \E kind \in {"cash_addition", "withdrawal"} :
                   IsExtended(movement, movement', Row(s, kind, order[o].amount, o, 0))
<1>1. ASSUME NEW k \in Cashier, NEW amount \in Int, RequestAddition(k, amount)
      PROVE  /\ Types'
             /\ IsExtended(order, order', [cashier |-> k, amount |-> amount, state |-> "pending"])
  <2> DEFINE row == [cashier |-> k, amount |-> amount, state |-> "pending"]
  <2>1. row \in OrderRow
    BY DEF OrderRow
  <2>2. /\ order' = Append(order, row) /\ Room
        /\ UNCHANGED <<account, entered, session, payment, delivery, movement, transfer, loan>>
    BY <1>1 DEF RequestAddition
  <2> HIDE DEF row
  <2>3. order' \in Seq(OrderRow) /\ Len(order') = Len(order) + 1 /\ IsExtended(order, order', row)
    BY <2>1, <2>2, TypesGive, Appended DEF IsExtended
  <2>4. Bounded'
    BY <2>2, <2>3, DocumentFits
  <2> QED BY <2>2, <2>3, <2>4, TypesGive, TablesTyped DEF row
<1>2. ASSUME NEW o \in DOMAIN order
      PROVE  /\ order[o] \in OrderRow /\ order[o].amount \in Int /\ o \in Nat
             /\ [order[o] EXCEPT !.state = "dropped"] \in OrderRow
             /\ [order[o] EXCEPT !.state = "confirmed"] \in OrderRow
  BY <1>2, Tables DEF OrderRow
<1>3. ASSUME NEW o \in DOMAIN order, DropAddition(o)
      PROVE  Types' /\ IsReplaced(order, order', o, [order[o] EXCEPT !.state = "dropped"])
  <2> DEFINE row == [order[o] EXCEPT !.state = "dropped"]
  <2>1. /\ order' = [order EXCEPT ![o] = row]
        /\ UNCHANGED <<account, entered, session, payment, delivery, movement, transfer, loan>>
    BY <1>3, <1>2 DEF DropAddition
  <2>2. row \in OrderRow
    BY <1>2
  <2> HIDE DEF row
  <2>3. order' \in Seq(OrderRow) /\ Len(order') = Len(order) /\ IsReplaced(order, order', o, row)
    BY <2>1, <2>2, TypesGive, Replaced DEF IsReplaced
  <2>4. Bounded'
    BY <2>1, <2>3, DocumentFits
  <2> QED BY <2>1, <2>3, <2>4, TypesGive, TablesTyped DEF row
<1>4. ASSUME NEW o \in DOMAIN order, NEW s \in SessionId, ConfirmAddition(o, s)
      PROVE  /\ Types'
             /\ IsReplaced(order, order', o, [order[o] EXCEPT !.state = "confirmed"])
             /\ \E kind \in {"cash_addition", "withdrawal"} :
                  IsExtended(movement, movement', Row(s, kind, order[o].amount, o, 0))
  <2> DEFINE row == [order[o] EXCEPT !.state = "confirmed"]
             kind == IF order[o].amount > 0 THEN "cash_addition" ELSE "withdrawal"
  <2>1. /\ order' = [order EXCEPT ![o] = row]
        /\ AddMovement(s, kind, order[o].amount, o, 0)
        /\ UNCHANGED <<account, entered, payment, delivery, transfer, loan>>
    BY <1>4, <1>2 DEF ConfirmAddition
  <2>2. row \in OrderRow
    BY <1>2
  <2>3. kind \in MovementKinds /\ kind \in {"cash_addition", "withdrawal"}
    BY DEF MovementKinds
  <2> HIDE DEF row, kind
  <2>4. order' \in Seq(OrderRow) /\ Len(order') = Len(order) /\ IsReplaced(order, order', o, row)
    BY <2>1, <2>2, TypesGive, Replaced DEF IsReplaced
  <2>5. /\ movement' \in Seq(MovementRow) /\ session' \in SessionTable
        /\ IsExtended(movement, movement', Row(s, kind, order[o].amount, o, 0))
    BY <1>2, <2>1, <2>3, MovementAdded DEF SessionTable
  <2>6. Bounded'
    BY <2>1, <2>4, DocumentFits
  <2>7. Types'
    BY <2>1, <2>4, <2>5, <2>6, TypesGive, TablesTyped
  <2> QED BY <2>3, <2>4, <2>5, <2>7 DEF row
<1> QED BY <1>1, <1>3, <1>4

LEMMA AccountsDo ==
  ASSUME Types
  PROVE  /\ \A s \in SessionId : CloseSession(s) => Types'
         /\ \A c \in Collector, to \in Moves : CheckChange(c, to) => Types'
         /\ \A c \in Collector : Change(c) => Types'
<1>1. ASSUME NEW s \in SessionId, CloseSession(s)
      PROVE  Types'
  <2>1. session' = [session EXCEPT ![s] = [session[s] EXCEPT !.state = "closed"]]
        /\ UNCHANGED <<account, entered, payment, delivery, movement, order, transfer, loan>>
    BY <1>1, TypesGive DEF CloseSession, SessionTable
  <2>2. session' \in SessionTable
    BY <2>1, TypesGive DEF SessionTable
  <2>3. Bounded'
    BY <2>1, DocumentFits
  <2> QED BY <2>1, <2>2, <2>3, TypesGive, TablesTyped
<1>2. ASSUME NEW c \in Collector, NEW to \in Moves, CheckChange(c, to)
      PROVE  Types'
  <2>1. account' = [account EXCEPT ![c] = [account[c] EXCEPT !.to = to]]
        /\ UNCHANGED <<entered, session, payment, delivery, movement, order, transfer, loan>>
    BY <1>2, TypesGive DEF CheckChange, AccountTable
  <2>2. account' \in AccountTable
    BY <2>1, CashMoves, TypesGive DEF AccountTable, Place
  <2>3. Bounded'
    BY <2>1, DocumentFits
  <2> QED BY <2>1, <2>2, <2>3, TypesGive, TablesTyped
<1>3. ASSUME NEW c \in Collector, Change(c)
      PROVE  Types'
  <2>1. account' = [account EXCEPT ![c] = [place |-> account[c].to, to |-> None]]
        /\ UNCHANGED <<entered, session, payment, delivery, movement, order, transfer, loan>>
        /\ account[c].to # None
    BY <1>3 DEF Change
  <2>2. account[c].to \in Place
    BY <2>1, TypesGive DEF AccountTable
  <2>3. account' \in AccountTable
    BY <2>1, <2>2, TypesGive DEF AccountTable
  <2>4. Bounded'
    BY <2>1, DocumentFits
  <2> QED BY <2>1, <2>3, <2>4, TypesGive, TablesTyped
<1> QED BY <1>1, <1>2, <1>3

-----------------------------------------------------------------------------
(* What is booked about the documents, row by row.                         *)

Correctable ==
  {"counter_payment", "delivery", "surplus", "cash_addition", "withdrawal", "expense", "disbursement"}
OfCounter == {"counter_payment"}
OfCollectors == {"delivery", "surplus"}
OfOrders == {"cash_addition", "withdrawal"}
InForce == {"confirmed", "surplus_confirmed"}

\* A reversal stands for one movement that is none, about the same document, and takes it back whole.
ReversalsStand ==
  /\ \A m \in DOMAIN movement :
       LET r == movement[m].reverses
       IN IF movement[m].kind = "reversal"
          THEN /\ r \in DOMAIN movement /\ movement[r].kind \in Correctable
               /\ movement[m].of = movement[r].of /\ movement[m].amount = -movement[r].amount
          ELSE r = 0
  /\ \A m, n \in DOMAIN movement :
       movement[m].reverses = movement[n].reverses /\ movement[m].reverses # 0 => m = n

\* A document is booked once.
OncePerDocument ==
  \A kinds \in {OfCounter, OfCollectors, OfOrders} : \A m, n \in DOMAIN movement :
    movement[m].kind \in kinds /\ movement[n].kind \in kinds /\ movement[m].of = movement[n].of => m = n

CounterBooked ==
  \A m \in DOMAIN movement : movement[m].kind \in OfCounter =>
    LET p == movement[m].of
    IN p \in DOMAIN payment /\ payment[p].origin = "counter" /\ payment[p].amount = movement[m].amount

\* A delivery or surplus is in force exactly while it is booked and that is not reversed.
DeliveriesBooked ==
  /\ \A m \in DOMAIN movement : movement[m].kind \in OfCollectors =>
       LET d == movement[m].of
       IN /\ d \in DOMAIN delivery
          /\ IF IsReversed(m) THEN delivery[d].state = "reversed"
             ELSE delivery[d].state \in InForce /\ delivery[d].received = movement[m].amount
  /\ \A d \in DOMAIN delivery : delivery[d].state \in InForce =>
       \E m \in DOMAIN movement : movement[m].kind \in OfCollectors /\ movement[m].of = d

OrdersBooked ==
  \A m \in DOMAIN movement : movement[m].kind \in OfOrders =>
    LET o == movement[m].of
    IN o \in DOMAIN order /\ order[o].state = "confirmed" /\ order[o].amount = movement[m].amount

DocumentsStand == ReversalsStand /\ OncePerDocument /\ CounterBooked /\ DeliveriesBooked /\ OrdersBooked

Opposite(row) ==
  [row EXCEPT !.state = "reversal", !.declared = 0, !.received = -row.received,
              !.parts = [p \in PaymentId |-> -row.parts[p]]]

LEMMA OppositeType ==
  ASSUME NEW row \in DeliveryRow
  PROVE  /\ Opposite(row) \in DeliveryRow /\ Opposite(row).state = "reversal"
         /\ Opposite(row).parts = [p \in PaymentId |-> -row.parts[p]]
         /\ [row EXCEPT !.state = "reversed"] \in DeliveryRow
         /\ [row EXCEPT !.state = "reversed"].state = "reversed"
         /\ [row EXCEPT !.state = "reversed"].parts = row.parts
<1>1. [p \in PaymentId |-> -row.parts[p]] \in Parts /\ -row.received \in Int /\ 0 \in Nat
  BY DEF DeliveryRow, Parts
<1> DEFINE back == [p \in PaymentId |-> -row.parts[p]]
           took == -row.received
<1>2. Opposite(row) = [row EXCEPT !.state = "reversal", !.declared = 0, !.received = took, !.parts = back]
  BY DEF Opposite
<1> HIDE DEF back, took
<1>3. Opposite(row) \in DeliveryRow /\ Opposite(row).state = "reversal" /\ Opposite(row).parts = back
  BY <1>1, <1>2 DEF DeliveryRow, back, took
<1>4. /\ [row EXCEPT !.state = "reversed"] \in DeliveryRow
      /\ [row EXCEPT !.state = "reversed"].state = "reversed"
      /\ [row EXCEPT !.state = "reversed"].parts = row.parts
  BY DEF DeliveryRow
<1> QED BY <1>3, <1>4 DEF back

LEMMA ReverseDoes ==
  ASSUME Types, CounterBooked, DeliveriesBooked, NEW m \in DOMAIN movement, NEW s \in SessionId,
         ReverseMovement(m, s)
  PROVE  LET of == movement[m].of
             l == payment[of].loan
             row == delivery[of]
         IN /\ Types'
            /\ movement[m].kind \in Correctable /\ ~IsReversed(m)
            /\ IsExtended(movement, movement', Row(s, "reversal", -movement[m].amount, of, m))
            /\ movement[m].kind \notin OfCounter => loan' = loan
            /\ movement[m].kind \in OfCounter =>
                 /\ l \in Loan /\ loan'[l].state = loan[l].state
                 /\ loan'[l].owed = IF Lent <= loan[l].owed + payment[of].amount THEN Lent
                                    ELSE loan[l].owed + payment[of].amount
                 /\ \A k \in Loan \ {l} : loan'[k] = loan[k]
            /\ movement[m].kind \notin OfCollectors => delivery' = delivery
            /\ movement[m].kind \in OfCollectors =>
                 /\ of \in DOMAIN delivery
                 /\ \E marked \in Seq(DeliveryRow) :
                      /\ IsReplaced(delivery, marked, of, [row EXCEPT !.state = "reversed"])
                      /\ IsExtended(marked, delivery', Opposite(row))
            /\ UNCHANGED <<payment, order>>
<1> DEFINE of == movement[m].of
           l == payment[of].loan
           row == delivery[of]
           marked == [delivery EXCEPT ![of] = [row EXCEPT !.state = "reversed"]]
<1>1. /\ movement[m].kind \in Correctable /\ ~IsReversed(m)
      /\ AddMovement(s, "reversal", -movement[m].amount, of, m)
      /\ UNCHANGED <<account, entered, payment, order, transfer>>
  BY DEF ReverseMovement, Correctable
<1>2. movement[m] \in MovementRow /\ of \in Nat /\ -movement[m].amount \in Int /\ m \in Nat
      /\ "reversal" \in MovementKinds
  BY Tables DEF MovementRow, MovementKinds
<1>3. /\ movement' \in Seq(MovementRow) /\ session' \in SessionTable
      /\ IsExtended(movement, movement', Row(s, "reversal", -movement[m].amount, of, m))
  <2> HIDE DEF of
  <2> QED BY <1>1, <1>2, MovementAdded DEF SessionTable
<1>4. CASE movement[m].kind \in OfCounter
  <2>1. of \in DOMAIN payment /\ payment[of] \in PaymentRow
    BY <1>4, Tables DEF CounterBooked
  <2>2. l \in Loan /\ payment[of].amount \in Amount /\ loan[l] \in LoanRow /\ Lent \in Nat
    BY <2>1, TypesGive, CashBounds DEF PaymentRow
  <2> DEFINE sum == loan[l].owed + payment[of].amount
             back == IF Lent <= sum THEN Lent ELSE sum
  <2>3. loan[l].owed \in Nat /\ payment[of].amount \in Nat /\ sum \in Nat
    BY <2>2 DEF LoanRow, Amount
  <2>4. Restored(of) = [loan EXCEPT ![l] = [loan[l] EXCEPT !.owed = Min({Lent, sum})]]
    BY <2>2, TypesGive DEF Restored, LoanRow
  <2> HIDE DEF sum
  <2>5. Min({Lent, sum}) = back
    BY <2>2, <2>3, MinOfTwo
  <2>6. back \in 0 .. Lent
    BY <2>2, <2>3
  <2> HIDE DEF back
  <2>7. loan' = [loan EXCEPT ![l] = [loan[l] EXCEPT !.owed = back]] /\ delivery' = delivery
    BY <1>4, <2>4, <2>5 DEF ReverseMovement, OfCounter
  <2>8. loan' \in [Loan -> LoanRow] /\ loan'[l].state = loan[l].state /\ loan'[l].owed = back
        /\ \A k \in Loan \ {l} : loan'[k] = loan[k]
    BY <2>2, <2>6, <2>7, TypesGive DEF LoanRow
  <2>9. Bounded'
    BY <1>1, <2>7, DocumentFits
  <2>10. Types'
    BY <1>1, <1>3, <2>7, <2>8, <2>9, TypesGive, TablesTyped
  <2> QED BY <1>1, <1>3, <1>4, <2>2, <2>7, <2>8, <2>10 DEF OfCounter, OfCollectors, back, sum
<1>5. CASE movement[m].kind \in OfCollectors
  <2>1. of \in DOMAIN delivery /\ row \in DeliveryRow
    BY <1>5, Tables DEF DeliveriesBooked
  <2>2. delivery' = Compensated(of) /\ Room /\ loan' = loan
    BY <1>5 DEF ReverseMovement, OfCollectors
  <2>3. delivery' = Append(marked, Opposite(row))
    BY <2>1, <2>2 DEF Compensated, Opposite, DeliveryRow
  <2>4. [row EXCEPT !.state = "reversed"] \in DeliveryRow /\ Opposite(row) \in DeliveryRow
    BY <2>1, OppositeType
  <2>5. marked \in Seq(DeliveryRow)
        /\ IsReplaced(delivery, marked, of, [row EXCEPT !.state = "reversed"])
    <3> DEFINE new == [row EXCEPT !.state = "reversed"]
    <3> HIDE DEF new, row, of
    <3> QED BY <2>1, <2>4, TypesGive, Replaced DEF new
  <2> HIDE DEF marked
  <2>6. delivery' \in Seq(DeliveryRow) /\ IsExtended(marked, delivery', Opposite(row))
    BY <2>3, <2>4, <2>5, Appended
  <2>7. Len(delivery') = Len(delivery) + 1
    BY <2>5, <2>6 DEF IsReplaced, IsExtended
  <2>8. Bounded'
    BY <1>1, <2>2, <2>7, DocumentFits
  <2>9. Types'
    BY <1>1, <1>3, <2>2, <2>6, <2>8, TypesGive, TablesTyped
  <2>10. movement[m].kind \notin OfCounter
    BY <1>5 DEF OfCounter, OfCollectors
  <2> QED BY <1>1, <1>3, <1>5, <2>1, <2>2, <2>5, <2>6, <2>9, <2>10
<1>6. CASE movement[m].kind \notin OfCounter \cup OfCollectors
  <2>1. loan' = loan /\ delivery' = delivery
    BY <1>6 DEF ReverseMovement, OfCounter, OfCollectors
  <2>2. Bounded'
    BY <1>1, <2>1, DocumentFits
  <2>3. Types'
    BY <1>1, <1>3, <2>1, <2>2, TypesGive, TablesTyped
  <2> QED BY <1>1, <1>3, <1>6, <2>1, <2>3
<1> QED BY <1>4, <1>5, <1>6

\* A movement more: one that reverses nothing, or one that reverses a movement not reversed before.
Reversing(row, m) ==
  /\ m \in DOMAIN movement /\ movement[m].kind \in Correctable /\ ~IsReversed(m)
  /\ row.kind = "reversal" /\ row.reverses = m
  /\ row.of = movement[m].of /\ row.amount = -movement[m].amount
Plain(row) == row.kind # "reversal" /\ row.reverses = 0

LEMMA ReversalsKept ==
  ASSUME Types, ReversalsStand,
         \/ movement' = movement
         \/ \E row : IsExtended(movement, movement', row) /\ (Plain(row) \/ \E m : Reversing(row, m))
  PROVE  ReversalsStand'
<1>1. CASE movement' = movement
  BY <1>1 DEF ReversalsStand
<1>2. ASSUME NEW row, IsExtended(movement, movement', row), Plain(row) \/ \E m : Reversing(row, m)
      PROVE  ReversalsStand'
  <2> DEFINE N == Len(movement) + 1
  <2>1. /\ DOMAIN movement' = DOMAIN movement \cup {N} /\ N \notin DOMAIN movement
        /\ movement'[N] = row /\ \A i \in DOMAIN movement : movement'[i] = movement[i] /\ i # 0
    BY <1>2, Tables DEF IsExtended
  <2>2. ASSUME NEW n \in DOMAIN movement
        PROVE  LET r == movement'[n].reverses
               IN IF movement'[n].kind = "reversal"
                  THEN /\ r \in DOMAIN movement' /\ movement'[r].kind \in Correctable
                       /\ movement'[n].of = movement'[r].of /\ movement'[n].amount = -movement'[r].amount
                  ELSE r = 0
    BY <2>1 DEF ReversalsStand
  <2>3. LET r == movement'[N].reverses
        IN IF movement'[N].kind = "reversal"
           THEN /\ r \in DOMAIN movement' /\ movement'[r].kind \in Correctable
                /\ movement'[N].of = movement'[r].of /\ movement'[N].amount = -movement'[r].amount
           ELSE r = 0
    BY <1>2, <2>1 DEF Plain, Reversing
  <2>4. \A i \in DOMAIN movement : row.reverses = movement[i].reverses => row.reverses = 0
    BY <1>2 DEF Plain, Reversing, IsReversed
  <2>5. \A i, j \in DOMAIN movement' :
          movement'[i].reverses = movement'[j].reverses /\ movement'[i].reverses # 0 => i = j
    BY <2>1, <2>4 DEF ReversalsStand
  <2>6. \A n \in DOMAIN movement' :
          LET r == movement'[n].reverses
          IN IF movement'[n].kind = "reversal"
             THEN /\ r \in DOMAIN movement' /\ movement'[r].kind \in Correctable
                  /\ movement'[n].of = movement'[r].of /\ movement'[n].amount = -movement'[r].amount
             ELSE r = 0
    BY <2>1, <2>2, <2>3
  <2> QED BY <2>5, <2>6 DEF ReversalsStand
<1> QED BY <1>1, <1>2

\* Which movements are reversed afterwards.
LEMMA ReversedAfter ==
  ASSUME Types, ReversalsStand, NEW row, IsExtended(movement, movement', row)
  PROVE  /\ ~IsReversed(Len(movement) + 1)
         /\ row.reverses # Len(movement) + 1 => ~ \E n \in DOMAIN movement' : movement'[n].reverses = Len(movement) + 1
         /\ \A m \in DOMAIN movement :
              (\E n \in DOMAIN movement' : movement'[n].reverses = m) <=> IsReversed(m) \/ row.reverses = m
<1> DEFINE N == Len(movement) + 1
<1>1. /\ DOMAIN movement' = DOMAIN movement \cup {N} /\ N \notin DOMAIN movement
      /\ movement'[N] = row /\ \A i \in DOMAIN movement : movement'[i] = movement[i]
      /\ N # 0
  BY Tables DEF IsExtended
<1>2. \A n \in DOMAIN movement : movement[n].reverses # N
  BY <1>1 DEF ReversalsStand
<1> HIDE DEF N
<1>3. ~IsReversed(N)
  BY <1>2 DEF IsReversed
<1>4. row.reverses # N => ~ \E n \in DOMAIN movement' : movement'[n].reverses = N
  BY <1>1, <1>2
<1>5. \A m \in DOMAIN movement :
        (\E n \in DOMAIN movement' : movement'[n].reverses = m) <=> IsReversed(m) \/ row.reverses = m
  BY <1>1 DEF IsReversed
<1> QED BY <1>3, <1>4, <1>5 DEF N

IsNew(row) ==
  \A kinds \in {OfCounter, OfCollectors, OfOrders} : row.kind \in kinds =>
    \A m \in DOMAIN movement : movement[m].kind \in kinds => movement[m].of # row.of

LEMMA OnceKept ==
  ASSUME Types, OncePerDocument,
         movement' = movement \/ \E row : IsExtended(movement, movement', row) /\ IsNew(row)
  PROVE  OncePerDocument'
<1>1. CASE movement' = movement
  BY <1>1 DEF OncePerDocument
<1>2. ASSUME NEW row, IsExtended(movement, movement', row), IsNew(row)
      PROVE  OncePerDocument'
  <2> DEFINE N == Len(movement) + 1
  <2>1. /\ DOMAIN movement' = DOMAIN movement \cup {N} /\ N \notin DOMAIN movement
        /\ movement'[N] = row /\ \A i \in DOMAIN movement : movement'[i] = movement[i]
    BY <1>2, Tables DEF IsExtended
  <2> HIDE DEF N
  <2>2. ASSUME NEW kinds \in {OfCounter, OfCollectors, OfOrders}, NEW m \in DOMAIN movement',
               NEW n \in DOMAIN movement', movement'[m].kind \in kinds, movement'[n].kind \in kinds,
               movement'[m].of = movement'[n].of
        PROVE  m = n
    <3>1. CASE m \in DOMAIN movement /\ n \in DOMAIN movement
      <4>1. movement[m].kind \in kinds /\ movement[n].kind \in kinds /\ movement[m].of = movement[n].of
        BY <2>1, <2>2, <3>1
      <4> QED BY <3>1, <4>1 DEF OncePerDocument
    <3>2. CASE m = N /\ n \in DOMAIN movement
      BY <1>2, <2>1, <2>2, <3>2 DEF IsNew
    <3>3. CASE n = N /\ m \in DOMAIN movement
      BY <1>2, <2>1, <2>2, <3>3 DEF IsNew
    <3> QED BY <2>1, <3>1, <3>2, <3>3
  <2> QED BY <2>2 DEF OncePerDocument
<1> QED BY <1>1, <1>2

PaymentsStay == \A p \in DOMAIN payment : p \in DOMAIN payment' /\ payment'[p] = payment[p]
OrdersStay ==
  \A o \in DOMAIN order : order[o].state = "confirmed" => o \in DOMAIN order' /\ order'[o] = order[o]

LEMMA CounterBookedKept ==
  ASSUME Types, CounterBooked, PaymentsStay,
         \/ movement' = movement
         \/ \E row :
              /\ IsExtended(movement, movement', row)
              /\ row.kind \in OfCounter =>
                   /\ row.of \in DOMAIN payment' /\ payment'[row.of].origin = "counter"
                   /\ payment'[row.of].amount = row.amount
  PROVE  CounterBooked'
<1>1. CASE movement' = movement
  BY <1>1 DEF CounterBooked, PaymentsStay
<1>2. ASSUME NEW row, IsExtended(movement, movement', row),
             row.kind \in OfCounter =>
               /\ row.of \in DOMAIN payment' /\ payment'[row.of].origin = "counter"
               /\ payment'[row.of].amount = row.amount
      PROVE  CounterBooked'
  <2> DEFINE N == Len(movement) + 1
  <2>1. /\ DOMAIN movement' = DOMAIN movement \cup {N}
        /\ movement'[N] = row /\ \A i \in DOMAIN movement : movement'[i] = movement[i]
    BY <1>2, Tables DEF IsExtended
  <2> HIDE DEF N
  <2>2. ASSUME NEW m \in DOMAIN movement', movement'[m].kind \in OfCounter
        PROVE  LET p == movement'[m].of
               IN p \in DOMAIN payment' /\ payment'[p].origin = "counter"
                  /\ payment'[p].amount = movement'[m].amount
    <3>1. CASE m = N
      BY <1>2, <2>1, <2>2, <3>1
    <3>2. CASE m \in DOMAIN movement
      BY <2>1, <2>2, <3>2 DEF CounterBooked, PaymentsStay
    <3> QED BY <2>1, <3>1, <3>2
  <2> QED BY <2>2 DEF CounterBooked
<1> QED BY <1>1, <1>2

LEMMA OrdersBookedKept ==
  ASSUME Types, OrdersBooked, OrdersStay,
         \/ movement' = movement
         \/ \E row :
              /\ IsExtended(movement, movement', row)
              /\ row.kind \in OfOrders =>
                   /\ row.of \in DOMAIN order' /\ order'[row.of].state = "confirmed"
                   /\ order'[row.of].amount = row.amount
  PROVE  OrdersBooked'
<1>1. CASE movement' = movement
  BY <1>1 DEF OrdersBooked, OrdersStay
<1>2. ASSUME NEW row, IsExtended(movement, movement', row),
             row.kind \in OfOrders =>
               /\ row.of \in DOMAIN order' /\ order'[row.of].state = "confirmed"
               /\ order'[row.of].amount = row.amount
      PROVE  OrdersBooked'
  <2> DEFINE N == Len(movement) + 1
  <2>1. /\ DOMAIN movement' = DOMAIN movement \cup {N}
        /\ movement'[N] = row /\ \A i \in DOMAIN movement : movement'[i] = movement[i]
    BY <1>2, Tables DEF IsExtended
  <2> HIDE DEF N
  <2>2. ASSUME NEW m \in DOMAIN movement', movement'[m].kind \in OfOrders
        PROVE  LET o == movement'[m].of
               IN o \in DOMAIN order' /\ order'[o].state = "confirmed"
                  /\ order'[o].amount = movement'[m].amount
    <3>1. CASE m = N
      BY <1>2, <2>1, <2>2, <3>1
    <3>2. CASE m \in DOMAIN movement
      BY <2>1, <2>2, <3>2 DEF OrdersBooked, OrdersStay
    <3> QED BY <2>1, <3>1, <3>2
  <2> QED BY <2>2 DEF OrdersBooked
<1> QED BY <1>1, <1>2

Settled == InForce \cup {"reversed"}

\* Documents of collectors other than those of D that are settled stay as they are, and no other is
\* settled.
DeliveriesStay(D) ==
  /\ \A d \in DOMAIN delivery \ D : delivery[d].state \in Settled =>
       d \in DOMAIN delivery' /\ delivery'[d] = delivery[d]
  /\ \A d \in DOMAIN delivery' \ D : delivery'[d].state \in InForce =>
       d \in DOMAIN delivery /\ delivery'[d] = delivery[d]

LEMMA DeliveriesBookedStay ==
  ASSUME Types, ReversalsStand, DeliveriesBooked, DeliveriesStay({}),
         \/ movement' = movement
         \/ \E row :
              /\ IsExtended(movement, movement', row)
              /\ row.kind \notin OfCollectors
              /\ \/ row.reverses = 0
                 \/ row.reverses \in DOMAIN movement /\ movement[row.reverses].kind \notin OfCollectors
  PROVE  DeliveriesBooked'
<1>1. CASE movement' = movement
  <2>1. \A m : IsReversed(m)' <=> IsReversed(m)
    BY <1>1 DEF IsReversed
  <2>2. ASSUME NEW m \in DOMAIN movement', movement'[m].kind \in OfCollectors
        PROVE  LET d == movement'[m].of
               IN /\ d \in DOMAIN delivery'
                  /\ IF IsReversed(m)' THEN delivery'[d].state = "reversed"
                     ELSE delivery'[d].state \in InForce /\ delivery'[d].received = movement'[m].amount
    BY <1>1, <2>1, <2>2 DEF DeliveriesBooked, DeliveriesStay, Settled
  <2>3. ASSUME NEW d \in DOMAIN delivery', delivery'[d].state \in InForce
        PROVE  \E m \in DOMAIN movement' : movement'[m].kind \in OfCollectors /\ movement'[m].of = d
    BY <1>1, <2>3 DEF DeliveriesBooked, DeliveriesStay
  <2> QED BY <2>2, <2>3 DEF DeliveriesBooked, IsReversed
<1>2. ASSUME NEW row, IsExtended(movement, movement', row), row.kind \notin OfCollectors,
             \/ row.reverses = 0
             \/ row.reverses \in DOMAIN movement /\ movement[row.reverses].kind \notin OfCollectors
      PROVE  DeliveriesBooked'
  <2> DEFINE N == Len(movement) + 1
             Back(m) == \E n \in DOMAIN movement' : movement'[n].reverses = m
  <2>1. /\ DOMAIN movement' = DOMAIN movement \cup {N} /\ \A i \in DOMAIN movement : i # 0
        /\ movement'[N] = row /\ \A i \in DOMAIN movement : movement'[i] = movement[i]
    BY <1>2, Tables DEF IsExtended
  <2>2. \A m \in DOMAIN movement : movement[m].kind \in OfCollectors => (Back(m) <=> IsReversed(m))
    BY <1>2, <2>1, ReversedAfter
  <2> HIDE DEF N, Back
  <2>3. ASSUME NEW m \in DOMAIN movement', movement'[m].kind \in OfCollectors
        PROVE  LET d == movement'[m].of
               IN /\ d \in DOMAIN delivery'
                  /\ IF Back(m) THEN delivery'[d].state = "reversed"
                     ELSE delivery'[d].state \in InForce /\ delivery'[d].received = movement'[m].amount
    <3>1. m \in DOMAIN movement /\ movement'[m] = movement[m]
      BY <1>2, <2>1, <2>3
    <3> QED BY <2>2, <2>3, <3>1 DEF DeliveriesBooked, DeliveriesStay, Settled
  <2>4. ASSUME NEW d \in DOMAIN delivery', delivery'[d].state \in InForce
        PROVE  \E m \in DOMAIN movement' : movement'[m].kind \in OfCollectors /\ movement'[m].of = d
    <3>1. PICK m \in DOMAIN movement : movement[m].kind \in OfCollectors /\ movement[m].of = d
      BY <2>4 DEF DeliveriesBooked, DeliveriesStay
    <3> QED BY <2>1, <3>1
  <2> QED BY <2>3, <2>4 DEF DeliveriesBooked, IsReversed, Back
<1> QED BY <1>1, <1>2

\* A delivery is received, or a surplus confirmed.
LEMMA DeliverySettled ==
  ASSUME Types, ReversalsStand, DeliveriesBooked, NEW d, NEW row,
         d \in DOMAIN delivery => delivery[d].state \notin Settled,
         IsExtended(movement, movement', row), row.kind \in OfCollectors, row.of = d, row.reverses = 0,
         d \in DOMAIN delivery', delivery'[d].state \in InForce, delivery'[d].received = row.amount,
         DeliveriesStay({d})
  PROVE  DeliveriesBooked' /\ IsNew(row)
<1> DEFINE N == Len(movement) + 1
           Back(m) == \E n \in DOMAIN movement' : movement'[n].reverses = m
<1>1. /\ DOMAIN movement' = DOMAIN movement \cup {N} /\ \A i \in DOMAIN movement : i # 0
      /\ movement'[N] = row /\ \A i \in DOMAIN movement : movement'[i] = movement[i] /\ N # 0
  BY Tables DEF IsExtended
<1>2. ~Back(N) /\ \A m \in DOMAIN movement : Back(m) <=> IsReversed(m)
  BY <1>1, ReversedAfter
<1>3. \A m \in DOMAIN movement : movement[m].kind \in OfCollectors => movement[m].of # d
  BY DEF DeliveriesBooked, Settled
<1> HIDE DEF N, Back
<1>4. IsNew(row)
  BY <1>3 DEF IsNew, OfCounter, OfCollectors, OfOrders
<1>5. ASSUME NEW m \in DOMAIN movement', movement'[m].kind \in OfCollectors
      PROVE  LET e == movement'[m].of
             IN /\ e \in DOMAIN delivery'
                /\ IF Back(m) THEN delivery'[e].state = "reversed"
                   ELSE delivery'[e].state \in InForce /\ delivery'[e].received = movement'[m].amount
  <2>1. CASE m = N
    BY <1>1, <1>2, <2>1
  <2>2. CASE m \in DOMAIN movement
    <3>1. movement'[m] = movement[m] /\ movement[m].of # d
      BY <1>1, <1>3, <1>5, <2>2
    <3> QED BY <1>2, <1>5, <2>2, <3>1 DEF DeliveriesBooked, DeliveriesStay, Settled
  <2> QED BY <1>1, <2>1, <2>2
<1>6. ASSUME NEW e \in DOMAIN delivery', delivery'[e].state \in InForce
      PROVE  \E m \in DOMAIN movement' : movement'[m].kind \in OfCollectors /\ movement'[m].of = e
  <2>1. CASE e = d
    BY <1>1, <2>1
  <2>2. CASE e # d
    <3>1. PICK m \in DOMAIN movement : movement[m].kind \in OfCollectors /\ movement[m].of = e
      BY <1>6, <2>2 DEF DeliveriesBooked, DeliveriesStay
    <3> QED BY <1>1, <3>1
  <2> QED BY <2>1, <2>2
<1> QED BY <1>4, <1>5, <1>6 DEF DeliveriesBooked, IsReversed, Back

\* The receipt of a delivery or surplus is taken back.
LEMMA DeliveryReversed ==
  ASSUME Types, ReversalsStand, OncePerDocument, DeliveriesBooked, NEW m, NEW row, Reversing(row, m),
         movement[m].kind \in OfCollectors, IsExtended(movement, movement', row),
         movement[m].of \in DOMAIN delivery', delivery'[movement[m].of].state = "reversed",
         DeliveriesStay({movement[m].of})
  PROVE  DeliveriesBooked'
<1> DEFINE N == Len(movement) + 1
           d == movement[m].of
           Back(n) == \E i \in DOMAIN movement' : movement'[i].reverses = n
<1>1. /\ DOMAIN movement' = DOMAIN movement \cup {N} /\ m \in DOMAIN movement
      /\ movement'[N] = row /\ \A i \in DOMAIN movement : movement'[i] = movement[i]
      /\ row.kind \notin OfCollectors
  BY Tables DEF IsExtended, Reversing, OfCollectors
<1>2. \A n \in DOMAIN movement : Back(n) <=> IsReversed(n) \/ n = m
  BY <1>1, ReversedAfter DEF Reversing
<1>3. \A n \in DOMAIN movement : movement[n].kind \in OfCollectors /\ movement[n].of = d => n = m
  BY <1>1 DEF OncePerDocument
<1>a. d \in DOMAIN delivery' /\ delivery'[d].state = "reversed" /\ DeliveriesStay({d})
  OBVIOUS
<1>b. "reversed" \notin InForce
  BY DEF InForce
<1> HIDE DEF N, Back
<1>4. ASSUME NEW n \in DOMAIN movement', movement'[n].kind \in OfCollectors
      PROVE  LET e == movement'[n].of
             IN /\ e \in DOMAIN delivery'
                /\ IF Back(n) THEN delivery'[e].state = "reversed"
                   ELSE delivery'[e].state \in InForce /\ delivery'[e].received = movement'[n].amount
  <2>1. n \in DOMAIN movement /\ movement'[n] = movement[n]
    BY <1>1, <1>4
  <2>2. CASE n = m
    BY <1>a, <1>2, <2>1, <2>2
  <2>3. CASE n # m
    <3>1. movement[n].of # d
      BY <1>3, <1>4, <2>1, <2>3
    <3> HIDE DEF d
    <3> QED BY <1>a, <1>2, <1>4, <2>1, <2>3, <3>1 DEF DeliveriesBooked, DeliveriesStay, Settled
  <2> QED BY <2>2, <2>3
<1>5. ASSUME NEW e \in DOMAIN delivery', delivery'[e].state \in InForce
      PROVE  \E n \in DOMAIN movement' : movement'[n].kind \in OfCollectors /\ movement'[n].of = e
  <2>1. e # d
    BY <1>a, <1>b, <1>5
  <2> HIDE DEF d
  <2>2. PICK n \in DOMAIN movement : movement[n].kind \in OfCollectors /\ movement[n].of = e
    BY <1>a, <1>5, <2>1 DEF DeliveriesBooked, DeliveriesStay
  <2> QED BY <1>1, <2>2
<1> QED BY <1>4, <1>5 DEF DeliveriesBooked, IsReversed, Back

\* Steps after which every document is booked as before.
Loose(row) ==
  row.kind \notin OfCounter \cup OfCollectors \cup OfOrders \cup {"reversal"} /\ row.reverses = 0

LEMMA DocumentsUndisturbed ==
  ASSUME Types, DocumentsStand, PaymentsStay, OrdersStay, DeliveriesStay({}),
         movement' = movement \/ \E row : IsExtended(movement, movement', row) /\ Loose(row)
  PROVE  DocumentsStand'
<1>1. ReversalsStand'
  BY ReversalsKept DEF DocumentsStand, Loose, Plain
<1>2. OncePerDocument'
  <2>1. \A row : Loose(row) => IsNew(row)
    BY DEF Loose, IsNew
  <2> QED BY <2>1, OnceKept DEF DocumentsStand
<1>3. CounterBooked'
  BY CounterBookedKept DEF DocumentsStand, Loose
<1>4. OrdersBooked'
  BY OrdersBookedKept DEF DocumentsStand, Loose
<1>5. DeliveriesBooked'
  BY DeliveriesBookedStay DEF DocumentsStand, Loose
<1> QED BY <1>1, <1>2, <1>3, <1>4, <1>5 DEF DocumentsStand

\* Tables that grow, and rows that are not settled.
LEMMA TablesStay ==
  ASSUME Types
  PROVE  /\ payment' = payment \/ (\E row : IsExtended(payment, payment', row)) => PaymentsStay
         /\ order' = order \/ (\E row : IsExtended(order, order', row)) => OrdersStay
         /\ \A o \in DOMAIN order : \A row :
              IsReplaced(order, order', o, row) /\ order[o].state # "confirmed" => OrdersStay
         /\ delivery' = delivery => DeliveriesStay({})
         /\ (\E row : IsExtended(delivery, delivery', row) /\ row.state \notin Settled)
            => DeliveriesStay({})
         /\ \A d \in DOMAIN delivery : \A row :
              IsReplaced(delivery, delivery', d, row) /\ delivery[d].state \notin Settled
                /\ row.state \notin Settled => DeliveriesStay({})
<1>1. payment' = payment \/ (\E row : IsExtended(payment, payment', row)) => PaymentsStay
  BY Tables DEF PaymentsStay, IsExtended
<1>2. order' = order \/ (\E row : IsExtended(order, order', row)) => OrdersStay
  BY Tables DEF OrdersStay, IsExtended
<1>3. ASSUME NEW o \in DOMAIN order, NEW row, IsReplaced(order, order', o, row),
             order[o].state # "confirmed"
      PROVE  OrdersStay
  BY <1>3, Tables DEF OrdersStay, IsReplaced
<1>4. delivery' = delivery => DeliveriesStay({})
  BY DEF DeliveriesStay
<1>5. (\E row : IsExtended(delivery, delivery', row) /\ row.state \notin Settled) => DeliveriesStay({})
  BY Tables DEF DeliveriesStay, IsExtended, Settled
<1>6. ASSUME NEW d \in DOMAIN delivery, NEW row, IsReplaced(delivery, delivery', d, row),
             delivery[d].state \notin Settled, row.state \notin Settled
      PROVE  DeliveriesStay({})
  BY <1>6 DEF DeliveriesStay, IsReplaced, Settled
<1> QED BY <1>1, <1>2, <1>3, <1>4, <1>5, <1>6

LEMMA RowFields ==
  ASSUME NEW s, NEW kind, NEW amount, NEW of, NEW reverses
  PROVE  LET row == Row(s, kind, amount, of, reverses)
         IN row.kind = kind /\ row.amount = amount /\ row.of = of /\ row.reverses = reverses
            /\ row.session = s
BY DEF Row

LEMMA CounterPaymentDocuments ==
  ASSUME Types, DocumentsStand, NEW l \in Loan, NEW amount \in Amount, NEW s \in SessionId,
         CounterPayment(l, amount, s)
  PROVE  DocumentsStand'
<1> DEFINE P == Len(payment')
           row == Row(s, "counter_payment", amount, P, 0)
<1>1. IsExtended(movement, movement', row)
  BY PaymentsDo
<1>2. ApplyExactPayment(None, l, amount, "counter", "cash") /\ UNCHANGED <<delivery, order>>
  BY DEF CounterPayment
<1>3. /\ P \in DOMAIN payment' /\ P \notin DOMAIN payment
      /\ payment'[P].origin = "counter" /\ payment'[P].amount = amount /\ PaymentsStay
  <2> DEFINE new == [by |-> None, loan |-> l, amount |-> amount, origin |-> "counter", method |-> "cash"]
  <2>1. IsExtended(payment, payment', new)
    BY <1>2, PaymentApplied
  <2>2. new.origin = "counter" /\ new.amount = amount
    OBVIOUS
  <2> HIDE DEF new
  <2> QED BY <2>1, <2>2, Tables DEF IsExtended, PaymentsStay
<1>4. row.kind = "counter_payment" /\ row.amount = amount /\ row.of = P /\ row.reverses = 0
  BY RowFields
<1> HIDE DEF P, row
<1>5. OrdersStay /\ DeliveriesStay({})
  BY <1>2, TablesStay
<1>6. ReversalsStand'
  BY <1>1, <1>4, ReversalsKept DEF Plain, DocumentsStand
<1>7. IsNew(row)
  BY <1>3, <1>4 DEF IsNew, OfCounter, OfCollectors, OfOrders, DocumentsStand, CounterBooked
<1>8. OncePerDocument'
  BY <1>1, <1>7, OnceKept DEF DocumentsStand
<1>9. CounterBooked'
  BY <1>1, <1>3, <1>4, CounterBookedKept DEF DocumentsStand
<1>10. OrdersBooked'
  BY <1>1, <1>4, <1>5, OrdersBookedKept DEF DocumentsStand, OfOrders
<1>11. DeliveriesBooked'
  BY <1>1, <1>4, <1>5, DeliveriesBookedStay DEF DocumentsStand, OfCollectors
<1> QED BY <1>6, <1>8, <1>9, <1>10, <1>11 DEF DocumentsStand

LEMMA ConfirmAdditionDocuments ==
  ASSUME Types, DocumentsStand, NEW o \in DOMAIN order, NEW s \in SessionId, ConfirmAddition(o, s)
  PROVE  DocumentsStand'
<1>1. IsReplaced(order, order', o, [order[o] EXCEPT !.state = "confirmed"])
  BY OrdersDo
<1>2. PICK kind \in OfOrders : IsExtended(movement, movement', Row(s, kind, order[o].amount, o, 0))
  BY OrdersDo DEF OfOrders
<1>3. order[o].state = "pending" /\ UNCHANGED <<payment, delivery>>
  BY DEF ConfirmAddition
<1> DEFINE row == Row(s, kind, order[o].amount, o, 0)
<1>4. row.kind = kind /\ row.amount = order[o].amount /\ row.of = o /\ row.reverses = 0
  BY RowFields
<1>5. o \in DOMAIN order' /\ order'[o].state = "confirmed" /\ order'[o].amount = order[o].amount
  BY <1>1, Tables DEF IsReplaced, OrderRow
<1>6. PaymentsStay /\ OrdersStay /\ DeliveriesStay({})
  BY <1>1, <1>3, TablesStay
<1>7. IsExtended(movement, movement', row)
  BY <1>2
<1> HIDE DEF row
<1>8. kind # "reversal" /\ kind \notin OfCounter /\ kind \notin OfCollectors
  BY DEF OfOrders, OfCounter, OfCollectors
<1>9. ReversalsStand'
  BY <1>4, <1>7, <1>8, ReversalsKept DEF Plain, DocumentsStand
<1>10. \A m \in DOMAIN movement : movement[m].kind \in OfOrders => movement[m].of # o
  BY <1>3 DEF DocumentsStand, OrdersBooked
<1>11. IsNew(row)
  BY <1>4, <1>8, <1>10 DEF IsNew
<1>12. OncePerDocument'
  BY <1>7, <1>11, OnceKept DEF DocumentsStand
<1>13. CounterBooked'
  BY <1>4, <1>6, <1>7, <1>8, CounterBookedKept DEF DocumentsStand
<1>14. OrdersBooked'
  BY <1>4, <1>5, <1>6, <1>7, OrdersBookedKept DEF DocumentsStand
<1>15. DeliveriesBooked'
  BY <1>4, <1>6, <1>7, <1>8, DeliveriesBookedStay DEF DocumentsStand
<1> QED BY <1>9, <1>12, <1>13, <1>14, <1>15 DEF DocumentsStand

\* What receives cash of a collector, or a surplus.
LEMMA SettlingDocuments ==
  ASSUME Types, DocumentsStand, NEW d, NEW row, NEW s, NEW kind \in OfCollectors, NEW amount,
         row = Row(s, kind, amount, d, 0), d \in DOMAIN delivery => delivery[d].state \notin Settled,
         IsExtended(movement, movement', row),
         d \in DOMAIN delivery', delivery'[d].state \in InForce, delivery'[d].received = amount,
         DeliveriesStay({d}), UNCHANGED <<payment, order>>
  PROVE  DocumentsStand'
<1>1. row.kind = kind /\ row.amount = amount /\ row.of = d /\ row.reverses = 0
  BY RowFields
<1>2. kind # "reversal" /\ kind \notin OfCounter /\ kind \notin OfOrders
  BY DEF OfCollectors, OfCounter, OfOrders
<1>3. PaymentsStay /\ OrdersStay
  BY TablesStay
<1>4. DeliveriesBooked' /\ IsNew(row)
  BY <1>1, DeliverySettled DEF DocumentsStand
<1>5. ReversalsStand'
  BY <1>1, <1>2, ReversalsKept DEF Plain, DocumentsStand
<1>6. OncePerDocument'
  BY <1>4, OnceKept DEF DocumentsStand
<1>7. CounterBooked'
  BY <1>1, <1>2, <1>3, CounterBookedKept DEF DocumentsStand
<1>8. OrdersBooked'
  BY <1>1, <1>2, <1>3, OrdersBookedKept DEF DocumentsStand
<1> QED BY <1>4, <1>5, <1>6, <1>7, <1>8 DEF DocumentsStand

LEMMA ReceptionsDocuments ==
  ASSUME Types, DocumentsStand, NEW s \in SessionId
  PROVE  /\ \A d \in DOMAIN delivery : \A amount \in 1 .. delivery[d].declared :
              Receive(d, amount, s) => DocumentsStand'
         /\ \A c \in Collector : \A amount \in 1 .. Pending(c) :
              ReceiveCollector(c, amount, s) => DocumentsStand'
         /\ \A d \in DOMAIN delivery : ConfirmSurplus(d, s) => DocumentsStand'
<1>1. ASSUME NEW d \in DOMAIN delivery, NEW amount \in 1 .. delivery[d].declared, Receive(d, amount, s)
      PROVE  DocumentsStand'
  <2> DEFINE new == Received(delivery[d], amount)
  <2>1. /\ IsReplaced(delivery, delivery', d, new) /\ amount \in Nat
        /\ IsExtended(movement, movement', Row(s, "delivery", amount, d, 0))
    BY <1>1, ReceiveDoes
  <2>2. new.state = "confirmed" /\ new.received = amount
    BY <2>1, Tables, ReceivedType
  <2>3. delivery[d].state = "pending" /\ UNCHANGED <<payment, order>>
    BY <1>1 DEF Receive
  <2> HIDE DEF new
  <2>4. d \in DOMAIN delivery' /\ delivery'[d].state \in InForce /\ delivery'[d].received = amount
        /\ DeliveriesStay({d})
    BY <2>1, <2>2 DEF IsReplaced, InForce, DeliveriesStay
  <2>5. delivery[d].state \notin Settled /\ "delivery" \in OfCollectors
    BY <2>3 DEF Settled, InForce, OfCollectors
  <2> QED BY <2>1, <2>3, <2>4, <2>5, SettlingDocuments
<1>2. ASSUME NEW c \in Collector, NEW amount \in 1 .. Pending(c), ReceiveCollector(c, amount, s)
      PROVE  DocumentsStand'
  <2> DEFINE base == NewDelivery("pending", c, Pending(c))
             new == Received(base, amount)
             d == Len(delivery) + 1
  <2>1. /\ base \in DeliveryRow /\ IsExtended(delivery, delivery', new) /\ amount \in Nat
        /\ IsExtended(movement, movement', Row(s, "delivery", amount, d, 0))
    BY <1>2, ReceiveCollectorDoes
  <2> HIDE DEF base
  <2>2. new.state = "confirmed" /\ new.received = amount
    BY <2>1, ReceivedType
  <2>3. UNCHANGED <<payment, order>>
    BY <1>2 DEF ReceiveCollector
  <2> HIDE DEF new
  <2>4. d \in DOMAIN delivery' /\ delivery'[d].state \in InForce /\ delivery'[d].received = amount
        /\ DeliveriesStay({d}) /\ d \notin DOMAIN delivery
    BY <2>1, <2>2, Tables DEF IsExtended, InForce, DeliveriesStay
  <2>5. "delivery" \in OfCollectors
    BY DEF OfCollectors
  <2> HIDE DEF d
  <2> QED BY <2>1, <2>3, <2>4, <2>5, SettlingDocuments
<1>3. ASSUME NEW d \in DOMAIN delivery, ConfirmSurplus(d, s)
      PROVE  DocumentsStand'
  <2> DEFINE amount == delivery[d].declared
             new == [delivery[d] EXCEPT !.state = "surplus_confirmed", !.received = amount]
  <2>1. /\ IsReplaced(delivery, delivery', d, new)
        /\ IsExtended(movement, movement', Row(s, "surplus", amount, d, 0))
    BY <1>3, ConfirmSurplusDoes
  <2>2. new.state = "surplus_confirmed" /\ new.received = amount
    BY Tables DEF DeliveryRow
  <2>3. delivery[d].state = "surplus_review" /\ UNCHANGED <<payment, order>>
    BY <1>3 DEF ConfirmSurplus
  <2> HIDE DEF new, amount
  <2>4. d \in DOMAIN delivery' /\ delivery'[d].state \in InForce /\ delivery'[d].received = amount
        /\ DeliveriesStay({d})
    BY <2>1, <2>2 DEF IsReplaced, InForce, DeliveriesStay
  <2>5. delivery[d].state \notin Settled /\ "surplus" \in OfCollectors
    BY <2>3 DEF Settled, InForce, OfCollectors
  <2> QED BY <2>1, <2>3, <2>4, <2>5, SettlingDocuments
<1> QED BY <1>1, <1>2, <1>3

LEMMA ReverseDocuments ==
  ASSUME Types, DocumentsStand, NEW m \in DOMAIN movement, NEW s \in SessionId, ReverseMovement(m, s)
  PROVE  DocumentsStand'
<1> DEFINE of == movement[m].of
           row == Row(s, "reversal", -movement[m].amount, of, m)
<1>1. /\ movement[m].kind \in Correctable /\ ~IsReversed(m) /\ IsExtended(movement, movement', row)
      /\ UNCHANGED <<payment, order>>
  BY ReverseDoes DEF DocumentsStand
<1>2. row.kind = "reversal" /\ row.amount = -movement[m].amount /\ row.of = of /\ row.reverses = m
  BY RowFields
<1> HIDE DEF row
<1>3. Reversing(row, m)
  BY <1>1, <1>2 DEF Reversing
<1>4. PaymentsStay /\ OrdersStay
  BY <1>1, TablesStay
<1>5. row.kind \notin OfCounter /\ row.kind \notin OfCollectors /\ row.kind \notin OfOrders
  BY <1>2 DEF OfCounter, OfCollectors, OfOrders
<1>6. ReversalsStand'
  BY <1>1, <1>3, ReversalsKept DEF DocumentsStand
<1>7. OncePerDocument'
  BY <1>1, <1>5, OnceKept DEF DocumentsStand, IsNew
<1>8. CounterBooked'
  BY <1>1, <1>4, <1>5, CounterBookedKept DEF DocumentsStand
<1>9. OrdersBooked'
  BY <1>1, <1>4, <1>5, OrdersBookedKept DEF DocumentsStand
<1>10. DeliveriesBooked'
  <2>1. CASE movement[m].kind \in OfCollectors
    <3> DEFINE old == delivery[of]
    <3>1. PICK marked : IsReplaced(delivery, marked, of, [old EXCEPT !.state = "reversed"])
                        /\ IsExtended(marked, delivery', Opposite(old))
      BY <2>1, ReverseDoes DEF DocumentsStand
    <3>2. of \in DOMAIN delivery /\ old \in DeliveryRow
      BY <2>1, Tables DEF DocumentsStand, DeliveriesBooked
    <3>3. [old EXCEPT !.state = "reversed"].state = "reversed" /\ Opposite(old).state = "reversal"
      BY <3>2, OppositeType
    <3> DEFINE new == [old EXCEPT !.state = "reversed"]
               opp == Opposite(old)
    <3>4. new.state = "reversed" /\ opp.state = "reversal" /\ IsReplaced(delivery, marked, of, new)
          /\ IsExtended(marked, delivery', opp)
      BY <3>1, <3>3
    <3> HIDE DEF new, opp, old, of
    <3>5. of \in DOMAIN delivery' /\ delivery'[of].state = "reversed"
      BY <3>2, <3>4, Tables DEF IsReplaced, IsExtended
    <3>6. DeliveriesStay({of})
      BY <3>4, Tables DEF IsReplaced, IsExtended, DeliveriesStay, InForce
    <3> QED BY <1>1, <1>3, <2>1, <3>5, <3>6, DeliveryReversed DEF DocumentsStand, of
  <2>2. CASE movement[m].kind \notin OfCollectors
    <3>1. delivery' = delivery
      BY <2>2, ReverseDoes DEF DocumentsStand
    <3>2. DeliveriesStay({})
      BY <3>1, TablesStay
    <3> QED BY <1>1, <1>2, <1>5, <2>2, <3>2, DeliveriesBookedStay DEF DocumentsStand
  <2> QED BY <2>1, <2>2
<1> QED BY <1>6, <1>7, <1>8, <1>9, <1>10 DEF DocumentsStand

\* A step that touches no document and no movement.
Quiet == UNCHANGED <<payment, delivery, movement, order>>

LEMMA QuietSteps ==
  ASSUME Types
  PROVE  /\ \A c \in Collector : EnterPayment(c) \/ Change(c) => Quiet /\ UNCHANGED loan
         /\ \A c \in Collector, l \in Loan, amount \in Amount : FieldTransfer(c, l, amount) =>
              Quiet /\ UNCHANGED loan
         /\ \A c \in Collector, to \in Moves : CheckChange(c, to) => Quiet /\ UNCHANGED loan
         /\ \A t \in DOMAIN transfer : RejectTransfer(t) => Quiet /\ UNCHANGED loan
         /\ \A s \in SessionId : CloseSession(s) => Quiet /\ UNCHANGED loan
         /\ PaymentFails => Quiet /\ UNCHANGED loan
         /\ UNCHANGED vars => Quiet /\ UNCHANGED loan
<1> USE DEF Quiet
<1>1. ASSUME NEW c \in Collector, EnterPayment(c) \/ Change(c)
      PROVE  Quiet /\ UNCHANGED loan
  BY <1>1 DEF EnterPayment, Change
<1>2. ASSUME NEW c \in Collector, NEW l \in Loan, NEW amount \in Amount, FieldTransfer(c, l, amount)
      PROVE  Quiet /\ UNCHANGED loan
  BY <1>2 DEF FieldTransfer
<1>3. ASSUME NEW c \in Collector, NEW to \in Moves, CheckChange(c, to)
      PROVE  Quiet /\ UNCHANGED loan
  BY <1>3 DEF CheckChange
<1>4. ASSUME NEW t \in DOMAIN transfer, RejectTransfer(t)
      PROVE  Quiet /\ UNCHANGED loan
  BY <1>4 DEF RejectTransfer
<1>5. ASSUME NEW s \in SessionId, CloseSession(s)
      PROVE  Quiet /\ UNCHANGED loan
  BY <1>5 DEF CloseSession
<1>6. PaymentFails => Quiet /\ UNCHANGED loan
  BY DEF PaymentFails
<1>7. UNCHANGED vars => Quiet /\ UNCHANGED loan
  BY DEF vars
<1> HIDE DEF Quiet
<1> QED BY <1>1, <1>2, <1>3, <1>4, <1>5, <1>6, <1>7

LEMMA QuietDocuments ==
  ASSUME Types, DocumentsStand, Quiet
  PROVE  DocumentsStand'
<1>1. PaymentsStay /\ OrdersStay /\ DeliveriesStay({})
  BY TablesStay DEF Quiet
<1> QED BY <1>1, DocumentsUndisturbed DEF Quiet

\* Payments in the field and the documents that are only announced or refused.
LEMMA AnnouncedDocuments ==
  ASSUME Types, DocumentsStand
  PROVE  /\ \A c \in Collector, l \in Loan, amount \in Amount : FieldPayment(c, l, amount) => DocumentsStand'
         /\ \A t \in DOMAIN transfer : ConfirmTransfer(t) => DocumentsStand'
         /\ \A c \in Collector : \A amount \in 1 .. Pending(c) : Declare(c, amount) => DocumentsStand'
         /\ \A c \in Collector, amount \in Sums, s \in SessionId :
              ReportSurplus(c, amount, s) => DocumentsStand'
         /\ \A d \in DOMAIN delivery : RejectDelivery(d) \/ RejectSurplus(d) => DocumentsStand'
         /\ \A k \in Cashier, amount \in Int : RequestAddition(k, amount) => DocumentsStand'
         /\ \A o \in DOMAIN order : DropAddition(o) => DocumentsStand'
<1>1. ASSUME NEW c \in Collector, NEW l \in Loan, NEW amount \in Amount, FieldPayment(c, l, amount)
      PROVE  DocumentsStand'
  <2>1. ApplyExactPayment(c, l, amount, "field", "cash") /\ UNCHANGED <<delivery, movement, order>>
    BY <1>1 DEF FieldPayment
  <2>2. \E row : IsExtended(payment, payment', row)
    BY <2>1, PaymentApplied
  <2>3. PaymentsStay /\ OrdersStay /\ DeliveriesStay({})
    BY <2>1, <2>2, TablesStay
  <2> QED BY <2>1, <2>3, DocumentsUndisturbed
<1>2. ASSUME NEW t \in DOMAIN transfer, ConfirmTransfer(t)
      PROVE  DocumentsStand'
  <2>1. ApplyExactPayment(transfer[t].by, transfer[t].loan, transfer[t].amount, "field", "transfer")
        /\ UNCHANGED <<delivery, movement, order>>
    BY <1>2 DEF ConfirmTransfer
  <2>2. transfer[t].by \in Collector /\ transfer[t].loan \in Loan /\ transfer[t].amount \in Amount
    BY <1>2, PaymentsDo
  <2>3. \E row : IsExtended(payment, payment', row)
    BY <2>1, <2>2, PaymentApplied
  <2>4. PaymentsStay /\ OrdersStay /\ DeliveriesStay({})
    BY <2>1, <2>3, TablesStay
  <2> QED BY <2>1, <2>4, DocumentsUndisturbed
<1>3. \A c : \A declared : \A state \in {"pending", "surplus_review"} :
        NewDelivery(state, c, declared).state \notin Settled
  BY DEF NewDelivery, Settled, InForce
<1>4. ASSUME NEW c \in Collector, NEW amount \in 1 .. Pending(c), Declare(c, amount)
      PROVE  DocumentsStand'
  <2>1. IsExtended(delivery, delivery', NewDelivery("pending", c, amount))
    BY <1>4, DeclareDoes
  <2>2. UNCHANGED <<payment, movement, order>>
    BY <1>4 DEF Declare
  <2>3. PaymentsStay /\ OrdersStay /\ DeliveriesStay({})
    BY <1>3, <2>1, <2>2, TablesStay
  <2> QED BY <2>2, <2>3, DocumentsUndisturbed
<1>5. ASSUME NEW c \in Collector, NEW amount \in Sums, NEW s \in SessionId, ReportSurplus(c, amount, s)
      PROVE  DocumentsStand'
  <2>1. IsExtended(delivery, delivery', NewDelivery("surplus_review", c, amount))
    BY <1>5, ReportDoes
  <2>2. UNCHANGED <<payment, movement, order>>
    BY <1>5 DEF ReportSurplus
  <2>3. PaymentsStay /\ OrdersStay /\ DeliveriesStay({})
    BY <1>3, <2>1, <2>2, TablesStay
  <2> QED BY <2>2, <2>3, DocumentsUndisturbed
<1>6. ASSUME NEW d \in DOMAIN delivery, RejectDelivery(d) \/ RejectSurplus(d)
      PROVE  DocumentsStand'
  <2>1. PICK state \in {"rejected", "surplus_rejected"} :
          IsReplaced(delivery, delivery', d, [delivery[d] EXCEPT !.state = state])
    BY <1>6, RejectDoes
  <2> DEFINE new == [delivery[d] EXCEPT !.state = state]
  <2>2. new.state \notin Settled /\ IsReplaced(delivery, delivery', d, new)
    BY <2>1, Tables DEF Settled, InForce, DeliveryRow
  <2>3. UNCHANGED <<payment, movement, order>> /\ delivery[d].state \notin Settled
    BY <1>6 DEF RejectDelivery, RejectSurplus, Settled, InForce
  <2> HIDE DEF new
  <2>4. PaymentsStay /\ OrdersStay /\ DeliveriesStay({})
    BY <2>2, <2>3, TablesStay
  <2> QED BY <2>3, <2>4, DocumentsUndisturbed
<1>7. ASSUME NEW k \in Cashier, NEW amount \in Int, RequestAddition(k, amount)
      PROVE  DocumentsStand'
  <2>1. \E row : IsExtended(order, order', row)
    BY <1>7, OrdersDo
  <2>2. UNCHANGED <<payment, delivery, movement>>
    BY <1>7 DEF RequestAddition
  <2>3. PaymentsStay /\ OrdersStay /\ DeliveriesStay({})
    BY <2>1, <2>2, TablesStay
  <2> QED BY <2>2, <2>3, DocumentsUndisturbed
<1>8. ASSUME NEW o \in DOMAIN order, DropAddition(o)
      PROVE  DocumentsStand'
  <2>1. IsReplaced(order, order', o, [order[o] EXCEPT !.state = "dropped"])
    BY <1>8, OrdersDo
  <2>2. UNCHANGED <<payment, delivery, movement>> /\ order[o].state # "confirmed"
    BY <1>8 DEF DropAddition
  <2>3. PaymentsStay /\ OrdersStay /\ DeliveriesStay({})
    BY <2>1, <2>2, TablesStay
  <2> QED BY <2>2, <2>3, DocumentsUndisturbed
<1> QED BY <1>1, <1>2, <1>4, <1>5, <1>6, <1>7, <1>8

LEMMA LooseDocuments ==
  ASSUME Types, DocumentsStand, NEW s \in SessionId
  PROVE  /\ \A amount \in Sums : Expense(s, amount) => DocumentsStand'
         /\ \A l \in Loan, method \in {"cash", "transfer"} : Disburse(l, method, s) => DocumentsStand'
         /\ \A fund \in Funds : OpenSession(s, fund) => DocumentsStand'
<1>1. \A kind \in {"expense", "disbursement", "bank_disbursement", "opening_initial_fund"} :
        \A amount : Loose(Row(s, kind, amount, 0, 0))
  BY DEF Loose, Row, OfCounter, OfCollectors, OfOrders
<1>2. UNCHANGED <<payment, delivery, order>>
      /\ (movement' = movement \/ \E row : IsExtended(movement, movement', row) /\ Loose(row))
      => DocumentsStand'
  BY TablesStay, DocumentsUndisturbed
<1>3. ASSUME NEW amount \in Sums, Expense(s, amount)
      PROVE  DocumentsStand'
  <2>1. IsExtended(movement, movement', Row(s, "expense", -amount, 0, 0))
    BY <1>3, LooseMovementsDo
  <2>2. UNCHANGED <<payment, delivery, order>>
    BY <1>3 DEF Expense
  <2>3. Loose(Row(s, "expense", -amount, 0, 0))
    BY <1>1
  <2> QED BY <1>2, <2>1, <2>2, <2>3
<1>4. ASSUME NEW l \in Loan, NEW method \in {"cash", "transfer"}, Disburse(l, method, s)
      PROVE  DocumentsStand'
  <2>1. \/ IsExtended(movement, movement', Row(s, "disbursement", -Lent, 0, 0))
        \/ IsExtended(movement, movement', Row(s, "bank_disbursement", 0, 0, 0))
    BY <1>4, LooseMovementsDo
  <2>2. UNCHANGED <<payment, delivery, order>>
    BY <1>4 DEF Disburse
  <2>3. Loose(Row(s, "disbursement", -Lent, 0, 0)) /\ Loose(Row(s, "bank_disbursement", 0, 0, 0))
    BY <1>1
  <2> QED BY <1>2, <2>1, <2>2, <2>3
<1>5. ASSUME NEW fund \in Funds, OpenSession(s, fund)
      PROVE  DocumentsStand'
  <2>1. \/ movement' = movement
        \/ IsExtended(movement, movement', Row(s, "opening_initial_fund", fund, 0, 0))
    BY <1>5, LooseMovementsDo
  <2>2. UNCHANGED <<payment, delivery, order>>
    BY <1>5 DEF OpenSession
  <2>3. Loose(Row(s, "opening_initial_fund", fund, 0, 0))
    BY <1>1
  <2> QED BY <1>2, <2>1, <2>2, <2>3
<1> QED BY <1>3, <1>4, <1>5

LEMMA OrderAmounts == \A amount \in Sums : amount \in Int /\ -amount \in Int
BY CashSums

\* Every step keeps the types and the rows in agreement.
LEMMA DocumentsKept ==
  ASSUME Types, DocumentsStand, [Next]_vars
  PROVE  Types' /\ DocumentsStand'
<1> DEFINE Kept == Types' /\ DocumentsStand'
<1>q. ASSUME Quiet
      PROVE  DocumentsStand'
  BY <1>q, QuietDocuments
<1>1. ASSUME NEW c \in Collector, EnterPayment(c) PROVE Kept
  BY <1>1, <1>q, PaymentsDo, QuietSteps
<1>2. ASSUME NEW c \in Collector, NEW l \in Loan, NEW amount \in Amount,
             FieldPayment(c, l, amount) \/ FieldTransfer(c, l, amount)
      PROVE  Kept
  BY <1>2, <1>q, PaymentsDo, QuietSteps, AnnouncedDocuments
<1>3. ASSUME NEW c \in Collector, NEW amount \in 1 .. Pending(c), Declare(c, amount) PROVE Kept
  BY <1>3, DeclareDoes, AnnouncedDocuments
<1>4. ASSUME NEW c \in Collector, NEW amount \in 1 .. Pending(c), NEW s \in SessionId,
             ReceiveCollector(c, amount, s)
      PROVE  Kept
  BY <1>4, ReceiveCollectorDoes, ReceptionsDocuments
<1>5. ASSUME NEW c \in Collector, NEW amount \in Sums, NEW s \in SessionId, ReportSurplus(c, amount, s)
      PROVE  Kept
  BY <1>5, ReportDoes, AnnouncedDocuments
<1>6. ASSUME NEW c \in Collector, NEW to \in Moves, CheckChange(c, to) PROVE Kept
  BY <1>6, <1>q, AccountsDo, QuietSteps
<1>7. ASSUME NEW c \in Collector, Change(c) PROVE Kept
  BY <1>7, <1>q, AccountsDo, QuietSteps
<1>8. ASSUME PaymentFails PROVE Kept
  BY <1>8, <1>q, PaymentsDo, QuietSteps
<1>9. ASSUME NEW t \in DOMAIN transfer, ConfirmTransfer(t) \/ RejectTransfer(t) PROVE Kept
  BY <1>9, <1>q, PaymentsDo, QuietSteps, AnnouncedDocuments
<1>10. ASSUME NEW d \in DOMAIN delivery, NEW s \in SessionId, NEW amount \in 1 .. delivery[d].declared,
              Receive(d, amount, s)
       PROVE  Kept
  BY <1>10, ReceiveDoes, ReceptionsDocuments
<1>11. ASSUME NEW d \in DOMAIN delivery, NEW s \in SessionId, ConfirmSurplus(d, s) PROVE Kept
  BY <1>11, ConfirmSurplusDoes, ReceptionsDocuments
<1>12. ASSUME NEW d \in DOMAIN delivery, RejectDelivery(d) \/ RejectSurplus(d) PROVE Kept
  BY <1>12, RejectDoes, AnnouncedDocuments
<1>13. ASSUME NEW o \in DOMAIN order, DropAddition(o) PROVE Kept
  BY <1>13, OrdersDo, AnnouncedDocuments
<1>14. ASSUME NEW o \in DOMAIN order, NEW s \in SessionId, ConfirmAddition(o, s) PROVE Kept
  BY <1>14, OrdersDo, ConfirmAdditionDocuments
<1>15. ASSUME NEW k \in Cashier, NEW amount \in Sums,
              RequestAddition(k, amount) \/ RequestAddition(k, -amount)
       PROVE  Kept
  BY <1>15, OrderAmounts, OrdersDo, AnnouncedDocuments
<1>16. ASSUME NEW s \in SessionId, NEW l \in Loan, NEW amount \in Amount, CounterPayment(l, amount, s)
       PROVE  Kept
  BY <1>16, PaymentsDo, CounterPaymentDocuments
<1>17. ASSUME NEW s \in SessionId, NEW l \in Loan, NEW method \in {"cash", "transfer"}, Disburse(l, method, s)
       PROVE  Kept
  BY <1>17, LooseMovementsDo, LooseDocuments
<1>18. ASSUME NEW s \in SessionId, NEW amount \in Sums, Expense(s, amount) PROVE Kept
  BY <1>18, LooseMovementsDo, LooseDocuments
<1>19. ASSUME NEW s \in SessionId, NEW m \in DOMAIN movement, ReverseMovement(m, s) PROVE Kept
  BY <1>19, ReverseDoes, ReverseDocuments DEF DocumentsStand
<1>20. ASSUME NEW s \in SessionId, NEW fund \in Funds, OpenSession(s, fund) PROVE Kept
  BY <1>20, LooseMovementsDo, LooseDocuments
<1>21. ASSUME NEW s \in SessionId, CloseSession(s) PROVE Kept
  BY <1>21, <1>q, AccountsDo, QuietSteps
<1>22. ASSUME UNCHANGED vars PROVE Kept
  <2>1. Types'
    BY <1>22 DEF vars, Types, TypeOK, Bounded
  <2> QED BY <1>22, <1>q, <2>1, QuietSteps
<1> HIDE DEF Kept
<1>23. Kept
  BY <1>1, <1>2, <1>3, <1>4, <1>5, <1>6, <1>7, <1>8, <1>9, <1>10, <1>11, <1>12, <1>13, <1>14, <1>15, <1>16,
     <1>17, <1>18, <1>19, <1>20, <1>21, <1>22 DEF Next
<1> QED BY <1>23 DEF Kept

-----------------------------------------------------------------------------
(* What the movements of a document add up to.                             *)

LEMMA SumOfOne ==
  ASSUME NEW f, NEW a, f[a] \in Int
  PROVE  SumOver(f, {a}) = f[a]
<1>1. SumOver(f, {} \cup {a}) = f[a] + SumOver(f, {})
  BY SumOfOneMore, FS_EmptySet
<1>2. {} \cup {a} = {a}
  OBVIOUS
<1>3. SumOver(f, {}) = 0
  BY SumOfNone
<1> QED BY <1>1, <1>2, <1>3

LEMMA SumOfTwo ==
  ASSUME NEW f, NEW a, NEW b, a # b, f[a] \in Int, f[b] \in Int
  PROVE  SumOver(f, {a, b}) = f[a] + f[b]
<1>1. IsFiniteSet({a})
  BY FS_Singleton
<1>2. SumOver(f, {a} \cup {b}) = f[b] + SumOver(f, {a})
  BY <1>1, SumOfOneMore
<1>3. {a} \cup {b} = {a, b}
  OBVIOUS
<1>4. SumOver(f, {a}) = f[a]
  BY SumOfOne
<1>5. SumOver(f, {a, b}) = f[b] + f[a]
  BY <1>2, <1>3, <1>4
<1> QED BY <1>5

Groups == {OfCounter, OfCollectors, OfOrders}

\* A document has no movement, or one and perhaps the reversal of it.
LEMMA BookedIs ==
  ASSUME Types, ReversalsStand, OncePerDocument, NEW kinds \in Groups, NEW x
  PROVE  /\ (\A m \in DOMAIN movement : movement[m].kind \in kinds => movement[m].of # x)
            => Booked(kinds, x) = 0
         /\ \A m \in DOMAIN movement : movement[m].kind \in kinds /\ movement[m].of = x =>
              Booked(kinds, x) = IF IsReversed(m) THEN 0 ELSE movement[m].amount
<1> DEFINE f == [m \in DOMAIN movement |-> movement[m].amount]
           B == {m \in DOMAIN movement : movement[m].of = x /\ Origin(m) \in kinds}
<1>1. Booked(kinds, x) = SumOver(f, B)
  BY TotalIs DEF Booked
<1>2. \A m \in DOMAIN movement : f[m] \in Int /\ f[m] = movement[m].amount
  BY Tables DEF MovementRow
<1>3. "reversal" \notin kinds
  BY DEF Groups, OfCounter, OfCollectors, OfOrders
<1>4. ASSUME NEW n \in B
      PROVE  \/ movement[n].kind \in kinds /\ movement[n].of = x
             \/ LET r == movement[n].reverses
                IN /\ movement[n].kind = "reversal" /\ r \in DOMAIN movement
                   /\ movement[r].kind \in kinds /\ movement[r].of = x
                   /\ movement[n].amount = -movement[r].amount
  BY DEF Origin, ReversalsStand
<1>5. ASSUME \A m \in DOMAIN movement : movement[m].kind \in kinds => movement[m].of # x
      PROVE  Booked(kinds, x) = 0
  <2>1. B = {}
    BY <1>4, <1>5
  <2> HIDE DEF B, f
  <2> QED BY <1>1, <2>1, SumOfNone
<1>6. ASSUME NEW m \in DOMAIN movement, movement[m].kind \in kinds, movement[m].of = x
      PROVE  Booked(kinds, x) = IF IsReversed(m) THEN 0 ELSE movement[m].amount
  <2>1. m \in B /\ movement[m].kind # "reversal" /\ m # 0
    BY <1>3, <1>6, Tables DEF Origin
  <2>2. \A n \in DOMAIN movement : movement[n].kind \in kinds /\ movement[n].of = x => n = m
    BY <1>6 DEF OncePerDocument, Groups
  <2>3. ASSUME NEW n \in B
        PROVE  n = m \/ (movement[n].kind = "reversal" /\ movement[n].reverses = m)
    <3>1. n \in DOMAIN movement
      OBVIOUS
    <3> QED BY <1>4, <2>2, <3>1
  <2>4. CASE ~IsReversed(m)
    <3>1. B = {m}
      BY <2>1, <2>3, <2>4 DEF IsReversed
    <3> HIDE DEF B, f
    <3> QED BY <1>1, <1>2, <1>6, <2>4, <3>1, SumOfOne
  <2>5. CASE IsReversed(m)
    <3>1. PICK n \in DOMAIN movement : movement[n].reverses = m
      BY <2>5 DEF IsReversed
    <3>2. movement[n].kind = "reversal" /\ movement[n].of = x /\ movement[n].amount = -movement[m].amount
      BY <1>6, <2>1, <3>1 DEF ReversalsStand
    <3>3. n \in B /\ n # m
      BY <1>6, <2>1, <3>1, <3>2 DEF Origin
    <3>4. \A i \in B : i = m \/ i = n
      BY <2>1, <2>3, <3>1 DEF ReversalsStand
    <3>5. B = {m, n}
      BY <2>1, <3>3, <3>4
    <3> HIDE DEF B, f
    <3>6. SumOver(f, {m, n}) = f[m] + f[n]
      BY <1>2, <3>1, <3>3, <1>6, SumOfTwo
    <3>7. f[m] + f[n] = 0
      BY <1>2, <1>6, <3>1, <3>2
    <3> QED BY <1>1, <2>5, <3>5, <3>6, <3>7
  <2> QED BY <2>4, <2>5
<1> QED BY <1>5, <1>6

StillBooked(p) ==
  \E m \in DOMAIN movement : movement[m].kind \in OfCounter /\ movement[m].of = p /\ ~IsReversed(m)

\* What a payment takes off its loan.
CreditedRowByRow ==
  \A p \in DOMAIN payment :
    /\ Credited[p] = IF payment[p].origin = "counter" /\ ~StillBooked(p) THEN 0 ELSE payment[p].amount
    /\ Credited[p] \in Nat

LEMMA CreditedIs == Types /\ DocumentsStand => CreditedRowByRow
<1> SUFFICES ASSUME Types, DocumentsStand, NEW p \in DOMAIN payment
             PROVE  /\ Credited[p] = IF payment[p].origin = "counter" /\ ~StillBooked(p) THEN 0
                                     ELSE payment[p].amount
                    /\ Credited[p] \in Nat
  BY DEF CreditedRowByRow
<1>1. payment[p].amount \in Nat
  BY Tables DEF PaymentRow, Amount
<1>2. Credited[p] = IF payment[p].origin = "counter" THEN Booked(OfCounter, p) ELSE payment[p].amount
  BY DEF Credited, OfCounter
<1>3. OfCounter \in Groups
  BY DEF Groups
<1>4. Booked(OfCounter, p) = IF StillBooked(p) THEN payment[p].amount ELSE 0
  <2>1. CASE \A m \in DOMAIN movement : movement[m].kind \in OfCounter => movement[m].of # p
    BY <1>3, <2>1, BookedIs DEF DocumentsStand, StillBooked
  <2>2. ASSUME NEW m \in DOMAIN movement, movement[m].kind \in OfCounter, movement[m].of = p
        PROVE  Booked(OfCounter, p) = IF StillBooked(p) THEN payment[p].amount ELSE 0
    <3>1. Booked(OfCounter, p) = IF IsReversed(m) THEN 0 ELSE movement[m].amount
      BY <1>3, <2>2, BookedIs DEF DocumentsStand
    <3>2. movement[m].amount = payment[p].amount
      BY <2>2 DEF DocumentsStand, CounterBooked
    <3>3. StillBooked(p) <=> ~IsReversed(m)
      BY <1>3, <2>2 DEF StillBooked, DocumentsStand, OncePerDocument, Groups
    <3> QED BY <3>1, <3>2, <3>3
  <2> QED BY <2>1, <2>2
<1> QED BY <1>1, <1>2, <1>4

LEMMA CreditedAfter == Types' /\ DocumentsStand' => CreditedRowByRow'
BY CreditedIs, PTL

PaymentsOf(l) == {p \in DOMAIN payment : payment[p].loan = l}

\* A loan owes what its payments left of it.
LoansOwe ==
  \A l \in Loan :
    /\ loan[l].state = "signed" => PaymentsOf(l) = {}
    /\ loan[l].state = "disbursed" => loan[l].owed = Lent - Total(Credited, PaymentsOf(l))

\* The loans after a step are right if the sum of each moved as its debt did.
LEMMA LoanUndisturbed ==
  ASSUME Types, DocumentsStand, Types', DocumentsStand', LoansOwe, NEW l \in Loan,
         loan'[l] = loan[l], PaymentsOf(l)' = PaymentsOf(l),
         \A p \in PaymentsOf(l) : payment'[p] = payment[p] /\ (StillBooked(p)' <=> StillBooked(p))
  PROVE  /\ loan'[l].state = "signed" => PaymentsOf(l)' = {}
         /\ loan'[l].state = "disbursed" => loan'[l].owed = Lent - Total(Credited', PaymentsOf(l)')
<1>1. CreditedRowByRow /\ CreditedRowByRow'
  BY CreditedIs, CreditedAfter
<1>2. \A p \in PaymentsOf(l) : Credited'[p] = Credited[p]
  <2> SUFFICES ASSUME NEW p \in PaymentsOf(l) PROVE Credited'[p] = Credited[p]
    OBVIOUS
  <2>1. p \in DOMAIN payment /\ p \in DOMAIN payment'
    BY DEF PaymentsOf
  <2>2. Credited[p] = IF payment[p].origin = "counter" /\ ~StillBooked(p) THEN 0 ELSE payment[p].amount
    BY <1>1, <2>1 DEF CreditedRowByRow
  <2>3. Credited'[p] = IF payment'[p].origin = "counter" /\ ~StillBooked(p)' THEN 0 ELSE payment'[p].amount
    BY <1>1, <2>1 DEF CreditedRowByRow
  <2> QED BY <2>2, <2>3
<1>3. IsFiniteSet(PaymentsOf(l))
  BY IdsAreFinite, FS_Subset DEF PaymentsOf
<1>4. SumOver(Credited', PaymentsOf(l)) = SumOver(Credited, PaymentsOf(l))
  BY <1>2, <1>3, SumsAgree
<1>5. Total(Credited', PaymentsOf(l)') = Total(Credited, PaymentsOf(l))
  BY <1>4, TotalIs
<1> QED BY <1>5 DEF LoansOwe

\* Movements that are of no payment leave every payment at the counter booked as it was.
LEMMA StillBookedStays ==
  ASSUME Types, DocumentsStand,
         \/ movement' = movement
         \/ \E row : /\ IsExtended(movement, movement', row) /\ row.kind \notin OfCounter
                     /\ \/ row.reverses = 0
                        \/ row.reverses \in DOMAIN movement /\ movement[row.reverses].kind \notin OfCounter
  PROVE  \A p : StillBooked(p)' <=> StillBooked(p)
<1>1. CASE movement' = movement
  BY <1>1 DEF StillBooked, IsReversed
<1>2. ASSUME NEW row, IsExtended(movement, movement', row), row.kind \notin OfCounter,
             \/ row.reverses = 0
             \/ row.reverses \in DOMAIN movement /\ movement[row.reverses].kind \notin OfCounter,
             NEW p
      PROVE  StillBooked(p)' <=> StillBooked(p)
  <2> DEFINE Back(m) == \E n \in DOMAIN movement' : movement'[n].reverses = m
  <2>1. /\ DOMAIN movement' = DOMAIN movement \cup {Len(movement) + 1}
        /\ movement'[Len(movement) + 1] = row /\ \A i \in DOMAIN movement : movement'[i] = movement[i] /\ i # 0
    BY <1>2, Tables DEF IsExtended
  <2>2. \A m \in DOMAIN movement : movement[m].kind \in OfCounter => (Back(m) <=> IsReversed(m))
    BY <1>2, <2>1, ReversedAfter DEF DocumentsStand
  <2>3. StillBooked(p)' <=>
          \E m \in DOMAIN movement' : movement'[m].kind \in OfCounter /\ movement'[m].of = p /\ ~Back(m)
    BY DEF StillBooked, IsReversed
  <2> HIDE DEF Back
  <2> QED BY <1>2, <2>1, <2>2, <2>3 DEF StillBooked
<1> QED BY <1>1, <1>2

LEMMA LoansUndisturbed ==
  ASSUME Types, DocumentsStand, Types', DocumentsStand', LoansOwe, UNCHANGED payment,
         \/ movement' = movement
         \/ \E row : /\ IsExtended(movement, movement', row) /\ row.kind \notin OfCounter
                     /\ \/ row.reverses = 0
                        \/ row.reverses \in DOMAIN movement /\ movement[row.reverses].kind \notin OfCounter,
         \A l \in Loan :
           \/ loan'[l] = loan[l]
           \/ loan[l].state = "signed" /\ loan'[l] = [state |-> "disbursed", owed |-> Lent]
  PROVE  LoansOwe'
<1>1. \A p : StillBooked(p)' <=> StillBooked(p)
  BY StillBookedStays
<1>2. \A l : PaymentsOf(l)' = PaymentsOf(l)
  BY DEF PaymentsOf
<1>3. ASSUME NEW l \in Loan
      PROVE  /\ loan'[l].state = "signed" => PaymentsOf(l)' = {}
             /\ loan'[l].state = "disbursed" => loan'[l].owed = Lent - Total(Credited', PaymentsOf(l)')
  <2>1. CASE loan'[l] = loan[l]
    BY <1>1, <1>2, <2>1, LoanUndisturbed
  <2>2. CASE loan[l].state = "signed" /\ loan'[l] = [state |-> "disbursed", owed |-> Lent]
    <3>1. PaymentsOf(l)' = {}
      BY <1>2, <2>2 DEF LoansOwe
    <3>2. Total(Credited', {}) = 0
      BY TotalIs, SumOfNone
    <3>3. Lent \in Int
      BY CashBounds
    <3>4. loan'[l].state = "disbursed" /\ loan'[l].owed = Lent - 0
      BY <2>2, <3>3
    <3> QED BY <3>1, <3>2, <3>4
  <2> QED BY <2>1, <2>2
<1> QED BY <1>3 DEF LoansOwe

\* A payment that is applied is credited.
LEMMA PaymentOwed ==
  ASSUME Types, DocumentsStand, Types', DocumentsStand', LoansOwe,
         NEW row \in PaymentRow, IsExtended(payment, payment', row), NEW l \in Loan, row.loan = l,
         NEW N, N = Len(payment) + 1, row.origin = "counter" => StillBooked(N)',
         \A p \in DOMAIN payment : StillBooked(p)' <=> StillBooked(p),
         loan[l].state = "disbursed", loan'[l].state = "disbursed",
         loan'[l].owed = loan[l].owed - row.amount, \A k \in Loan \ {l} : loan'[k] = loan[k]
  PROVE  LoansOwe'
<1> DEFINE S == PaymentsOf(l)
<1>1. /\ DOMAIN payment' = DOMAIN payment \cup {N} /\ N \notin DOMAIN payment
      /\ payment'[N] = row /\ \A p \in DOMAIN payment : payment'[p] = payment[p]
  BY Tables DEF IsExtended
<1>2. PaymentsOf(l)' = S \cup {N} /\ N \notin S /\ \A k \in Loan \ {l} : PaymentsOf(k)' = PaymentsOf(k)
  BY <1>1 DEF PaymentsOf
<1>3. CreditedRowByRow /\ CreditedRowByRow'
  BY CreditedIs, CreditedAfter
<1>4. Credited'[N] = row.amount /\ row.amount \in Nat
  BY <1>1, <1>3 DEF CreditedRowByRow, PaymentRow, Amount
<1>5. ASSUME NEW p \in S
      PROVE  Credited'[p] = Credited[p] /\ Credited[p] \in Int
  <2>1. p \in DOMAIN payment /\ p \in DOMAIN payment' /\ payment'[p] = payment[p]
    BY <1>1 DEF PaymentsOf
  <2>2. /\ Credited[p] = IF payment[p].origin = "counter" /\ ~StillBooked(p) THEN 0 ELSE payment[p].amount
        /\ Credited[p] \in Nat
    BY <1>3, <2>1 DEF CreditedRowByRow
  <2>3. Credited'[p] = IF payment'[p].origin = "counter" /\ ~StillBooked(p)' THEN 0 ELSE payment'[p].amount
    BY <1>3, <2>1 DEF CreditedRowByRow
  <2> QED BY <2>1, <2>2, <2>3
<1>6. IsFiniteSet(S)
  BY IdsAreFinite, FS_Subset DEF PaymentsOf
<1> HIDE DEF S
<1>7. SumOver(Credited', S) = SumOver(Credited, S) /\ SumOver(Credited, S) \in Int
  BY <1>5, <1>6, SumsAgree, SumType
<1>8. SumOver(Credited', S \cup {N}) = Credited'[N] + SumOver(Credited', S)
  <2>1. \A p \in S \cup {N} : Credited'[p] \in Int
    BY <1>4, <1>5
  <2> QED BY <1>2, <1>6, <2>1, SumOfOneMore
<1>9. loan[l].owed = Lent - SumOver(Credited, S)
  BY TotalIs DEF LoansOwe, S
<1>10. loan'[l].owed = Lent - Total(Credited', PaymentsOf(l)')
  <2>1. Total(Credited', PaymentsOf(l)') = row.amount + SumOver(Credited, S)
    BY <1>2, <1>4, <1>7, <1>8, TotalIs
  <2>2. Lent \in Int
    BY CashBounds
  <2> QED BY <1>4, <1>7, <1>9, <2>1, <2>2
<1>11. ASSUME NEW k \in Loan \ {l}
       PROVE  /\ loan'[k].state = "signed" => PaymentsOf(k)' = {}
              /\ loan'[k].state = "disbursed" => loan'[k].owed = Lent - Total(Credited', PaymentsOf(k)')
  <2>1. \A p \in PaymentsOf(k) : payment'[p] = payment[p] /\ (StillBooked(p)' <=> StillBooked(p))
    BY <1>1 DEF PaymentsOf
  <2> QED BY <1>2, <2>1, LoanUndisturbed
<1> QED BY <1>10, <1>11 DEF LoansOwe

\* A payment at the counter whose cash is taken out again is owed again, and the cap never binds.
LEMMA PaymentRestored ==
  ASSUME Types, DocumentsStand, Types', DocumentsStand', LoansOwe, NEW m \in DOMAIN movement,
         NEW s \in SessionId, ReverseMovement(m, s), movement[m].kind \in OfCounter,
         NEW a, a = movement[m].of, NEW l, l = payment[a].loan
  PROVE  LoansOwe'
<1> DEFINE row == Row(s, "reversal", -movement[m].amount, a, m)
           S == PaymentsOf(l)
<1>1. /\ ~IsReversed(m) /\ IsExtended(movement, movement', row)
      /\ l \in Loan /\ loan'[l].state = loan[l].state
      /\ loan'[l].owed = IF Lent <= loan[l].owed + payment[a].amount THEN Lent
                         ELSE loan[l].owed + payment[a].amount
      /\ \A k \in Loan \ {l} : loan'[k] = loan[k]
      /\ payment' = payment
  BY ReverseDoes DEF DocumentsStand
<1>2. a \in DOMAIN payment /\ payment[a].origin = "counter"
  BY DEF DocumentsStand, CounterBooked
<1>3. row.kind \notin OfCounter /\ row.reverses = m
  BY RowFields DEF OfCounter
<1>4. \A n \in DOMAIN movement : movement[n].kind \in OfCounter /\ movement[n].of = a => n = m
  BY DEF DocumentsStand, OncePerDocument
<1>5. StillBooked(a)
  BY <1>1 DEF StillBooked
<1>6. /\ DOMAIN movement' = DOMAIN movement \cup {Len(movement) + 1}
      /\ movement'[Len(movement) + 1] = row /\ \A i \in DOMAIN movement : movement'[i] = movement[i]
  BY <1>1, Tables DEF IsExtended
<1>7. \A n \in DOMAIN movement :
        (\E i \in DOMAIN movement' : movement'[i].reverses = n) <=> IsReversed(n) \/ n = m
  BY <1>1, <1>3, ReversedAfter DEF DocumentsStand
<1> HIDE DEF row
<1>8. ~StillBooked(a)'
  <2> SUFFICES ASSUME NEW n \in DOMAIN movement', movement'[n].kind \in OfCounter, movement'[n].of = a
               PROVE  \E i \in DOMAIN movement' : movement'[i].reverses = n
    BY DEF StillBooked, IsReversed
  <2>1. n \in DOMAIN movement /\ movement[n].kind \in OfCounter /\ movement[n].of = a
    BY <1>3, <1>6
  <2> QED BY <1>4, <1>7, <2>1
<1>9. ASSUME NEW p, p # a
      PROVE  StillBooked(p)' <=> StillBooked(p)
  <2> DEFINE Back(n) == \E i \in DOMAIN movement' : movement'[i].reverses = n
  <2>1. StillBooked(p)' <=>
          \E n \in DOMAIN movement' : movement'[n].kind \in OfCounter /\ movement'[n].of = p /\ ~Back(n)
    BY DEF StillBooked, IsReversed
  <2>2. \A n \in DOMAIN movement : movement[n].of = p => (Back(n) <=> IsReversed(n))
    BY <1>7, <1>9
  <2> HIDE DEF Back
  <2> QED BY <1>3, <1>6, <2>1, <2>2 DEF StillBooked
<1>10. CreditedRowByRow /\ CreditedRowByRow'
  BY CreditedIs, CreditedAfter
<1>11. \A k : PaymentsOf(k)' = PaymentsOf(k)
  BY <1>1 DEF PaymentsOf
<1>12. ASSUME NEW k \in Loan \ {l}
       PROVE  /\ loan'[k].state = "signed" => PaymentsOf(k)' = {}
              /\ loan'[k].state = "disbursed" => loan'[k].owed = Lent - Total(Credited', PaymentsOf(k)')
  <2>1. \A p \in PaymentsOf(k) : p # a
    BY DEF PaymentsOf
  <2>2. \A p \in PaymentsOf(k) : payment'[p] = payment[p] /\ (StillBooked(p)' <=> StillBooked(p))
    BY <1>1, <1>9, <2>1
  <2> QED BY <1>1, <1>11, <2>2, LoanUndisturbed
<1> DEFINE amount == payment[a].amount
           rest == S \ {a}
<1>13. Credited[a] = amount /\ amount \in Nat /\ Credited'[a] = 0
  <2>1. payment'[a].origin = "counter" /\ a \in DOMAIN payment'
    BY <1>1, <1>2
  <2>2. Credited[a] = amount /\ Credited[a] \in Nat
    BY <1>2, <1>5, <1>10 DEF CreditedRowByRow
  <2>3. Credited'[a] = 0
    BY <1>8, <1>10, <2>1 DEF CreditedRowByRow
  <2> QED BY <2>2, <2>3
<1>14. ASSUME NEW p \in rest
       PROVE  Credited'[p] = Credited[p] /\ Credited[p] \in Nat
  <2>1. p \in DOMAIN payment /\ p \in DOMAIN payment' /\ p # a /\ payment'[p] = payment[p]
    BY <1>1 DEF PaymentsOf
  <2>2. /\ Credited[p] = IF payment[p].origin = "counter" /\ ~StillBooked(p) THEN 0 ELSE payment[p].amount
        /\ Credited[p] \in Nat
    BY <1>10, <2>1 DEF CreditedRowByRow
  <2>3. Credited'[p] = IF payment'[p].origin = "counter" /\ ~StillBooked(p)' THEN 0 ELSE payment'[p].amount
    BY <1>10, <2>1 DEF CreditedRowByRow
  <2>4. StillBooked(p)' <=> StillBooked(p)
    BY <1>9, <2>1
  <2> QED BY <2>1, <2>2, <2>3, <2>4
<1>15. a \in S /\ S = rest \cup {a} /\ a \notin rest /\ IsFiniteSet(S)
  BY <1>2, IdsAreFinite, FS_Subset DEF PaymentsOf
<1>16. IsFiniteSet(rest)
  BY <1>15, FS_Subset
<1>17. loan[l].state = "disbursed" /\ loan[l].owed = Lent - SumOver(Credited, S)
  <2>1. loan[l].state # "signed"
    BY <1>1, <1>15 DEF LoansOwe
  <2>2. loan[l].state = "disbursed"
    BY <1>1, <2>1, TypesGive DEF LoanRow
  <2> QED BY <1>1, <2>2, TotalIs DEF LoansOwe
<1> HIDE DEF S, rest, amount
<1>18. SumOver(Credited', rest) = SumOver(Credited, rest) /\ SumOver(Credited, rest) \in Nat
  BY <1>14, <1>16, SumsAgree, SumIsNatural
<1>19. SumOver(Credited, S) = amount + SumOver(Credited, rest)
  <2>1. \A p \in rest \cup {a} : Credited[p] \in Int
    BY <1>13, <1>14
  <2> QED BY <1>13, <1>15, <1>16, <2>1, SumOfOneMore
<1>20. SumOver(Credited', S) = SumOver(Credited, rest)
  <2>1. \A p \in rest \cup {a} : Credited'[p] \in Int
    BY <1>13, <1>14
  <2>2. SumOver(Credited', S) = 0 + SumOver(Credited', rest)
    BY <1>13, <1>15, <1>16, <2>1, SumOfOneMore
  <2> QED BY <1>18, <2>2
<1>21. loan'[l].owed = Lent - SumOver(Credited, rest)
  <2>1. Lent \in Int
    BY CashBounds
  <2>2. loan[l].owed + amount = Lent - SumOver(Credited, rest)
    BY <1>13, <1>17, <1>18, <1>19, <2>1
  <2>3. loan'[l].owed = IF Lent <= loan[l].owed + amount THEN Lent ELSE loan[l].owed + amount
    BY <1>1 DEF amount
  <2> QED BY <1>18, <2>1, <2>2, <2>3
<1>22. /\ loan'[l].state = "signed" => PaymentsOf(l)' = {}
       /\ loan'[l].state = "disbursed" => loan'[l].owed = Lent - Total(Credited', PaymentsOf(l)')
  <2>1. loan'[l].state = "disbursed"
    BY <1>1, <1>17
  <2>2. PaymentsOf(l)' = S
    BY <1>11 DEF S
  <2> QED BY <1>20, <1>21, <2>1, <2>2, TotalIs
<1>23. \A k \in Loan :
         /\ loan'[k].state = "signed" => PaymentsOf(k)' = {}
         /\ loan'[k].state = "disbursed" => loan'[k].owed = Lent - Total(Credited', PaymentsOf(k)')
  BY <1>12, <1>22
<1> QED BY <1>23 DEF LoansOwe

LEMMA LoansAfterPayments ==
  ASSUME Types, DocumentsStand, Types', DocumentsStand', LoansOwe
  PROVE  /\ \A c \in Collector, l \in Loan, amount \in Amount : FieldPayment(c, l, amount) => LoansOwe'
         /\ \A t \in DOMAIN transfer : ConfirmTransfer(t) => LoansOwe'
         /\ \A l \in Loan, amount \in Amount, s \in SessionId : CounterPayment(l, amount, s) => LoansOwe'
<1>1. ASSUME NEW by \in Collector, NEW l \in Loan, NEW amount \in Amount, NEW method \in {"cash", "transfer"},
             ApplyExactPayment(by, l, amount, "field", method), UNCHANGED movement
      PROVE  LoansOwe'
  <2> DEFINE row == [by |-> by, loan |-> l, amount |-> amount, origin |-> "field", method |-> method]
  <2>1. /\ row \in PaymentRow /\ IsExtended(payment, payment', row)
        /\ loan[l].state = "disbursed" /\ loan'[l].state = "disbursed"
        /\ loan'[l].owed = loan[l].owed - amount /\ \A k \in Loan \ {l} : loan'[k] = loan[k]
    <3>1. PICK origin \in {"field", "counter"} : origin = "field"
      OBVIOUS
    <3>2. by \in Collector \cup {None} /\ ApplyExactPayment(by, l, amount, origin, method)
      BY <1>1, <3>1
    <3>3. PICK r : r = [by |-> by, loan |-> l, amount |-> amount, origin |-> origin, method |-> method]
      OBVIOUS
    <3>4. r = row
      BY <3>1, <3>3
    <3> HIDE DEF row
    <3>5. r \in PaymentRow /\ IsExtended(payment, payment', r)
      BY <3>2, <3>3, PaymentApplied
    <3>6. /\ loan[l].state = "disbursed" /\ loan'[l].state = "disbursed"
          /\ loan'[l].owed = loan[l].owed - amount
      BY <3>2, PaymentApplied
    <3>7. \A k \in Loan \ {l} : loan'[k] = loan[k]
      <4>1. loan' = [loan EXCEPT ![l].owed = loan[l].owed - amount]
        BY <3>2 DEF ApplyExactPayment
      <4> QED BY <4>1, TypesGive
    <3> QED BY <3>4, <3>5, <3>6, <3>7
  <2>2. row.loan = l /\ row.amount = amount /\ row.origin # "counter"
    OBVIOUS
  <2> HIDE DEF row
  <2>3. \A p : StillBooked(p)' <=> StillBooked(p)
    BY <1>1, StillBookedStays
  <2>4. PICK N : N = Len(payment) + 1
    OBVIOUS
  <2> QED BY <2>1, <2>2, <2>3, <2>4, PaymentOwed
<1>2. ASSUME NEW c \in Collector, NEW l \in Loan, NEW amount \in Amount, FieldPayment(c, l, amount)
      PROVE  LoansOwe'
  BY <1>1, <1>2 DEF FieldPayment
<1>3. ASSUME NEW t \in DOMAIN transfer, ConfirmTransfer(t)
      PROVE  LoansOwe'
  <2>1. transfer[t].by \in Collector /\ transfer[t].loan \in Loan /\ transfer[t].amount \in Amount
    BY <1>3, PaymentsDo
  <2> QED BY <1>1, <1>3, <2>1 DEF ConfirmTransfer
<1>4. ASSUME NEW l \in Loan, NEW amount \in Amount, NEW s \in SessionId, CounterPayment(l, amount, s)
      PROVE  LoansOwe'
  <2> DEFINE new == [by |-> None, loan |-> l, amount |-> amount, origin |-> "counter", method |-> "cash"]
  <2>1. ApplyExactPayment(None, l, amount, "counter", "cash")
    BY <1>4 DEF CounterPayment
  <2>2. /\ new \in PaymentRow /\ IsExtended(payment, payment', new)
        /\ loan[l].state = "disbursed" /\ loan'[l].state = "disbursed"
        /\ loan'[l].owed = loan[l].owed - amount /\ \A k \in Loan \ {l} : loan'[k] = loan[k]
    BY <2>1, PaymentApplied
  <2>3. new.loan = l /\ new.amount = amount
    OBVIOUS
  <2> HIDE DEF new
  <2>4. PICK N : N = Len(payment) + 1
    OBVIOUS
  <2>5. Len(payment') = N /\ N \notin DOMAIN payment
    BY <2>2, <2>4, Tables DEF IsExtended
  <2>6. PICK row : row = Row(s, "counter_payment", amount, N, 0)
    OBVIOUS
  <2>7. IsExtended(movement, movement', row)
    BY <1>4, <2>5, <2>6, PaymentsDo
  <2>8. row.kind = "counter_payment" /\ row.of = N /\ row.reverses = 0
    BY <2>6, RowFields
  <2>9. PICK M : M = Len(movement) + 1
    OBVIOUS
  <2>10. /\ DOMAIN movement' = DOMAIN movement \cup {M} /\ M # 0
         /\ movement'[M] = row /\ \A i \in DOMAIN movement : movement'[i] = movement[i] /\ i # 0
    BY <2>7, <2>9, Tables DEF IsExtended
  <2>11. /\ ~ \E i \in DOMAIN movement' : movement'[i].reverses = M
         /\ \A m \in DOMAIN movement : (\E i \in DOMAIN movement' : movement'[i].reverses = m) <=> IsReversed(m)
    BY <2>7, <2>8, <2>9, <2>10, ReversedAfter DEF DocumentsStand
  <2>12. StillBooked(N)'
    BY <2>8, <2>10, <2>11 DEF StillBooked, IsReversed, OfCounter
  <2>13. ASSUME NEW p \in DOMAIN payment
         PROVE  StillBooked(p)' <=> StillBooked(p)
    <3> DEFINE Back(m) == \E i \in DOMAIN movement' : movement'[i].reverses = m
    <3>1. StillBooked(p)' <=>
            \E m \in DOMAIN movement' : movement'[m].kind \in OfCounter /\ movement'[m].of = p /\ ~Back(m)
      BY DEF StillBooked, IsReversed
    <3>2. \A m \in DOMAIN movement : Back(m) <=> IsReversed(m)
      BY <2>11
    <3>3. row.of # p
      BY <2>5, <2>8
    <3> HIDE DEF Back
    <3> QED BY <2>10, <3>1, <3>2, <3>3 DEF StillBooked
  <2> QED BY <2>2, <2>3, <2>4, <2>12, <2>13, PaymentOwed
<1> QED BY <1>2, <1>3, <1>4

LEMMA LoansKept ==
  ASSUME Types, DocumentsStand, LoansOwe, [Next]_vars
  PROVE  LoansOwe'
<1>a. Types' /\ DocumentsStand'
  BY DocumentsKept
<1>b. ASSUME UNCHANGED <<payment, loan>>,
             \/ movement' = movement
             \/ \E row : /\ IsExtended(movement, movement', row) /\ row.kind \notin OfCounter
                         /\ \/ row.reverses = 0
                            \/ row.reverses \in DOMAIN movement /\ movement[row.reverses].kind \notin OfCounter
      PROVE  LoansOwe'
  BY <1>a, <1>b, LoansUndisturbed
<1>c. \A s, amount, of : \A kind \in {"delivery", "surplus", "cash_addition", "withdrawal", "expense",
                                      "disbursement", "bank_disbursement", "opening_initial_fund"} :
        Row(s, kind, amount, of, 0).kind \notin OfCounter /\ Row(s, kind, amount, of, 0).reverses = 0
  BY DEF Row, OfCounter
<1>q. ASSUME Quiet /\ UNCHANGED loan
      PROVE  LoansOwe'
  BY <1>b, <1>q DEF Quiet
<1>1. ASSUME NEW c \in Collector, EnterPayment(c) PROVE LoansOwe'
  BY <1>1, <1>q, QuietSteps
<1>2. ASSUME NEW c \in Collector, NEW l \in Loan, NEW amount \in Amount,
             FieldPayment(c, l, amount) \/ FieldTransfer(c, l, amount)
      PROVE  LoansOwe'
  BY <1>2, <1>a, <1>q, QuietSteps, LoansAfterPayments
<1>3. ASSUME NEW c \in Collector, NEW amount \in 1 .. Pending(c), Declare(c, amount) PROVE LoansOwe'
  BY <1>3, <1>b DEF Declare
<1>4. ASSUME NEW c \in Collector, NEW amount \in 1 .. Pending(c), NEW s \in SessionId,
             ReceiveCollector(c, amount, s)
      PROVE  LoansOwe'
  <2>1. IsExtended(movement, movement', Row(s, "delivery", amount, Len(delivery) + 1, 0))
    BY <1>4, ReceiveCollectorDoes
  <2>2. UNCHANGED <<payment, loan>>
    BY <1>4 DEF ReceiveCollector
  <2> QED BY <1>b, <1>c, <2>1, <2>2
<1>5. ASSUME NEW c \in Collector, NEW amount \in Sums, NEW s \in SessionId, ReportSurplus(c, amount, s)
      PROVE  LoansOwe'
  BY <1>5, <1>b DEF ReportSurplus
<1>6. ASSUME NEW c \in Collector, NEW to \in Moves, CheckChange(c, to) PROVE LoansOwe'
  BY <1>6, <1>q, QuietSteps
<1>7. ASSUME NEW c \in Collector, Change(c) PROVE LoansOwe'
  BY <1>7, <1>q, QuietSteps
<1>8. ASSUME PaymentFails PROVE LoansOwe'
  BY <1>8, <1>q, QuietSteps
<1>9. ASSUME NEW t \in DOMAIN transfer, ConfirmTransfer(t) \/ RejectTransfer(t) PROVE LoansOwe'
  BY <1>9, <1>a, <1>q, QuietSteps, LoansAfterPayments
<1>10. ASSUME NEW d \in DOMAIN delivery, NEW s \in SessionId, NEW amount \in 1 .. delivery[d].declared,
              Receive(d, amount, s)
       PROVE  LoansOwe'
  <2>1. IsExtended(movement, movement', Row(s, "delivery", amount, d, 0))
    BY <1>10, ReceiveDoes
  <2>2. UNCHANGED <<payment, loan>>
    BY <1>10 DEF Receive
  <2> QED BY <1>b, <1>c, <2>1, <2>2
<1>11. ASSUME NEW d \in DOMAIN delivery, NEW s \in SessionId, ConfirmSurplus(d, s) PROVE LoansOwe'
  <2>1. IsExtended(movement, movement', Row(s, "surplus", delivery[d].declared, d, 0))
    BY <1>11, ConfirmSurplusDoes
  <2>2. UNCHANGED <<payment, loan>>
    BY <1>11 DEF ConfirmSurplus
  <2> QED BY <1>b, <1>c, <2>1, <2>2
<1>12. ASSUME NEW d \in DOMAIN delivery, RejectDelivery(d) \/ RejectSurplus(d) PROVE LoansOwe'
  BY <1>12, <1>b DEF RejectDelivery, RejectSurplus
<1>13. ASSUME NEW o \in DOMAIN order, DropAddition(o) PROVE LoansOwe'
  BY <1>13, <1>b DEF DropAddition
<1>14. ASSUME NEW o \in DOMAIN order, NEW s \in SessionId, ConfirmAddition(o, s) PROVE LoansOwe'
  <2>1. PICK kind \in {"cash_addition", "withdrawal"} :
          IsExtended(movement, movement', Row(s, kind, order[o].amount, o, 0))
    BY <1>14, OrdersDo
  <2>2. UNCHANGED <<payment, loan>>
    BY <1>14 DEF ConfirmAddition
  <2> QED BY <1>b, <1>c, <2>1, <2>2
<1>15. ASSUME NEW k \in Cashier, NEW amount \in Sums,
              RequestAddition(k, amount) \/ RequestAddition(k, -amount)
       PROVE  LoansOwe'
  BY <1>15, <1>b DEF RequestAddition
<1>16. ASSUME NEW s \in SessionId, NEW l \in Loan, NEW amount \in Amount, CounterPayment(l, amount, s)
       PROVE  LoansOwe'
  BY <1>16, <1>a, LoansAfterPayments
<1>17. ASSUME NEW s \in SessionId, NEW l \in Loan, NEW method \in {"cash", "transfer"}, Disburse(l, method, s)
       PROVE  LoansOwe'
  <2>1. \/ IsExtended(movement, movement', Row(s, "disbursement", -Lent, 0, 0))
        \/ IsExtended(movement, movement', Row(s, "bank_disbursement", 0, 0, 0))
    BY <1>17, LooseMovementsDo
  <2>2. \E row : IsExtended(movement, movement', row) /\ row.kind \notin OfCounter /\ row.reverses = 0
    BY <1>c, <2>1
  <2>3. /\ UNCHANGED payment /\ loan[l].state = "signed"
        /\ loan' = [loan EXCEPT ![l] = [state |-> "disbursed", owed |-> Lent]]
    BY <1>17 DEF Disburse
  <2>4. \A k \in Loan :
          \/ loan'[k] = loan[k]
          \/ loan[k].state = "signed" /\ loan'[k] = [state |-> "disbursed", owed |-> Lent]
    BY <2>3, TypesGive
  <2> QED BY <1>a, <2>2, <2>3, <2>4, LoansUndisturbed
<1>18. ASSUME NEW s \in SessionId, NEW amount \in Sums, Expense(s, amount) PROVE LoansOwe'
  <2>1. IsExtended(movement, movement', Row(s, "expense", -amount, 0, 0))
    BY <1>18, LooseMovementsDo
  <2>2. UNCHANGED <<payment, loan>>
    BY <1>18 DEF Expense
  <2> QED BY <1>b, <1>c, <2>1, <2>2
<1>19. ASSUME NEW s \in SessionId, NEW m \in DOMAIN movement, ReverseMovement(m, s) PROVE LoansOwe'
  <2>1. CASE movement[m].kind \in OfCounter
    <3>1. PICK a : a = movement[m].of
      OBVIOUS
    <3>2. PICK l : l = payment[a].loan
      OBVIOUS
    <3> QED BY <1>19, <1>a, <2>1, <3>1, <3>2, PaymentRestored
  <2>2. CASE movement[m].kind \notin OfCounter
    <3> DEFINE row == Row(s, "reversal", -movement[m].amount, movement[m].of, m)
    <3>1. IsExtended(movement, movement', row) /\ UNCHANGED <<payment, loan>>
      BY <1>19, <2>2, ReverseDoes DEF DocumentsStand
    <3>2. row.kind \notin OfCounter /\ row.reverses = m
      BY RowFields DEF OfCounter
    <3> HIDE DEF row
    <3> QED BY <1>b, <2>2, <3>1, <3>2, <1>19
  <2> QED BY <2>1, <2>2
<1>20. ASSUME NEW s \in SessionId, NEW fund \in Funds, OpenSession(s, fund) PROVE LoansOwe'
  <2>1. \/ movement' = movement
        \/ IsExtended(movement, movement', Row(s, "opening_initial_fund", fund, 0, 0))
    BY <1>20, LooseMovementsDo
  <2>2. UNCHANGED <<payment, loan>>
    BY <1>20 DEF OpenSession
  <2> QED BY <1>b, <1>c, <2>1, <2>2
<1>21. ASSUME NEW s \in SessionId, CloseSession(s) PROVE LoansOwe'
  BY <1>21, <1>q, QuietSteps
<1>22. ASSUME UNCHANGED vars PROVE LoansOwe'
  BY <1>22, <1>q, QuietSteps
<1>23. LoansOwe'
  BY <1>1, <1>2, <1>3, <1>4, <1>5, <1>6, <1>7, <1>8, <1>9, <1>10, <1>11, <1>12, <1>13, <1>14, <1>15, <1>16,
     <1>17, <1>18, <1>19, <1>20, <1>21, <1>22 DEF Next
<1> QED BY <1>23

LEMMA BooksBegin == Init => Types /\ DocumentsStand /\ LoansOwe
<1> SUFFICES ASSUME Init PROVE Types /\ DocumentsStand /\ LoansOwe
  OBVIOUS
<1>1. payment = <<>> /\ delivery = <<>> /\ movement = <<>> /\ order = <<>> /\ transfer = <<>>
  BY DEF Init
<1>2. /\ payment \in Seq(PaymentRow) /\ delivery \in Seq(DeliveryRow) /\ movement \in Seq(MovementRow)
      /\ order \in Seq(OrderRow) /\ transfer \in Seq(TransferRow)
      /\ DOMAIN payment = {} /\ DOMAIN delivery = {} /\ DOMAIN movement = {} /\ DOMAIN order = {}
      /\ Len(payment) = 0 /\ Len(delivery) = 0 /\ Len(order) = 0 /\ Len(transfer) = 0
  BY <1>1
<1>3. Bounded
  BY <1>2, CashBounds DEF Bounded
<1>4. /\ account \in [Collector -> [place : Place, to : Place \cup {None}]]
      /\ entered \in Collector \cup {None}
      /\ session \in [SessionId -> [state : {"unopened", "open", "closed"}, balance : Nat]]
  BY DEF Init, Place
<1>5. loan \in [Loan -> [state : {"signed", "disbursed"}, owed : 0 .. Lent]]
      /\ \A l \in Loan : loan[l].state = "disbursed" => loan[l].owed = Lent
  BY CashBounds DEF Init
<1>6. Types
  BY <1>2, <1>3, <1>4, <1>5 DEF Types, TypeOK
<1>7. DocumentsStand
  BY <1>2 DEF DocumentsStand, ReversalsStand, OncePerDocument, CounterBooked, DeliveriesBooked, OrdersBooked
<1>8. LoansOwe
  <2>1. \A l : PaymentsOf(l) = {}
    BY <1>2 DEF PaymentsOf
  <2>2. Total(Credited, {}) = 0
    BY TotalIs, SumOfNone
  <2>3. Lent - 0 = Lent
    BY CashBounds
  <2> QED BY <1>5, <2>1, <2>2, <2>3 DEF LoansOwe
<1> QED BY <1>6, <1>7, <1>8

BooksInv == Types /\ DocumentsStand /\ LoansOwe

LEMMA BookedOnceFollows == BooksInv => BookedOnce
<1> SUFFICES ASSUME Types, DocumentsStand, LoansOwe PROVE BookedOnce
  BY DEF BooksInv
<1> USE DEF DocumentsStand
<1>1. ASSUME NEW d \in DOMAIN delivery
      PROVE  Booked({"delivery", "surplus"}, d) =
               IF delivery[d].state \in {"confirmed", "surplus_confirmed"} THEN delivery[d].received ELSE 0
  <2>1. OfCollectors \in Groups /\ OfCollectors = {"delivery", "surplus"}
        /\ InForce = {"confirmed", "surplus_confirmed"}
    BY DEF Groups, OfCollectors, InForce
  <2>2. CASE \A m \in DOMAIN movement : movement[m].kind \in OfCollectors => movement[m].of # d
    <3>1. Booked(OfCollectors, d) = 0
      BY <2>1, <2>2, BookedIs
    <3>2. delivery[d].state \notin InForce
      BY <2>2 DEF DeliveriesBooked
    <3> QED BY <2>1, <3>1, <3>2
  <2>3. ASSUME NEW m \in DOMAIN movement, movement[m].kind \in OfCollectors, movement[m].of = d
        PROVE  Booked({"delivery", "surplus"}, d) =
                 IF delivery[d].state \in {"confirmed", "surplus_confirmed"} THEN delivery[d].received ELSE 0
    <3>1. Booked(OfCollectors, d) = IF IsReversed(m) THEN 0 ELSE movement[m].amount
      BY <2>1, <2>3, BookedIs
    <3>2. IF IsReversed(m) THEN delivery[d].state = "reversed"
          ELSE delivery[d].state \in InForce /\ delivery[d].received = movement[m].amount
      BY <2>3 DEF DeliveriesBooked
    <3> QED BY <2>1, <3>1, <3>2
  <2> QED BY <2>2, <2>3
<1>2. ASSUME NEW o \in DOMAIN order
      PROVE  Booked({"cash_addition", "withdrawal"}, o) \in
               IF order[o].state = "confirmed" THEN {0, order[o].amount} ELSE {0}
  <2>1. OfOrders \in Groups /\ OfOrders = {"cash_addition", "withdrawal"}
    BY DEF Groups, OfOrders
  <2>2. CASE \A m \in DOMAIN movement : movement[m].kind \in OfOrders => movement[m].of # o
    <3>1. Booked(OfOrders, o) = 0
      BY <2>1, <2>2, BookedIs
    <3> QED BY <2>1, <3>1
  <2>3. ASSUME NEW m \in DOMAIN movement, movement[m].kind \in OfOrders, movement[m].of = o
        PROVE  Booked({"cash_addition", "withdrawal"}, o) \in
                 IF order[o].state = "confirmed" THEN {0, order[o].amount} ELSE {0}
    <3>1. Booked(OfOrders, o) = IF IsReversed(m) THEN 0 ELSE movement[m].amount
      BY <2>1, <2>3, BookedIs
    <3>2. order[o].state = "confirmed" /\ order[o].amount = movement[m].amount
      BY <2>3 DEF OrdersBooked
    <3> QED BY <2>1, <3>1, <3>2
  <2> QED BY <2>2, <2>3
<1>3. ASSUME NEW l \in Loan, loan[l].state = "disbursed"
      PROVE  loan[l].owed = Lent - Total(Credited, {p \in DOMAIN payment : payment[p].loan = l})
  BY <1>3 DEF LoansOwe, PaymentsOf
<1> QED BY <1>1, <1>2, <1>3 DEF BookedOnce

LEMMA BooksKept == BooksInv /\ [Next]_vars => BooksInv'
BY DocumentsKept, LoansKept DEF BooksInv

\* What the movements say of each document, and each loan of its payments, is inductive.
THEOREM BooksInductive == Spec => []BooksInv
<1>1. Init => BooksInv
  BY BooksBegin DEF BooksInv
<1> QED BY <1>1, BooksKept, PTL DEF Spec

\* After any history of corrections every delivery, surplus and order is in the drawers exactly while
\* it is in force, and a loan owes what its payments left (add_movement and reverse of cash_service.py).
THEOREM DocumentsBookedOnce == Spec => []BookedOnce
BY BooksInductive, BookedOnceFollows, PTL

-----------------------------------------------------------------------------
(* How an amount is spread over payments.                                  *)

Lesser(a, b) == IF a <= b THEN a ELSE b

\* Each of O takes, in order, what the older ones leave of the amount, and at most what it has left.
AreShares(part, left, O, amount) ==
  \A p \in PaymentId :
    part[p] = IF p \in O
              THEN Min({left[p], Max({0, amount - SumOver(left, {q \in O : q < p})})}) ELSE 0

\* Together the shares are the amount, or all there is.
LEMMA SharesAddUp ==
  ASSUME NEW O \in SUBSET PaymentId, NEW left, \A p \in O : left[p] \in Nat,
         NEW amount \in Nat, NEW part, AreShares(part, left, O, amount)
  PROVE  /\ \A p \in PaymentId : part[p] \in Nat
         /\ \A p \in O : part[p] <= left[p]
         /\ \A p \in PaymentId \ O : part[p] = 0
         /\ SumOver(part, PaymentId) = Lesser(amount, SumOver(left, O))
<1>n. PICK N \in Nat : PaymentId = 1 .. N
  BY CashBounds DEF PaymentId
<1> DEFINE Before(n) == {q \in O : q < n}
           T == {n \in Nat : n <= N => SumOver(part, 1 .. n) = Lesser(amount, SumOver(left, Before(n + 1)))}
<1>0. \A q \in O : q \in Int /\ 1 <= q /\ q <= N
  BY <1>n
<1>s. \A p \in 1 .. N :
        part[p] = IF p \in O THEN Min({left[p], Max({0, amount - SumOver(left, Before(p))})}) ELSE 0
  BY <1>n DEF AreShares
<1>1. \A n : IsFiniteSet(Before(n)) /\ Before(n) \subseteq O
  <2>1. IsFiniteSet(1 .. N) /\ O \subseteq 1 .. N
    BY <1>n, FS_Interval
  <2> QED BY <2>1, FS_Subset
<1>2. \A n : SumOver(left, Before(n)) \in Nat
  <2> SUFFICES ASSUME NEW n PROVE SumOver(left, Before(n)) \in Nat
    OBVIOUS
  <2>1. IsFiniteSet(Before(n)) /\ \A q \in Before(n) : left[q] \in Nat
    BY <1>1
  <2> HIDE DEF Before
  <2> QED BY <2>1, SumIsNatural
<1>3. ASSUME NEW p \in O
      PROVE  LET rest == amount - SumOver(left, Before(p))
             IN /\ part[p] = IF rest <= 0 THEN 0 ELSE Lesser(left[p], rest)
                /\ part[p] \in Nat /\ part[p] <= left[p]
  <2> DEFINE rest == amount - SumOver(left, Before(p))
  <2>1. rest \in Int /\ left[p] \in Nat /\ p \in 1 .. N
    <3>1. SumOver(left, Before(p)) \in Nat
      <4> HIDE DEF Before
      <4> QED BY <1>2
    <3> HIDE DEF Before
    <3> QED BY <1>n, <3>1
  <2>2. part[p] = Min({left[p], Max({0, rest})})
    BY <1>s, <2>1
  <2> HIDE DEF rest
  <2>3. Max({0, rest}) = (IF 0 <= rest THEN rest ELSE 0) /\ Max({0, rest}) \in Int
    BY <2>1, MaxOfTwo
  <2>4. part[p] = IF left[p] <= Max({0, rest}) THEN left[p] ELSE Max({0, rest})
    BY <2>1, <2>2, <2>3, MinOfTwo
  <2>5. /\ part[p] = IF rest <= 0 THEN 0 ELSE Lesser(left[p], rest)
        /\ part[p] \in Nat /\ part[p] <= left[p]
    BY <2>1, <2>3, <2>4 DEF Lesser
  <2> QED BY <2>5 DEF rest
<1>4. \A p \in 1 .. N : part[p] \in Nat
  <2>1. ASSUME NEW p \in 1 .. N, p \in O PROVE part[p] \in Nat
    BY <2>1, <1>3
  <2>2. ASSUME NEW p \in 1 .. N, p \notin O PROVE part[p] \in Nat
    <3>1. part[p] = 0
      BY <1>s, <2>2
    <3> QED BY <3>1
  <2> QED BY <2>1, <2>2
<1>5. 0 \in T
  <2>1. 1 .. 0 = {} /\ Before(0 + 1) = {}
    <3>1. \A q \in O : ~(q < 0 + 1)
      BY <1>0
    <3>2. 1 .. 0 = {}
      OBVIOUS
    <3> QED BY <3>1, <3>2
  <2>2. SumOver(part, 1 .. 0) = 0 /\ SumOver(left, Before(0 + 1)) = 0
    <3> HIDE DEF Before
    <3> QED BY <2>1, SumOfNone
  <2>3. Lesser(amount, 0) = 0
    BY DEF Lesser
  <2>4. SumOver(part, 1 .. 0) = Lesser(amount, SumOver(left, Before(0 + 1)))
    BY <2>2, <2>3
  <2> QED BY <2>4
<1>6. ASSUME NEW n \in Nat, n \in T
      PROVE  n + 1 \in T
  <2> SUFFICES ASSUME n + 1 <= N
               PROVE  SumOver(part, 1 .. (n + 1)) = Lesser(amount, SumOver(left, Before((n + 1) + 1)))
    OBVIOUS
  <2> DEFINE a == n + 1
             A == SumOver(left, Before(a))
  <2>1. SumOver(part, 1 .. n) = Lesser(amount, A)
    BY <1>6
  <2>2. a \in 1 .. N /\ 1 .. (n + 1) = (1 .. n) \cup {a} /\ a \notin 1 .. n /\ 1 .. n \subseteq 1 .. N
    OBVIOUS
  <2>3. SumOver(part, 1 .. (n + 1)) = part[a] + SumOver(part, 1 .. n)
    <3>1. IsFiniteSet(1 .. n) /\ \A p \in (1 .. n) \cup {a} : part[p] \in Int
      BY <1>4, <2>2, FS_Interval
    <3> HIDE DEF a
    <3> QED BY <2>2, <3>1, SumOfOneMore
  <2>4. A \in Nat
    BY <1>2
  <2>5. CASE a \in O
    <3>1. Before((n + 1) + 1) = Before(a) \cup {a} /\ a \notin Before(a)
      <4>1. \A q \in O : q < (n + 1) + 1 <=> q < n + 1 \/ q = n + 1
        BY <1>0
      <4>2. ~(a < a) /\ a < (n + 1) + 1
        OBVIOUS
      <4>3. \A q \in O : q < (n + 1) + 1 <=> q < a \/ q = a
        BY <4>1
      <4> HIDE DEF a
      <4> QED BY <2>5, <4>2, <4>3
    <3>2. \A q \in Before(a) \cup {a} : left[q] \in Int
      BY <2>5
    <3>3. part[a] = (IF amount - A <= 0 THEN 0 ELSE Lesser(left[a], amount - A)) /\ left[a] \in Nat
      BY <1>3, <2>5
    <3>4. SumOver(left, Before((n + 1) + 1)) = left[a] + A
      <4>1. IsFiniteSet(Before(a))
        BY <1>1
      <4> HIDE DEF a, Before
      <4> QED BY <3>1, <3>2, <4>1, SumOfOneMore
    <3> HIDE DEF a, A, Before
    <3> QED BY <2>1, <2>3, <2>4, <3>3, <3>4 DEF Lesser
  <2>6. CASE a \notin O
    <3>1. Before((n + 1) + 1) = Before(a)
      <4>1. \A q \in O : q < (n + 1) + 1 <=> q < n + 1 \/ q = n + 1
        BY <1>0
      <4> QED BY <2>6, <4>1
    <3>2. part[a] = 0
      BY <1>s, <2>2, <2>6
    <3>3. SumOver(left, Before((n + 1) + 1)) = A
      BY <3>1
    <3> HIDE DEF a, A, Before
    <3> QED BY <2>1, <2>3, <2>4, <3>2, <3>3 DEF Lesser
  <2> QED BY <2>5, <2>6
<1>7. N \in T
  <2> HIDE DEF T
  <2> QED BY <1>5, <1>6, EveryNatural
<1>8. Before(N + 1) = O
  <2>1. \A q \in O : q < N + 1
    BY <1>0
  <2> QED BY <2>1
<1>9. SumOver(part, 1 .. N) = Lesser(amount, SumOver(left, O))
  <2>1. SumOver(part, 1 .. N) = Lesser(amount, SumOver(left, Before(N + 1)))
    BY <1>7
  <2> HIDE DEF Before
  <2> QED BY <1>8, <2>1
<1>10. \A p \in (1 .. N) \ O : part[p] = 0
  BY <1>s
<1>11. \A p \in O : part[p] <= left[p]
  BY <1>3
<1> QED BY <1>n, <1>4, <1>9, <1>10, <1>11

-----------------------------------------------------------------------------
(* What collectors hold, delivery by delivery.                             *)

FieldCashOf(c) == {p \in DOMAIN payment : payment[p].by = c /\ IsFieldCash(p)}
Taken(c) == SumOver([p \in DOMAIN payment |-> payment[p].amount], FieldCashOf(c))

\* What a delivery counts for in the allocations, and in what its collector declared and handed in.
ConfirmedPart(row, p) == IF row.state = "confirmed" THEN row.parts[p] ELSE 0
OpenDeclared(row, c) == IF row.collector = c /\ row.state = "pending" THEN row.declared ELSE 0
TakenIn(row, c) == IF row.collector = c /\ row.state = "confirmed" THEN row.received ELSE 0

PartsIn(t, p) == SumOver([d \in DOMAIN t |-> t[d].parts[p]], DOMAIN t)
ConfirmedIn(t, p) == SumOver([d \in DOMAIN t |-> ConfirmedPart(t[d], p)], DOMAIN t)
DeclaredIn(t, c) == SumOver([d \in DOMAIN t |-> OpenDeclared(t[d], c)], DOMAIN t)
ReceivedIn(t, c) == SumOver([d \in DOMAIN t |-> TakenIn(t[d], c)], DOMAIN t)

\* A delivery that is not decided is allotted to nothing; a confirmed one to cash that its collector took
\* in the field, as much as was received.
GoodRow(row) ==
  /\ row.state \in {"pending", "surplus_review", "surplus_confirmed"} => row.parts = NoParts
  /\ row.state = "confirmed" =>
       /\ SumOver(row.parts, PaymentId) = row.received
       /\ \A p \in PaymentId : row.parts[p] >= 0
       /\ \A p \in PaymentId : row.parts[p] # 0 => p \in FieldCashOf(row.collector)

PartsStand == \A d \in DOMAIN delivery : GoodRow(delivery[d])
OnlyConfirmedCount == \A p \in PaymentId : PartsIn(delivery, p) = ConfirmedIn(delivery, p)
NoneAllottedTwice == \A p \in DOMAIN payment : PartsIn(delivery, p) <= payment[p].amount
DeclaredFits == \A c \in Collector : DeclaredIn(delivery, c) + ReceivedIn(delivery, c) <= Taken(c)

HeldInv == PartsStand /\ OnlyConfirmedCount /\ NoneAllottedTwice /\ DeclaredFits

LEMMA MeasureTypes ==
  ASSUME NEW row \in DeliveryRow
  PROVE  /\ \A p \in PaymentId : row.parts[p] \in Int /\ ConfirmedPart(row, p) \in Int
         /\ \A c : OpenDeclared(row, c) \in Nat /\ TakenIn(row, c) \in Int
<1>1. row.declared \in Nat /\ row.received \in Int /\ row.parts \in [PaymentId -> Int]
  BY DEF DeliveryRow, Parts
<1> QED BY <1>1 DEF ConfirmedPart, OpenDeclared, TakenIn

LEMMA SumsOfMeasures ==
  ASSUME NEW t \in Seq(DeliveryRow)
  PROVE  /\ IsFiniteSet(DOMAIN t) /\ DOMAIN t = 1 .. Len(t) /\ Len(t) \in Nat
         /\ \A d \in DOMAIN t : t[d] \in DeliveryRow
         /\ \A p \in PaymentId : PartsIn(t, p) \in Int /\ ConfirmedIn(t, p) \in Int
         /\ \A c : DeclaredIn(t, c) \in Int /\ ReceivedIn(t, c) \in Int
<1>1. DOMAIN t = 1 .. Len(t) /\ Len(t) \in Nat /\ \A d \in DOMAIN t : t[d] \in DeliveryRow
  OBVIOUS
<1>2. IsFiniteSet(DOMAIN t)
  BY <1>1, FS_Interval
<1>3. ASSUME NEW p \in PaymentId
      PROVE  PartsIn(t, p) \in Int /\ ConfirmedIn(t, p) \in Int
  <2> DEFINE f == [d \in DOMAIN t |-> t[d].parts[p]]
             g == [d \in DOMAIN t |-> ConfirmedPart(t[d], p)]
  <2>1. \A d \in DOMAIN t : f[d] \in Int /\ g[d] \in Int
    BY <1>1, MeasureTypes
  <2> HIDE DEF f, g
  <2>2. SumOver(f, DOMAIN t) \in Int /\ SumOver(g, DOMAIN t) \in Int
    BY <1>2, <2>1, SumType
  <2> QED BY <2>2 DEF f, g, PartsIn, ConfirmedIn
<1>4. ASSUME NEW c
      PROVE  DeclaredIn(t, c) \in Int /\ ReceivedIn(t, c) \in Int
  <2> DEFINE f == [d \in DOMAIN t |-> OpenDeclared(t[d], c)]
             g == [d \in DOMAIN t |-> TakenIn(t[d], c)]
  <2>1. \A d \in DOMAIN t : f[d] \in Int /\ g[d] \in Int
    BY <1>1, MeasureTypes
  <2> HIDE DEF f, g
  <2>2. SumOver(f, DOMAIN t) \in Int /\ SumOver(g, DOMAIN t) \in Int
    BY <1>2, <2>1, SumType
  <2> QED BY <2>2 DEF f, g, DeclaredIn, ReceivedIn
<1> QED BY <1>1, <1>2, <1>3, <1>4

\* A function of the rows, summed over a table with one row more, or one row other.
LEMMA SumExtended ==
  ASSUME NEW s \in Seq(DeliveryRow), NEW t, NEW x, IsExtended(s, t, x), NEW f, NEW g,
         \A d \in DOMAIN t : g[d] \in Int, \A d \in DOMAIN s : f[d] = g[d]
  PROVE  SumOver(g, DOMAIN t) = SumOver(f, DOMAIN s) + g[Len(s) + 1]
<1>1. /\ IsFiniteSet(DOMAIN s) /\ DOMAIN t = DOMAIN s \cup {Len(s) + 1} /\ Len(s) + 1 \notin DOMAIN s
      /\ Len(s) + 1 \in DOMAIN t
  BY SumsOfMeasures DEF IsExtended
<1>2. SumOver(g, DOMAIN s \cup {Len(s) + 1}) = g[Len(s) + 1] + SumOver(g, DOMAIN s)
  BY <1>1, SumOfOneMore
<1>3. SumOver(f, DOMAIN s) = SumOver(g, DOMAIN s)
  BY <1>1, SumsAgree
<1>4. SumOver(g, DOMAIN s) \in Int /\ g[Len(s) + 1] \in Int
  BY <1>1, SumType
<1> QED BY <1>1, <1>2, <1>3, <1>4

LEMMA MeasuresExtended ==
  ASSUME NEW s \in Seq(DeliveryRow), NEW x \in DeliveryRow, NEW t, IsExtended(s, t, x)
  PROVE  /\ \A p \in PaymentId : PartsIn(t, p) = PartsIn(s, p) + x.parts[p]
         /\ \A p \in PaymentId : ConfirmedIn(t, p) = ConfirmedIn(s, p) + ConfirmedPart(x, p)
         /\ \A c : DeclaredIn(t, c) = DeclaredIn(s, c) + OpenDeclared(x, c)
         /\ \A c : ReceivedIn(t, c) = ReceivedIn(s, c) + TakenIn(x, c)
<1> DEFINE N == Len(s) + 1
<1>1. /\ DOMAIN t = DOMAIN s \cup {N} /\ t[N] = x /\ N \in DOMAIN t
      /\ \A d \in DOMAIN s : t[d] = s[d] /\ s[d] \in DeliveryRow
  BY SumsOfMeasures DEF IsExtended
<1>2. \A d \in DOMAIN t : t[d] \in DeliveryRow
  BY <1>1
<1>3. ASSUME NEW f, NEW g, \A d \in DOMAIN t : g[d] \in Int, \A d \in DOMAIN s : f[d] = g[d]
      PROVE  SumOver(g, DOMAIN t) = SumOver(f, DOMAIN s) + g[N]
  BY <1>3, SumExtended
<1> HIDE DEF N
<1>4. ASSUME NEW p \in PaymentId
      PROVE  /\ PartsIn(t, p) = PartsIn(s, p) + x.parts[p]
             /\ ConfirmedIn(t, p) = ConfirmedIn(s, p) + ConfirmedPart(x, p)
  <2> DEFINE f == [d \in DOMAIN s |-> s[d].parts[p]]
             g == [d \in DOMAIN t |-> t[d].parts[p]]
             h == [d \in DOMAIN s |-> ConfirmedPart(s[d], p)]
             k == [d \in DOMAIN t |-> ConfirmedPart(t[d], p)]
  <2>1. \A d \in DOMAIN t : g[d] \in Int /\ k[d] \in Int
    BY <1>2, MeasureTypes
  <2>2. \A d \in DOMAIN s : f[d] = g[d] /\ h[d] = k[d]
    BY <1>1
  <2>3. g[N] = x.parts[p] /\ k[N] = ConfirmedPart(x, p)
    BY <1>1
  <2> HIDE DEF f, g, h, k
  <2>4. SumOver(g, DOMAIN t) = SumOver(f, DOMAIN s) + g[N]
    BY <1>3, <2>1, <2>2
  <2>5. SumOver(k, DOMAIN t) = SumOver(h, DOMAIN s) + k[N]
    BY <1>3, <2>1, <2>2
  <2> QED BY <2>3, <2>4, <2>5 DEF f, g, h, k, PartsIn, ConfirmedIn
<1>5. ASSUME NEW c
      PROVE  /\ DeclaredIn(t, c) = DeclaredIn(s, c) + OpenDeclared(x, c)
             /\ ReceivedIn(t, c) = ReceivedIn(s, c) + TakenIn(x, c)
  <2> DEFINE f == [d \in DOMAIN s |-> OpenDeclared(s[d], c)]
             g == [d \in DOMAIN t |-> OpenDeclared(t[d], c)]
             h == [d \in DOMAIN s |-> TakenIn(s[d], c)]
             k == [d \in DOMAIN t |-> TakenIn(t[d], c)]
  <2>1. \A d \in DOMAIN t : g[d] \in Int /\ k[d] \in Int
    BY <1>2, MeasureTypes
  <2>2. \A d \in DOMAIN s : f[d] = g[d] /\ h[d] = k[d]
    BY <1>1
  <2>3. g[N] = OpenDeclared(x, c) /\ k[N] = TakenIn(x, c)
    BY <1>1
  <2> HIDE DEF f, g, h, k
  <2>4. SumOver(g, DOMAIN t) = SumOver(f, DOMAIN s) + g[N]
    BY <1>3, <2>1, <2>2
  <2>5. SumOver(k, DOMAIN t) = SumOver(h, DOMAIN s) + k[N]
    BY <1>3, <2>1, <2>2
  <2> QED BY <2>3, <2>4, <2>5 DEF f, g, h, k, DeclaredIn, ReceivedIn
<1> QED BY <1>4, <1>5

LEMMA MeasuresReplaced ==
  ASSUME NEW s \in Seq(DeliveryRow), NEW i \in DOMAIN s, NEW x \in DeliveryRow, NEW t,
         IsReplaced(s, t, i, x)
  PROVE  /\ \A p \in PaymentId : PartsIn(t, p) = PartsIn(s, p) + x.parts[p] - s[i].parts[p]
         /\ \A p \in PaymentId :
              ConfirmedIn(t, p) = ConfirmedIn(s, p) + ConfirmedPart(x, p) - ConfirmedPart(s[i], p)
         /\ \A c : DeclaredIn(t, c) = DeclaredIn(s, c) + OpenDeclared(x, c) - OpenDeclared(s[i], c)
         /\ \A c : ReceivedIn(t, c) = ReceivedIn(s, c) + TakenIn(x, c) - TakenIn(s[i], c)
<1>1. /\ DOMAIN t = DOMAIN s /\ t[i] = x /\ IsFiniteSet(DOMAIN s)
      /\ \A d \in DOMAIN s : s[d] \in DeliveryRow /\ t[d] \in DeliveryRow
      /\ \A d \in DOMAIN s \ {i} : t[d] = s[d]
  BY SumsOfMeasures DEF IsReplaced
<1>2. ASSUME NEW f, NEW g, \A d \in DOMAIN s : f[d] \in Int /\ g[d] \in Int, \A d \in DOMAIN s \ {i} : f[d] = g[d]
      PROVE  SumOver(g, DOMAIN t) = SumOver(f, DOMAIN s) + g[i] - f[i]
  <2>1. SumOver(g, DOMAIN s) = SumOver(f, DOMAIN s) + g[i] - f[i]
    BY <1>1, <1>2, SumOfOneChanged
  <2> QED BY <1>1, <2>1
<1>3. ASSUME NEW p \in PaymentId
      PROVE  /\ PartsIn(t, p) = PartsIn(s, p) + x.parts[p] - s[i].parts[p]
             /\ ConfirmedIn(t, p) = ConfirmedIn(s, p) + ConfirmedPart(x, p) - ConfirmedPart(s[i], p)
  <2> DEFINE f == [d \in DOMAIN s |-> s[d].parts[p]]
             g == [d \in DOMAIN t |-> t[d].parts[p]]
             h == [d \in DOMAIN s |-> ConfirmedPart(s[d], p)]
             k == [d \in DOMAIN t |-> ConfirmedPart(t[d], p)]
  <2>1. \A d \in DOMAIN s : f[d] \in Int /\ g[d] \in Int /\ h[d] \in Int /\ k[d] \in Int
    BY <1>1, MeasureTypes
  <2>2. \A d \in DOMAIN s \ {i} : f[d] = g[d] /\ h[d] = k[d]
    BY <1>1
  <2>3. /\ g[i] = x.parts[p] /\ k[i] = ConfirmedPart(x, p)
        /\ f[i] = s[i].parts[p] /\ h[i] = ConfirmedPart(s[i], p)
    BY <1>1
  <2> HIDE DEF f, g, h, k
  <2>4. SumOver(g, DOMAIN t) = SumOver(f, DOMAIN s) + g[i] - f[i]
    BY <1>2, <2>1, <2>2
  <2>5. SumOver(k, DOMAIN t) = SumOver(h, DOMAIN s) + k[i] - h[i]
    BY <1>2, <2>1, <2>2
  <2> QED BY <2>3, <2>4, <2>5 DEF f, g, h, k, PartsIn, ConfirmedIn
<1>4. ASSUME NEW c
      PROVE  /\ DeclaredIn(t, c) = DeclaredIn(s, c) + OpenDeclared(x, c) - OpenDeclared(s[i], c)
             /\ ReceivedIn(t, c) = ReceivedIn(s, c) + TakenIn(x, c) - TakenIn(s[i], c)
  <2> DEFINE f == [d \in DOMAIN s |-> OpenDeclared(s[d], c)]
             g == [d \in DOMAIN t |-> OpenDeclared(t[d], c)]
             h == [d \in DOMAIN s |-> TakenIn(s[d], c)]
             k == [d \in DOMAIN t |-> TakenIn(t[d], c)]
  <2>1. \A d \in DOMAIN s : f[d] \in Int /\ g[d] \in Int /\ h[d] \in Int /\ k[d] \in Int
    BY <1>1, MeasureTypes
  <2>2. \A d \in DOMAIN s \ {i} : f[d] = g[d] /\ h[d] = k[d]
    BY <1>1
  <2>3. /\ g[i] = OpenDeclared(x, c) /\ k[i] = TakenIn(x, c)
        /\ f[i] = OpenDeclared(s[i], c) /\ h[i] = TakenIn(s[i], c)
    BY <1>1
  <2> HIDE DEF f, g, h, k
  <2>4. SumOver(g, DOMAIN t) = SumOver(f, DOMAIN s) + g[i] - f[i]
    BY <1>2, <2>1, <2>2
  <2>5. SumOver(k, DOMAIN t) = SumOver(h, DOMAIN s) + k[i] - h[i]
    BY <1>2, <2>1, <2>2
  <2> QED BY <2>3, <2>4, <2>5 DEF f, g, h, k, DeclaredIn, ReceivedIn
<1> QED BY <1>3, <1>4

-----------------------------------------------------------------------------
(* What the invariant says of the lists of the module.                     *)

LEMMA AllocatedIs == \A p : Allocated(p) = PartsIn(delivery, p)
BY TotalIs DEF Allocated, PartsIn

LEMMA FieldCashFinite ==
  ASSUME Types, NEW c
  PROVE  /\ FieldCashOf(c) \in SUBSET DOMAIN payment /\ FieldCashOf(c) \in SUBSET PaymentId
         /\ IsFiniteSet(FieldCashOf(c))
         /\ OutstandingRows(c) \in SUBSET FieldCashOf(c)
         /\ \A p \in FieldCashOf(c) : payment[p].amount \in Nat /\ p \in PaymentId
<1>1. FieldCashOf(c) \subseteq DOMAIN payment /\ DOMAIN payment \subseteq PaymentId
  BY Tables DEF FieldCashOf
<1>2. IsFiniteSet(FieldCashOf(c))
  BY <1>1, IdsAreFinite, FS_Subset
<1>3. OutstandingRows(c) \subseteq FieldCashOf(c)
  BY DEF OutstandingRows, FieldCashOf
<1>4. \A p \in DOMAIN payment : payment[p].amount \in Nat
  BY Tables DEF PaymentRow, Amount
<1> QED BY <1>1, <1>2, <1>3, <1>4

\* No payment is allotted less than nothing, and none but cash taken in the field anything.
LEMMA AllottedInField ==
  ASSUME Types, PartsStand, OnlyConfirmedCount, NEW p \in PaymentId
  PROVE  /\ Allocated(p) \in Nat
         /\ ~(p \in DOMAIN payment /\ IsFieldCash(p)) => Allocated(p) = 0
<1> DEFINE f == [d \in DOMAIN delivery |-> ConfirmedPart(delivery[d], p)]
<1>1. Allocated(p) = SumOver(f, DOMAIN delivery)
  BY AllocatedIs DEF OnlyConfirmedCount, ConfirmedIn
<1>2. ASSUME NEW d \in DOMAIN delivery
      PROVE  f[d] \in Nat /\ (f[d] # 0 => p \in DOMAIN payment /\ IsFieldCash(p))
  <2>1. delivery[d].parts[p] \in Int
    BY Tables, MeasureTypes
  <2>2. delivery[d].state = "confirmed" =>
          delivery[d].parts[p] >= 0 /\ (delivery[d].parts[p] # 0 => p \in FieldCashOf(delivery[d].collector))
    BY DEF PartsStand, GoodRow
  <2> QED BY <2>1, <2>2 DEF ConfirmedPart, FieldCashOf
<1> HIDE DEF f
<1>3. Allocated(p) \in Nat
  BY <1>1, <1>2, IdsAreFinite, SumIsNatural
<1>4. ASSUME ~(p \in DOMAIN payment /\ IsFieldCash(p))
      PROVE  Allocated(p) = 0
  <2>1. \A d \in DOMAIN delivery : f[d] = 0
    BY <1>2, <1>4
  <2> QED BY <1>1, <2>1, IdsAreFinite, SumOfZeros
<1> QED BY <1>3, <1>4

\* What a collector handed in is what their payments are allotted.
LEMMA HandedInIsAllotted ==
  ASSUME Types, PartsStand, OnlyConfirmedCount, NEW c
  PROVE  ReceivedIn(delivery, c) = SumOver([p \in DOMAIN payment |-> Allocated(p)], FieldCashOf(c))
<1> DEFINE A == DOMAIN delivery
           B == FieldCashOf(c)
           g == [d \in A |-> [p \in PaymentId |-> ConfirmedPart(delivery[d], p)]]
           h == [p \in PaymentId |-> [d \in A |-> ConfirmedPart(delivery[d], p)]]
           rows == [d \in A |-> TakenIn(delivery[d], c)]
           columns == [p \in DOMAIN payment |-> Allocated(p)]
<1>1. IsFiniteSet(A) /\ IsFiniteSet(B) /\ B \in SUBSET PaymentId /\ B \in SUBSET DOMAIN payment
  BY IdsAreFinite, FieldCashFinite
<1>2. ASSUME NEW d \in A, NEW p \in PaymentId
      PROVE  g[d][p] = ConfirmedPart(delivery[d], p) /\ g[d][p] \in Int /\ delivery[d].parts[p] \in Int
  BY Tables, MeasureTypes
<1>3. ASSUME NEW d \in A
      PROVE  rows[d] = SumOver(g[d], B)
  <2> DEFINE row == delivery[d]
             u == g[d]
             t == row.parts
  <2>1. GoodRow(row) /\ row \in DeliveryRow
    BY Tables DEF PartsStand
  <2>2. \A p \in B : u[p] = ConfirmedPart(row, p) /\ t[p] \in Int
    BY <1>1, <1>2
  <2>3. CASE row.collector = c /\ row.state = "confirmed"
    <3>1. \A p \in B : u[p] = t[p]
      BY <2>2, <2>3 DEF ConfirmedPart
    <3>2. \A p \in PaymentId \ B : t[p] = 0
      BY <2>1, <2>3 DEF GoodRow
    <3>3. SumOver(t, PaymentId) = row.received /\ rows[d] = row.received
      BY <2>1, <2>3 DEF GoodRow, TakenIn
    <3> HIDE DEF B, t, u, row
    <3>4. SumOver(t, PaymentId) = SumOver(t, B)
      BY <1>1, <2>2, <3>2, IdsAreFinite, SumWithin
    <3>5. SumOver(u, B) = SumOver(t, B)
      BY <1>1, <3>1, SumsAgree
    <3>6. rows[d] = SumOver(u, B)
      BY <3>3, <3>4, <3>5
    <3> QED BY <3>6 DEF u
  <2>4. CASE ~(row.collector = c /\ row.state = "confirmed")
    <3>1. ASSUME NEW p \in B PROVE u[p] = 0
      <4>1. row.state = "confirmed" /\ t[p] # 0 => p \in FieldCashOf(row.collector)
        BY <1>1, <2>1 DEF GoodRow
      <4>2. row.state = "confirmed" /\ t[p] # 0 => row.collector = c
        BY <4>1 DEF FieldCashOf
      <4> QED BY <2>2, <2>4, <4>2 DEF ConfirmedPart
    <3>2. rows[d] = 0
      BY <2>4 DEF TakenIn
    <3> HIDE DEF B, u, rows
    <3>3. SumOver(u, B) = 0
      BY <1>1, <3>1, SumOfZeros
    <3> QED BY <3>2, <3>3 DEF u
  <2> QED BY <2>3, <2>4
<1>4. ASSUME NEW p \in B
      PROVE  columns[p] = SumOver(h[p], A)
  BY <1>1, AllocatedIs DEF OnlyConfirmedCount, ConfirmedIn
<1>5. SumOver(rows, A) = SumOver(columns, B)
  <2>1. \A d \in A : \A p \in B : g[d][p] \in Int /\ h[p][d] = g[d][p]
    BY <1>1, <1>2
  <2>2. \A d \in A : rows[d] = SumOver(g[d], B)
    BY <1>3
  <2>3. \A p \in B : columns[p] = SumOver(h[p], A)
    BY <1>4
  <2> HIDE DEF A, B, g, h, rows, columns
  <2>4. RowsAndColumns(A, B, g, h, rows, columns)
    BY <2>1, <2>2, <2>3 DEF RowsAndColumns
  <2> QED BY <1>1, <2>4, SumOfSums
<1> QED BY <1>5 DEF ReceivedIn

\* What a collector still holds is the cash they took less the cash they handed in.
LEMMA PendingIs ==
  ASSUME Types, HeldInv, NEW c
  PROVE  /\ Pending(c) = Taken(c) - ReceivedIn(delivery, c)
         /\ \A p \in OutstandingRows(c) : Remaining(p) \in Nat
<1> USE DEF HeldInv
<1> DEFINE S == FieldCashOf(c)
           f == [p \in DOMAIN payment |-> payment[p].amount]
           g == [p \in DOMAIN payment |-> Allocated(p)]
           O == OutstandingRows(c)
<1>1. /\ IsFiniteSet(S) /\ S \in SUBSET DOMAIN payment /\ S \in SUBSET PaymentId /\ O \in SUBSET S
      /\ \A p \in S : payment[p].amount \in Nat
  BY FieldCashFinite
<1>2. ASSUME NEW p \in S
      PROVE  /\ f[p] \in Int /\ g[p] \in Int /\ Left[p] = f[p] - g[p] /\ Left[p] \in Nat
             /\ Left[p] = Remaining(p)
  <2>1. Left[p] = payment[p].amount - Allocated(p) /\ f[p] = payment[p].amount /\ g[p] = Allocated(p)
        /\ Left[p] = Remaining(p)
    BY <1>1 DEF Left, Remaining
  <2>2. Allocated(p) \in Nat
    BY <1>1, AllottedInField
  <2>3. Allocated(p) <= payment[p].amount
    BY <1>1, AllocatedIs DEF NoneAllottedTwice
  <2>4. payment[p].amount \in Nat
    BY <1>1
  <2> QED BY <2>1, <2>2, <2>3, <2>4
<1>3. ASSUME NEW p \in S \ O
      PROVE  Left[p] = 0
  <2>1. ~(Remaining(p) > 0)
    BY DEF FieldCashOf, OutstandingRows
  <2>2. Left[p] = Remaining(p) /\ Left[p] \in Nat
    BY <1>2
  <2> QED BY <2>1, <2>2
<1>4. Taken(c) = SumOver(f, S) /\ ReceivedIn(delivery, c) = SumOver(g, S) /\ Pending(c) = SumOver(Left, O)
  BY HandedInIsAllotted, TotalIs DEF Taken, Pending
<1> HIDE DEF S, O, f, g
<1>5. SumOver(Left, S) = SumOver(Left, O)
  <2>1. \A p \in O : Left[p] \in Int
    BY <1>1, <1>2
  <2> QED BY <1>1, <1>3, <2>1, SumWithin
<1>6. SumOver(Left, S) = SumOver(f, S) - SumOver(g, S)
  BY <1>1, <1>2, SumOfDifferences
<1>7. \A p \in O : Remaining(p) \in Nat
  BY <1>1, <1>2
<1> QED BY <1>4, <1>5, <1>6, <1>7 DEF O

\* The declared and the received of a collector, as the module lists them.
LEMMA ListedSums ==
  ASSUME Types, NEW c
  PROVE  /\ Total([d \in DOMAIN delivery |-> delivery[d].declared], Declared(c)) = DeclaredIn(delivery, c)
         /\ Total([d \in DOMAIN delivery |-> delivery[d].received],
                  {d \in DOMAIN delivery : delivery[d].collector = c /\ delivery[d].state = "confirmed"})
            = ReceivedIn(delivery, c)
<1> DEFINE S == DOMAIN delivery
           D == Declared(c)
           R == {d \in DOMAIN delivery : delivery[d].collector = c /\ delivery[d].state = "confirmed"}
           f == [d \in S |-> delivery[d].declared]
           g == [d \in S |-> OpenDeclared(delivery[d], c)]
           h == [d \in S |-> delivery[d].received]
           k == [d \in S |-> TakenIn(delivery[d], c)]
<1>1. IsFiniteSet(S) /\ D \in SUBSET S /\ R \in SUBSET S
  BY IdsAreFinite DEF Declared
<1>2. IsFiniteSet(D) /\ IsFiniteSet(R)
  BY <1>1, FS_Subset
<1>3. \A d \in S : g[d] \in Int /\ k[d] \in Int
  BY Tables, MeasureTypes
<1>4. (\A d \in D : f[d] = g[d]) /\ (\A d \in S \ D : g[d] = 0)
  BY DEF Declared, OpenDeclared
<1>5. (\A d \in R : h[d] = k[d]) /\ (\A d \in S \ R : k[d] = 0)
  BY DEF TakenIn
<1>6. DeclaredIn(delivery, c) = SumOver(g, S) /\ ReceivedIn(delivery, c) = SumOver(k, S)
  BY DEF DeclaredIn, ReceivedIn
<1> HIDE DEF S, D, R, f, g, h, k
<1>7. SumOver(g, S) = SumOver(g, D) /\ SumOver(k, S) = SumOver(k, R)
  <2>1. (\A d \in D : g[d] \in Int) /\ (\A d \in R : k[d] \in Int)
    BY <1>1, <1>3
  <2> QED BY <1>1, <1>4, <1>5, <2>1, SumWithin
<1>8. SumOver(f, D) = SumOver(g, D) /\ SumOver(h, R) = SumOver(k, R)
  BY <1>2, <1>4, <1>5, SumsAgree
<1>9. Total(f, D) = DeclaredIn(delivery, c) /\ Total(h, R) = ReceivedIn(delivery, c)
  BY <1>6, <1>7, <1>8, TotalIs
<1> QED BY <1>9 DEF S, D, R, f, h

LEMMA HeldFollows == Types /\ HeldInv => HandedInExactly /\ DeclaredIsHeld
<1> SUFFICES ASSUME Types, HeldInv PROVE HandedInExactly /\ DeclaredIsHeld
  OBVIOUS
<1>1. ASSUME NEW p \in DOMAIN payment
      PROVE  Allocated(p) \in IF IsFieldCash(p) THEN 0 .. payment[p].amount ELSE {0}
  <2>1. p \in PaymentId /\ payment[p].amount \in Int
    BY Tables DEF PaymentRow, Amount
  <2>2. Allocated(p) \in Nat /\ (~IsFieldCash(p) => Allocated(p) = 0)
    BY <2>1, AllottedInField DEF HeldInv
  <2>3. Allocated(p) <= payment[p].amount
    BY AllocatedIs DEF HeldInv, NoneAllottedTwice
  <2> QED BY <2>1, <2>2, <2>3
<1>2. ASSUME NEW c \in Collector
      PROVE  Pending(c) =
               Total([p \in DOMAIN payment |-> payment[p].amount],
                     {p \in DOMAIN payment : payment[p].by = c /\ IsFieldCash(p)})
               - Total([d \in DOMAIN delivery |-> delivery[d].received],
                       {d \in DOMAIN delivery : delivery[d].collector = c /\ delivery[d].state = "confirmed"})
  BY PendingIs, ListedSums, TotalIs DEF Taken, FieldCashOf
<1>3. ASSUME NEW c \in Collector
      PROVE  Total([d \in DOMAIN delivery |-> delivery[d].declared], Declared(c)) <= Pending(c)
  <2>1. DeclaredIn(delivery, c) + ReceivedIn(delivery, c) <= Taken(c)
    BY DEF HeldInv, DeclaredFits
  <2>2. DeclaredIn(delivery, c) \in Int /\ ReceivedIn(delivery, c) \in Int
    BY SumsOfMeasures DEF Types, TypeOK
  <2>3. Taken(c) \in Int
    <3> DEFINE f == [p \in DOMAIN payment |-> payment[p].amount]
               S == FieldCashOf(c)
    <3>1. IsFiniteSet(S) /\ \A p \in S : f[p] \in Int
      BY FieldCashFinite
    <3> HIDE DEF f, S
    <3>2. SumOver(f, S) \in Int
      BY <3>1, SumType
    <3> QED BY <3>2 DEF f, S, Taken
  <2>4. Pending(c) = Taken(c) - ReceivedIn(delivery, c)
    BY PendingIs
  <2>5. DeclaredIn(delivery, c) <= Pending(c)
    BY <2>1, <2>2, <2>3, <2>4
  <2> QED BY <2>5, ListedSums
<1> QED BY <1>1, <1>2, <1>3 DEF HandedInExactly, DeclaredIsHeld

\* An amount that is there is spread over cash of the collector, and no payment takes more than is left.
LEMMA SpreadFits ==
  ASSUME Types, HeldInv, NEW c, NEW amount \in Nat, amount <= Pending(c)
  PROVE  /\ \A p \in PaymentId : Spread(c, amount)[p] \in Nat
         /\ \A p \in PaymentId : Spread(c, amount)[p] # 0 => p \in FieldCashOf(c)
         /\ \A p \in DOMAIN payment : PartsIn(delivery, p) + Spread(c, amount)[p] <= payment[p].amount
         /\ SumOver(Spread(c, amount), PaymentId) = amount
<1> DEFINE O == OutstandingRows(c)
           part == Spread(c, amount)
<1>1. O \in SUBSET PaymentId /\ O \in SUBSET FieldCashOf(c) /\ O \in SUBSET DOMAIN payment
  BY FieldCashFinite
<1>2. \A p \in O : Remaining(p) \in Nat /\ Left[p] = Remaining(p)
  BY <1>1, PendingIs, HandedInType
<1>3. ASSUME NEW p \in PaymentId
      PROVE  part[p] = IF p \in O
                       THEN Min({Left[p], Max({0, amount - SumOver(Left, {q \in O : q < p})})}) ELSE 0
  <2>1. part[p] = IF p \in O THEN Min({Remaining(p), Max({0, amount - Total(Left, {q \in O : q < p})})}) ELSE 0
    BY DEF Spread
  <2> QED BY <1>2, <2>1, TotalIs
<1>4. SumOver(Left, O) = Pending(c) /\ Pending(c) \in Int
  BY HandedInType, TotalIs DEF Pending
<1> HIDE DEF O, part
<1>5. /\ \A p \in PaymentId : part[p] \in Nat
      /\ \A p \in O : part[p] <= Left[p]
      /\ \A p \in PaymentId \ O : part[p] = 0
      /\ SumOver(part, PaymentId) = Lesser(amount, SumOver(Left, O))
  <2> DEFINE left == Left
  <2>1. O \in SUBSET PaymentId /\ \A p \in O : left[p] \in Nat
    BY <1>1, <1>2
  <2>2. AreShares(part, left, O, amount)
    BY <1>3 DEF AreShares
  <2> HIDE DEF left
  <2>3. /\ \A p \in PaymentId : part[p] \in Nat
        /\ \A p \in O : part[p] <= left[p]
        /\ \A p \in PaymentId \ O : part[p] = 0
        /\ SumOver(part, PaymentId) = Lesser(amount, SumOver(left, O))
    BY <2>1, <2>2, SharesAddUp
  <2> QED BY <2>3 DEF left
<1>6. SumOver(part, PaymentId) = amount
  BY <1>4, <1>5 DEF Lesser
<1>7. \A p \in PaymentId : part[p] # 0 => p \in FieldCashOf(c)
  BY <1>1, <1>5
<1>8. ASSUME NEW p \in DOMAIN payment
      PROVE  PartsIn(delivery, p) + part[p] <= payment[p].amount
  <2>1. p \in PaymentId /\ payment[p].amount \in Int /\ Allocated(p) \in Int /\ Allocated(p) = PartsIn(delivery, p)
    BY Tables, HandedInType, AllocatedIs DEF PaymentRow, Amount
  <2>2. PartsIn(delivery, p) <= payment[p].amount
    BY DEF HeldInv, NoneAllottedTwice
  <2>3. CASE p \in O
    <3>1. part[p] <= Remaining(p) /\ part[p] \in Nat
      BY <1>2, <1>5, <2>1, <2>3
    <3>2. Remaining(p) = payment[p].amount - Allocated(p)
      BY DEF Remaining
    <3> QED BY <2>1, <3>1, <3>2
  <2>4. CASE p \notin O
    <3>1. part[p] = 0
      BY <1>5, <2>1, <2>4
    <3> QED BY <2>1, <2>2, <3>1
  <2> QED BY <2>3, <2>4
<1> QED BY <1>5, <1>6, <1>7, <1>8 DEF part

-----------------------------------------------------------------------------
(* How a step keeps the invariant.                                         *)

LEMMA HeldUndisturbed == HeldInv /\ UNCHANGED <<payment, delivery>> => HeldInv'
<1> SUFFICES ASSUME HeldInv, UNCHANGED <<payment, delivery>> PROVE HeldInv'
  OBVIOUS
<1> QED BY DEF HeldInv, PartsStand, OnlyConfirmedCount, NoneAllottedTwice, DeclaredFits, GoodRow, FieldCashOf,
               IsFieldCash, Taken, PartsIn, ConfirmedIn, DeclaredIn, ReceivedIn, ConfirmedPart, OpenDeclared, TakenIn

\* The next table of deliveries, called t.
LEMMA HeldAfter ==
  ASSUME UNCHANGED payment, NEW t, t = delivery',
         \A d \in DOMAIN t : GoodRow(t[d]),
         \A p \in PaymentId : PartsIn(t, p) = ConfirmedIn(t, p),
         \A p \in DOMAIN payment : PartsIn(t, p) <= payment[p].amount,
         \A c \in Collector : DeclaredIn(t, c) + ReceivedIn(t, c) <= Taken(c)
  PROVE  HeldInv'
<1>1. PartsStand'
  BY DEF PartsStand, GoodRow, FieldCashOf, IsFieldCash
<1>2. OnlyConfirmedCount'
  BY DEF OnlyConfirmedCount, PartsIn, ConfirmedIn, ConfirmedPart
<1>3. NoneAllottedTwice'
  BY DEF NoneAllottedTwice, PartsIn
<1>4. DeclaredFits'
  BY DEF DeclaredFits, DeclaredIn, ReceivedIn, OpenDeclared, TakenIn, Taken, FieldCashOf, IsFieldCash
<1> QED BY <1>1, <1>2, <1>3, <1>4 DEF HeldInv

\* What the sums are numbers of.
LEMMA SumsTyped ==
  ASSUME Types
  PROVE  /\ delivery \in Seq(DeliveryRow)
         /\ \A p \in PaymentId : PartsIn(delivery, p) \in Int /\ ConfirmedIn(delivery, p) \in Int
         /\ \A c : DeclaredIn(delivery, c) \in Int /\ ReceivedIn(delivery, c) \in Int /\ Taken(c) \in Int
         /\ \A p \in DOMAIN payment : p \in PaymentId /\ payment[p].amount \in Int
<1>1. delivery \in Seq(DeliveryRow)
  BY DEF Types, TypeOK
<1>2. ASSUME NEW c
      PROVE  Taken(c) \in Int
  <2> DEFINE f == [p \in DOMAIN payment |-> payment[p].amount]
             S == FieldCashOf(c)
  <2>1. IsFiniteSet(S) /\ \A p \in S : f[p] \in Int
    BY FieldCashFinite
  <2> HIDE DEF f, S
  <2>2. SumOver(f, S) \in Int
    BY <2>1, SumType
  <2> QED BY <2>2 DEF f, S, Taken
<1>3. \A p \in DOMAIN payment : p \in PaymentId /\ payment[p].amount \in Int
  BY Tables DEF PaymentRow, Amount
<1> QED BY <1>1, <1>2, <1>3, SumsOfMeasures

LEMMA HeldWithOneMore ==
  ASSUME Types, HeldInv, UNCHANGED payment, NEW x \in DeliveryRow, IsExtended(delivery, delivery', x),
         GoodRow(x),
         \A p \in PaymentId : x.parts[p] = ConfirmedPart(x, p),
         \A p \in DOMAIN payment : PartsIn(delivery, p) + x.parts[p] <= payment[p].amount,
         \A c \in Collector :
           DeclaredIn(delivery, c) + ReceivedIn(delivery, c) + OpenDeclared(x, c) + TakenIn(x, c) <= Taken(c)
  PROVE  HeldInv'
<1>1. PICK t : t = delivery'
  OBVIOUS
<1>2. IsExtended(delivery, t, x) /\ delivery \in Seq(DeliveryRow)
  BY <1>1 DEF Types, TypeOK
<1>3. /\ \A p \in PaymentId : PartsIn(t, p) = PartsIn(delivery, p) + x.parts[p]
      /\ \A p \in PaymentId : ConfirmedIn(t, p) = ConfirmedIn(delivery, p) + ConfirmedPart(x, p)
      /\ \A c : DeclaredIn(t, c) = DeclaredIn(delivery, c) + OpenDeclared(x, c)
      /\ \A c : ReceivedIn(t, c) = ReceivedIn(delivery, c) + TakenIn(x, c)
  BY <1>2, MeasuresExtended
<1>4. \A d \in DOMAIN t : GoodRow(t[d])
  <2>1. DOMAIN t = DOMAIN delivery \cup {Len(delivery) + 1}
    BY <1>2, SumsOfMeasures DEF IsExtended
  <2> QED BY <1>2, <2>1 DEF IsExtended, HeldInv, PartsStand
<1>5. \A p \in PaymentId : PartsIn(t, p) = ConfirmedIn(t, p)
  BY <1>3 DEF HeldInv, OnlyConfirmedCount
<1>6. \A p \in DOMAIN payment : PartsIn(t, p) <= payment[p].amount
  BY <1>3, SumsTyped
<1>7. ASSUME NEW c \in Collector
      PROVE  DeclaredIn(t, c) + ReceivedIn(t, c) <= Taken(c)
  <2>1. OpenDeclared(x, c) \in Int /\ TakenIn(x, c) \in Int
    BY MeasureTypes
  <2> QED BY <1>3, <2>1, SumsTyped
<1> QED BY <1>1, <1>4, <1>5, <1>6, <1>7, HeldAfter

LEMMA HeldWithOneOther ==
  ASSUME Types, HeldInv, UNCHANGED payment, NEW d \in DOMAIN delivery, NEW x \in DeliveryRow,
         IsReplaced(delivery, delivery', d, x), GoodRow(x), delivery[d].parts = NoParts,
         \A p \in PaymentId : x.parts[p] = ConfirmedPart(x, p),
         \A p \in DOMAIN payment : PartsIn(delivery, p) + x.parts[p] <= payment[p].amount,
         \A c \in Collector :
           OpenDeclared(x, c) + TakenIn(x, c) <= OpenDeclared(delivery[d], c) + TakenIn(delivery[d], c)
  PROVE  HeldInv'
<1>1. PICK t : t = delivery'
  OBVIOUS
<1>2. PICK y : y = delivery[d]
  OBVIOUS
<1>3. IsReplaced(delivery, t, d, x) /\ delivery \in Seq(DeliveryRow) /\ y \in DeliveryRow
  BY <1>1, <1>2, Tables DEF Types, TypeOK
<1>4. /\ \A p \in PaymentId : PartsIn(t, p) = PartsIn(delivery, p) + x.parts[p] - y.parts[p]
      /\ \A p \in PaymentId :
           ConfirmedIn(t, p) = ConfirmedIn(delivery, p) + ConfirmedPart(x, p) - ConfirmedPart(y, p)
      /\ \A c : DeclaredIn(t, c) = DeclaredIn(delivery, c) + OpenDeclared(x, c) - OpenDeclared(y, c)
      /\ \A c : ReceivedIn(t, c) = ReceivedIn(delivery, c) + TakenIn(x, c) - TakenIn(y, c)
  BY <1>2, <1>3, MeasuresReplaced
<1>5. \A e \in DOMAIN t : GoodRow(t[e])
  BY <1>3 DEF IsReplaced, HeldInv, PartsStand
<1>6. ASSUME NEW p \in PaymentId
      PROVE  y.parts[p] = 0 /\ ConfirmedPart(y, p) = 0 /\ x.parts[p] \in Int /\ ConfirmedPart(x, p) \in Int
  <2>1. y.parts[p] = 0
    BY <1>2 DEF NoParts
  <2> QED BY <2>1, MeasureTypes DEF ConfirmedPart
<1>7. \A p \in PaymentId : PartsIn(t, p) = ConfirmedIn(t, p)
  BY <1>4, <1>6, SumsTyped DEF HeldInv, OnlyConfirmedCount
<1>8. \A p \in DOMAIN payment : PartsIn(t, p) <= payment[p].amount
  BY <1>4, <1>6, SumsTyped
<1>9. ASSUME NEW c \in Collector
      PROVE  DeclaredIn(t, c) + ReceivedIn(t, c) <= Taken(c)
  <2>1. /\ OpenDeclared(x, c) \in Int /\ TakenIn(x, c) \in Int
        /\ OpenDeclared(y, c) \in Int /\ TakenIn(y, c) \in Int
    BY <1>3, MeasureTypes
  <2>2. DeclaredIn(delivery, c) + ReceivedIn(delivery, c) <= Taken(c)
    BY DEF HeldInv, DeclaredFits
  <2>3. OpenDeclared(x, c) + TakenIn(x, c) <= OpenDeclared(y, c) + TakenIn(y, c)
    BY <1>2
  <2> QED BY <1>4, <2>1, <2>2, <2>3, SumsTyped
<1> QED BY <1>1, <1>5, <1>7, <1>8, <1>9, HeldAfter

-----------------------------------------------------------------------------
(* The commands that change what collectors hold.                          *)

PaymentsNumbered == DOMAIN payment \subseteq PaymentId

LEMMA PaymentsNumberedNow == Types => PaymentsNumbered
BY Tables DEF PaymentsNumbered

LEMMA PaymentsNumberedAfter == Types' => PaymentsNumbered'
BY PaymentsNumberedNow, PTL

\* A payment has no part yet, and leaves its collector holding more.
LEMMA HeldAfterPayment ==
  ASSUME Types, Types', HeldInv, UNCHANGED delivery, NEW row \in PaymentRow,
         IsExtended(payment, payment', row)
  PROVE  HeldInv'
<1>1. PICK n : n = Len(payment) + 1
  OBVIOUS
<1>2. /\ DOMAIN payment' = DOMAIN payment \cup {n} /\ n \notin DOMAIN payment /\ payment'[n] = row
      /\ \A p \in DOMAIN payment : payment'[p] = payment[p]
  BY <1>1, Tables DEF IsExtended
<1>3. DOMAIN payment' \subseteq PaymentId
  BY PaymentsNumberedAfter DEF PaymentsNumbered, PaymentId
<1>4. PartsIn(delivery, n) = 0
  <2>1. n \in PaymentId
    BY <1>2, <1>3
  <2> QED BY <1>2, <2>1, AllottedInField, AllocatedIs DEF HeldInv
<1>5. \A p \in DOMAIN payment : IsFieldCash(p)' <=> IsFieldCash(p)
  BY <1>2 DEF IsFieldCash
<1>6. ASSUME NEW c
      PROVE  /\ FieldCashOf(c)' = FieldCashOf(c) \/ FieldCashOf(c)' = FieldCashOf(c) \cup {n}
             /\ FieldCashOf(c) \subseteq FieldCashOf(c)'
  BY <1>2, <1>5 DEF FieldCashOf
<1>7. PartsStand'
  BY <1>6 DEF HeldInv, PartsStand, GoodRow
<1>8. OnlyConfirmedCount'
  BY DEF HeldInv, OnlyConfirmedCount, PartsIn, ConfirmedIn, ConfirmedPart
<1>9. NoneAllottedTwice'
  <2>1. row.amount \in Nat
    BY DEF PaymentRow, Amount
  <2>2. \A p : PartsIn(delivery, p)' = PartsIn(delivery, p)
    BY DEF PartsIn
  <2> QED BY <1>2, <1>4, <2>1, <2>2 DEF HeldInv, NoneAllottedTwice
<1>10. ASSUME NEW c
       PROVE  Taken(c)' >= Taken(c) /\ Taken(c)' \in Int /\ Taken(c) \in Int
  <2> DEFINE f == [p \in DOMAIN payment |-> payment[p].amount]
             g == [p \in DOMAIN payment' |-> payment'[p].amount]
             S == FieldCashOf(c)
  <2>1. IsFiniteSet(S) /\ S \subseteq DOMAIN payment /\ n \notin S
    BY <1>2, FieldCashFinite
  <2>2. \A p \in S : f[p] = g[p] /\ g[p] \in Nat
    BY <1>2, FieldCashFinite
  <2>3. g[n] = row.amount /\ row.amount \in Nat
    BY <1>2 DEF PaymentRow, Amount
  <2>u. PICK U : U = FieldCashOf(c)'
    OBVIOUS
  <2>4. Taken(c) = SumOver(f, S) /\ Taken(c)' = SumOver(g, U)
    BY <2>u DEF Taken
  <2>5. U = S \/ U = S \cup {n}
    BY <1>6, <2>u
  <2> HIDE DEF f, g, S
  <2>6. SumOver(f, S) = SumOver(g, S)
    BY <2>1, <2>2, SumsAgree
  <2>7. SumOver(g, S) \in Nat
    BY <2>1, <2>2, SumIsNatural
  <2>8. SumOver(g, S \cup {n}) = g[n] + SumOver(g, S)
    <3>1. \A p \in S \cup {n} : g[p] \in Int
      BY <2>2, <2>3
    <3> QED BY <2>1, <3>1, SumOfOneMore
  <2>9. SumOver(g, U) \in Int /\ SumOver(g, U) >= SumOver(f, S) /\ SumOver(f, S) \in Int
    <3>1. CASE U = S
      BY <2>6, <2>7, <3>1
    <3>2. CASE U = S \cup {n}
      BY <2>3, <2>6, <2>7, <2>8, <3>2
    <3> QED BY <2>5, <3>1, <3>2
  <2> QED BY <2>4, <2>9
<1>11. DeclaredFits'
  <2>1. ASSUME NEW c \in Collector
        PROVE  DeclaredIn(delivery, c)' + ReceivedIn(delivery, c)' <= Taken(c)'
    <3>1. /\ DeclaredIn(delivery, c)' = DeclaredIn(delivery, c)
          /\ ReceivedIn(delivery, c)' = ReceivedIn(delivery, c)
      BY DEF DeclaredIn, ReceivedIn, OpenDeclared, TakenIn
    <3>2. DeclaredIn(delivery, c) + ReceivedIn(delivery, c) <= Taken(c)
      BY DEF HeldInv, DeclaredFits
    <3> QED BY <1>10, <3>1, <3>2, SumsTyped
  <2> QED BY <2>1 DEF DeclaredFits
<1> QED BY <1>7, <1>8, <1>9, <1>11 DEF HeldInv

LEMMA HeldAfterPayments ==
  ASSUME Types, Types', HeldInv
  PROVE  /\ \A c \in Collector, l \in Loan, amount \in Amount : FieldPayment(c, l, amount) => HeldInv'
         /\ \A t \in DOMAIN transfer : ConfirmTransfer(t) => HeldInv'
         /\ \A l \in Loan, amount \in Amount, s \in SessionId : CounterPayment(l, amount, s) => HeldInv'
<1>1. ASSUME NEW by \in Collector \cup {None}, NEW l \in Loan, NEW amount \in Amount,
             NEW origin \in {"field", "counter"}, NEW method \in {"cash", "transfer"},
             ApplyExactPayment(by, l, amount, origin, method), UNCHANGED delivery
      PROVE  HeldInv'
  <2>1. PICK row : row = [by |-> by, loan |-> l, amount |-> amount, origin |-> origin, method |-> method]
    OBVIOUS
  <2>2. row \in PaymentRow /\ IsExtended(payment, payment', row)
    BY <1>1, <2>1, PaymentApplied
  <2> QED BY <1>1, <2>2, HeldAfterPayment
<1>2. ASSUME NEW c \in Collector, NEW l \in Loan, NEW amount \in Amount, FieldPayment(c, l, amount)
      PROVE  HeldInv'
  BY <1>1, <1>2 DEF FieldPayment
<1>3. ASSUME NEW t \in DOMAIN transfer, ConfirmTransfer(t)
      PROVE  HeldInv'
  <2>1. transfer[t].by \in Collector /\ transfer[t].loan \in Loan /\ transfer[t].amount \in Amount
    BY <1>3, PaymentsDo
  <2> QED BY <1>1, <1>3, <2>1 DEF ConfirmTransfer
<1>4. ASSUME NEW l \in Loan, NEW amount \in Amount, NEW s \in SessionId, CounterPayment(l, amount, s)
      PROVE  HeldInv'
  BY <1>1, <1>4 DEF CounterPayment
<1> QED BY <1>2, <1>3, <1>4

\* A delivery or surplus that is not confirmed is allotted to nothing.
LEMMA NewDeliveryCounts ==
  ASSUME NEW c, NEW declared \in Nat, NEW state \in {"pending", "surplus_review"}
  PROVE  LET x == NewDelivery(state, c, declared)
         IN /\ GoodRow(x) /\ x.parts = NoParts
            /\ \A p \in PaymentId : x.parts[p] = 0 /\ ConfirmedPart(x, p) = 0
            /\ \A k : TakenIn(x, k) = 0
            /\ \A k : OpenDeclared(x, k) = IF k = c /\ state = "pending" THEN declared ELSE 0
BY DEF NewDelivery, GoodRow, NoParts, ConfirmedPart, TakenIn, OpenDeclared

LEMMA HeldAfterNewDelivery ==
  ASSUME Types, HeldInv, UNCHANGED payment, NEW c \in Collector, NEW declared \in Nat,
         NEW state \in {"pending", "surplus_review"},
         IsExtended(delivery, delivery', NewDelivery(state, c, declared)),
         state = "pending" => DeclaredIn(delivery, c) + declared <= Pending(c)
  PROVE  HeldInv'
<1> DEFINE x == NewDelivery(state, c, declared)
<1>1. /\ x \in DeliveryRow /\ GoodRow(x) /\ IsExtended(delivery, delivery', x)
      /\ \A p \in PaymentId : x.parts[p] = 0 /\ ConfirmedPart(x, p) = 0
      /\ \A k : TakenIn(x, k) = 0
      /\ \A k : OpenDeclared(x, k) = IF k = c /\ state = "pending" THEN declared ELSE 0
  BY NewDeliveryType, NewDeliveryCounts
<1> HIDE DEF x
<1>2. \A p \in DOMAIN payment : PartsIn(delivery, p) + x.parts[p] <= payment[p].amount
  BY <1>1, SumsTyped DEF HeldInv, NoneAllottedTwice
<1>3. ASSUME NEW k \in Collector
      PROVE  DeclaredIn(delivery, k) + ReceivedIn(delivery, k) + OpenDeclared(x, k) + TakenIn(x, k) <= Taken(k)
  <2>1. /\ DeclaredIn(delivery, k) \in Int /\ ReceivedIn(delivery, k) \in Int /\ Taken(k) \in Int
        /\ DeclaredIn(delivery, k) + ReceivedIn(delivery, k) <= Taken(k)
    BY SumsTyped DEF HeldInv, DeclaredFits
  <2>2. Pending(k) = Taken(k) - ReceivedIn(delivery, k)
    BY PendingIs
  <2>3. TakenIn(x, k) = 0 /\ OpenDeclared(x, k) = IF k = c /\ state = "pending" THEN declared ELSE 0
    BY <1>1
  <2>4. CASE k = c /\ state = "pending"
    <3>1. DeclaredIn(delivery, k) + declared <= Pending(k) /\ OpenDeclared(x, k) = declared
      BY <2>3, <2>4
    <3> QED BY <2>1, <2>2, <2>3, <3>1
  <2>5. CASE ~(k = c /\ state = "pending")
    BY <2>1, <2>3, <2>5
  <2> QED BY <2>4, <2>5
<1> QED BY <1>1, <1>2, <1>3, HeldWithOneMore

LEMMA HeldAfterDeclare ==
  ASSUME Types, HeldInv, NEW c \in Collector, NEW amount \in 1 .. Pending(c), Declare(c, amount)
  PROVE  HeldInv'
<1>1. IsExtended(delivery, delivery', NewDelivery("pending", c, amount)) /\ amount \in Nat /\ UNCHANGED payment
  BY DeclareDoes DEF Declare
<1>2. amount <= Pending(c) - DeclaredIn(delivery, c)
  BY ListedSums DEF Declare, Reserved
<1>3. Pending(c) \in Int /\ DeclaredIn(delivery, c) \in Int
  BY HandedInType, SumsTyped
<1>4. DeclaredIn(delivery, c) + amount <= Pending(c)
  BY <1>1, <1>2, <1>3
<1> QED BY <1>1, <1>4, HeldAfterNewDelivery

LEMMA HeldAfterReport ==
  ASSUME Types, HeldInv, NEW c \in Collector, NEW amount \in Sums, NEW s \in SessionId,
         ReportSurplus(c, amount, s)
  PROVE  HeldInv'
<1>1. /\ IsExtended(delivery, delivery', NewDelivery("surplus_review", c, amount))
      /\ amount \in Nat /\ UNCHANGED payment
  BY ReportDoes, CashSums DEF ReportSurplus
<1> QED BY <1>1, HeldAfterNewDelivery

\* What was received is all spread over cash of the collector.
LEMMA ReceivedCounts ==
  ASSUME Types, HeldInv, NEW row \in DeliveryRow, NEW amount \in Nat, amount <= Pending(row.collector)
  PROVE  LET x == Received(row, amount)
         IN /\ x \in DeliveryRow /\ GoodRow(x)
            /\ \A p \in PaymentId : x.parts[p] = ConfirmedPart(x, p)
            /\ \A p \in DOMAIN payment : PartsIn(delivery, p) + x.parts[p] <= payment[p].amount
            /\ \A k : OpenDeclared(x, k) = 0 /\ TakenIn(x, k) = IF k = row.collector THEN amount ELSE 0
<1> DEFINE x == Received(row, amount)
<1>1. PICK c : c = row.collector
  OBVIOUS
<1>2. /\ x \in DeliveryRow /\ x.state = "confirmed" /\ x.received = amount /\ x.collector = c
      /\ x.parts = Spread(c, amount)
  BY <1>1, ReceivedType
<1> HIDE DEF x
<1>3. /\ \A p \in PaymentId : x.parts[p] \in Nat
      /\ \A p \in PaymentId : x.parts[p] # 0 => p \in FieldCashOf(c)
      /\ \A p \in DOMAIN payment : PartsIn(delivery, p) + x.parts[p] <= payment[p].amount
      /\ SumOver(x.parts, PaymentId) = amount
  BY <1>1, <1>2, SpreadFits
<1>4. GoodRow(x)
  BY <1>2, <1>3 DEF GoodRow
<1>5. \A p \in PaymentId : x.parts[p] = ConfirmedPart(x, p)
  BY <1>2 DEF ConfirmedPart
<1>6. \A k : OpenDeclared(x, k) = 0 /\ TakenIn(x, k) = IF k = row.collector THEN amount ELSE 0
  BY <1>1, <1>2 DEF OpenDeclared, TakenIn
<1> QED BY <1>2, <1>3, <1>4, <1>5, <1>6 DEF x

LEMMA HeldAfterReceiveCollector ==
  ASSUME Types, HeldInv, NEW c \in Collector, NEW amount \in 1 .. Pending(c), NEW s \in SessionId,
         ReceiveCollector(c, amount, s)
  PROVE  HeldInv'
<1>1. PICK row : row = NewDelivery("pending", c, Pending(c))
  OBVIOUS
<1>2. PICK x : x = Received(row, amount)
  OBVIOUS
<1>3. /\ row \in DeliveryRow /\ IsExtended(delivery, delivery', x) /\ amount \in Nat /\ UNCHANGED payment
      /\ row.collector = c
  BY <1>1, <1>2, ReceiveCollectorDoes DEF ReceiveCollector, NewDelivery
<1>4. amount <= Pending(c) /\ Declared(c) = {}
  BY DEF ReceiveCollector
<1>5. /\ x \in DeliveryRow /\ GoodRow(x)
      /\ \A p \in PaymentId : x.parts[p] = ConfirmedPart(x, p)
      /\ \A p \in DOMAIN payment : PartsIn(delivery, p) + x.parts[p] <= payment[p].amount
      /\ \A k : OpenDeclared(x, k) = 0 /\ TakenIn(x, k) = IF k = c THEN amount ELSE 0
  BY <1>2, <1>3, <1>4, ReceivedCounts
<1>6. DeclaredIn(delivery, c) = 0
  BY <1>4, ListedSums, TotalIs, SumOfNone
<1>7. ASSUME NEW k \in Collector
      PROVE  DeclaredIn(delivery, k) + ReceivedIn(delivery, k) + OpenDeclared(x, k) + TakenIn(x, k) <= Taken(k)
  <2>1. /\ DeclaredIn(delivery, k) \in Int /\ ReceivedIn(delivery, k) \in Int /\ Taken(k) \in Int
        /\ DeclaredIn(delivery, k) + ReceivedIn(delivery, k) <= Taken(k)
    BY SumsTyped DEF HeldInv, DeclaredFits
  <2>2. Pending(k) = Taken(k) - ReceivedIn(delivery, k)
    BY PendingIs
  <2>3. OpenDeclared(x, k) = 0 /\ TakenIn(x, k) = IF k = c THEN amount ELSE 0
    BY <1>5
  <2>4. CASE k = c
    BY <1>3, <1>4, <1>6, <2>1, <2>2, <2>3, <2>4
  <2>5. CASE k # c
    BY <2>1, <2>3, <2>5
  <2> QED BY <2>4, <2>5
<1> QED BY <1>3, <1>5, <1>7, HeldWithOneMore

LEMMA HeldAfterReceive ==
  ASSUME Types, HeldInv, NEW d \in DOMAIN delivery, NEW amount \in 1 .. delivery[d].declared,
         NEW s \in SessionId, Receive(d, amount, s)
  PROVE  HeldInv'
<1>1. PICK row : row = delivery[d]
  OBVIOUS
<1>2. PICK x : x = Received(row, amount)
  OBVIOUS
<1>3. /\ row \in DeliveryRow /\ IsReplaced(delivery, delivery', d, x) /\ amount \in Nat /\ UNCHANGED payment
  BY <1>1, <1>2, Tables, ReceiveDoes DEF Receive
<1>4. amount <= Pending(row.collector) /\ row.state = "pending" /\ amount <= row.declared /\ row.declared \in Nat
  BY <1>1, <1>3 DEF Receive, DeliveryRow
<1>5. /\ x \in DeliveryRow /\ GoodRow(x)
      /\ \A p \in PaymentId : x.parts[p] = ConfirmedPart(x, p)
      /\ \A p \in DOMAIN payment : PartsIn(delivery, p) + x.parts[p] <= payment[p].amount
      /\ \A k : OpenDeclared(x, k) = 0 /\ TakenIn(x, k) = IF k = row.collector THEN amount ELSE 0
  BY <1>2, <1>3, <1>4, ReceivedCounts
<1>6. row.parts = NoParts
  BY <1>1, <1>4 DEF HeldInv, PartsStand, GoodRow
<1>7. ASSUME NEW k \in Collector
      PROVE  OpenDeclared(x, k) + TakenIn(x, k) <= OpenDeclared(row, k) + TakenIn(row, k)
  <2>1. OpenDeclared(x, k) = 0 /\ TakenIn(x, k) = IF k = row.collector THEN amount ELSE 0
    BY <1>5
  <2>2. OpenDeclared(row, k) = (IF k = row.collector THEN row.declared ELSE 0) /\ TakenIn(row, k) = 0
    BY <1>4 DEF OpenDeclared, TakenIn
  <2> QED BY <1>3, <1>4, <2>1, <2>2
<1> QED BY <1>1, <1>3, <1>5, <1>6, <1>7, HeldWithOneOther

LEMMA HeldAfterReject ==
  ASSUME Types, HeldInv, NEW d \in DOMAIN delivery, RejectDelivery(d) \/ RejectSurplus(d)
  PROVE  HeldInv'
<1>1. PICK row : row = delivery[d]
  OBVIOUS
<1>2. PICK state \in {"rejected", "surplus_rejected"} :
        \/ RejectDelivery(d) /\ state = "rejected"
        \/ RejectSurplus(d) /\ state = "surplus_rejected"
  OBVIOUS
<1>3. PICK x : x = [row EXCEPT !.state = state]
  OBVIOUS
<1>4. /\ row \in DeliveryRow /\ IsReplaced(delivery, delivery', d, x) /\ UNCHANGED payment
      /\ row.state \in {"pending", "surplus_review"}
  BY <1>1, <1>2, <1>3, Tables, RejectDoes DEF RejectDelivery, RejectSurplus
<1>5. row.parts = NoParts
  BY <1>1, <1>4 DEF HeldInv, PartsStand, GoodRow
<1>6. x \in DeliveryRow /\ x.state = state /\ x.parts = NoParts /\ row.declared \in Nat
  BY <1>3, <1>4, <1>5 DEF DeliveryRow
<1>7. GoodRow(x)
  BY <1>6 DEF GoodRow
<1>8. \A p \in PaymentId : x.parts[p] = 0 /\ ConfirmedPart(x, p) = 0
  BY <1>6 DEF ConfirmedPart, NoParts
<1>9. \A p \in DOMAIN payment : PartsIn(delivery, p) + x.parts[p] <= payment[p].amount
  BY <1>8, SumsTyped DEF HeldInv, NoneAllottedTwice
<1>10. ASSUME NEW k \in Collector
       PROVE  OpenDeclared(x, k) + TakenIn(x, k) <= OpenDeclared(row, k) + TakenIn(row, k)
  <2>1. OpenDeclared(x, k) = 0 /\ TakenIn(x, k) = 0
    BY <1>6 DEF OpenDeclared, TakenIn
  <2>2. OpenDeclared(row, k) \in Nat /\ TakenIn(row, k) = 0
    BY <1>4, <1>6 DEF OpenDeclared, TakenIn
  <2> QED BY <2>1, <2>2
<1> QED BY <1>1, <1>4, <1>5, <1>6, <1>7, <1>8, <1>9, <1>10, HeldWithOneOther

LEMMA HeldAfterConfirmSurplus ==
  ASSUME Types, HeldInv, NEW d \in DOMAIN delivery, NEW s \in SessionId, ConfirmSurplus(d, s)
  PROVE  HeldInv'
<1>1. PICK row : row = delivery[d]
  OBVIOUS
<1>2. PICK x : x = [row EXCEPT !.state = "surplus_confirmed", !.received = row.declared]
  OBVIOUS
<1>3. /\ row \in DeliveryRow /\ IsReplaced(delivery, delivery', d, x) /\ UNCHANGED payment
      /\ row.state = "surplus_review"
  BY <1>1, <1>2, Tables, ConfirmSurplusDoes DEF ConfirmSurplus
<1>4. row.parts = NoParts
  BY <1>1, <1>3 DEF HeldInv, PartsStand, GoodRow
<1>5. x \in DeliveryRow /\ x.state = "surplus_confirmed" /\ x.parts = NoParts
  <2>1. row.declared \in Nat /\ row.declared \in Int
    BY <1>3 DEF DeliveryRow
  <2> DEFINE took == row.declared
  <2>2. x = [row EXCEPT !.state = "surplus_confirmed", !.received = took]
    BY <1>2
  <2> HIDE DEF took
  <2>3. took \in Int
    BY <2>1 DEF took
  <2> QED BY <1>3, <1>4, <2>2, <2>3 DEF DeliveryRow
<1>6. GoodRow(x)
  BY <1>5 DEF GoodRow
<1>7. \A p \in PaymentId : x.parts[p] = 0 /\ ConfirmedPart(x, p) = 0
  BY <1>5 DEF ConfirmedPart, NoParts
<1>8. \A p \in DOMAIN payment : PartsIn(delivery, p) + x.parts[p] <= payment[p].amount
  BY <1>7, SumsTyped DEF HeldInv, NoneAllottedTwice
<1>9. \A k : /\ OpenDeclared(x, k) = 0 /\ TakenIn(x, k) = 0
             /\ OpenDeclared(row, k) = 0 /\ TakenIn(row, k) = 0
  BY <1>3, <1>5 DEF OpenDeclared, TakenIn
<1> QED BY <1>1, <1>3, <1>4, <1>5, <1>6, <1>7, <1>8, <1>9, HeldWithOneOther

\* The reversal of a delivery gives back what it took: its parts leave the payments, and what was
\* received leaves what the collector handed in.
LEMMA HeldAfterReversal ==
  ASSUME Types, HeldInv, UNCHANGED payment, NEW d \in DOMAIN delivery, delivery[d].state \in InForce,
         NEW marked \in Seq(DeliveryRow),
         IsReplaced(delivery, marked, d, [delivery[d] EXCEPT !.state = "reversed"]),
         IsExtended(marked, delivery', Opposite(delivery[d]))
  PROVE  HeldInv'
<1>1. PICK row : row = delivery[d]
  OBVIOUS
<1>2. PICK x : x = [row EXCEPT !.state = "reversed"]
  OBVIOUS
<1>3. PICK y : y = Opposite(row)
  OBVIOUS
<1>4. PICK t : t = delivery'
  OBVIOUS
<1>5. /\ row \in DeliveryRow /\ x \in DeliveryRow /\ y \in DeliveryRow
      /\ x.state = "reversed" /\ x.parts = row.parts
  BY <1>1, <1>2, <1>3, Tables, OppositeType DEF DeliveryRow
<1>6. y.state = "reversal" /\ y.parts = [p \in PaymentId |-> -row.parts[p]]
  BY <1>3, <1>5 DEF Opposite, DeliveryRow
<1>7. /\ delivery \in Seq(DeliveryRow) /\ IsReplaced(delivery, marked, d, x) /\ IsExtended(marked, t, y)
      /\ DOMAIN t = DOMAIN delivery \cup {Len(delivery) + 1}
      /\ t[d] = x /\ t[Len(delivery) + 1] = y
      /\ \A e \in DOMAIN delivery \ {d} : t[e] = delivery[e]
  <2>1. delivery \in Seq(DeliveryRow) /\ DOMAIN delivery = 1 .. Len(delivery) /\ Len(delivery) \in Nat
    BY SumsTyped, Tables
  <2>2. IsReplaced(delivery, marked, d, x) /\ IsExtended(marked, t, y)
    BY <1>1, <1>2, <1>3, <1>4
  <2> QED BY <2>1, <2>2 DEF IsReplaced, IsExtended
<1>8. /\ \A p \in PaymentId : PartsIn(t, p) = PartsIn(delivery, p) + x.parts[p] - row.parts[p] + y.parts[p]
      /\ \A p \in PaymentId :
           ConfirmedIn(t, p) =
             ConfirmedIn(delivery, p) + ConfirmedPart(x, p) - ConfirmedPart(row, p) + ConfirmedPart(y, p)
      /\ \A c : DeclaredIn(t, c) =
                  DeclaredIn(delivery, c) + OpenDeclared(x, c) - OpenDeclared(row, c) + OpenDeclared(y, c)
      /\ \A c : ReceivedIn(t, c) =
                  ReceivedIn(delivery, c) + TakenIn(x, c) - TakenIn(row, c) + TakenIn(y, c)
  <2>1. /\ \A p \in PaymentId : PartsIn(marked, p) = PartsIn(delivery, p) + x.parts[p] - row.parts[p]
        /\ \A p \in PaymentId :
             ConfirmedIn(marked, p) = ConfirmedIn(delivery, p) + ConfirmedPart(x, p) - ConfirmedPart(row, p)
        /\ \A c : DeclaredIn(marked, c) = DeclaredIn(delivery, c) + OpenDeclared(x, c) - OpenDeclared(row, c)
        /\ \A c : ReceivedIn(marked, c) = ReceivedIn(delivery, c) + TakenIn(x, c) - TakenIn(row, c)
    BY <1>1, <1>5, <1>7, MeasuresReplaced
  <2>2. /\ \A p \in PaymentId : PartsIn(t, p) = PartsIn(marked, p) + y.parts[p]
        /\ \A p \in PaymentId : ConfirmedIn(t, p) = ConfirmedIn(marked, p) + ConfirmedPart(y, p)
        /\ \A c : DeclaredIn(t, c) = DeclaredIn(marked, c) + OpenDeclared(y, c)
        /\ \A c : ReceivedIn(t, c) = ReceivedIn(marked, c) + TakenIn(y, c)
    BY <1>5, <1>7, MeasuresExtended
  <2> QED BY <2>1, <2>2
<1>9. GoodRow(row) /\ row.state \in InForce
  BY <1>1 DEF HeldInv, PartsStand
<1>10. ASSUME NEW p \in PaymentId
       PROVE  /\ x.parts[p] = row.parts[p] /\ y.parts[p] = -row.parts[p]
              /\ ConfirmedPart(x, p) = 0 /\ ConfirmedPart(y, p) = 0
              /\ ConfirmedPart(row, p) = row.parts[p] /\ row.parts[p] \in Nat
  <2>1. x.parts[p] = row.parts[p] /\ y.parts[p] = -row.parts[p] /\ row.parts[p] \in Int
    BY <1>5, <1>6, MeasureTypes
  <2>2. ConfirmedPart(x, p) = 0 /\ ConfirmedPart(y, p) = 0
    BY <1>5, <1>6 DEF ConfirmedPart
  <2>3. CASE row.state = "confirmed"
    BY <1>9, <2>1, <2>2, <2>3 DEF GoodRow, ConfirmedPart
  <2>4. CASE row.state = "surplus_confirmed"
    <3>1. row.parts[p] = 0
      BY <1>9, <2>4 DEF GoodRow, NoParts
    <3> QED BY <2>1, <2>2, <2>4, <3>1 DEF ConfirmedPart
  <2> QED BY <1>9, <2>3, <2>4 DEF InForce
<1>11. ASSUME NEW c
       PROVE  /\ OpenDeclared(x, c) = 0 /\ OpenDeclared(y, c) = 0 /\ OpenDeclared(row, c) = 0
              /\ TakenIn(x, c) = 0 /\ TakenIn(y, c) = 0 /\ TakenIn(row, c) \in Nat
  <2>1. /\ OpenDeclared(x, c) = 0 /\ OpenDeclared(y, c) = 0 /\ OpenDeclared(row, c) = 0
        /\ TakenIn(x, c) = 0 /\ TakenIn(y, c) = 0
    BY <1>5, <1>6, <1>9 DEF OpenDeclared, TakenIn, InForce
  <2>2. row.state = "confirmed" => row.received \in Nat
    <3>1. row.state = "confirmed" => row.received = SumOver(row.parts, PaymentId)
      BY <1>9 DEF GoodRow
    <3> DEFINE f == row.parts
    <3>2. \A p \in PaymentId : f[p] \in Nat
      BY <1>10
    <3> HIDE DEF f
    <3>3. SumOver(f, PaymentId) \in Nat
      BY <3>2, IdsAreFinite, SumIsNatural
    <3> QED BY <3>1, <3>3 DEF f
  <2> QED BY <2>1, <2>2 DEF TakenIn
<1>12. \A e \in DOMAIN t : GoodRow(t[e])
  <2>1. GoodRow(x) /\ GoodRow(y)
    BY <1>5, <1>6 DEF GoodRow
  <2>2. \A e \in DOMAIN delivery : GoodRow(delivery[e])
    BY DEF HeldInv, PartsStand
  <2> QED BY <1>7, <2>1, <2>2
<1>13. \A p \in PaymentId : PartsIn(t, p) = ConfirmedIn(t, p)
  BY <1>8, <1>10, SumsTyped DEF HeldInv, OnlyConfirmedCount
<1>14. \A p \in DOMAIN payment : PartsIn(t, p) <= payment[p].amount
  <2>1. \A p \in DOMAIN payment : PartsIn(delivery, p) <= payment[p].amount
    BY DEF HeldInv, NoneAllottedTwice
  <2> QED BY <1>8, <1>10, <2>1, SumsTyped
<1>15. ASSUME NEW c \in Collector
       PROVE  DeclaredIn(t, c) + ReceivedIn(t, c) <= Taken(c)
  <2>1. DeclaredIn(delivery, c) + ReceivedIn(delivery, c) <= Taken(c)
    BY DEF HeldInv, DeclaredFits
  <2> QED BY <1>8, <1>11, <2>1, SumsTyped
<1> QED BY <1>4, <1>12, <1>13, <1>14, <1>15, HeldAfter

LEMMA HeldAfterReverse ==
  ASSUME Types, DocumentsStand, HeldInv, NEW m \in DOMAIN movement, NEW s \in SessionId, ReverseMovement(m, s)
  PROVE  HeldInv'
<1>1. PICK d : d = movement[m].of
  OBVIOUS
<1>2. UNCHANGED payment
  BY DEF ReverseMovement
<1>3. CASE movement[m].kind \in OfCollectors
  <2>1. PICK marked \in Seq(DeliveryRow) :
          /\ IsReplaced(delivery, marked, d, [delivery[d] EXCEPT !.state = "reversed"])
          /\ IsExtended(marked, delivery', Opposite(delivery[d]))
    BY <1>1, <1>3, ReverseDoes DEF DocumentsStand
  <2>2. d \in DOMAIN delivery /\ ~IsReversed(m)
    BY <1>1, <1>3, ReverseDoes DEF DocumentsStand
  <2>3. delivery[d].state \in InForce
    BY <1>1, <1>3, <2>2 DEF DocumentsStand, DeliveriesBooked
  <2> QED BY <1>2, <2>1, <2>2, <2>3, HeldAfterReversal
<1>4. CASE movement[m].kind \notin OfCollectors
  BY <1>2, <1>4, ReverseDoes, HeldUndisturbed DEF DocumentsStand
<1> QED BY <1>3, <1>4

LEMMA HeldKept ==
  ASSUME Types, DocumentsStand, HeldInv, [Next]_vars
  PROVE  HeldInv'
<1>a. Types'
  BY DocumentsKept
<1>q. ASSUME UNCHANGED <<payment, delivery>>
      PROVE  HeldInv'
  BY <1>q, HeldUndisturbed
<1>1. ASSUME NEW c \in Collector, EnterPayment(c) PROVE HeldInv'
  BY <1>1, <1>q DEF EnterPayment
<1>2. ASSUME NEW c \in Collector, NEW l \in Loan, NEW amount \in Amount,
             FieldPayment(c, l, amount) \/ FieldTransfer(c, l, amount)
      PROVE  HeldInv'
  <2>1. FieldTransfer(c, l, amount) => HeldInv'
    BY <1>q DEF FieldTransfer
  <2> QED BY <1>2, <1>a, <2>1, HeldAfterPayments
<1>3. ASSUME NEW c \in Collector, NEW amount \in 1 .. Pending(c), Declare(c, amount) PROVE HeldInv'
  BY <1>3, HeldAfterDeclare
<1>4. ASSUME NEW c \in Collector, NEW amount \in 1 .. Pending(c), NEW s \in SessionId,
             ReceiveCollector(c, amount, s)
      PROVE  HeldInv'
  BY <1>4, HeldAfterReceiveCollector
<1>5. ASSUME NEW c \in Collector, NEW amount \in Sums, NEW s \in SessionId, ReportSurplus(c, amount, s)
      PROVE  HeldInv'
  BY <1>5, HeldAfterReport
<1>6. ASSUME NEW c \in Collector, NEW to \in Moves, CheckChange(c, to) PROVE HeldInv'
  BY <1>6, <1>q DEF CheckChange
<1>7. ASSUME NEW c \in Collector, Change(c) PROVE HeldInv'
  BY <1>7, <1>q DEF Change
<1>8. ASSUME PaymentFails PROVE HeldInv'
  BY <1>8, <1>q DEF PaymentFails
<1>9. ASSUME NEW t \in DOMAIN transfer, ConfirmTransfer(t) \/ RejectTransfer(t) PROVE HeldInv'
  <2>1. RejectTransfer(t) => HeldInv'
    BY <1>q DEF RejectTransfer
  <2> QED BY <1>9, <1>a, <2>1, HeldAfterPayments
<1>10. ASSUME NEW d \in DOMAIN delivery, NEW s \in SessionId, NEW amount \in 1 .. delivery[d].declared,
              Receive(d, amount, s)
       PROVE  HeldInv'
  BY <1>10, HeldAfterReceive
<1>11. ASSUME NEW d \in DOMAIN delivery, NEW s \in SessionId, ConfirmSurplus(d, s) PROVE HeldInv'
  BY <1>11, HeldAfterConfirmSurplus
<1>12. ASSUME NEW d \in DOMAIN delivery, RejectDelivery(d) \/ RejectSurplus(d) PROVE HeldInv'
  BY <1>12, HeldAfterReject
<1>13. ASSUME NEW o \in DOMAIN order, DropAddition(o) PROVE HeldInv'
  BY <1>13, <1>q DEF DropAddition
<1>14. ASSUME NEW o \in DOMAIN order, NEW s \in SessionId, ConfirmAddition(o, s) PROVE HeldInv'
  BY <1>14, <1>q DEF ConfirmAddition
<1>15. ASSUME NEW k \in Cashier, NEW amount \in Sums,
              RequestAddition(k, amount) \/ RequestAddition(k, -amount)
       PROVE  HeldInv'
  BY <1>15, <1>q DEF RequestAddition
<1>16. ASSUME NEW s \in SessionId, NEW l \in Loan, NEW amount \in Amount, CounterPayment(l, amount, s)
       PROVE  HeldInv'
  BY <1>16, <1>a, HeldAfterPayments
<1>17. ASSUME NEW s \in SessionId, NEW l \in Loan, NEW method \in {"cash", "transfer"}, Disburse(l, method, s)
       PROVE  HeldInv'
  BY <1>17, <1>q DEF Disburse
<1>18. ASSUME NEW s \in SessionId, NEW amount \in Sums, Expense(s, amount) PROVE HeldInv'
  BY <1>18, <1>q DEF Expense
<1>19. ASSUME NEW s \in SessionId, NEW m \in DOMAIN movement, ReverseMovement(m, s) PROVE HeldInv'
  BY <1>19, HeldAfterReverse
<1>20. ASSUME NEW s \in SessionId, NEW fund \in Funds, OpenSession(s, fund) PROVE HeldInv'
  BY <1>20, <1>q DEF OpenSession
<1>21. ASSUME NEW s \in SessionId, CloseSession(s) PROVE HeldInv'
  BY <1>21, <1>q DEF CloseSession
<1>22. ASSUME UNCHANGED vars PROVE HeldInv'
  BY <1>22, <1>q DEF vars
<1>23. HeldInv'
  BY <1>1, <1>2, <1>3, <1>4, <1>5, <1>6, <1>7, <1>8, <1>9, <1>10, <1>11, <1>12, <1>13, <1>14, <1>15, <1>16,
     <1>17, <1>18, <1>19, <1>20, <1>21, <1>22 DEF Next
<1> QED BY <1>23

LEMMA HeldBegins == Init => HeldInv
<1> SUFFICES ASSUME Init PROVE HeldInv
  OBVIOUS
<1>1. DOMAIN payment = {} /\ DOMAIN delivery = {}
  BY DEF Init
<1>2. ASSUME NEW p
      PROVE  PartsIn(delivery, p) = 0 /\ ConfirmedIn(delivery, p) = 0
  BY <1>1, SumOfNone DEF PartsIn, ConfirmedIn
<1>3. ASSUME NEW c
      PROVE  DeclaredIn(delivery, c) = 0 /\ ReceivedIn(delivery, c) = 0 /\ Taken(c) = 0
  <2>1. FieldCashOf(c) = {}
    BY <1>1 DEF FieldCashOf
  <2> QED BY <1>1, <2>1, SumOfNone DEF DeclaredIn, ReceivedIn, Taken
<1> QED BY <1>1, <1>2, <1>3 DEF HeldInv, PartsStand, OnlyConfirmedCount, NoneAllottedTwice, DeclaredFits

\* What collectors hold follows from their deliveries, and is inductive with what is booked of them.
LEMMA HeldInductive == Spec => [](BooksInv /\ HeldInv)
<1>1. Init => BooksInv /\ HeldInv
  BY BooksBegin, HeldBegins DEF BooksInv
<1>2. BooksInv /\ HeldInv /\ [Next]_vars => (BooksInv /\ HeldInv)'
  BY BooksKept, HeldKept DEF BooksInv
<1> QED BY <1>1, <1>2, PTL DEF Spec

LEMMA BothFollow == BooksInv /\ HeldInv => HandedInExactly /\ DeclaredIsHeld
BY HeldFollows DEF BooksInv

\* The cash of every payment in the field is with its collector or handed in, and nothing else is:
\* _receive_pending of cash_service.py allots no payment twice and loses no part of one, and neither do
\* the reversals of deliveries.
THEOREM CashIsWithCollectorOrHandedIn == Spec => []HandedInExactly
BY HeldInductive, BothFollow, PTL

\* What a collector has declared is still there to be received, whatever was received meanwhile: the
\* guards of declare and receive of cash_service.py add up.
THEOREM DeclaredCashIsThere == Spec => []DeclaredIsHeld
BY HeldInductive, BothFollow, PTL
=============================================================================
