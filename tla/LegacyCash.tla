----------------------------- MODULE LegacyCash -----------------------------
(***************************************************************************)
(* The cash command of the first API (app/services/cash_service.py) in one *)
(* branch: payments in the field and at the counter, deliveries of         *)
(* collectors and their allocation to payments, surpluses, additions and   *)
(* withdrawals asked for by the administration, bank transfers,            *)
(* disbursements, and the reversal of movements.                           *)
(*                                                                         *)
(* Every command starts by taking the row of the box, and so is one step.  *)
(* A payment is two: it looks at the account of its collector when it      *)
(* takes the box, and the change of an account, which looks at what the    *)
(* user still holds, takes the row of the user and not the box.            *)
(***************************************************************************)
EXTENDS Integers, Sequences, FiniteSetsExt

CONSTANTS
  Collector, Cashier, SessionId, Loan,
  cashierOf,    \* the cashier of each session
  None,
  Lent,         \* principal of every loan
  Moves,        \* the places a collector may be moved to
  Sums,         \* amounts of surpluses, expenses and orders
  Funds,        \* the funds a session may open with
  MaxMovements,
  MaxDocuments  \* bounds of the movements after the funds, and of the rows of the other tables

ASSUME CashCashiers == cashierOf \in [SessionId -> Cashier]
ASSUME CashNone == None \notin Collector \cup Loan
ASSUME CashBounds == {Lent, MaxMovements, MaxDocuments} \cup Funds \subseteq Nat
ASSUME CashSums == Sums \subseteq Nat \ {0}
ASSUME CashMoves == Moves \subseteq {"here", "disabled", "elsewhere"}

VARIABLES
  account,    \* whether a collector is active in the branch, and a change of that under way
  entered,    \* the collector whose payment holds the box
  session,    \* cash_sessions
  payment,    \* payments
  delivery,   \* cash_deliveries with their cash_allocations
  movement,   \* cash_movements
  order,      \* cash_addition_requests
  transfer,   \* cash_transfers
  loan        \* loans: what is owed on each

vars == <<account, entered, session, payment, delivery, movement, order, transfer, loan>>

PaymentId == 1 .. MaxDocuments
Amount == 1 .. Lent
Parts == [PaymentId -> Int]
NoParts == [p \in PaymentId |-> 0]
Place == {"here", "disabled", "elsewhere"}

PaymentRow ==
  [by : Collector \cup {None}, loan : Loan, amount : Amount, origin : {"field", "counter"},
   method : {"cash", "transfer"}]
DeliveryRow ==
  [state : {"pending", "rejected", "confirmed", "surplus_review", "surplus_confirmed",
            "surplus_rejected", "reversed", "reversal"},
   collector : Collector, declared : Nat, received : Int, parts : Parts]
MovementRow ==
  [session : SessionId, amount : Int, reverses : Nat,
   kind : {"opening_initial_fund", "counter_payment", "delivery", "surplus", "cash_addition",
           "withdrawal", "expense", "disbursement", "bank_disbursement", "reversal"},
   of : Nat]  \* the payment, delivery or order it is the cash of
OrderRow ==
  [cashier : Cashier, amount : Int, state : {"pending", "confirmed", "dropped"}]
TransferRow ==
  [by : Collector, loan : Loan, amount : Amount, state : {"pending", "confirmed", "rejected"}]

TypeOK ==
  /\ account \in [Collector -> [place : Place, to : Place \cup {None}]]
  /\ entered \in Collector \cup {None}
  /\ session \in [SessionId -> [state : {"unopened", "open", "closed"}, balance : Nat]]
  /\ payment \in Seq(PaymentRow)
  /\ delivery \in Seq(DeliveryRow)
  /\ movement \in Seq(MovementRow)
  /\ order \in Seq(OrderRow)
  /\ transfer \in Seq(TransferRow)
  /\ loan \in [Loan -> [state : {"signed", "disbursed"}, owed : 0 .. Lent]]

Init ==
  /\ account = [c \in Collector |-> [place |-> "here", to |-> None]]
  /\ entered = None
  /\ session = [s \in SessionId |-> [state |-> "unopened", balance |-> 0]]
  /\ payment = <<>> /\ delivery = <<>> /\ movement = <<>> /\ order = <<>> /\ transfer = <<>>
  /\ loan \in [Loan -> {[state |-> "signed", owed |-> 0], [state |-> "disbursed", owed |-> Lent]}]

-----------------------------------------------------------------------------
(* What is derived from the tables.                                        *)

Free == entered = None

Room == Len(payment) + Len(delivery) + Len(order) + Len(transfer) < MaxDocuments

\* What the numbers f of a set add up to.
Total(f, S) == MapThenSumSet(LAMBDA x : f[x], S)

IsFieldCash(p) == payment[p].origin = "field" /\ payment[p].method = "cash"

Allocated(p) == Total([d \in DOMAIN delivery |-> delivery[d].parts[p]], DOMAIN delivery)

MutantRemaining(p) == IF Allocated(p) > 0 THEN 0 ELSE payment[p].amount
Remaining(p) == payment[p].amount - Allocated(p)

\* The cash payments a collector took in the field and has not handed in; ids are in their order.
OutstandingRows(c) ==
  {p \in DOMAIN payment : payment[p].by = c /\ IsFieldCash(p) /\ Remaining(p) > 0}

Left == [p \in DOMAIN payment |-> Remaining(p)]
Pending(c) == Total(Left, OutstandingRows(c))

Declared(c) == {d \in DOMAIN delivery : delivery[d].collector = c /\ delivery[d].state = "pending"}

MutantReserved(c) == 0
Reserved(c) == Total([d \in DOMAIN delivery |-> delivery[d].declared], Declared(c))

\* user_has_pending
HasPending(c) ==
  \/ Pending(c) > 0
  \/ \E d \in DOMAIN delivery :
       delivery[d].collector = c /\ delivery[d].state \in {"pending", "surplus_review"}
  \/ \E t \in DOMAIN transfer : transfer[t].by = c /\ transfer[t].state = "pending"

\* How an amount received from a collector is spread over their payments: each takes what the older
\* ones leave of it.
Spread(c, amount) ==
  LET Older(p) == Total(Left, {q \in OutstandingRows(c) : q < p})
  IN [p \in PaymentId |->
       IF p \in OutstandingRows(c) THEN Min({Remaining(p), Max({0, amount - Older(p)})}) ELSE 0]

IsOpen(s) == session[s].state = "open"
Covers(s, amount) == session[s].balance + amount >= 0

-----------------------------------------------------------------------------
(* add_movement, in a session that is open and holds what leaves it.       *)

AddMovement(s, kind, amount, of, reverses) ==
  /\ IsOpen(s)
  /\ Covers(s, amount)
  /\ Len(SelectSeq(movement, LAMBDA m : m.kind # "opening_initial_fund")) < MaxMovements
  /\ session' = [session EXCEPT ![s].balance = @ + amount]
  /\ movement' = Append(movement,
       [session |-> s, amount |-> amount, reverses |-> reverses, kind |-> kind, of |-> of])

\* apply_exact_payment: the whole of the amount is owed, or nothing is applied.
ApplyExactPayment(by, l, amount, origin, method) ==
  /\ loan[l].state = "disbursed"
  /\ amount <= loan[l].owed
  /\ Room
  /\ payment' = Append(payment,
       [by |-> by, loan |-> l, amount |-> amount, origin |-> origin, method |-> method])
  /\ loan' = [loan EXCEPT ![l].owed = @ - amount]

-----------------------------------------------------------------------------
(* Payments.                                                               *)

EnterPayment(c) ==
  /\ Free
  /\ account[c].place = "here"
  /\ entered' = c
  /\ UNCHANGED <<account, session, payment, delivery, movement, order, transfer, loan>>

FieldPayment(c, l, amount) ==
  /\ entered = c
  /\ ApplyExactPayment(c, l, amount, "field", "cash")
  /\ entered' = None
  /\ UNCHANGED <<account, session, delivery, movement, order, transfer>>

FieldTransfer(c, l, amount) ==
  /\ entered = c
  /\ Room
  /\ transfer' = Append(transfer, [by |-> c, loan |-> l, amount |-> amount, state |-> "pending"])
  /\ entered' = None
  /\ UNCHANGED <<account, session, payment, delivery, movement, order, loan>>

PaymentFails ==
  /\ ~Free
  /\ entered' = None
  /\ UNCHANGED <<account, session, payment, delivery, movement, order, transfer, loan>>

CounterPayment(l, amount, s) ==
  /\ Free
  /\ ApplyExactPayment(None, l, amount, "counter", "cash")
  /\ AddMovement(s, "counter_payment", amount, Len(payment'), 0)
  /\ UNCHANGED <<account, entered, delivery, order, transfer>>

ConfirmTransfer(t) ==
  /\ Free
  /\ transfer[t].state = "pending"
  /\ ApplyExactPayment(transfer[t].by, transfer[t].loan, transfer[t].amount, "field", "transfer")
  /\ transfer' = [transfer EXCEPT ![t].state = "confirmed"]
  /\ UNCHANGED <<account, entered, session, delivery, movement, order>>

RejectTransfer(t) ==
  /\ Free
  /\ transfer[t].state = "pending"
  /\ transfer' = [transfer EXCEPT ![t].state = "rejected"]
  /\ UNCHANGED <<account, entered, session, payment, delivery, movement, order, loan>>

-----------------------------------------------------------------------------
(* Deliveries of collectors.                                               *)

Declare(c, amount) ==
  /\ Free
  /\ account[c].place = "here"
  /\ Room
  /\ amount <= Pending(c) - Reserved(c)
  /\ delivery' = Append(delivery,
       [state |-> "pending", collector |-> c, declared |-> amount, received |-> 0, parts |-> NoParts])
  /\ UNCHANGED <<account, entered, session, payment, movement, order, transfer, loan>>

Received(row, amount) ==
  [row EXCEPT !.state = "confirmed", !.received = amount, !.parts = Spread(row.collector, amount)]

Receive(d, amount, s) ==
  /\ Free
  /\ delivery[d].state = "pending"
  /\ amount <= delivery[d].declared
  /\ amount <= Pending(delivery[d].collector)
  /\ delivery' = [delivery EXCEPT ![d] = Received(delivery[d], amount)]
  /\ AddMovement(s, "delivery", amount, d, 0)
  /\ UNCHANGED <<account, entered, payment, order, transfer, loan>>

\* receive_collector: nothing was declared, so what is pending is declared and received at once.
ReceiveCollector(c, amount, s) ==
  LET row == [state |-> "pending", collector |-> c, declared |-> Pending(c), received |-> 0,
              parts |-> NoParts]
  IN /\ Free
     /\ account[c].place # "elsewhere"
     /\ Declared(c) = {}
     /\ amount <= Pending(c)
     /\ Room
     /\ delivery' = Append(delivery, Received(row, amount))
     /\ AddMovement(s, "delivery", amount, Len(delivery'), 0)
     /\ UNCHANGED <<account, entered, payment, order, transfer, loan>>

RejectDelivery(d) ==
  /\ Free
  /\ delivery[d].state = "pending"
  /\ delivery' = [delivery EXCEPT ![d].state = "rejected"]
  /\ UNCHANGED <<account, entered, session, payment, movement, order, transfer, loan>>

ReportSurplus(c, amount, s) ==
  /\ Free
  /\ IsOpen(s)
  /\ account[c].place # "elsewhere"
  /\ Room
  /\ delivery' = Append(delivery,
       [state |-> "surplus_review", collector |-> c, declared |-> amount, received |-> 0,
        parts |-> NoParts])
  /\ UNCHANGED <<account, entered, session, payment, movement, order, transfer, loan>>

ConfirmSurplus(d, s) ==
  /\ Free
  /\ delivery[d].state = "surplus_review"
  /\ delivery' = [delivery EXCEPT ![d].state = "surplus_confirmed", ![d].received = delivery[d].declared]
  /\ AddMovement(s, "surplus", delivery[d].declared, d, 0)
  /\ UNCHANGED <<account, entered, payment, order, transfer, loan>>

RejectSurplus(d) ==
  /\ Free
  /\ delivery[d].state = "surplus_review"
  /\ delivery' = [delivery EXCEPT ![d].state = "surplus_rejected"]
  /\ UNCHANGED <<account, entered, session, payment, movement, order, transfer, loan>>

-----------------------------------------------------------------------------
(* Expenses, orders of the administration to a cashier (money in, or out   *)
(* when negative), and disbursements.                                      *)

Expense(s, amount) ==
  /\ Free
  /\ AddMovement(s, "expense", -amount, 0, 0)
  /\ UNCHANGED <<account, entered, payment, delivery, order, transfer, loan>>

RequestAddition(k, amount) ==
  /\ Free
  /\ Room
  /\ order' = Append(order, [cashier |-> k, amount |-> amount, state |-> "pending"])
  /\ UNCHANGED <<account, entered, session, payment, delivery, movement, transfer, loan>>

\* Cancelled by the administration or rejected by the cashier.
DropAddition(o) ==
  /\ Free
  /\ order[o].state = "pending"
  /\ order' = [order EXCEPT ![o].state = "dropped"]
  /\ UNCHANGED <<account, entered, session, payment, delivery, movement, transfer, loan>>

\* Only the cashier the order names confirms it, in a session of their own.
ConfirmAddition(o, s) ==
  /\ Free
  /\ order[o].state = "pending"
  /\ cashierOf[s] = order[o].cashier
  /\ order' = [order EXCEPT ![o].state = "confirmed"]
  /\ AddMovement(s, IF order[o].amount > 0 THEN "cash_addition" ELSE "withdrawal", order[o].amount, o, 0)
  /\ UNCHANGED <<account, entered, payment, delivery, transfer, loan>>

Disburse(l, method, s) ==
  /\ Free
  /\ loan[l].state = "signed"
  /\ loan' = [loan EXCEPT ![l] = [state |-> "disbursed", owed |-> Lent]]
  /\ IF method = "cash" THEN AddMovement(s, "disbursement", -Lent, 0, 0)
                        ELSE AddMovement(s, "bank_disbursement", 0, 0, 0)
  /\ UNCHANGED <<account, entered, payment, delivery, order, transfer>>

-----------------------------------------------------------------------------
(* Reversal of a movement, in whatever session is open now.                *)

MutantIsReversed(m) == FALSE
IsReversed(m) == \E n \in DOMAIN movement : movement[n].reverses = m

Restored(p) ==
  [loan EXCEPT ![payment[p].loan].owed = Min({Lent, @ + payment[p].amount})]

\* The allocations stay; a reversal receipt carries their negatives.
Compensated(d) ==
  Append([delivery EXCEPT ![d].state = "reversed"],
         [delivery[d] EXCEPT !.state = "reversal", !.declared = 0, !.received = -@,
                             !.parts = [p \in PaymentId |-> -@[p]]])

ReverseMovement(m, s) ==
  LET of == movement[m].of
  IN /\ Free
     /\ movement[m].kind \in {"counter_payment", "delivery", "surplus", "cash_addition",
                              "withdrawal", "expense", "disbursement"}
     /\ ~IsReversed(m)
     /\ AddMovement(s, "reversal", -movement[m].amount, of, m)
     /\ loan' = IF movement[m].kind = "counter_payment" THEN Restored(of) ELSE loan
     /\ IF movement[m].kind \in {"delivery", "surplus"}
        THEN /\ account[delivery[of].collector].place # "elsewhere"
             /\ Room
             /\ delivery' = Compensated(of)
        ELSE UNCHANGED delivery
     /\ UNCHANGED <<account, entered, payment, order, transfer>>

-----------------------------------------------------------------------------
(* Sessions, whose own rules are in CashSessions, and accounts.            *)

OpenSession(s, fund) ==
  /\ Free
  /\ session[s].state = "unopened"
  /\ \A t \in SessionId : cashierOf[t] = cashierOf[s] => ~IsOpen(t)
  /\ session' = [session EXCEPT ![s] = [state |-> "open", balance |-> fund]]
  /\ IF fund = 0 THEN UNCHANGED movement
     ELSE movement' = Append(movement, [session |-> s, amount |-> fund, reverses |-> 0,
                                        kind |-> "opening_initial_fund", of |-> 0])
  /\ UNCHANGED <<account, entered, payment, delivery, order, transfer, loan>>

\* A session is over for these commands when its count begins; what a close waits for, and the
\* surplus it may miss, are in CashSessions.
CloseSession(s) ==
  /\ Free
  /\ IsOpen(s)
  /\ session' = [session EXCEPT ![s].state = "closed"]
  /\ UNCHANGED <<account, entered, payment, delivery, movement, order, transfer, loan>>

\* update_user: the row of the user is locked, and what they hold is looked at unless they only
\* become active again.
CheckChange(c, to) ==
  /\ account[c].to = None
  /\ to # account[c].place
  /\ (account[c].place = "disabled" /\ to = "here") \/ ~HasPending(c)
  /\ account' = [account EXCEPT ![c].to = to]
  /\ UNCHANGED <<entered, session, payment, delivery, movement, order, transfer, loan>>

Change(c) ==
  /\ account[c].to # None
  /\ account' = [account EXCEPT ![c] = [place |-> account[c].to, to |-> None]]
  /\ UNCHANGED <<entered, session, payment, delivery, movement, order, transfer, loan>>

-----------------------------------------------------------------------------
Next ==
  \/ \E c \in Collector :
       \/ EnterPayment(c)
       \/ \E l \in Loan, amount \in Amount : FieldPayment(c, l, amount) \/ FieldTransfer(c, l, amount)
       \/ \E amount \in 1 .. Pending(c) :
            \/ Declare(c, amount)
            \/ \E s \in SessionId : ReceiveCollector(c, amount, s)
       \/ \E amount \in Sums, s \in SessionId : ReportSurplus(c, amount, s)
       \/ \E to \in Moves : CheckChange(c, to)
       \/ Change(c)
  \/ PaymentFails
  \/ \E t \in DOMAIN transfer : ConfirmTransfer(t) \/ RejectTransfer(t)
  \/ \E d \in DOMAIN delivery :
       \/ \E s \in SessionId :
            \/ \E amount \in 1 .. delivery[d].declared : Receive(d, amount, s)
            \/ ConfirmSurplus(d, s)
       \/ RejectDelivery(d) \/ RejectSurplus(d)
  \/ \E o \in DOMAIN order :
       \/ DropAddition(o)
       \/ \E s \in SessionId : ConfirmAddition(o, s)
  \/ \E k \in Cashier, amount \in Sums : RequestAddition(k, amount) \/ RequestAddition(k, -amount)
  \/ \E s \in SessionId :
       \/ \E l \in Loan, amount \in Amount : CounterPayment(l, amount, s)
       \/ \E l \in Loan, method \in {"cash", "transfer"} : Disburse(l, method, s)
       \/ \E amount \in Sums : Expense(s, amount)
       \/ \E m \in DOMAIN movement : ReverseMovement(m, s)
       \/ \E fund \in Funds : OpenSession(s, fund)
       \/ CloseSession(s)

Spec == Init /\ [][Next]_vars

-----------------------------------------------------------------------------
(* Properties.                                                             *)

\* What is booked about a document: its movement and the reversal of that.
Origin(m) == IF movement[m].kind = "reversal" THEN movement[movement[m].reverses].kind ELSE movement[m].kind
Booked(kinds, x) ==
  Total([m \in DOMAIN movement |-> movement[m].amount],
        {m \in DOMAIN movement : movement[m].of = x /\ Origin(m) \in kinds})

Credited ==
  [p \in DOMAIN payment |->
    IF payment[p].origin = "counter" THEN Booked({"counter_payment"}, p) ELSE payment[p].amount]

\* After any history of corrections, every delivery or surplus is in the drawers exactly while it is
\* in force, every order at most once, and a loan owes what its payments left, counting a payment at
\* the counter only while its cash was not taken out again.
BookedOnce ==
  /\ \A d \in DOMAIN delivery :
       Booked({"delivery", "surplus"}, d) =
         IF delivery[d].state \in {"confirmed", "surplus_confirmed"} THEN delivery[d].received ELSE 0
  /\ \A o \in DOMAIN order :
       Booked({"cash_addition", "withdrawal"}, o) \in
         IF order[o].state = "confirmed" THEN {0, order[o].amount} ELSE {0}
  /\ \A l \in Loan : loan[l].state = "disbursed" =>
       loan[l].owed = Lent - Total(Credited, {p \in DOMAIN payment : payment[p].loan = l})

\* The cash of every payment in the field is with its collector or handed in, and nothing else is:
\* partial deliveries, their reversals and later ones never allot a payment twice nor lose a part of it.
HandedInExactly ==
  /\ \A p \in DOMAIN payment : Allocated(p) \in IF IsFieldCash(p) THEN 0 .. payment[p].amount ELSE {0}
  /\ \A c \in Collector :
       Pending(c) =
         Total([p \in DOMAIN payment |-> payment[p].amount],
               {p \in DOMAIN payment : payment[p].by = c /\ IsFieldCash(p)})
         - Total([d \in DOMAIN delivery |-> delivery[d].received],
                 {d \in DOMAIN delivery : delivery[d].collector = c /\ delivery[d].state = "confirmed"})

\* What a collector has declared is still there to be received, whatever was received meanwhile.
DeclaredIsHeld ==
  \A c \in Collector :
    Total([d \in DOMAIN delivery |-> delivery[d].declared], Declared(c)) <= Pending(c)

\* CASH.md:29: who holds cash, a delivery or a transfer is neither disabled nor moved.  Not
\* kept: a payment may commit after the check (README, section 4).
NobodyLeavesWithPending ==
  [][\A c \in Collector : account[c].place = "here" /\ account'[c].place # "here" => ~HasPending(c)]_vars

\* CASH.md:27: the reversal of the movement of a payment corrects the cash only; the loan keeps the payment.
\* Not kept: the reversal reverts the payment too (README, section 4).
ReversalCorrectsCashOnly ==
  [][\A l \in Loan : loan[l].state = "disbursed" => loan'[l].owed <= loan[l].owed]_vars
=============================================================================
