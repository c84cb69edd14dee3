-------------------------- MODULE CashSessionsProofs --------------------------
(* Theorems about CashSessions, for every set of users, points and ids.     *)
EXTENDS CashSessionsRefinement, CashBackstops, FiniteSetTheorems, TLAPS

LEMMA AmountIsNat == Amount \subseteq Nat /\ 0 \in Amount
  BY BoundAssumption DEF Amount

\* The rows the module starts from and writes are rows of their tables.
LEMMA EmptyRowsOK ==
  NoSession \in SessionRow /\ NoHandover \in HandoverRow /\ NoDifference \in DifferenceRow
  BY AmountIsNat DEF NoSession, SessionRow, NoHandover, HandoverRow, NoDifference, DifferenceRow

LEMMA OpenedOK ==
  ASSUME NEW u \in User, NEW p \in CashPoint, NEW source \in {"zero", "initial", "handover"},
         NEW h \in HandoverId \cup {None}, NEW fund \in Amount
  PROVE  Opened(u, p, source, h, fund) \in SessionRow
  BY AmountIsNat DEF Opened, SessionRow

LEMMA SessionRowOK ==
  ASSUME TypeOK, NEW s \in SessionId
  PROVE  session[s] \in SessionRow /\ session[s].balance \in Int /\ session[s].counted \in Nat
  BY AmountIsNat DEF TypeOK, SessionRow

LEMMA CountedOK ==
  ASSUME TypeOK, NEW s \in SessionId, NEW state \in {"closing", "closed"}, NEW counted \in Amount
  PROVE  Counted(s, state, counted) \in SessionRow
  BY SessionRowOK DEF Counted, SessionRow

LEMMA BookedOK ==
  ASSUME TypeOK, NEW s \in SessionId, NEW amount \in Int
  PROVE  Booked(s, amount) \in SessionRow
  BY SessionRowOK DEF Booked, SessionRow

LEMMA HandedOverOK ==
  ASSUME TypeOK, NEW s \in SessionId, NEW amount \in Int
  PROVE  HandedOver(s, amount) \in SessionRow
<1>1. \A b \in Int : [session[s] EXCEPT !.state = "closed", !.balance = b] \in SessionRow
  BY SessionRowOK DEF SessionRow
<1>2. session[s].balance - amount \in Int
  BY SessionRowOK
<1> QED BY <1>1, <1>2 DEF HandedOver

LEMMA HandoverRowOK ==
  ASSUME TypeOK, NEW h \in HandoverId
  PROVE  handover[h] \in HandoverRow /\ handover[h].amount \in Amount /\ handover[h].amount \in Nat
  BY AmountIsNat DEF TypeOK, HandoverRow

LEMMA AnsweredOK ==
  ASSUME TypeOK, NEW h \in HandoverId
  PROVE  /\ [handover[h] EXCEPT !.state = "confirmed"] \in HandoverRow
         /\ [handover[h] EXCEPT !.declined = TRUE] \in HandoverRow
<1>1. [handover[h] EXCEPT !.state = "confirmed"] \in HandoverRow
  BY HandoverRowOK DEF HandoverRow
<1>2. [handover[h] EXCEPT !.declined = TRUE] \in HandoverRow
  BY HandoverRowOK DEF HandoverRow
<1> QED BY <1>1, <1>2

LEMMA CancelledOK ==
  ASSUME TypeOK, NEW h \in HandoverId, NEW u \in User, NEW r \in HandoverId
  PROVE  Cancelled(h, u, r) \in HandoverRow
  BY HandoverRowOK DEF Cancelled, HandoverRow

LEMMA OfferedOK ==
  ASSUME TypeOK, NEW s \in SessionId, NEW u \in User, NEW amount \in Amount
  PROVE  Offered(s, u, amount) \in HandoverRow
<1>1. session[s].cashier \in User \cup {None}
  BY SessionRowOK DEF SessionRow
<1> QED BY <1>1, EmptyRowsOK DEF Offered, HandoverRow

LEMMA UnderReviewOK ==
  ASSUME NEW amount \in Int
  PROVE  UnderReview(amount) \in DifferenceRow
  BY EmptyRowsOK DEF UnderReview, DifferenceRow

LEMMA RecordDifferenceOK ==
  ASSUME TypeOK, NEW s \in SessionId, NEW counted \in Amount, RecordDifference(s, counted)
  PROVE  difference' \in [SessionId -> DifferenceRow]
<1>1. counted - session[s].balance \in Int
  BY AmountIsNat, SessionRowOK
<1>2. UnderReview(counted - session[s].balance) \in DifferenceRow
  BY <1>1, UnderReviewOK
<1> QED BY <1>2 DEF RecordDifference, TypeOK

-----------------------------------------------------------------------------
(* Type correctness, one lemma per handler.                                *)

LEMMA InitTypeOK == Init => TypeOK
  BY EmptyRowsOK DEF Init, TypeOK, NoSession

\* An entry leaves the tables as they are.
LEMMA EnterOK ==
  ASSUME TypeOK, NEW op \in {"open", "close", "accept", "decline", "redirect", "resolve"},
         NEW u \in User, NEW target \in CashPoint \cup SessionId \cup HandoverId,
         Enter(op, u, target)
  PROVE  TypeOK'
<1>1. inflight' \subseteq Ticket
  BY DEF Enter, TypeOK, Ticket
<1> QED BY <1>1 DEF Enter, TypeOK

LEMMA OpenSessionTypeOK ==
  ASSUME TypeOK, NEW u \in User, NEW p \in CashPoint, NEW source \in {"zero", "initial"},
         NEW fund \in Amount, OpenSession(u, p, source, fund)
  PROVE  TypeOK'
<1>1. PICK s \in SessionId : session' = [session EXCEPT ![s] = Opened(u, p, source, None, fund)]
  BY DEF OpenSession
<1>2. session' \in [SessionId -> SessionRow]
  BY <1>1, OpenedOK DEF TypeOK
<1>3. \A t \in SessionId : session'[t].state = "open" => session'[t].balance >= 0
  BY <1>1, AmountIsNat DEF TypeOK, Opened
<1> QED BY <1>2, <1>3 DEF TypeOK, OpenSession

\* The three closes: the row they leave is no longer open.
LEMMA CloseTypeOK ==
  ASSUME TypeOK, NEW s \in SessionId, NEW state \in {"closing", "closed"}, NEW counted \in Amount,
         session' = [session EXCEPT ![s] = Counted(s, state, counted)],
         RecordDifference(s, counted), handover' \in [HandoverId -> HandoverRow],
         UNCHANGED <<account, point, surplus, inflight>>
  PROVE  TypeOK'
<1>1. session' \in [SessionId -> SessionRow]
  BY CountedOK DEF TypeOK
<1>2. Counted(s, state, counted).state # "open"
  BY SessionRowOK DEF Counted, SessionRow
<1>3. \A t \in SessionId : session'[t].state = "open" => session'[t].balance >= 0
  BY <1>2 DEF TypeOK
<1>4. difference' \in [SessionId -> DifferenceRow]
  BY RecordDifferenceOK
<1> QED BY <1>1, <1>3, <1>4 DEF TypeOK

LEMMA CloseWithHandoverTypeOK ==
  ASSUME TypeOK, NEW u \in User, NEW s \in SessionId, NEW counted \in Amount,
         NEW receiver \in User, CloseWithHandover(u, s, counted, receiver)
  PROVE  TypeOK'
<1>1. handover' \in [HandoverId -> HandoverRow]
  BY OfferedOK DEF CloseWithHandover, TypeOK
<1> QED BY <1>1, CloseTypeOK DEF CloseWithHandover

\* A close that breaks leaves the tables as they are.
LEMMA BrokenCloseTypeOK ==
  ASSUME TypeOK, NEW u \in User, NEW s \in SessionId, NEW counted \in Amount,
         NEW receiver \in User, CloseMeetsTrigger(u, s, counted, receiver)
  PROVE  TypeOK'
<1>1. inflight' \subseteq Ticket
  BY DEF CloseMeetsTrigger, TypeOK, Ticket
<1> QED BY <1>1 DEF CloseMeetsTrigger, TypeOK

LEMMA CloseWithoutHandoverTypeOK ==
  ASSUME TypeOK, NEW u \in User, NEW s \in SessionId, NEW counted \in Amount,
         CloseEmpty(u, s) \/ CloseSimpleSession(u, s, counted)
  PROVE  TypeOK'
<1>1. handover' \in [HandoverId -> HandoverRow]
  BY DEF CloseEmpty, CloseSimpleSession, TypeOK
<1>2. CASE CloseEmpty(u, s)
  BY <1>1, <1>2, CloseTypeOK, AmountIsNat DEF CloseEmpty
<1>3. CASE CloseSimpleSession(u, s, counted)
  BY <1>1, <1>3, CloseTypeOK DEF CloseSimpleSession
<1> QED BY <1>2, <1>3

LEMMA BookedTypeOK ==
  ASSUME TypeOK, NEW s \in SessionId, NEW amount \in Int, session[s].balance + amount >= 0,
         session' = [session EXCEPT ![s] = Booked(s, amount)], surplus' \subseteq Box,
         UNCHANGED <<account, point, handover, difference, inflight>>
  PROVE  TypeOK'
<1>1. session' \in [SessionId -> SessionRow]
  BY BookedOK DEF TypeOK
<1>2. Booked(s, amount).balance = session[s].balance + amount
  BY SessionRowOK DEF Booked, SessionRow
<1>3. \A t \in SessionId : session'[t].state = "open" => session'[t].balance >= 0
  BY <1>2 DEF TypeOK
<1> QED BY <1>1, <1>3 DEF TypeOK

LEMMA MovementTypeOK ==
  ASSUME TypeOK, NEW s \in SessionId, NEW amount \in Amount,
         Deposit(s, amount) \/ Withdraw(s, amount) \/ ConfirmSurplus(s, amount)
  PROVE  TypeOK'
<1>1. amount \in Int /\ -amount \in Int /\ amount >= 0
  BY AmountIsNat
<1>2. session[s].balance \in Int /\ surplus \subseteq Box
  BY SessionRowOK DEF TypeOK
<1>3. CASE Deposit(s, amount)
  <2>1. session[s].balance >= 0
    BY <1>3 DEF Deposit, OpenCustody, TypeOK
  <2>2. session[s].balance + amount >= 0
    BY <1>1, <1>2, <2>1
  <2>3. UNCHANGED <<account, point, surplus, handover, difference, inflight>>
    BY <1>3 DEF Deposit
  <2>4. session' = [session EXCEPT ![s] = Booked(s, amount)]
    BY <1>3 DEF Deposit
  <2> QED BY <1>1, <1>2, <2>2, <2>3, <2>4, BookedTypeOK
<1>4. CASE Withdraw(s, amount)
  <2>1. session[s].balance + (-amount) >= 0
    BY <1>1, <1>2, <1>4 DEF Withdraw, Covers
  <2>2. UNCHANGED <<account, point, surplus, handover, difference, inflight>>
    BY <1>4 DEF Withdraw
  <2>3. session' = [session EXCEPT ![s] = Booked(s, -amount)]
    BY <1>4 DEF Withdraw
  <2> QED BY <1>1, <1>2, <2>1, <2>2, <2>3, BookedTypeOK
<1>5. CASE ConfirmSurplus(s, amount)
  <2>1. session[s].balance >= 0
    BY <1>5 DEF ConfirmSurplus, TypeOK
  <2>2. session[s].balance + amount >= 0
    BY <1>1, <1>2, <2>1
  <2>3. surplus' \subseteq Box
    BY <1>2, <1>5 DEF ConfirmSurplus
  <2>4. UNCHANGED <<account, point, handover, difference, inflight>>
    BY <1>5 DEF ConfirmSurplus
  <2>5. session' = [session EXCEPT ![s] = Booked(s, amount)]
    BY <1>5 DEF ConfirmSurplus
  <2> QED BY <1>1, <2>2, <2>3, <2>4, <2>5, BookedTypeOK
<1> QED BY <1>3, <1>4, <1>5

LEMMA AcceptTypeOK ==
  ASSUME TypeOK, NEW u \in User, NEW h \in HandoverId, NEW counted \in Amount,
         AcceptSessionHandover(u, h, counted), handover[h].source \in SessionId,
         session[handover[h].source].point \in CashPoint
  PROVE  TypeOK'
<1> DEFINE s == handover[h].source
<1>1. PICK n \in SessionId :
        session' = [session EXCEPT ![s] = HandedOver(s, handover[h].amount), ![n] = Received(u, h)]
  BY DEF AcceptSessionHandover
<1>2. handover[h].amount \in Amount /\ handover[h].amount \in Int
  BY HandoverRowOK
<1>3. HandedOver(s, handover[h].amount) \in SessionRow
  BY <1>2, HandedOverOK
<1>4. Received(u, h) \in SessionRow
  BY <1>2, OpenedOK DEF Received
<1>5. session' \in [SessionId -> SessionRow]
  BY <1>1, <1>3, <1>4 DEF TypeOK
<1>6. HandedOver(s, handover[h].amount).state # "open"
  BY SessionRowOK DEF HandedOver, SessionRow
<1>7. Received(u, h).balance >= 0
  BY <1>2, AmountIsNat DEF Received, Opened
<1>8. \A t \in SessionId : session'[t].state = "open" => session'[t].balance >= 0
  BY <1>1, <1>6, <1>7 DEF TypeOK
<1>9. handover' \in [HandoverId -> HandoverRow]
  BY AnsweredOK DEF AcceptSessionHandover, TypeOK
<1> QED BY <1>5, <1>8, <1>9 DEF TypeOK, AcceptSessionHandover

LEMMA AnswerTypeOK ==
  ASSUME TypeOK, NEW u \in User, NEW h \in HandoverId, NEW receiver \in User,
         handover[h].source \in SessionId,
         DeclineSessionHandover(u, h) \/ RedirectSessionHandover(u, h, receiver)
  PROVE  TypeOK'
<1>1. CASE DeclineSessionHandover(u, h)
  <2>1. handover' \in [HandoverId -> HandoverRow]
    BY <1>1, AnsweredOK DEF DeclineSessionHandover, TypeOK
  <2> QED BY <1>1, <2>1 DEF DeclineSessionHandover, TypeOK
<1>2. CASE RedirectSessionHandover(u, h, receiver)
  <2>1. PICK r \in HandoverId :
          handover' = [handover EXCEPT ![h] = Cancelled(h, u, r),
                         ![r] = Offered(handover[h].source, receiver, handover[h].amount)]
    BY <1>2 DEF RedirectSessionHandover
  <2>2. Offered(handover[h].source, receiver, handover[h].amount) \in HandoverRow
    BY HandoverRowOK, OfferedOK
  <2>3. handover' \in [HandoverId -> HandoverRow]
    BY <2>1, <2>2, CancelledOK DEF TypeOK
  <2> QED BY <1>2, <2>3 DEF RedirectSessionHandover, TypeOK
<1> QED BY <1>1, <1>2

LEMMA ResolveTypeOK ==
  ASSUME TypeOK, NEW u \in User, NEW s \in SessionId,
         NEW type \in {"no_further_action", "accepted_loss", "accepted_surplus"},
         ResolveDifference(u, s, type)
  PROVE  TypeOK'
<1>1. difference[s] \in DifferenceRow
  BY DEF TypeOK
<1>2. [difference[s] EXCEPT !.status = "resolved", !.resolution = type, !.resolvedBy = u]
        \in DifferenceRow
  BY <1>1 DEF DifferenceRow
<1>3. difference' \in [SessionId -> DifferenceRow]
  BY <1>2 DEF ResolveDifference, TypeOK
<1> QED BY <1>3 DEF ResolveDifference, TypeOK

-----------------------------------------------------------------------------
(* What a step does to the rows: eight shapes.                             *)

Quiet == UNCHANGED <<session, handover, difference>>

Opens(u, p, s) ==
  /\ session[s].state = "none" /\ point[p] = "active"
  /\ \A t \in SessionId : session[t].point = p => ~Active(t)
  /\ \E source \in {"zero", "initial"}, fund \in Amount :
       /\ source = "zero" => fund = 0
       /\ session' = [session EXCEPT ![s] = Opened(u, p, source, None, fund)]
  /\ UNCHANGED <<handover, difference>>

Books(s) ==
  /\ session[s].state = "open"
  /\ \E amount \in Int : session' = [session EXCEPT ![s] = Booked(s, amount)]
  /\ UNCHANGED <<handover, difference>>

Ends(s, counted) ==
  /\ session[s].state = "open" /\ (counted = 0 \/ session[s].source = "initial")
  /\ session' = [session EXCEPT ![s] = Counted(s, "closed", counted)]
  /\ RecordDifference(s, counted)
  /\ UNCHANGED handover

\* Every step of Next has one of the shapes.
LEMMA StepShapes ==
  ASSUME TypeOK, Next
  PROVE  \/ Quiet
         \/ \E u \in User, p \in CashPoint, s \in SessionId : Opens(u, p, s)
         \/ \E s \in SessionId : Books(s)
         \/ \E s \in SessionId, counted \in Amount : Ends(s, counted)
         \/ \E u, v \in User, s \in SessionId, counted \in Amount :
              CloseWithHandover(u, s, counted, v)
         \/ \E u \in User, h \in HandoverId, counted \in Amount :
              AcceptSessionHandover(u, h, counted)
         \/ \E u \in User, h \in HandoverId : DeclineSessionHandover(u, h)
         \/ \E u, v \in User, h \in HandoverId : RedirectSessionHandover(u, h, v)
         \/ \E u \in User, s \in SessionId,
                type \in {"no_further_action", "accepted_loss", "accepted_surplus"} :
              ResolveDifference(u, s, type)
<1>1. CASE SessionStep
  <2>1. ASSUME NEW u \in User, NEW p \in CashPoint, EnterOpen(u, p)
        PROVE  Quiet
    BY <2>1 DEF EnterOpen, Enter, Quiet
  <2>2. ASSUME NEW u \in User, NEW p \in CashPoint, NEW source \in {"zero", "initial"},
               NEW fund \in Amount, OpenSession(u, p, source, fund)
        PROVE  \E s \in SessionId : Opens(u, p, s)
    BY <2>2 DEF OpenSession, Opens
  <2>3. ASSUME NEW u \in User, NEW s \in SessionId, EnterClose(u, s)
        PROVE  Quiet
    BY <2>3 DEF EnterClose, Enter, Quiet
  <2>4. ASSUME NEW u \in User, NEW s \in SessionId, CloseEmpty(u, s)
        PROVE  Ends(s, 0)
    BY <2>4 DEF CloseEmpty, Ends
  <2>5. ASSUME NEW u \in User, NEW s \in SessionId, NEW counted \in Amount,
               CloseSimpleSession(u, s, counted)
        PROVE  Ends(s, counted)
    BY <2>5 DEF CloseSimpleSession, Ends
  <2>6. ASSUME NEW s \in SessionId, NEW amount \in Amount \ {0},
               Deposit(s, amount) \/ Withdraw(s, amount)
        PROVE  Books(s)
    <3>1. amount \in Int /\ -amount \in Int
      BY AmountIsNat
    <3>2. CASE Deposit(s, amount)
      BY <3>1, <3>2 DEF Deposit, OpenCustody, Books
    <3>3. CASE Withdraw(s, amount)
      BY <3>1, <3>3 DEF Withdraw, OpenCustody, Books
    <3> QED BY <2>6, <3>2, <3>3
  <2>7. ASSUME NEW u \in User, NEW s \in SessionId, NEW counted \in Amount, NEW v \in User,
               CloseMeetsTrigger(u, s, counted, v)
        PROVE  Quiet
    BY <2>7 DEF CloseMeetsTrigger, Quiet
  <2> QED BY <1>1, <2>1, <2>2, <2>3, <2>4, <2>5, <2>6, <2>7, AmountIsNat DEF SessionStep
<1>2. CASE HandoverStep
  <2>1. ASSUME NEW u \in User, NEW h \in HandoverId,
               EnterAccept(u, h) \/ EnterDecline(u, h) \/ EnterRedirect(u, h)
        PROVE  Quiet
    BY <2>1 DEF EnterAccept, EnterDecline, EnterRedirect, Enter, Quiet
  <2> QED BY <1>2, <2>1 DEF HandoverStep
<1>3. CASE ReviewStep
  <2>1. ASSUME NEW u \in User, NEW s \in SessionId, EnterResolve(u, s)
        PROVE  Quiet
    BY <2>1 DEF EnterResolve, Enter, Quiet
  <2> QED BY <1>3, <2>1 DEF ReviewStep
<1>4. CASE NeighbourStep
  <2>1. ASSUME NEW s \in SessionId, NEW amount \in Amount \ {0}, ConfirmSurplus(s, amount)
        PROVE  Books(s)
    <3>1. amount \in Int
      BY AmountIsNat
    <3> QED BY <2>1, <3>1 DEF ConfirmSurplus, Books
  <2>2. ASSUME NEW s \in SessionId, ReportSurplus(s)
        PROVE  Quiet
    BY <2>2 DEF ReportSurplus, Quiet
  <2>3. ASSUME NEW b \in Box, RejectSurplus(b)
        PROVE  Quiet
    BY <2>3 DEF RejectSurplus, Quiet
  <2>4. ASSUME NEW u \in User, DisableUser(u) \/ EnableUser(u)
        PROVE  Quiet
    BY <2>4 DEF DisableUser, EnableUser, Quiet
  <2>5. ASSUME NEW p \in CashPoint, SetCashPointStatus(p)
        PROVE  Quiet
    BY <2>5 DEF SetCashPointStatus, Quiet
  <2>6. ASSUME NEW t \in inflight, Forget(t)
        PROVE  Quiet
    BY <2>6 DEF Forget, Quiet
  <2> QED BY <1>4, <2>1, <2>2, <2>3, <2>4, <2>5, <2>6 DEF NeighbourStep
<1> QED BY <1>1, <1>2, <1>3, <1>4 DEF Next

-----------------------------------------------------------------------------
(* The rows after a step, field by field.                                  *)

\* Session s keeps the fields it was born with.
SameBirth(s) ==
  /\ session'[s].point = session[s].point
  /\ session'[s].cashier = session[s].cashier
  /\ session'[s].source = session[s].source
  /\ session'[s].from = session[s].from

OnlySession(s) == \A t \in SessionId \ {s} : session'[t] = session[t]
OnlyHandover(h) == \A g \in HandoverId \ {h} : handover'[g] = handover[g]
OnlyDifference(s) == \A t \in SessionId \ {s} : difference'[t] = difference[t]

LEMMA OpensFields ==
  ASSUME TypeOK, NEW u \in User, NEW p \in CashPoint, NEW s \in SessionId, Opens(u, p, s)
  PROVE  /\ session[s].state = "none" /\ session'[s].state = "open"
         /\ session'[s].point = p /\ session'[s].cashier = u /\ session'[s].from = None
         /\ OnlySession(s) /\ handover' = handover /\ difference' = difference
         /\ \A t \in SessionId : session[t].point = p => ~Active(t)
<1>1. PICK source \in {"zero", "initial"}, fund \in Amount :
        session' = [session EXCEPT ![s] = Opened(u, p, source, None, fund)]
  BY DEF Opens
<1>2. session'[s] = Opened(u, p, source, None, fund) /\ OnlySession(s)
  BY <1>1 DEF TypeOK, OnlySession
<1> QED BY <1>2 DEF Opened, Opens

LEMMA BooksFields ==
  ASSUME TypeOK, NEW s \in SessionId, Books(s)
  PROVE  /\ session[s].state = "open" /\ session'[s].state = "open" /\ SameBirth(s)
         /\ OnlySession(s) /\ handover' = handover /\ difference' = difference
<1>1. PICK amount \in Int : session' = [session EXCEPT ![s] = Booked(s, amount)]
  BY DEF Books
<1>2. session'[s] = Booked(s, amount) /\ OnlySession(s)
  BY <1>1 DEF TypeOK, OnlySession
<1>3. session[s] \in SessionRow
  BY SessionRowOK
<1> QED BY <1>2, <1>3 DEF Booked, Books, SessionRow, SameBirth

LEMMA CountedFields ==
  ASSUME TypeOK, NEW s \in SessionId, NEW state \in {"closing", "closed"}, NEW counted \in Amount,
         session' = [session EXCEPT ![s] = Counted(s, state, counted)]
  PROVE  /\ session'[s].state = state /\ SameBirth(s) /\ OnlySession(s)
         /\ session'[s].counted = counted /\ session'[s].balance = session[s].balance
<1>1. session'[s] = Counted(s, state, counted) /\ OnlySession(s)
  BY DEF TypeOK, OnlySession
<1>2. session[s] \in SessionRow
  BY SessionRowOK
<1>3. LET row == Counted(s, state, counted)
      IN  /\ row.state = state /\ row.counted = counted /\ row.balance = session[s].balance
          /\ row.point = session[s].point /\ row.cashier = session[s].cashier
          /\ row.source = session[s].source /\ row.from = session[s].from
  BY <1>2 DEF Counted, SessionRow
<1> QED BY <1>1, <1>3 DEF SameBirth

\* A close leaves the difference of s equal to what was counted minus the balance.
LEMMA RecordedFields ==
  ASSUME TypeOK, NEW s \in SessionId, NEW counted \in Amount, RecordDifference(s, counted),
         difference[s] = NoDifference
  PROVE  /\ OnlyDifference(s)
         /\ difference'[s].amount = counted - session[s].balance
         /\ difference'[s].status = "none" <=> counted = session[s].balance
         /\ difference'[s].status # "resolved"
<1>1. counted \in Int /\ session[s].balance \in Int
  BY SessionRowOK, AmountIsNat
<1>2. CASE counted = session[s].balance
  <2>1. difference' = difference /\ counted - session[s].balance = 0
    BY <1>1, <1>2 DEF RecordDifference
  <2> QED BY <1>2, <2>1 DEF NoDifference, OnlyDifference
<1>3. CASE counted # session[s].balance
  <2>1. difference'[s] = UnderReview(counted - session[s].balance) /\ OnlyDifference(s)
    BY <1>3 DEF RecordDifference, TypeOK, OnlyDifference
  <2>2. \A amount \in Int : /\ UnderReview(amount).amount = amount
                           /\ UnderReview(amount).status = "pending_review"
    BY DEF UnderReview, NoDifference
  <2> QED BY <1>1, <1>3, <2>1, <2>2
<1> QED BY <1>2, <1>3

LEMMA OfferedFields ==
  ASSUME NEW s \in SessionId, NEW v \in User, NEW amount \in Amount
  PROVE  LET o == Offered(s, v, amount)
         IN  /\ o.state = "pending" /\ o.source = s /\ o.maker = session[s].cashier
             /\ o.to = v /\ o.amount = amount /\ ~o.declined /\ o.replacement = None
             /\ o.redirectedBy = None
  BY DEF Offered, NoHandover

LEMMA CloseWithHandoverFields ==
  ASSUME TypeOK, NEW u \in User, NEW s \in SessionId, NEW counted \in Amount, NEW v \in User,
         CloseWithHandover(u, s, counted, v)
  PROVE  /\ session[s].state = "open" /\ session'[s].state = "closing" /\ SameBirth(s)
         /\ session'[s].counted = counted /\ session'[s].balance = session[s].balance
         /\ counted > 0 /\ OnlySession(s) /\ RecordDifference(s, counted)
         /\ account' = account /\ account[v] = "active" /\ v # session[s].cashier
         /\ \E h \in HandoverId :
              /\ handover[h].state = "none" /\ OnlyHandover(h)
              /\ handover'[h] = Offered(s, v, counted)
<1>1. session' = [session EXCEPT ![s] = Counted(s, "closing", counted)]
  BY DEF CloseWithHandover
<1>2. PICK h \in HandoverId : /\ handover[h].state = "none"
                             /\ handover' = [handover EXCEPT ![h] = Offered(s, v, counted)]
  BY DEF CloseWithHandover
<1>3. handover'[h] = Offered(s, v, counted) /\ OnlyHandover(h)
  BY <1>2 DEF TypeOK, OnlyHandover
<1> QED BY <1>1, <1>2, <1>3, CountedFields DEF CloseWithHandover, MayHandOn, ValidReceiver

LEMMA AcceptFields ==
  ASSUME TypeOK, NEW u \in User, NEW h \in HandoverId, NEW counted \in Amount,
         AcceptSessionHandover(u, h, counted), handover[h].source \in SessionId
  PROVE  LET s == handover[h].source
         IN  /\ session[s].state = "closing" /\ session'[s].state = "closed" /\ SameBirth(s)
             /\ session'[s].counted = session[s].counted
             /\ session'[s].balance = session[s].balance - handover[h].amount
             /\ u = handover[h].to /\ Live(h) /\ handover'[h].state = "confirmed"
             /\ handover'[h].source = s /\ handover'[h].to = u
             /\ handover'[h].amount = handover[h].amount
             /\ handover'[h].maker = handover[h].maker
             /\ ~handover'[h].declined /\ OnlyHandover(h) /\ difference' = difference
             /\ \E n \in SessionId \ {s} :
                  /\ session[n].state = "none" /\ session'[n].state = "open"
                  /\ session'[n].point = session[s].point /\ session'[n].cashier = u
                  /\ session'[n].from = h
                  /\ \A t \in SessionId \ {s, n} : session'[t] = session[t]
<1> DEFINE s == handover[h].source
<1>1. PICK n \in SessionId :
        /\ session[n].state = "none"
        /\ session' = [session EXCEPT ![s] = HandedOver(s, handover[h].amount), ![n] = Received(u, h)]
  BY DEF AcceptSessionHandover
<1>2. session[s].state = "closing" /\ n # s
  BY <1>1 DEF AcceptSessionHandover
<1>3. /\ session'[s] = HandedOver(s, handover[h].amount) /\ session'[n] = Received(u, h)
      /\ \A t \in SessionId \ {s, n} : session'[t] = session[t]
  BY <1>1, <1>2 DEF TypeOK
<1>4. session[s] \in SessionRow /\ handover[h] \in HandoverRow
  BY SessionRowOK, HandoverRowOK
<1>5. /\ session'[s].state = "closed" /\ SameBirth(s)
      /\ session'[s].counted = session[s].counted
      /\ session'[s].balance = session[s].balance - handover[h].amount
  BY <1>3, <1>4 DEF HandedOver, SessionRow, SameBirth
<1>6. /\ session'[n].state = "open" /\ session'[n].cashier = u /\ session'[n].from = h
      /\ session'[n].point = session[s].point
  BY <1>3 DEF Received, Opened
<1>7. handover'[h] = [handover[h] EXCEPT !.state = "confirmed"] /\ OnlyHandover(h)
  BY DEF AcceptSessionHandover, TypeOK, OnlyHandover
<1>8. Live(h) /\ u = handover[h].to /\ difference' = difference
  BY DEF AcceptSessionHandover
<1>9. /\ handover'[h].state = "confirmed" /\ handover'[h].source = s
      /\ handover'[h].to = handover[h].to /\ handover'[h].maker = handover[h].maker
      /\ handover'[h].amount = handover[h].amount /\ handover'[h].declined = handover[h].declined
  BY <1>4, <1>7 DEF HandoverRow
<1>10. ~handover'[h].declined
  BY <1>8, <1>9 DEF Live
<1> QED BY <1>1, <1>2, <1>3, <1>5, <1>6, <1>7, <1>8, <1>9, <1>10

LEMMA DeclineFields ==
  ASSUME TypeOK, NEW u \in User, NEW h \in HandoverId, DeclineSessionHandover(u, h)
  PROVE  /\ handover[h].state = "pending" /\ handover'[h].state = "pending"
         /\ handover'[h].source = handover[h].source /\ handover'[h].maker = handover[h].maker
         /\ handover'[h].to = handover[h].to /\ handover'[h].amount = handover[h].amount
         /\ handover'[h].declined /\ OnlyHandover(h)
         /\ session' = session /\ difference' = difference
<1>1. handover'[h] = [handover[h] EXCEPT !.declined = TRUE] /\ OnlyHandover(h)
  BY DEF DeclineSessionHandover, TypeOK, OnlyHandover
<1>2. handover[h] \in HandoverRow
  BY HandoverRowOK
<1> QED BY <1>1, <1>2 DEF DeclineSessionHandover, Live, HandoverRow

LEMMA RedirectFields ==
  ASSUME TypeOK, NEW u \in User, NEW h \in HandoverId, NEW v \in User,
         RedirectSessionHandover(u, h, v)
  PROVE  /\ handover[h].state = "pending" /\ handover'[h].state = "cancelled"
         /\ handover'[h].source = handover[h].source /\ handover'[h].maker = handover[h].maker
         /\ handover'[h].to = handover[h].to /\ handover'[h].amount = handover[h].amount
         /\ handover'[h].declined = handover[h].declined /\ handover'[h].redirectedBy = u
         /\ handover[h].declined => u \in Supervisors
         /\ session' = session /\ difference' = difference
         /\ account' = account /\ account[v] = "active" /\ v # handover[h].maker
         /\ \E r \in HandoverId \ {h} :
              /\ handover[r].state = "none" /\ handover'[h].replacement = r
              /\ handover'[r] = Offered(handover[h].source, v, handover[h].amount)
              /\ \A g \in HandoverId \ {h, r} : handover'[g] = handover[g]
<1>1. PICK r \in HandoverId :
        /\ handover[r].state = "none"
        /\ handover' = [handover EXCEPT ![h] = Cancelled(h, u, r),
                           ![r] = Offered(handover[h].source, v, handover[h].amount)]
  BY DEF RedirectSessionHandover
<1>2. handover[h].state = "pending" /\ r # h
  BY <1>1 DEF RedirectSessionHandover
<1>3. /\ handover'[h] = Cancelled(h, u, r)
      /\ handover'[r] = Offered(handover[h].source, v, handover[h].amount)
      /\ \A g \in HandoverId \ {h, r} : handover'[g] = handover[g]
  BY <1>1, <1>2 DEF TypeOK
<1>4. handover[h] \in HandoverRow
  BY HandoverRowOK
<1>5. /\ handover'[h].state = "cancelled"
      /\ handover'[h].source = handover[h].source /\ handover'[h].maker = handover[h].maker
      /\ handover'[h].to = handover[h].to /\ handover'[h].amount = handover[h].amount
      /\ handover'[h].declined = handover[h].declined /\ handover'[h].redirectedBy = u
      /\ handover'[h].replacement = r
  BY <1>3, <1>4 DEF Cancelled, HandoverRow
<1>6. /\ handover[h].declined => u \in Supervisors
      /\ session' = session /\ difference' = difference
      /\ account' = account /\ account[v] = "active" /\ v # handover[h].maker
  BY DEF RedirectSessionHandover, ValidReceiver
<1> QED BY <1>1, <1>2, <1>3, <1>5, <1>6

LEMMA ResolveFields ==
  ASSUME TypeOK, NEW u \in User, NEW s \in SessionId,
         NEW type \in {"no_further_action", "accepted_loss", "accepted_surplus"},
         ResolveDifference(u, s, type)
  PROVE  /\ difference[s].status = "pending_review" /\ difference'[s].status = "resolved"
         /\ difference'[s].amount = difference[s].amount /\ difference'[s].resolution = type
         /\ difference'[s].resolvedBy = u /\ OnlyDifference(s)
         /\ session' = session /\ handover' = handover
<1>1. /\ difference'[s] = [difference[s] EXCEPT !.status = "resolved", !.resolution = type,
                                                !.resolvedBy = u]
      /\ OnlyDifference(s)
  BY DEF ResolveDifference, TypeOK, OnlyDifference
<1>2. difference[s] \in DifferenceRow
  BY DEF TypeOK
<1>3. /\ difference'[s].status = "resolved" /\ difference'[s].amount = difference[s].amount
      /\ difference'[s].resolution = type /\ difference'[s].resolvedBy = u
  BY <1>1, <1>2 DEF DifferenceRow
<1> QED BY <1>1, <1>3 DEF ResolveDifference

-----------------------------------------------------------------------------
(* The inductive invariant.  The parts hold each other up: what a pending  *)
(* handover says of its source needs that the source has no other standing *)
(* handover, which in turn needs that a confirmed one closed its source.   *)

IInv ==
  /\ TypeOK
  /\ RowsAreConnected
  /\ OneActiveSession
  /\ ClosingCashIsOffered
  /\ OneStandingHandover
  /\ ConfirmedOpensOne
  /\ RedirectsFormAChain
  /\ RefusalIsRespected
  /\ ReceiverCanAnswer
  /\ DifferenceIsExact
  /\ ReviewIsIndependent

LEMMA InitIInv == Init => IInv
<1> SUFFICES ASSUME Init PROVE IInv
  OBVIOUS
<1>1. TypeOK
  BY InitTypeOK
<1>2. \A s \in SessionId : session[s] = NoSession /\ session[s].state = "none"
                           /\ session[s].from = None
  BY DEF Init, NoSession
<1>3. \A h \in HandoverId : handover[h] = NoHandover /\ handover[h].state = "none"
                            /\ ~handover[h].declined
  BY DEF Init, NoHandover
<1>4. \A s \in SessionId : difference[s] = NoDifference /\ difference[s].status = "none"
  BY DEF Init, NoDifference
<1>5. inflight = {}
  BY DEF Init
<1>6. RowsAreConnected
  BY <1>2, <1>3, <1>4, <1>5 DEF RowsAreConnected
<1>7. OneActiveSession /\ ClosingCashIsOffered /\ OneStandingHandover
  BY <1>2, <1>3 DEF OneActiveSession, ClosingCashIsOffered, OneStandingHandover, Active
<1>8. ConfirmedOpensOne /\ RedirectsFormAChain /\ RefusalIsRespected
  BY <1>2, <1>3 DEF ConfirmedOpensOne, RedirectsFormAChain, RefusalIsRespected
<1>9. ReceiverCanAnswer /\ DifferenceIsExact /\ ReviewIsIndependent
  BY <1>2, <1>3, <1>4 DEF ReceiverCanAnswer, DifferenceIsExact, ReviewIsIndependent, Live
<1> QED BY <1>1, <1>6, <1>7, <1>8, <1>9 DEF IInv

LEMMA NextTypeOK ==
  ASSUME IInv, Next
  PROVE  TypeOK'
<1>1. TypeOK
  BY DEF IInv
<1>2. ASSUME NEW h \in HandoverId, handover[h].state # "none"
      PROVE  handover[h].source \in SessionId /\ session[handover[h].source].state # "none"
  BY <1>2 DEF IInv, RowsAreConnected
<1>3. CASE SessionStep
  <2>1. ASSUME NEW u \in User, NEW p \in CashPoint, EnterOpen(u, p)
        PROVE  TypeOK'
    BY <1>1, <2>1, EnterOK DEF EnterOpen
  <2>2. ASSUME NEW u \in User, NEW s \in SessionId, EnterClose(u, s)
        PROVE  TypeOK'
    BY <1>1, <2>2, EnterOK DEF EnterClose
  <2>3. ASSUME NEW u \in User, NEW s \in SessionId, CloseEmpty(u, s)
        PROVE  TypeOK'
    BY <1>1, <2>3, CloseWithoutHandoverTypeOK, AmountIsNat
  <2> QED BY <1>1, <1>3, <2>1, <2>2, <2>3, OpenSessionTypeOK, CloseWithoutHandoverTypeOK,
             CloseWithHandoverTypeOK, BrokenCloseTypeOK, MovementTypeOK DEF SessionStep
<1>4. CASE HandoverStep
  <2>1. ASSUME NEW u \in User, NEW h \in HandoverId,
               EnterAccept(u, h) \/ EnterDecline(u, h) \/ EnterRedirect(u, h)
        PROVE  TypeOK'
    BY <1>1, <2>1, EnterOK DEF EnterAccept, EnterDecline, EnterRedirect
  <2>2. ASSUME NEW u \in User, NEW h \in HandoverId, NEW counted \in Amount,
               AcceptSessionHandover(u, h, counted)
        PROVE  TypeOK'
    <3>1. handover[h].state # "none"
      BY <2>2 DEF AcceptSessionHandover, Live
    <3>2. handover[h].source \in SessionId /\ session[handover[h].source].state # "none"
      BY <1>2, <3>1
    <3>3. session[handover[h].source].point \in CashPoint
      BY <3>2 DEF IInv, RowsAreConnected
    <3> QED BY <1>1, <2>2, <3>2, <3>3, AcceptTypeOK
  <2>3. ASSUME NEW u \in User, NEW h \in HandoverId, NEW v \in User,
               DeclineSessionHandover(u, h) \/ RedirectSessionHandover(u, h, v)
        PROVE  TypeOK'
    <3>1. handover[h].state # "none"
      BY <2>3 DEF DeclineSessionHandover, RedirectSessionHandover, Live
    <3> QED BY <1>1, <1>2, <2>3, <3>1, AnswerTypeOK
  <2> QED BY <1>4, <2>1, <2>2, <2>3 DEF HandoverStep
<1>5. CASE ReviewStep
  <2>1. ASSUME NEW u \in User, NEW s \in SessionId, EnterResolve(u, s)
        PROVE  TypeOK'
    BY <1>1, <2>1, EnterOK DEF EnterResolve
  <2> QED BY <1>1, <1>5, <2>1, ResolveTypeOK DEF ReviewStep
<1>6. CASE NeighbourStep
  <2>1. ASSUME NEW s \in SessionId, ReportSurplus(s)
        PROVE  TypeOK'
    <3>1. session[s].point \in CashPoint
      BY <2>1 DEF ReportSurplus, IInv, RowsAreConnected
    <3>2. surplus' \subseteq Box
      BY <1>1, <2>1, <3>1, BoxAssumption DEF ReportSurplus, TypeOK
    <3> QED BY <1>1, <2>1, <3>2 DEF ReportSurplus, TypeOK
  <2>2. ASSUME NEW s \in SessionId, NEW amount \in Amount \ {0}, ConfirmSurplus(s, amount)
        PROVE  TypeOK'
    BY <1>1, <2>2, MovementTypeOK
  <2>3. ASSUME NEW b \in Box, RejectSurplus(b)
        PROVE  TypeOK'
    BY <1>1, <2>3 DEF RejectSurplus, TypeOK
  <2>4. ASSUME NEW u \in User, DisableUser(u) \/ EnableUser(u)
        PROVE  TypeOK'
    <3>1. account' \in [User -> {"active", "disabled"}]
      BY <1>1, <2>4 DEF DisableUser, EnableUser, TypeOK
    <3> QED BY <1>1, <2>4, <3>1 DEF DisableUser, EnableUser, TypeOK
  <2>5. ASSUME NEW p \in CashPoint, SetCashPointStatus(p)
        PROVE  TypeOK'
    <3>1. point' \in [CashPoint -> {"active", "suspended"}]
      BY <1>1, <2>5 DEF SetCashPointStatus, TypeOK
    <3> QED BY <1>1, <2>5, <3>1 DEF SetCashPointStatus, TypeOK
  <2>6. ASSUME NEW t \in inflight, Forget(t)
        PROVE  TypeOK'
    BY <1>1, <2>6 DEF Forget, TypeOK
  <2> QED BY <1>6, <2>1, <2>2, <2>3, <2>4, <2>5, <2>6 DEF NeighbourStep
<1> QED BY <1>3, <1>4, <1>5, <1>6 DEF Next

-----------------------------------------------------------------------------
(* Each other part is kept by every step.                                  *)

LEMMA TicketsKept ==
  ASSUME RowsAreConnected, [Next]_vars
  PROVE  \A t \in inflight' : t.op = "resolve" => t.user \in Reviewers
<1>1. \A t \in inflight : t.op = "resolve" => t.user \in Reviewers
  BY DEF RowsAreConnected
<1>2. inflight' \subseteq inflight
        \/ \E u \in User : \E op, target :
             /\ inflight' = inflight \cup {[op |-> op, user |-> u, target |-> target]}
             /\ op = "resolve" => u \in Reviewers
  <2>1. CASE SessionStep
    BY <2>1 DEF SessionStep, EnterOpen, EnterClose, Enter, OpenSession, CloseEmpty,
                CloseSimpleSession, CloseWithHandover, CloseMeetsTrigger, Deposit, Withdraw
  <2>2. CASE HandoverStep
    BY <2>2 DEF HandoverStep, EnterAccept, EnterDecline, EnterRedirect, Enter,
                AcceptSessionHandover, DeclineSessionHandover, RedirectSessionHandover
  <2>3. CASE ReviewStep
    BY <2>3 DEF ReviewStep, EnterResolve, Enter, ResolveDifference
  <2>4. CASE NeighbourStep
    BY <2>4 DEF NeighbourStep, ReportSurplus, ConfirmSurplus, RejectSurplus, DisableUser,
                EnableUser, SetCashPointStatus, Forget
  <2>5. CASE UNCHANGED vars
    BY <2>5 DEF vars
  <2> QED BY <2>1, <2>2, <2>3, <2>4, <2>5 DEF Next
<1> QED BY <1>1, <1>2

LEMMA NextRowsAreConnected ==
  ASSUME IInv, Next
  PROVE  RowsAreConnected'
<1>1. TypeOK /\ RowsAreConnected /\ ClosingCashIsOffered
  BY DEF IInv
<1>2. \A t \in inflight' : t.op = "resolve" => t.user \in Reviewers
  BY <1>1, TicketsKept
<1>3. NoHandover.state = "none" /\ NoSession.state = "none" /\ NoDifference.status = "none"
  BY DEF NoHandover, NoSession, NoDifference
<1>4. CASE Quiet
  BY <1>1, <1>2, <1>4 DEF Quiet, RowsAreConnected
<1>5. ASSUME NEW u \in User, NEW p \in CashPoint, NEW s \in SessionId, Opens(u, p, s)
      PROVE  RowsAreConnected'
  BY <1>1, <1>2, <1>5, OpensFields DEF RowsAreConnected, OnlySession
<1>6. ASSUME NEW s \in SessionId, Books(s)
      PROVE  RowsAreConnected'
  BY <1>1, <1>2, <1>6, BooksFields DEF RowsAreConnected, OnlySession, SameBirth
<1>7. ASSUME NEW s \in SessionId, NEW counted \in Amount, Ends(s, counted)
      PROVE  RowsAreConnected'
  <2>1. /\ session[s].state = "open" /\ session'[s].state = "closed" /\ SameBirth(s)
        /\ OnlySession(s) /\ handover' = handover /\ OnlyDifference(s)
    BY <1>1, <1>7, CountedFields, RecordedFields DEF Ends, RowsAreConnected
  <2> QED BY <1>1, <1>2, <2>1 DEF RowsAreConnected, OnlySession, OnlyDifference, SameBirth
<1>8. ASSUME NEW u \in User, NEW v \in User, NEW s \in SessionId, NEW counted \in Amount,
             CloseWithHandover(u, s, counted, v)
      PROVE  RowsAreConnected'
  <2>1. /\ session[s].state = "open" /\ session'[s].state = "closing" /\ SameBirth(s)
        /\ OnlySession(s) /\ v # session[s].cashier
    BY <1>1, <1>8, CloseWithHandoverFields
  <2>2. OnlyDifference(s)
    BY <1>1, <1>8, <2>1, CloseWithHandoverFields, RecordedFields DEF RowsAreConnected
  <2>3. PICK h \in HandoverId :
          handover[h].state = "none" /\ OnlyHandover(h) /\ handover'[h] = Offered(s, v, counted)
    BY <1>1, <1>8, CloseWithHandoverFields
  <2> QED BY <1>1, <1>2, <2>1, <2>2, <2>3, OfferedFields
          DEF RowsAreConnected, OnlySession, OnlyHandover, OnlyDifference, SameBirth
<1>9. ASSUME NEW u \in User, NEW h \in HandoverId, NEW counted \in Amount,
             AcceptSessionHandover(u, h, counted)
      PROVE  RowsAreConnected'
  <2>1. handover[h].state # "none" /\ handover[h].source \in SessionId
    BY <1>1, <1>9 DEF AcceptSessionHandover, Live, RowsAreConnected
  <2> QED BY <1>1, <1>2, <1>9, <2>1, AcceptFields
          DEF RowsAreConnected, OnlyHandover, SameBirth
<1>10. ASSUME NEW u \in User, NEW h \in HandoverId, DeclineSessionHandover(u, h)
       PROVE  RowsAreConnected'
  BY <1>1, <1>2, <1>10, DeclineFields DEF RowsAreConnected, OnlyHandover
<1>11. ASSUME NEW u \in User, NEW v \in User, NEW h \in HandoverId,
              RedirectSessionHandover(u, h, v)
       PROVE  RowsAreConnected'
  <2>1. handover[h].state # "none" /\ handover[h].source \in SessionId
    BY <1>1, <1>11, RedirectFields DEF RowsAreConnected
  <2> QED BY <1>1, <1>2, <1>11, <2>1, RedirectFields, HandoverRowOK, OfferedFields
          DEF RowsAreConnected
<1>12. ASSUME NEW u \in User, NEW s \in SessionId,
              NEW type \in {"no_further_action", "accepted_loss", "accepted_surplus"},
              ResolveDifference(u, s, type)
       PROVE  RowsAreConnected'
  BY <1>1, <1>2, <1>3, <1>12, ResolveFields DEF RowsAreConnected, OnlyDifference
<1> QED BY <1>1, <1>4, <1>5, <1>6, <1>7, <1>8, <1>9, <1>10, <1>11, <1>12, StepShapes

LEMMA NextOneActiveSession ==
  ASSUME IInv, Next
  PROVE  OneActiveSession'
<1>1. TypeOK /\ RowsAreConnected /\ OneActiveSession
  BY DEF IInv
<1>2. CASE Quiet
  BY <1>1, <1>2 DEF Quiet, OneActiveSession, Active
<1>3. ASSUME NEW u \in User, NEW p \in CashPoint, NEW s \in SessionId, Opens(u, p, s)
      PROVE  OneActiveSession'
  BY <1>1, <1>3, OpensFields DEF OneActiveSession, Active, OnlySession
<1>4. ASSUME NEW s \in SessionId, Books(s)
      PROVE  OneActiveSession'
  BY <1>1, <1>4, BooksFields DEF OneActiveSession, Active, OnlySession, SameBirth
<1>5. ASSUME NEW s \in SessionId, NEW counted \in Amount, Ends(s, counted)
      PROVE  OneActiveSession'
  <2>1. session'[s].state = "closed" /\ OnlySession(s)
    BY <1>1, <1>5, CountedFields DEF Ends
  <2> QED BY <1>1, <2>1 DEF OneActiveSession, Active, OnlySession
<1>6. ASSUME NEW u \in User, NEW v \in User, NEW s \in SessionId, NEW counted \in Amount,
             CloseWithHandover(u, s, counted, v)
      PROVE  OneActiveSession'
  BY <1>1, <1>6, CloseWithHandoverFields DEF OneActiveSession, Active, OnlySession, SameBirth
<1>7. ASSUME NEW u \in User, NEW h \in HandoverId, NEW counted \in Amount,
             AcceptSessionHandover(u, h, counted)
      PROVE  OneActiveSession'
  <2>1. handover[h].source \in SessionId
    BY <1>1, <1>7 DEF AcceptSessionHandover, Live, RowsAreConnected
  <2> QED BY <1>1, <1>7, <2>1, AcceptFields DEF OneActiveSession, Active
<1>8. ASSUME NEW u \in User, NEW v \in User, NEW h \in HandoverId,
             DeclineSessionHandover(u, h) \/ RedirectSessionHandover(u, h, v)
      PROVE  OneActiveSession'
  BY <1>1, <1>8, DeclineFields, RedirectFields DEF OneActiveSession, Active
<1>9. ASSUME NEW u \in User, NEW s \in SessionId,
             NEW type \in {"no_further_action", "accepted_loss", "accepted_surplus"},
             ResolveDifference(u, s, type)
      PROVE  OneActiveSession'
  BY <1>1, <1>9, ResolveFields DEF OneActiveSession, Active
<1> QED BY <1>1, <1>2, <1>3, <1>4, <1>5, <1>6, <1>7, <1>8, <1>9, StepShapes

LEMMA NextClosingCashIsOffered ==
  ASSUME IInv, Next
  PROVE  ClosingCashIsOffered'
<1>1. TypeOK /\ RowsAreConnected /\ ClosingCashIsOffered /\ OneStandingHandover
  BY DEF IInv
<1>2. CASE Quiet
  BY <1>1, <1>2 DEF Quiet, ClosingCashIsOffered
<1>3. ASSUME NEW u \in User, NEW p \in CashPoint, NEW s \in SessionId, Opens(u, p, s)
      PROVE  ClosingCashIsOffered'
  BY <1>1, <1>3, OpensFields DEF ClosingCashIsOffered, OnlySession
<1>4. ASSUME NEW s \in SessionId, Books(s)
      PROVE  ClosingCashIsOffered'
  BY <1>1, <1>4, BooksFields DEF ClosingCashIsOffered, OnlySession
<1>5. ASSUME NEW s \in SessionId, NEW counted \in Amount, Ends(s, counted)
      PROVE  ClosingCashIsOffered'
  <2>1. session[s].state = "open" /\ session'[s].state = "closed" /\ OnlySession(s)
        /\ handover' = handover
    BY <1>1, <1>5, CountedFields DEF Ends
  <2> QED BY <1>1, <2>1 DEF ClosingCashIsOffered, OnlySession
<1>6. ASSUME NEW u \in User, NEW v \in User, NEW s \in SessionId, NEW counted \in Amount,
             CloseWithHandover(u, s, counted, v)
      PROVE  ClosingCashIsOffered'
  <2>1. /\ session[s].state = "open" /\ session'[s].state = "closing" /\ SameBirth(s)
        /\ session'[s].counted = counted /\ counted > 0 /\ OnlySession(s)
    BY <1>1, <1>6, CloseWithHandoverFields
  <2>2. PICK h \in HandoverId :
          handover[h].state = "none" /\ OnlyHandover(h) /\ handover'[h] = Offered(s, v, counted)
    BY <1>1, <1>6, CloseWithHandoverFields
  <2>3. /\ handover'[h].state = "pending" /\ handover'[h].source = s
        /\ handover'[h].amount = counted /\ handover'[h].maker = session[s].cashier
    BY <2>2, OfferedFields
  <2> QED BY <1>1, <2>1, <2>2, <2>3
          DEF ClosingCashIsOffered, OnlySession, OnlyHandover, SameBirth
<1>7. ASSUME NEW u \in User, NEW h \in HandoverId, NEW counted \in Amount,
             AcceptSessionHandover(u, h, counted)
      PROVE  ClosingCashIsOffered'
  <2>1. handover[h].source \in SessionId /\ handover[h].state = "pending"
    BY <1>1, <1>7 DEF AcceptSessionHandover, Live, RowsAreConnected
  <2>2. ASSUME NEW g \in HandoverId \ {h}, handover[g].state = "pending"
        PROVE  handover[g].source # handover[h].source
    BY <1>1, <2>1, <2>2 DEF OneStandingHandover
  <2> QED BY <1>1, <1>7, <2>1, <2>2, AcceptFields DEF ClosingCashIsOffered, OnlyHandover
<1>8. ASSUME NEW u \in User, NEW h \in HandoverId, DeclineSessionHandover(u, h)
      PROVE  ClosingCashIsOffered'
  BY <1>1, <1>8, DeclineFields DEF ClosingCashIsOffered, OnlyHandover
<1>9. ASSUME NEW u \in User, NEW v \in User, NEW h \in HandoverId,
             RedirectSessionHandover(u, h, v)
      PROVE  ClosingCashIsOffered'
  <2>1. handover[h].source \in SessionId /\ handover[h].amount \in Amount
    BY <1>1, <1>9, RedirectFields, HandoverRowOK DEF RowsAreConnected
  <2>2. PICK r \in HandoverId \ {h} :
          /\ handover[r].state = "none"
          /\ handover'[r] = Offered(handover[h].source, v, handover[h].amount)
          /\ \A g \in HandoverId \ {h, r} : handover'[g] = handover[g]
    BY <1>1, <1>9, RedirectFields
  <2>3. /\ handover'[r].state = "pending" /\ handover'[r].source = handover[h].source
        /\ handover'[r].amount = handover[h].amount
        /\ handover'[r].maker = session[handover[h].source].cashier
    BY <2>1, <2>2, OfferedFields
  <2>4. handover[h].state = "pending" /\ handover'[h].state = "cancelled" /\ session' = session
    BY <1>1, <1>9, RedirectFields
  <2> QED BY <1>1, <2>1, <2>2, <2>3, <2>4 DEF ClosingCashIsOffered
<1>10. ASSUME NEW u \in User, NEW s \in SessionId,
              NEW type \in {"no_further_action", "accepted_loss", "accepted_surplus"},
              ResolveDifference(u, s, type)
       PROVE  ClosingCashIsOffered'
  BY <1>1, <1>10, ResolveFields DEF ClosingCashIsOffered
<1> QED BY <1>1, <1>2, <1>3, <1>4, <1>5, <1>6, <1>7, <1>8, <1>9, <1>10, StepShapes

LEMMA NextOneStandingHandover ==
  ASSUME IInv, Next
  PROVE  OneStandingHandover'
<1>1. TypeOK /\ RowsAreConnected /\ OneStandingHandover
  BY DEF IInv
<1>2. CASE handover' = handover
  BY <1>1, <1>2 DEF OneStandingHandover
<1>3. ASSUME NEW u \in User, NEW v \in User, NEW s \in SessionId, NEW counted \in Amount,
             CloseWithHandover(u, s, counted, v)
      PROVE  OneStandingHandover'
  <2>1. session[s].state = "open"
    BY <1>1, <1>3, CloseWithHandoverFields
  <2>2. PICK h \in HandoverId :
          handover[h].state = "none" /\ OnlyHandover(h) /\ handover'[h] = Offered(s, v, counted)
    BY <1>1, <1>3, CloseWithHandoverFields
  <2>3. handover'[h].source = s
    BY <2>2, OfferedFields
  <2>4. \A g \in HandoverId \ {h} : handover[g].state # "none" => handover[g].source # s
    BY <1>1, <2>1 DEF RowsAreConnected
  <2> QED BY <1>1, <2>2, <2>3, <2>4 DEF OneStandingHandover, OnlyHandover
<1>4. ASSUME NEW u \in User, NEW h \in HandoverId, NEW counted \in Amount,
             AcceptSessionHandover(u, h, counted)
      PROVE  OneStandingHandover'
  <2>1. handover[h].source \in SessionId /\ handover[h].state = "pending"
    BY <1>1, <1>4 DEF AcceptSessionHandover, Live, RowsAreConnected
  <2>2. OnlyHandover(h) /\ handover'[h].source = handover[h].source
    BY <1>1, <1>4, <2>1, AcceptFields
  <2> QED BY <1>1, <2>1, <2>2 DEF OneStandingHandover, OnlyHandover
<1>5. ASSUME NEW u \in User, NEW h \in HandoverId, DeclineSessionHandover(u, h)
      PROVE  OneStandingHandover'
  BY <1>1, <1>5, DeclineFields DEF OneStandingHandover, OnlyHandover
<1>6. ASSUME NEW u \in User, NEW v \in User, NEW h \in HandoverId,
             RedirectSessionHandover(u, h, v)
      PROVE  OneStandingHandover'
  <2>1. handover[h].source \in SessionId /\ handover[h].amount \in Amount
    BY <1>1, <1>6, RedirectFields, HandoverRowOK DEF RowsAreConnected
  <2>2. PICK r \in HandoverId \ {h} :
          /\ handover[r].state = "none"
          /\ handover'[r] = Offered(handover[h].source, v, handover[h].amount)
          /\ \A g \in HandoverId \ {h, r} : handover'[g] = handover[g]
    BY <1>1, <1>6, RedirectFields
  <2>3. handover'[r].source = handover[h].source
    BY <2>1, <2>2, OfferedFields
  <2>4. handover[h].state = "pending" /\ handover'[h].state = "cancelled"
    BY <1>1, <1>6, RedirectFields
  <2> QED BY <1>1, <2>2, <2>3, <2>4 DEF OneStandingHandover
<1>7. ASSUME NEW u \in User, NEW s \in SessionId,
             NEW type \in {"no_further_action", "accepted_loss", "accepted_surplus"},
             ResolveDifference(u, s, type)
      PROVE  OneStandingHandover'
  BY <1>1, <1>2, <1>7, ResolveFields
<1>8. CASE Quiet
  BY <1>2, <1>8 DEF Quiet
<1>9. CASE \E u \in User, p \in CashPoint, s \in SessionId : Opens(u, p, s)
  BY <1>2, <1>9 DEF Opens
<1>10. CASE \E s \in SessionId : Books(s)
  BY <1>2, <1>10 DEF Books
<1>11. CASE \E s \in SessionId, counted \in Amount : Ends(s, counted)
  BY <1>2, <1>11 DEF Ends
<1> QED BY <1>1, <1>3, <1>4, <1>5, <1>6, <1>7, <1>8, <1>9, <1>10, <1>11, StepShapes

LEMMA NextConfirmedOpensOne ==
  ASSUME IInv, Next
  PROVE  ConfirmedOpensOne'
<1>1. TypeOK /\ RowsAreConnected /\ OneStandingHandover /\ ConfirmedOpensOne
  BY DEF IInv
<1>2. \A s \in SessionId : session[s].from \in HandoverId \cup {None}
  BY <1>1, SessionRowOK DEF SessionRow
<1>3. None \notin HandoverId
  BY NoneAssumption
\* No session comes from a handover that is not confirmed.
<1>4. \A s \in SessionId, h \in HandoverId :
        handover[h].state # "confirmed" => session[s].from # h
  BY <1>1, <1>3 DEF ConfirmedOpensOne
<1>5. \A s \in SessionId : session[s].state = "none" => session[s].from = None
  BY <1>1 DEF RowsAreConnected, NoSession
\* A step that adds no row and answers no handover.
<1>6. ASSUME NEW s \in SessionId, OnlySession(s), SameBirth(s), session[s].state = "open",
             \A h \in HandoverId :
               \/ handover'[h] = handover[h]
               \/ handover[h].state = "none" /\ handover'[h].state = "pending"
      PROVE  ConfirmedOpensOne'
  <2>1. \A t \in SessionId : /\ session'[t].from = session[t].from
                            /\ session'[t].cashier = session[t].cashier
                            /\ session'[t].point = session[t].point
    BY <1>6 DEF OnlySession, SameBirth
  <2>2. \A h \in HandoverId :
          handover'[h].state = "confirmed" <=> handover[h].state = "confirmed"
    BY <1>6
  <2>3. \A h \in HandoverId :
          handover'[h].state = "confirmed" => handover'[h] = handover[h]
    BY <1>6
  <2>4. \A h \in HandoverId : handover[h].state = "confirmed" =>
          handover[h].source \in SessionId \ {s}
    BY <1>1, <1>6 DEF RowsAreConnected
  <2> QED BY <1>1, <1>2, <1>3, <1>6, <2>1, <2>2, <2>3, <2>4 DEF ConfirmedOpensOne, OnlySession
<1>7. CASE UNCHANGED <<session, handover>>
  BY <1>1, <1>7 DEF ConfirmedOpensOne
<1>8. ASSUME NEW u \in User, NEW p \in CashPoint, NEW s \in SessionId, Opens(u, p, s)
      PROVE  ConfirmedOpensOne'
  BY <1>1, <1>2, <1>3, <1>5, <1>8, OpensFields
  DEF ConfirmedOpensOne, OnlySession, RowsAreConnected
<1>9. ASSUME NEW s \in SessionId, Books(s)
      PROVE  ConfirmedOpensOne'
  BY <1>1, <1>6, <1>9, BooksFields
<1>10. ASSUME NEW s \in SessionId, NEW counted \in Amount, Ends(s, counted)
       PROVE  ConfirmedOpensOne'
  <2>1. session[s].state = "open" /\ SameBirth(s) /\ OnlySession(s) /\ handover' = handover
    BY <1>1, <1>10, CountedFields DEF Ends
  <2> QED BY <1>6, <2>1
<1>11. ASSUME NEW u \in User, NEW v \in User, NEW s \in SessionId, NEW counted \in Amount,
              CloseWithHandover(u, s, counted, v)
       PROVE  ConfirmedOpensOne'
  <2>1. session[s].state = "open" /\ SameBirth(s) /\ OnlySession(s)
    BY <1>1, <1>11, CloseWithHandoverFields
  <2>2. PICK h \in HandoverId :
          handover[h].state = "none" /\ OnlyHandover(h) /\ handover'[h] = Offered(s, v, counted)
    BY <1>1, <1>11, CloseWithHandoverFields
  <2>3. handover'[h].state = "pending"
    BY <2>2, OfferedFields
  <2> QED BY <1>6, <2>1, <2>2, <2>3 DEF OnlyHandover
<1>12. ASSUME NEW u \in User, NEW h \in HandoverId, NEW counted \in Amount,
              AcceptSessionHandover(u, h, counted)
       PROVE  ConfirmedOpensOne'
  <2> DEFINE s == handover[h].source
  <2>1. s \in SessionId /\ handover[h].state = "pending"
    BY <1>1, <1>12 DEF AcceptSessionHandover, Live, RowsAreConnected
  <2>2. /\ session'[s].state = "closed" /\ SameBirth(s) /\ handover'[h].state = "confirmed"
        /\ handover'[h].source = s /\ handover'[h].to = u /\ OnlyHandover(h)
    BY <1>1, <1>12, <2>1, AcceptFields
  <2>3. PICK n \in SessionId \ {s} :
          /\ session[n].state = "none"
          /\ session'[n].point = session[s].point /\ session'[n].cashier = u
          /\ session'[n].from = h
          /\ \A t \in SessionId \ {s, n} : session'[t] = session[t]
    BY <1>1, <1>12, <2>1, AcceptFields
  <2>4. \A t \in SessionId \ {n} : /\ session'[t].from = session[t].from
                                  /\ session'[t].point = session[t].point
                                  /\ session'[t].cashier = session[t].cashier
                                  /\ session[t].from # h
    BY <1>4, <2>1, <2>2, <2>3 DEF SameBirth
  <2>5. ASSUME NEW g \in HandoverId, handover'[g].state = "confirmed"
        PROVE  \E m \in SessionId :
                 /\ session'[m].from = g
                 /\ session'[m].cashier = handover'[g].to
                 /\ session'[m].point = session'[handover'[g].source].point
                 /\ session'[handover'[g].source].state = "closed"
    <3>1. CASE g = h
      BY <2>1, <2>2, <2>3, <2>4, <3>1
    <3>2. CASE g # h
      <4>1. handover'[g] = handover[g] /\ handover[g].state = "confirmed"
        BY <2>5, <3>2, <2>2 DEF OnlyHandover
      <4>2. PICK m \in SessionId :
              /\ session[m].from = g
              /\ session[m].cashier = handover[g].to
              /\ session[m].point = session[handover[g].source].point
              /\ session[handover[g].source].state = "closed"
        BY <1>1, <4>1 DEF ConfirmedOpensOne
      <4>3. m # n /\ handover[g].source # s /\ handover[g].source \in SessionId \ {n}
        BY <1>1, <1>3, <1>5, <2>1, <2>3, <3>2, <4>1, <4>2 DEF RowsAreConnected, OneStandingHandover
      <4> QED BY <2>3, <2>4, <4>1, <4>2, <4>3
    <3> QED BY <3>1, <3>2
  <2>6. ASSUME NEW a \in SessionId, NEW b \in SessionId, session'[a].from # None
        PROVE  /\ handover'[session'[a].from].state = "confirmed"
               /\ session'[a].from = session'[b].from => a = b
    <3>1. CASE a = n
      BY <2>2, <2>3, <2>4, <3>1
    <3>2. CASE a # n
      <4>1. session[a].from # None /\ session[a].from \in HandoverId \ {h}
        BY <1>2, <2>4, <2>6, <3>2
      <4>2. handover[session[a].from].state = "confirmed"
        BY <1>1, <4>1 DEF ConfirmedOpensOne
      <4>3. handover'[session'[a].from].state = "confirmed"
        BY <2>2, <2>4, <3>2, <4>1, <4>2 DEF OnlyHandover
      <4>4. session'[a].from = session'[b].from => a = b
        BY <1>1, <2>3, <2>4, <3>2, <4>1 DEF ConfirmedOpensOne
      <4> QED BY <4>3, <4>4
    <3> QED BY <3>1, <3>2
  <2> QED BY <2>5, <2>6 DEF ConfirmedOpensOne
<1>13. ASSUME NEW u \in User, NEW h \in HandoverId, DeclineSessionHandover(u, h)
       PROVE  ConfirmedOpensOne'
  BY <1>1, <1>2, <1>3, <1>13, DeclineFields DEF ConfirmedOpensOne, OnlyHandover
<1>14. ASSUME NEW u \in User, NEW v \in User, NEW h \in HandoverId,
              RedirectSessionHandover(u, h, v)
       PROVE  ConfirmedOpensOne'
  <2>1. handover[h].source \in SessionId /\ handover[h].amount \in Amount
    BY <1>1, <1>14, RedirectFields, HandoverRowOK DEF RowsAreConnected
  <2>2. PICK r \in HandoverId \ {h} :
          /\ handover[r].state = "none"
          /\ handover'[r] = Offered(handover[h].source, v, handover[h].amount)
          /\ \A g \in HandoverId \ {h, r} : handover'[g] = handover[g]
    BY <1>1, <1>14, RedirectFields
  <2>3. handover'[r].state = "pending" /\ handover[h].state = "pending"
        /\ handover'[h].state = "cancelled" /\ session' = session
    BY <1>1, <1>14, <2>1, <2>2, RedirectFields, OfferedFields
  <2>4. \A g \in HandoverId :
          /\ handover'[g].state = "confirmed" => handover'[g] = handover[g]
          /\ handover[g].state = "confirmed" => handover'[g] = handover[g]
    BY <2>2, <2>3
  <2> QED BY <1>1, <1>2, <1>3, <2>3, <2>4 DEF ConfirmedOpensOne
<1>15. ASSUME NEW u \in User, NEW s \in SessionId,
              NEW type \in {"no_further_action", "accepted_loss", "accepted_surplus"},
              ResolveDifference(u, s, type)
       PROVE  ConfirmedOpensOne'
  BY <1>1, <1>7, <1>15, ResolveFields
<1>16. CASE Quiet
  BY <1>7, <1>16 DEF Quiet
<1> QED BY <1>1, <1>8, <1>9, <1>10, <1>11, <1>12, <1>13, <1>14, <1>15, <1>16, StepShapes

LEMMA NextRedirectsFormAChain ==
  ASSUME IInv, Next
  PROVE  RedirectsFormAChain'
<1>1. TypeOK /\ RowsAreConnected /\ RedirectsFormAChain
  BY DEF IInv
<1>2. CASE handover' = handover
  BY <1>1, <1>2 DEF RedirectsFormAChain
<1>3. ASSUME NEW u \in User, NEW v \in User, NEW s \in SessionId, NEW counted \in Amount,
             CloseWithHandover(u, s, counted, v)
      PROVE  RedirectsFormAChain'
  <2>1. PICK h \in HandoverId :
          handover[h].state = "none" /\ OnlyHandover(h) /\ handover'[h] = Offered(s, v, counted)
    BY <1>1, <1>3, CloseWithHandoverFields
  <2>2. handover'[h].state = "pending"
    BY <2>1, OfferedFields
  <2> QED BY <1>1, <2>1, <2>2 DEF RedirectsFormAChain, OnlyHandover
<1>4. ASSUME NEW u \in User, NEW h \in HandoverId, NEW counted \in Amount,
             AcceptSessionHandover(u, h, counted)
      PROVE  RedirectsFormAChain'
  <2>1. handover[h].source \in SessionId /\ handover[h].state = "pending"
    BY <1>1, <1>4 DEF AcceptSessionHandover, Live, RowsAreConnected
  <2>2. /\ OnlyHandover(h) /\ handover'[h].state = "confirmed"
        /\ handover'[h].source = handover[h].source /\ handover'[h].amount = handover[h].amount
    BY <1>1, <1>4, <2>1, AcceptFields
  <2> QED BY <1>1, <2>1, <2>2 DEF RedirectsFormAChain, OnlyHandover
<1>5. ASSUME NEW u \in User, NEW h \in HandoverId, DeclineSessionHandover(u, h)
      PROVE  RedirectsFormAChain'
  BY <1>1, <1>5, DeclineFields DEF RedirectsFormAChain, OnlyHandover
<1>6. ASSUME NEW u \in User, NEW v \in User, NEW h \in HandoverId,
             RedirectSessionHandover(u, h, v)
      PROVE  RedirectsFormAChain'
  <2>1. handover[h].source \in SessionId /\ handover[h].amount \in Amount
    BY <1>1, <1>6, RedirectFields, HandoverRowOK DEF RowsAreConnected
  <2>2. PICK r \in HandoverId \ {h} :
          /\ handover[r].state = "none" /\ handover'[h].replacement = r
          /\ handover'[r] = Offered(handover[h].source, v, handover[h].amount)
          /\ \A g \in HandoverId \ {h, r} : handover'[g] = handover[g]
    BY <1>1, <1>6, RedirectFields
  <2>3. /\ handover'[r].state = "pending" /\ handover'[r].source = handover[h].source
        /\ handover'[r].amount = handover[h].amount
    BY <2>1, <2>2, OfferedFields
  <2>4. /\ handover[h].state = "pending" /\ handover'[h].state = "cancelled"
        /\ handover'[h].source = handover[h].source /\ handover'[h].amount = handover[h].amount
    BY <1>1, <1>6, RedirectFields
  <2>5. ASSUME NEW g \in HandoverId \ {h}, handover'[g].state = "cancelled"
        PROVE  /\ handover[g].state = "cancelled" /\ handover'[g] = handover[g]
               /\ handover[g].replacement \in HandoverId \ {g, r}
    <3>1. handover'[g] = handover[g] /\ handover[g].state = "cancelled"
      BY <2>2, <2>3, <2>5
    <3> QED BY <1>1, <2>2, <3>1 DEF RedirectsFormAChain
  <2>6. ASSUME NEW g \in HandoverId, handover'[g].state = "cancelled"
        PROVE  LET x == handover'[g].replacement IN
               /\ x \in HandoverId \ {g}
               /\ handover'[x].state # "none"
               /\ handover'[x].source = handover'[g].source
               /\ handover'[x].amount = handover'[g].amount
               /\ \A k \in HandoverId :
                    handover'[k].state = "cancelled" /\ handover'[k].replacement = x => k = g
    <3>1. CASE g = h
      BY <2>2, <2>3, <2>4, <2>5, <3>1
    <3>2. CASE g # h
      <4>1. /\ handover[g].state = "cancelled" /\ handover'[g] = handover[g]
            /\ handover[g].replacement \in HandoverId \ {g, r}
        BY <2>5, <2>6, <3>2
      <4> DEFINE x == handover[g].replacement
      <4>2. /\ handover[x].state # "none" /\ handover[x].source = handover[g].source
            /\ handover[x].amount = handover[g].amount
            /\ \A k \in HandoverId :
                 handover[k].state = "cancelled" /\ handover[k].replacement = x => k = g
        BY <1>1, <4>1 DEF RedirectsFormAChain
      <4>3. /\ handover'[x].state # "none" /\ handover'[x].source = handover[x].source
            /\ handover'[x].amount = handover[x].amount
        BY <2>2, <2>4, <4>1, <4>2
      <4>4. \A k \in HandoverId :
              handover'[k].state = "cancelled" /\ handover'[k].replacement = x => k = g
        BY <2>2, <2>5, <4>1, <4>2
      <4> QED BY <4>1, <4>2, <4>3, <4>4
    <3> QED BY <3>1, <3>2
  <2> QED BY <2>6 DEF RedirectsFormAChain
<1>7. ASSUME NEW u \in User, NEW s \in SessionId,
             NEW type \in {"no_further_action", "accepted_loss", "accepted_surplus"},
             ResolveDifference(u, s, type)
      PROVE  RedirectsFormAChain'
  BY <1>1, <1>2, <1>7, ResolveFields
<1>8. CASE \/ Quiet
           \/ \E u \in User, p \in CashPoint, s \in SessionId : Opens(u, p, s)
           \/ \E s \in SessionId : Books(s)
           \/ \E s \in SessionId, counted \in Amount : Ends(s, counted)
  BY <1>2, <1>8 DEF Quiet, Opens, Books, Ends
<1> QED BY <1>1, <1>3, <1>4, <1>5, <1>6, <1>7, <1>8, StepShapes

LEMMA NextRefusalIsRespected ==
  ASSUME IInv, Next
  PROVE  RefusalIsRespected'
<1>1. TypeOK /\ RowsAreConnected /\ RefusalIsRespected
  BY DEF IInv
<1>2. CASE handover' = handover
  BY <1>1, <1>2 DEF RefusalIsRespected
<1>3. ASSUME NEW u \in User, NEW v \in User, NEW s \in SessionId, NEW counted \in Amount,
             CloseWithHandover(u, s, counted, v)
      PROVE  RefusalIsRespected'
  <2>1. PICK h \in HandoverId : OnlyHandover(h) /\ handover'[h] = Offered(s, v, counted)
    BY <1>1, <1>3, CloseWithHandoverFields
  <2>2. ~handover'[h].declined
    BY <2>1, OfferedFields
  <2> QED BY <1>1, <2>1, <2>2 DEF RefusalIsRespected, OnlyHandover
<1>4. ASSUME NEW u \in User, NEW h \in HandoverId, NEW counted \in Amount,
             AcceptSessionHandover(u, h, counted)
      PROVE  RefusalIsRespected'
  <2>1. handover[h].source \in SessionId
    BY <1>1, <1>4 DEF AcceptSessionHandover, Live, RowsAreConnected
  <2>2. OnlyHandover(h) /\ ~handover'[h].declined
    BY <1>1, <1>4, <2>1, AcceptFields
  <2> QED BY <1>1, <2>2 DEF RefusalIsRespected, OnlyHandover
<1>5. ASSUME NEW u \in User, NEW h \in HandoverId, DeclineSessionHandover(u, h)
      PROVE  RefusalIsRespected'
  BY <1>1, <1>5, DeclineFields DEF RefusalIsRespected, OnlyHandover
<1>6. ASSUME NEW u \in User, NEW v \in User, NEW h \in HandoverId,
             RedirectSessionHandover(u, h, v)
      PROVE  RefusalIsRespected'
  <2>1. handover[h].source \in SessionId /\ handover[h].amount \in Amount
    BY <1>1, <1>6, RedirectFields, HandoverRowOK DEF RowsAreConnected
  <2>2. PICK r \in HandoverId \ {h} :
          /\ handover'[r] = Offered(handover[h].source, v, handover[h].amount)
          /\ \A g \in HandoverId \ {h, r} : handover'[g] = handover[g]
    BY <1>1, <1>6, RedirectFields
  <2>3. ~handover'[r].declined
    BY <2>1, <2>2, OfferedFields
  <2>4. /\ handover'[h].state = "cancelled" /\ handover'[h].redirectedBy = u
        /\ handover'[h].declined => u \in Supervisors
    BY <1>1, <1>6, RedirectFields
  <2> QED BY <1>1, <2>2, <2>3, <2>4 DEF RefusalIsRespected
<1>7. ASSUME NEW u \in User, NEW s \in SessionId,
             NEW type \in {"no_further_action", "accepted_loss", "accepted_surplus"},
             ResolveDifference(u, s, type)
      PROVE  RefusalIsRespected'
  BY <1>1, <1>2, <1>7, ResolveFields
<1>8. CASE \/ Quiet
           \/ \E u \in User, p \in CashPoint, s \in SessionId : Opens(u, p, s)
           \/ \E s \in SessionId : Books(s)
           \/ \E s \in SessionId, counted \in Amount : Ends(s, counted)
  BY <1>2, <1>8 DEF Quiet, Opens, Books, Ends
<1> QED BY <1>1, <1>3, <1>4, <1>5, <1>6, <1>7, <1>8, StepShapes

\* Accounts change only when no handover does.
LEMMA AccountsKept ==
  ASSUME Next
  PROVE  \/ account' = account
         \/ handover' = handover /\ \E u \in User : DisableUser(u) \/ EnableUser(u)
<1>1. CASE SessionStep
  BY <1>1 DEF SessionStep, EnterOpen, EnterClose, Enter, OpenSession, CloseEmpty,
              CloseSimpleSession, CloseWithHandover, CloseMeetsTrigger, Deposit, Withdraw
<1>2. CASE HandoverStep
  BY <1>2 DEF HandoverStep, EnterAccept, EnterDecline, EnterRedirect, Enter,
              AcceptSessionHandover, DeclineSessionHandover, RedirectSessionHandover
<1>3. CASE ReviewStep
  BY <1>3 DEF ReviewStep, EnterResolve, Enter, ResolveDifference
<1>4. CASE NeighbourStep
  BY <1>4 DEF NeighbourStep, ReportSurplus, ConfirmSurplus, RejectSurplus, DisableUser,
              EnableUser, SetCashPointStatus, Forget
<1> QED BY <1>1, <1>2, <1>3, <1>4 DEF Next

LEMMA NextReceiverCanAnswer ==
  ASSUME IInv, Next
  PROVE  ReceiverCanAnswer'
<1>1. TypeOK /\ RowsAreConnected /\ ReceiverCanAnswer
  BY DEF IInv
<1>2. \A h \in HandoverId : Live(h) => handover[h].to \in User
  BY <1>1 DEF Live, RowsAreConnected
<1>3. ASSUME NEW u \in User, DisableUser(u)
      PROVE  ReceiverCanAnswer'
  BY <1>1, <1>2, <1>3 DEF DisableUser, HasCashResponsibility, ReceiverCanAnswer, Live, TypeOK
<1>4. ASSUME NEW u \in User, EnableUser(u)
      PROVE  ReceiverCanAnswer'
  BY <1>1, <1>2, <1>4 DEF EnableUser, ReceiverCanAnswer, Live, TypeOK
<1>5. CASE account' = account /\ handover' = handover
  BY <1>1, <1>5 DEF ReceiverCanAnswer, Live
<1>6. ASSUME NEW u \in User, NEW v \in User, NEW s \in SessionId, NEW counted \in Amount,
             CloseWithHandover(u, s, counted, v)
      PROVE  ReceiverCanAnswer'
  <2>1. account' = account /\ account[v] = "active"
    BY <1>1, <1>6, CloseWithHandoverFields
  <2>2. PICK h \in HandoverId : OnlyHandover(h) /\ handover'[h] = Offered(s, v, counted)
    BY <1>1, <1>6, CloseWithHandoverFields
  <2>3. handover'[h].to = v
    BY <2>2, OfferedFields
  <2> QED BY <1>1, <2>1, <2>2, <2>3 DEF ReceiverCanAnswer, OnlyHandover, Live
<1>7. ASSUME NEW u \in User, NEW h \in HandoverId, NEW counted \in Amount,
             AcceptSessionHandover(u, h, counted)
      PROVE  ReceiverCanAnswer'
  <2>1. handover[h].source \in SessionId
    BY <1>1, <1>7 DEF AcceptSessionHandover, Live, RowsAreConnected
  <2>2. OnlyHandover(h) /\ handover'[h].state = "confirmed"
    BY <1>1, <1>7, <2>1, AcceptFields
  <2>3. account' = account
    BY <1>7 DEF AcceptSessionHandover
  <2> QED BY <1>1, <2>2, <2>3 DEF ReceiverCanAnswer, OnlyHandover, Live
<1>8. ASSUME NEW u \in User, NEW h \in HandoverId, DeclineSessionHandover(u, h)
      PROVE  ReceiverCanAnswer'
  <2>1. account' = account
    BY <1>8 DEF DeclineSessionHandover
  <2> QED BY <1>1, <1>8, <2>1, DeclineFields DEF ReceiverCanAnswer, OnlyHandover, Live
<1>9. ASSUME NEW u \in User, NEW v \in User, NEW h \in HandoverId,
             RedirectSessionHandover(u, h, v)
      PROVE  ReceiverCanAnswer'
  <2>1. handover[h].source \in SessionId /\ handover[h].amount \in Amount
    BY <1>1, <1>9, RedirectFields, HandoverRowOK DEF RowsAreConnected
  <2>2. PICK r \in HandoverId \ {h} :
          /\ handover'[r] = Offered(handover[h].source, v, handover[h].amount)
          /\ \A g \in HandoverId \ {h, r} : handover'[g] = handover[g]
    BY <1>1, <1>9, RedirectFields
  <2>3. handover'[r].to = v /\ handover'[h].state = "cancelled"
    BY <1>1, <1>9, <2>1, <2>2, OfferedFields, RedirectFields
  <2>4. account' = account /\ account[v] = "active"
    BY <1>1, <1>9, RedirectFields
  <2> QED BY <1>1, <2>2, <2>3, <2>4 DEF ReceiverCanAnswer, Live
<1>10. CASE handover' = handover
  BY <1>3, <1>4, <1>5, <1>10, AccountsKept
<1>11. CASE \/ Quiet
            \/ \E u \in User, p \in CashPoint, s \in SessionId : Opens(u, p, s)
            \/ \E s \in SessionId : Books(s)
            \/ \E s \in SessionId, counted \in Amount : Ends(s, counted)
  BY <1>10, <1>11 DEF Quiet, Opens, Books, Ends
<1>12. ASSUME NEW u \in User, NEW s \in SessionId,
              NEW type \in {"no_further_action", "accepted_loss", "accepted_surplus"},
              ResolveDifference(u, s, type)
       PROVE  ReceiverCanAnswer'
  BY <1>1, <1>10, <1>12, ResolveFields
<1> QED BY <1>1, <1>6, <1>7, <1>8, <1>9, <1>11, <1>12, StepShapes

\* The counted cash of s has left through a handover.
HandedOn(s) == \E h \in HandoverId : handover[h].source = s /\ handover[h].state = "confirmed"

Exact(s) ==
  /\ difference[s].amount = (IF HandedOn(s) THEN 0 ELSE session[s].counted) - session[s].balance
  /\ (difference[s].status = "none") <=> (difference[s].amount = 0)

LEMMA ExactSessions ==
  DifferenceIsExact <=>
    \A s \in SessionId : session[s].state \in {"closing", "closed"} => Exact(s)
  BY DEF DifferenceIsExact, Exact, HandedOn

LEMMA NextDifferenceIsExact ==
  ASSUME IInv, Next
  PROVE  DifferenceIsExact'
<1>1. TypeOK /\ RowsAreConnected /\ ClosingCashIsOffered /\ OneStandingHandover
  BY DEF IInv
<1>2. \A s \in SessionId : session[s].state \in {"closing", "closed"} => Exact(s)
  BY ExactSessions DEF IInv
<1> SUFFICES ASSUME NEW t \in SessionId, session'[t].state \in {"closing", "closed"}
             PROVE  Exact(t)'
  BY DEF DifferenceIsExact, Exact, HandedOn
<1>3. CASE UNCHANGED <<session, handover, difference>>
  BY <1>2, <1>3 DEF Exact, HandedOn
\* A step that answers no handover and leaves the session and the difference of t.
<1>4. ASSUME session'[t] = session[t], difference'[t] = difference[t],
             \A h \in HandoverId :
               \/ handover'[h] = handover[h]
               \/ handover[h].state # "confirmed" /\ handover'[h].state # "confirmed"
      PROVE  Exact(t)'
  <2>1. HandedOn(t)' <=> HandedOn(t)
    BY <1>4 DEF HandedOn
  <2> QED BY <1>2, <1>4, <2>1 DEF Exact
\* A session that stops being open with its difference recorded.
<1>5. ASSUME NEW counted \in Amount, session[t].state = "open", RecordDifference(t, counted),
             session'[t].counted = counted, session'[t].balance = session[t].balance,
             \A h \in HandoverId :
               \/ handover'[h] = handover[h]
               \/ handover'[h].state # "confirmed"
      PROVE  Exact(t)'
  <2>1. ~HandedOn(t)'
    BY <1>1, <1>5 DEF HandedOn, RowsAreConnected
  <2>2. difference[t] = NoDifference
    BY <1>1, <1>5 DEF RowsAreConnected
  <2>3. /\ difference'[t].amount = counted - session[t].balance
        /\ difference'[t].status = "none" <=> counted = session[t].balance
    BY <1>1, <1>5, <2>2, RecordedFields
  <2>4. counted \in Int /\ session[t].balance \in Int
    BY <1>1, SessionRowOK, AmountIsNat
  <2> QED BY <1>5, <2>1, <2>3, <2>4 DEF Exact
<1>6. ASSUME NEW u \in User, NEW p \in CashPoint, NEW s \in SessionId, Opens(u, p, s)
      PROVE  Exact(t)'
  BY <1>1, <1>4, <1>6, OpensFields DEF OnlySession
<1>7. ASSUME NEW s \in SessionId, Books(s)
      PROVE  Exact(t)'
  BY <1>1, <1>4, <1>7, BooksFields DEF OnlySession
<1>8. ASSUME NEW s \in SessionId, NEW counted \in Amount, Ends(s, counted)
      PROVE  Exact(t)'
  <2>1. /\ session[s].state = "open" /\ session'[s].counted = counted
        /\ session'[s].balance = session[s].balance /\ OnlySession(s) /\ handover' = handover
        /\ RecordDifference(s, counted)
    BY <1>1, <1>8, CountedFields DEF Ends
  <2>2. CASE t = s
    BY <1>5, <2>1, <2>2
  <2>3. CASE t # s
    <3>1. OnlyDifference(s)
      BY <1>1, <2>1, RecordedFields DEF RowsAreConnected
    <3> QED BY <1>4, <2>1, <2>3, <3>1 DEF OnlySession, OnlyDifference
  <2> QED BY <2>2, <2>3
<1>9. ASSUME NEW u \in User, NEW v \in User, NEW s \in SessionId, NEW counted \in Amount,
             CloseWithHandover(u, s, counted, v)
      PROVE  Exact(t)'
  <2>1. /\ session[s].state = "open" /\ session'[s].counted = counted
        /\ session'[s].balance = session[s].balance /\ OnlySession(s)
        /\ RecordDifference(s, counted)
    BY <1>1, <1>9, CloseWithHandoverFields
  <2>2. PICK h \in HandoverId :
          handover[h].state = "none" /\ OnlyHandover(h) /\ handover'[h] = Offered(s, v, counted)
    BY <1>1, <1>9, CloseWithHandoverFields
  <2>3. handover'[h].state = "pending"
    BY <2>2, OfferedFields
  <2>4. CASE t = s
    BY <1>5, <2>1, <2>2, <2>3, <2>4 DEF OnlyHandover
  <2>5. CASE t # s
    <3>1. OnlyDifference(s)
      BY <1>1, <2>1, RecordedFields DEF RowsAreConnected
    <3> QED BY <1>4, <2>1, <2>2, <2>3, <2>5, <3>1 DEF OnlySession, OnlyDifference, OnlyHandover
  <2> QED BY <2>4, <2>5
<1>10. ASSUME NEW u \in User, NEW h \in HandoverId, NEW counted \in Amount,
              AcceptSessionHandover(u, h, counted)
       PROVE  Exact(t)'
  <2> DEFINE s == handover[h].source
  <2>1. s \in SessionId /\ handover[h].state = "pending"
    BY <1>1, <1>10 DEF AcceptSessionHandover, Live, RowsAreConnected
  <2>2. /\ session[s].state = "closing"
        /\ session'[s].counted = session[s].counted
        /\ session'[s].balance = session[s].balance - handover[h].amount
        /\ handover'[h].state = "confirmed" /\ handover'[h].source = s
        /\ OnlyHandover(h) /\ difference' = difference
    BY <1>1, <1>10, <2>1, AcceptFields
  <2>3. PICK n \in SessionId \ {s} :
          /\ session'[n].state = "open"
          /\ \A x \in SessionId \ {s, n} : session'[x] = session[x]
    BY <1>1, <1>10, <2>1, AcceptFields
  <2>4. CASE t = s
    <3>1. HandedOn(s)'
      BY <2>2 DEF HandedOn
    <3>2. ~HandedOn(s)
      BY <1>1, <2>1 DEF HandedOn, OneStandingHandover
    <3>3. difference[s].amount = session[s].counted - session[s].balance
          /\ ((difference[s].status = "none") <=> (difference[s].amount = 0))
      BY <1>2, <2>1, <2>2, <3>2 DEF Exact
    <3>4. handover[h].amount = session[s].counted
      BY <1>1, <2>1 DEF ClosingCashIsOffered
    <3>5. session[s].counted \in Int /\ session[s].balance \in Int
      BY <1>1, <2>1, SessionRowOK
    <3>6. 0 - (session[s].balance - session[s].counted) = session[s].counted - session[s].balance
      BY <3>5
    <3> QED BY <2>2, <2>4, <3>1, <3>3, <3>4, <3>6 DEF Exact
  <2>5. CASE t # s
    <3>1. session'[t] = session[t]
      BY <2>3, <2>5
    <3>2. HandedOn(t)' <=> HandedOn(t)
      BY <2>1, <2>2, <2>5 DEF HandedOn, OnlyHandover
    <3> QED BY <1>2, <2>2, <3>1, <3>2 DEF Exact
  <2> QED BY <2>4, <2>5
<1>11. ASSUME NEW u \in User, NEW h \in HandoverId, DeclineSessionHandover(u, h)
       PROVE  Exact(t)'
  BY <1>1, <1>4, <1>11, DeclineFields DEF OnlyHandover
<1>12. ASSUME NEW u \in User, NEW v \in User, NEW h \in HandoverId,
              RedirectSessionHandover(u, h, v)
       PROVE  Exact(t)'
  <2>1. handover[h].source \in SessionId /\ handover[h].amount \in Amount
    BY <1>1, <1>12, RedirectFields, HandoverRowOK DEF RowsAreConnected
  <2>2. PICK r \in HandoverId \ {h} :
          /\ handover[r].state = "none"
          /\ handover'[r] = Offered(handover[h].source, v, handover[h].amount)
          /\ \A g \in HandoverId \ {h, r} : handover'[g] = handover[g]
    BY <1>1, <1>12, RedirectFields
  <2>3. handover'[r].state = "pending"
    BY <2>1, <2>2, OfferedFields
  <2>4. /\ handover[h].state = "pending" /\ handover'[h].state = "cancelled"
        /\ session' = session /\ difference' = difference
    BY <1>1, <1>12, RedirectFields
  <2> QED BY <1>4, <2>2, <2>3, <2>4
<1>13. ASSUME NEW u \in User, NEW s \in SessionId,
              NEW type \in {"no_further_action", "accepted_loss", "accepted_surplus"},
              ResolveDifference(u, s, type)
       PROVE  Exact(t)'
  <2>1. /\ difference[s].status = "pending_review" /\ difference'[s].status = "resolved"
        /\ difference'[s].amount = difference[s].amount /\ OnlyDifference(s)
        /\ session' = session /\ handover' = handover
    BY <1>1, <1>13, ResolveFields
  <2>2. HandedOn(t)' <=> HandedOn(t)
    BY <2>1 DEF HandedOn
  <2> QED BY <1>2, <2>1, <2>2 DEF Exact, OnlyDifference
<1> QED BY <1>1, <1>3, <1>6, <1>7, <1>8, <1>9, <1>10, <1>11, <1>12, <1>13, StepShapes DEF Quiet

LEMMA NextReviewIsIndependent ==
  ASSUME IInv, Next
  PROVE  ReviewIsIndependent'
<1>1. TypeOK /\ RowsAreConnected /\ ReviewIsIndependent /\ DifferenceIsExact
  BY DEF IInv
\* A resolved difference belongs to a closed session, and those do not change.
<1>2. ASSUME \A s \in SessionId :
               /\ difference'[s].status = "resolved" => difference'[s] = difference[s]
               /\ session[s].state = "closed" => session'[s] = session[s]
      PROVE  ReviewIsIndependent'
  BY <1>1, <1>2 DEF ReviewIsIndependent
<1>3. CASE UNCHANGED <<session, difference>>
  BY <1>1, <1>3 DEF ReviewIsIndependent
<1>4. ASSUME NEW u \in User, NEW p \in CashPoint, NEW s \in SessionId, Opens(u, p, s)
      PROVE  ReviewIsIndependent'
  BY <1>1, <1>2, <1>4, OpensFields DEF OnlySession
<1>5. ASSUME NEW s \in SessionId, Books(s)
      PROVE  ReviewIsIndependent'
  BY <1>1, <1>2, <1>5, BooksFields DEF OnlySession
<1>6. ASSUME NEW s \in SessionId, NEW counted \in Amount, session[s].state = "open",
             OnlySession(s), RecordDifference(s, counted)
      PROVE  ReviewIsIndependent'
  <2>1. OnlyDifference(s) /\ difference'[s].status # "resolved"
    BY <1>1, <1>6, RecordedFields DEF RowsAreConnected
  <2> QED BY <1>2, <1>6, <2>1 DEF OnlySession, OnlyDifference
<1>7. ASSUME NEW s \in SessionId, NEW counted \in Amount, Ends(s, counted)
      PROVE  ReviewIsIndependent'
  BY <1>1, <1>6, <1>7, CountedFields DEF Ends
<1>8. ASSUME NEW u \in User, NEW v \in User, NEW s \in SessionId, NEW counted \in Amount,
             CloseWithHandover(u, s, counted, v)
      PROVE  ReviewIsIndependent'
  BY <1>1, <1>6, <1>8, CloseWithHandoverFields
<1>9. ASSUME NEW u \in User, NEW h \in HandoverId, NEW counted \in Amount,
             AcceptSessionHandover(u, h, counted)
      PROVE  ReviewIsIndependent'
  <2>1. handover[h].source \in SessionId
    BY <1>1, <1>9 DEF AcceptSessionHandover, Live, RowsAreConnected
  <2> QED BY <1>1, <1>2, <1>9, <2>1, AcceptFields
<1>10. ASSUME NEW u \in User, NEW v \in User, NEW h \in HandoverId,
              DeclineSessionHandover(u, h) \/ RedirectSessionHandover(u, h, v)
       PROVE  ReviewIsIndependent'
  BY <1>1, <1>3, <1>10, DeclineFields, RedirectFields
<1>11. ASSUME NEW u \in User, NEW s \in SessionId,
              NEW type \in {"no_further_action", "accepted_loss", "accepted_surplus"},
              ResolveDifference(u, s, type)
       PROVE  ReviewIsIndependent'
  <2>1. /\ difference[s].status = "pending_review"
        /\ difference'[s].amount = difference[s].amount /\ difference'[s].resolution = type
        /\ difference'[s].resolvedBy = u /\ OnlyDifference(s) /\ session' = session
    BY <1>1, <1>11, ResolveFields
  <2>2. session[s].state = "closed" /\ u # session[s].cashier /\ type \in ApplicableTypes(s)
    BY <1>11 DEF ResolveDifference
  <2>3. u \in Reviewers
    BY <1>1, <1>11 DEF ResolveDifference, Requested, RowsAreConnected
  <2>4. difference[s].amount # 0 /\ difference[s].amount \in Int
    BY <1>1, <2>1, <2>2, ExactSessions DEF Exact, TypeOK, DifferenceRow
  <2>5. /\ type = "accepted_loss" => difference[s].amount < 0
        /\ type = "accepted_surplus" => difference[s].amount > 0
    BY <2>2, <2>4 DEF ApplicableTypes
  <2> QED BY <1>1, <2>1, <2>2, <2>3, <2>5 DEF ReviewIsIndependent, OnlyDifference
<1>12. CASE Quiet
  BY <1>3, <1>12 DEF Quiet
<1> QED BY <1>1, <1>4, <1>5, <1>7, <1>8, <1>9, <1>10, <1>11, <1>12, StepShapes

-----------------------------------------------------------------------------
(* The theorems.                                                           *)

LEMMA StutterIInv == IInv /\ UNCHANGED vars => IInv'
  BY DEF vars, IInv, TypeOK, RowsAreConnected, OneActiveSession, ClosingCashIsOffered,
         OneStandingHandover, ConfirmedOpensOne, RedirectsFormAChain, RefusalIsRespected,
         ReceiverCanAnswer, DifferenceIsExact, ReviewIsIndependent, Active, Live

\* The inductive invariant holds in every reachable state.
THEOREM Inductive == Spec => []IInv
<1>1. ASSUME IInv, Next PROVE IInv'
  BY <1>1, NextTypeOK, NextRowsAreConnected, NextOneActiveSession, NextClosingCashIsOffered,
     NextOneStandingHandover, NextConfirmedOpensOne, NextRedirectsFormAChain,
     NextRefusalIsRespected, NextReceiverCanAnswer, NextDifferenceIsExact,
     NextReviewIsIndependent DEF IInv
<1>2. IInv /\ [Next]_vars => IInv'
  BY <1>1, StutterIInv
<1> QED BY InitIInv, <1>2, PTL DEF Spec

\* The tables keep their types, and an open session never has a negative balance: neither the
\* port nor the legacy commands withdraw what is not in the drawer.
THEOREM TypeCorrect == Spec => []TypeOK
  BY Inductive, PTL DEF IInv

\* Every reference between the tables leads to the row it promises.
THEOREM Connected == Spec => []RowsAreConnected
  BY Inductive, PTL DEF IInv

\* At most one open or closing session per cash point, for any number of cashiers racing to open,
\* close and accept.
THEOREM OneSessionPerPoint == Spec => []OneActiveSession
  BY Inductive, PTL DEF IInv

\* Cash between two cashiers is owed by exactly one pending handover of the counted amount.
THEOREM CashBetweenCashiers == Spec => [](ClosingCashIsOffered /\ OneStandingHandover)
  BY Inductive, PTL DEF IInv

\* An accepted handover opened exactly one session, of its receiver, at the same point.
THEOREM AcceptedOnce == Spec => []ConfirmedOpensOne
  BY Inductive, PTL DEF IInv

\* The redirects of a session form a chain that carries its cash.
THEOREM Chain == Spec => []RedirectsFormAChain
  BY Inductive, PTL DEF IInv

\* A refused handover is never confirmed and only supervision redirects it.
THEOREM Refusal == Spec => []RefusalIsRespected
  BY Inductive, PTL DEF IInv

\* Nobody named in a live handover is disabled, whatever the order of closes, redirects,
\* disablings and enablings.
THEOREM Answerable == Spec => []ReceiverCanAnswer
  BY Inductive, PTL DEF IInv

\* Count, balance and difference row of a finished session agree, before and after its cash left.
THEOREM Exactness == Spec => []DifferenceIsExact
  BY Inductive, PTL DEF IInv

\* A difference is decided by an entitled person who was not its cashier, with the right sign.
THEOREM Independence == Spec => []ReviewIsIndependent
  BY Inductive, PTL DEF IInv

\* Cash between cashiers is owed once, carried by a chain of redirects, and received once.
THEOREM SoundHandovers == Spec => []HandoversAreSound
<1>1. IInv => HandoversAreSound
  BY DEF IInv, HandoversAreSound
<1> QED BY Inductive, <1>1, PTL

\* Differences are exact and independently decided.
THEOREM SoundDifferences == Spec => []DifferencesAreSound
<1>1. IInv => DifferencesAreSound
  BY DEF IInv, DifferencesAreSound
<1> QED BY Inductive, <1>1, PTL

\* Closed sessions, decided handovers and resolved differences never change.
THEOREM Frozen == Spec => HistoryIsFrozen
<1> DEFINE Unchanging ==
      /\ \A s \in SessionId : session[s].state = "closed" => session'[s] = session[s]
      /\ \A h \in HandoverId : handover[h].state \in {"confirmed", "cancelled"} =>
           handover'[h] = handover[h]
      /\ \A s \in SessionId : difference[s].status = "resolved" => difference'[s] = difference[s]
<1>1. ASSUME IInv, Next PROVE Unchanging
  <2>1. TypeOK /\ RowsAreConnected
    BY <1>1 DEF IInv
  <2>2. CASE Quiet
    BY <2>2 DEF Quiet
  <2>3. ASSUME NEW u \in User, NEW p \in CashPoint, NEW s \in SessionId, Opens(u, p, s)
        PROVE  Unchanging
    BY <2>1, <2>3, OpensFields DEF OnlySession
  <2>4. ASSUME NEW s \in SessionId, Books(s)
        PROVE  Unchanging
    BY <2>1, <2>4, BooksFields DEF OnlySession
  <2>5. ASSUME NEW s \in SessionId, NEW counted \in Amount, session[s].state = "open",
               RecordDifference(s, counted)
        PROVE  \A t \in SessionId : difference[t].status = "resolved" => difference'[t] = difference[t]
    <3>1. OnlyDifference(s) /\ difference[s].status # "resolved"
      BY <2>1, <2>5, RecordedFields DEF RowsAreConnected, NoDifference
    <3> QED BY <3>1 DEF OnlyDifference
  <2>6. ASSUME NEW s \in SessionId, NEW counted \in Amount, Ends(s, counted)
        PROVE  Unchanging
    BY <2>1, <2>5, <2>6, CountedFields DEF Ends, OnlySession
  <2>7. ASSUME NEW u \in User, NEW v \in User, NEW s \in SessionId, NEW counted \in Amount,
               CloseWithHandover(u, s, counted, v)
        PROVE  Unchanging
    BY <2>1, <2>5, <2>7, CloseWithHandoverFields DEF OnlySession, OnlyHandover
  <2>8. ASSUME NEW u \in User, NEW h \in HandoverId, NEW counted \in Amount,
               AcceptSessionHandover(u, h, counted)
        PROVE  Unchanging
    <3>1. handover[h].source \in SessionId /\ handover[h].state = "pending"
      BY <2>1, <2>8 DEF AcceptSessionHandover, Live, RowsAreConnected
    <3> QED BY <2>1, <2>8, <3>1, AcceptFields DEF OnlyHandover
  <2>9. ASSUME NEW u \in User, NEW h \in HandoverId, DeclineSessionHandover(u, h)
        PROVE  Unchanging
    BY <2>1, <2>9, DeclineFields DEF OnlyHandover
  <2>10. ASSUME NEW u \in User, NEW v \in User, NEW h \in HandoverId,
                RedirectSessionHandover(u, h, v)
         PROVE  Unchanging
    BY <2>1, <2>10, RedirectFields
  <2>11. ASSUME NEW u \in User, NEW s \in SessionId,
                NEW type \in {"no_further_action", "accepted_loss", "accepted_surplus"},
                ResolveDifference(u, s, type)
         PROVE  Unchanging
    BY <2>1, <2>11, ResolveFields DEF OnlyDifference
  <2> QED BY <1>1, <2>1, <2>2, <2>3, <2>4, <2>6, <2>7, <2>8, <2>9, <2>10, <2>11, StepShapes
<1>2. IInv /\ [Next]_vars => [Unchanging]_vars
  BY <1>1
<1> QED BY Inductive, <1>2, PTL DEF Spec, HistoryIsFrozen

-----------------------------------------------------------------------------
(* Sessions and handovers implement the custody of CashCustody.            *)

Counting(row) == row.state \in {"open", "closing"}

\* What the custody shows of the sessions in a table of rows: of a point with a counting session its
\* cashier, whether it closes and what it answers for; of any other point nothing.
Shows(kept, offered, cash, rows) ==
  /\ kept = [p \in CashPoint |-> kept[p]] /\ cash = [p \in CashPoint |-> cash[p]]
  /\ offered \subseteq CashPoint
  /\ \A p \in CashPoint, s \in SessionId :
       Counting(rows[s]) /\ rows[s].point = p =>
         /\ kept[p] = rows[s].cashier
         /\ p \in offered <=> rows[s].state = "closing"
         /\ cash[p] = IF rows[s].state = "closing" THEN rows[s].counted ELSE rows[s].balance
  /\ \A p \in CashPoint :
       (\A s \in SessionId : Counting(rows[s]) => rows[s].point # p) =>
         kept[p] = None /\ p \notin offered /\ cash[p] = 0

OneCounts(rows) ==
  \A s, t \in SessionId :
    Counting(rows[s]) /\ Counting(rows[t]) /\ rows[s].point = rows[t].point => s = t

\* The session the mapping chooses is the one there is.
LEMMA ChosenSession ==
  ASSUME NEW rows, OneCounts(rows), NEW p, NEW s \in SessionId, Counting(rows[s]), rows[s].point = p
  PROVE  (CHOOSE t \in SessionId : rows[t].point = p /\ rows[t].state \in {"open", "closing"}) = s
BY DEF OneCounts, Counting

LEMMA ShownNow ==
  ASSUME OneActiveSession
  PROVE  OneCounts(session) /\ Shows(KeeperOf, OfferedPoints, CashAt, session)
<1>1. OneCounts(session)
  BY DEF OneActiveSession, OneCounts, Counting
<1>2. ASSUME NEW p \in CashPoint, NEW s \in SessionId, Counting(session[s]), session[s].point = p
      PROVE  /\ KeeperOf[p] = session[s].cashier
             /\ p \in OfferedPoints <=> session[s].state = "closing"
             /\ CashAt[p] = IF session[s].state = "closing" THEN session[s].counted ELSE session[s].balance
  <2>1. Kept(p) /\ SessionAt(p) = s
    BY <1>1, <1>2, ChosenSession DEF Kept, SessionAt, Active, Counting
  <2> QED BY <2>1 DEF KeeperOf, OfferedPoints, CashAt
<1>3. ASSUME NEW p \in CashPoint, \A s \in SessionId : Counting(session[s]) => session[s].point # p
      PROVE  KeeperOf[p] = None /\ p \notin OfferedPoints /\ CashAt[p] = 0
  BY <1>3 DEF Kept, Active, Counting, KeeperOf, OfferedPoints, CashAt
<1>4. /\ KeeperOf = [p \in CashPoint |-> KeeperOf[p]] /\ CashAt = [p \in CashPoint |-> CashAt[p]]
      /\ OfferedPoints \subseteq CashPoint
  BY DEF KeeperOf, CashAt, OfferedPoints
<1> QED BY <1>1, <1>2, <1>3, <1>4 DEF Shows

LEMMA ShownNext ==
  ASSUME OneActiveSession'
  PROVE  OneCounts(session') /\ Shows(KeeperOf', OfferedPoints', CashAt', session')
<1>1. OneCounts(session')
  BY DEF OneActiveSession, OneCounts, Counting
<1>2. ASSUME NEW p \in CashPoint, NEW s \in SessionId, Counting(session'[s]), session'[s].point = p
      PROVE  /\ KeeperOf'[p] = session'[s].cashier
             /\ p \in OfferedPoints' <=> session'[s].state = "closing"
             /\ CashAt'[p] = IF session'[s].state = "closing" THEN session'[s].counted
                             ELSE session'[s].balance
  <2>1. Kept(p)' /\ SessionAt(p)' = s
    BY <1>1, <1>2, ChosenSession DEF Kept, SessionAt, Active, Counting
  <2> QED BY <2>1 DEF KeeperOf, OfferedPoints, CashAt
<1>3. ASSUME NEW p \in CashPoint, \A s \in SessionId : Counting(session'[s]) => session'[s].point # p
      PROVE  KeeperOf'[p] = None /\ p \notin OfferedPoints' /\ CashAt'[p] = 0
  BY <1>3 DEF Kept, Active, Counting, KeeperOf, OfferedPoints, CashAt
<1>4. /\ KeeperOf' = [p \in CashPoint |-> KeeperOf'[p]] /\ CashAt' = [p \in CashPoint |-> CashAt'[p]]
      /\ OfferedPoints' \subseteq CashPoint
  BY DEF KeeperOf, CashAt, OfferedPoints
<1> QED BY <1>1, <1>2, <1>3, <1>4 DEF Shows

\* Where no row changed but such as counted, if at all, at one point, the rest of the custody stays.
LEMMA OnlyThatPoint ==
  ASSUME NEW rows, NEW rows2, NEW k, NEW k2, NEW o, NEW o2, NEW c, NEW c2,
         Shows(k, o, c, rows), Shows(k2, o2, c2, rows2), NEW p \in CashPoint,
         \A s \in SessionId :
           \/ rows2[s] = rows[s]
           \/ (Counting(rows[s]) => rows[s].point = p) /\ (Counting(rows2[s]) => rows2[s].point = p)
  PROVE  /\ k2 = [k EXCEPT ![p] = k2[p]] /\ c2 = [c EXCEPT ![p] = c2[p]]
         /\ o2 \ {p} = o \ {p}
<1>1. ASSUME NEW q \in CashPoint \ {p}
      PROVE  k2[q] = k[q] /\ c2[q] = c[q] /\ (q \in o2 <=> q \in o)
  <2>1. CASE \E s \in SessionId : Counting(rows[s]) /\ rows[s].point = q
    <3>1. PICK s \in SessionId : Counting(rows[s]) /\ rows[s].point = q
      BY <2>1
    <3>2. rows2[s] = rows[s]
      BY <1>1, <3>1
    <3> QED BY <1>1, <3>1, <3>2 DEF Shows
  <2>2. CASE ~\E s \in SessionId : Counting(rows[s]) /\ rows[s].point = q
    <3>1. \A s \in SessionId : Counting(rows2[s]) => rows2[s].point # q
      BY <1>1, <2>2
    <3> QED BY <1>1, <2>2, <3>1 DEF Shows
  <2> QED BY <2>1, <2>2
<1>2. k = [q \in CashPoint |-> k[q]] /\ k2 = [q \in CashPoint |-> k2[q]]
      /\ c = [q \in CashPoint |-> c[q]] /\ c2 = [q \in CashPoint |-> c2[q]]
      /\ o \subseteq CashPoint /\ o2 \subseteq CashPoint
  BY DEF Shows
<1>3. k2 = [k EXCEPT ![p] = k2[p]]
  BY <1>1, <1>2
<1>4. c2 = [c EXCEPT ![p] = c2[p]]
  BY <1>1, <1>2
<1> QED BY <1>1, <1>2, <1>3, <1>4

\* A step changes what the custody shows of the point of the session it changes, at most.
LEMMA CustodyElsewhere ==
  ASSUME OneActiveSession, OneActiveSession', NEW p \in CashPoint,
         \A s \in SessionId :
           \/ session'[s] = session[s]
           \/ /\ Counting(session[s]) => session[s].point = p
              /\ Counting(session'[s]) => session'[s].point = p
  PROVE  /\ KeeperOf' = [KeeperOf EXCEPT ![p] = KeeperOf'[p]] /\ CashAt' = [CashAt EXCEPT ![p] = CashAt'[p]]
         /\ OfferedPoints' \ {p} = OfferedPoints \ {p}
<1>1. Shows(KeeperOf, OfferedPoints, CashAt, session) /\ Shows(KeeperOf', OfferedPoints', CashAt', session')
  BY ShownNow, ShownNext
<1> DEFINE k == KeeperOf
           k2 == KeeperOf'
           c == CashAt
           c2 == CashAt'
           o == OfferedPoints
           o2 == OfferedPoints'
           rows == session
           rows2 == session'
<1>2. /\ Shows(k, o, c, rows) /\ Shows(k2, o2, c2, rows2)
      /\ \A s \in SessionId :
           \/ rows2[s] = rows[s]
           \/ (Counting(rows[s]) => rows[s].point = p) /\ (Counting(rows2[s]) => rows2[s].point = p)
  BY <1>1
<1> HIDE DEF k, k2, c, c2, o, o2, rows, rows2
<1>3. /\ k2 = [k EXCEPT ![p] = k2[p]] /\ c2 = [c EXCEPT ![p] = c2[p]]
      /\ o2 \ {p} = o \ {p}
  BY <1>2, OnlyThatPoint
<1> QED BY <1>3 DEF k, k2, c, c2, o, o2

\* What it shows of one session that counts: the two clauses of Shows, at a step.
LEMMA ShownAt ==
  ASSUME OneActiveSession, NEW s \in SessionId, session[s].point \in CashPoint, Counting(session[s])
  PROVE  LET p == session[s].point IN
         /\ KeeperOf[p] = session[s].cashier
         /\ p \in OfferedPoints <=> session[s].state = "closing"
         /\ CashAt[p] = IF session[s].state = "closing" THEN session[s].counted ELSE session[s].balance
BY ShownNow DEF Shows

LEMMA ShownAtNext ==
  ASSUME OneActiveSession', NEW s \in SessionId, session'[s].point \in CashPoint, Counting(session'[s])
  PROVE  LET p == session'[s].point IN
         /\ KeeperOf'[p] = session'[s].cashier
         /\ p \in OfferedPoints' <=> session'[s].state = "closing"
         /\ CashAt'[p] = IF session'[s].state = "closing" THEN session'[s].counted ELSE session'[s].balance
BY ShownNext DEF Shows

LEMMA CustodyStays ==
  ASSUME UNCHANGED session
  PROVE  UNCHANGED Custody!vars
BY DEF Custody!vars, KeeperOf, OfferedPoints, CashAt, Kept, SessionAt, Active

LEMMA NoneIsNobody ==
  ASSUME IInv, NEW s \in SessionId, session[s].state # "none"
  PROVE  /\ session[s].point \in CashPoint /\ session[s].cashier \in User
         /\ session[s].cashier # None
BY NoneAssumption DEF IInv, RowsAreConnected

\* An opening takes a point nobody keeps.
LEMMA CustodyByOpening ==
  ASSUME IInv, IInv', NEW u \in User, NEW p \in CashPoint, NEW s \in SessionId, Opens(u, p, s)
  PROVE  Custody!Take(p, u)
<1>1. TypeOK /\ OneActiveSession /\ OneActiveSession' /\ TypeOK'
  BY DEF IInv
<1>2. /\ session[s].state = "none" /\ session'[s].state = "open"
      /\ session'[s].point = p /\ session'[s].cashier = u /\ OnlySession(s)
      /\ \A t \in SessionId : session[t].point = p => ~Active(t)
  BY <1>1, OpensFields
<1>3. /\ KeeperOf' = [KeeperOf EXCEPT ![p] = KeeperOf'[p]] /\ CashAt' = [CashAt EXCEPT ![p] = CashAt'[p]]
      /\ OfferedPoints' \ {p} = OfferedPoints \ {p}
  BY <1>1, <1>2, CustodyElsewhere DEF OnlySession, Counting
<1>4. KeeperOf[p] = None /\ p \notin OfferedPoints
  BY <1>1, <1>2, ShownNow DEF Shows, Counting, Active
<1>5. KeeperOf'[p] = u /\ p \notin OfferedPoints' /\ CashAt'[p] = session'[s].balance
  BY <1>1, <1>2, ShownAtNext DEF Counting
<1>6. session'[s].balance \in Nat
  BY <1>1, <1>2 DEF TypeOK, SessionRow
<1>7. OfferedPoints' = OfferedPoints
  BY <1>3, <1>4, <1>5
<1> QED BY <1>3, <1>4, <1>5, <1>6, <1>7 DEF Custody!Take, Custody!Recount

\* A movement moves the cash of a point that is not on offer.
LEMMA CustodyByBooking ==
  ASSUME IInv, IInv', NEW s \in SessionId, Books(s)
  PROVE  Custody!Move(session[s].point)
<1> DEFINE p == session[s].point
<1>1. TypeOK /\ OneActiveSession /\ OneActiveSession' /\ TypeOK'
  BY DEF IInv
<1>2. /\ session[s].state = "open" /\ session'[s].state = "open"
      /\ session'[s].point = p /\ session'[s].cashier = session[s].cashier /\ OnlySession(s)
  BY <1>1, BooksFields DEF SameBirth
<1>3. p \in CashPoint /\ session[s].cashier # None
  BY <1>2, NoneIsNobody
<1> HIDE DEF p
<1>4. /\ KeeperOf' = [KeeperOf EXCEPT ![p] = KeeperOf'[p]] /\ CashAt' = [CashAt EXCEPT ![p] = CashAt'[p]]
      /\ OfferedPoints' \ {p} = OfferedPoints \ {p}
  BY <1>1, <1>2, <1>3, CustodyElsewhere DEF OnlySession, p
<1>5. KeeperOf[p] = session[s].cashier /\ p \notin OfferedPoints
  BY <1>1, <1>2, <1>3, ShownAt DEF Counting, p
<1>6. KeeperOf'[p] = session[s].cashier /\ p \notin OfferedPoints' /\ CashAt'[p] = session'[s].balance
  BY <1>1, <1>2, <1>3, ShownAtNext DEF Counting
<1>7. session'[s].balance \in Nat
  BY <1>1, <1>2 DEF TypeOK, SessionRow
<1>8. KeeperOf = [q \in CashPoint |-> KeeperOf[q]]
  BY DEF KeeperOf
<1>9. KeeperOf' = KeeperOf /\ OfferedPoints' = OfferedPoints
  BY <1>3, <1>4, <1>5, <1>6, <1>8
<1>10. Custody!Move(p)
  BY <1>3, <1>4, <1>5, <1>6, <1>7, <1>9 DEF Custody!Move, Custody!Recount
<1> QED BY <1>10 DEF p

\* A close that offers the counted cash keeps the keeper.
LEMMA CustodyByOffer ==
  ASSUME IInv, IInv', NEW u \in User, NEW v \in User, NEW s \in SessionId, NEW counted \in Amount,
         CloseWithHandover(u, s, counted, v)
  PROVE  Custody!Offer(session[s].point)
<1> DEFINE p == session[s].point
<1>1. TypeOK /\ OneActiveSession /\ OneActiveSession' /\ TypeOK'
  BY DEF IInv
<1>2. /\ session[s].state = "open" /\ session'[s].state = "closing" /\ session'[s].counted = counted
      /\ session'[s].point = p /\ session'[s].cashier = session[s].cashier /\ OnlySession(s)
      /\ counted > 0 /\ counted \in Nat
  BY <1>1, CloseWithHandoverFields, AmountIsNat DEF SameBirth
<1>3. p \in CashPoint /\ session[s].cashier # None
  BY <1>2, NoneIsNobody
<1> HIDE DEF p
<1>4. /\ KeeperOf' = [KeeperOf EXCEPT ![p] = KeeperOf'[p]] /\ CashAt' = [CashAt EXCEPT ![p] = CashAt'[p]]
      /\ OfferedPoints' \ {p} = OfferedPoints \ {p}
  BY <1>1, <1>2, <1>3, CustodyElsewhere DEF OnlySession, p
<1>5. KeeperOf[p] = session[s].cashier /\ p \notin OfferedPoints
  BY <1>1, <1>2, <1>3, ShownAt DEF Counting, p
<1>6. KeeperOf'[p] = session[s].cashier /\ p \in OfferedPoints' /\ CashAt'[p] = counted
  BY <1>1, <1>2, <1>3, ShownAtNext DEF Counting
<1>7. KeeperOf = [q \in CashPoint |-> KeeperOf[q]]
  BY DEF KeeperOf
<1>8. KeeperOf' = KeeperOf /\ OfferedPoints' = OfferedPoints \cup {p}
  BY <1>3, <1>4, <1>5, <1>6, <1>7
<1>9. Custody!Offer(p)
  BY <1>2, <1>3, <1>4, <1>5, <1>6, <1>8 DEF Custody!Offer, Custody!Recount
<1> QED BY <1>9 DEF p

\* A close without a handover leaves the point to nobody.
LEMMA CustodyByEnd ==
  ASSUME IInv, IInv', NEW s \in SessionId, NEW counted \in Amount, Ends(s, counted)
  PROVE  Custody!Leave(session[s].point)
<1> DEFINE p == session[s].point
<1>1. TypeOK /\ OneActiveSession /\ OneActiveSession' /\ TypeOK'
  BY DEF IInv
<1>2. session[s].state = "open" /\ session'[s].state = "closed" /\ OnlySession(s)
  BY <1>1, CountedFields DEF Ends
<1>3. p \in CashPoint /\ session[s].cashier # None
  BY <1>2, NoneIsNobody
<1> HIDE DEF p
<1>4. /\ KeeperOf' = [KeeperOf EXCEPT ![p] = KeeperOf'[p]] /\ CashAt' = [CashAt EXCEPT ![p] = CashAt'[p]]
      /\ OfferedPoints' \ {p} = OfferedPoints \ {p}
  BY <1>1, <1>2, <1>3, CustodyElsewhere DEF OnlySession, Counting, p
<1>5. KeeperOf[p] = session[s].cashier /\ p \notin OfferedPoints
  BY <1>1, <1>2, <1>3, ShownAt DEF Counting, p
<1>6. \A t \in SessionId : Counting(session'[t]) => session'[t].point # p
  <2> SUFFICES ASSUME NEW t \in SessionId, Counting(session'[t]), session'[t].point = p
               PROVE  FALSE
    OBVIOUS
  <2>1. t # s
    BY <1>2 DEF Counting
  <2>2. session'[t] = session[t]
    BY <1>2, <2>1 DEF OnlySession
  <2> QED BY <1>1, <1>2, <2>1, <2>2 DEF OneActiveSession, Counting, p
<1>7. KeeperOf'[p] = None /\ p \notin OfferedPoints' /\ CashAt'[p] = 0
  BY <1>1, <1>3, <1>6, ShownNext DEF Shows
<1>8. OfferedPoints' = OfferedPoints
  BY <1>4, <1>5, <1>7
<1>9. Custody!Leave(p)
  BY <1>3, <1>4, <1>5, <1>7, <1>8 DEF Custody!Leave
<1> QED BY <1>9 DEF p

\* An acceptance passes what was offered, whole, to somebody else.
LEMMA CustodyByAcceptance ==
  ASSUME IInv, IInv', NEW u \in User, NEW h \in HandoverId, NEW counted \in Amount,
         AcceptSessionHandover(u, h, counted)
  PROVE  Custody!Pass(session[handover[h].source].point, u)
<1> DEFINE s == handover[h].source
           p == session[s].point
<1>1. TypeOK /\ OneActiveSession /\ OneActiveSession' /\ TypeOK'
  BY DEF IInv
<1>2. handover[h].state = "pending" /\ u # handover[h].maker
  BY DEF AcceptSessionHandover, Live
<1>3. /\ s \in SessionId /\ session[s].state = "closing" /\ handover[h].amount = session[s].counted
      /\ handover[h].maker = session[s].cashier
  BY <1>2 DEF IInv, ClosingCashIsOffered
<1>4. p \in CashPoint
  BY <1>3, NoneIsNobody
<1>5. PICK n \in SessionId :
        /\ session[n].state = "none"
        /\ session' = [session EXCEPT ![s] = HandedOver(s, handover[h].amount), ![n] = Received(u, h)]
  BY DEF AcceptSessionHandover
<1>6. /\ session'[n] = Received(u, h) /\ session'[s] = HandedOver(s, handover[h].amount)
      /\ \A t \in SessionId \ {s, n} : session'[t] = session[t]
  BY <1>1, <1>3, <1>5 DEF TypeOK
<1>7. /\ session'[n].state = "open" /\ session'[n].cashier = u /\ session'[n].point = p
      /\ session'[n].balance = handover[h].amount
  BY <1>6 DEF Received, Opened
<1>8. session'[s].state = "closed"
  BY <1>1, <1>3, <1>6, SessionRowOK DEF HandedOver, SessionRow
<1> HIDE DEF s, p
<1>9. \A t \in SessionId :
        \/ session'[t] = session[t]
        \/ /\ Counting(session[t]) => session[t].point = p
           /\ Counting(session'[t]) => session'[t].point = p
  BY <1>5, <1>6, <1>7, <1>8 DEF Counting, p
<1>10. /\ KeeperOf' = [KeeperOf EXCEPT ![p] = KeeperOf'[p]] /\ CashAt' = [CashAt EXCEPT ![p] = CashAt'[p]]
       /\ OfferedPoints' \ {p} = OfferedPoints \ {p}
  BY <1>1, <1>4, <1>9, CustodyElsewhere
<1>11. KeeperOf[p] = session[s].cashier /\ p \in OfferedPoints /\ CashAt[p] = session[s].counted
  BY <1>1, <1>3, <1>4, ShownAt DEF Counting, p
<1>12. KeeperOf'[p] = u /\ p \notin OfferedPoints' /\ CashAt'[p] = handover[h].amount
  BY <1>1, <1>4, <1>7, ShownAtNext DEF Counting
<1>13. CashAt = [q \in CashPoint |-> CashAt[q]]
  BY DEF CashAt
<1>14. CashAt' = CashAt /\ OfferedPoints' = OfferedPoints \ {p}
  BY <1>3, <1>4, <1>10, <1>11, <1>12, <1>13
<1>15. Custody!Pass(p, u)
  BY <1>2, <1>3, <1>10, <1>11, <1>12, <1>14 DEF Custody!Pass
<1> QED BY <1>15 DEF p, s

LEMMA CustodySteps ==
  ASSUME IInv, IInv', [Next]_vars
  PROVE  [Custody!Next]_(Custody!vars)
<1>1. TypeOK
  BY DEF IInv
<1>2. CASE UNCHANGED session
  BY <1>2, CustodyStays
<1>3. CASE UNCHANGED vars
  BY <1>2, <1>3 DEF vars
<1>4. ASSUME NEW u \in User, NEW p \in CashPoint, NEW s \in SessionId, Opens(u, p, s)
      PROVE  Custody!Next
  BY <1>4, CustodyByOpening DEF Custody!Next
<1>5. ASSUME NEW s \in SessionId, Books(s)
      PROVE  Custody!Next
  <2>1. session[s].point \in CashPoint
    BY <1>5, NoneIsNobody DEF Books
  <2> QED BY <1>5, <2>1, CustodyByBooking DEF Custody!Next
<1>6. ASSUME NEW s \in SessionId, NEW counted \in Amount, Ends(s, counted)
      PROVE  Custody!Next
  <2>1. session[s].point \in CashPoint
    BY <1>6, NoneIsNobody DEF Ends
  <2> QED BY <1>6, <2>1, CustodyByEnd DEF Custody!Next
<1>7. ASSUME NEW u \in User, NEW v \in User, NEW s \in SessionId, NEW counted \in Amount,
             CloseWithHandover(u, s, counted, v)
      PROVE  Custody!Next
  <2>1. session[s].point \in CashPoint
    BY <1>7, NoneIsNobody DEF CloseWithHandover, MayHandOn
  <2> QED BY <1>7, <2>1, CustodyByOffer DEF Custody!Next
<1>8. ASSUME NEW u \in User, NEW h \in HandoverId, NEW counted \in Amount,
             AcceptSessionHandover(u, h, counted)
      PROVE  Custody!Next
  <2> DEFINE s == handover[h].source
  <2>1. s \in SessionId /\ session[s].state = "closing"
    BY <1>8 DEF AcceptSessionHandover, Live, IInv, ClosingCashIsOffered
  <2>2. session[s].point \in CashPoint
    BY <2>1, NoneIsNobody
  <2> QED BY <1>8, <2>2, CustodyByAcceptance DEF Custody!Next
<1>9. ASSUME \/ Quiet
             \/ \E u \in User, h \in HandoverId : DeclineSessionHandover(u, h)
             \/ \E u, v \in User, h \in HandoverId : RedirectSessionHandover(u, h, v)
             \/ \E u \in User, s \in SessionId,
                   type \in {"no_further_action", "accepted_loss", "accepted_surplus"} :
                  ResolveDifference(u, s, type)
      PROVE  UNCHANGED session
  BY <1>9 DEF Quiet, DeclineSessionHandover, RedirectSessionHandover, ResolveDifference
<1>10. CASE Next
  BY <1>1, <1>2, <1>4, <1>5, <1>6, <1>7, <1>8, <1>9, <1>10, StepShapes
<1> QED BY <1>3, <1>10

LEMMA CustodyBegins == Init => Custody!Init
<1> SUFFICES ASSUME Init PROVE Custody!Init
  OBVIOUS
<1>1. \A s \in SessionId : ~Active(s)
  BY DEF Init, Active, NoSession
<1>2. \A p \in CashPoint : ~Kept(p)
  BY <1>1 DEF Kept
<1> QED BY <1>2 DEF Custody!Init, KeeperOf, OfferedPoints, CashAt

\* Sessions, handovers and reviews implement the custody: whatever cashiers, supervisors and the
\* neighbours of the module do in whatever order, the cash at a point has one keeper or none, and what
\* a close puts on offer waits unchanged until it passes, whole, to another keeper.
THEOREM CustodyImplemented == Spec => CustodyIsKept
<1>1. Init => Custody!Init
  BY CustodyBegins
<1>2. IInv /\ IInv' /\ [Next]_vars => [Custody!Next]_(Custody!vars)
  BY CustodySteps
<1> QED BY <1>1, <1>2, Inductive, PTL DEF Spec, CustodyIsKept, Custody!Spec

-----------------------------------------------------------------------------
(* The triggers under the tables.                                          *)

\* The rows as a commit leaves them pass the deferred checks, as far as these are about one moment.
LEMMA OfferedAtCommit ==
  ASSUME IInv', NEW s \in SessionId, session'[s].state = "closing"
  PROVE  \E h \in HandoverId :
           /\ {g \in HandoverId : handover'[g].source = s /\ handover'[g].state = "pending"} = {h}
           /\ handover'[h].amount = session'[s].counted
<1>1. PICK h \in HandoverId : handover'[h].state = "pending" /\ handover'[h].source = s
  BY DEF IInv, ClosingCashIsOffered
<1>2. \A g \in HandoverId : handover'[g].state = "pending" /\ handover'[g].source = s => g = h
  BY <1>1 DEF IInv, OneStandingHandover
<1>3. handover'[h].amount = session'[s].counted
  BY <1>1 DEF IInv, ClosingCashIsOffered
<1> QED BY <1>1, <1>2, <1>3

LEMMA HandoversAtCommit ==
  ASSUME IInv', NEW h \in HandoverId
  PROVE  HandoverConsistencyCheck(h)
<1>1. ASSUME handover'[h].state = "cancelled"
      PROVE  /\ handover'[h].replacement \notin {None, h}
             /\ handover'[handover'[h].replacement].source = handover'[h].source
             /\ handover'[handover'[h].replacement].amount = handover'[h].amount
  BY <1>1, NoneAssumption DEF IInv, RedirectsFormAChain
<1>2. ASSUME handover'[h].state = "confirmed"
      PROVE  /\ session'[handover'[h].source].state = "closed"
             /\ Cardinality({n \in SessionId : session'[n].from = h /\ session'[n].cashier = handover'[h].to
                                               /\ session'[n].point = session'[handover'[h].source].point}) = 1
  <2> DEFINE S == {n \in SessionId : session'[n].from = h /\ session'[n].cashier = handover'[h].to
                                     /\ session'[n].point = session'[handover'[h].source].point}
  <2>1. PICK n \in SessionId :
          /\ session'[n].from = h /\ session'[n].cashier = handover'[h].to
          /\ session'[n].point = session'[handover'[h].source].point
          /\ session'[handover'[h].source].state = "closed"
    BY <1>2 DEF IInv, ConfirmedOpensOne
  <2>2. h # None
    BY NoneAssumption
  <2>3. \A m \in SessionId : session'[m].from = h => m = n
    BY <2>1, <2>2 DEF IInv, ConfirmedOpensOne
  <2>4. S = {n}
    BY <2>1, <2>3
  <2> HIDE DEF S
  <2>5. Cardinality(S) = 1
    BY <2>4, FS_Singleton
  <2> QED BY <2>1, <2>5 DEF S
<1> QED BY <1>1, <1>2 DEF HandoverConsistencyCheck

\* While a session closes, its difference says whether the count and the balance agree.
LEMMA ReviewedWhileClosing ==
  ASSUME IInv, NEW s \in SessionId, session[s].state = "closing"
  PROVE  difference[s].status = "none" => session[s].counted = session[s].balance
<1>1. PICK h \in HandoverId : handover[h].state = "pending" /\ handover[h].source = s
  BY DEF IInv, ClosingCashIsOffered
<1>2. ~ \E g \in HandoverId : handover[g].source = s /\ handover[g].state = "confirmed"
  BY <1>1 DEF IInv, OneStandingHandover
<1>3. /\ difference[s].amount = session[s].counted - session[s].balance
      /\ (difference[s].status = "none") <=> (difference[s].amount = 0)
  BY <1>2 DEF IInv, DifferenceIsExact
<1>4. session[s].counted \in Int /\ session[s].balance \in Int
  BY SessionRowOK DEF IInv
<1> QED BY <1>3, <1>4

\* What the two halves of SessionConsistencyCheck need of a step.
LEMMA SessionsAtCommit ==
  ASSUME IInv', NEW s \in SessionId,
         session[s].state \in {"open", "closing"} /\ session'[s].state \in {"closing", "closed"} =>
           (session'[s].counted # session[s].balance => difference'[s].status # "none")
  PROVE  SessionConsistencyCheck(s)
BY OfferedAtCommit DEF SessionConsistencyCheck

-----------------------------------------------------------------------------
(* A handover that nobody replaced names no replacement.                    *)

NotReplaced ==
  \A h \in HandoverId : handover[h].state # "cancelled" =>
    handover[h].replacement = None /\ handover[h].redirectedBy = None

LEMMA NotReplacedInitially == Init => NotReplaced
BY DEF Init, NotReplaced, NoHandover

LEMMA NotReplacedPreserved ==
  ASSUME IInv, NotReplaced, [Next]_vars
  PROVE  NotReplaced'
<1>1. TypeOK /\ RowsAreConnected
  BY DEF IInv
<1>2. handover' = handover => NotReplaced'
  BY DEF NotReplaced
<1>3. ASSUME NEW u \in User, NEW v \in User, NEW s \in SessionId, NEW counted \in Amount,
             CloseWithHandover(u, s, counted, v)
      PROVE  NotReplaced'
  BY <1>1, <1>3, CloseWithHandoverFields, OfferedFields DEF NotReplaced, OnlyHandover
<1>4. ASSUME NEW u \in User, NEW h \in HandoverId, NEW counted \in Amount,
             AcceptSessionHandover(u, h, counted)
      PROVE  NotReplaced'
  <2>1. handover'[h] = [handover[h] EXCEPT !.state = "confirmed"] /\ OnlyHandover(h)
    BY <1>1, <1>4 DEF AcceptSessionHandover, TypeOK, OnlyHandover
  <2>2. handover[h].state = "pending" /\ handover[h] \in HandoverRow
    BY <1>1, <1>4, HandoverRowOK DEF AcceptSessionHandover, Live
  <2>3. handover'[h].replacement = handover[h].replacement
        /\ handover'[h].redirectedBy = handover[h].redirectedBy
    BY <2>1, <2>2 DEF HandoverRow
  <2> QED BY <2>1, <2>2, <2>3 DEF NotReplaced, OnlyHandover
<1>5. ASSUME NEW u \in User, NEW h \in HandoverId, DeclineSessionHandover(u, h)
      PROVE  NotReplaced'
  <2>1. handover'[h] = [handover[h] EXCEPT !.declined = TRUE] /\ OnlyHandover(h)
    BY <1>1, <1>5 DEF DeclineSessionHandover, TypeOK, OnlyHandover
  <2>2. handover[h].state = "pending" /\ handover[h] \in HandoverRow
    BY <1>1, <1>5, HandoverRowOK DEF DeclineSessionHandover, Live
  <2>3. handover'[h].replacement = handover[h].replacement
        /\ handover'[h].redirectedBy = handover[h].redirectedBy
    BY <2>1, <2>2 DEF HandoverRow
  <2> QED BY <2>1, <2>2, <2>3 DEF NotReplaced, OnlyHandover
<1>6. ASSUME NEW u \in User, NEW v \in User, NEW h \in HandoverId, RedirectSessionHandover(u, h, v)
      PROVE  NotReplaced'
  <2>1. handover'[h].state = "cancelled" /\ handover[h].source \in SessionId
        /\ handover[h].amount \in Amount
    BY <1>1, <1>6, RedirectFields, HandoverRowOK DEF RowsAreConnected, HandoverRow
  <2>2. PICK r \in HandoverId \ {h} :
          /\ handover'[r] = Offered(handover[h].source, v, handover[h].amount)
          /\ \A g \in HandoverId \ {h, r} : handover'[g] = handover[g]
    BY <1>1, <1>6, RedirectFields
  <2>3. handover'[r].replacement = None /\ handover'[r].redirectedBy = None
    BY <2>1, <2>2, OfferedFields
  <2> QED BY <2>1, <2>2, <2>3 DEF NotReplaced
<1>7. ASSUME Next PROVE NotReplaced'
  BY <1>1, <1>2, <1>3, <1>4, <1>5, <1>6, <1>7, StepShapes
     DEF Quiet, Opens, Books, Ends, ResolveDifference
<1> QED BY <1>2, <1>7 DEF vars

-----------------------------------------------------------------------------
(* What the checks ask of a step, by table.                                *)

SessionAdmitted(s) ==
  /\ Inserted(session, s) => SessionInsertCheck(s)
  /\ Updated(session, s) => SessionUpdateCheck(s) /\ MovementInsertCheck(s)
  /\ session'[s] # session[s] => SessionConsistencyCheck(s)
DifferenceAdmitted(s) ==
  difference[s].status # "none" /\ difference'[s] # difference[s] =>
    DifferenceUpdateCheck(s) /\ ResolutionInsertCheck(s)
HandoverAdmitted(h) ==
  /\ Inserted(handover, h) => HandoverInsertCheck(h)
  /\ Updated(handover, h) => HandoverUpdateCheck(h)
  /\ handover'[h] # handover[h] =>
       HandoverConsistencyCheck(h) /\ SessionConsistencyCheck(handover'[h].source)
Admitted ==
  /\ \A s \in SessionId : SessionAdmitted(s) /\ DifferenceAdmitted(s)
  /\ \A h \in HandoverId : HandoverAdmitted(h)

\* What did not change meets no trigger.
LEMMA AdmittedUnchanged ==
  /\ \A s \in SessionId : session'[s] = session[s] => SessionAdmitted(s)
  /\ \A s \in SessionId : difference'[s] = difference[s] => DifferenceAdmitted(s)
  /\ \A h \in HandoverId : handover'[h] = handover[h] => HandoverAdmitted(h)
BY DEF SessionAdmitted, DifferenceAdmitted, HandoverAdmitted, Inserted, Updated

LEMMA AdmittedOpening ==
  ASSUME IInv, IInv', NEW u \in User, NEW p \in CashPoint, NEW s \in SessionId, Opens(u, p, s)
  PROVE  Admitted
<1>1. PICK source \in {"zero", "initial"}, fund \in Amount :
        session' = [session EXCEPT ![s] = Opened(u, p, source, None, fund)]
        /\ (source = "zero" => fund = 0)
  BY DEF Opens
<1>2. /\ session'[s].state = "open" /\ session'[s].point = p /\ session'[s].source = source
      /\ session'[s].from = None /\ session'[s].balance = fund /\ session'[s].counted = 0
  BY <1>1 DEF Opened, IInv, TypeOK
<1>3. session[s].state = "none" /\ point[p] = "active" /\ OnlySession(s)
      /\ handover' = handover /\ difference' = difference
  <2>1. session[s].state = "none" /\ OnlySession(s) /\ handover' = handover /\ difference' = difference
    BY OpensFields DEF IInv
  <2> QED BY <2>1 DEF Opens
<1>4. SessionInsertCheck(s)
  <2>1. fund >= 0
    BY AmountIsNat
  <2> QED BY <1>1, <1>2, <1>3, <2>1 DEF SessionInsertCheck, InitialOpening
<1>5. SessionConsistencyCheck(s)
  BY <1>2, SessionsAtCommit
<1>6. SessionAdmitted(s)
  BY <1>3, <1>4, <1>5 DEF SessionAdmitted, Inserted, Updated
<1> QED BY <1>3, <1>6, AdmittedUnchanged DEF Admitted, OnlySession

LEMMA AdmittedBooking ==
  ASSUME IInv, IInv', NEW s \in SessionId, Books(s)
  PROVE  Admitted
<1>1. PICK amount \in Int : session' = [session EXCEPT ![s] = Booked(s, amount)]
  BY DEF Books
<1>2. session'[s].counted = session[s].counted
  <2>1. session[s] \in SessionRow /\ session'[s] = Booked(s, amount)
    BY <1>1, SessionRowOK DEF IInv, TypeOK
  <2> QED BY <2>1 DEF Booked, SessionRow
<1>3. /\ session[s].state = "open" /\ session'[s].state = "open" /\ SameBirth(s) /\ OnlySession(s)
      /\ handover' = handover /\ difference' = difference
  BY BooksFields DEF IInv
<1>4. SessionUpdateCheck(s) /\ MovementInsertCheck(s)
  BY <1>2, <1>3 DEF SessionUpdateCheck, MovementInsertCheck, SameBirth
<1>5. SessionConsistencyCheck(s)
  BY <1>3, SessionsAtCommit
<1>6. SessionAdmitted(s)
  BY <1>3, <1>4, <1>5 DEF SessionAdmitted, Inserted
<1> QED BY <1>3, <1>6, AdmittedUnchanged DEF Admitted, OnlySession

\* A close: the row of the session and its difference.
LEMMA AdmittedCounting ==
  ASSUME IInv, IInv', NEW s \in SessionId, NEW state \in {"closing", "closed"}, NEW counted \in Amount,
         session[s].state = "open", session' = [session EXCEPT ![s] = Counted(s, state, counted)],
         RecordDifference(s, counted),
         state = "closing" => counted > 0 /\ session[s].source # "initial",
         state = "closed" => counted = 0 \/ session[s].source = "initial"
  PROVE  /\ \A t \in SessionId : SessionAdmitted(t) /\ DifferenceAdmitted(t)
         /\ SessionConsistencyCheck(s)
<1>1. /\ session'[s].state = state /\ SameBirth(s) /\ OnlySession(s)
      /\ session'[s].counted = counted /\ session'[s].balance = session[s].balance
  BY CountedFields DEF IInv
<1>2. difference[s] = NoDifference
  BY DEF IInv, RowsAreConnected
<1>3. OnlyDifference(s) /\ (difference'[s].status = "none" <=> counted = session[s].balance)
  BY <1>2, RecordedFields DEF IInv
<1>4. SessionUpdateCheck(s) /\ MovementInsertCheck(s)
  BY <1>1 DEF SessionUpdateCheck, MovementInsertCheck, CloseCheck, SameBirth
<1>5. SessionConsistencyCheck(s)
  BY <1>1, <1>3, SessionsAtCommit
<1>6. SessionAdmitted(s)
  BY <1>4, <1>5 DEF SessionAdmitted, Inserted
<1>7. DifferenceAdmitted(s)
  BY <1>2 DEF DifferenceAdmitted, NoDifference
<1> QED BY <1>1, <1>3, <1>5, <1>6, <1>7, AdmittedUnchanged DEF OnlySession, OnlyDifference

LEMMA AdmittedEnd ==
  ASSUME IInv, IInv', NEW s \in SessionId, NEW counted \in Amount, Ends(s, counted)
  PROVE  Admitted
<1>1. \A t \in SessionId : SessionAdmitted(t) /\ DifferenceAdmitted(t)
  BY AdmittedCounting DEF Ends
<1>2. handover' = handover
  BY DEF Ends
<1> QED BY <1>1, <1>2, AdmittedUnchanged DEF Admitted

LEMMA AdmittedOffer ==
  ASSUME IInv, IInv', NEW u \in User, NEW s \in SessionId, NEW counted \in Amount, NEW v \in User,
         CloseWithHandover(u, s, counted, v)
  PROVE  Admitted
<1>1. (\A t \in SessionId : SessionAdmitted(t) /\ DifferenceAdmitted(t)) /\ SessionConsistencyCheck(s)
  BY AdmittedCounting DEF CloseWithHandover, MayHandOn, ClosesDirectly
<1>2. /\ session'[s].state = "closing" /\ session'[s].counted = counted /\ counted > 0
      /\ v # session[s].cashier
  BY CloseWithHandoverFields DEF IInv
<1>3. PICK h \in HandoverId : /\ handover[h].state = "none" /\ OnlyHandover(h)
                              /\ handover'[h] = Offered(s, v, counted)
  BY CloseWithHandoverFields DEF IInv
<1>4. /\ handover'[h].state = "pending" /\ handover'[h].source = s
      /\ handover'[h].maker = session[s].cashier /\ handover'[h].to = v
      /\ handover'[h].amount = counted /\ ~handover'[h].declined /\ handover'[h].replacement = None
  BY <1>3, OfferedFields
<1>5. HandoverInsertCheck(h)
  BY <1>2, <1>4 DEF HandoverInsertCheck
<1>6. HandoverConsistencyCheck(h)
  BY HandoversAtCommit
<1>7. HandoverAdmitted(h)
  BY <1>1, <1>3, <1>4, <1>5, <1>6 DEF HandoverAdmitted, Updated
<1> QED BY <1>1, <1>3, <1>7, AdmittedUnchanged DEF Admitted, OnlyHandover

LEMMA AdmittedAcceptance ==
  ASSUME IInv, IInv', NotReplaced, NEW u \in User, NEW h \in HandoverId, NEW counted \in Amount,
         AcceptSessionHandover(u, h, counted)
  PROVE  Admitted
<1> DEFINE s == handover[h].source
<1>1. s \in SessionId
  BY DEF AcceptSessionHandover, Live, IInv, RowsAreConnected
<1>2. /\ session[s].state = "closing" /\ session'[s].state = "closed" /\ SameBirth(s)
      /\ session'[s].counted = session[s].counted
      /\ session'[s].balance = session[s].balance - handover[h].amount
      /\ u = handover[h].to /\ Live(h) /\ handover'[h].state = "confirmed"
      /\ handover'[h].source = s /\ handover'[h].to = u
      /\ handover'[h].amount = handover[h].amount /\ handover'[h].maker = handover[h].maker
      /\ ~handover'[h].declined /\ OnlyHandover(h) /\ difference' = difference
  BY <1>1, AcceptFields DEF IInv
<1>3. PICK n \in SessionId :
        /\ session[n].state = "none"
        /\ session' = [session EXCEPT ![s] = HandedOver(s, handover[h].amount), ![n] = Received(u, h)]
  BY DEF AcceptSessionHandover
<1>4. n # s /\ session'[n] = Received(u, h) /\ \A t \in SessionId \ {s, n} : session'[t] = session[t]
  BY <1>1, <1>2, <1>3 DEF IInv, TypeOK
<1>5. /\ session'[n].state = "open" /\ session'[n].counted = 0 /\ session'[n].source = "handover"
      /\ session'[n].from = h /\ session'[n].cashier = u /\ session'[n].point = session[s].point
      /\ session'[n].balance = handover[h].amount
  BY <1>4 DEF Received, Opened
<1>6. point[session[s].point] = "active" /\ h # None
  BY NoneAssumption DEF AcceptSessionHandover
<1> HIDE DEF s
<1>7. SessionInsertCheck(n)
  <2>1. HandoverOpening(session'[n])
    BY <1>2, <1>5, <1>6 DEF HandoverOpening
  <2> QED BY <1>5, <1>6, <2>1 DEF SessionInsertCheck
<1>8. SessionUpdateCheck(s) /\ MovementInsertCheck(s)
  <2>1. SessionUpdateCheck(s)
    BY <1>2 DEF SessionUpdateCheck, SameBirth
  <2>2. MovementInsertCheck(s)
    BY <1>2 DEF MovementInsertCheck, s
  <2> QED BY <2>1, <2>2
<1>9. SessionConsistencyCheck(s)
  BY <1>1, <1>2, ReviewedWhileClosing, SessionsAtCommit
<1>10. SessionConsistencyCheck(n)
  BY <1>5, SessionsAtCommit
<1>11. SessionAdmitted(s)
  BY <1>2, <1>8, <1>9 DEF SessionAdmitted, Inserted
<1>12. SessionAdmitted(n)
  BY <1>3, <1>7, <1>10 DEF SessionAdmitted, Updated
<1>13. HandoverAdmitted(h)
  <2>1. handover[h].state = "pending" /\ ~handover[h].declined /\ handover'[h].replacement = None
    <3>1. handover[h].state = "pending" /\ ~handover[h].declined /\ handover[h].replacement = None
      BY <1>2 DEF Live, NotReplaced
    <3>2. handover'[h] = [handover[h] EXCEPT !.state = "confirmed"] /\ handover[h] \in HandoverRow
      BY HandoverRowOK DEF AcceptSessionHandover, IInv, TypeOK
    <3>3. handover'[h].replacement = handover[h].replacement
      BY <3>2 DEF HandoverRow
    <3> QED BY <3>1, <3>3
  <2>2. HandoverUpdateCheck(h)
    BY <1>2, <2>1 DEF HandoverUpdateCheck, s
  <2>3. HandoverConsistencyCheck(h)
    BY HandoversAtCommit
  <2> QED BY <1>2, <1>9, <2>1, <2>2, <2>3 DEF HandoverAdmitted, Inserted
<1>14. ASSUME NEW t \in SessionId PROVE SessionAdmitted(t)
  <2> USE DEF SessionAdmitted, Inserted, Updated, SessionInsertCheck, SessionUpdateCheck,
              MovementInsertCheck, SessionConsistencyCheck, HandoverOpening, CloseCheck, Live
  <2>1. CASE t = s
    BY <1>11, <2>1
  <2>2. CASE t = n
    BY <1>12, <2>2
  <2>3. CASE t \notin {s, n}
    BY <1>4, <2>3
  <2> QED BY <2>1, <2>2, <2>3
<1> QED BY <1>2, <1>13, <1>14, AdmittedUnchanged DEF Admitted, OnlyHandover

LEMMA AdmittedAnswer ==
  ASSUME IInv, IInv', NotReplaced, NotReplaced', NEW u \in User, NEW h \in HandoverId,
         DeclineSessionHandover(u, h)
  PROVE  Admitted
<1>1. /\ handover[h].state = "pending" /\ handover'[h].state = "pending"
      /\ handover'[h].source = handover[h].source /\ handover'[h].maker = handover[h].maker
      /\ handover'[h].to = handover[h].to /\ handover'[h].amount = handover[h].amount
      /\ handover'[h].declined /\ OnlyHandover(h)
      /\ session' = session /\ difference' = difference
  BY DeclineFields DEF IInv
<1>2. handover'[h].redirectedBy = None /\ handover'[h].replacement = None
  BY <1>1 DEF NotReplaced
<1>3. HandoverUpdateCheck(h)
  BY <1>1, <1>2 DEF HandoverUpdateCheck
<1>4. HandoverConsistencyCheck(h)
  BY HandoversAtCommit
<1>5. handover[h].source \in SessionId /\ session[handover[h].source].state = "closing"
  BY <1>1 DEF IInv, ClosingCashIsOffered
<1>6. SessionConsistencyCheck(handover'[h].source)
  BY <1>1, <1>5, ReviewedWhileClosing, SessionsAtCommit
<1>7. HandoverAdmitted(h)
  BY <1>1, <1>3, <1>4, <1>6 DEF HandoverAdmitted, Inserted
<1> QED BY <1>1, <1>7, AdmittedUnchanged DEF Admitted, OnlyHandover

LEMMA AdmittedRedirect ==
  ASSUME IInv, IInv', NotReplaced, NEW u \in User, NEW h \in HandoverId, NEW v \in User,
         RedirectSessionHandover(u, h, v)
  PROVE  Admitted
<1> DEFINE s == handover[h].source
<1>1. /\ handover[h].state = "pending" /\ handover'[h].state = "cancelled"
      /\ handover'[h].source = s /\ handover'[h].maker = handover[h].maker
      /\ handover'[h].to = handover[h].to /\ handover'[h].amount = handover[h].amount
      /\ handover'[h].declined = handover[h].declined /\ handover'[h].redirectedBy = u
      /\ session' = session /\ difference' = difference /\ v # handover[h].maker
  BY RedirectFields DEF IInv
<1>2. PICK r \in HandoverId \ {h} :
        /\ handover[r].state = "none"
        /\ handover'[r] = Offered(s, v, handover[h].amount)
        /\ \A g \in HandoverId \ {h, r} : handover'[g] = handover[g]
  BY RedirectFields DEF IInv
<1>3. /\ s \in SessionId /\ session[s].state = "closing" /\ handover[h].amount = session[s].counted
      /\ handover[h].maker = session[s].cashier
  BY <1>1 DEF IInv, ClosingCashIsOffered
<1>4. handover[h].amount \in Amount /\ session[s].counted > 0
  BY <1>1, <1>3, HandoverRowOK DEF IInv, HandoverRow, ClosingCashIsOffered
<1> HIDE DEF s
<1>5. /\ handover'[r].state = "pending" /\ handover'[r].source = s
      /\ handover'[r].maker = session[s].cashier /\ handover'[r].to = v
      /\ handover'[r].amount = handover[h].amount /\ ~handover'[r].declined
      /\ handover'[r].replacement = None
  BY <1>2, <1>3, <1>4, OfferedFields
<1>6. HandoverInsertCheck(r)
  BY <1>1, <1>3, <1>4, <1>5 DEF HandoverInsertCheck
<1>7. HandoverUpdateCheck(h)
  <2>1. u # None
    BY NoneAssumption
  <2> QED BY <1>1, <2>1 DEF HandoverUpdateCheck, s
<1>8. HandoverConsistencyCheck(h) /\ HandoverConsistencyCheck(r)
  BY HandoversAtCommit
<1>9. SessionConsistencyCheck(s)
  BY <1>1, <1>3, ReviewedWhileClosing, SessionsAtCommit
<1>10. HandoverAdmitted(h) /\ HandoverAdmitted(r)
  BY <1>1, <1>2, <1>5, <1>6, <1>7, <1>8, <1>9 DEF HandoverAdmitted, Inserted, Updated
<1>11. ASSUME NEW g \in HandoverId PROVE HandoverAdmitted(g)
  <2>1. CASE g \in {h, r}
    BY <1>10, <2>1
  <2>2. CASE g \notin {h, r}
    BY <1>2, <2>2, AdmittedUnchanged
  <2> QED BY <2>1, <2>2
<1> QED BY <1>1, <1>11, AdmittedUnchanged DEF Admitted

LEMMA AdmittedReview ==
  ASSUME IInv, IInv', NEW u \in User, NEW s \in SessionId,
         NEW type \in {"no_further_action", "accepted_loss", "accepted_surplus"},
         ResolveDifference(u, s, type)
  PROVE  Admitted
<1>1. /\ difference[s].status = "pending_review" /\ difference'[s].status = "resolved"
      /\ difference'[s].amount = difference[s].amount /\ difference'[s].resolution = type
      /\ difference'[s].resolvedBy = u /\ OnlyDifference(s)
      /\ session' = session /\ handover' = handover
  BY ResolveFields DEF IInv
<1>2. session[s].state = "closed" /\ u # session[s].cashier
  BY DEF ResolveDifference
<1>3. /\ difference'[s].resolution = "accepted_loss" => difference'[s].amount < 0
      /\ difference'[s].resolution = "accepted_surplus" => difference'[s].amount > 0
  BY <1>1 DEF IInv, ReviewIsIndependent
<1>4. DifferenceUpdateCheck(s) /\ ResolutionInsertCheck(s)
  BY <1>1, <1>2, <1>3 DEF DifferenceUpdateCheck, ResolutionInsertCheck
<1>5. DifferenceAdmitted(s)
  BY <1>4 DEF DifferenceAdmitted
<1> QED BY <1>1, <1>5, AdmittedUnchanged DEF Admitted, OnlyDifference

\* A request breaks only in the close of a simple session, whose row no counted cash makes admissible.
LEMMA BrokenOnlyBySimpleClose ==
  ASSUME [Next]_vars, NEW t \in inflight' \ inflight, t.op = "broken"
  PROVE  \A counted \in Amount \ {0} :
           ~CloseCheck(session[t.target], Counted(t.target, "closing", counted))
<1>1. \E u \in User, s \in SessionId, counted \in Amount, v \in User :
        CloseMeetsTrigger(u, s, counted, v) /\ t.target = s
  <2>1. CASE SessionStep
    BY <2>1 DEF SessionStep, EnterOpen, EnterClose, Enter, OpenSession, CloseEmpty,
                CloseSimpleSession, CloseWithHandover, CloseMeetsTrigger, Deposit, Withdraw
  <2>2. CASE HandoverStep
    BY <2>2 DEF HandoverStep, EnterAccept, EnterDecline, EnterRedirect, Enter,
                AcceptSessionHandover, DeclineSessionHandover, RedirectSessionHandover
  <2>3. CASE ReviewStep
    BY <2>3 DEF ReviewStep, EnterResolve, Enter, ResolveDifference
  <2>4. CASE NeighbourStep
    BY <2>4 DEF NeighbourStep, ReportSurplus, ConfirmSurplus, RejectSurplus, DisableUser,
                EnableUser, SetCashPointStatus, Forget
  <2>5. CASE UNCHANGED vars
    BY <2>5 DEF vars
  <2> QED BY <2>1, <2>2, <2>3, <2>4, <2>5 DEF Next
<1> QED BY <1>1 DEF CloseMeetsTrigger, ClosesDirectly, CloseCheck, Counted

\* For any number of points, sessions and handovers: every row a handler commits is one the triggers of
\* the cash tables admit, because of what the services check before and under their locks, and the one
\* request a trigger refuses hands on the cash of a simple session.
THEOREM OneCloseIsRefused == Spec => BackstopsRefuseOneClose
<1>1. Init => NotReplaced
  BY NotReplacedInitially
<1>2. IInv /\ NotReplaced /\ [Next]_vars => NotReplaced'
  BY NotReplacedPreserved
<1>3. ASSUME IInv, IInv', NotReplaced, NotReplaced', Next PROVE Admitted
  <2>1. CASE Quiet
    BY <2>1, AdmittedUnchanged DEF Quiet, Admitted
  <2>2. TypeOK
    BY <1>3 DEF IInv
  <2> QED BY <1>3, <2>1, <2>2, StepShapes, AdmittedOpening, AdmittedBooking, AdmittedEnd, AdmittedOffer,
             AdmittedAcceptance, AdmittedAnswer, AdmittedRedirect, AdmittedReview
<1> DEFINE Meets ==
             /\ \A s \in SessionId :
                  /\ Inserted(session, s) => SessionInsertCheck(s)
                  /\ Updated(session, s) => SessionUpdateCheck(s) /\ MovementInsertCheck(s)
                  /\ session'[s] # session[s] => SessionConsistencyCheck(s)
                  /\ difference[s].status # "none" /\ difference'[s] # difference[s] =>
                       DifferenceUpdateCheck(s) /\ ResolutionInsertCheck(s)
             /\ \A h \in HandoverId :
                  /\ Inserted(handover, h) => HandoverInsertCheck(h)
                  /\ Updated(handover, h) => HandoverUpdateCheck(h)
                  /\ handover'[h] # handover[h] =>
                       HandoverConsistencyCheck(h) /\ SessionConsistencyCheck(handover'[h].source)
           Breaks ==
             \A t \in inflight' \ inflight : t.op = "broken" =>
               \A counted \in Amount \ {0} :
                 ~CloseCheck(session[t.target], Counted(t.target, "closing", counted))
<1>4. Admitted => Meets
  BY DEF Admitted, SessionAdmitted, DifferenceAdmitted, HandoverAdmitted
<1>5. [Next]_vars => Breaks
  BY BrokenOnlyBySimpleClose
<1>6. BackstopsRefuseOneClose <=> [][Meets /\ Breaks]_vars
  BY PTL DEF BackstopsRefuseOneClose
<1> HIDE DEF Meets, Breaks
<1>7. IInv /\ IInv' /\ NotReplaced /\ NotReplaced' /\ [Next]_vars => [Meets /\ Breaks]_vars
  BY <1>3, <1>4, <1>5
<1> QED BY <1>1, <1>2, <1>6, <1>7, Inductive, PTL DEF Spec
=============================================================================
