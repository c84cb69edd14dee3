---------------------------- MODULE CashSessions ----------------------------
(***************************************************************************)
(* The custody of physical cash at the cash points of one tenant:          *)
(* app/modules/cash (sessions, direct handovers, differences, the port     *)
(* other modules move cash through) with what it reads of its neighbours:  *)
(* the status of users (identity), the status of cash points               *)
(* (organization) and the surpluses under review (the legacy cash box).    *)
(*                                                                         *)
(* A request is modelled in two steps.  Enter* is everything the handler   *)
(* does before it locks the box of the branch: authentication, the         *)
(* permission, the checks it never repeats.  The action named after the    *)
(* handler is what it does from the first lock to the commit; the row      *)
(* locks make that one step.  A ticket in `inflight' is a request between  *)
(* the two.  It stays there after its commit, because a client may have    *)
(* sent several copies of it: Forget is the last copy ending.              *)
(*                                                                         *)
(* Permissions are the sets Cashiers (open, close and receive),            *)
(* Supervisors (redirect) and Reviewers (resolve).  Idempotency keys are   *)
(* left to the module IdempotentCommand: here a replay or a conflict is a  *)
(* stuttering step.  A "broken" ticket is the server error of a request    *)
(* whose write a database trigger refused, after everything it did was     *)
(* rolled back.                                                            *)
(***************************************************************************)
EXTENDS Integers, FiniteSets, Functions

CONSTANTS
  User,         \* the accounts of the tenant
  Cashiers, Supervisors, Reviewers,
  CashPoint,
  Box,          \* one per branch
  boxOf,        \* the box of the branch of each cash point
  SessionId, HandoverId,
  None,         \* the null of a column
  MaxAmount,    \* bound of a counted or moved amount
  MaxInflight   \* bound of the requests between entry and commit

ASSUME PeopleAssumption ==
  Cashiers \subseteq User /\ Supervisors \subseteq User /\ Reviewers \subseteq User
ASSUME BoxAssumption == boxOf \in [CashPoint -> Box]
ASSUME BoundAssumption == MaxAmount \in Nat /\ MaxInflight \in Nat
ASSUME NoneAssumption == None \notin User \cup CashPoint \cup SessionId \cup HandoverId

VARIABLES
  account,      \* the status of each user account
  point,        \* the status of each cash point
  surplus,      \* the boxes with a surplus delivery under review
  session,      \* the rows of cash_sessions
  handover,     \* the rows of cash_session_handovers
  difference,   \* the closing row of cash_session_differences of a session
  inflight      \* the requests past their entry checks

vars == <<account, point, surplus, session, handover, difference, inflight>>

Amount == 0 .. MaxAmount

SessionRow ==
  [state : {"none", "open", "closing", "closed"}, point : CashPoint \cup {None},
   cashier : User \cup {None}, source : {"none", "zero", "initial", "handover"},
   from : HandoverId \cup {None}, balance : Int, counted : Amount]

HandoverRow ==
  [state : {"none", "pending", "confirmed", "cancelled"},
   source : SessionId \cup {None}, maker : User \cup {None}, to : User \cup {None},
   amount : Amount, declined : BOOLEAN, redirectedBy : User \cup {None},
   replacement : HandoverId \cup {None}]

DifferenceRow ==
  [status : {"none", "pending_review", "resolved"}, amount : Int,
   resolution : {"none", "no_further_action", "accepted_loss", "accepted_surplus"},
   resolvedBy : User \cup {None}]

Ticket ==
  [op : {"open", "close", "accept", "decline", "redirect", "resolve", "broken"},
   user : User, target : CashPoint \cup SessionId \cup HandoverId]

NoSession == [state |-> "none", point |-> None, cashier |-> None, source |-> "none",
              from |-> None, balance |-> 0, counted |-> 0]
NoHandover == [state |-> "none", source |-> None, maker |-> None, to |-> None, amount |-> 0,
               declined |-> FALSE, redirectedBy |-> None, replacement |-> None]
NoDifference == [status |-> "none", amount |-> 0, resolution |-> "none", resolvedBy |-> None]

TypeOK ==
  /\ account \in [User -> {"active", "disabled"}]
  /\ point \in [CashPoint -> {"active", "suspended"}]
  /\ surplus \subseteq Box
  /\ session \in [SessionId -> SessionRow]
  /\ handover \in [HandoverId -> HandoverRow]
  /\ difference \in [SessionId -> DifferenceRow]
  /\ inflight \subseteq Ticket
  /\ \A s \in SessionId : session[s].state = "open" => session[s].balance >= 0

Init ==
  /\ account = [u \in User |-> "active"]
  /\ point = [p \in CashPoint |-> "active"]
  /\ surplus = {}
  /\ session = [s \in SessionId |-> NoSession]
  /\ handover = [h \in HandoverId |-> NoHandover]
  /\ difference = [s \in SessionId |-> NoDifference]
  /\ inflight = {}

-----------------------------------------------------------------------------
(* The questions the handlers ask of the tables.                           *)

Active(s) == session[s].state \in {"open", "closing"}

\* A pending handover its receiver has not refused.
Live(h) == handover[h].state = "pending" /\ ~handover[h].declined

\* The sessions and handovers that keep a user from being disabled.
MutantHasCashResponsibility(u) == \E s \in SessionId : Active(s) /\ session[s].cashier = u
HasCashResponsibility(u) ==
  \/ \E s \in SessionId : Active(s) /\ session[s].cashier = u
  \/ \E h \in HandoverId : Live(h) /\ handover[h].to = u

ValidReceiver(v, maker) == v \in Cashiers /\ account[v] = "active" /\ v # maker

\* The session a movement is booked in.
MutantOpenCustody(s) == session[s].state # "none"
OpenCustody(s) == session[s].state = "open"

MutantCovers(s, amount) == TRUE
Covers(s, amount) == session[s].balance - amount >= 0

MutantApplicableTypes(s) ==
  {"no_further_action",
   IF difference[s].amount > 0 THEN "accepted_loss" ELSE "accepted_surplus"}
ApplicableTypes(s) ==
  {"no_further_action",
   IF difference[s].amount < 0 THEN "accepted_loss" ELSE "accepted_surplus"}

-----------------------------------------------------------------------------
(* Entry of a request: what is read before the locks and not read again.   *)

Enter(op, u, target) ==
  /\ account[u] = "active"
  /\ Cardinality(inflight) < MaxInflight
  /\ inflight' = inflight \cup {[op |-> op, user |-> u, target |-> target]}
  /\ UNCHANGED <<account, point, surplus, session, handover, difference>>

EnterOpen(u, p) == u \in Cashiers /\ Enter("open", u, p)

\* Both closes refuse here, and only here, a box with a surplus under review.
EnterClose(u, s) ==
  /\ session[s].state # "none"
  /\ u \in Cashiers
  /\ session[s].cashier = u
  /\ boxOf[session[s].point] \notin surplus
  /\ Enter("close", u, s)

EnterAccept(u, h) == handover[h].state # "none" /\ u \in Cashiers /\ Enter("accept", u, h)

EnterDecline(u, h) == handover[h].state # "none" /\ Enter("decline", u, h)

EnterRedirect(u, h) ==
  /\ handover[h].state # "none"
  /\ u = handover[h].maker \/ u \in Supervisors
  /\ Enter("redirect", u, h)

EnterResolve(u, s) ==
  /\ difference[s].status # "none"
  /\ u \in Reviewers
  /\ Enter("resolve", u, s)

Forget(t) ==
  /\ t \in inflight
  /\ inflight' = inflight \ {t}
  /\ UNCHANGED <<account, point, surplus, session, handover, difference>>

Requested(op, u, target) == [op |-> op, user |-> u, target |-> target] \in inflight

-----------------------------------------------------------------------------
(* Sessions.                                                               *)

\* A new session s of cashier u at p whose first movement, if any, is `fund'.
Opened(u, p, source, h, fund) ==
  [state |-> "open", point |-> p, cashier |-> u, source |-> source, from |-> h,
   balance |-> fund, counted |-> 0]

OpenSession(u, p, source, fund) ==
  /\ Requested("open", u, p)
  /\ source = "zero" => fund = 0
  /\ point[p] = "active"
  /\ \A s \in SessionId : session[s].point = p => ~Active(s)
  /\ \E s \in SessionId :
       /\ session[s].state = "none"
       /\ session' = [session EXCEPT ![s] = Opened(u, p, source, None, fund)]
  /\ UNCHANGED <<account, point, surplus, handover, difference, inflight>>

\* The difference row, if any, of a close that counts `counted' in session s.
UnderReview(amount) == [NoDifference EXCEPT !.status = "pending_review", !.amount = amount]
RecordDifference(s, counted) ==
  difference' = IF counted = session[s].balance THEN difference
                ELSE [difference EXCEPT ![s] = UnderReview(counted - session[s].balance)]

\* The row of session s with its close recorded.
Counted(s, state, counted) == [session[s] EXCEPT !.state = state, !.counted = counted]

\* A handover row of session s as it is born.
Offered(s, receiver, amount) ==
  [NoHandover EXCEPT !.state = "pending", !.source = s, !.maker = session[s].cashier,
                     !.to = receiver, !.amount = amount]

\* What close_session itself asks of a close that hands its cash on: the source is not among it.
MayHandOn(u, s, counted, receiver) ==
  /\ Requested("close", u, s)
  /\ session[s].state = "open"
  /\ counted > 0
  /\ ValidReceiver(receiver, session[s].cashier)

\* The trigger that keeps a simple session from waiting for a receiver.
ClosesDirectly(s) == session[s].source = "initial"

CloseWithHandover(u, s, counted, receiver) ==
  /\ MayHandOn(u, s, counted, receiver)
  /\ ~ClosesDirectly(s)
  /\ session' = [session EXCEPT ![s] = Counted(s, "closing", counted)]
  /\ RecordDifference(s, counted)
  /\ \E h \in HandoverId :
       /\ handover[h].state = "none"
       /\ handover' = [handover EXCEPT ![h] = Offered(s, receiver, counted)]
  /\ UNCHANGED <<account, point, surplus, inflight>>

\* The UPDATE raises and nothing handles it: the transaction is undone and the request breaks.
CloseMeetsTrigger(u, s, counted, receiver) ==
  /\ MayHandOn(u, s, counted, receiver)
  /\ ClosesDirectly(s)
  /\ inflight' = inflight \cup {[op |-> "broken", user |-> u, target |-> s]}
  /\ UNCHANGED <<account, point, surplus, session, handover, difference>>

CloseEmpty(u, s) ==
  /\ Requested("close", u, s)
  /\ session[s].state = "open"
  /\ session' = [session EXCEPT ![s] = Counted(s, "closed", 0)]
  /\ RecordDifference(s, 0)
  /\ UNCHANGED <<account, point, surplus, handover, inflight>>

CloseSimpleSession(u, s, counted) ==
  /\ Requested("close", u, s)
  /\ session[s].source = "initial"
  /\ session[s].state = "open"
  /\ session' = [session EXCEPT ![s] = Counted(s, "closed", counted)]
  /\ RecordDifference(s, counted)
  /\ UNCHANGED <<account, point, surplus, handover, inflight>>

\* The cash port and the movements of the legacy command.
Booked(s, amount) == [session[s] EXCEPT !.balance = @ + amount]

Deposit(s, amount) ==
  /\ OpenCustody(s)
  /\ session[s].balance + amount <= MaxAmount
  /\ session' = [session EXCEPT ![s] = Booked(s, amount)]
  /\ UNCHANGED <<account, point, surplus, handover, difference, inflight>>

Withdraw(s, amount) ==
  /\ OpenCustody(s)
  /\ Covers(s, amount)
  /\ session' = [session EXCEPT ![s] = Booked(s, -amount)]
  /\ UNCHANGED <<account, point, surplus, handover, difference, inflight>>

-----------------------------------------------------------------------------
(* Direct handovers.                                                       *)

\* The source session once its cash has been accepted.
HandedOver(s, amount) == [session[s] EXCEPT !.state = "closed", !.balance = @ - amount]

\* The session a receiver opens with the cash of handover h.
MutantReceived(u, h) ==
  LET s == handover[h].source IN Opened(u, session[s].point, "handover", h, session[s].balance)
Received(u, h) ==
  Opened(u, session[handover[h].source].point, "handover", h, handover[h].amount)

\* One transaction: the source gives its cash and closes, the receiver's own session opens with it.
AcceptSessionHandover(u, h, counted) ==
  LET s == handover[h].source
  IN /\ Requested("accept", u, h)
     /\ Live(h)
     /\ session[s].state = "closing"
     /\ u # handover[h].maker
     /\ u = handover[h].to
     /\ account[u] = "active"
     /\ point[session[s].point] = "active"
     /\ counted = handover[h].amount
     /\ handover' = [handover EXCEPT ![h] = [handover[h] EXCEPT !.state = "confirmed"]]
     /\ \E n \in SessionId :
          /\ session[n].state = "none"
          /\ session' = [session EXCEPT ![s] = HandedOver(s, handover[h].amount),
                                        ![n] = Received(u, h)]
     /\ UNCHANGED <<account, point, surplus, difference, inflight>>

DeclineSessionHandover(u, h) ==
  /\ Requested("decline", u, h)
  /\ u = handover[h].to
  /\ Live(h)
  /\ handover' = [handover EXCEPT ![h] = [handover[h] EXCEPT !.declined = TRUE]]
  /\ UNCHANGED <<account, point, surplus, session, difference, inflight>>

\* The row of handover h once u has replaced it by r.
MutantCancelledBlind(h, u, r) == [handover[h] EXCEPT !.state = "cancelled", !.redirectedBy = u]
Cancelled(h, u, r) ==
  [handover[h] EXCEPT !.state = "cancelled", !.redirectedBy = u, !.replacement = r]

RedirectSessionHandover(u, h, receiver) ==
  LET s == handover[h].source
  IN /\ Requested("redirect", u, h)
     /\ handover[h].state = "pending"
     /\ session[s].state = "closing"
     /\ handover[h].declined => u \in Supervisors
     /\ ValidReceiver(receiver, handover[h].maker)
     /\ \E r \in HandoverId :
          /\ handover[r].state = "none"
          /\ handover' = [handover EXCEPT ![h] = Cancelled(h, u, r),
                                          ![r] = Offered(s, receiver, handover[h].amount)]
     /\ UNCHANGED <<account, point, surplus, session, difference, inflight>>

-----------------------------------------------------------------------------
(* Differences, and the neighbours of the module.                          *)

ResolveDifference(u, s, type) ==
  /\ Requested("resolve", u, s)
  /\ difference[s].status = "pending_review"
  /\ type \in ApplicableTypes(s)
  /\ session[s].state = "closed"
  /\ u # session[s].cashier
  /\ difference' = [difference EXCEPT ![s] =
       [difference[s] EXCEPT !.status = "resolved", !.resolution = type, !.resolvedBy = u]]
  /\ UNCHANGED <<account, point, surplus, session, handover, inflight>>

\* Bound: one surplus under review per box.
ReportSurplus(s) ==
  /\ session[s].state = "open"
  /\ boxOf[session[s].point] \notin surplus
  /\ surplus' = surplus \cup {boxOf[session[s].point]}
  /\ UNCHANGED <<account, point, session, handover, difference, inflight>>

\* A confirmed surplus enters an open session of the box; a rejected one leaves no cash.
ConfirmSurplus(s, amount) ==
  /\ session[s].state = "open"
  /\ boxOf[session[s].point] \in surplus
  /\ session[s].balance + amount <= MaxAmount
  /\ surplus' = surplus \ {boxOf[session[s].point]}
  /\ session' = [session EXCEPT ![s] = Booked(s, amount)]
  /\ UNCHANGED <<account, point, handover, difference, inflight>>

RejectSurplus(b) ==
  /\ b \in surplus
  /\ surplus' = surplus \ {b}
  /\ UNCHANGED <<account, point, session, handover, difference, inflight>>

DisableUser(u) ==
  /\ account[u] = "active"
  /\ ~HasCashResponsibility(u)
  /\ account' = [account EXCEPT ![u] = "disabled"]
  /\ UNCHANGED <<point, surplus, session, handover, difference, inflight>>

EnableUser(u) ==
  /\ account[u] = "disabled"
  /\ account' = [account EXCEPT ![u] = "active"]
  /\ UNCHANGED <<point, surplus, session, handover, difference, inflight>>

SetCashPointStatus(p) ==
  /\ point' = [point EXCEPT ![p] = IF @ = "active" THEN "suspended" ELSE "active"]
  /\ UNCHANGED <<account, surplus, session, handover, difference, inflight>>

-----------------------------------------------------------------------------
SessionStep ==
  \/ \E u \in User, p \in CashPoint :
       \/ EnterOpen(u, p)
       \/ \E source \in {"zero", "initial"}, fund \in Amount : OpenSession(u, p, source, fund)
  \/ \E u \in User, s \in SessionId :
       \/ EnterClose(u, s)
       \/ CloseEmpty(u, s)
       \/ \E counted \in Amount :
            \/ CloseSimpleSession(u, s, counted)
            \/ \E receiver \in User : \/ CloseWithHandover(u, s, counted, receiver)
                                     \/ CloseMeetsTrigger(u, s, counted, receiver)
  \/ \E s \in SessionId, amount \in Amount \ {0} : Deposit(s, amount) \/ Withdraw(s, amount)

HandoverStep ==
  \E u \in User, h \in HandoverId :
    \/ EnterAccept(u, h)
    \/ EnterDecline(u, h)
    \/ EnterRedirect(u, h)
    \/ \E counted \in Amount : AcceptSessionHandover(u, h, counted)
    \/ DeclineSessionHandover(u, h)
    \/ \E receiver \in User : RedirectSessionHandover(u, h, receiver)

ReviewStep ==
  \E u \in User, s \in SessionId :
    \/ EnterResolve(u, s)
    \/ \E type \in {"no_further_action", "accepted_loss", "accepted_surplus"} :
         ResolveDifference(u, s, type)

NeighbourStep ==
  \/ \E s \in SessionId : ReportSurplus(s) \/ \E amount \in Amount \ {0} : ConfirmSurplus(s, amount)
  \/ \E b \in Box : RejectSurplus(b)
  \/ \E u \in User : DisableUser(u) \/ EnableUser(u)
  \/ \E p \in CashPoint : SetCashPointStatus(p)
  \/ \E t \in inflight : Forget(t)

Next == SessionStep \/ HandoverStep \/ ReviewStep \/ NeighbourStep

Spec == Init /\ [][Next]_vars

-----------------------------------------------------------------------------
(* Invariants.                                                             *)

\* The tables refer to each other as foreign keys and triggers promise: an id without a row is
\* blank everywhere, a handover comes from a session that stopped counting, made by its cashier for
\* somebody else, an open session has no difference yet, and who asks to resolve may do so.
RowsAreConnected ==
  /\ \A s \in SessionId :
       /\ session[s].state = "none" => session[s] = NoSession
       /\ session[s].state # "none" => session[s].point \in CashPoint /\ session[s].cashier \in User
       /\ session[s].state \in {"none", "open"} => difference[s] = NoDifference
  /\ \A h \in HandoverId :
       /\ handover[h].state = "none" => handover[h] = NoHandover
       /\ handover[h].state # "none" =>
            /\ handover[h].source \in SessionId
            /\ session[handover[h].source].state \in {"closing", "closed"}
            /\ handover[h].maker = session[handover[h].source].cashier
            /\ handover[h].to \in User \ {handover[h].maker}
  /\ \A t \in inflight : t.op = "resolve" => t.user \in Reviewers

\* No two open or closing sessions share a cash point, whoever opened them and by whichever of
\* the two ways (open_session, accept_session_handover).
OneActiveSession ==
  \A s, t \in SessionId :
    /\ session[s].state \in {"open", "closing"} /\ session[t].state \in {"open", "closing"}
    /\ session[s].point = session[t].point
    => s = t

\* While cash waits between two cashiers it is owed by exactly one handover: a closing session has
\* one pending handover, of what was counted, and a pending handover has a closing source.
ClosingCashIsOffered ==
  /\ \A s \in SessionId : session[s].state = "closing" =>
       /\ session[s].counted > 0
       /\ \E h \in HandoverId : handover[h].state = "pending" /\ handover[h].source = s
  /\ \A h \in HandoverId : handover[h].state = "pending" =>
       /\ handover[h].source \in SessionId
       /\ session[handover[h].source].state = "closing"
       /\ handover[h].amount = session[handover[h].source].counted
       /\ handover[h].maker = session[handover[h].source].cashier

\* A session is handed over at most once: of its handovers at most one is not cancelled.
OneStandingHandover ==
  \A g, h \in HandoverId :
    /\ handover[g].state \in {"pending", "confirmed"}
    /\ handover[h].state \in {"pending", "confirmed"}
    /\ handover[g].source = handover[h].source
    => g = h

\* Redirects form a chain: a cancelled handover points to one replacement that carries the same
\* cash of the same session, and no two cancelled handovers point to the same one.
RedirectsFormAChain ==
  \A h \in HandoverId : handover[h].state = "cancelled" =>
    LET r == handover[h].replacement IN
    /\ r \in HandoverId \ {h}
    /\ handover[r].state # "none"
    /\ handover[r].source = handover[h].source
    /\ handover[r].amount = handover[h].amount
    /\ \A g \in HandoverId :
         handover[g].state = "cancelled" /\ handover[g].replacement = r => g = h

\* The cash of a confirmed handover opened exactly one session: at the cash point of the source,
\* owned by the named receiver, and the source is closed; and no session claims a handover that
\* was not confirmed.
ConfirmedOpensOne ==
  /\ \A h \in HandoverId : handover[h].state = "confirmed" =>
       \E n \in SessionId :
         /\ session[n].from = h
         /\ session[n].cashier = handover[h].to
         /\ session[n].point = session[handover[h].source].point
         /\ session[handover[h].source].state = "closed"
  /\ \A m, n \in SessionId :
       session[m].from # None =>
         /\ handover[session[m].from].state = "confirmed"
         /\ session[m].from = session[n].from => m = n

\* A refused handover is never confirmed, and only supervision moves its cash on.
RefusalIsRespected ==
  \A h \in HandoverId : handover[h].declined =>
    /\ handover[h].state # "confirmed"
    /\ handover[h].state = "cancelled" => handover[h].redirectedBy \in Supervisors

\* Nobody disabled is waiting to receive cash: disabling a user and naming one as receiver
\* exclude each other, in whatever order the two requests commit.
ReceiverCanAnswer ==
  \A h \in HandoverId : Live(h) => account[handover[h].to] = "active"

\* What was counted and what the ledger says agree up to the recorded difference: of a closed or
\* closing session a difference row exists exactly when the two differ, with their difference,
\* also after the counted cash has left through a handover.
DifferenceIsExact ==
  \A s \in SessionId : session[s].state \in {"closing", "closed"} =>
    LET left == IF \E h \in HandoverId : handover[h].source = s /\ handover[h].state = "confirmed"
                THEN 0 ELSE session[s].counted
    IN /\ difference[s].amount = left - session[s].balance
       /\ (difference[s].status = "none") <=> (difference[s].amount = 0)

\* A review is decided once the custody it is about has ended, by somebody else than its cashier,
\* and calls a shortage a loss and an overage a surplus.
ReviewIsIndependent ==
  \A s \in SessionId : difference[s].status = "resolved" =>
    /\ session[s].state = "closed"
    /\ difference[s].resolvedBy \in Reviewers \ {session[s].cashier}
    /\ difference[s].resolution = "accepted_loss" => difference[s].amount < 0
    /\ difference[s].resolution = "accepted_surplus" => difference[s].amount > 0

\* Cash between cashiers, whatever the order of closes, acceptances, refusals and redirects: one
\* session per point, each closing one owed by one handover, which a chain of redirects carries to one
\* receiving session, and never to whom refused it.
HandoversAreSound ==
  /\ OneActiveSession
  /\ ClosingCashIsOffered /\ OneStandingHandover
  /\ RedirectsFormAChain
  /\ ConfirmedOpensOne
  /\ RefusalIsRespected

\* The difference of a finished session is exact from its close on, after its cash left too, and is
\* decided by an independent person and with the right sign.
DifferencesAreSound == DifferenceIsExact /\ ReviewIsIndependent

-----------------------------------------------------------------------------
(* What the code says of itself and does not keep.                         *)

\* close_session (sessions.py:594) leaves counted cash in a pending handover to a named cashier: a
\* close that passes its checks never ends in a server error with the session still open.  Not kept
\* of a session opened with "initial", whose source the checks do not ask for (README, section 4).
ClosesHandOn == \A t \in inflight : t.op # "broken"

-----------------------------------------------------------------------------
(* What a step may never do.                                               *)

\* A closed session, a decided handover and a resolved difference are history.
HistoryIsFrozen ==
  [][/\ \A s \in SessionId : session[s].state = "closed" => session'[s] = session[s]
     /\ \A h \in HandoverId : handover[h].state \in {"confirmed", "cancelled"} =>
          handover'[h] = handover[h]
     /\ \A s \in SessionId : difference[s].status = "resolved" => difference'[s] = difference[s]]_vars

\* CASH.md: a surplus under review blocks the close, so that it is not counted a second time as a
\* closing difference.  Not kept by the v2 routes: the check precedes the locks (README, section 4).
SurplusBlocksClose ==
  [][\A s \in SessionId :
       session[s].state = "open" /\ session'[s].state # "open" =>
         boxOf[session[s].point] \notin surplus]_vars
=============================================================================
