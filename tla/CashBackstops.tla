---------------------------- MODULE CashBackstops ----------------------------
(***************************************************************************)
(* The triggers under the cash tables (handover_ddl.py and difference_ddl, *)
(* simple_ddl as they replace those of ddl.py): what the database itself   *)
(* refuses of a row that is inserted or updated, and of the rows as they   *)
(* stand at COMMIT.  A trigger that refuses what a handler does turns a    *)
(* legal request into a server error: the module states which steps of     *)
(* CashSessions meet one.  Tenants, currencies, denominations, keys and    *)
(* the capital side, which no handler writes any more, are left out.       *)
(***************************************************************************)
EXTENDS CashSessions

Inserted(table, id) == table[id].state = "none" /\ table'[id] # table[id]
Updated(table, id) == table[id].state # "none" /\ table'[id] # table[id]

\* The cash of an accepted handover: confirmed, of this point and receiver, its source closed.
HandoverOpening(row) ==
  LET h == handover'[row.from] IN
  /\ row.from # None
  /\ h.state = "confirmed" /\ h.to = row.cashier /\ h.amount = row.balance
  /\ session[h.source].point = row.point
  /\ session'[h.source].state = "closed"

\* The declared amount of a simple opening, which comes from no handover.
InitialOpening(row) == row.balance >= 0 /\ row.from = None

SessionInsertCheck(s) ==
  LET row == session'[s] IN
  /\ point[row.point] = "active"
  /\ row.state = "open" /\ row.counted = 0
  /\ \/ row.source = "zero" /\ row.balance = 0
     \/ row.source = "handover" /\ HandoverOpening(row)
     \/ row.source = "initial" /\ InitialOpening(row)

\* A close freezes what was expected; only a simple session closes with cash in it.
CloseCheck(old, new) ==
  /\ new.balance = old.balance
  /\ new.state = "closing" => new.counted > 0 /\ old.source # "initial"
  /\ new.state = "closed" => new.counted = 0 \/ old.source = "initial"

SessionUpdateCheck(s) ==
  LET old == session[s] new == session'[s] IN
  /\ \A field \in {"point", "cashier", "source", "from"} : new[field] = old[field]
  /\ \/ old.state = new.state /\ old.state # "closed" /\ old.counted = new.counted
     \/ old.state = "open" /\ new.state \in {"closing", "closed"} /\ CloseCheck(old, new)
     \/ /\ old.state = "closing" /\ new.state = "closed" /\ old.counted = new.counted
        /\ \E h \in HandoverId : handover'[h].source = s /\ handover'[h].state = "confirmed"

\* Of a movement, which is what a change of the balance is.
MovementInsertCheck(s) ==
  session'[s].balance # session[s].balance =>
    \/ session[s].state \in {"none", "open"}
    \/ /\ session[s].state = "closing"
       /\ \E h \in HandoverId :
            /\ Live(h) /\ handover[h].source = s
            /\ session'[s].balance = session[s].balance - handover[h].amount

HandoverInsertCheck(h) ==
  LET row == handover'[h] IN
  /\ row.state = "pending" /\ ~row.declined /\ row.replacement = None
  /\ row.maker = session[row.source].cashier /\ row.to # row.maker
  /\ session'[row.source].state = "closing"
  /\ row.amount = session'[row.source].counted /\ row.amount > 0

HandoverUpdateCheck(h) ==
  LET old == handover[h] new == handover'[h] IN
  /\ old.state = "pending"
  /\ \A field \in {"source", "maker", "to", "amount"} : new[field] = old[field]
  /\ old.declined => new.declined
  /\ new.declined /\ ~old.declined => new.state = "pending"
  /\ \/ new.state = "pending" /\ new.redirectedBy = None /\ new.replacement = None
     \/ /\ new.state = "confirmed" /\ ~old.declined /\ new.replacement = None
        /\ session'[new.source].balance = session[new.source].balance - new.amount
     \/ new.state = "cancelled" /\ new.redirectedBy # None

DifferenceUpdateCheck(s) ==
  LET old == difference[s] new == difference'[s] IN
  old.status = "pending_review" /\ new.status = "resolved" /\ new.amount = old.amount

ResolutionInsertCheck(s) ==
  LET row == difference'[s] IN
  /\ session[s].state = "closed"
  /\ row.resolution = "accepted_loss" => row.amount < 0
  /\ row.resolution = "accepted_surplus" => row.amount > 0
  /\ row.resolvedBy # session[s].cashier

\* The deferred checks, of the rows as the commit leaves them.
SessionConsistencyCheck(s) ==
  /\ session[s].state \in {"open", "closing"} /\ session'[s].state \in {"closing", "closed"} =>
       (session'[s].counted # session[s].balance => difference'[s].status # "none")
  /\ session'[s].state = "closing" =>
       \E h \in HandoverId :
         {g \in HandoverId : handover'[g].source = s /\ handover'[g].state = "pending"} = {h}
         /\ handover'[h].amount = session'[s].counted

HandoverConsistencyCheck(h) ==
  LET row == handover'[h] IN
  /\ row.state = "cancelled" =>
       /\ row.replacement \notin {None, h}
       /\ handover'[row.replacement].source = row.source
       /\ handover'[row.replacement].amount = row.amount
  /\ row.state = "confirmed" =>
       /\ session'[row.source].state = "closed"
       /\ Cardinality({n \in SessionId : session'[n].from = h /\ session'[n].cashier = row.to
                                         /\ session'[n].point = session'[row.source].point}) = 1

\* What the services check before and under their locks, in any interleaving, implies what the
\* database insists on, with one exception.  Every row a handler commits passes its triggers, and a
\* request breaks on a trigger only when it hands on the cash of a session no close may leave waiting.
BackstopsRefuseOneClose ==
  [][/\ \A s \in SessionId :
          /\ Inserted(session, s) => SessionInsertCheck(s)
          /\ Updated(session, s) => SessionUpdateCheck(s) /\ MovementInsertCheck(s)
          /\ session'[s] # session[s] => SessionConsistencyCheck(s)
          /\ difference[s].status # "none" /\ difference'[s] # difference[s] =>
               DifferenceUpdateCheck(s) /\ ResolutionInsertCheck(s)
     /\ \A h \in HandoverId :
          /\ Inserted(handover, h) => HandoverInsertCheck(h)
          /\ Updated(handover, h) => HandoverUpdateCheck(h)
          /\ handover'[h] # handover[h] =>
               HandoverConsistencyCheck(h) /\ SessionConsistencyCheck(handover'[h].source)
     /\ \A t \in inflight' \ inflight : t.op = "broken" =>
          \A counted \in Amount \ {0} :
            ~CloseCheck(session[t.target], Counted(t.target, "closing", counted))]_vars
=============================================================================
