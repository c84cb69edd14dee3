------------------------- MODULE IdempotentCommand -------------------------
(***************************************************************************)
(* How the v2 commands (cash sessions, loans, field custody) use their     *)
(* idempotency keys, whatever the command does.  A call names the row it   *)
(* will lock.  Its key is looked up before that lock, under it, or both:   *)
(*   "before"  declare and refund of field_custody/service.py              *)
(*   "under"   pay, reverse and disburse of loans, the decisions on a      *)
(*             rendition                                                   *)
(*   "both"    open, close and handovers of cash/sessions.py               *)
(* A unique index on the key of the table the command writes backs it up.  *)
(***************************************************************************)
EXTENDS FiniteSets

CONSTANTS
  Call,     \* requests as they arrive; a client that repeats one makes another call
  Key, Target, Content,
  looks,    \* when the command on each target looks its key up; one kind, one table
  None

ASSUME CommandLooks == looks \in [Target -> {"before", "under", "both"}]
ASSUME CommandNone == None \notin Call \cup Key \cup Target \cup Content

VARIABLES
  call,     \* each call and how far its handler is
  effect,   \* the rows committed, with the key and the request they were made for
  row       \* each target: who holds its lock, and whether its state refuses a command

vars == <<call, effect, row>>

Waiting == {"sent", "looked", "locked", "ready"}
Told == {"done", "replayed", "refused", "cut"}

CallRow ==
  [state : {"new"} \cup Waiting \cup Told, key : Key \cup {None}, target : Target \cup {None},
   content : Content \cup {None}]
Effect == [key : Key, target : Target, content : Content]

TypeOK ==
  /\ call \in [Call -> CallRow]
  /\ \A c \in Call : call[c].state # "new" =>
       call[c].key \in Key /\ call[c].target \in Target /\ call[c].content \in Content
  /\ effect \subseteq Effect
  /\ row \in [Target -> [holder : Call \cup {None}, busy : BOOLEAN]]
  /\ \A c \in Call, t \in Target :
       row[t].holder = c <=> call[c].target = t /\ call[c].state \in {"locked", "ready"}

Init ==
  /\ call = [c \in Call |-> [state |-> "new", key |-> None, target |-> None, content |-> None]]
  /\ effect = {}
  /\ row = [t \in Target |-> [holder |-> None, busy |-> FALSE]]

-----------------------------------------------------------------------------
Looks(c) == looks[call[c].target]

\* The rows under the key of call c in the table of its command: one at most.
Prior(c) == {e \in effect : e.key = call[c].key /\ looks[e.target] = Looks(c)}

\* The command of call c looks its key up under its lock.
MutantLooksAgain(c) == Looks(c) = "under"
LooksAgain(c) == Looks(c) # "before"

\* The effect e was made for the request that call c repeats.
Matches(e, c) == e.target = call[c].target /\ e.content = call[c].content

MutantVerdict(c) == IF \E e \in Prior(c) : e.content = call[c].content THEN "replayed" ELSE "refused"
Verdict(c) == IF \E e \in Prior(c) : Matches(e, c) THEN "replayed" ELSE "refused"

To(c, state) == [call EXCEPT ![c].state = state]

MutantUnlocked(c) == row
Unlocked(c) == [row EXCEPT ![call[c].target].holder = None]

-----------------------------------------------------------------------------
Send(c, key, target, content) ==
  /\ call[c].state = "new"
  /\ call' = [call EXCEPT ![c] = [state |-> "sent", key |-> key, target |-> target, content |-> content]]
  /\ UNCHANGED <<effect, row>>

LookBefore(c) ==
  /\ call[c].state = "sent"
  /\ Looks(c) # "under"
  /\ call' = To(c, IF Prior(c) = {} THEN "looked" ELSE Verdict(c))
  /\ UNCHANGED <<effect, row>>

TakeRow(c) ==
  /\ call[c].state \in {"sent", "looked"}
  /\ call[c].state = "sent" <=> Looks(c) = "under"
  /\ row[call[c].target].holder = None
  /\ call' = To(c, "locked")
  /\ row' = [row EXCEPT ![call[c].target].holder = c]
  /\ UNCHANGED effect

\* Under the lock: the key again, unless the command looks only before, then the state of the row.
CheckUnder(c) ==
  LET found == LooksAgain(c) /\ Prior(c) # {}
  IN /\ call[c].state = "locked"
     /\ \/ found /\ call' = To(c, Verdict(c)) /\ row' = Unlocked(c)
        \/ ~found /\ row[call[c].target].busy /\ call' = To(c, "refused") /\ row' = Unlocked(c)
        \/ ~found /\ ~row[call[c].target].busy /\ call' = To(c, "ready") /\ UNCHANGED row
     /\ UNCHANGED effect

\* The insertion meets the unique index; what the command changes may refuse the next one.
Commit(c) ==
  /\ call[c].state = "ready"
  /\ \/ /\ Prior(c) # {}
        /\ call' = To(c, IF Looks(c) = "both" THEN Verdict(c) ELSE "refused")
        /\ row' = Unlocked(c)
        /\ UNCHANGED effect
     \/ /\ Prior(c) = {}
        /\ effect' = effect \cup
             {[key |-> call[c].key, target |-> call[c].target, content |-> call[c].content]}
        /\ call' = To(c, "done")
        /\ \E busy \in BOOLEAN :
             row' = [row EXCEPT ![call[c].target] = [holder |-> None, busy |-> busy]]

\* A handler that fails for another reason, or is cut off: its transaction leaves nothing.
Cut(c) ==
  /\ call[c].state \in Waiting
  /\ call' = To(c, "cut")
  /\ row' = IF row[call[c].target].holder = c THEN Unlocked(c) ELSE row
  /\ UNCHANGED effect

\* Another command changes what the state of the row refuses: a session closes, a rendition is
\* rejected, an instalment falls due.
Elsewhere(t) ==
  /\ row[t].holder = None
  /\ row' = [row EXCEPT ![t].busy = ~@]
  /\ UNCHANGED <<call, effect>>

Next ==
  \/ \E c \in Call :
       \/ \E key \in Key, target \in Target, content \in Content : Send(c, key, target, content)
       \/ LookBefore(c) \/ TakeRow(c) \/ CheckUnder(c) \/ Commit(c) \/ Cut(c)
  \/ \E t \in Target : Elsewhere(t)

\* A handler that can go on does, and the queue of a row's lock passes nobody over for ever.
Fairness ==
  \A c \in Call : WF_vars(LookBefore(c)) /\ SF_vars(TakeRow(c)) /\ WF_vars(CheckUnder(c)) /\ WF_vars(Commit(c))

Spec == Init /\ [][Next]_vars /\ Fairness

-----------------------------------------------------------------------------
(* Properties.                                                             *)

\* A call is never refused when the very same request was served under its key before, however
\* close the two arrive.  The documentation promises it of every command.
ReplaysTheAnswer ==
  [][\A c \in Call : call[c].state # "refused" /\ call'[c].state = "refused" =>
       ~\E e \in Prior(c) : Matches(e, c)]_vars

\* Every call gets its answer, or its connection is cut: no order of locks, refusals and replays
\* leaves a call waiting for a row.
EveryCallIsAnswered == \A c \in Call : call[c].state = "sent" ~> call[c].state \in Told

-----------------------------------------------------------------------------
(* The abstract view.                                                      *)

SlotOf(target, key) == <<looks[target], key>>

Done == {[slot |-> SlotOf(e.target, e.key), request |-> <<e.target, e.content>>] : e \in effect}

Answer(c) ==
  IF call[c].state \in {"done", "replayed", "refused"}
  THEN [slot |-> SlotOf(call[c].target, call[c].key), request |-> <<call[c].target, call[c].content>>,
        served |-> call[c].state # "refused"]
  ELSE None

Served == INSTANCE OnceOnly WITH
  done <- Done, told <- [c \in Call |-> Answer(c)],
  Slot <- {"before", "under", "both"} \X Key, Request <- Target \X Content

\* Lookups, locks and indexes implement a service that does what a key asks for once, and tells every
\* later call of that key the same, or that it asks for something else.
ServedOnce == Served!Spec
=============================================================================
