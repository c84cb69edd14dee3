---------------------- MODULE IdempotentCommandProofs ----------------------
(***************************************************************************)
(* For any number of calls, keys, rows and contents: a command that looks  *)
(* its key up under its lock serves every request once.                    *)
(***************************************************************************)
EXTENDS IdempotentCommand, TLAPS

\* No command looks its key up only before it takes its lock.
NoneLooksOnlyBefore == \A t \in Target : looks[t] # "before"

\* While a call is about to commit, under the lock of its row, nobody has served its request.
ReadyIsFresh ==
  \A c \in Call : call[c].state = "ready" /\ Looks(c) # "before" => ~\E e \in Prior(c) : Matches(e, c)

IInv == TypeOK /\ ReadyIsFresh

-----------------------------------------------------------------------------
LEMMA Initially == Init => IInv
BY CommandNone DEF Init, IInv, TypeOK, ReadyIsFresh, CallRow, Effect

\* A call and its row move on together.
LEMMA MoveKeepsType ==
  ASSUME TypeOK, NEW c \in Call, call[c].state \in Waiting, NEW state \in Waiting \cup Told,
         call' = To(c, state), effect' \subseteq Effect,
         \/ row' = row /\ (state \in {"locked", "ready"} <=> call[c].state \in {"locked", "ready"})
         \/ /\ row' = [row EXCEPT ![call[c].target].holder = c]
            /\ row[call[c].target].holder = None /\ state = "locked"
         \/ /\ call[c].state \in {"locked", "ready"} /\ state \in Told
            /\ \E busy \in BOOLEAN : row' = [row EXCEPT ![call[c].target] = [holder |-> None, busy |-> busy]]
  PROVE  TypeOK'
<1> DEFINE t == call[c].target
<1>1. t \in Target /\ call[c] \in CallRow /\ c # None
  BY CommandNone DEF TypeOK, Waiting
<1>2. call'[c] = [call[c] EXCEPT !.state = state] /\ \A d \in Call \ {c} : call'[d] = call[d]
  BY DEF To, TypeOK
<1>3. /\ call'[c].state = state /\ call'[c].key = call[c].key /\ call'[c].target = t
      /\ call'[c].content = call[c].content /\ call'[c] \in CallRow
  BY <1>1, <1>2 DEF CallRow, Waiting, Told
<1>4. call' \in [Call -> CallRow]
  BY <1>2, <1>3 DEF To, TypeOK
<1>5. \A d \in Call : call'[d].state # "new" =>
        call'[d].key \in Key /\ call'[d].target \in Target /\ call'[d].content \in Content
  BY <1>2, <1>3 DEF TypeOK, Waiting
<1> DEFINE Held == {"locked", "ready"}
<1>6. /\ row \in [Target -> [holder : Call \cup {None}, busy : BOOLEAN]]
      /\ \A d \in Call, u \in Target : row[u].holder = d <=> call[d].target = u /\ call[d].state \in Held
      /\ \A d \in Call : d # None
  BY CommandNone DEF TypeOK
<1> HIDE DEF Held, t
<1>7. /\ row' \in [Target -> [holder : Call \cup {None}, busy : BOOLEAN]]
      /\ \A d \in Call, u \in Target : row'[u].holder = d <=> call'[d].target = u /\ call'[d].state \in Held
  <2>1. CASE row' = row /\ (state \in Held <=> call[c].state \in Held)
    <3>1. ASSUME NEW d \in Call, NEW u \in Target
          PROVE  row'[u].holder = d <=> call'[d].target = u /\ call'[d].state \in Held
      <4>1. row'[u].holder = d <=> call[d].target = u /\ call[d].state \in Held
        BY <1>6, <2>1
      <4>2. CASE d = c
        BY <1>3, <2>1, <4>1, <4>2 DEF t
      <4>3. CASE d # c
        BY <1>2, <4>1, <4>3
      <4> QED BY <4>2, <4>3
    <3> QED BY <1>6, <2>1, <3>1
  <2>2. CASE row' = [row EXCEPT ![t].holder = c] /\ row[t].holder = None /\ state = "locked"
    <3>1. /\ row'[t] = [row[t] EXCEPT !.holder = c] /\ \A u \in Target \ {t} : row'[u] = row[u]
          /\ row'[t].holder = c /\ row' \in [Target -> [holder : Call \cup {None}, busy : BOOLEAN]]
      BY <1>1, <1>6, <2>2
    <3>2. state \in Held
      BY <2>2 DEF Held
    <3>3. ASSUME NEW d \in Call, NEW u \in Target
          PROVE  row'[u].holder = d <=> call'[d].target = u /\ call'[d].state \in Held
      <4>1. row[u].holder = d <=> call[d].target = u /\ call[d].state \in Held
        BY <1>6
      <4>2. row[t].holder = c <=> call[c].target = t /\ call[c].state \in Held
        BY <1>1, <1>6
      <4>3. row[u].holder = c <=> call[c].target = u /\ call[c].state \in Held
        BY <1>6
      <4>4. d # None /\ c # None
        BY <1>6
      <4>5. CASE d = c
        BY <1>3, <2>2, <3>1, <3>2, <4>2, <4>3, <4>4, <4>5 DEF t
      <4>6. CASE d # c
        BY <1>2, <2>2, <3>1, <4>1, <4>4, <4>6
      <4> QED BY <4>5, <4>6
    <3> QED BY <3>1, <3>3
  <2>3. ASSUME call[c].state \in Held, state \in Told, NEW busy \in BOOLEAN,
               row' = [row EXCEPT ![t] = [holder |-> None, busy |-> busy]]
        PROVE  /\ row' \in [Target -> [holder : Call \cup {None}, busy : BOOLEAN]]
               /\ \A d \in Call, u \in Target :
                    row'[u].holder = d <=> call'[d].target = u /\ call'[d].state \in Held
    <3>1. /\ row'[t].holder = None /\ \A u \in Target \ {t} : row'[u] = row[u]
          /\ row' \in [Target -> [holder : Call \cup {None}, busy : BOOLEAN]]
      BY <1>1, <1>6, <2>3
    <3>2. state \notin Held
      BY <2>3 DEF Told, Held
    <3>3. row[t].holder = c
      BY <1>1, <1>6, <2>3 DEF t
    <3>4. ASSUME NEW d \in Call, NEW u \in Target
          PROVE  row'[u].holder = d <=> call'[d].target = u /\ call'[d].state \in Held
      <4>1. /\ row[u].holder = d <=> call[d].target = u /\ call[d].state \in Held
            /\ row[t].holder = d <=> call[d].target = t /\ call[d].state \in Held
            /\ row[u].holder = c <=> call[c].target = u /\ call[c].state \in Held
        BY <1>1, <1>6
      <4>2. d # None
        BY <1>6
      <4>3. CASE d = c
        BY <1>3, <3>1, <3>2, <3>3, <4>1, <4>2, <4>3 DEF t
      <4>4. CASE d # c
        BY <1>2, <3>1, <3>3, <4>1, <4>2, <4>4
      <4> QED BY <4>3, <4>4
    <3> QED BY <3>1, <3>4
  <2> QED BY <2>1, <2>2, <2>3 DEF t, Held
<1> QED BY <1>4, <1>5, <1>7 DEF TypeOK, Held

\* The row of call c, released, is as a commit without change to what it refuses leaves it.
LEMMA UnlockedRow ==
  ASSUME TypeOK, NEW c \in Call, call[c].target \in Target
  PROVE  \E busy \in BOOLEAN : Unlocked(c) = [row EXCEPT ![call[c].target] = [holder |-> None, busy |-> busy]]
<1>1. row[call[c].target] \in [holder : Call \cup {None}, busy : BOOLEAN]
  BY DEF TypeOK
<1>2. [row[call[c].target] EXCEPT !.holder = None] = [holder |-> None, busy |-> row[call[c].target].busy]
  BY <1>1
<1>3. Unlocked(c) = [row EXCEPT ![call[c].target] = [holder |-> None, busy |-> row[call[c].target].busy]]
  BY <1>1, <1>2 DEF Unlocked
<1>4. row[call[c].target].busy \in BOOLEAN
  BY <1>1
<1> QED BY <1>3, <1>4

\* A call moves on: what it asked for stays, and the other calls stay.
LEMMA MoveFields ==
  ASSUME TypeOK, NEW c \in Call, call[c].state \in Waiting, NEW state, call' = To(c, state)
  PROVE  /\ call'[c].state = state /\ call'[c].key = call[c].key /\ call'[c].target = call[c].target
         /\ call'[c].content = call[c].content /\ \A d \in Call \ {c} : call'[d] = call[d]
         /\ call[c].key \in Key /\ call[c].target \in Target /\ call[c].content \in Content
<1>1. call'[c] = [call[c] EXCEPT !.state = state] /\ \A d \in Call \ {c} : call'[d] = call[d]
  BY DEF To, TypeOK
<1>2. call[c] \in CallRow
  BY DEF TypeOK
<1>3. call[c].key \in Key /\ call[c].target \in Target /\ call[c].content \in Content
  BY DEF TypeOK, Waiting
<1> QED BY <1>1, <1>2, <1>3 DEF CallRow

LEMMA SendFields ==
  ASSUME TypeOK, NEW c \in Call, NEW key \in Key, NEW target \in Target, NEW content \in Content,
         Send(c, key, target, content)
  PROVE  /\ call[c].state = "new" /\ call'[c].state = "sent" /\ call'[c].key = key
         /\ call'[c].target = target /\ call'[c].content = content /\ call'[c] \in CallRow
         /\ \A d \in Call \ {c} : call'[d] = call[d]
         /\ DOMAIN call' = Call /\ call' \in [Call -> CallRow]
         /\ UNCHANGED <<effect, row>>
<1> DEFINE r == [state |-> "sent", key |-> key, target |-> target, content |-> content]
<1>1. r \in CallRow
  BY DEF CallRow, Waiting
<1>2. call' = [call EXCEPT ![c] = r] /\ call[c].state = "new" /\ UNCHANGED <<effect, row>>
  BY DEF Send
<1> QED BY <1>1, <1>2 DEF TypeOK

LEMMA VerdictIs == ASSUME NEW c \in Call PROVE Verdict(c) \in {"replayed", "refused"}
BY DEF Verdict

-----------------------------------------------------------------------------
LEMMA NextType == TypeOK /\ [Next]_vars => TypeOK'
<1> SUFFICES ASSUME TypeOK, [Next]_vars PROVE TypeOK'
  OBVIOUS
<1> USE DEF Waiting, Told
<1>1. CASE UNCHANGED vars
  BY <1>1 DEF vars, TypeOK
<1>2. ASSUME NEW c \in Call, NEW key \in Key, NEW target \in Target, NEW content \in Content,
             Send(c, key, target, content)
      PROVE  TypeOK'
  <2>1. ASSUME NEW d \in Call, NEW u \in Target
        PROVE  row'[u].holder = d <=> call'[d].target = u /\ call'[d].state \in {"locked", "ready"}
    <3>1. row[u].holder = d <=> call[d].target = u /\ call[d].state \in {"locked", "ready"}
      BY DEF TypeOK
    <3>2. CASE d = c
      BY <1>2, <3>1, <3>2, SendFields
    <3>3. CASE d # c
      BY <1>2, <3>1, <3>3, SendFields
    <3> QED BY <3>2, <3>3
  <2>2. /\ call' \in [Call -> CallRow] /\ effect' = effect /\ row' = row
        /\ \A d \in Call : call'[d].state # "new" =>
             call'[d].key \in Key /\ call'[d].target \in Target /\ call'[d].content \in Content
    BY <1>2, SendFields DEF TypeOK
  <2> QED BY <2>1, <2>2 DEF TypeOK
<1>3. ASSUME NEW c \in Call, LookBefore(c)
      PROVE  TypeOK'
  <2>1. PICK state \in {"looked", "replayed", "refused"} : call' = To(c, state)
    BY <1>3, VerdictIs DEF LookBefore
  <2>2. call[c].state = "sent" /\ row' = row /\ effect' \subseteq Effect
    BY <1>3 DEF LookBefore, TypeOK
  <2> QED BY <2>1, <2>2, MoveKeepsType
<1>4. ASSUME NEW c \in Call, TakeRow(c)
      PROVE  TypeOK'
  BY <1>4, MoveKeepsType DEF TakeRow, TypeOK
<1>5. ASSUME NEW c \in Call, CheckUnder(c)
      PROVE  TypeOK'
  <2>1. call[c].target \in Target /\ call[c].state = "locked" /\ effect' \subseteq Effect
    BY <1>5 DEF CheckUnder, TypeOK
  <2>2. CASE call' = To(c, "ready") /\ UNCHANGED row
    BY <2>1, <2>2, MoveKeepsType
  <2>3. ASSUME NEW state \in {"replayed", "refused"}, call' = To(c, state), row' = Unlocked(c)
        PROVE  TypeOK'
    BY <2>1, <2>3, MoveKeepsType, UnlockedRow
  <2> QED BY <1>5, <2>2, <2>3, VerdictIs DEF CheckUnder, LooksAgain
<1>6. ASSUME NEW c \in Call, Commit(c)
      PROVE  TypeOK'
  <2>1. call[c].target \in Target /\ call[c].state = "ready"
    BY <1>6 DEF Commit, TypeOK
  <2>2. effect' \subseteq Effect
    BY <1>6 DEF Commit, TypeOK, Effect
  <2>3. PICK state \in {"done", "replayed", "refused"} : call' = To(c, state)
    BY <1>6, VerdictIs DEF Commit
  <2>4. \E busy \in BOOLEAN : row' = [row EXCEPT ![call[c].target] = [holder |-> None, busy |-> busy]]
    BY <1>6, <2>1, UnlockedRow DEF Commit
  <2> QED BY <2>1, <2>2, <2>3, <2>4, MoveKeepsType
<1>7. ASSUME NEW c \in Call, Cut(c)
      PROVE  TypeOK'
  <2>1. call[c].target \in Target /\ effect' \subseteq Effect /\ call' = To(c, "cut")
    BY <1>7 DEF Cut, TypeOK
  <2>2. row[call[c].target].holder = c <=> call[c].state \in {"locked", "ready"}
    BY <2>1 DEF TypeOK
  <2>3. CASE call[c].state \in {"locked", "ready"}
    BY <1>7, <2>1, <2>2, <2>3, MoveKeepsType, UnlockedRow DEF Cut
  <2>4. CASE call[c].state \notin {"locked", "ready"}
    BY <1>7, <2>1, <2>2, <2>4, MoveKeepsType DEF Cut
  <2> QED BY <2>3, <2>4
<1>8. ASSUME NEW t \in Target, Elsewhere(t)
      PROVE  TypeOK'
  <2> DEFINE Row == [holder : Call \cup {None}, busy : BOOLEAN]
             b == ~row[t].busy
             r == [row[t] EXCEPT !.busy = b]
  <2>0. row \in [Target -> Row] /\ row[t] \in Row /\ row' = [row EXCEPT ![t] = r]
    BY <1>8 DEF Elsewhere, TypeOK
  <2>1. b \in BOOLEAN
    OBVIOUS
  <2> HIDE DEF b
  <2>2. r \in Row /\ r.holder = row[t].holder
    BY <2>0, <2>1
  <2> HIDE DEF r
  <2>4. row' \in [Target -> Row] /\ \A u \in Target : row'[u].holder = row[u].holder
    BY <2>0, <2>2
  <2>3. UNCHANGED <<call, effect>>
    BY <1>8 DEF Elsewhere
  <2> QED BY <2>3, <2>4 DEF TypeOK
<1> QED BY <1>1, <1>2, <1>3, <1>4, <1>5, <1>6, <1>7, <1>8 DEF Next

-----------------------------------------------------------------------------
\* Two calls never hold one row.
LEMMA OneHolder ==
  ASSUME TypeOK, NEW c \in Call, NEW d \in Call, call[c].state = "ready", call[d].state = "ready",
         call[c].target = call[d].target
  PROVE  c = d
<1>1. call[c].target \in Target
  BY DEF TypeOK
<1>2. row[call[c].target].holder = c /\ row[call[d].target].holder = d
  BY <1>1 DEF TypeOK
<1> QED BY <1>2

LEMMA NextFresh == IInv /\ [Next]_vars => ReadyIsFresh'
<1> SUFFICES ASSUME IInv, [Next]_vars, NEW d \in Call, call'[d].state = "ready", Looks(d)' # "before"
             PROVE  ~\E e \in Prior(d)' : Matches(e, d)'
  BY DEF ReadyIsFresh
<1> USE DEF Waiting, Told
<1>0. TypeOK /\ ReadyIsFresh
  BY DEF IInv
<1>1. CASE UNCHANGED <<call, effect>>
  BY <1>0, <1>1 DEF ReadyIsFresh, Looks, Prior, Matches
<1>2. ASSUME NEW c \in Call, NEW key \in Key, NEW target \in Target, NEW content \in Content,
             Send(c, key, target, content)
      PROVE  ~\E e \in Prior(d)' : Matches(e, d)'
  BY <1>0, <1>2, SendFields DEF ReadyIsFresh, Looks, Prior, Matches
<1>3. ASSUME NEW c \in Call, call[c].state \in Waiting, NEW state, state # "ready", call' = To(c, state),
             UNCHANGED effect
      PROVE  ~\E e \in Prior(d)' : Matches(e, d)'
  BY <1>0, <1>3, MoveFields DEF ReadyIsFresh, Looks, Prior, Matches
<1>4. ASSUME NEW c \in Call, CheckUnder(c)
      PROVE  ~\E e \in Prior(d)' : Matches(e, d)'
  <2>1. call[c].state = "locked" /\ UNCHANGED effect
    BY <1>4 DEF CheckUnder, LooksAgain
  <2>2. CASE call' = To(c, "ready") /\ (Looks(c) = "before" \/ Prior(c) = {})
    BY <1>0, <2>1, <2>2, MoveFields DEF ReadyIsFresh, Looks, Prior, Matches
  <2>3. ASSUME NEW state \in {"replayed", "refused"}, call' = To(c, state)
        PROVE  ~\E e \in Prior(d)' : Matches(e, d)'
    BY <1>3, <2>1, <2>3
  <2> QED BY <1>4, <2>2, <2>3, VerdictIs DEF CheckUnder, LooksAgain
<1>5. ASSUME NEW c \in Call, Commit(c)
      PROVE  ~\E e \in Prior(d)' : Matches(e, d)'
  <2>1. call[c].state = "ready"
    BY <1>5 DEF Commit
  <2>2. PICK state \in {"done", "replayed", "refused"} : call' = To(c, state)
    BY <1>5, VerdictIs DEF Commit
  <2>3. CASE UNCHANGED effect
    BY <1>3, <2>1, <2>2, <2>3
  <2>4. CASE effect' = effect \cup
               {[key |-> call[c].key, target |-> call[c].target, content |-> call[c].content]}
    <3>1. d # c /\ call'[d] = call[d]
      BY <1>0, <2>1, <2>2, MoveFields
    <3>2. call[d].target # call[c].target
      BY <1>0, <2>1, <3>1, OneHolder
    <3> QED BY <1>0, <2>4, <3>1, <3>2 DEF ReadyIsFresh, Looks, Prior, Matches
  <2> QED BY <1>5, <2>3, <2>4 DEF Commit
<1>6. ASSUME NEW c \in Call, LookBefore(c) \/ TakeRow(c) \/ Cut(c)
      PROVE  ~\E e \in Prior(d)' : Matches(e, d)'
  <2>1. PICK state \in {"looked", "replayed", "refused", "locked", "cut"} : call' = To(c, state)
    BY <1>6, VerdictIs DEF LookBefore, TakeRow, Cut
  <2> QED BY <1>3, <1>6, <2>1 DEF LookBefore, TakeRow, Cut
<1> QED BY <1>1, <1>2, <1>4, <1>5, <1>6 DEF Next, vars, Elsewhere

-----------------------------------------------------------------------------
(* The refinement.                                                         *)

\* Done and the answers, where nothing is told.
LEMMA NothingTold ==
  ASSUME TypeOK, UNCHANGED effect,
         \A c \in Call : \/ call'[c] = call[c]
                          \/ /\ call[c].state \notin {"done", "replayed", "refused"}
                             /\ call'[c].state \notin {"done", "replayed", "refused"}
  PROVE  UNCHANGED Served!vars
<1>1. \A c \in Call : Answer(c)' = Answer(c)
  BY DEF Answer, SlotOf
<1>2. Done' = Done
  BY DEF Done, SlotOf
<1> QED BY <1>1, <1>2 DEF Served!vars

\* A call that is told something, and no other is.
LEMMA TellsOne ==
  ASSUME TypeOK, NEW c \in Call, call[c].state \in Waiting, NEW state \in {"done", "replayed", "refused"},
         call' = To(c, state)
  PROVE  LET k == SlotOf(call[c].target, call[c].key)
             r == <<call[c].target, call[c].content>>
         IN /\ k \in {"before", "under", "both"} \X Key /\ r \in Target \X Content
            /\ Answer(c) = None
            /\ Served!Tell(c, k, r, state # "refused")
<1> DEFINE k == SlotOf(call[c].target, call[c].key)
           r == <<call[c].target, call[c].content>>
           told == [d \in Call |-> Answer(d)]
           a == [slot |-> k, request |-> r, served |-> state # "refused"]
<1>1. /\ call'[c].state = state /\ call'[c].key = call[c].key /\ call'[c].target = call[c].target
      /\ call'[c].content = call[c].content /\ \A d \in Call \ {c} : call'[d] = call[d]
      /\ call[c].key \in Key /\ call[c].target \in Target /\ call[c].content \in Content
  BY MoveFields DEF Told
<1>2. k \in {"before", "under", "both"} \X Key /\ r \in Target \X Content
  BY <1>1, CommandLooks DEF SlotOf
<1>3. Answer(c) = None
  BY DEF Answer, Waiting
<1>4. Answer(c)' = a
  BY <1>1 DEF Answer, SlotOf
<1>5. \A d \in Call \ {c} : Answer(d)' = Answer(d)
  BY <1>1 DEF Answer, SlotOf
<1>6. [d \in Call |-> Answer(d)'] = [told EXCEPT ![c] = a]
  BY <1>4, <1>5
<1> QED BY <1>2, <1>3, <1>6 DEF Served!Tell

\* What Prior and Done say of each other.
LEMMA PriorIsDone ==
  ASSUME TypeOK, NEW c \in Call, call[c].target \in Target, call[c].key \in Key
  PROVE  LET k == SlotOf(call[c].target, call[c].key)
             r == <<call[c].target, call[c].content>>
         IN /\ [slot |-> k, request |-> r] \in Done <=> \E e \in Prior(c) : Matches(e, c)
            /\ Prior(c) = {} => \A d \in Done : d.slot # k
<1> DEFINE k == SlotOf(call[c].target, call[c].key)
           r == <<call[c].target, call[c].content>>
<1>1. ASSUME [slot |-> k, request |-> r] \in Done
      PROVE  \E e \in Prior(c) : Matches(e, c)
  <2>1. PICK e \in effect :
          [slot |-> k, request |-> r] = [slot |-> SlotOf(e.target, e.key), request |-> <<e.target, e.content>>]
    BY <1>1 DEF Done
  <2>2. k = SlotOf(e.target, e.key) /\ r = <<e.target, e.content>>
    BY <2>1
  <2>3. e.key = call[c].key /\ e.target = call[c].target /\ e.content = call[c].content
    BY <2>2 DEF SlotOf
  <2> QED BY <2>3 DEF Prior, Matches, Looks
<1>2. ASSUME NEW e \in Prior(c), Matches(e, c)
      PROVE  [slot |-> k, request |-> r] \in Done
  <2>1. e \in effect /\ SlotOf(e.target, e.key) = k /\ <<e.target, e.content>> = r
    BY <1>2 DEF Prior, Matches, Looks, SlotOf
  <2> QED BY <2>1 DEF Done
<1>3. ASSUME NEW d \in Done, d.slot = k
      PROVE  Prior(c) # {}
  <2>1. PICK e \in effect : d = [slot |-> SlotOf(e.target, e.key), request |-> <<e.target, e.content>>]
    BY DEF Done
  <2>2. SlotOf(e.target, e.key) = SlotOf(call[c].target, call[c].key)
    BY <1>3, <2>1
  <2>3. e.key = call[c].key /\ looks[e.target] = looks[call[c].target]
    BY <2>2 DEF SlotOf
  <2> QED BY <2>3 DEF Prior, Looks
<1> QED BY <1>1, <1>2, <1>3

\* An answer by verdict, or a refusal of what nobody served, is one the abstract service may give.
LEMMA Answers ==
  ASSUME TypeOK, NEW c \in Call, call[c].state \in Waiting, UNCHANGED effect,
         \/ call' = To(c, Verdict(c))
         \/ call' = To(c, "refused") /\ ~\E e \in Prior(c) : Matches(e, c)
  PROVE  Served!Next
<1> DEFINE k == SlotOf(call[c].target, call[c].key)
           r == <<call[c].target, call[c].content>>
<1>1. call[c].target \in Target /\ call[c].key \in Key
  BY DEF TypeOK, Waiting
<1>2. Done' = Done
  BY DEF Done, SlotOf
<1>3. [slot |-> k, request |-> r] \in Done <=> \E e \in Prior(c) : Matches(e, c)
  BY <1>1, PriorIsDone
<1>4. CASE call' = To(c, "refused") /\ ~\E e \in Prior(c) : Matches(e, c)
  <2>1. /\ k \in {"before", "under", "both"} \X Key /\ r \in Target \X Content
        /\ Answer(c) = None /\ Served!Tell(c, k, r, FALSE)
    BY <1>4, TellsOne
  <2>2. Served!Refuse(c, k, r)
    BY <1>2, <1>3, <1>4, <2>1 DEF Served!Refuse
  <2> QED BY <2>1, <2>2 DEF Served!Next
<1>5. CASE call' = To(c, "replayed") /\ \E e \in Prior(c) : Matches(e, c)
  <2>1. /\ k \in {"before", "under", "both"} \X Key /\ r \in Target \X Content
        /\ Answer(c) = None /\ Served!Tell(c, k, r, TRUE)
    BY <1>5, TellsOne
  <2>2. Served!Replay(c, k, r)
    BY <1>2, <1>3, <1>5, <2>1 DEF Served!Replay
  <2> QED BY <2>1, <2>2 DEF Served!Next
<1> QED BY <1>4, <1>5 DEF Verdict

LEMMA Serves ==
  ASSUME TypeOK, NEW c \in Call, Commit(c), Prior(c) = {}
  PROVE  Served!Next
<1> DEFINE k == SlotOf(call[c].target, call[c].key)
           r == <<call[c].target, call[c].content>>
           e == [key |-> call[c].key, target |-> call[c].target, content |-> call[c].content]
<1>1. call[c].state = "ready" /\ call' = To(c, "done") /\ effect' = effect \cup {e}
  BY DEF Commit
<1>2. call[c].target \in Target /\ call[c].key \in Key
  BY <1>1 DEF TypeOK
<1>3. /\ k \in {"before", "under", "both"} \X Key /\ r \in Target \X Content
      /\ Answer(c) = None /\ Served!Tell(c, k, r, TRUE)
  BY <1>1, TellsOne DEF Waiting
<1>4. \A d \in Done : d.slot # k
  BY <1>2, PriorIsDone
<1>5. SlotOf(e.target, e.key) = k /\ <<e.target, e.content>> = r
  BY DEF SlotOf
<1>6. Done' = Done \cup {[slot |-> k, request |-> r]}
  <2> HIDE DEF e, k, r
  <2> QED BY <1>1, <1>5 DEF Done, SlotOf
<1>7. Served!Serve(c, k, r)
  BY <1>3, <1>4, <1>6 DEF Served!Serve
<1> QED BY <1>3, <1>7 DEF Served!Next

\* With the lookup under the lock, no step refuses a request that was served.
LEMMA RefusesOnlyOthers ==
  ASSUME IInv, NoneLooksOnlyBefore, [Next]_vars, NEW c \in Call,
         call[c].state # "refused", call'[c].state = "refused"
  PROVE  /\ call[c].state \in Waiting /\ call' = To(c, "refused") /\ UNCHANGED effect
         /\ ~\E e \in Prior(c) : Matches(e, c)
<1> USE DEF Waiting, Told
<1>0. TypeOK /\ ReadyIsFresh
  BY DEF IInv
<1>1. PICK d \in Call : \/ LookBefore(d) \/ TakeRow(d) \/ CheckUnder(d) \/ Commit(d) \/ Cut(d)
                        \/ \E key \in Key, t \in Target, x \in Content : Send(d, key, t, x)
  BY DEF Next, vars, Elsewhere
<1>2. ~\E key \in Key, t \in Target, x \in Content : Send(d, key, t, x)
  BY <1>0, SendFields
<1>3. PICK state : call[d].state \in Waiting /\ call' = To(d, state)
  BY <1>1, <1>2 DEF LookBefore, TakeRow, CheckUnder, Commit, Cut
<1>4. d = c /\ state = "refused" /\ call' = To(c, "refused") /\ call[c].state \in Waiting
  BY <1>0, <1>3, MoveFields
<1>5. call[c].target \in Target
  BY <1>0, <1>4 DEF TypeOK
<1>6. \A s : call' = To(c, s) => s = "refused"
  BY <1>0, <1>4, MoveFields
<1>7. CASE Verdict(c) = "refused"
  <2>1. ~\E e \in Prior(c) : Matches(e, c)
    BY <1>7 DEF Verdict
  <2>2. UNCHANGED effect
    BY <1>1, <1>2, <1>4, <1>6 DEF LookBefore, TakeRow, CheckUnder, Commit, Cut
  <2> QED BY <1>4, <2>1, <2>2
<1>8. CASE Verdict(c) # "refused"
  <2>1. CASE CheckUnder(c)
    BY <1>4, <1>5, <1>6, <1>8, <2>1 DEF CheckUnder, LooksAgain, NoneLooksOnlyBefore, Looks
  <2>2. CASE Commit(c)
    BY <1>0, <1>4, <1>5, <1>6, <1>8, <2>2 DEF Commit, ReadyIsFresh, NoneLooksOnlyBefore, Looks
  <2>3. ~(LookBefore(c) \/ TakeRow(c) \/ Cut(c))
    BY <1>6, <1>8 DEF LookBefore, TakeRow, Cut
  <2> QED BY <1>1, <1>2, <1>4, <2>1, <2>2, <2>3
<1> QED BY <1>7, <1>8

\* Every step serves, replays or refuses as the abstract service may, or tells nobody anything.
LEMMA NextServes ==
  ASSUME IInv, NoneLooksOnlyBefore, [Next]_vars
  PROVE  Served!Next \/ UNCHANGED Served!vars
<1> USE DEF Waiting, Told
<1>0. TypeOK
  BY DEF IInv
<1>1. CASE UNCHANGED <<call, effect>>
  BY <1>0, <1>1, NothingTold
<1>2. ASSUME NEW c \in Call, NEW key \in Key, NEW target \in Target, NEW content \in Content,
             Send(c, key, target, content)
      PROVE  UNCHANGED Served!vars
  BY <1>0, <1>2, SendFields, NothingTold
<1>3. ASSUME NEW c \in Call, call[c].state \in Waiting, UNCHANGED effect,
             NEW state \in {"looked", "locked", "ready", "cut"}, call' = To(c, state)
      PROVE  UNCHANGED Served!vars
  BY <1>0, <1>3, MoveFields, NothingTold
<1>4. ASSUME NEW c \in Call, call[c].state \in Waiting, call' = To(c, "refused")
      PROVE  Served!Next
  <2>1. call'[c].state = "refused" /\ call[c].state # "refused"
    BY <1>0, <1>4, MoveFields
  <2> QED BY <1>0, <1>4, <2>1, RefusesOnlyOthers, Answers
<1>5. ASSUME NEW c \in Call, call[c].state \in Waiting, UNCHANGED effect, call' = To(c, Verdict(c))
      PROVE  Served!Next
  BY <1>0, <1>5, Answers
<1>6. ASSUME NEW c \in Call, LookBefore(c) \/ TakeRow(c) \/ CheckUnder(c) \/ Cut(c)
      PROVE  Served!Next \/ UNCHANGED Served!vars
  BY <1>3, <1>4, <1>5, <1>6 DEF LookBefore, TakeRow, CheckUnder, Cut
<1>7. ASSUME NEW c \in Call, Commit(c)
      PROVE  Served!Next
  <2>1. CASE Prior(c) = {}
    BY <1>0, <1>7, <2>1, Serves
  <2>2. CASE Prior(c) # {}
    BY <1>4, <1>5, <1>7, <2>2 DEF Commit
  <2> QED BY <2>1, <2>2
<1> QED BY <1>1, <1>2, <1>6, <1>7 DEF Next, vars, Elsewhere

-----------------------------------------------------------------------------
\* The type invariant, with who holds the lock of each row, and the freshness of what is about to
\* be committed hold in every reachable state, whenever the commands look.
THEOREM Inductive == Spec => []IInv
<1>1. IInv /\ [Next]_vars => IInv'
  BY NextType, NextFresh DEF IInv
<1> QED BY <1>1, Initially, PTL DEF Spec

THEOREM TypeCorrect == Spec => []TypeOK
<1>1. IInv => TypeOK
  BY DEF IInv
<1> QED BY <1>1, Inductive, PTL

\* If every command looks its key up under its lock, a repeated request is never refused, however
\* close it is to the first (it is what declare and refund do not guarantee).
THEOREM Replays == NoneLooksOnlyBefore /\ Spec => ReplaysTheAnswer
<1> DEFINE Step == \A c \in Call : call[c].state # "refused" /\ call'[c].state = "refused" =>
                     ~\E e \in Prior(c) : Matches(e, c)
<1>1. IInv /\ NoneLooksOnlyBefore /\ [Next]_vars => [Step]_vars
  BY RefusesOnlyOthers
<1>2. [][Step]_vars <=> ReplaysTheAnswer
  BY PTL DEF ReplaysTheAnswer
<1>3. NoneLooksOnlyBefore /\ [Next]_vars => NoneLooksOnlyBefore'
  BY DEF NoneLooksOnlyBefore
<1> QED BY <1>1, <1>2, <1>3, Inductive, PTL DEF Spec

\* If every command looks its key up under its lock, the commands implement a service that serves
\* each key once and tells every call of that key so.
THEOREM ServesOnce == NoneLooksOnlyBefore /\ Spec => ServedOnce
<1>1. Init => Served!Init
  BY DEF Init, Served!Init, Done, Answer
<1>2. IInv /\ NoneLooksOnlyBefore /\ [Next]_vars => [Served!Next]_(Served!vars)
  BY NextServes
<1>3. NoneLooksOnlyBefore /\ [Next]_vars => NoneLooksOnlyBefore'
  BY DEF NoneLooksOnlyBefore
<1>4. Served!Init /\ [][Served!Next]_(Served!vars) <=> ServedOnce
  BY DEF ServedOnce, Served!Spec
<1> QED BY <1>1, <1>2, <1>3, <1>4, Inductive, PTL DEF Spec
=============================================================================
