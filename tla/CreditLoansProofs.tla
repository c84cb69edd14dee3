------------------------- MODULE CreditLoansProofs -------------------------
(***************************************************************************)
(* Keys, references and reversals of CreditLoans, what its drawers hold,   *)
(* what its statuses say, what each payment is allocated to, the triggers  *)
(* of its tables and the account it implements, for any number of loans,   *)
(* payments, sessions, instalments and components.  The second part is     *)
(* about what Collections adds to it.                                      *)
(***************************************************************************)
EXTENDS Collections, LoanBackstops, Sums, FiniteSetTheorems, SequenceTheorems, TLAPS

\* The tables have one row per id, and what a command read under the lock of its loan still holds.
RowsAndLocks ==
  /\ DOMAIN payment = Payment /\ DOMAIN reversal = Payment /\ DOMAIN work = Loan
  /\ \A p \in Payment : payment[p].loan \in Loan \cup {None}
  /\ \A l \in Loan : work[l].kind = "pay" => work[l].pays.loan = l
  /\ \A l \in Loan : work[l].kind = "reverse" =>
       /\ work[l].of \in Payment
       /\ payment[work[l].of].loan = l
       /\ ~IsReversed(work[l].of)
       /\ work[l].undoes.by # None

\* Who reverses a payment takes its money from an own drawer of the branch that received it, if it
\* was received at a counter, and from none otherwise.
HandedBackProperly ==
  \A p \in Payment : 
    /\ reversal[p] # NoReversal => IsReversed(p) /\ payment[p].loan # None
    /\ reversal[p].session # None =>
         /\ cashierOf[reversal[p].session] = reversal[p].by
         /\ branchOf[reversal[p].session] = branchOf[payment[p].session]

IInv == RowsAndLocks /\ KeyHasOneEffect /\ HandedBackProperly

-----------------------------------------------------------------------------
LEMMA Initially == Init => IInv
BY LoanNone DEF Init, IInv, RowsAndLocks, KeyHasOneEffect, HandedBackProperly, NoPayment, NoReversal,
   NoCommand, IsReversed

\* The fields of a command when it takes its lock.
LEMMA PayFields ==
  ASSUME NEW row, NEW date
  PROVE  LET c == [NoCommand EXCEPT !.kind = "pay", !.date = date, !.pays = row]
         IN c.kind = "pay" /\ c.pays = row /\ c.date = date
BY DEF NoCommand

LEMMA ReverseFields ==
  ASSUME NEW row, NEW date, NEW p
  PROVE  LET c == [NoCommand EXCEPT !.kind = "reverse", !.of = p, !.date = date, !.undoes = row]
         IN c.kind = "reverse" /\ c.of = p /\ c.undoes = row /\ c.date = date
BY DEF NoCommand

\* The command of one loan was replaced and no row changed.
LEMMA OnlyWork ==
  ASSUME IInv, UNCHANGED <<payment, reversal>>, DOMAIN work' = Loan,
         NEW l \in Loan, \A m \in Loan \ {l} : work'[m] = work[m],
         work'[l].kind = "pay" => work'[l].pays.loan = l,
         work'[l].kind = "reverse" =>
           /\ work'[l].of \in Payment /\ payment[work'[l].of].loan = l
           /\ ~IsReversed(work'[l].of) /\ work'[l].undoes.by # None
  PROVE  IInv'
<1>1. RowsAndLocks'
  BY DEF IInv, RowsAndLocks, IsReversed
<1>2. KeyHasOneEffect' /\ HandedBackProperly'
  BY DEF IInv, KeyHasOneEffect, HandedBackProperly, IsReversed
<1> QED BY <1>1, <1>2 DEF IInv

LEMMA PreservedByLocks ==
  ASSUME IInv, NEW l \in Loan,
         \/ \E amount \in 1 .. Contract, s \in SessionId \cup {None}, key \in Key,
               reference \in Reference \cup {None} : LockToPay(l, amount, s, key, reference)
         \/ Abort(l)
  PROVE  IInv'
<1>1. CASE Abort(l)
  <2>1. DOMAIN work' = Loan /\ work'[l].kind = "none" /\ \A m \in Loan \ {l} : work'[m] = work[m]
    BY <1>1 DEF Abort, Released, NoCommand, IInv, RowsAndLocks
  <2> QED BY <1>1, <2>1, OnlyWork DEF Abort
<1>2. ASSUME NEW amount, NEW s, NEW key, NEW reference, LockToPay(l, amount, s, key, reference)
      PROVE  IInv'
  <2> DEFINE row == [loan |-> l, amount |-> amount, session |-> s, key |-> key,
                     reference |-> reference,
                     parts |-> Allocate(amount, Run(l, today), Outstanding(Applied(payment, reversal, l)))]
             c == [NoCommand EXCEPT !.kind = "pay", !.date = today, !.pays = row]
  <2>1. work' = [work EXCEPT ![l] = c] /\ UNCHANGED <<payment, reversal>>
    BY <1>2 DEF LockToPay
  <2>2. c.kind = "pay" /\ c.pays = row
    BY PayFields
  <2>3. row.loan = l
    OBVIOUS
  <2> HIDE DEF row, c
  <2>4. DOMAIN work' = Loan /\ work'[l] = c /\ \A m \in Loan \ {l} : work'[m] = work[m]
    BY <2>1 DEF IInv, RowsAndLocks
  <2> QED BY <2>1, <2>2, <2>3, <2>4, OnlyWork
<1> QED BY <1>1, <1>2

LEMMA PreservedByLockToReverse ==
  ASSUME IInv, NEW u \in User, NEW p \in Payment, NEW s \in SessionId \cup {None}, NEW key \in Key,
         LockToReverse(u, p, s, key)
  PROVE  IInv'
<1> DEFINE l == payment[p].loan
           row == [by |-> u, session |-> s, key |-> key, parts |-> payment[p].parts]
           c == [NoCommand EXCEPT !.kind = "reverse", !.of = p, !.date = today, !.undoes = row]
<1>1. work' = [work EXCEPT ![l] = c] /\ UNCHANGED <<payment, reversal>> /\ ~IsReversed(p)
  BY DEF LockToReverse, Reversible
<1>2. c.kind = "reverse" /\ c.of = p /\ c.undoes = row
  BY ReverseFields
<1>3. row.by # None
  BY LoanNone
<1>4. l \in Loan /\ payment[p].loan = l
  BY DEF LockToReverse, IInv, RowsAndLocks
<1> HIDE DEF l, row, c
<1>5. DOMAIN work' = Loan /\ work'[l] = c /\ \A m \in Loan \ {l} : work'[m] = work[m]
  BY <1>1, <1>4 DEF IInv, RowsAndLocks
<1> QED BY <1>1, <1>2, <1>3, <1>4, <1>5, OnlyWork

\* A payment is confirmed in a row that was empty; the keys it takes are in no other row.
LEMMA PreservedByCommitPayment ==
  ASSUME IInv, NEW l \in Loan, NEW p \in Payment, CommitPayment(l, p)
  PROVE  IInv'
<1> DEFINE row == work[l].pays
<1>1. /\ row.loan = l /\ payment[p] = NoPayment /\ KeyIsNew(row.key) /\ ReferenceIsNew(row.reference)
      /\ payment'[p] = row /\ DOMAIN payment' = Payment
      /\ \A q \in Payment \ {p} : payment'[q] = payment[q]
  BY DEF CommitPayment, PassesIndexes, IInv, RowsAndLocks
<1>2. /\ DOMAIN work' = Loan /\ work'[l].kind = "none" /\ \A m \in Loan \ {l} : work'[m] = work[m]
      /\ UNCHANGED reversal
  BY DEF CommitPayment, Released, NoCommand, IInv, RowsAndLocks
<1> HIDE DEF row
<1>3. payment[p].loan = None /\ l # None /\ None \notin Loan
  BY <1>1, LoanNone DEF NoPayment
<1>4. RowsAndLocks'
  BY <1>1, <1>2, <1>3 DEF IInv, RowsAndLocks, IsReversed
<1>5. KeyHasOneEffect'
  BY <1>1, <1>2 DEF IInv, KeyHasOneEffect, KeyIsNew, ReferenceIsNew
<1>6. reversal[p] = NoReversal /\ reversal[p].session = None
  BY <1>3 DEF IInv, HandedBackProperly, NoReversal
<1>7. HandedBackProperly'
  BY <1>1, <1>2, <1>3, <1>6 DEF IInv, HandedBackProperly, IsReversed
<1> QED BY <1>4, <1>5, <1>7 DEF IInv

\* What the step that commits a reversal does: the payment was not reversed before.
LEMMA CommitReversalFields ==
  ASSUME IInv, NEW l \in Loan, CommitReversal(l)
  PROVE  LET p == work[l].of
             row == work[l].undoes
         IN /\ p \in Payment /\ payment[p].loan = l /\ ~IsReversed(p) /\ row.by # None
            /\ ReversalKeyIsNew(row.key)
            /\ row.session # None => HandsBack(row, p)
            /\ reversal'[p] = row /\ DOMAIN reversal' = Payment
            /\ \A q \in Payment \ {p} : reversal'[q] = reversal[q]
            /\ UNCHANGED payment
BY DEF CommitReversal, IInv, RowsAndLocks

LEMMA PreservedByCommitReversal ==
  ASSUME IInv, NEW l \in Loan, CommitReversal(l)
  PROVE  IInv'
<1> DEFINE p == work[l].of
           row == work[l].undoes
<1>1. /\ p \in Payment /\ payment[p].loan = l /\ row.by # None /\ ReversalKeyIsNew(row.key)
      /\ row.session # None => HandsBack(row, p)
      /\ reversal'[p] = row /\ DOMAIN reversal' = Payment
      /\ \A q \in Payment \ {p} : reversal'[q] = reversal[q]
      /\ UNCHANGED payment
  BY CommitReversalFields
<1>2. DOMAIN work' = Loan /\ work'[l].kind = "none" /\ \A m \in Loan \ {l} : work'[m] = work[m]
  BY DEF CommitReversal, Released, NoCommand, IInv, RowsAndLocks
<1> HIDE DEF p, row
<1>3. l # None
  BY LoanNone
<1>4. RowsAndLocks'
  BY <1>1, <1>2 DEF IInv, RowsAndLocks, IsReversed
<1>5. KeyHasOneEffect'
  BY <1>1 DEF IInv, KeyHasOneEffect, ReversalKeyIsNew
<1>6. HandedBackProperly'
  BY <1>1, <1>3 DEF IInv, HandedBackProperly, IsReversed, HandsBack
<1> QED BY <1>4, <1>5, <1>6 DEF IInv

LEMMA PreservedByTheRest ==
  ASSUME IInv, UNCHANGED <<payment, reversal, work>>
  PROVE  IInv'
BY DEF IInv, RowsAndLocks, KeyHasOneEffect, HandedBackProperly, IsReversed

-----------------------------------------------------------------------------
\* What the commands of Next do to the rows and locks of the loan.
LEMMA Preserved ==
  ASSUME IInv, [Next]_vars
  PROVE  IInv'
<1>1. CASE UNCHANGED vars
  BY <1>1, PreservedByTheRest DEF vars
<1>2. ASSUME NEW l \in Loan, NEW s \in SessionId, Disburse(l, s)
      PROVE  IInv'
  BY <1>2, PreservedByTheRest DEF Disburse
<1>3. ASSUME NEW l \in Loan, NEW amount \in 1 .. Contract, NEW s \in SessionId \cup {None},
             NEW key \in Key, NEW reference \in Reference \cup {None},
             LockToPay(l, amount, s, key, reference)
      PROVE  IInv'
  BY <1>3, PreservedByLocks
<1>4. ASSUME NEW l \in Loan, NEW p \in Payment, CommitPayment(l, p)
      PROVE  IInv'
  BY <1>4, PreservedByCommitPayment
<1>5. ASSUME NEW l \in Loan, CommitReversal(l)
      PROVE  IInv'
  BY <1>5, PreservedByCommitReversal
<1>6. ASSUME NEW l \in Loan, Abort(l)
      PROVE  IInv'
  BY <1>6, PreservedByLocks
<1>7. ASSUME NEW l \in Loan, Assess(l)
      PROVE  IInv'
  BY <1>7, PreservedByTheRest DEF Assess
<1>8. ASSUME NEW u \in User, NEW p \in Payment, NEW s \in SessionId \cup {None}, NEW key \in Key,
             LockToReverse(u, p, s, key)
      PROVE  IInv'
  BY <1>8, PreservedByLockToReverse
<1>9. CASE NextDay
  BY <1>9, PreservedByTheRest DEF NextDay
<1>10. ASSUME NEW s \in SessionId, (\E fund \in 0 .. MaxFund : OpenDrawer(s, fund)) \/ CloseDrawer(s)
       PROVE  IInv'
  BY <1>10, PreservedByTheRest DEF OpenDrawer, CloseDrawer
<1> QED BY <1>1, <1>2, <1>3, <1>4, <1>5, <1>6, <1>7, <1>8, <1>9, <1>10 DEF Next

\* Every reachable state satisfies the invariant.
THEOREM Inductive == Spec => []IInv
BY Initially, Preserved, PTL DEF Spec

\* One idempotency key, and one external reference, makes one payment, whatever loans it was sent
\* for at once; one key makes one reversal.
THEOREM OneEffect == Spec => []KeyHasOneEffect
<1>1. IInv => KeyHasOneEffect
  BY DEF IInv
<1> QED BY <1>1, Inductive, PTL

\* The money of a reversal leaves an own drawer of the branch that received the payment.
THEOREM HandedBack == Spec => []HandedBackProperly
<1>1. IInv => HandedBackProperly
  BY DEF IInv
<1> QED BY <1>1, Inductive, PTL

\* A confirmed payment is never rewritten and a payment is reversed at most once: a reversal that
\* found the payment standing under the lock of its loan still finds it so when it commits.
THEOREM Final == Spec => HistoryStands
<1> DEFINE Stands ==
      \A p \in Payment : /\ payment[p].loan # None => payment'[p] = payment[p]
                         /\ IsReversed(p) => reversal'[p] = reversal[p]
<1>1. ASSUME IInv, [Next]_vars
      PROVE  Stands \/ UNCHANGED vars
  <2>1. CASE UNCHANGED <<payment, reversal>>
    BY <2>1
  <2>2. ASSUME NEW l \in Loan, NEW q \in Payment, CommitPayment(l, q)
        PROVE  Stands
    BY <1>1, <2>2 DEF CommitPayment, NoPayment, IInv, RowsAndLocks
  <2>3. ASSUME NEW l \in Loan, CommitReversal(l)
        PROVE  Stands
    BY <1>1, <2>3, CommitReversalFields
  <2> QED BY <1>1, <2>1, <2>2, <2>3 DEF Next, vars, Disburse, LockToPay, Abort, Assess, LockToReverse,
             NextDay, OpenDrawer, CloseDrawer
<1>2. [][Stands]_vars <=> HistoryStands
  BY PTL DEF HistoryStands
<1> QED BY <1>1, <1>2, Inductive, PTL DEF Spec

-----------------------------------------------------------------------------
(* Drawers and statuses.  Amounts are summed over the payments of one      *)
(* drawer, or of one loan, always finitely many.                           *)

Amount == [p \in Payment |-> payment[p].amount]
ReceivedIn(s) == {p \in Payment : payment[p].session = s}
HandedOutOf(s) == {p \in Payment : reversal[p].session = s}
LentFrom(s) == {l \in Loan : loan[l].funded = s}

Balanced(s) ==
  drawer[s].balance = drawer[s].fund + SumOver(Amount, ReceivedIn(s))
                      - SumOver(Amount, HandedOutOf(s)) - Principal * Cardinality(LentFrom(s))

\* The rows of the tables that money moves through have their columns.
MoneyTypes ==
  /\ today \in Day
  /\ loan \in [Loan -> LoanRow]
  /\ drawer \in [SessionId -> [state : {"unopened", "open", "closed"}, balance : Nat, fund : Nat]]
  /\ \A p \in Payment : payment[p].amount \in Nat /\ payment[p].session \in SessionId \cup {None}
  /\ \A p \in Payment : reversal[p].session \in SessionId \cup {None}
  /\ \A l \in Loan : work[l].kind = "pay" =>
       work[l].pays.amount \in Nat /\ work[l].pays.session \in SessionId \cup {None}
  /\ \A l \in Loan : work[l].kind = "reverse" => work[l].undoes.session \in SessionId \cup {None}

\* Only so many payments and loans were ever made, and what was not made holds no money.
FinitelyMany ==
  /\ IsFiniteSet({p \in Payment : payment[p].loan # None})
  /\ IsFiniteSet({l \in Loan : loan[l].status # "none"})
  /\ \A p \in Payment : payment[p].loan = None => payment[p] = NoPayment
  /\ \A l \in Loan : loan[l].status = "none" => loan[l].funded = None
  /\ \A s \in SessionId :
       drawer[s].state = "unopened" => drawer[s].balance = 0 /\ drawer[s].fund = 0

\* Only a loan that was disbursed is paid, on a day that has come.
OnlyDisbursed ==
  /\ \A p \in Payment : payment[p].loan # None => loan[payment[p].loan].status # "none"
  /\ \A l \in Loan : work[l].kind = "pay" => loan[l].status # "none"
  /\ \A l \in Loan : work[l].kind \in {"pay", "reverse"} => work[l].date \in Day /\ work[l].date <= today

Books == MoneyTypes /\ FinitelyMany /\ OnlyDisbursed /\ \A s \in SessionId : Balanced(s)

\* The principal of the contract is a natural number.
LEMMA PrincipalType == Principal \in Nat
<1> DEFINE f == [k \in Instalment |-> Due[<<k, "principal">>]]
<1>1. IsFiniteSet(Instalment)
  BY LoanContract, FS_Interval DEF Instalment
<1>2. \A k \in Instalment : f[k] \in Nat
  BY LoanContract DEF Slot
<1>3. PICK k : IsTable(f, Instalment, k)
  BY <1>1, TableExists
<1> DEFINE m == CHOOSE m : m = [s \in SUBSET Instalment |->
                  IF s = {} THEN 0 ELSE Due[<<Chosen(s), "principal">>] + m[s \ {Chosen(s)}]]
<1>4. \A x : IsTable(f, Instalment, x) <=>
        x = [s \in SUBSET Instalment |->
              IF s = {} THEN 0 ELSE Due[<<Chosen(s), "principal">>] + x[s \ {Chosen(s)}]]
  BY ChosenIn DEF IsTable
<1>5. IsTable(f, Instalment, m)
  BY <1>3, <1>4
<1>6. Principal = m[Instalment]
  BY DEF Principal, MapThenSumSet, MapThenFoldSet, Chosen
<1> HIDE DEF f, m
<1>7. m[Instalment] \in Nat
  BY <1>1, <1>2, <1>5, TableOfNaturals
<1> QED BY <1>6, <1>7

\* The sum of the amounts of some rows, as CreditLoans writes it.
LEMMA AmountsAreSums ==
  ASSUME NEW pay, NEW S, IsFiniteSet(S), NEW f, \A p \in S : f[p] = pay[p].amount
  PROVE  MapThenSumSet(LAMBDA p : pay[p].amount, S) = SumOver(f, S)
<1>1. PICK k : IsTable(f, S, k)
  BY TableExists
<1> DEFINE m == CHOOSE m : m = [s \in SUBSET S |->
                  IF s = {} THEN 0 ELSE pay[Chosen(s)].amount + m[s \ {Chosen(s)}]]
<1>2. \A x : IsTable(f, S, x) <=>
        x = [s \in SUBSET S |-> IF s = {} THEN 0 ELSE pay[Chosen(s)].amount + x[s \ {Chosen(s)}]]
  BY ChosenIn DEF IsTable
<1>3. IsTable(f, S, m)
  BY <1>1, <1>2
<1>4. MapThenSumSet(LAMBDA p : pay[p].amount, S) = m[S]
  BY DEF MapThenSumSet, MapThenFoldSet, Chosen
<1> HIDE DEF m
<1> QED BY <1>3, <1>4, SumInTable

LEMMA BooksInitially == Init => Books
<1> SUFFICES ASSUME Init PROVE Books
  OBVIOUS
<1>1. MoneyTypes
  BY LoanBounds DEF Init, MoneyTypes, LoanRow, NoLoan, NoPayment, NoReversal, NoCommand, Day
<1>2. FinitelyMany
  <2>1. {p \in Payment : payment[p].loan # None} = {} /\ {l \in Loan : loan[l].status # "none"} = {}
    BY DEF Init, NoPayment, NoLoan
  <2> QED BY <2>1, FS_EmptySet DEF Init, FinitelyMany, NoPayment, NoLoan
<1>4. OnlyDisbursed
  BY DEF Init, OnlyDisbursed, NoPayment, NoCommand
<1>3. ASSUME NEW s \in SessionId PROVE Balanced(s)
  <2>1. ReceivedIn(s) = {} /\ HandedOutOf(s) = {} /\ LentFrom(s) = {}
    BY LoanNone DEF Init, ReceivedIn, HandedOutOf, LentFrom, NoPayment, NoReversal, NoLoan
  <2>2. Principal * Cardinality(LentFrom(s)) = 0
    BY <2>1, PrincipalType, FS_EmptySet
  <2>3. drawer[s].balance = 0 /\ drawer[s].fund = 0
    BY DEF Init
  <2> QED BY <2>1, <2>2, <2>3, SumOfNone DEF Balanced
<1> QED BY <1>1, <1>2, <1>3, <1>4 DEF Books

\* The sets that are summed over are finite.
LEMMA Finite ==
  ASSUME IInv, Books, NEW s \in SessionId
  PROVE  /\ IsFiniteSet(ReceivedIn(s)) /\ IsFiniteSet(HandedOutOf(s)) /\ IsFiniteSet(LentFrom(s))
         /\ SumOver(Amount, ReceivedIn(s)) \in Nat /\ SumOver(Amount, HandedOutOf(s)) \in Nat
         /\ Cardinality(LentFrom(s)) \in Nat
<1>1. ReceivedIn(s) \subseteq {p \in Payment : payment[p].loan # None}
  BY LoanNone DEF Books, FinitelyMany, ReceivedIn, NoPayment
<1>2. HandedOutOf(s) \subseteq {p \in Payment : payment[p].loan # None}
  BY LoanNone DEF IInv, HandedBackProperly, HandedOutOf, NoReversal
<1>3. LentFrom(s) \subseteq {l \in Loan : loan[l].status # "none"}
  BY LoanNone DEF Books, FinitelyMany, LentFrom
<1>4. IsFiniteSet(ReceivedIn(s)) /\ IsFiniteSet(HandedOutOf(s)) /\ IsFiniteSet(LentFrom(s))
  BY <1>1, <1>2, <1>3, FS_Subset DEF Books, FinitelyMany
<1>5. \A p \in Payment : Amount[p] \in Nat
  BY DEF Books, MoneyTypes, Amount
<1>6. (\A p \in ReceivedIn(s) : Amount[p] \in Nat) /\ \A p \in HandedOutOf(s) : Amount[p] \in Nat
  BY <1>5 DEF ReceivedIn, HandedOutOf
<1>7. SumOver(Amount, ReceivedIn(s)) \in Nat /\ SumOver(Amount, HandedOutOf(s)) \in Nat
  BY <1>4, <1>6, SumIsNatural
<1> QED BY <1>4, <1>7, FS_CardinalityType

\* The money of one drawer did not move: neither did its sums.
LEMMA SameSums ==
  ASSUME UNCHANGED <<payment, reversal, loan>>, NEW s \in SessionId
  PROVE  /\ SumOver(Amount, ReceivedIn(s))' = SumOver(Amount, ReceivedIn(s))
         /\ SumOver(Amount, HandedOutOf(s))' = SumOver(Amount, HandedOutOf(s))
         /\ LentFrom(s)' = LentFrom(s)
<1>1. Amount' = Amount /\ ReceivedIn(s)' = ReceivedIn(s) /\ HandedOutOf(s)' = HandedOutOf(s)
      /\ LentFrom(s)' = LentFrom(s)
  BY DEF Amount, ReceivedIn, HandedOutOf, LentFrom
<1> QED BY <1>1

\* Steps that only lock, or give a lock up.
LEMMA BooksUnderLocks ==
  ASSUME IInv, Books, UNCHANGED <<today, loan, payment, reversal, drawer>>,
         NEW l \in Loan, \A m \in Loan \ {l} : work'[m] = work[m],
         work'[l].kind = "pay" =>
           /\ work'[l].pays.amount \in Nat /\ work'[l].pays.session \in SessionId \cup {None}
           /\ loan[l].status # "none",
         work'[l].kind \in {"pay", "reverse"} => work'[l].date \in Day /\ work'[l].date <= today,
         work'[l].kind = "reverse" => work'[l].undoes.session \in SessionId \cup {None}
  PROVE  Books'
<1>1. MoneyTypes' /\ FinitelyMany'
  BY DEF Books, MoneyTypes, FinitelyMany
<1>2. OnlyDisbursed'
  BY DEF Books, OnlyDisbursed
<1>3. \A s \in SessionId : Balanced(s)'
  BY SameSums DEF Books, Balanced
<1> QED BY <1>1, <1>2, <1>3 DEF Books

LEMMA LockFields ==
  ASSUME IInv, NEW l \in Loan, NEW c, work' = [work EXCEPT ![l] = c]
  PROVE  work'[l] = c /\ \A m \in Loan \ {l} : work'[m] = work[m]
BY DEF IInv, RowsAndLocks

LEMMA BooksByLocks ==
  ASSUME IInv, Books, NEW l \in Loan,
         \/ \E amount \in 1 .. Contract, s \in SessionId \cup {None}, key \in Key,
               reference \in Reference \cup {None} : LockToPay(l, amount, s, key, reference)
         \/ Abort(l)
  PROVE  Books'
<1>1. CASE Abort(l)
  <2>1. work'[l] = NoCommand /\ \A m \in Loan \ {l} : work'[m] = work[m]
    BY <1>1, LockFields DEF Abort, Released
  <2>2. NoCommand.kind = "none"
    BY DEF NoCommand
  <2> QED BY <1>1, <2>1, <2>2, BooksUnderLocks DEF Abort
<1>2. ASSUME NEW amount \in 1 .. Contract, NEW s \in SessionId \cup {None}, NEW key, NEW reference,
             LockToPay(l, amount, s, key, reference)
      PROVE  Books'
  <2> DEFINE row == [loan |-> l, amount |-> amount, session |-> s, key |-> key,
                     reference |-> reference,
                     parts |-> Allocate(amount, Run(l, today), Outstanding(Applied(payment, reversal, l)))]
             c == [NoCommand EXCEPT !.kind = "pay", !.date = today, !.pays = row]
  <2>1. work' = [work EXCEPT ![l] = c] /\ UNCHANGED <<today, loan, payment, reversal, drawer>>
    BY <1>2 DEF LockToPay
  <2>2. c.kind = "pay" /\ c.pays = row /\ c.date = today
    BY PayFields
  <2>3. row.amount = amount /\ row.session = s
    OBVIOUS
  <2> HIDE DEF row, c
  <2>4. amount \in Nat /\ today \in Day /\ today <= today
    BY DEF Books, MoneyTypes, Day
  <2>6. loan[l].status # "none"
    BY <1>2 DEF LockToPay
  <2>5. work'[l] = c /\ \A m \in Loan \ {l} : work'[m] = work[m]
    BY <2>1, LockFields
  <2> QED BY <2>1, <2>2, <2>3, <2>4, <2>5, <2>6, BooksUnderLocks
<1> QED BY <1>1, <1>2

LEMMA BooksByLockToReverse ==
  ASSUME IInv, Books, NEW u \in User, NEW p \in Payment, NEW s \in SessionId \cup {None},
         NEW key \in Key, LockToReverse(u, p, s, key)
  PROVE  Books'
<1> DEFINE l == payment[p].loan
           row == [by |-> u, session |-> s, key |-> key, parts |-> payment[p].parts]
           c == [NoCommand EXCEPT !.kind = "reverse", !.of = p, !.date = today, !.undoes = row]
<1>1. work' = [work EXCEPT ![l] = c] /\ UNCHANGED <<today, loan, payment, reversal, drawer>>
  BY DEF LockToReverse
<1>2. c.kind = "reverse" /\ c.of = p /\ c.undoes = row /\ c.date = today
  BY ReverseFields
<1>3. row.session = s /\ today \in Day /\ today <= today
  BY DEF Books, MoneyTypes, Day
<1>4. l \in Loan
  BY DEF LockToReverse, IInv, RowsAndLocks
<1> HIDE DEF l, row, c
<1>5. work'[l] = c /\ \A m \in Loan \ {l} : work'[m] = work[m]
  BY <1>1, <1>4, LockFields
<1> QED BY <1>1, <1>2, <1>3, <1>4, <1>5, BooksUnderLocks

LEMMA OneTimesMore == ASSUME NEW a \in Nat, NEW n \in Nat PROVE a * (n + 1) = a * n + a
OBVIOUS

\* A disbursement takes the principal out of the drawer that funds it.
LEMMA BooksByDisburse ==
  ASSUME IInv, Books, NEW l \in Loan, NEW s \in SessionId, Disburse(l, s)
  PROVE  Books'
<1> DEFINE row == [NoLoan EXCEPT !.status = "active", !.since = today, !.funded = s]
<1>1. /\ drawer' = [drawer EXCEPT ![s].balance = @ + (-Principal)] /\ drawer[s].balance - Principal >= 0
      /\ drawer[s].state = "open" /\ loan[l].status = "none" /\ loan' = [loan EXCEPT ![l] = row]
      /\ UNCHANGED <<today, payment, reversal, work>>
  BY DEF Disburse, Moved, Covers, IsOpen
<1>2. row.status = "active" /\ row.funded = s /\ row \in LoanRow
  BY DEF NoLoan, LoanRow, Books, MoneyTypes
<1> HIDE DEF row
<1>3. drawer'[s] = [drawer[s] EXCEPT !.balance = drawer[s].balance - Principal]
      /\ \A t \in SessionId \ {s} : drawer'[t] = drawer[t]
  BY <1>1, PrincipalType DEF Books, MoneyTypes
<1>4. loan'[l] = row /\ \A m \in Loan \ {l} : loan'[m] = loan[m]
  BY <1>1 DEF Books, MoneyTypes
<1>5. drawer[s].balance - Principal \in Nat
  BY <1>1, PrincipalType DEF Books, MoneyTypes
<1>6. drawer' \in [SessionId -> [state : {"unopened", "open", "closed"}, balance : Nat, fund : Nat]]
  <2>1. drawer' = [t \in SessionId |-> drawer'[t]]
    BY <1>1 DEF Books, MoneyTypes
  <2>2. drawer'[s] \in [state : {"unopened", "open", "closed"}, balance : Nat, fund : Nat]
    BY <1>3, <1>5 DEF Books, MoneyTypes
  <2> QED BY <2>1, <2>2, <1>3 DEF Books, MoneyTypes
<1>7. MoneyTypes'
  BY <1>1, <1>2, <1>6 DEF Books, MoneyTypes
<1>8. FinitelyMany'
  <2>1. {m \in Loan : loan'[m].status # "none"} = {m \in Loan : loan[m].status # "none"} \cup {l}
    BY <1>2, <1>4
  <2>2. IsFiniteSet({m \in Loan : loan'[m].status # "none"})
    BY <2>1, FS_AddElement DEF Books, FinitelyMany
  <2>3. drawer'[s].state = "open"
    BY <1>1, <1>3 DEF Books, MoneyTypes
  <2> QED BY <1>1, <1>2, <1>3, <1>4, <2>2, <2>3 DEF Books, FinitelyMany
<1>10. OnlyDisbursed'
  BY <1>1, <1>2, <1>4 DEF Books, OnlyDisbursed
<1>9. ASSUME NEW t \in SessionId PROVE Balanced(t)'
  <2>1. Amount' = Amount /\ ReceivedIn(t)' = ReceivedIn(t) /\ HandedOutOf(t)' = HandedOutOf(t)
    BY <1>1 DEF Amount, ReceivedIn, HandedOutOf
  <2>2. CASE t = s
    <3>1. l \notin LentFrom(s) /\ LentFrom(s)' = LentFrom(s) \cup {l}
      BY <1>1, <1>2, <1>4, LoanNone DEF LentFrom, Books, FinitelyMany
    <3>2. Cardinality(LentFrom(s))' = Cardinality(LentFrom(s)) + 1
      BY <3>1, Finite, FS_AddElement
    <3>3. Principal * (Cardinality(LentFrom(s)) + 1) = Principal * Cardinality(LentFrom(s)) + Principal
      BY Finite, PrincipalType, OneTimesMore
    <3>4. drawer'[s].balance = drawer[s].balance - Principal /\ drawer'[s].fund = drawer[s].fund
      BY <1>3 DEF Books, MoneyTypes
    <3> DEFINE owed == Principal * Cardinality(LentFrom(s))
    <3>5. owed \in Nat /\ drawer[s].balance \in Nat /\ drawer[s].fund \in Nat
      BY Finite, PrincipalType DEF Books, MoneyTypes
    <3>6. Principal * Cardinality(LentFrom(s))' = owed + Principal
      BY <3>2, <3>3
    <3>7. drawer[s].balance = drawer[s].fund + SumOver(Amount, ReceivedIn(s))
                              - SumOver(Amount, HandedOutOf(s)) - owed
      BY DEF Books, Balanced
    <3> HIDE DEF owed
    <3>8. drawer[s].balance - Principal = drawer[s].fund + SumOver(Amount, ReceivedIn(s))
                              - SumOver(Amount, HandedOutOf(s)) - (owed + Principal)
      BY <3>5, <3>7, Finite, PrincipalType
    <3> QED BY <2>1, <2>2, <3>4, <3>6, <3>8 DEF Balanced
  <2>3. CASE t # s
    <3>1. LentFrom(t)' = LentFrom(t)
      BY <1>1, <1>2, <1>4, <2>3, LoanNone DEF LentFrom, Books, FinitelyMany
    <3> QED BY <2>1, <2>3, <3>1, <1>3 DEF Balanced, Books
  <2> QED BY <2>2, <2>3
<1> QED BY <1>7, <1>8, <1>9, <1>10 DEF Books

DrawerRow == [state : {"unopened", "open", "closed"}, balance : Nat, fund : Nat]

LEMMA MovedFields ==
  ASSUME Books, NEW s \in SessionId, NEW amount \in Int, drawer[s].balance + amount \in Nat,
         drawer' = Moved(s, amount)
  PROVE  /\ drawer' \in [SessionId -> DrawerRow]
         /\ drawer'[s].balance = drawer[s].balance + amount
         /\ drawer'[s].fund = drawer[s].fund /\ drawer'[s].state = drawer[s].state
         /\ \A t \in SessionId \ {s} : drawer'[t] = drawer[t]
<1>1. /\ drawer'[s] = [drawer[s] EXCEPT !.balance = drawer[s].balance + amount]
      /\ \A t \in SessionId \ {s} : drawer'[t] = drawer[t]
      /\ drawer' = [t \in SessionId |-> drawer'[t]]
  BY DEF Moved, Books, MoneyTypes
<1>2. /\ drawer'[s] \in DrawerRow
      /\ drawer'[s].balance = drawer[s].balance + amount
      /\ drawer'[s].fund = drawer[s].fund /\ drawer'[s].state = drawer[s].state
  BY <1>1 DEF Books, MoneyTypes, DrawerRow
<1>3. drawer' \in [SessionId -> DrawerRow]
  BY <1>1, <1>2 DEF Books, MoneyTypes, DrawerRow
<1> QED BY <1>1, <1>2, <1>3

LEMMA ProjectedFields ==
  ASSUME Books, NEW l \in Loan, NEW pay, NEW rev, NEW date
  PROVE  LET row == Projected(l, pay, rev, date)
             applied == Applied(pay, rev, l)
         IN /\ row \in LoanRow
            /\ row.status = LoanStatus(l, applied, date)
            /\ row.status # "none"
            /\ row.funded = loan[l].funded /\ row.since = loan[l].since
            /\ \A k \in Instalment : row.obligation[k] = ObligationStatus(applied, k)
<1> DEFINE applied == Applied(pay, rev, l)
           obligation == [k \in Instalment |-> ObligationStatus(applied, k)]
           status == LoanStatus(l, applied, date)
           row == [loan[l] EXCEPT !.obligation = obligation, !.status = status]
<1>1. Projected(l, pay, rev, date) = row
  BY DEF Projected
<1>2. obligation \in [Instalment -> {"pending", "partially_paid", "paid"}]
  BY DEF ObligationStatus
<1>3. status \in {"active", "past_due", "paid"}
  BY DEF LoanStatus
<1>4. \A k \in Instalment : obligation[k] = ObligationStatus(applied, k)
  OBVIOUS
<1>5. loan[l] \in LoanRow
  BY DEF Books, MoneyTypes
<1> HIDE DEF applied, obligation, status
<1>6. row \in LoanRow /\ row.status = status /\ row.obligation = obligation
      /\ row.funded = loan[l].funded /\ row.since = loan[l].since
  BY <1>2, <1>3, <1>5 DEF LoanRow
<1> QED BY <1>1, <1>3, <1>4, <1>6 DEF applied, status

\* What the change of one row of the loans to a disbursed status leaves of the sets of loans.
LEMMA SameLoans ==
  ASSUME Books, NEW l \in Loan, NEW row, loan' = [loan EXCEPT ![l] = row], row \in LoanRow,
         row.status # "none", row.funded = loan[l].funded, loan[l].status # "none"
  PROVE  /\ loan' \in [Loan -> LoanRow]
         /\ {m \in Loan : loan'[m].status # "none"} = {m \in Loan : loan[m].status # "none"}
         /\ \A m \in Loan : loan'[m].status = "none" => loan'[m].funded = None
         /\ \A s \in SessionId : LentFrom(s)' = LentFrom(s)
<1>1. loan'[l] = row /\ \A m \in Loan \ {l} : loan'[m] = loan[m]
  BY DEF Books, MoneyTypes
<1>2. loan' \in [Loan -> LoanRow]
  BY DEF Books, MoneyTypes
<1>3. {m \in Loan : loan'[m].status # "none"} = {m \in Loan : loan[m].status # "none"}
  BY <1>1
<1>4. \A m \in Loan : loan'[m].status = "none" => loan'[m].funded = None
  BY <1>1 DEF Books, FinitelyMany
<1>5. \A s \in SessionId : LentFrom(s)' = LentFrom(s)
  BY <1>1 DEF LentFrom
<1> QED BY <1>2, <1>3, <1>4, <1>5

\* A confirmed payment adds its amount to what its drawer received, and to no other sum.
LEMMA SumsByPayment ==
  ASSUME IInv, Books, NEW p \in Payment, payment[p] = NoPayment, NEW row,
         payment' = [payment EXCEPT ![p] = row], row.amount \in Nat,
         UNCHANGED reversal, NEW s \in SessionId
  PROVE  /\ SumOver(Amount, ReceivedIn(s))' =
              SumOver(Amount, ReceivedIn(s)) + (IF row.session = s THEN row.amount ELSE 0)
         /\ SumOver(Amount, HandedOutOf(s))' = SumOver(Amount, HandedOutOf(s))
<1>1. payment'[p] = row /\ \A q \in Payment \ {p} : payment'[q] = payment[q]
  BY DEF IInv, RowsAndLocks
<1>2. Amount'[p] = row.amount /\ \A q \in Payment \ {p} : Amount'[q] = Amount[q]
  BY <1>1 DEF Amount
<1>3. p \notin ReceivedIn(s) /\ p \notin HandedOutOf(s)
  <2>1. payment[p].session = None /\ payment[p].loan = None
    BY DEF NoPayment
  <2>2. reversal[p].session = None
    BY <2>1 DEF IInv, HandedBackProperly, NoReversal
  <2> QED BY <2>1, <2>2, LoanNone DEF ReceivedIn, HandedOutOf
<1>4. HandedOutOf(s)' = HandedOutOf(s)
  BY DEF HandedOutOf
<1>5. (\A q \in ReceivedIn(s) : Amount'[q] = Amount[q]) /\ \A q \in HandedOutOf(s) : Amount'[q] = Amount[q]
  BY <1>2, <1>3 DEF ReceivedIn, HandedOutOf
<1>6. /\ SumOver(Amount', ReceivedIn(s)) = SumOver(Amount, ReceivedIn(s))
      /\ SumOver(Amount', HandedOutOf(s)) = SumOver(Amount, HandedOutOf(s))
  BY <1>5, Finite, SumsAgree
<1>7. CASE row.session = s
  <2>1. ReceivedIn(s)' = ReceivedIn(s) \cup {p}
    BY <1>1, <1>7 DEF ReceivedIn
  <2>2. \A q \in Payment : Amount'[q] \in Int
    BY <1>1 DEF Amount, Books, MoneyTypes
  <2>3. \A q \in ReceivedIn(s) \cup {p} : Amount'[q] \in Int
    BY <2>2 DEF ReceivedIn
  <2>4. SumOver(Amount', ReceivedIn(s) \cup {p}) = Amount'[p] + SumOver(Amount', ReceivedIn(s))
    BY <1>3, <2>3, Finite, SumOfOneMore
  <2>5. SumOver(Amount, ReceivedIn(s))' = SumOver(Amount', ReceivedIn(s) \cup {p})
    BY <2>1
  <2>6. SumOver(Amount, HandedOutOf(s))' = SumOver(Amount', HandedOutOf(s))
    BY <1>4
  <2> QED BY <1>2, <1>6, <1>7, <2>4, <2>5, <2>6, Finite
<1>8. CASE row.session # s
  <2>1. ReceivedIn(s)' = ReceivedIn(s)
    BY <1>1, <1>3, <1>8 DEF ReceivedIn
  <2>2. SumOver(Amount, ReceivedIn(s))' = SumOver(Amount', ReceivedIn(s))
    BY <2>1
  <2>3. SumOver(Amount, HandedOutOf(s))' = SumOver(Amount', HandedOutOf(s))
    BY <1>4
  <2> QED BY <1>6, <1>8, <2>2, <2>3, Finite
<1> QED BY <1>7, <1>8

\* A reversal adds the amount of its payment to what its drawer handed out.
LEMMA SumsByReversal ==
  ASSUME IInv, Books, NEW p \in Payment, ~IsReversed(p), NEW row,
         reversal' = [reversal EXCEPT ![p] = row], UNCHANGED payment, NEW s \in SessionId
  PROVE  /\ SumOver(Amount, ReceivedIn(s))' = SumOver(Amount, ReceivedIn(s))
         /\ SumOver(Amount, HandedOutOf(s))' =
              SumOver(Amount, HandedOutOf(s)) + (IF row.session = s THEN payment[p].amount ELSE 0)
<1>1. reversal'[p] = row /\ \A q \in Payment \ {p} : reversal'[q] = reversal[q]
  BY DEF IInv, RowsAndLocks
<1>2. Amount' = Amount /\ ReceivedIn(s)' = ReceivedIn(s) /\ Amount[p] = payment[p].amount
  BY DEF Amount, ReceivedIn
<1>3. p \notin HandedOutOf(s)
  BY LoanNone DEF IInv, HandedBackProperly, NoReversal, HandedOutOf, IsReversed
<1>4. HandedOutOf(s)' = IF row.session = s THEN HandedOutOf(s) \cup {p} ELSE HandedOutOf(s)
  BY <1>1, <1>3 DEF HandedOutOf
<1>5. \A q \in HandedOutOf(s) \cup {p} : Amount[q] \in Int
  BY DEF Amount, Books, MoneyTypes, HandedOutOf
<1>6. SumOver(Amount, HandedOutOf(s) \cup {p}) = Amount[p] + SumOver(Amount, HandedOutOf(s))
  BY <1>3, <1>5, Finite, SumOfOneMore
<1>7. /\ SumOver(Amount, ReceivedIn(s))' = SumOver(Amount, ReceivedIn(s))
      /\ SumOver(Amount, HandedOutOf(s))' = SumOver(Amount, HandedOutOf(s)')
  BY <1>2
<1>8. payment[p].amount \in Nat
  BY DEF Books, MoneyTypes
<1> QED BY <1>2, <1>4, <1>6, <1>7, <1>8, Finite

\* The drawer of a commit moved by the same amount as the sums behind it.
LEMMA BalancedAfter ==
  ASSUME IInv, Books, NEW s \in SessionId, NEW plus \in Nat, NEW minus \in Nat,
         SumOver(Amount, ReceivedIn(s))' = SumOver(Amount, ReceivedIn(s)) + plus,
         SumOver(Amount, HandedOutOf(s))' = SumOver(Amount, HandedOutOf(s)) + minus,
         LentFrom(s)' = LentFrom(s),
         drawer'[s].balance = drawer[s].balance + plus - minus, drawer'[s].fund = drawer[s].fund
  PROVE  Balanced(s)'
<1> DEFINE owed == Principal * Cardinality(LentFrom(s))
<1>1. owed \in Nat /\ drawer[s].balance \in Nat /\ drawer[s].fund \in Nat
  BY Finite, PrincipalType DEF Books, MoneyTypes
<1>2. Principal * Cardinality(LentFrom(s)') = owed
  OBVIOUS
<1>3. drawer[s].balance = drawer[s].fund + SumOver(Amount, ReceivedIn(s))
                          - SumOver(Amount, HandedOutOf(s)) - owed
  BY DEF Books, Balanced
<1> HIDE DEF owed
<1> QED BY <1>1, <1>2, <1>3, Finite DEF Balanced

LEMMA BooksByCommitPayment ==
  ASSUME IInv, Books, NEW l \in Loan, NEW p \in Payment, CommitPayment(l, p)
  PROVE  Books'
<1> DEFINE row == work[l].pays
           projected == Projected(l, payment', reversal, work[l].date)
<1>1. /\ payment[p] = NoPayment /\ payment' = [payment EXCEPT ![p] = row]
      /\ loan' = [loan EXCEPT ![l] = projected] /\ work' = [work EXCEPT ![l] = NoCommand]
      /\ UNCHANGED <<today, reversal>>
      /\ row.amount \in Nat /\ row.session \in SessionId \cup {None} /\ row.loan = l
      /\ loan[l].status # "none"
  BY DEF CommitPayment, Released, Books, MoneyTypes, OnlyDisbursed, IInv, RowsAndLocks
<1>2. \/ row.session = None /\ UNCHANGED drawer
      \/ row.session \in SessionId /\ drawer[row.session].state = "open"
         /\ drawer' = Moved(row.session, row.amount)
  BY <1>1 DEF CommitPayment, IsOpen
<1>3. projected \in LoanRow /\ projected.status # "none" /\ projected.funded = loan[l].funded
  BY ProjectedFields
<1> HIDE DEF row, projected
<1>4. /\ loan' \in [Loan -> LoanRow]
      /\ {m \in Loan : loan'[m].status # "none"} = {m \in Loan : loan[m].status # "none"}
      /\ \A m \in Loan : loan'[m].status = "none" => loan'[m].funded = None
      /\ \A s \in SessionId : LentFrom(s)' = LentFrom(s)
  BY <1>1, <1>3, SameLoans
<1>5. /\ payment'[p] = row /\ \A q \in Payment \ {p} : payment'[q] = payment[q]
      /\ work'[l].kind = "none" /\ \A m \in Loan \ {l} : work'[m] = work[m]
  BY <1>1 DEF IInv, RowsAndLocks, NoCommand
<1>6. /\ drawer' \in [SessionId -> DrawerRow]
      /\ \A s \in SessionId :
           /\ drawer'[s].balance = drawer[s].balance + (IF row.session = s THEN row.amount ELSE 0)
           /\ drawer'[s].fund = drawer[s].fund /\ drawer'[s].state = drawer[s].state
           /\ drawer[s].state = "unopened" => row.session # s
  <2>1. drawer \in [SessionId -> DrawerRow] /\ \A s \in SessionId : drawer[s].balance \in Nat
    BY DEF Books, MoneyTypes, DrawerRow
  <2>2. CASE row.session = None /\ UNCHANGED drawer
    BY <2>1, <2>2, LoanNone
  <2>3. CASE row.session \in SessionId /\ drawer[row.session].state = "open"
             /\ drawer' = Moved(row.session, row.amount)
    <3> DEFINE t == row.session
    <3>1. row.amount \in Int /\ drawer[t].balance + row.amount \in Nat
      BY <1>1, <2>1, <2>3
    <3>2. /\ drawer' \in [SessionId -> DrawerRow]
          /\ drawer'[t].balance = drawer[t].balance + row.amount
          /\ drawer'[t].fund = drawer[t].fund /\ drawer'[t].state = drawer[t].state
          /\ \A s \in SessionId \ {t} : drawer'[s] = drawer[s]
      BY <2>3, <3>1, MovedFields
    <3> QED BY <2>1, <2>3, <3>2
  <2> QED BY <1>2, <2>2, <2>3
<1>7. MoneyTypes'
  BY <1>1, <1>4, <1>5, <1>6 DEF Books, MoneyTypes, DrawerRow
<1>8. FinitelyMany'
  <2>1. {q \in Payment : payment'[q].loan # None} = {q \in Payment : payment[q].loan # None} \cup {p}
    BY <1>1, <1>5, LoanNone
  <2>2. IsFiniteSet({q \in Payment : payment'[q].loan # None})
    BY <2>1, FS_AddElement DEF Books, FinitelyMany
  <2>3. \A q \in Payment : payment'[q].loan = None => payment'[q] = NoPayment
    BY <1>1, <1>5, LoanNone DEF Books, FinitelyMany
  <2>4. \A s \in SessionId : drawer'[s].state = "unopened" => drawer'[s].balance = 0 /\ drawer'[s].fund = 0
    BY <1>6 DEF Books, FinitelyMany
  <2> QED BY <1>4, <2>2, <2>3, <2>4 DEF Books, FinitelyMany
<1>9. OnlyDisbursed'
  <2>1. \A m \in Loan : loan[m].status # "none" => loan'[m].status # "none"
    BY <1>4
  <2>2. \A q \in Payment : payment'[q].loan # None => loan'[payment'[q].loan].status # "none"
    BY <1>1, <1>5, <2>1 DEF Books, OnlyDisbursed, IInv, RowsAndLocks
  <2> QED BY <1>1, <1>5, <2>1, <2>2 DEF Books, OnlyDisbursed
<1>10. ASSUME NEW s \in SessionId PROVE Balanced(s)'
  <2> DEFINE plus == IF row.session = s THEN row.amount ELSE 0
  <2>1. /\ SumOver(Amount, ReceivedIn(s))' = SumOver(Amount, ReceivedIn(s)) + plus
        /\ SumOver(Amount, HandedOutOf(s))' = SumOver(Amount, HandedOutOf(s))
    BY <1>1, SumsByPayment
  <2>2. plus \in Nat /\ drawer'[s].balance = drawer[s].balance + plus /\ drawer'[s].fund = drawer[s].fund
    BY <1>1, <1>6
  <2> HIDE DEF plus
  <2>3. /\ SumOver(Amount, HandedOutOf(s))' = SumOver(Amount, HandedOutOf(s)) + 0
        /\ drawer'[s].balance = drawer[s].balance + plus - 0
    BY <2>1, <2>2, Finite DEF Books, MoneyTypes
  <2> QED BY <1>4, <2>1, <2>2, <2>3, BalancedAfter
<1> QED BY <1>7, <1>8, <1>9, <1>10 DEF Books

LEMMA BooksByCommitReversal ==
  ASSUME IInv, Books, NEW l \in Loan, CommitReversal(l)
  PROVE  Books'
<1> DEFINE row == work[l].undoes
           p == work[l].of
           projected == Projected(l, payment, reversal', work[l].date)
<1>1. /\ p \in Payment /\ payment[p].loan = l /\ ~IsReversed(p)
      /\ reversal' = [reversal EXCEPT ![p] = row]
      /\ loan' = [loan EXCEPT ![l] = projected] /\ work' = [work EXCEPT ![l] = NoCommand]
      /\ UNCHANGED <<today, payment>>
      /\ row.session \in SessionId \cup {None}
  BY DEF CommitReversal, Released, Books, MoneyTypes, IInv, RowsAndLocks
<1>2. \/ row.session = None /\ UNCHANGED drawer
      \/ /\ row.session \in SessionId /\ drawer[row.session].state = "open"
         /\ drawer[row.session].balance - payment[p].amount >= 0
         /\ drawer' = Moved(row.session, -payment[p].amount)
  BY <1>1 DEF CommitReversal, HandsBack, IsOpen, Covers
<1>3. projected \in LoanRow /\ projected.status # "none" /\ projected.funded = loan[l].funded
  BY ProjectedFields
<1>4. loan[l].status # "none"
  BY <1>1, LoanNone DEF Books, OnlyDisbursed
<1> HIDE DEF row, projected, p
<1>5. /\ loan' \in [Loan -> LoanRow]
      /\ {m \in Loan : loan'[m].status # "none"} = {m \in Loan : loan[m].status # "none"}
      /\ \A m \in Loan : loan'[m].status = "none" => loan'[m].funded = None
      /\ \A s \in SessionId : LentFrom(s)' = LentFrom(s)
  BY <1>1, <1>3, <1>4, SameLoans
<1>6. /\ reversal'[p] = row /\ \A q \in Payment \ {p} : reversal'[q] = reversal[q]
      /\ work'[l].kind = "none" /\ \A m \in Loan \ {l} : work'[m] = work[m]
  BY <1>1 DEF IInv, RowsAndLocks, NoCommand
<1>7. payment[p].amount \in Nat
  BY <1>1 DEF Books, MoneyTypes
<1>8. /\ drawer' \in [SessionId -> DrawerRow]
      /\ \A s \in SessionId :
           /\ drawer'[s].balance = drawer[s].balance - (IF row.session = s THEN payment[p].amount ELSE 0)
           /\ drawer'[s].fund = drawer[s].fund /\ drawer'[s].state = drawer[s].state
           /\ drawer[s].state = "unopened" => row.session # s
  <2>1. drawer \in [SessionId -> DrawerRow] /\ \A s \in SessionId : drawer[s].balance \in Nat
    BY DEF Books, MoneyTypes, DrawerRow
  <2>2. CASE row.session = None /\ UNCHANGED drawer
    BY <2>1, <2>2, LoanNone
  <2>3. CASE /\ row.session \in SessionId /\ drawer[row.session].state = "open"
             /\ drawer[row.session].balance - payment[p].amount >= 0
             /\ drawer' = Moved(row.session, -payment[p].amount)
    <3> DEFINE t == row.session
               minus == -payment[p].amount
    <3>1. minus \in Int /\ drawer[t].balance + minus \in Nat
          /\ drawer[t].balance + minus = drawer[t].balance - payment[p].amount
      BY <1>7, <2>1, <2>3
    <3>2. drawer' = Moved(t, minus)
      BY <2>3
    <3> HIDE DEF minus
    <3>3. /\ drawer' \in [SessionId -> DrawerRow]
          /\ drawer'[t].balance = drawer[t].balance + minus
          /\ drawer'[t].fund = drawer[t].fund /\ drawer'[t].state = drawer[t].state
          /\ \A s \in SessionId \ {t} : drawer'[s] = drawer[s]
      BY <2>3, <3>1, <3>2, MovedFields
    <3> QED BY <2>1, <2>3, <3>1, <3>3
  <2> QED BY <1>2, <2>2, <2>3
<1>9. MoneyTypes'
  BY <1>1, <1>5, <1>6, <1>8 DEF Books, MoneyTypes, DrawerRow
<1>10. FinitelyMany'
  <2>1. \A s \in SessionId : drawer'[s].state = "unopened" => drawer'[s].balance = 0 /\ drawer'[s].fund = 0
    BY <1>8 DEF Books, FinitelyMany
  <2> QED BY <1>1, <1>5, <2>1 DEF Books, FinitelyMany
<1>11. OnlyDisbursed'
  <2>1. \A m \in Loan : loan[m].status # "none" => loan'[m].status # "none"
    BY <1>5
  <2> QED BY <1>1, <1>6, <2>1, LoanNone DEF Books, OnlyDisbursed, IInv, RowsAndLocks
<1>12. ASSUME NEW s \in SessionId PROVE Balanced(s)'
  <2> DEFINE minus == IF row.session = s THEN payment[p].amount ELSE 0
  <2>1. /\ SumOver(Amount, ReceivedIn(s))' = SumOver(Amount, ReceivedIn(s))
        /\ SumOver(Amount, HandedOutOf(s))' = SumOver(Amount, HandedOutOf(s)) + minus
    BY <1>1, SumsByReversal
  <2>2. minus \in Nat /\ drawer'[s].balance = drawer[s].balance - minus /\ drawer'[s].fund = drawer[s].fund
    BY <1>7, <1>8
  <2> HIDE DEF minus
  <2>3. /\ SumOver(Amount, ReceivedIn(s))' = SumOver(Amount, ReceivedIn(s)) + 0
        /\ drawer'[s].balance = drawer[s].balance + 0 - minus
    BY <2>1, <2>2, Finite DEF Books, MoneyTypes
  <2> QED BY <1>5, <2>1, <2>2, <2>3, BalancedAfter
<1> QED BY <1>9, <1>10, <1>11, <1>12 DEF Books

LEMMA BooksByAssess ==
  ASSUME IInv, Books, NEW l \in Loan, Assess(l)
  PROVE  Books'
<1> DEFINE status == LoanStatus(l, Applied(payment, reversal, l), today)
           row == [loan[l] EXCEPT !.status = status]
<1>1. status \in {"active", "past_due", "paid"}
  BY DEF LoanStatus
<1>2. loan[l].status # "none" /\ UNCHANGED <<today, payment, reversal, work, drawer>>
      /\ loan' = [loan EXCEPT ![l].status = status]
  BY DEF Assess
<1> HIDE DEF status
<1>3. row \in LoanRow /\ row.status # "none" /\ row.funded = loan[l].funded
  BY <1>1 DEF Books, MoneyTypes, LoanRow
<1>4. loan' = [loan EXCEPT ![l] = row]
  BY <1>2
<1> HIDE DEF row
<1>5. /\ loan' \in [Loan -> LoanRow]
      /\ {m \in Loan : loan'[m].status # "none"} = {m \in Loan : loan[m].status # "none"}
      /\ \A m \in Loan : loan'[m].status = "none" => loan'[m].funded = None
      /\ \A s \in SessionId : LentFrom(s)' = LentFrom(s)
  BY <1>2, <1>3, <1>4, SameLoans
<1>6. MoneyTypes' /\ FinitelyMany'
  BY <1>2, <1>5 DEF Books, MoneyTypes, FinitelyMany
<1>7. OnlyDisbursed'
  <2>1. \A m \in Loan : loan[m].status # "none" => loan'[m].status # "none"
    BY <1>5
  <2> QED BY <1>2, <2>1, LoanNone DEF Books, OnlyDisbursed, IInv, RowsAndLocks
<1>8. ASSUME NEW s \in SessionId PROVE Balanced(s)'
  <2>1. Amount' = Amount /\ ReceivedIn(s)' = ReceivedIn(s) /\ HandedOutOf(s)' = HandedOutOf(s)
    BY <1>2 DEF Amount, ReceivedIn, HandedOutOf
  <2> QED BY <1>2, <1>5, <2>1 DEF Books, Balanced
<1> QED BY <1>6, <1>7, <1>8 DEF Books

LEMMA BooksByNextDay ==
  ASSUME IInv, Books, NextDay
  PROVE  Books'
<1>1. today' \in Day /\ today' = today + 1 /\ UNCHANGED <<loan, payment, reversal, work, drawer>>
  BY LoanBounds DEF NextDay, Books, MoneyTypes, Day
<1>2. MoneyTypes' /\ FinitelyMany'
  BY <1>1 DEF Books, MoneyTypes, FinitelyMany
<1>3. OnlyDisbursed'
  <2>1. \A d \in Day : d <= today => d <= today'
    BY <1>1, LoanBounds DEF Day, Books, MoneyTypes
  <2> QED BY <1>1, <2>1 DEF Books, OnlyDisbursed
<1>4. \A s \in SessionId : Balanced(s)'
  BY <1>1, SameSums DEF Books, Balanced
<1> QED BY <1>2, <1>3, <1>4 DEF Books

\* A drawer that opens was never used; one that closes keeps what it holds.
LEMMA BooksByDrawer ==
  ASSUME IInv, Books, NEW s \in SessionId, NEW fund \in 0 .. MaxFund,
         OpenDrawer(s, fund) \/ CloseDrawer(s)
  PROVE  Books'
<1>1. UNCHANGED <<today, loan, payment, reversal, work>>
  BY DEF OpenDrawer, CloseDrawer
<1>2. drawer \in [SessionId -> DrawerRow]
  BY DEF Books, MoneyTypes, DrawerRow
<1>3. /\ drawer' \in [SessionId -> DrawerRow]
      /\ drawer'[s].state # "unopened"
      /\ \A t \in SessionId \ {s} : drawer'[t] = drawer[t]
  BY <1>2 DEF OpenDrawer, CloseDrawer, DrawerRow
<1>4. drawer'[s].balance - drawer'[s].fund = drawer[s].balance - drawer[s].fund
  <2>1. CASE OpenDrawer(s, fund)
    <3>1. drawer'[s].balance = fund /\ drawer'[s].fund = fund /\ fund \in Nat
      BY <1>2, <2>1 DEF OpenDrawer
    <3>2. drawer[s].balance = 0 /\ drawer[s].fund = 0
      BY <2>1 DEF OpenDrawer, Books, FinitelyMany
    <3> QED BY <3>1, <3>2
  <2>2. CASE CloseDrawer(s)
    BY <1>2, <2>2 DEF CloseDrawer, DrawerRow
  <2> QED BY <2>1, <2>2
<1>5. MoneyTypes' /\ OnlyDisbursed'
  BY <1>1, <1>3 DEF Books, MoneyTypes, OnlyDisbursed, DrawerRow
<1>6. FinitelyMany'
  BY <1>1, <1>3 DEF Books, FinitelyMany
<1>7. ASSUME NEW t \in SessionId PROVE Balanced(t)'
  <2> DEFINE owed == Principal * Cardinality(LentFrom(t))
  <2>1. owed \in Nat
    BY Finite, PrincipalType
  <2>2. drawer[t].balance = drawer[t].fund + SumOver(Amount, ReceivedIn(t))
                            - SumOver(Amount, HandedOutOf(t)) - owed
    BY DEF Books, Balanced
  <2>3. Principal * Cardinality(LentFrom(t)') = owed
    BY <1>1, SameSums
  <2> HIDE DEF owed
  <2>4. drawer'[t].balance - drawer'[t].fund = drawer[t].balance - drawer[t].fund
    BY <1>3, <1>4
  <2>5. drawer[t] \in DrawerRow /\ drawer'[t] \in DrawerRow
    BY <1>2, <1>3
  <2>6. drawer'[t].balance = drawer'[t].fund + SumOver(Amount, ReceivedIn(t))
                             - SumOver(Amount, HandedOutOf(t)) - owed
    BY <2>1, <2>2, <2>4, <2>5, Finite DEF DrawerRow
  <2> QED BY <1>1, <2>3, <2>6, SameSums DEF Balanced
<1> QED BY <1>5, <1>6, <1>7 DEF Books

LEMMA BooksPreserved ==
  ASSUME IInv, Books, [Next]_vars
  PROVE  Books'
<1>1. CASE UNCHANGED vars
  <2>1. MoneyTypes' /\ FinitelyMany' /\ OnlyDisbursed'
    BY <1>1 DEF vars, Books, MoneyTypes, FinitelyMany, OnlyDisbursed
  <2> QED BY <1>1, <2>1, SameSums DEF vars, Books, Balanced
<1>2. ASSUME NEW l \in Loan, NEW s \in SessionId, Disburse(l, s)
      PROVE  Books'
  BY <1>2, BooksByDisburse
<1>3. ASSUME NEW l \in Loan, NEW amount \in 1 .. Contract, NEW s \in SessionId \cup {None},
             NEW key \in Key, NEW reference \in Reference \cup {None},
             LockToPay(l, amount, s, key, reference)
      PROVE  Books'
  BY <1>3, BooksByLocks
<1>4. ASSUME NEW l \in Loan, NEW p \in Payment, CommitPayment(l, p)
      PROVE  Books'
  BY <1>4, BooksByCommitPayment
<1>5. ASSUME NEW l \in Loan, CommitReversal(l)
      PROVE  Books'
  BY <1>5, BooksByCommitReversal
<1>6. ASSUME NEW l \in Loan, Abort(l)
      PROVE  Books'
  BY <1>6, BooksByLocks
<1>7. ASSUME NEW l \in Loan, Assess(l)
      PROVE  Books'
  BY <1>7, BooksByAssess
<1>8. ASSUME NEW u \in User, NEW p \in Payment, NEW s \in SessionId \cup {None}, NEW key \in Key,
             LockToReverse(u, p, s, key)
      PROVE  Books'
  BY <1>8, BooksByLockToReverse
<1>9. CASE NextDay
  BY <1>9, BooksByNextDay
<1>10. ASSUME NEW s \in SessionId, (\E fund \in 0 .. MaxFund : OpenDrawer(s, fund)) \/ CloseDrawer(s)
       PROVE  Books'
  <2>1. 0 \in 0 .. MaxFund
    BY LoanBounds
  <2> QED BY <1>10, <2>1, BooksByDrawer
<1> QED BY <1>1, <1>2, <1>3, <1>4, <1>5, <1>6, <1>7, <1>8, <1>9, <1>10 DEF Next

\* Every reachable state balances its drawers.
THEOREM BooksAreKept == Spec => []Books
BY Initially, Preserved, BooksInitially, BooksPreserved, PTL DEF Spec

\* However payments, reversals and disbursements meet at a drawer, it holds its fund plus what it
\* received, minus what it handed back and lent.
THEOREM CashIsAccountedFor == Spec => []CashFollowsLedger
<1>1. IInv /\ Books => CashFollowsLedger
  <2> SUFFICES ASSUME IInv, Books PROVE CashFollowsLedger
    OBVIOUS
  <2>1. ASSUME NEW s \in SessionId
        PROVE  drawer[s].balance =
                 drawer[s].fund
                 + MapThenSumSet(LAMBDA p : payment[p].amount, {p \in Payment : payment[p].session = s})
                 - MapThenSumSet(LAMBDA p : payment[p].amount, {p \in Payment : reversal[p].session = s})
                 - Principal * Cardinality({l \in Loan : loan[l].funded = s})
    <3>1. (\A p \in ReceivedIn(s) : Amount[p] = payment[p].amount)
          /\ \A p \in HandedOutOf(s) : Amount[p] = payment[p].amount
      BY DEF Amount, ReceivedIn, HandedOutOf
    <3>2. MapThenSumSet(LAMBDA p : payment[p].amount, ReceivedIn(s)) = SumOver(Amount, ReceivedIn(s))
      BY <3>1, Finite, AmountsAreSums
    <3>3. MapThenSumSet(LAMBDA p : payment[p].amount, HandedOutOf(s)) = SumOver(Amount, HandedOutOf(s))
      BY <3>1, Finite, AmountsAreSums
    <3> QED BY <3>2, <3>3 DEF Books, Balanced, ReceivedIn, HandedOutOf, LentFrom
  <2> QED BY <2>1 DEF CashFollowsLedger, IInv, HandedBackProperly
<1> QED BY <1>1, Inductive, BooksAreKept, PTL

-----------------------------------------------------------------------------
(* The stored statuses.                                                    *)

PaymentsOf(pay, l) == {p \in Payment : pay[p].loan = l}

\* What was applied to a slot is a sum over the payments of the loan.
LEMMA AppliedIsASum ==
  ASSUME NEW pay, NEW rev, NEW l, IsFiniteSet(PaymentsOf(pay, l)), NEW x \in Slot,
         NEW f, \A p \in PaymentsOf(pay, l) : f[p] = pay[p].parts[x] - rev[p].parts[x]
  PROVE  Applied(pay, rev, l)[x] = SumOver(f, PaymentsOf(pay, l))
<1> DEFINE S == {p \in Payment : pay[p].loan = l}
<1>1. IsFiniteSet(S) /\ \A p \in S : f[p] = pay[p].parts[x] - rev[p].parts[x]
  BY DEF PaymentsOf
<1> HIDE DEF S
<1>2. PICK k : IsTable(f, S, k)
  BY <1>1, TableExists
<1> DEFINE m == CHOOSE m : m = [s \in SUBSET S |->
                  IF s = {} THEN 0
                  ELSE pay[Chosen(s)].parts[x] - rev[Chosen(s)].parts[x] + m[s \ {Chosen(s)}]]
<1>3. \A y : IsTable(f, S, y) <=>
        y = [s \in SUBSET S |->
              IF s = {} THEN 0
              ELSE pay[Chosen(s)].parts[x] - rev[Chosen(s)].parts[x] + y[s \ {Chosen(s)}]]
  BY <1>1, ChosenIn DEF IsTable
<1>4. IsTable(f, S, m)
  BY <1>2, <1>3
<1>5. MapThenSumSet(LAMBDA p : pay[p].parts[x] - rev[p].parts[x], S) = m[S]
  BY DEF MapThenSumSet, MapThenFoldSet, Chosen
<1>6. Applied(pay, rev, l)[x] = MapThenSumSet(LAMBDA p : pay[p].parts[x] - rev[p].parts[x], S)
  BY DEF Applied, S
<1> HIDE DEF m
<1>7. m[S] = SumOver(f, S)
  BY <1>1, <1>4, SumInTable
<1> QED BY <1>5, <1>6, <1>7 DEF S, PaymentsOf

\* It is the same for two states of the ledger with the same payments of the loan.
LEMMA AppliedAgrees ==
  ASSUME NEW pay, NEW rev, NEW pay2, NEW rev2, NEW l, IsFiniteSet(PaymentsOf(pay, l)),
         PaymentsOf(pay2, l) = PaymentsOf(pay, l),
         \A p \in PaymentsOf(pay, l) : pay2[p] = pay[p] /\ rev2[p] = rev[p]
  PROVE  Applied(pay2, rev2, l) = Applied(pay, rev, l)
<1>1. ASSUME NEW x \in Slot PROVE Applied(pay2, rev2, l)[x] = Applied(pay, rev, l)[x]
  <2> DEFINE f == [p \in PaymentsOf(pay, l) |-> pay[p].parts[x] - rev[p].parts[x]]
  <2>1. \A p \in PaymentsOf(pay, l) :
          /\ f[p] = pay[p].parts[x] - rev[p].parts[x]
          /\ f[p] = pay2[p].parts[x] - rev2[p].parts[x]
    OBVIOUS
  <2> HIDE DEF f
  <2>2. Applied(pay, rev, l)[x] = SumOver(f, PaymentsOf(pay, l))
    BY <2>1, AppliedIsASum
  <2>3. Applied(pay2, rev2, l)[x] = SumOver(f, PaymentsOf(pay2, l))
    BY <2>1, AppliedIsASum
  <2> QED BY <2>2, <2>3
<1>2. Applied(pay, rev, l) = [x \in Slot |-> Applied(pay, rev, l)[x]]
      /\ Applied(pay2, rev2, l) = [x \in Slot |-> Applied(pay2, rev2, l)[x]]
  BY DEF Applied
<1> QED BY <1>1, <1>2

LEMMA NothingApplied ==
  ASSUME NEW pay, NEW rev, NEW l, PaymentsOf(pay, l) = {}
  PROVE  \A x \in Slot : Applied(pay, rev, l)[x] = 0
<1> SUFFICES ASSUME NEW x \in Slot PROVE Applied(pay, rev, l)[x] = 0
  OBVIOUS
<1> DEFINE f == [p \in {} |-> 0]
<1>1. IsFiniteSet(PaymentsOf(pay, l))
      /\ \A p \in PaymentsOf(pay, l) : f[p] = pay[p].parts[x] - rev[p].parts[x]
  BY FS_EmptySet
<1> HIDE DEF f
<1>2. Applied(pay, rev, l)[x] = SumOver(f, PaymentsOf(pay, l))
  BY <1>1, AppliedIsASum
<1> QED BY <1>2, SumOfNone

LEMMA FinitelyManyOfALoan ==
  ASSUME Books, NEW l \in Loan
  PROVE  IsFiniteSet(PaymentsOf(payment, l))
<1>1. PaymentsOf(payment, l) \subseteq {p \in Payment : payment[p].loan # None}
  BY LoanNone DEF PaymentsOf
<1> QED BY <1>1, FS_Subset DEF Books, FinitelyMany

\* What StatusOnlyLags says of one loan, for a row of it and what is applied to it.
Lags(row, net, date) ==
  LET after == [k \in Instalment |-> row.since + DueAfter[k]]
  IN /\ (row.status = "paid") <=> \A k \in Instalment : ~Owes(net, k)
     /\ row.status = "past_due" => \E k \in Instalment : date > after[k] /\ Owes(net, k)
     /\ \A k \in Instalment : (\E c \in Component : Due[<<k, c>>] > 0) =>
          row.obligation[k] = ObligationStatus(net, k)

LEMMA LagsIsTheProperty ==
  ASSUME \A l \in Loan : Disbursed(l) => Lags(loan[l], NetApplied(l), today)
  PROVE  StatusOnlyLags
<1> SUFFICES ASSUME NEW l \in Loan, Disbursed(l)
             PROVE  LET net == NetApplied(l)
                        status == LoanStatus(l, net, today)
                    IN /\ (loan[l].status = "paid") <=> (status = "paid")
                       /\ loan[l].status = "past_due" => status = "past_due"
                       /\ \A k \in Instalment : (\E c \in Component : Due[<<k, c>>] > 0) =>
                            loan[l].obligation[k] = ObligationStatus(net, k)
  BY DEF StatusOnlyLags
<1> DEFINE net == NetApplied(l)
<1>1. Lags(loan[l], net, today)
  OBVIOUS
<1> HIDE DEF net
<1>2. LoanStatus(l, net, today) = "paid" <=> \A k \in Instalment : ~Owes(net, k)
  BY DEF LoanStatus
<1>3. (\E k \in Instalment : today > DueDate(l, k) /\ Owes(net, k)) => LoanStatus(l, net, today) = "past_due"
  BY DEF LoanStatus
<1> QED BY <1>1, <1>2, <1>3 DEF Lags, DueDate, net

\* A row projected from the ledger on a day that has come.
LEMMA ProjectedLags ==
  ASSUME Books, NEW l \in Loan, NEW pay, NEW rev, NEW date \in Day, NEW now \in Day, date <= now
  PROVE  Lags(Projected(l, pay, rev, date), Applied(pay, rev, l), now)
<1> DEFINE row == Projected(l, pay, rev, date)
           applied == Applied(pay, rev, l)
<1>1. /\ row.status = LoanStatus(l, applied, date) /\ row.since = loan[l].since
      /\ \A k \in Instalment : row.obligation[k] = ObligationStatus(applied, k)
  BY ProjectedFields
<1>2. loan[l].since \in Day
  BY DEF Books, MoneyTypes, LoanRow
<1> HIDE DEF row, applied
<1>3. \A k \in Instalment : loan[l].since + DueAfter[k] \in Nat
  BY <1>2, LoanContract DEF Day
<1>4. \A k \in Instalment : date > DueDate(l, k) => now > loan[l].since + DueAfter[k]
  BY <1>3, LoanBounds DEF DueDate, Day
<1> QED BY <1>1, <1>4 DEF Lags, LoanStatus, row, applied

LagsEverywhere == \A l \in Loan : Disbursed(l) => Lags(loan[l], NetApplied(l), today)

\* A loan whose row and ledger did not change, on the same day or later.
LEMMA LagsStill ==
  ASSUME IInv, Books, LagsEverywhere, NEW l \in Loan, loan'[l] = loan[l],
         PaymentsOf(payment', l) = PaymentsOf(payment, l),
         \A p \in PaymentsOf(payment, l) : payment'[p] = payment[p] /\ reversal'[p] = reversal[p],
         today' \in Day, today <= today'
  PROVE  (Disbursed(l) => Lags(loan[l], NetApplied(l), today))'
<1> SUFFICES ASSUME Disbursed(l)' PROVE Lags(loan'[l], NetApplied(l)', today')
  OBVIOUS
<1>1. Applied(payment', reversal', l) = Applied(payment, reversal, l)
  BY FinitelyManyOfALoan, AppliedAgrees
<1>2. NetApplied(l)' = NetApplied(l)
  BY <1>1 DEF NetApplied
<1>3. Lags(loan[l], NetApplied(l), today)
  BY DEF LagsEverywhere, Disbursed
<1>4. \A k \in Instalment : loan[l].since + DueAfter[k] \in Int
  BY LoanContract DEF Books, MoneyTypes, LoanRow, Day
<1>5. \A k \in Instalment : today > loan[l].since + DueAfter[k] => today' > loan[l].since + DueAfter[k]
  BY <1>4, LoanBounds DEF Books, MoneyTypes, Day
<1> HIDE DEF NetApplied
<1> QED BY <1>2, <1>3, <1>5 DEF Lags

LEMMA LagsByDisburse ==
  ASSUME IInv, Books, LagsEverywhere, NEW l \in Loan, NEW s \in SessionId, Disburse(l, s)
  PROVE  LagsEverywhere'
<1> DEFINE row == [NoLoan EXCEPT !.status = "active", !.since = today, !.funded = s]
<1>1. loan[l].status = "none" /\ loan' = [loan EXCEPT ![l] = row]
      /\ UNCHANGED <<today, payment, reversal, work>>
  BY DEF Disburse
<1>2. row.status = "active" /\ \A k \in Instalment : row.obligation[k] = "pending"
  BY DEF NoLoan
<1> HIDE DEF row
<1>3. loan'[l] = row /\ \A m \in Loan \ {l} : loan'[m] = loan[m]
  BY <1>1 DEF Books, MoneyTypes
<1>4. ASSUME NEW m \in Loan \ {l} PROVE (Disbursed(m) => Lags(loan[m], NetApplied(m), today))'
  <2>1. today' \in Day /\ today <= today' /\ PaymentsOf(payment', m) = PaymentsOf(payment, m)
    BY <1>1, LoanBounds DEF Books, MoneyTypes, Day
  <2> QED BY <1>1, <1>3, <2>1, LagsStill
<1>5. PaymentsOf(payment, l) = {}
  BY <1>1, LoanNone DEF PaymentsOf, Books, OnlyDisbursed
<1> DEFINE net == NetApplied(l)'
<1>6. \A x \in Slot : net[x] = 0
  BY <1>1, <1>5, NothingApplied DEF NetApplied
<1> HIDE DEF net
<1>7. \A k \in Instalment, c \in Component : net[<<k, c>>] = 0 /\ Due[<<k, c>>] \in Nat
  BY <1>6, LoanContract DEF Slot
<1>8. \E k \in Instalment : Owes(net, k)
  BY <1>7, LoanContract DEF Owes
<1>9. \A k \in Instalment : (\E c \in Component : Due[<<k, c>>] > 0) => ObligationStatus(net, k) = "pending"
  <2> SUFFICES ASSUME NEW k \in Instalment, NEW c \in Component, Due[<<k, c>>] > 0
               PROVE  ObligationStatus(net, k) = "pending"
    OBVIOUS
  <2>1. \A d \in Component : net[<<k, d>>] = 0 /\ Due[<<k, d>>] \in Nat
    BY <1>7
  <2>2. ~ (\A d \in Component : net[<<k, d>>] = Due[<<k, d>>])
    <3>1. net[<<k, c>>] # Due[<<k, c>>]
      BY <2>1
    <3> QED BY <3>1
  <2>3. ~ (\E d \in Component : net[<<k, d>>] > 0)
    <3>1. \A d \in Component : ~ (net[<<k, d>>] > 0)
      <4>1. ~ (0 > 0)
        OBVIOUS
      <4> QED BY <2>1, <4>1
    <3> QED BY <3>1
  <2> QED BY <2>2, <2>3 DEF ObligationStatus
<1>10. Lags(row, net, today')
  BY <1>2, <1>8, <1>9 DEF Lags
<1> QED BY <1>3, <1>4, <1>10 DEF LagsEverywhere, net

LEMMA LagsByCommitPayment ==
  ASSUME IInv, Books, LagsEverywhere, NEW l \in Loan, NEW p \in Payment, CommitPayment(l, p)
  PROVE  LagsEverywhere'
<1> DEFINE row == work[l].pays
<1>1. /\ payment[p] = NoPayment /\ payment' = [payment EXCEPT ![p] = row] /\ row.loan = l
      /\ loan' = [loan EXCEPT ![l] = Projected(l, payment', reversal, work[l].date)]
      /\ UNCHANGED <<today, reversal>>
      /\ work[l].date \in Day /\ work[l].date <= today
  BY DEF CommitPayment, Books, OnlyDisbursed, IInv, RowsAndLocks
<1> HIDE DEF row
<1>2. /\ loan'[l] = Projected(l, payment', reversal, work[l].date)
      /\ \A m \in Loan \ {l} : loan'[m] = loan[m]
      /\ payment'[p] = row /\ \A q \in Payment \ {p} : payment'[q] = payment[q]
  BY <1>1 DEF Books, MoneyTypes, IInv, RowsAndLocks
<1>3. today' \in Day /\ today <= today'
  BY <1>1, LoanBounds DEF Books, MoneyTypes, Day
<1>4. ASSUME NEW m \in Loan \ {l} PROVE (Disbursed(m) => Lags(loan[m], NetApplied(m), today))'
  <2>1. payment[p].loan = None
    BY <1>1 DEF NoPayment
  <2>2. p \notin PaymentsOf(payment, m) /\ PaymentsOf(payment', m) = PaymentsOf(payment, m)
    BY <1>1, <1>2, <2>1, LoanNone DEF PaymentsOf
  <2>3. \A q \in PaymentsOf(payment, m) : payment'[q] = payment[q] /\ reversal'[q] = reversal[q]
    BY <1>1, <1>2, <2>2 DEF PaymentsOf
  <2> QED BY <1>2, <1>3, <2>2, <2>3, LagsStill
<1>5. Lags(Projected(l, payment', reversal, work[l].date), Applied(payment', reversal, l), today)
  BY <1>1, ProjectedLags DEF Books, MoneyTypes
<1>6. NetApplied(l)' = Applied(payment', reversal, l)
  BY <1>1 DEF NetApplied
<1> QED BY <1>1, <1>2, <1>4, <1>5, <1>6 DEF LagsEverywhere

LEMMA LagsByCommitReversal ==
  ASSUME IInv, Books, LagsEverywhere, NEW l \in Loan, CommitReversal(l)
  PROVE  LagsEverywhere'
<1> DEFINE row == work[l].undoes
           p == work[l].of
<1>1. /\ p \in Payment /\ payment[p].loan = l /\ reversal' = [reversal EXCEPT ![p] = row]
      /\ loan' = [loan EXCEPT ![l] = Projected(l, payment, reversal', work[l].date)]
      /\ UNCHANGED <<today, payment>>
      /\ work[l].date \in Day /\ work[l].date <= today
  BY DEF CommitReversal, Books, OnlyDisbursed, IInv, RowsAndLocks
<1> HIDE DEF row, p
<1>2. /\ loan'[l] = Projected(l, payment, reversal', work[l].date)
      /\ \A m \in Loan \ {l} : loan'[m] = loan[m]
      /\ \A q \in Payment \ {p} : reversal'[q] = reversal[q]
  BY <1>1 DEF Books, MoneyTypes, IInv, RowsAndLocks
<1>3. today' \in Day /\ today <= today'
  BY <1>1, LoanBounds DEF Books, MoneyTypes, Day
<1>4. ASSUME NEW m \in Loan \ {l} PROVE (Disbursed(m) => Lags(loan[m], NetApplied(m), today))'
  <2>1. PaymentsOf(payment', m) = PaymentsOf(payment, m)
    BY <1>1 DEF PaymentsOf
  <2>2. \A q \in PaymentsOf(payment, m) : payment'[q] = payment[q] /\ reversal'[q] = reversal[q]
    BY <1>1, <1>2 DEF PaymentsOf
  <2> QED BY <1>2, <1>3, <2>1, <2>2, LagsStill
<1>5. Lags(Projected(l, payment, reversal', work[l].date), Applied(payment, reversal', l), today)
  BY <1>1, ProjectedLags DEF Books, MoneyTypes
<1>6. NetApplied(l)' = Applied(payment, reversal', l)
  BY <1>1 DEF NetApplied
<1> QED BY <1>1, <1>2, <1>4, <1>5, <1>6 DEF LagsEverywhere

LEMMA LagsByAssess ==
  ASSUME IInv, Books, LagsEverywhere, NEW l \in Loan, Assess(l)
  PROVE  LagsEverywhere'
<1> DEFINE net == NetApplied(l)
           status == LoanStatus(l, net, today)
           row == [loan[l] EXCEPT !.status = status]
<1>1. loan[l].status # "none" /\ UNCHANGED <<today, payment, reversal, work, drawer>>
      /\ loan' = [loan EXCEPT ![l].status = status]
  BY DEF Assess, NetApplied
<1> HIDE DEF net, status
<1>2. row.status = status /\ row.since = loan[l].since /\ row.obligation = loan[l].obligation
  BY DEF Books, MoneyTypes, LoanRow
<1>3. loan'[l] = row /\ \A m \in Loan \ {l} : loan'[m] = loan[m]
  BY <1>1 DEF Books, MoneyTypes
<1> HIDE DEF row
<1>4. today' \in Day /\ today <= today'
  BY <1>1, LoanBounds DEF Books, MoneyTypes, Day
<1>5. ASSUME NEW m \in Loan \ {l} PROVE (Disbursed(m) => Lags(loan[m], NetApplied(m), today))'
  <2>1. PaymentsOf(payment', m) = PaymentsOf(payment, m)
    BY <1>1 DEF PaymentsOf
  <2> QED BY <1>1, <1>3, <1>4, <2>1, LagsStill
<1>6. Lags(loan[l], net, today)
  BY <1>1 DEF LagsEverywhere, Disbursed, net
<1>7. Lags(row, net, today)
  <2>1. status = "paid" <=> \A k \in Instalment : ~Owes(net, k)
    BY DEF LoanStatus, status
  <2>2. status = "past_due" => \E k \in Instalment : today > DueDate(l, k) /\ Owes(net, k)
    BY DEF LoanStatus, status
  <2> QED BY <1>2, <1>6, <2>1, <2>2 DEF Lags, DueDate
<1>8. NetApplied(l)' = net
  BY <1>1 DEF NetApplied, net
<1> QED BY <1>1, <1>3, <1>5, <1>7, <1>8 DEF LagsEverywhere

LEMMA LagsByTheRest ==
  ASSUME IInv, Books, LagsEverywhere, UNCHANGED <<loan, payment, reversal>>, today' \in Day, today <= today'
  PROVE  LagsEverywhere'
<1>1. ASSUME NEW l \in Loan PROVE (Disbursed(l) => Lags(loan[l], NetApplied(l), today))'
  <2>1. PaymentsOf(payment', l) = PaymentsOf(payment, l)
    BY DEF PaymentsOf
  <2> QED BY <2>1, LagsStill
<1> QED BY <1>1 DEF LagsEverywhere

LEMMA LagsPreserved ==
  ASSUME IInv, Books, LagsEverywhere, [Next]_vars
  PROVE  LagsEverywhere'
<1>1. today \in Day /\ today <= today
  BY LoanBounds DEF Books, MoneyTypes, Day
<1>2. CASE UNCHANGED vars
  BY <1>1, <1>2, LagsByTheRest DEF vars
<1>3. ASSUME NEW l \in Loan, NEW s \in SessionId, Disburse(l, s)
      PROVE  LagsEverywhere'
  BY <1>3, LagsByDisburse
<1>4. ASSUME NEW l \in Loan, NEW amount, NEW s, NEW key, NEW reference,
             LockToPay(l, amount, s, key, reference)
      PROVE  LagsEverywhere'
  BY <1>1, <1>4, LagsByTheRest DEF LockToPay
<1>5. ASSUME NEW l \in Loan, NEW p \in Payment, CommitPayment(l, p)
      PROVE  LagsEverywhere'
  BY <1>5, LagsByCommitPayment
<1>6. ASSUME NEW l \in Loan, CommitReversal(l)
      PROVE  LagsEverywhere'
  BY <1>6, LagsByCommitReversal
<1>7. ASSUME NEW l \in Loan, Abort(l)
      PROVE  LagsEverywhere'
  BY <1>1, <1>7, LagsByTheRest DEF Abort
<1>8. ASSUME NEW l \in Loan, Assess(l)
      PROVE  LagsEverywhere'
  BY <1>8, LagsByAssess
<1>9. ASSUME NEW u, NEW p, NEW s, NEW key, LockToReverse(u, p, s, key)
      PROVE  LagsEverywhere'
  BY <1>1, <1>9, LagsByTheRest DEF LockToReverse
<1>10. CASE NextDay
  <2>1. today' \in Day /\ today <= today'
    BY <1>1, <1>10, LoanBounds DEF NextDay, Day
  <2> QED BY <1>10, <2>1, LagsByTheRest DEF NextDay
<1>11. ASSUME NEW s \in SessionId, (\E fund \in 0 .. MaxFund : OpenDrawer(s, fund)) \/ CloseDrawer(s)
       PROVE  LagsEverywhere'
  BY <1>1, <1>11, LagsByTheRest DEF OpenDrawer, CloseDrawer
<1> QED BY <1>2, <1>3, <1>4, <1>5, <1>6, <1>7, <1>8, <1>9, <1>10, <1>11 DEF Next

\* Whatever days pass between a command's lock and its commit, the stored status of a loan is at most
\* behind the calendar, and never wrong about what was paid.
THEOREM StatusesLag == Spec => []StatusOnlyLags
<1>1. Init => LagsEverywhere
  BY DEF Init, LagsEverywhere, Disbursed, NoLoan
<1>2. LagsEverywhere => StatusOnlyLags
  BY LagsIsTheProperty DEF LagsEverywhere
<1> QED BY <1>1, <1>2, Inductive, BooksAreKept, LagsPreserved, PTL DEF Spec

-----------------------------------------------------------------------------
(* The ledger: in which order a payment is allocated, and over what.        *)

DueUpTo(l, date) == {k \in Instalment : DueDate(l, k) <= date}
Earlier(l) ==
  {jk \in Instalment \X Instalment :
    \/ DueDate(l, jk[1]) < DueDate(l, jk[2])
    \/ DueDate(l, jk[1]) = DueDate(l, jk[2]) /\ jk[1] < jk[2]}

LEMMA FiniteContract == IsFiniteSet(Instalment) /\ IsFiniteSet(Component) /\ IsFiniteSet(Slot)
<1>1. IsFiniteSet(Instalment)
  BY LoanContract, FS_Interval DEF Instalment
<1>2. IsFiniteSet(Component)
  <2>1. Len(Order) \in Nat /\ DOMAIN Order = 1 .. Len(Order)
    BY LoanContract, LenProperties
  <2>2. IsFiniteSet(DOMAIN Order)
    BY <2>1, FS_Interval
  <2>3. Order \in Surjection(DOMAIN Order, Component)
    BY <2>1, LoanContract, LenProperties DEF Surjection
  <2> QED BY <2>2, <2>3, FS_Surjection
<1>3. IsFiniteSet(Slot)
  BY <1>1, <1>2, FS_Product DEF Slot
<1> QED BY <1>1, <1>2, <1>3

LEMMA EarlierOrders ==
  ASSUME NEW l \in Loan, loan[l].since \in Nat, NEW date
  PROVE  /\ IsOrderOf(Earlier(l), DueUpTo(l, date))
         /\ IsFiniteSet(DueUpTo(l, date)) /\ Cardinality(DueUpTo(l, date)) \in Nat
<1>1. ASSUME NEW k \in Instalment PROVE DueDate(l, k) \in Nat /\ k \in Nat
  <2>1. DueAfter[k] \in Nat /\ k \in Nat
    BY LoanContract DEF Instalment
  <2> QED BY <2>1 DEF DueDate
<1>2. \A j, k \in Instalment : <<j, k>> \in Earlier(l) <=>
        DueDate(l, j) < DueDate(l, k) \/ (DueDate(l, j) = DueDate(l, k) /\ j < k)
  BY DEF Earlier
<1>3. DueUpTo(l, date) \subseteq Instalment
  BY DEF DueUpTo
<1>4. IsOrderOf(Earlier(l), DueUpTo(l, date))
  BY <1>1, <1>2, <1>3 DEF IsOrderOf
<1> QED BY <1>3, <1>4, FiniteContract, FS_Subset, FS_CardinalityType

\* The instalments due, each once, the oldest first.
LEMMA PayableIsOrdered ==
  ASSUME NEW l \in Loan, loan[l].since \in Nat, NEW date
  PROVE  LET due == DueUpTo(l, date)
             n == Cardinality(due)
             ks == Payable(l, date)
         IN /\ n \in Nat /\ ks \in [1 .. n -> due]
            /\ \A i, j \in 1 .. n : ks[i] = ks[j] => i = j
            /\ \A k \in due : \E i \in 1 .. n : ks[i] = k
            /\ \A i, j \in 1 .. n : DueDate(l, ks[i]) < DueDate(l, ks[j]) => i < j
<1> DEFINE due == DueUpTo(l, date)
           n == Cardinality(due)
           ks == Payable(l, date)
           InOrder(s) == \A i, j \in 1 .. n : i < j =>
             \/ DueDate(l, s[i]) < DueDate(l, s[j])
             \/ DueDate(l, s[i]) = DueDate(l, s[j]) /\ s[i] < s[j]
<1>1. IsOrderOf(Earlier(l), due) /\ IsFiniteSet(due) /\ n \in Nat /\ due \subseteq Instalment
  BY EarlierOrders DEF DueUpTo
<1>2. ks = CHOOSE s \in [1 .. n -> due] : InOrder(s)
  BY DEF Payable, DueUpTo
<1> HIDE DEF due, n, ks
<1>3. \A s \in [1 .. n -> due] : InOrder(s) <=> IsInOrder(s, n, Earlier(l))
  <2> SUFFICES ASSUME NEW s \in [1 .. n -> due] PROVE InOrder(s) <=> IsInOrder(s, n, Earlier(l))
    OBVIOUS
  <2>1. \A i \in 1 .. n : s[i] \in Instalment
    BY <1>1
  <2>2. \A i, j \in 1 .. n : <<s[i], s[j]>> \in Earlier(l) <=>
          \/ DueDate(l, s[i]) < DueDate(l, s[j])
          \/ DueDate(l, s[i]) = DueDate(l, s[j]) /\ s[i] < s[j]
    BY <2>1 DEF Earlier
  <2> QED BY <2>2 DEF IsInOrder
<1> HIDE DEF InOrder
<1>4. \E s \in [1 .. n -> due] : InOrder(s)
  BY <1>1, <1>3, Enumerated DEF n
<1>5. ks \in [1 .. n -> due] /\ InOrder(ks)
  BY <1>2, <1>4
<1>6. IsInOrder(ks, n, Earlier(l))
  BY <1>3, <1>5
<1>7. /\ \A i, j \in 1 .. n : ks[i] = ks[j] => i = j
      /\ \A x \in due : \E i \in 1 .. n : ks[i] = x
      /\ \A i, j \in 1 .. n : <<ks[i], ks[j]>> \in Earlier(l) => i < j
  BY <1>1, <1>5, <1>6, EachOnce DEF n
<1>8. \A i, j \in 1 .. n : DueDate(l, ks[i]) < DueDate(l, ks[j]) => <<ks[i], ks[j]>> \in Earlier(l)
  BY <1>1, <1>5 DEF Earlier
<1> QED BY <1>1, <1>5, <1>7, <1>8 DEF due, n, ks

LEMMA Divided ==
  ASSUME NEW w \in Nat \ {0}, NEW i \in Nat
  PROVE  (i \div w) \in Nat /\ (i % w) \in 0 .. w - 1 /\ i = w * (i \div w) + (i % w)
BY SMT

LEMMA TimesMore ==
  ASSUME NEW w \in Nat, NEW a \in Nat, NEW b \in Nat, a < b
  PROVE  w * a \in Nat /\ w * b \in Nat /\ w * a + w <= w * b
BY SMT

LEMMA Composed ==
  ASSUME NEW w \in Nat \ {0}, NEW q \in Nat, NEW r \in 0 .. w - 1
  PROVE  w * q + r \in Nat /\ (w * q + r) \div w = q /\ (w * q + r) % w = r
BY SMT

RunSlots(l, date) == {x \in Slot : x[1] \in DueUpTo(l, date)}

\* run goes through each slot of the instalments due once, older instalments first.
IsRunOf(run, n, l, date) ==
  /\ n \in Nat /\ run \in [1 .. n -> Slot]
  /\ \A i, j \in 1 .. n : run[i] = run[j] => i = j
  /\ \A x \in RunSlots(l, date) : \E i \in 1 .. n : run[i] = x
  /\ \A i \in 1 .. n : run[i] \in RunSlots(l, date)
  /\ \A i, j \in 1 .. n : DueDate(l, run[i][1]) < DueDate(l, run[j][1]) => i < j

\* The position of the r-th of w entries in the q-th of n groups, both counted from 1.
LEMMA Positions ==
  ASSUME NEW w \in Nat \ {0}, NEW n \in Nat
  PROVE  /\ w * n \in Nat
         /\ \A i \in 1 .. w * n :
              ((i - 1) \div w) + 1 \in 1 .. n /\ ((i - 1) % w) + 1 \in 1 .. w
         /\ \A i, j \in 1 .. w * n :
              (i - 1) \div w = (j - 1) \div w /\ (i - 1) % w = (j - 1) % w => i = j
         /\ \A i, j \in 1 .. w * n : (i - 1) \div w < (j - 1) \div w => i < j
         /\ \A q \in 1 .. n, r \in 1 .. w : \E i \in 1 .. w * n :
              ((i - 1) \div w) + 1 = q /\ ((i - 1) % w) + 1 = r
<1>1. w * n \in Nat
  BY SMT
<1>2. ASSUME NEW i \in 1 .. w * n
      PROVE  ((i - 1) \div w) + 1 \in 1 .. n /\ ((i - 1) % w) + 1 \in 1 .. w
  <2> DEFINE a == (i - 1) \div w
             b == (i - 1) % w
  <2>1. i - 1 \in Nat /\ i - 1 < w * n
    BY <1>1
  <2>2. a \in Nat /\ b \in 0 .. w - 1 /\ i - 1 = w * a + b
    BY <2>1, Divided
  <2> HIDE DEF a, b
  <2>3. a < n
    <3>1. CASE a = n
      <4>1. w * a = w * n
        BY <3>1
      <4> QED BY <1>1, <2>1, <2>2, <4>1
    <3>2. CASE n < a
      <4>1. w * n + w <= w * a /\ w * a \in Nat
        BY <2>2, <3>2, TimesMore
      <4> QED BY <1>1, <2>1, <2>2, <4>1
    <3> QED BY <2>2, <3>1, <3>2
  <2>4. a + 1 \in 1 .. n /\ b + 1 \in 1 .. w
    BY <2>2, <2>3
  <2> QED BY <2>4 DEF a, b
<1>3. ASSUME NEW i \in 1 .. w * n
      PROVE  /\ (i - 1) \div w \in Nat /\ (i - 1) % w \in 0 .. w - 1
             /\ i - 1 = w * ((i - 1) \div w) + ((i - 1) % w)
  <2>1. i - 1 \in Nat
    BY <1>1
  <2> QED BY <2>1, Divided
<1>4. ASSUME NEW i \in 1 .. w * n, NEW j \in 1 .. w * n,
             (i - 1) \div w = (j - 1) \div w, (i - 1) % w = (j - 1) % w
      PROVE  i = j
  <2>1. i - 1 = j - 1
    BY <1>3, <1>4
  <2> QED BY <1>1, <2>1
<1>5. ASSUME NEW i \in 1 .. w * n, NEW j \in 1 .. w * n, (i - 1) \div w < (j - 1) \div w
      PROVE  i < j
  <2> DEFINE a == (i - 1) \div w
             b == (j - 1) \div w
             c == (i - 1) % w
             d == (j - 1) % w
  <2>1. a \in Nat /\ b \in Nat /\ a < b /\ c \in 0 .. w - 1 /\ d \in 0 .. w - 1
    BY <1>3, <1>5
  <2>2. i - 1 = w * a + c /\ j - 1 = w * b + d
    BY <1>3
  <2> HIDE DEF a, b, c, d
  <2>3. w * a \in Nat /\ w * b \in Nat /\ w * a + w <= w * b
    BY <2>1, TimesMore
  <2> QED BY <1>1, <2>1, <2>2, <2>3
<1>6. ASSUME NEW q \in 1 .. n, NEW r \in 1 .. w
      PROVE  \E i \in 1 .. w * n : ((i - 1) \div w) + 1 = q /\ ((i - 1) % w) + 1 = r
  <2> DEFINE a == q - 1
             b == r - 1
             at == w * a + b
  <2>1. a \in Nat /\ b \in 0 .. w - 1 /\ a < n
    OBVIOUS
  <2> HIDE DEF a, b
  <2>2. at \in Nat /\ at \div w = a /\ at % w = b
    BY <2>1, Composed
  <2>3. w * a \in Nat /\ w * a + w <= w * n
    BY <2>1, TimesMore
  <2>4. at + 1 \in 1 .. w * n
    BY <1>1, <2>1, <2>2, <2>3
  <2> HIDE DEF at
  <2>5. (at + 1) - 1 = at
    BY <2>2
  <2>6. a + 1 = q /\ b + 1 = r
    BY DEF a, b
  <2> QED BY <2>2, <2>4, <2>5, <2>6
<1> QED BY <1>1, <1>2, <1>4, <1>5, <1>6

\* The slots a payment runs through: all of what is due, each once, the oldest instalment first.
LEMMA RunIsOrdered ==
  ASSUME NEW l \in Loan, loan[l].since \in Nat, NEW date
  PROVE  \E n : IsRunOf(Run(l, date), n, l, date)
<1> DEFINE due == DueUpTo(l, date)
           m == Cardinality(due)
           ks == Payable(l, date)
           w == Len(Order)
           run == Run(l, date)
           q(i) == ((i - 1) \div w) + 1
           r(i) == ((i - 1) % w) + 1
<1>1. /\ m \in Nat /\ ks \in [1 .. m -> due]
      /\ \A i, j \in 1 .. m : ks[i] = ks[j] => i = j
      /\ \A k \in due : \E i \in 1 .. m : ks[i] = k
      /\ \A i, j \in 1 .. m : DueDate(l, ks[i]) < DueDate(l, ks[j]) => i < j
  BY PayableIsOrdered
<1>2. due \subseteq Instalment
  BY DEF DueUpTo
<1>3. ks \in Seq(due) /\ Len(ks) = m
  <2> HIDE DEF due, m, ks
  <2> QED BY <1>1
<1>4. /\ w \in Nat \ {0} /\ Order \in [1 .. w -> Component] /\ DOMAIN Order = 1 .. w
      /\ \A c \in Component : \E i \in 1 .. w : Order[i] = c
      /\ \A i, j \in 1 .. w : Order[i] = Order[j] => i = j
  <2>1. w \in Nat /\ Order \in [1 .. w -> Component] /\ DOMAIN Order = 1 .. w
    BY LoanContract, LenProperties
  <2>2. w # 0
    BY <2>1, LoanContract
  <2> QED BY <2>1, <2>2, LoanContract DEF IsInjective
<1>5. run = [i \in 1 .. w * m |-> <<ks[q(i)], Order[r(i)]>>]
  BY <1>3 DEF Run
<1> HIDE DEF due, m, ks, w, run
<1>6. /\ w * m \in Nat
      /\ \A i \in 1 .. w * m : q(i) \in 1 .. m /\ r(i) \in 1 .. w
      /\ \A i, j \in 1 .. w * m : q(i) = q(j) /\ r(i) = r(j) => i = j
      /\ \A i, j \in 1 .. w * m : q(i) < q(j) => i < j
      /\ \A x \in 1 .. m, y \in 1 .. w : \E i \in 1 .. w * m : q(i) = x /\ r(i) = y
  <2>1. /\ w * m \in Nat
        /\ \A i \in 1 .. w * m : q(i) \in 1 .. m /\ r(i) \in 1 .. w
        /\ \A x \in 1 .. m, y \in 1 .. w : \E i \in 1 .. w * m : q(i) = x /\ r(i) = y
    BY <1>1, <1>4, Positions
  <2>2. ASSUME NEW i \in 1 .. w * m
        PROVE  (i - 1) \div w \in Nat /\ (i - 1) % w \in Nat
    <3> DEFINE h == i - 1
    <3>1. h \in Nat
      BY <2>1
    <3> HIDE DEF h
    <3>2. h \div w \in Nat /\ h % w \in 0 .. w - 1
      BY <1>4, <3>1, Divided
    <3>3. 0 .. w - 1 \subseteq Nat
      OBVIOUS
    <3> QED BY <3>2, <3>3 DEF h
  <2>3. ASSUME NEW i \in 1 .. w * m, NEW j \in 1 .. w * m
        PROVE  (q(i) = q(j) /\ r(i) = r(j) => i = j) /\ (q(i) < q(j) => i < j)
    <3>1. /\ (i - 1) \div w = (j - 1) \div w /\ (i - 1) % w = (j - 1) % w => i = j
          /\ (i - 1) \div w < (j - 1) \div w => i < j
      BY <1>1, <1>4, Positions
    <3> QED BY <2>2, <3>1
  <2> QED BY <2>1, <2>3
<1> HIDE DEF q, r
<1>7. \A i \in 1 .. w * m : /\ run[i] = <<ks[q(i)], Order[r(i)]>>
                            /\ ks[q(i)] \in due /\ Order[r(i)] \in Component
  BY <1>1, <1>4, <1>5, <1>6
<1>8. run \in [1 .. w * m -> Slot] /\ \A i \in 1 .. w * m : run[i] \in RunSlots(l, date)
  <2>1. ASSUME NEW i \in 1 .. w * m PROVE run[i] \in Slot /\ run[i][1] \in due
    <3>1. PICK k \in due, c \in Component : run[i] = <<k, c>>
      BY <1>7
    <3> QED BY <1>2, <3>1 DEF Slot
  <2> QED BY <1>5, <2>1 DEF RunSlots, due
<1>9. \A i, j \in 1 .. w * m : run[i] = run[j] => i = j
  <2> SUFFICES ASSUME NEW i \in 1 .. w * m, NEW j \in 1 .. w * m, run[i] = run[j] PROVE i = j
    OBVIOUS
  <2>1. ks[q(i)] = ks[q(j)] /\ Order[r(i)] = Order[r(j)]
    BY <1>7
  <2>2. q(i) = q(j) /\ r(i) = r(j)
    BY <1>1, <1>4, <1>6, <2>1
  <2> QED BY <1>6, <2>2
<1>10. \A x \in RunSlots(l, date) : \E i \in 1 .. w * m : run[i] = x
  <2> SUFFICES ASSUME NEW x \in RunSlots(l, date) PROVE \E i \in 1 .. w * m : run[i] = x
    OBVIOUS
  <2>1. PICK k \in due, c \in Component : x = <<k, c>>
    BY DEF RunSlots, Slot, due
  <2>2. PICK a \in 1 .. m, b \in 1 .. w : ks[a] = k /\ Order[b] = c
    BY <1>1, <1>4
  <2>3. PICK i \in 1 .. w * m : q(i) = a /\ r(i) = b
    BY <1>6
  <2> QED BY <1>7, <2>1, <2>2, <2>3
<1>11. \A i, j \in 1 .. w * m : DueDate(l, run[i][1]) < DueDate(l, run[j][1]) => i < j
  BY <1>1, <1>6, <1>7
<1>12. IsRunOf(run, w * m, l, date)
  BY <1>6, <1>8, <1>9, <1>10, <1>11 DEF IsRunOf
<1> QED BY <1>12 DEF run

\* One slot of the run takes what it needs of what is left.
Take(open, rest, x) ==
  LET take == Min({open[x], rest.left})
  IN IF take > 0 THEN [left |-> rest.left - take, parts |-> [rest.parts EXCEPT ![x] = take]] ELSE rest

Untaken(amount) == [left |-> amount, parts |-> NoParts]

\* k says what each set of positions of the run makes of the amount, the last position last.
IsTaken(open, amount, run, S, k) ==
  k = [s \in SUBSET S |-> IF s = {} THEN Untaken(amount) ELSE Take(open, k[s \ {Max(s)}], run[Max(s)])]

LEMMA LastPosition ==
  ASSUME NEW n \in Nat, NEW s \in SUBSET (1 .. n), s # {}
  PROVE  Max(s) \in s /\ \A y \in s : Max(s) >= y
<1> DEFINE less == {xy \in s \X s : xy[1] < xy[2]}
<1>1. IsFiniteSet(s) /\ s \subseteq Nat
  <2>1. 0 \in Int /\ 1 \in Int /\ n \in Int /\ 1 .. n \subseteq Nat
    OBVIOUS
  <2>2. IsFiniteSet(1 .. n)
    BY <2>1, FS_Interval
  <2>3. IsFiniteSet(s)
    BY <2>2, FS_Subset
  <2> QED BY <2>1, <2>3
<1>2. \A x, y \in s : <<x, y>> \in less <=> x < y
  OBVIOUS
<1> HIDE DEF less
<1>3. IsOrderOf(less, s)
  BY <1>1, <1>2 DEF IsOrderOf
<1>4. PICK m \in s : \A x \in s \ {m} : <<x, m>> \in less
  BY <1>1, <1>3, LastExists
<1>5. ASSUME NEW y \in s PROVE m >= y
  <2>1. y = m \/ y < m
    BY <1>2, <1>4
  <2> QED BY <1>1, <2>1
<1> QED BY <1>5 DEF Max

LEMMA TakenExists ==
  ASSUME NEW open, NEW amount, NEW run, NEW n \in Nat
  PROVE  \E k : IsTaken(open, amount, run, 1 .. n, k)
<1> DEFINE S == 1 .. n
           Row(k, s) == IF s = {} THEN Untaken(amount) ELSE Take(open, k[s \ {Max(s)}], run[Max(s)])
           Upto(c, k) == \A s \in SUBSET S : Cardinality(s) <= c => k[s] = Row(k, s)
           T == {c \in Nat : \E k : Upto(c, k)}
<1>0. IsFiniteSet(S) /\ Cardinality(S) \in Nat
  BY FS_Interval, FS_CardinalityType
<1>1. \A s \in SUBSET S : IsFiniteSet(s) /\ Cardinality(s) \in Nat /\ Cardinality(s) <= Cardinality(S)
  BY <1>0, FS_Subset, FS_CardinalityType
<1>a. \A s \in SUBSET S : s # {} => Max(s) \in s
  BY LastPosition
<1> HIDE DEF S
<1>2. 0 \in T
  <2> DEFINE k == [s \in SUBSET S |-> Untaken(amount)]
  <2>1. ASSUME NEW s \in SUBSET S, Cardinality(s) <= 0
        PROVE  k[s] = Row(k, s)
    <3>1. Cardinality(s) = 0
      BY <1>1, <2>1
    <3> QED BY <1>1, <3>1, FS_EmptySet
  <2>2. Upto(0, k)
    BY <2>1
  <2> QED BY <2>2
<1>3. ASSUME NEW c \in Nat, c \in T
      PROVE  c + 1 \in T
  <2>1. PICK k : Upto(c, k)
    BY <1>3
  <2> DEFINE m == [s \in SUBSET S |-> Row(k, s)]
  <2>2. \A s \in SUBSET S : Cardinality(s) <= c => m[s] = k[s]
    BY <2>1
  <2>3. ASSUME NEW s \in SUBSET S, Cardinality(s) <= c + 1
        PROVE  m[s] = Row(m, s)
    <3>1. CASE s = {}
      BY <3>1
    <3>2. CASE s # {}
      <4> DEFINE x == Max(s)
      <4>1. x \in s
        BY <3>2, <1>a
      <4>2. s \ {x} \in SUBSET S /\ Cardinality(s \ {x}) <= c
        BY <4>1, <2>3, <1>1, OneLess
      <4>3. m[s \ {x}] = k[s \ {x}]
        BY <4>2, <2>2
      <4>4. m[s] = Take(open, k[s \ {x}], run[x])
        BY <3>2
      <4>5. Row(m, s) = Take(open, m[s \ {x}], run[x])
        BY <3>2
      <4> HIDE DEF m, x
      <4> QED BY <4>3, <4>4, <4>5
    <3> QED BY <3>1, <3>2
  <2>4. Upto(c + 1, m)
    BY <2>3
  <2> HIDE DEF Upto
  <2> QED BY <2>4
<1>4. Cardinality(S) \in T
  <2> HIDE DEF T
  <2> QED BY <1>0, <1>2, <1>3, EveryNatural
<1>5. PICK k : Upto(Cardinality(S), k)
  BY <1>4
<1> DEFINE m == [s \in SUBSET S |-> k[s]]
<1>6. \A s \in SUBSET S : m[s] = Row(m, s)
  <2> SUFFICES ASSUME NEW s \in SUBSET S PROVE m[s] = Row(m, s)
    OBVIOUS
  <2>1. k[s] = Row(k, s)
    BY <1>1, <1>5
  <2>2. s # {} => s \ {Max(s)} \in SUBSET S
    OBVIOUS
  <2> QED BY <2>1, <2>2
<1>7. m = [s \in SUBSET S |-> Row(m, s)]
  BY <1>6
<1> QED BY <1>7 DEF IsTaken, S

\* The fold of the allocation is such a table.
LEMMA AllocateIsTaken ==
  ASSUME NEW amount, NEW open, NEW n \in Nat, NEW run, DOMAIN run = 1 .. n
  PROVE  \E k : IsTaken(open, amount, run, 1 .. n, k) /\ Allocate(amount, run, open) = k[1 .. n].parts
<1> DEFINE m == CHOOSE m : m = [s \in SUBSET (1 .. n) |->
                  IF s = {} THEN Untaken(amount) ELSE Take(open, m[s \ {Max(s)}], run[Max(s)])]
<1>1. \A x : IsTaken(open, amount, run, 1 .. n, x) <=>
        x = [s \in SUBSET (1 .. n) |->
              IF s = {} THEN Untaken(amount) ELSE Take(open, x[s \ {Max(s)}], run[Max(s)])]
  BY DEF IsTaken
<1>2. IsTaken(open, amount, run, 1 .. n, m)
  BY <1>1, TakenExists
<1>3. Allocate(amount, run, open) = m[1 .. n].parts
  BY DEF Allocate, FoldLeft, MapThenFoldSet, Take, Untaken
<1> HIDE DEF m
<1> QED BY <1>2, <1>3

LEMMA LessOfTwo ==
  ASSUME NEW a \in Nat, NEW b \in Nat
  PROVE  Min({a, b}) = IF a <= b THEN a ELSE b
<1>1. CASE a <= b
  <2>1. a \in {a, b} /\ \A y \in {a, b} : a <= y
    BY <1>1
  <2>2. \A x \in {a, b} : (\A y \in {a, b} : x <= y) => x = a
    BY <1>1
  <2> QED BY <1>1, <2>1, <2>2 DEF Min
<1>2. CASE ~(a <= b)
  <2>1. b \in {a, b} /\ \A y \in {a, b} : b <= y
    BY <1>2
  <2>2. \A x \in {a, b} : (\A y \in {a, b} : x <= y) => x = b
    BY <1>2
  <2> QED BY <1>2, <2>1, <2>2 DEF Min
<1> QED BY <1>1, <1>2

\* What has been taken of the amount after i positions of the run.
TakenTo(open, amount, run, i, left, parts) ==
  /\ left \in Nat /\ parts \in Parts
  /\ \A x \in Slot : parts[x] <= open[x] /\ (parts[x] > 0 => \E j \in 1 .. i : run[j] = x)
  /\ left + SumOver(parts, Slot) = amount
  /\ left > 0 => \A j \in 1 .. i : parts[run[j]] = open[run[j]]
  /\ \A j, h \in 1 .. i : parts[run[j]] > 0 /\ h < j => parts[run[h]] = open[run[h]]

LEMMA SumOfNoParts == SumOver(NoParts, Slot) = 0
<1> DEFINE P == {t \in SUBSET Slot : SumOver(NoParts, t) = 0}
<1>1. {} \in P
  BY SumOfNone
<1>2. ASSUME NEW t \in SUBSET Slot, NEW a \in Slot \ t, t \in P
      PROVE  t \cup {a} \in P
  <2>1. IsFiniteSet(t) /\ (\A x \in t \cup {a} : NoParts[x] \in Int) /\ NoParts[a] = 0
    BY FiniteContract, FS_Subset DEF NoParts
  <2>2. SumOver(NoParts, t \cup {a}) = NoParts[a] + SumOver(NoParts, t)
    BY <2>1, SumOfOneMore
  <2> QED BY <1>2, <2>1, <2>2
<1>3. Slot \in P
  <2> HIDE DEF P
  <2> QED BY <1>1, <1>2, EveryElement, FiniteContract
<1> QED BY <1>3

LEMMA TakenAtFirst ==
  ASSUME NEW open \in Parts, NEW amount \in Nat, NEW run
  PROVE  TakenTo(open, amount, run, 0, amount, NoParts)
BY SumOfNoParts DEF TakenTo, Parts, NoParts

\* The next position takes what its slot needs or what is left, whichever is less.
LEMMA TakenNext ==
  ASSUME NEW open \in Parts, NEW amount \in Nat, NEW n \in Nat, NEW run \in [1 .. n -> Slot],
         \A i, j \in 1 .. n : run[i] = run[j] => i = j,
         NEW i \in Nat, i < n, NEW s, TakenTo(open, amount, run, i, s.left, s.parts)
  PROVE  LET t == Take(open, s, run[i + 1])
         IN TakenTo(open, amount, run, i + 1, t.left, t.parts)
<1> DEFINE x == run[i + 1]
           take == Min({open[x], s.left})
           t == Take(open, s, x)
           left == s.left
           parts == s.parts
           more == [parts EXCEPT ![x] = take]
<1>1. /\ i + 1 \in 1 .. n /\ x \in Slot /\ left \in Nat /\ parts \in Parts
      /\ \A j \in 1 .. i : j \in 1 .. n /\ run[j] \in Slot /\ run[j] # x
      /\ \A j \in 1 .. i + 1 : j \in 1 .. i \/ j = i + 1
      /\ \A j \in 1 .. i : j \in 1 .. i + 1
  BY DEF TakenTo
<1>2. open[x] \in Nat /\ \A y \in Slot : open[y] \in Nat /\ parts[y] \in Nat
  BY <1>1 DEF Parts
<1>3. take = IF open[x] <= left THEN open[x] ELSE left
  BY <1>1, <1>2, LessOfTwo
<1>4. IF take > 0 THEN t.left = left - take /\ t.parts = more ELSE t = s
  BY DEF Take
<1>5. parts[x] = 0
  BY <1>1, <1>2 DEF TakenTo
<1>6. /\ \A y \in Slot : parts[y] <= open[y] /\ (parts[y] > 0 => \E j \in 1 .. i : run[j] = y)
      /\ left + SumOver(parts, Slot) = amount
      /\ left > 0 => \A j \in 1 .. i : parts[run[j]] = open[run[j]]
      /\ \A j, h \in 1 .. i : parts[run[j]] > 0 /\ h < j => parts[run[h]] = open[run[h]]
  BY DEF TakenTo
<1> HIDE DEF x, take, t, left, parts
<1>7. ASSUME ~(take > 0) PROVE TakenTo(open, amount, run, i + 1, t.left, t.parts)
  <2>1. t.left = left /\ t.parts = parts
    BY <1>4, <1>7 DEF left, parts
  <2>2. left > 0 => open[x] = 0
    BY <1>1, <1>2, <1>3, <1>7
  <2>3. left > 0 => \A j \in 1 .. i + 1 : parts[run[j]] = open[run[j]]
    BY <1>1, <1>5, <1>6, <2>2 DEF x
  <2>4. \A j, h \in 1 .. i + 1 : parts[run[j]] > 0 /\ h < j => parts[run[h]] = open[run[h]]
    <3> SUFFICES ASSUME NEW j \in 1 .. i + 1, NEW h \in 1 .. i + 1, parts[run[j]] > 0, h < j
                 PROVE  parts[run[h]] = open[run[h]]
      OBVIOUS
    <3>1. j \in 1 .. i
      BY <1>1, <1>5 DEF x
    <3>2. h \in 1 .. i
      BY <3>1
    <3> QED BY <1>6, <3>1, <3>2
  <2>5. \A y \in Slot : parts[y] > 0 => \E j \in 1 .. i + 1 : run[j] = y
    BY <1>1, <1>6
  <2> QED BY <1>1, <1>6, <2>1, <2>3, <2>4, <2>5 DEF TakenTo
<1>8. ASSUME take > 0 PROVE TakenTo(open, amount, run, i + 1, t.left, t.parts)
  <2>1. t.left = left - take /\ t.parts = more
    BY <1>4, <1>8
  <2>2. take \in Nat /\ take <= left /\ take <= open[x] /\ (left - take > 0 => take = open[x]) /\ left > 0
    BY <1>1, <1>2, <1>3, <1>8
  <2>3. more \in Parts /\ more[x] = take /\ \A y \in Slot : y # x => more[y] = parts[y]
    BY <1>1, <2>2 DEF Parts
  <2> HIDE DEF more
  <2>4. SumOver(more, Slot) = SumOver(parts, Slot) + take
    <3>1. /\ \A y \in Slot : more[y] \in Int /\ parts[y] \in Int
          /\ \A y \in Slot \ {x} : more[y] = parts[y]
      BY <1>2, <2>3 DEF Parts
    <3>2. SumOver(more, Slot) = SumOver(parts, Slot) + more[x] - parts[x]
      BY <1>1, <3>1, FiniteContract, SumOfOneChanged
    <3>3. SumOver(parts, Slot) \in Int
      BY <3>1, FiniteContract, SumType
    <3> QED BY <1>5, <2>2, <2>3, <3>2, <3>3
  <2>5. left - take \in Nat /\ (left - take) + SumOver(more, Slot) = amount
    <3>1. SumOver(parts, Slot) \in Int
      BY <1>2, FiniteContract, SumType
    <3> QED BY <1>1, <1>6, <2>2, <2>4, <3>1
  <2>6. \A y \in Slot : more[y] <= open[y] /\ (more[y] > 0 => \E j \in 1 .. i + 1 : run[j] = y)
    <3> SUFFICES ASSUME NEW y \in Slot
                 PROVE  more[y] <= open[y] /\ (more[y] > 0 => \E j \in 1 .. i + 1 : run[j] = y)
      OBVIOUS
    <3>0. i + 1 \in 1 .. i + 1
      OBVIOUS
    <3>1. CASE y = x
      BY <2>2, <2>3, <3>0, <3>1 DEF x
    <3>2. CASE y # x
      BY <1>1, <1>6, <2>3, <3>2
    <3> QED BY <3>1, <3>2
  <2>7. \A j \in 1 .. i : more[run[j]] = parts[run[j]]
    BY <1>1, <2>3
  <2>8. \A j \in 1 .. i : more[run[j]] = open[run[j]]
    BY <1>6, <2>2, <2>7
  <2>9. left - take > 0 => \A j \in 1 .. i + 1 : more[run[j]] = open[run[j]]
    BY <1>1, <2>2, <2>3, <2>8 DEF x
  <2>10. \A j, h \in 1 .. i + 1 : more[run[j]] > 0 /\ h < j => more[run[h]] = open[run[h]]
    <3> SUFFICES ASSUME NEW j \in 1 .. i + 1, NEW h \in 1 .. i + 1, h < j
                 PROVE  more[run[h]] = open[run[h]]
      OBVIOUS
    <3>1. h \in 1 .. i
      OBVIOUS
    <3> QED BY <2>8, <3>1
  <2> QED BY <2>1, <2>3, <2>5, <2>6, <2>9, <2>10 DEF TakenTo
<1> QED BY <1>7, <1>8 DEF t, x

\* An amount that is due is allocated whole: no slot gets more than it needs, nothing is left over,
\* and a slot gets something only when everything before it in the run is settled.
LEMMA AllocationIsWhole ==
  ASSUME NEW open \in Parts, NEW amount \in Nat, NEW n \in Nat, NEW run \in [1 .. n -> Slot],
         \A i, j \in 1 .. n : run[i] = run[j] => i = j,
         amount <= SumOver(open, Range(run))
  PROVE  LET parts == Allocate(amount, run, open)
         IN /\ parts \in Parts
            /\ \A x \in Slot : parts[x] <= open[x] /\ (parts[x] > 0 => \E j \in 1 .. n : run[j] = x)
            /\ SumOver(parts, Slot) = amount
            /\ \A j, h \in 1 .. n : parts[run[j]] > 0 /\ h < j => parts[run[h]] = open[run[h]]
<1>1. PICK k : IsTaken(open, amount, run, 1 .. n, k) /\ Allocate(amount, run, open) = k[1 .. n].parts
  BY AllocateIsTaken
<1> DEFINE Good(i) == TakenTo(open, amount, run, i, k[1 .. i].left, k[1 .. i].parts)
           T == {i \in Nat : i <= n => Good(i)}
<1>2. 0 \in T
  <2>1. 1 .. 0 = {} /\ {} \in SUBSET (1 .. n)
    OBVIOUS
  <2>2. k[1 .. 0] = Untaken(amount)
    BY <1>1, <2>1 DEF IsTaken
  <2>3. Untaken(amount).left = amount /\ Untaken(amount).parts = NoParts
    BY DEF Untaken
  <2>4. Good(0)
    BY <2>2, <2>3, TakenAtFirst
  <2> QED BY <2>4
<1>3. ASSUME NEW i \in Nat, i \in T
      PROVE  i + 1 \in T
  <2> SUFFICES ASSUME i + 1 <= n PROVE Good(i + 1)
    OBVIOUS
  <2>1. Good(i) /\ i < n
    BY <1>3
  <2> DEFINE s == 1 .. i + 1
  <2>2. s \in SUBSET (1 .. n) /\ s # {} /\ i + 1 \in s /\ \A y \in s : y <= i + 1 /\ y \in Nat
    <3>1. \A y \in s : y \in 1 .. n /\ y <= i + 1 /\ y \in Nat
      OBVIOUS
    <3>2. i + 1 \in s
      OBVIOUS
    <3> HIDE DEF s
    <3> QED BY <3>1, <3>2
  <2>3. Max(s) = i + 1
    <3>1. Max(s) \in s /\ Max(s) >= i + 1
      BY <2>2, LastPosition
    <3> QED BY <2>2, <3>1
  <2>4. s \ {i + 1} = 1 .. i
    OBVIOUS
  <2> HIDE DEF s
  <2>5. k[s] = Take(open, k[1 .. i], run[i + 1])
    BY <1>1, <2>2, <2>3, <2>4 DEF IsTaken
  <2> DEFINE old == k[1 .. i]
             new == Take(open, old, run[i + 1])
  <2>6. TakenTo(open, amount, run, i, old.left, old.parts)
    BY <2>1
  <2> HIDE DEF old
  <2>7. TakenTo(open, amount, run, i + 1, new.left, new.parts)
    BY <2>1, <2>6, TakenNext
  <2> QED BY <2>5, <2>7 DEF s, old
<1>4. n \in T
  <2> HIDE DEF T
  <2> QED BY <1>2, <1>3, EveryNatural
<1> DEFINE left == k[1 .. n].left
           parts == k[1 .. n].parts
<1>5. TakenTo(open, amount, run, n, left, parts)
  BY <1>4
<1> HIDE DEF left, parts, T
<1>6. /\ left \in Nat /\ parts \in Parts
      /\ \A x \in Slot : parts[x] <= open[x] /\ (parts[x] > 0 => \E j \in 1 .. n : run[j] = x)
      /\ left + SumOver(parts, Slot) = amount
      /\ left > 0 => \A j \in 1 .. n : parts[run[j]] = open[run[j]]
      /\ \A j, h \in 1 .. n : parts[run[j]] > 0 /\ h < j => parts[run[h]] = open[run[h]]
  BY <1>5 DEF TakenTo
<1>7. left = 0
  <2> SUFFICES ASSUME left > 0 PROVE FALSE
    BY <1>6
  <2> DEFINE R == Range(run)
             Rest == Slot \ R
  <2>1. R \subseteq Slot /\ (\A x \in R : \E j \in 1 .. n : run[j] = x) /\ \A j \in 1 .. n : run[j] \in R
    BY DEF Range
  <2>2. IsFiniteSet(R) /\ IsFiniteSet(Rest) /\ R \cap Rest = {} /\ R \cup Rest = Slot
    BY <2>1, FiniteContract, FS_Subset, FS_Difference
  <2> HIDE DEF R
  <2>3. (\A x \in R : parts[x] = open[x]) /\ \A x \in Rest : parts[x] = NoParts[x]
    BY <1>6, <2>1 DEF NoParts, Parts
  <2>4. \A x \in Slot : parts[x] \in Int /\ open[x] \in Int
    BY <1>6 DEF Parts
  <2> HIDE DEF Rest
  <2>5. SumOver(parts, R \cup Rest) = SumOver(parts, R) + SumOver(parts, Rest)
    BY <2>2, <2>4, SumOfDisjoint
  <2>6. SumOver(parts, R) = SumOver(open, R) /\ SumOver(parts, Rest) = SumOver(NoParts, Rest)
    BY <2>2, <2>3, SumsAgree
  <2>7. SumOver(open, R) \in Int
    BY <2>1, <2>2, <2>4, SumType
  <2>8. SumOver(parts, Rest) \in Nat
    <3>1. \A x \in Rest : parts[x] \in Nat
      BY <1>6, <2>2 DEF Parts
    <3> QED BY <2>2, <3>1, SumIsNatural
  <2>9. amount <= SumOver(open, R)
    BY DEF R
  <2>10. SumOver(parts, Slot) = SumOver(open, R) + SumOver(parts, Rest)
    BY <2>2, <2>5, <2>6
  <2>11. left \in Nat /\ left > 0 /\ left + SumOver(parts, Slot) = amount
    BY <1>6
  <2> QED BY <2>7, <2>8, <2>9, <2>10, <2>11
<1>8. SumOver(parts, Slot) = amount
  <2>1. SumOver(parts, Slot) \in Int
    <3>1. \A x \in Slot : parts[x] \in Int
      BY <1>6 DEF Parts
    <3> QED BY <3>1, FiniteContract, SumType
  <2> QED BY <1>6, <1>7, <2>1
<1> QED BY <1>1, <1>6, <1>8 DEF parts

\* parts settles the slots of open in the order of the due dates, up to a date.
Settles(l, date, open, parts) ==
  \A k \in Instalment, c \in Component : parts[<<k, c>>] > 0 =>
    /\ DueDate(l, k) <= date
    /\ \A j \in Instalment, d \in Component :
         DueDate(l, j) < DueDate(l, k) => parts[<<j, d>>] = open[<<j, d>>]

\* What an amount is allocated to: no more than what is open, all of the amount, the oldest first.
Fits(l, date, open, amount, parts) ==
  /\ parts \in Parts
  /\ \A x \in Slot : parts[x] <= open[x]
  /\ SumOver(parts, Slot) = amount
  /\ Settles(l, date, open, parts)

LEMMA AllocationFits ==
  ASSUME NEW l \in Loan, loan[l].since \in Nat, NEW date \in Int, NEW open \in Parts, NEW amount \in Nat,
         amount <= DueToDate(l, date, open)
  PROVE  Fits(l, date, open, amount, Allocate(amount, Run(l, date), open))
<1> DEFINE run == Run(l, date)
           parts == Allocate(amount, run, open)
<1>1. PICK n : IsRunOf(run, n, l, date)
  BY RunIsOrdered
<1>2. DueToDate(l, date, open) = SumOver(open, Range(run))
  BY DEF DueToDate, SumOver
<1> HIDE DEF run
<1>3. /\ n \in Nat /\ run \in [1 .. n -> Slot]
      /\ \A i, j \in 1 .. n : run[i] = run[j] => i = j
      /\ \A x \in RunSlots(l, date) : \E i \in 1 .. n : run[i] = x
      /\ \A i \in 1 .. n : run[i] \in RunSlots(l, date)
      /\ \A i, j \in 1 .. n : DueDate(l, run[i][1]) < DueDate(l, run[j][1]) => i < j
  BY <1>1 DEF IsRunOf
<1>4. /\ parts \in Parts
      /\ \A x \in Slot : parts[x] <= open[x] /\ (parts[x] > 0 => \E j \in 1 .. n : run[j] = x)
      /\ SumOver(parts, Slot) = amount
      /\ \A j, h \in 1 .. n : parts[run[j]] > 0 /\ h < j => parts[run[h]] = open[run[h]]
  BY <1>2, <1>3, AllocationIsWhole
<1> HIDE DEF parts
<1>5. ASSUME NEW k \in Instalment, NEW c \in Component, parts[<<k, c>>] > 0
      PROVE  /\ DueDate(l, k) <= date
             /\ \A j \in Instalment, d \in Component :
                  DueDate(l, j) < DueDate(l, k) => parts[<<j, d>>] = open[<<j, d>>]
  <2> DEFINE x == <<k, c>>
  <2>1. x \in Slot /\ x[1] = k
    BY DEF Slot
  <2>2. PICK i \in 1 .. n : run[i] = x
    BY <1>4, <1>5, <2>1
  <2>3. x \in RunSlots(l, date)
    BY <1>3, <2>2
  <2>4. DueDate(l, k) <= date
    BY <2>1, <2>3 DEF RunSlots, DueUpTo
  <2>5. ASSUME NEW j \in Instalment, NEW d \in Component, DueDate(l, j) < DueDate(l, k)
        PROVE  parts[<<j, d>>] = open[<<j, d>>]
    <3> DEFINE y == <<j, d>>
    <3>1. y \in Slot /\ y[1] = j
      BY DEF Slot
    <3>2. DueDate(l, j) <= date
      <4>1. DueAfter[j] \in Nat /\ DueAfter[k] \in Nat
        BY LoanContract
      <4>2. DueDate(l, j) \in Int /\ DueDate(l, k) \in Int
        BY <4>1 DEF DueDate
      <4> QED BY <2>4, <2>5, <4>2
    <3>3. y \in RunSlots(l, date)
      BY <3>1, <3>2 DEF RunSlots, DueUpTo
    <3>4. PICK h \in 1 .. n : run[h] = y
      BY <1>3, <3>3
    <3> HIDE DEF y
    <3>5. h < i
      BY <1>3, <2>1, <2>2, <2>5, <3>1, <3>4
    <3>6. parts[run[i]] > 0
      BY <1>5, <2>2
    <3>7. parts[run[h]] = open[run[h]]
      BY <1>4, <3>5, <3>6
    <3> QED BY <3>4, <3>7 DEF y
  <2> QED BY <2>4, <2>5
<1>6. Settles(l, date, open, parts)
  BY <1>5 DEF Settles
<1>7. Fits(l, date, open, amount, parts)
  BY <1>4, <1>6 DEF Fits
<1> QED BY <1>7 DEF parts, run

-----------------------------------------------------------------------------
\* A payment has an allocation of the whole of its amount, and a reversal that of its payment.
PartsAgree ==
  \A p \in Payment :
    /\ payment[p].parts \in Parts
    /\ SumOver(payment[p].parts, Slot) = payment[p].amount
    /\ payment[p].loan # None => payment[p].amount \in 1 .. Contract
    /\ reversal[p].parts = IF IsReversed(p) THEN payment[p].parts ELSE NoParts

\* Nothing is applied beyond its due.
NothingOverpaid == \A l \in Loan : \A x \in Slot : NetApplied(l)[x] \in 0 .. Due[x]

\* What a command computed under the lock of its loan still fits.
WorkFitsOn(l) ==
  LET row == work[l].pays
      back == work[l].undoes
      p == work[l].of
  IN /\ work[l].kind = "pay" =>
          /\ row.amount \in 1 .. Contract
          /\ Fits(l, work[l].date, Outstanding(NetApplied(l)), row.amount, row.parts)
     /\ work[l].kind = "reverse" =>
          back.parts = payment[p].parts /\ ((back.session = None) <=> (payment[p].session = None))
WorkFits == \A l \in Loan : WorkFitsOn(l)

NotBegun == \A l \in Loan : loan[l].status = "none" => loan[l] = NoLoan

LInv == PartsAgree /\ NothingOverpaid /\ WorkFits /\ NotBegun

LEMMA LedgerInitially == Init => LInv
<1> SUFFICES ASSUME Init PROVE LInv
  OBVIOUS
<1>1. PartsAgree
  <2>1. NoParts \in Parts
    BY DEF NoParts, Parts
  <2> QED BY <2>1, LoanNone, SumOfNoParts DEF Init, PartsAgree, IsReversed, NoPayment, NoReversal
<1>2. NothingOverpaid
  <2> SUFFICES ASSUME NEW l \in Loan, NEW x \in Slot PROVE NetApplied(l)[x] \in 0 .. Due[x]
    BY DEF NothingOverpaid
  <2>1. PaymentsOf(payment, l) = {}
    BY LoanNone DEF Init, PaymentsOf, NoPayment
  <2>2. NetApplied(l)[x] = 0
    BY <2>1, NothingApplied DEF NetApplied
  <2> QED BY <2>2, LoanContract
<1>3. WorkFits /\ NotBegun
  BY DEF Init, WorkFits, WorkFitsOn, NotBegun, NoCommand, NoLoan
<1> QED BY <1>1, <1>2, <1>3 DEF LInv

\* What is applied to a loan is a natural number, none of it beyond what was paid.
LEMMA NetFields ==
  ASSUME Books, PartsAgree, NEW l \in Loan, NEW x \in Slot,
         NEW f, f = [p \in PaymentsOf(payment, l) |-> payment[p].parts[x] - reversal[p].parts[x]]
  PROVE  /\ IsFiniteSet(PaymentsOf(payment, l)) /\ NetApplied(l)[x] = SumOver(f, PaymentsOf(payment, l))
         /\ \A p \in PaymentsOf(payment, l) :
              /\ f[p] = IF IsReversed(p) THEN 0 ELSE payment[p].parts[x]
              /\ f[p] \in Nat
<1>1. IsFiniteSet(PaymentsOf(payment, l))
  BY FinitelyManyOfALoan
<1>2. NetApplied(l)[x] = SumOver(f, PaymentsOf(payment, l))
  BY <1>1, AppliedIsASum DEF NetApplied
<1>3. ASSUME NEW p \in PaymentsOf(payment, l)
      PROVE  f[p] = (IF IsReversed(p) THEN 0 ELSE payment[p].parts[x]) /\ f[p] \in Nat
  <2>1. payment[p].parts[x] \in Nat
    BY DEF PartsAgree, PaymentsOf, Parts
  <2>2. reversal[p].parts[x] = IF IsReversed(p) THEN payment[p].parts[x] ELSE 0
    BY DEF PartsAgree, PaymentsOf, NoParts
  <2> QED BY <2>1, <2>2
<1> QED BY <1>1, <1>2, <1>3

\* A payment raises what is applied to its loan by its parts.
LEMMA NetByPayment ==
  ASSUME IInv, Books, PartsAgree, NEW l \in Loan, NEW p \in Payment, payment[p].loan = None,
         NEW row, payment' = [payment EXCEPT ![p] = row], row.loan = l, row.parts \in Parts,
         UNCHANGED reversal, NEW x \in Slot
  PROVE  NetApplied(l)'[x] = NetApplied(l)[x] + row.parts[x]
<1> DEFINE S == PaymentsOf(payment, l)
           f == [q \in S |-> payment[q].parts[x] - reversal[q].parts[x]]
           g == [q \in S \cup {p} |-> IF q = p THEN row.parts[x] ELSE f[q]]
<1>1. IsFiniteSet(S) /\ NetApplied(l)[x] = SumOver(f, S) /\ \A q \in S : f[q] \in Nat
  BY NetFields
<1>2. p \notin S /\ PaymentsOf(payment', l) = S \cup {p}
      /\ payment'[p] = row /\ \A q \in S : payment'[q] = payment[q]
  BY LoanNone DEF IInv, RowsAndLocks, PaymentsOf
<1>3. reversal[p].parts[x] = 0 /\ row.parts[x] \in Nat
  <2>1. ~IsReversed(p)
    BY DEF IInv, HandedBackProperly, NoReversal, IsReversed
  <2> QED BY <2>1 DEF PartsAgree, NoParts, Parts
<1>4. \A q \in PaymentsOf(payment', l) : g[q] = payment'[q].parts[x] - reversal'[q].parts[x]
  BY <1>2, <1>3
<1> HIDE DEF S, f
<1>5. (\A q \in S \cup {p} : g[q] \in Int) /\ g[p] = row.parts[x] /\ \A q \in S : g[q] = f[q]
  BY <1>1, <1>2, <1>3
<1> HIDE DEF g
<1>6. IsFiniteSet(S \cup {p})
  BY <1>1, FS_AddElement
<1>7. Applied(payment', reversal', l)[x] = SumOver(g, S \cup {p})
  <2> DEFINE pay == payment'
             rev == reversal'
  <2>1. IsFiniteSet(PaymentsOf(pay, l)) /\ PaymentsOf(pay, l) = S \cup {p}
    BY <1>2, <1>6
  <2>2. \A q \in PaymentsOf(pay, l) : g[q] = pay[q].parts[x] - rev[q].parts[x]
    BY <1>4
  <2> HIDE DEF pay, rev
  <2>3. Applied(pay, rev, l)[x] = SumOver(g, PaymentsOf(pay, l))
    BY ONLY <2>1, <2>2, x \in Slot, AppliedIsASum
  <2> QED BY <2>1, <2>3 DEF pay, rev
<1>8. NetApplied(l)' = Applied(payment', reversal', l)
  BY DEF NetApplied
<1>9. SumOver(g, S \cup {p}) = g[p] + SumOver(g, S) /\ SumOver(g, S) = SumOver(f, S)
  <2>1. SumOver(g, S \cup {p}) = g[p] + SumOver(g, S)
    BY <1>1, <1>2, <1>5, SumOfOneMore
  <2>2. SumOver(g, S) = SumOver(f, S)
    BY <1>1, <1>5, SumsAgree
  <2> QED BY <2>1, <2>2
<1>10. SumOver(f, S) \in Nat
  BY <1>1, SumIsNatural
<1> QED BY <1>1, <1>3, <1>5, <1>7, <1>8, <1>9, <1>10

\* A reversal lowers it by the parts of its payment.
LEMMA NetByReversal ==
  ASSUME IInv, Books, PartsAgree, NEW l \in Loan, NEW p \in Payment, payment[p].loan = l, ~IsReversed(p),
         NEW row, reversal' = [reversal EXCEPT ![p] = row], row.parts = payment[p].parts,
         UNCHANGED payment, NEW x \in Slot
  PROVE  NetApplied(l)'[x] = NetApplied(l)[x] - payment[p].parts[x]
<1> DEFINE S == PaymentsOf(payment, l)
           f == [q \in S |-> payment[q].parts[x] - reversal[q].parts[x]]
           g == [q \in S |-> IF q = p THEN 0 ELSE f[q]]
<1>1. IsFiniteSet(S) /\ NetApplied(l)[x] = SumOver(f, S) /\ (\A q \in S : f[q] \in Nat) /\ p \in S
      /\ f[p] = payment[p].parts[x]
  <2>1. p \in S
    BY DEF PaymentsOf
  <2>2. /\ IsFiniteSet(S) /\ NetApplied(l)[x] = SumOver(f, S)
        /\ \A q \in S : f[q] = (IF IsReversed(q) THEN 0 ELSE payment[q].parts[x]) /\ f[q] \in Nat
    BY NetFields
  <2> HIDE DEF S, f
  <2> QED BY <2>1, <2>2
<1>2. PaymentsOf(payment', l) = S /\ reversal'[p] = row /\ \A q \in S : q # p => reversal'[q] = reversal[q]
  BY DEF IInv, RowsAndLocks, PaymentsOf
<1>3. payment[p].parts[x] \in Nat
  BY DEF PartsAgree, Parts
<1>4. \A q \in PaymentsOf(payment', l) : g[q] = payment'[q].parts[x] - reversal'[q].parts[x]
  BY <1>2, <1>3
<1> HIDE DEF S, f
<1>5. (\A q \in S : g[q] \in Int /\ f[q] \in Int) /\ g[p] = 0 /\ \A q \in S \ {p} : g[q] = f[q]
  BY <1>1
<1> HIDE DEF g
<1>6. Applied(payment', reversal', l)[x] = SumOver(g, S)
  <2> DEFINE pay == payment'
             rev == reversal'
  <2>1. IsFiniteSet(PaymentsOf(pay, l)) /\ PaymentsOf(pay, l) = S
    BY <1>1, <1>2
  <2>2. \A q \in PaymentsOf(pay, l) : g[q] = pay[q].parts[x] - rev[q].parts[x]
    BY <1>4
  <2> HIDE DEF pay, rev
  <2>3. Applied(pay, rev, l)[x] = SumOver(g, PaymentsOf(pay, l))
    BY ONLY <2>1, <2>2, x \in Slot, AppliedIsASum
  <2> QED BY <2>1, <2>3 DEF pay, rev
<1>7. NetApplied(l)' = Applied(payment', reversal', l)
  BY DEF NetApplied
<1>8. SumOver(g, S) = SumOver(f, S) + g[p] - f[p]
  BY <1>1, <1>5, SumOfOneChanged
<1>9. SumOver(f, S) \in Nat
  BY <1>1, SumIsNatural
<1> QED BY <1>1, <1>3, <1>5, <1>6, <1>7, <1>8, <1>9

\* Other loans keep what is applied to them.
LEMMA NetStill ==
  ASSUME Books, NEW l \in Loan, PaymentsOf(payment', l) = PaymentsOf(payment, l),
         \A p \in PaymentsOf(payment, l) : payment'[p] = payment[p] /\ reversal'[p] = reversal[p]
  PROVE  NetApplied(l)' = NetApplied(l)
<1>1. Applied(payment', reversal', l) = Applied(payment, reversal, l)
  BY FinitelyManyOfALoan, AppliedAgrees
<1> QED BY <1>1 DEF NetApplied

\* A command that is still under its lock, on a loan whose ledger did not change.
LEMMA FitsStill ==
  ASSUME NEW l \in Loan, WorkFitsOn(l), work'[l] = work[l], NetApplied(l)' = NetApplied(l),
         work[l].kind = "pay" => loan'[l].since = loan[l].since,
         work[l].kind = "reverse" => payment'[work[l].of] = payment[work[l].of]
  PROVE  WorkFitsOn(l)'
<1> DEFINE row == work[l].pays
           date == work[l].date
           open == Outstanding(NetApplied(l))
<1>1. open' = open
  BY DEF Outstanding
<1>2. CASE work[l].kind = "pay"
  <2>1. row.amount \in 1 .. Contract /\ Fits(l, date, open, row.amount, row.parts)
    BY <1>2 DEF WorkFitsOn
  <2>2. \A k \in Instalment : DueDate(l, k)' = DueDate(l, k)
    BY <1>2 DEF DueDate
  <2> HIDE DEF open
  <2>3. Fits(l, date, open, row.amount, row.parts)'
    BY <1>1, <2>1, <2>2 DEF Fits, Settles
  <2> QED BY <1>2, <2>1, <2>3 DEF WorkFitsOn, open
<1>3. CASE work[l].kind # "pay"
  BY <1>3 DEF WorkFitsOn
<1> QED BY <1>2, <1>3

\* Steps that leave payments, reversals and commands alone.
LEMMA LedgerByTheRest ==
  ASSUME IInv, Books, LInv, UNCHANGED <<payment, reversal, work>>,
         \A l \in Loan : work[l].kind = "pay" => loan'[l].since = loan[l].since,
         NotBegun'
  PROVE  LInv'
<1>1. PartsAgree'
  BY DEF LInv, PartsAgree, IsReversed
<1>2. \A l \in Loan : NetApplied(l)' = NetApplied(l)
  BY DEF NetApplied
<1>3. NothingOverpaid'
  BY <1>2 DEF LInv, NothingOverpaid
<1>4. WorkFits'
  BY <1>2, FitsStill DEF LInv, WorkFits
<1> QED BY <1>1, <1>3, <1>4 DEF LInv

\* Steps that take or give up the lock of one loan.
LEMMA LedgerByALock ==
  ASSUME IInv, Books, LInv, UNCHANGED <<loan, payment, reversal>>,
         NEW l \in Loan, \A m \in Loan \ {l} : work'[m] = work[m], WorkFitsOn(l)'
  PROVE  LInv'
<1>1. PartsAgree' /\ NotBegun'
  BY DEF LInv, PartsAgree, IsReversed, NotBegun
<1>2. \A m \in Loan : NetApplied(m)' = NetApplied(m)
  BY DEF NetApplied
<1>3. NothingOverpaid'
  BY <1>2 DEF LInv, NothingOverpaid
<1>4. WorkFits'
  BY <1>2, FitsStill DEF LInv, WorkFits
<1> QED BY <1>1, <1>3, <1>4 DEF LInv

LEMMA OpenIsNatural ==
  ASSUME LInv, NEW l \in Loan
  PROVE  Outstanding(NetApplied(l)) \in Parts
<1>1. \A x \in Slot : Due[x] \in Nat /\ NetApplied(l)[x] \in 0 .. Due[x]
  BY LoanContract DEF LInv, NothingOverpaid
<1>2. \A x \in Slot : Due[x] - NetApplied(l)[x] \in Nat
  BY <1>1
<1> QED BY <1>2 DEF Outstanding, Parts

LEMMA LedgerByLockToPay ==
  ASSUME IInv, Books, LInv, NEW l \in Loan, NEW amount \in 1 .. Contract, NEW s, NEW key, NEW reference,
         LockToPay(l, amount, s, key, reference)
  PROVE  LInv'
<1> DEFINE open == Outstanding(NetApplied(l))
           parts == Allocate(amount, Run(l, today), open)
           row == [loan |-> l, amount |-> amount, session |-> s, key |-> key,
                   reference |-> reference, parts |-> parts]
           c == [NoCommand EXCEPT !.kind = "pay", !.date = today, !.pays = row]
<1>1. /\ work' = [work EXCEPT ![l] = c] /\ UNCHANGED <<today, loan, payment, reversal>>
      /\ amount <= DueToDate(l, today, open)
  BY DEF LockToPay, NetApplied
<1>2. c.kind = "pay" /\ c.pays = row /\ c.date = today
  BY PayFields
<1>3. row.amount = amount /\ row.parts = parts
  OBVIOUS
<1>4. open \in Parts
  BY OpenIsNatural
<1> HIDE DEF row, c, open
<1>5. loan[l].since \in Nat /\ today \in Int /\ amount \in Nat
  BY LoanBounds DEF Books, MoneyTypes, LoanRow, Day
<1>6. Fits(l, today, open, amount, parts)
  BY <1>1, <1>4, <1>5, AllocationFits
<1> HIDE DEF parts
<1>7. work'[l] = c /\ \A m \in Loan \ {l} : work'[m] = work[m]
  BY <1>1, LockFields
<1>8. WorkFitsOn(l)'
  <2>1. \A k \in Instalment : DueDate(l, k)' = DueDate(l, k)
    BY <1>1 DEF DueDate
  <2>2. Outstanding(NetApplied(l))' = open
    BY <1>1 DEF NetApplied, Outstanding, open
  <2>3. Fits(l, work[l].date, Outstanding(NetApplied(l)), work[l].pays.amount, work[l].pays.parts)'
    BY <1>2, <1>3, <1>6, <1>7, <2>1, <2>2 DEF Fits, Settles
  <2> QED BY <1>2, <1>3, <1>7, <2>3 DEF WorkFitsOn
<1> QED BY <1>1, <1>7, <1>8, LedgerByALock

LEMMA LedgerByLockToReverse ==
  ASSUME IInv, Books, LInv, NEW u \in User, NEW p \in Payment, NEW s, NEW key,
         LockToReverse(u, p, s, key)
  PROVE  LInv'
<1>0. PICK l \in Loan : l = payment[p].loan
  BY DEF LockToReverse, IInv, RowsAndLocks
<1> DEFINE row == [by |-> u, session |-> s, key |-> key, parts |-> payment[p].parts]
           c == [NoCommand EXCEPT !.kind = "reverse", !.of = p, !.date = today, !.undoes = row]
<1>1. /\ work' = [work EXCEPT ![l] = c] /\ UNCHANGED <<loan, payment, reversal>>
      /\ (s = None) <=> (payment[p].session = None)
  BY <1>0 DEF LockToReverse
<1>2. c.kind = "reverse" /\ c.of = p /\ c.undoes = row
  BY ReverseFields
<1>3. row.parts = payment[p].parts /\ row.session = s
  OBVIOUS
<1> HIDE DEF row, c
<1>5. work'[l] = c /\ \A m \in Loan \ {l} : work'[m] = work[m]
  BY <1>1, LockFields
<1>6. WorkFitsOn(l)'
  BY <1>1, <1>2, <1>3, <1>5 DEF WorkFitsOn
<1> QED BY <1>1, <1>5, <1>6, LedgerByALock

LEMMA LedgerByAbort ==
  ASSUME IInv, Books, LInv, NEW l \in Loan, Abort(l)
  PROVE  LInv'
<1>1. work' = [work EXCEPT ![l] = NoCommand] /\ UNCHANGED <<loan, payment, reversal>>
  BY DEF Abort, Released
<1>2. work'[l] = NoCommand /\ \A m \in Loan \ {l} : work'[m] = work[m]
  BY <1>1, LockFields
<1>3. WorkFitsOn(l)'
  BY <1>2 DEF WorkFitsOn, NoCommand
<1> QED BY <1>1, <1>2, <1>3, LedgerByALock

\* The other loans, when the command of loan l commits.
LEMMA LedgerElsewhere ==
  ASSUME IInv, Books, LInv, NEW l \in Loan, NEW m \in Loan, m # l,
         loan'[m] = loan[m], work'[m] = work[m],
         \A p \in Payment : (payment[p].loan = m) <=> (payment'[p].loan = m),
         \A p \in Payment : payment[p].loan = m => payment'[p] = payment[p] /\ reversal'[p] = reversal[p]
  PROVE  NetApplied(m)' = NetApplied(m) /\ WorkFitsOn(m)'
<1>1. NetApplied(m)' = NetApplied(m)
  <2>1. PaymentsOf(payment', m) = PaymentsOf(payment, m)
    BY DEF PaymentsOf
  <2>2. \A p \in PaymentsOf(payment, m) : payment'[p] = payment[p] /\ reversal'[p] = reversal[p]
    BY DEF PaymentsOf
  <2> QED BY <2>1, <2>2, NetStill
<1>2. work[m].kind = "reverse" => payment'[work[m].of] = payment[work[m].of]
  BY DEF IInv, RowsAndLocks
<1>3. WorkFitsOn(m)
  BY DEF LInv, WorkFits
<1> QED BY <1>1, <1>2, <1>3, FitsStill

LEMMA LedgerByCommitPayment ==
  ASSUME IInv, Books, LInv, NEW l \in Loan, NEW p \in Payment, CommitPayment(l, p)
  PROVE  /\ LInv'
         /\ \A x \in Slot : NetApplied(l)'[x] = NetApplied(l)[x] + work[l].pays.parts[x]
         /\ \A m \in Loan \ {l} : NetApplied(m)' = NetApplied(m)
<1> DEFINE row == work[l].pays
           projected == Projected(l, payment', reversal, work[l].date)
<1>1. /\ work[l].kind = "pay" /\ row.loan = l
      /\ payment[p] = NoPayment /\ payment' = [payment EXCEPT ![p] = row] /\ UNCHANGED reversal
      /\ loan' = [loan EXCEPT ![l] = projected] /\ work' = [work EXCEPT ![l] = NoCommand]
  BY DEF CommitPayment, Released, IInv, RowsAndLocks
<1>2. projected.status # "none"
  BY ProjectedFields
<1> HIDE DEF projected
<1>3. /\ payment'[p] = row /\ \A q \in Payment \ {p} : payment'[q] = payment[q]
      /\ loan'[l] = projected /\ \A m \in Loan \ {l} : loan'[m] = loan[m]
      /\ work'[l] = NoCommand /\ \A m \in Loan \ {l} : work'[m] = work[m]
  BY <1>1 DEF IInv, RowsAndLocks, Books, MoneyTypes
<1>4. /\ row.amount \in 1 .. Contract
      /\ Fits(l, work[l].date, Outstanding(NetApplied(l)), row.amount, row.parts)
  BY <1>1 DEF LInv, WorkFits, WorkFitsOn
<1>5. /\ row.parts \in Parts /\ SumOver(row.parts, Slot) = row.amount
      /\ \A x \in Slot : row.parts[x] <= Outstanding(NetApplied(l))[x]
  BY <1>4 DEF Fits
<1> HIDE DEF row
<1>6. payment[p].loan = None
  BY <1>1 DEF NoPayment
<1>7. \A x \in Slot : NetApplied(l)'[x] = NetApplied(l)[x] + row.parts[x]
  BY <1>1, <1>5, <1>6, NetByPayment DEF LInv
<1>8. ASSUME NEW m \in Loan, m # l
      PROVE  NetApplied(m)' = NetApplied(m) /\ WorkFitsOn(m)'
  BY <1>1, <1>3, <1>6, <1>8, LoanNone, LedgerElsewhere
<1>9. PartsAgree'
  <2>1. reversal[p].parts = NoParts /\ ~IsReversed(p)
    BY <1>6 DEF IInv, HandedBackProperly, NoReversal, IsReversed
  <2>2. \A q \in Payment : IsReversed(q)' <=> IsReversed(q)
    BY <1>1 DEF IsReversed
  <2> QED BY <1>1, <1>3, <1>4, <1>5, <2>1, <2>2 DEF LInv, PartsAgree
<1>10. NothingOverpaid'
  <2>1. ASSUME NEW x \in Slot PROVE NetApplied(l)'[x] \in 0 .. Due[x]
    <3>1. NetApplied(l)[x] \in 0 .. Due[x] /\ Due[x] \in Nat /\ row.parts[x] \in Nat
      BY <1>5, LoanContract DEF LInv, NothingOverpaid, Parts
    <3>2. row.parts[x] <= Due[x] - NetApplied(l)[x]
      BY <1>5 DEF Outstanding
    <3>3. NetApplied(l)'[x] = NetApplied(l)[x] + row.parts[x]
      BY <1>7
    <3> QED BY <3>1, <3>2, <3>3
  <2> QED BY <1>8, <2>1 DEF LInv, NothingOverpaid
<1>11. WorkFits'
  <2>1. WorkFitsOn(l)'
    BY <1>3 DEF WorkFitsOn, NoCommand
  <2> QED BY <1>8, <2>1 DEF WorkFits
<1>12. NotBegun'
  BY <1>2, <1>3 DEF LInv, NotBegun
<1> QED BY <1>7, <1>8, <1>9, <1>10, <1>11, <1>12 DEF LInv, row

LEMMA LedgerByCommitReversal ==
  ASSUME IInv, Books, LInv, NEW l \in Loan, CommitReversal(l)
  PROVE  /\ LInv'
         /\ \A x \in Slot : NetApplied(l)'[x] = NetApplied(l)[x] - payment[work[l].of].parts[x]
         /\ \A m \in Loan \ {l} : NetApplied(m)' = NetApplied(m)
<1> DEFINE row == work[l].undoes
           p == work[l].of
           projected == Projected(l, payment, reversal', work[l].date)
<1>1. /\ work[l].kind = "reverse"
      /\ p \in Payment /\ payment[p].loan = l /\ ~IsReversed(p) /\ row.by # None
      /\ reversal' = [reversal EXCEPT ![p] = row] /\ UNCHANGED payment
      /\ loan' = [loan EXCEPT ![l] = projected] /\ work' = [work EXCEPT ![l] = NoCommand]
  BY DEF CommitReversal, Released, IInv, RowsAndLocks
<1>2. projected.status # "none"
  BY ProjectedFields
<1> HIDE DEF projected
<1>3. /\ reversal'[p] = row /\ \A q \in Payment \ {p} : reversal'[q] = reversal[q]
      /\ loan'[l] = projected /\ \A m \in Loan \ {l} : loan'[m] = loan[m]
      /\ work'[l] = NoCommand /\ \A m \in Loan \ {l} : work'[m] = work[m]
  BY <1>1 DEF IInv, RowsAndLocks, Books, MoneyTypes
<1>4. row.parts = payment[p].parts
  BY <1>1 DEF LInv, WorkFits, WorkFitsOn
<1> HIDE DEF row, p
<1>7. \A x \in Slot : NetApplied(l)'[x] = NetApplied(l)[x] - payment[p].parts[x]
  BY <1>1, <1>4, NetByReversal DEF LInv
<1>8. ASSUME NEW m \in Loan, m # l
      PROVE  NetApplied(m)' = NetApplied(m) /\ WorkFitsOn(m)'
  BY <1>1, <1>3, <1>8, LedgerElsewhere
<1>9. PartsAgree'
  <2>1. \A q \in Payment : IsReversed(q)' <=> (q = p \/ IsReversed(q))
    BY <1>1, <1>3 DEF IsReversed
  <2> QED BY <1>1, <1>3, <1>4, <2>1 DEF LInv, PartsAgree
<1>10. NothingOverpaid'
  <2>1. ASSUME NEW x \in Slot PROVE NetApplied(l)'[x] \in 0 .. Due[x]
    <3> DEFINE S == PaymentsOf(payment, l)
               f == [q \in S |-> payment[q].parts[x] - reversal[q].parts[x]]
               T == S \ {p}
    <3>1. NetApplied(l)[x] \in 0 .. Due[x] /\ Due[x] \in Nat /\ payment[p].parts[x] \in Nat
      BY <1>1, LoanContract DEF LInv, NothingOverpaid, PartsAgree, Parts
    <3>2. p \in S
      BY <1>1 DEF PaymentsOf
    <3>3. /\ IsFiniteSet(S) /\ NetApplied(l)[x] = SumOver(f, S)
          /\ \A q \in S : f[q] = (IF IsReversed(q) THEN 0 ELSE payment[q].parts[x]) /\ f[q] \in Nat
      BY NetFields DEF LInv
    <3> HIDE DEF S, f
    <3>4. f[p] = payment[p].parts[x]
      BY <1>1, <3>2, <3>3
    <3>5. IsFiniteSet(T) /\ S = T \cup {p} /\ p \notin T
      BY <3>2, <3>3, FS_RemoveElement
    <3> HIDE DEF T
    <3>6. (\A q \in T \cup {p} : f[q] \in Int) /\ \A q \in T : f[q] \in Nat
      BY <3>3, <3>5
    <3>7. SumOver(f, T \cup {p}) = f[p] + SumOver(f, T)
      BY <3>5, <3>6, SumOfOneMore
    <3>8. SumOver(f, T) \in Nat
      BY <3>5, <3>6, SumIsNatural
    <3>9. NetApplied(l)[x] = payment[p].parts[x] + SumOver(f, T)
      BY <3>3, <3>4, <3>5, <3>7
    <3>10. NetApplied(l)'[x] = NetApplied(l)[x] - payment[p].parts[x]
      BY <1>7
    <3> QED BY <3>1, <3>8, <3>9, <3>10
  <2> QED BY <1>8, <2>1 DEF LInv, NothingOverpaid
<1>11. WorkFits'
  <2>1. WorkFitsOn(l)'
    BY <1>3 DEF WorkFitsOn, NoCommand
  <2> QED BY <1>8, <2>1 DEF WorkFits
<1>12. NotBegun'
  BY <1>2, <1>3 DEF LInv, NotBegun
<1> QED BY <1>7, <1>8, <1>9, <1>10, <1>11, <1>12 DEF LInv, p

LEMMA DisburseFields ==
  ASSUME Books, NEW l \in Loan, NEW s \in SessionId, Disburse(l, s)
  PROVE  /\ loan[l].status = "none" /\ loan'[l].status = "active" /\ loan'[l].funded = s
         /\ loan' \in [Loan -> LoanRow]
         /\ \A m \in Loan \ {l} : loan'[m] = loan[m]
         /\ UNCHANGED <<today, payment, reversal, work>>
         /\ drawer[s].balance - Principal >= 0 /\ drawer' = Moved(s, -Principal)
<1> DEFINE row == [NoLoan EXCEPT !.status = "active", !.since = today, !.funded = s]
<1>1. /\ loan[l].status = "none" /\ loan' = [loan EXCEPT ![l] = row]
      /\ UNCHANGED <<today, payment, reversal, work>>
      /\ drawer[s].balance - Principal >= 0 /\ drawer' = Moved(s, -Principal)
  BY DEF Disburse, Covers
<1>2. row \in LoanRow /\ row.status = "active" /\ row.funded = s
  BY DEF NoLoan, LoanRow, Books, MoneyTypes
<1> HIDE DEF row
<1>3. loan \in [Loan -> LoanRow]
  BY DEF Books, MoneyTypes
<1>4. loan'[l] = row /\ (\A m \in Loan \ {l} : loan'[m] = loan[m]) /\ loan' \in [Loan -> LoanRow]
  BY <1>1, <1>2, <1>3
<1> QED BY <1>1, <1>2, <1>4

LEMMA LedgerByDisburse ==
  ASSUME IInv, Books, LInv, NEW l \in Loan, NEW s \in SessionId, Disburse(l, s)
  PROVE  LInv'
<1>1. /\ loan[l].status = "none" /\ loan'[l].status = "active"
      /\ \A m \in Loan \ {l} : loan'[m] = loan[m]
      /\ UNCHANGED <<payment, reversal, work>>
  BY DisburseFields
<1>2. \A m \in Loan : work[m].kind = "pay" => loan'[m].since = loan[m].since
  BY <1>1 DEF Books, OnlyDisbursed
<1>3. NotBegun'
  BY <1>1 DEF LInv, NotBegun
<1> QED BY <1>1, <1>2, <1>3, LedgerByTheRest

LEMMA AssessFields ==
  ASSUME Books, NEW l \in Loan, Assess(l)
  PROVE  /\ loan'[l] = [loan[l] EXCEPT !.status = loan'[l].status]
         /\ loan[l].status # "none" /\ loan'[l].status # "none"
         /\ loan'[l].since = loan[l].since /\ loan'[l].obligation = loan[l].obligation
         /\ \A m \in Loan \ {l} : loan'[m] = loan[m]
         /\ UNCHANGED <<today, payment, reversal, work, drawer>>
<1> DEFINE status == LoanStatus(l, Applied(payment, reversal, l), today)
<1>1. /\ loan' = [loan EXCEPT ![l].status = status] /\ loan[l].status # "none"
      /\ UNCHANGED <<today, payment, reversal, work, drawer>>
  BY DEF Assess
<1>2. status # "none"
  BY DEF LoanStatus
<1> HIDE DEF status
<1>3. loan[l] \in LoanRow /\ loan \in [Loan -> LoanRow]
  BY DEF Books, MoneyTypes
<1> DEFINE row == [loan[l] EXCEPT !.status = status]
<1>4. loan'[l] = row /\ \A m \in Loan \ {l} : loan'[m] = loan[m]
  BY <1>1, <1>3
<1>5. row.status = status /\ row.since = loan[l].since /\ row.obligation = loan[l].obligation
  BY <1>3 DEF LoanRow
<1> QED BY <1>1, <1>2, <1>4, <1>5

LEMMA LedgerByAssess ==
  ASSUME IInv, Books, LInv, NEW l \in Loan, Assess(l)
  PROVE  LInv'
<1>1. NotBegun'
  BY AssessFields DEF LInv, NotBegun
<1>2. \A m \in Loan : loan'[m].since = loan[m].since
  BY AssessFields
<1>3. UNCHANGED <<payment, reversal, work>>
  BY AssessFields
<1> QED BY <1>1, <1>2, <1>3, LedgerByTheRest

LEMMA LedgerPreserved ==
  ASSUME IInv, Books, LInv, [Next]_vars
  PROVE  LInv'
<1>1. ASSUME UNCHANGED <<loan, payment, reversal, work>> PROVE LInv'
  BY <1>1, LedgerByTheRest DEF LInv, NotBegun
<1>2. ASSUME NEW l \in Loan, NEW s \in SessionId, Disburse(l, s)
      PROVE  LInv'
  BY <1>2, LedgerByDisburse
<1>3. ASSUME NEW l \in Loan, NEW amount \in 1 .. Contract, NEW s \in SessionId \cup {None},
             NEW key \in Key, NEW reference \in Reference \cup {None},
             LockToPay(l, amount, s, key, reference)
      PROVE  LInv'
  BY <1>3, LedgerByLockToPay
<1>4. ASSUME NEW l \in Loan, NEW p \in Payment, CommitPayment(l, p)
      PROVE  LInv'
  BY <1>4, LedgerByCommitPayment
<1>5. ASSUME NEW l \in Loan, CommitReversal(l)
      PROVE  LInv'
  BY <1>5, LedgerByCommitReversal
<1>6. ASSUME NEW l \in Loan, Abort(l)
      PROVE  LInv'
  BY <1>6, LedgerByAbort
<1>7. ASSUME NEW l \in Loan, Assess(l)
      PROVE  LInv'
  BY <1>7, LedgerByAssess
<1>8. ASSUME NEW u \in User, NEW p \in Payment, NEW s \in SessionId \cup {None}, NEW key \in Key,
             LockToReverse(u, p, s, key)
      PROVE  LInv'
  BY <1>8, LedgerByLockToReverse
<1>9. CASE UNCHANGED vars \/ NextDay
  BY <1>1, <1>9 DEF vars, NextDay
<1>10. ASSUME NEW s \in SessionId, (\E fund \in 0 .. MaxFund : OpenDrawer(s, fund)) \/ CloseDrawer(s)
       PROVE  LInv'
  BY <1>1, <1>10 DEF OpenDrawer, CloseDrawer
<1> QED BY <1>2, <1>3, <1>4, <1>5, <1>6, <1>7, <1>8, <1>9, <1>10 DEF Next

\* What was read and computed under the lock of a loan still holds at the commit: every payment is
\* allocated whole, to what is due and no more, and every reversal takes back exactly that.
THEOREM LedgerInductive == Spec => [](IInv /\ Books /\ LInv)
<1>1. Init => LInv
  BY LedgerInitially
<1>2. IInv /\ Books /\ LInv /\ [Next]_vars => LInv'
  BY LedgerPreserved
<1> QED BY <1>1, <1>2, Inductive, BooksAreKept, PTL DEF Spec

-----------------------------------------------------------------------------
(* The properties of a payment's step.                                     *)

LEMMA PaidInOrder ==
  ASSUME IInv, Books, LInv, NEW l \in Loan, NEW p \in Payment, CommitPayment(l, p),
         NEW j \in Instalment, NEW k \in Instalment, NEW c \in Component,
         payment'[p].parts[<<k, c>>] > 0
  PROVE  /\ DueDate(l, k) <= today
         /\ DueDate(l, j) < DueDate(l, k) => ~Owes(NetApplied(l)', j)
<1> DEFINE row == work[l].pays
           open == Outstanding(NetApplied(l))
<1>1. payment'[p] = row /\ work[l].kind = "pay" /\ work[l].date \in Day /\ work[l].date <= today
  BY DEF CommitPayment, IInv, RowsAndLocks, Books, OnlyDisbursed
<1>2. Settles(l, work[l].date, open, row.parts) /\ row.parts \in Parts
  BY <1>1 DEF LInv, WorkFits, WorkFitsOn, Fits
<1>3. \A x \in Slot : NetApplied(l)'[x] = NetApplied(l)[x] + row.parts[x]
  BY LedgerByCommitPayment
<1>4. \A x \in Slot : open[x] = Due[x] - NetApplied(l)[x]
  BY DEF Outstanding
<1>5. \A x \in Slot : NetApplied(l)[x] \in Nat /\ Due[x] \in Nat
  BY LoanContract DEF LInv, NothingOverpaid
<1> HIDE DEF row, open
<1>6. DueDate(l, k) <= work[l].date
  BY <1>1, <1>2 DEF Settles
<1>7. DueDate(l, k) <= today
  <2>1. DueDate(l, k) \in Int /\ today \in Int /\ work[l].date \in Int
    BY <1>1, LoanContract, LoanBounds DEF DueDate, Books, MoneyTypes, LoanRow, Day
  <2> QED BY <1>1, <1>6, <2>1
<1>8. ASSUME DueDate(l, j) < DueDate(l, k), NEW d \in Component
      PROVE  NetApplied(l)'[<<j, d>>] = Due[<<j, d>>]
  <2>1. row.parts[<<j, d>>] = open[<<j, d>>]
    BY <1>1, <1>2, <1>8 DEF Settles
  <2>2. <<j, d>> \in Slot
    BY DEF Slot
  <2> QED BY <1>3, <1>4, <1>5, <2>1, <2>2
<1>9. ASSUME DueDate(l, j) < DueDate(l, k)
      PROVE  ~Owes(NetApplied(l)', j)
  <2> DEFINE net == NetApplied(l)'
  <2>1. \A d \in Component : net[<<j, d>>] = Due[<<j, d>>]
    BY <1>8, <1>9
  <2>2. \A d \in Component : Due[<<j, d>>] \in Nat
    BY <1>5 DEF Slot
  <2> HIDE DEF net
  <2>3. \A d \in Component : ~(net[<<j, d>>] < Due[<<j, d>>])
    <3> SUFFICES ASSUME NEW d \in Component PROVE ~(net[<<j, d>>] < Due[<<j, d>>])
      OBVIOUS
    <3> DEFINE due == Due[<<j, d>>]
    <3>1. net[<<j, d>>] = due /\ due \in Nat
      BY <2>1, <2>2
    <3> HIDE DEF due
    <3>2. ~(net[<<j, d>>] < due)
      BY <3>1
    <3> QED BY <3>2 DEF due
  <2>4. ~Owes(net, j)
    BY <2>3, Zenon DEF Owes
  <2> QED BY <2>4 DEF net
<1> QED BY <1>7, <1>9

\* However payments and reversals meet on a loan, a payment settles the oldest instalment before it
\* touches the next, and nothing before its date.
THEOREM OldestIsFirst == Spec => OldestFirst
<1> DEFINE A ==
      \A p \in Payment, l \in Loan : payment[p].loan = None /\ payment'[p].loan = l =>
       \A j, k \in Instalment : \A c \in Component : payment'[p].parts[<<k, c>>] > 0 =>
         /\ DueDate(l, k) <= today
         /\ DueDate(l, j) < DueDate(l, k) => ~Owes(NetApplied(l)', j)
<1>1. ASSUME IInv, Books, LInv, [Next]_vars PROVE A
  <2> SUFFICES ASSUME NEW p \in Payment, NEW l \in Loan, payment[p].loan = None, payment'[p].loan = l,
                      NEW j \in Instalment, NEW k \in Instalment, NEW c \in Component,
                      payment'[p].parts[<<k, c>>] > 0
               PROVE  /\ DueDate(l, k) <= today
                      /\ DueDate(l, j) < DueDate(l, k) => ~Owes(NetApplied(l)', j)
    OBVIOUS
  <2>1. payment' # payment
    BY LoanNone
  <2>2. PICK m \in Loan, q \in Payment : CommitPayment(m, q)
    BY <1>1, <2>1 DEF Next, vars, Disburse, LockToPay, CommitReversal, Abort, Assess, LockToReverse,
       NextDay, OpenDrawer, CloseDrawer
  <2>3. q = p /\ m = l
    <3>1. payment' = [payment EXCEPT ![q] = work[m].pays] /\ work[m].pays.loan = m
      BY <1>1, <2>2 DEF CommitPayment, IInv, RowsAndLocks
    <3> QED BY <1>1, <3>1, LoanNone DEF IInv, RowsAndLocks
  <2> QED BY <1>1, <2>2, <2>3, PaidInOrder
<1>2. OldestFirst <=> [][A]_vars
  BY PTL DEF OldestFirst
<1> HIDE DEF A
<1>3. IInv /\ Books /\ LInv /\ [Next]_vars => [A]_vars
  BY <1>1
<1> QED BY <1>2, <1>3, LedgerInductive, PTL DEF Spec

-----------------------------------------------------------------------------
(* The constraints and the triggers.                                       *)

\* A row of a loan with other statuses is what its guard admits.
LEMMA OnlyStatusesChange ==
  ASSUME Books, NEW l \in Loan, NEW status, loan[l].status # "none",
         loan'[l] = [loan[l] EXCEPT !.status = status]
  PROVE  LoanGuard(l) /\ loan[l] # NoLoan
<1>1. loan[l] \in LoanRow /\ NoLoan.status = "none"
  BY DEF Books, MoneyTypes, NoLoan
<1>2. LoanGuard(l)
  BY <1>1 DEF LoanGuard, LoanRow
<1> QED BY <1>1, <1>2

LEMMA RowIsProjected ==
  ASSUME Books, NEW l \in Loan, NEW o, NEW status, loan[l].status # "none",
         loan'[l] = [loan[l] EXCEPT !.obligation = o, !.status = status]
  PROVE  LoanGuard(l) /\ loan[l] # NoLoan
<1>1. loan[l] \in LoanRow /\ NoLoan.status = "none"
  BY DEF Books, MoneyTypes, NoLoan
<1>2. LoanGuard(l)
  BY <1>1 DEF LoanGuard, LoanRow
<1> QED BY <1>1, <1>2

LoansAdmitted ==
  \A l \in Loan : loan'[l] # loan[l] =>
    IF loan[l] = NoLoan THEN DisbursementCheck(l) ELSE LoanGuard(l)
PaymentsAdmitted ==
  \A p \in Payment : payment'[p] # payment[p] => PaymentCheck(p) /\ PaymentSum(p)
ReversalsAdmitted ==
  \A p \in Payment : reversal'[p] # reversal[p] =>
    ReversalCheck(p) /\ ReversalSum(p) /\ ReversalCash(p)
ComponentsAdmitted == payment' # payment => \A l \in Loan : ComponentCheck(l)

LEMMA DisburseAdmitted ==
  ASSUME IInv, Books, LInv, NEW l \in Loan, NEW s \in SessionId, Disburse(l, s)
  PROVE  LoansAdmitted
<1>1. /\ loan[l].status = "none" /\ loan'[l].funded = s
      /\ \A m \in Loan \ {l} : loan'[m] = loan[m]
      /\ drawer[s].balance - Principal >= 0 /\ drawer' = Moved(s, -Principal)
  BY DisburseFields
<1>2. loan[l] = NoLoan
  BY <1>1 DEF LInv, NotBegun
<1> DEFINE minus == -Principal
<1>3. minus \in Int /\ drawer[s].balance + minus = drawer[s].balance - Principal
      /\ drawer[s].balance + minus \in Nat
  BY <1>1, PrincipalType DEF Books, MoneyTypes
<1>4. drawer' = Moved(s, minus)
  BY <1>1
<1> HIDE DEF minus
<1>5. drawer'[s].balance = drawer[s].balance + minus
  BY <1>3, <1>4, MovedFields
<1>6. DisbursementCheck(l)
  BY <1>1, <1>3, <1>5 DEF DisbursementCheck
<1> QED BY <1>1, <1>2, <1>6 DEF LoansAdmitted

LEMMA PaymentAdmitted ==
  ASSUME IInv, Books, LInv, NEW l \in Loan, NEW p \in Payment, CommitPayment(l, p)
  PROVE  LoansAdmitted /\ PaymentsAdmitted /\ ComponentsAdmitted
<1> DEFINE row == work[l].pays
           applied == Applied(payment', reversal, l)
           o == [k \in Instalment |-> ObligationStatus(applied, k)]
           status == LoanStatus(l, applied, work[l].date)
<1>1. /\ work[l].kind = "pay" /\ row.loan = l
      /\ payment[p] = NoPayment /\ payment' = [payment EXCEPT ![p] = row] /\ UNCHANGED reversal
      /\ loan' = [loan EXCEPT ![l] = [loan[l] EXCEPT !.obligation = o, !.status = status]]
      /\ loan[l].status # "none"
  BY DEF CommitPayment, Projected, IInv, RowsAndLocks, Books, OnlyDisbursed
<1> HIDE DEF o, status, applied
<1>2. /\ payment'[p] = row /\ \A q \in Payment \ {p} : payment'[q] = payment[q]
      /\ loan'[l] = [loan[l] EXCEPT !.obligation = o, !.status = status]
      /\ \A m \in Loan \ {l} : loan'[m] = loan[m]
  BY <1>1 DEF IInv, RowsAndLocks, Books, MoneyTypes
<1>3. LoanGuard(l) /\ loan[l] # NoLoan
  <2>1. loan[l].status # "none" /\ loan'[l] = [loan[l] EXCEPT !.obligation = o, !.status = status]
    BY <1>1, <1>2
  <2> HIDE DEF row
  <2> QED BY ONLY Books, l \in Loan, <2>1, RowIsProjected
<1>4. LoansAdmitted
  BY <1>2, <1>3 DEF LoansAdmitted
<1>5. row.amount \in 1 .. Contract /\ SumOver(row.parts, Slot) = row.amount
  BY <1>1 DEF LInv, WorkFits, WorkFitsOn, Fits
<1>6. PaymentCheck(p) /\ PaymentSum(p)
  <2>1. row.amount > 0
    BY <1>5
  <2>2. Total(row.parts) = SumOver(row.parts, Slot)
    BY DEF Total, SumOver
  <2> QED BY <1>1, <1>2, <1>5, <2>1, <2>2 DEF PaymentCheck, PaymentSum
<1>7. PaymentsAdmitted
  BY <1>2, <1>6 DEF PaymentsAdmitted
<1>8. ASSUME NEW m \in Loan PROVE ComponentCheck(m)
  <2>1. LInv' /\ NetApplied(m)' = Applied(payment', reversal', m)
    BY LedgerByCommitPayment DEF NetApplied
  <2>2. \A x \in Slot : NetApplied(m)'[x] \in 0 .. Due[x] /\ Due[x] \in Nat
    BY <2>1, LoanContract DEF LInv, NothingOverpaid
  <2> QED BY <2>1, <2>2 DEF ComponentCheck
<1> QED BY <1>4, <1>7, <1>8 DEF ComponentsAdmitted

LEMMA ReversalAdmitted ==
  ASSUME IInv, Books, LInv, NEW l \in Loan, CommitReversal(l)
  PROVE  LoansAdmitted /\ ReversalsAdmitted
<1> DEFINE row == work[l].undoes
           p == work[l].of
           applied == Applied(payment, reversal', l)
           o == [k \in Instalment |-> ObligationStatus(applied, k)]
           status == LoanStatus(l, applied, work[l].date)
<1>1. /\ p \in Payment /\ payment[p].loan = l /\ ~IsReversed(p)
      /\ row.session # None => HandsBack(row, p)
      /\ reversal' = [reversal EXCEPT ![p] = row] /\ UNCHANGED payment
      /\ loan' = [loan EXCEPT ![l] = [loan[l] EXCEPT !.obligation = o, !.status = status]]
      /\ row.session # None => drawer' = Moved(row.session, -payment[p].amount)
      /\ row.session \in SessionId \cup {None}
  BY DEF CommitReversal, Projected, IInv, RowsAndLocks, Books, MoneyTypes
<1>2. row.parts = payment[p].parts /\ ((row.session = None) <=> (payment[p].session = None))
  BY DEF CommitReversal, LInv, WorkFits, WorkFitsOn
<1>3. loan[l].status # "none"
  BY <1>1, LoanNone DEF Books, OnlyDisbursed
<1> HIDE DEF o, status, applied, row, p
<1>4. /\ reversal'[p] = row /\ \A q \in Payment \ {p} : reversal'[q] = reversal[q]
      /\ loan'[l] = [loan[l] EXCEPT !.obligation = o, !.status = status]
      /\ \A m \in Loan \ {l} : loan'[m] = loan[m]
  BY <1>1 DEF IInv, RowsAndLocks, Books, MoneyTypes
<1>5. LoanGuard(l) /\ loan[l] # NoLoan
  <2>1. loan'[l] = [loan[l] EXCEPT !.obligation = o, !.status = status]
    BY <1>4
  <2> QED BY <1>3, <2>1, RowIsProjected
<1>6. LoansAdmitted
  BY <1>4, <1>5 DEF LoansAdmitted
<1>7. PICK q \in Payment : q = p
  BY <1>1
<1>8. ReversalCheck(q)
  <2>1. reversal[q] = NoReversal /\ payment[q] # NoPayment
    <3>1. reversal[q] # NoReversal => IsReversed(q)
      BY DEF IInv, HandedBackProperly
    <3> QED BY <1>1, <1>7, <3>1, LoanNone DEF NoPayment
  <2>2. row.session # None => branchOf[row.session] = branchOf[payment[q].session]
    BY <1>1, <1>7 DEF HandsBack
  <2> QED BY <1>2, <1>4, <1>7, <2>1, <2>2 DEF ReversalCheck
<1>9. ReversalSum(q)
  <2>1. SumOver(payment[q].parts, Slot) = payment[q].amount
    BY DEF LInv, PartsAgree
  <2>2. Total(row.parts) = SumOver(row.parts, Slot)
    BY DEF Total, SumOver
  <2> QED BY <1>2, <1>4, <1>7, <2>1, <2>2 DEF ReversalSum
<1>10. ReversalCash(q)
  <2> SUFFICES ASSUME row.session # None
               PROVE  /\ drawer'[row.session].balance = drawer[row.session].balance - payment[q].amount
                      /\ drawer'[row.session].balance >= 0
    BY <1>4, <1>7 DEF ReversalCash
  <2> DEFINE s == row.session
             minus == -payment[q].amount
  <2>1. s \in SessionId /\ drawer[s].balance - payment[q].amount >= 0
    BY <1>1, <1>7 DEF HandsBack, Covers
  <2>2. minus \in Int /\ drawer[s].balance + minus = drawer[s].balance - payment[q].amount
        /\ drawer[s].balance + minus \in Nat
    BY <2>1 DEF Books, MoneyTypes
  <2>3. drawer' = Moved(s, minus)
    BY <1>1, <1>7
  <2> HIDE DEF minus, s
  <2>4. drawer'[s].balance = drawer[s].balance + minus
    BY <2>1, <2>2, <2>3, MovedFields
  <2> QED BY <2>1, <2>2, <2>4 DEF s
<1>11. ReversalsAdmitted
  BY <1>4, <1>7, <1>8, <1>9, <1>10 DEF ReversalsAdmitted
<1> QED BY <1>6, <1>11

LEMMA AssessAdmitted ==
  ASSUME IInv, Books, LInv, NEW l \in Loan, Assess(l)
  PROVE  LoansAdmitted
<1>1. LoanGuard(l) /\ loan[l] # NoLoan
  <2> DEFINE status == loan'[l].status
  <2>1. loan'[l] = [loan[l] EXCEPT !.status = status] /\ loan[l].status # "none"
    BY AssessFields
  <2> HIDE DEF status
  <2> QED BY <2>1, OnlyStatusesChange
<1>2. \A m \in Loan \ {l} : loan'[m] = loan[m]
  BY AssessFields
<1> QED BY <1>1, <1>2 DEF LoansAdmitted

\* Whatever races for the row of a loan, and however its contract is split, no command meets a check,
\* a foreign key or a trigger of the tables at its commit: the allocation under the lock is enough.
THEOREM LoansPassTheirTriggers == Spec => LoanBackstopsAdmit
<1> DEFINE A ==
      /\ \A l \in Loan : loan'[l] # loan[l] =>
           IF loan[l] = NoLoan THEN DisbursementCheck(l) ELSE LoanGuard(l)
      /\ \A p \in Payment : payment'[p] # payment[p] => PaymentCheck(p) /\ PaymentSum(p)
      /\ \A p \in Payment : reversal'[p] # reversal[p] =>
           ReversalCheck(p) /\ ReversalSum(p) /\ ReversalCash(p)
      /\ payment' # payment => \A l \in Loan : ComponentCheck(l)
<1>1. A <=> LoansAdmitted /\ PaymentsAdmitted /\ ReversalsAdmitted /\ ComponentsAdmitted
  BY DEF LoansAdmitted, PaymentsAdmitted, ReversalsAdmitted, ComponentsAdmitted
<1>2. LoanBackstopsAdmit <=> [][A]_vars
  BY PTL DEF LoanBackstopsAdmit
<1> HIDE DEF A
<1>3. /\ UNCHANGED loan => LoansAdmitted
      /\ UNCHANGED payment => PaymentsAdmitted /\ ComponentsAdmitted
      /\ UNCHANGED reversal => ReversalsAdmitted
  BY DEF LoansAdmitted, PaymentsAdmitted, ReversalsAdmitted, ComponentsAdmitted
<1>4. ASSUME IInv, Books, LInv, Next PROVE A
  <2>1. ASSUME NEW l \in Loan, NEW s \in SessionId, Disburse(l, s)
        PROVE  A
    BY <1>1, <1>3, <1>4, <2>1, DisburseAdmitted DEF Disburse
  <2>2. ASSUME NEW l \in Loan, NEW p \in Payment, CommitPayment(l, p)
        PROVE  A
    BY <1>1, <1>3, <1>4, <2>2, PaymentAdmitted DEF CommitPayment
  <2>3. ASSUME NEW l \in Loan, CommitReversal(l)
        PROVE  A
    BY <1>1, <1>3, <1>4, <2>3, ReversalAdmitted DEF CommitReversal
  <2>4. ASSUME NEW l \in Loan, Assess(l)
        PROVE  A
    BY <1>1, <1>3, <1>4, <2>4, AssessAdmitted DEF Assess
  <2>5. CASE UNCHANGED <<loan, payment, reversal>>
    BY <1>1, <1>3, <2>5
  <2> QED BY <1>4, <2>1, <2>2, <2>3, <2>4, <2>5
          DEF Next, LockToPay, Abort, LockToReverse, NextDay, OpenDrawer, CloseDrawer
<1>5. IInv /\ Books /\ LInv /\ [Next]_vars => [A]_vars
  BY <1>4
<1> QED BY <1>2, <1>5, LedgerInductive, PTL DEF Spec

-----------------------------------------------------------------------------
(* The account of each loan.                                               *)

Owed(l) == SumOver(Outstanding(NetApplied(l)), Slot)
Standing(p) == [loan |-> payment[p].loan, amount |-> payment[p].amount, undone |-> IsReversed(p)]

LEMMA DebtIsOwed ==
  ASSUME NEW l \in Loan
  PROVE  Debt(l) = IF Disbursed(l) THEN Owed(l) ELSE None
BY DEF Debt, Owed, SumOver

LEMMA DebtAfter ==
  ASSUME NEW l \in Loan
  PROVE  Debt(l)' = IF loan'[l].status # "none" THEN Owed(l)' ELSE None
BY DEF Debt, Owed, SumOver, Disbursed

LEMMA OwedIsNatural ==
  ASSUME NEW applied, \A x \in Slot : applied[x] \in 0 .. Due[x]
  PROVE  SumOver(Outstanding(applied), Slot) \in Nat
<1> DEFINE open == Outstanding(applied)
<1>1. \A x \in Slot : open[x] \in Nat
  BY LoanContract DEF Outstanding
<1> HIDE DEF open
<1>2. SumOver(open, Slot) \in Nat
  BY <1>1, FiniteContract, SumIsNatural
<1> QED BY <1>2 DEF open

\* What is not touched is owed as before.
LEMMA DebtStays ==
  ASSUME NEW l \in Loan, NetApplied(l)' = NetApplied(l),
         (loan'[l].status = "none") <=> (loan[l].status = "none")
  PROVE  Debt(l)' = Debt(l)
<1>1. Owed(l)' = Owed(l)
  BY DEF Owed
<1> QED BY <1>1, DebtIsOwed, DebtAfter DEF Disbursed

LEMMA AccountStays ==
  ASSUME UNCHANGED <<payment, reversal>>,
         \A l \in Loan : (loan'[l].status = "none") <=> (loan[l].status = "none")
  PROVE  UNCHANGED Account!vars
<1>1. \A l \in Loan : NetApplied(l)' = NetApplied(l)
  BY DEF NetApplied
<1>2. \A l \in Loan : Debt(l)' = Debt(l)
  BY <1>1, DebtStays
<1>3. \A p \in Payment : Standing(p)' = Standing(p)
  BY DEF Standing, IsReversed
<1> QED BY <1>2, <1>3 DEF Account!vars, Standing

LEMMA AccountByDisburse ==
  ASSUME IInv, Books, LInv, NEW l \in Loan, NEW s \in SessionId, Disburse(l, s)
  PROVE  Account!Disburse(l)
<1>1. /\ loan[l].status = "none" /\ loan'[l].status = "active"
      /\ \A m \in Loan \ {l} : loan'[m] = loan[m]
      /\ UNCHANGED <<payment, reversal>>
  BY DisburseFields
<1>2. \A m \in Loan : NetApplied(m)' = NetApplied(m)
  BY <1>1 DEF NetApplied
<1>3. \A m \in Loan \ {l} : Debt(m)' = Debt(m)
  BY <1>1, <1>2, DebtStays
<1>4. Debt(l) = None
  BY <1>1, DebtIsOwed DEF Disbursed
<1>5. Debt(l)' = Contract
  <2> DEFINE open == Outstanding(NetApplied(l))
  <2>1. PaymentsOf(payment, l) = {}
    BY <1>1, LoanNone DEF Books, OnlyDisbursed, PaymentsOf
  <2>2. \A x \in Slot : NetApplied(l)[x] = 0 /\ Due[x] \in Nat
    BY <2>1, NothingApplied, LoanContract DEF NetApplied
  <2>3. \A x \in Slot : open[x] = Due[x]
    BY <2>2 DEF Outstanding
  <2>4. Owed(l)' = Owed(l)
    BY <1>2 DEF Owed
  <2> HIDE DEF open
  <2>5. SumOver(open, Slot) = SumOver(Due, Slot)
    BY <2>3, FiniteContract, SumsAgree
  <2>6. Owed(l) = Contract
    BY <2>5 DEF Owed, open, Contract, SumOver
  <2> QED BY <1>1, <2>4, <2>6, DebtAfter
<1>6. \A p \in Payment : Standing(p)' = Standing(p)
  BY <1>1 DEF Standing, IsReversed
<1> QED BY <1>3, <1>4, <1>5, <1>6 DEF Account!Disburse, Standing

LEMMA AccountByPayment ==
  ASSUME IInv, Books, LInv, NEW l \in Loan, NEW p \in Payment, CommitPayment(l, p)
  PROVE  \E amount \in 1 .. Contract : Account!Pay(l, p, amount)
<1> DEFINE row == work[l].pays
           projected == Projected(l, payment', reversal, work[l].date)
<1>1. /\ work[l].kind = "pay" /\ row.loan = l
      /\ payment[p] = NoPayment /\ payment' = [payment EXCEPT ![p] = row] /\ UNCHANGED reversal
      /\ loan' = [loan EXCEPT ![l] = projected] /\ loan[l].status # "none"
  BY DEF CommitPayment, IInv, RowsAndLocks, Books, OnlyDisbursed
<1>2. projected.status # "none"
  BY ProjectedFields
<1> HIDE DEF projected
<1>3. /\ payment'[p] = row /\ \A q \in Payment \ {p} : payment'[q] = payment[q]
      /\ loan'[l] = projected /\ \A m \in Loan \ {l} : loan'[m] = loan[m]
  BY <1>1 DEF IInv, RowsAndLocks, Books, MoneyTypes
<1>4. /\ row.amount \in 1 .. Contract
      /\ Fits(l, work[l].date, Outstanding(NetApplied(l)), row.amount, row.parts)
  BY <1>1 DEF LInv, WorkFits, WorkFitsOn
<1> DEFINE parts == row.parts
<1>p. PICK amount \in 1 .. Contract : amount = row.amount
  BY <1>4
<1>5. parts \in Parts /\ SumOver(parts, Slot) = amount /\ amount \in 1 .. Contract
  BY <1>4, <1>p DEF Fits
<1>6. /\ LInv'
      /\ \A x \in Slot : NetApplied(l)'[x] = NetApplied(l)[x] + parts[x]
      /\ \A m \in Loan \ {l} : NetApplied(m)' = NetApplied(m)
  BY LedgerByCommitPayment
<1>7. \A m \in Loan \ {l} : Debt(m)' = Debt(m)
  BY <1>3, <1>6, DebtStays
<1>8. Debt(l) = Owed(l) /\ Debt(l)' = Owed(l)' /\ Owed(l) \in Nat /\ Owed(l)' \in Nat
  <2>1. \A x \in Slot : NetApplied(l)[x] \in 0 .. Due[x] /\ NetApplied(l)'[x] \in 0 .. Due[x]
    BY <1>6 DEF LInv, NothingOverpaid
  <2>2. Owed(l) \in Nat
    BY <2>1, OwedIsNatural DEF Owed
  <2>3. Owed(l)' \in Nat
    <3> DEFINE applied == NetApplied(l)'
    <3>1. \A x \in Slot : applied[x] \in 0 .. Due[x]
      BY <2>1
    <3>2. Owed(l)' = SumOver(Outstanding(applied), Slot)
      BY DEF Owed
    <3> HIDE DEF applied
    <3> QED BY <3>1, <3>2, OwedIsNatural
  <2> QED BY <1>1, <1>2, <1>3, <2>2, <2>3, DebtIsOwed, DebtAfter DEF Disbursed
<1> DEFINE open == Outstanding(NetApplied(l))
           after == Outstanding(NetApplied(l)')
<1>9. \A x \in Slot : open[x] \in Int /\ parts[x] \in Int /\ after[x] = open[x] - parts[x]
  <2> SUFFICES ASSUME NEW x \in Slot
               PROVE  open[x] \in Int /\ parts[x] \in Int /\ after[x] = open[x] - parts[x]
    OBVIOUS
  <2>1. NetApplied(l)[x] \in 0 .. Due[x] /\ Due[x] \in Nat /\ parts[x] \in Nat
    BY <1>5, LoanContract DEF LInv, NothingOverpaid, Parts
  <2>2. open[x] = Due[x] - NetApplied(l)[x] /\ after[x] = Due[x] - NetApplied(l)'[x]
    BY DEF Outstanding
  <2>3. NetApplied(l)'[x] = NetApplied(l)[x] + parts[x]
    BY <1>6
  <2> QED BY <2>1, <2>2, <2>3
<1>10. Owed(l) = SumOver(open, Slot) /\ Owed(l)' = SumOver(after, Slot)
  BY DEF Owed
<1>11. \A q \in Payment : IsReversed(q)' = IsReversed(q)
  BY <1>1 DEF IsReversed
<1>12. IsReversed(p) = FALSE
  BY <1>1 DEF IInv, HandedBackProperly, NoReversal, IsReversed, NoPayment
<1>13. Standing(p) = Account!NoPayment
  <2>1. payment[p].loan = None /\ payment[p].amount = 0
    BY <1>1 DEF NoPayment
  <2> QED BY <1>12, <2>1 DEF Standing, Account!NoPayment
<1>14. Standing(p)' = [loan |-> l, amount |-> amount, undone |-> FALSE]
  BY <1>1, <1>3, <1>11, <1>12, <1>p DEF Standing
<1>15. \A q \in Payment \ {p} : Standing(q)' = Standing(q)
  BY <1>3, <1>11 DEF Standing
<1> HIDE DEF open, after, parts, row
<1>16. SumOver(after, Slot) = SumOver(open, Slot) - SumOver(parts, Slot)
  BY <1>9, FiniteContract, SumOfDifferences
<1>17. /\ amount <= Debt(l) /\ Debt(l)' = Debt(l) - amount /\ Debt(l) # None
  BY <1>5, <1>8, <1>10, <1>16, LoanNoneIsNoAmount
<1>18. Account!Pay(l, p, amount)
  <2> DEFINE debt == [m \in Loan |-> Debt(m)]
             standing == [q \in Payment |-> Standing(q)]
  <2>1. debt' = [debt EXCEPT ![l] = @ - amount]
    BY <1>7, <1>17
  <2>2. standing' = [standing EXCEPT ![p] = [loan |-> l, amount |-> amount, undone |-> FALSE]]
    BY <1>14, <1>15
  <2>3. debt[l] = Debt(l) /\ standing[p] = Account!NoPayment
    BY <1>13
  <2>4. debt[l] # None /\ amount <= debt[l]
    BY <1>17, <2>3
  <2> QED BY <2>1, <2>2, <2>3, <2>4 DEF Account!Pay, Standing
<1> QED BY <1>18

LEMMA AccountByReversal ==
  ASSUME IInv, Books, LInv, NEW l \in Loan, CommitReversal(l)
  PROVE  \E p \in Payment : Account!Undo(p)
<1> DEFINE row == work[l].undoes
           projected == Projected(l, payment, reversal', work[l].date)
<1>0. PICK p \in Payment : p = work[l].of
  BY DEF CommitReversal, IInv, RowsAndLocks
<1>1. /\ payment[p].loan = l /\ IsReversed(p) = FALSE /\ row.by # None
      /\ reversal' = [reversal EXCEPT ![p] = row] /\ UNCHANGED payment
      /\ loan' = [loan EXCEPT ![l] = projected] /\ loan[l].status # "none"
  BY <1>0, LoanNone DEF CommitReversal, IInv, RowsAndLocks, Books, OnlyDisbursed, IsReversed
<1>2. projected.status # "none"
  BY ProjectedFields
<1> HIDE DEF projected, row
<1>3. /\ reversal'[p] = row /\ \A q \in Payment \ {p} : reversal'[q] = reversal[q]
      /\ loan'[l] = projected /\ \A m \in Loan \ {l} : loan'[m] = loan[m]
  BY <1>1 DEF IInv, RowsAndLocks, Books, MoneyTypes
<1> DEFINE parts == payment[p].parts
           amount == payment[p].amount
<1>5. parts \in Parts /\ SumOver(parts, Slot) = amount /\ amount \in Nat
  BY DEF LInv, PartsAgree, Books, MoneyTypes
<1>6. /\ LInv'
      /\ \A x \in Slot : NetApplied(l)'[x] = NetApplied(l)[x] - parts[x]
      /\ \A m \in Loan \ {l} : NetApplied(m)' = NetApplied(m)
  BY <1>0, LedgerByCommitReversal
<1>7. \A m \in Loan \ {l} : Debt(m)' = Debt(m)
  BY <1>3, <1>6, DebtStays
<1>8. Debt(l) = Owed(l) /\ Debt(l)' = Owed(l)' /\ Owed(l) \in Nat /\ Owed(l)' \in Nat
  <2>1. \A x \in Slot : NetApplied(l)[x] \in 0 .. Due[x] /\ NetApplied(l)'[x] \in 0 .. Due[x]
    BY <1>6 DEF LInv, NothingOverpaid
  <2>2. Owed(l) \in Nat
    BY <2>1, OwedIsNatural DEF Owed
  <2>3. Owed(l)' \in Nat
    <3> DEFINE applied == NetApplied(l)'
    <3>1. \A x \in Slot : applied[x] \in 0 .. Due[x]
      BY <2>1
    <3>2. Owed(l)' = SumOver(Outstanding(applied), Slot)
      BY DEF Owed
    <3> HIDE DEF applied
    <3> QED BY <3>1, <3>2, OwedIsNatural
  <2> QED BY <1>1, <1>2, <1>3, <2>2, <2>3, DebtIsOwed, DebtAfter DEF Disbursed
<1> DEFINE open == Outstanding(NetApplied(l))
           after == Outstanding(NetApplied(l)')
<1>9. \A x \in Slot : open[x] \in Int /\ after[x] \in Int /\ parts[x] = after[x] - open[x]
  <2> SUFFICES ASSUME NEW x \in Slot
               PROVE  open[x] \in Int /\ after[x] \in Int /\ parts[x] = after[x] - open[x]
    OBVIOUS
  <2>1. NetApplied(l)[x] \in 0 .. Due[x] /\ Due[x] \in Nat /\ parts[x] \in Nat
    BY <1>5, LoanContract DEF LInv, NothingOverpaid, Parts
  <2>2. open[x] = Due[x] - NetApplied(l)[x] /\ after[x] = Due[x] - NetApplied(l)'[x]
    BY DEF Outstanding
  <2>3. NetApplied(l)'[x] = NetApplied(l)[x] - parts[x]
    BY <1>6
  <2> QED BY <2>1, <2>2, <2>3
<1>10. Owed(l) = SumOver(open, Slot) /\ Owed(l)' = SumOver(after, Slot)
  BY DEF Owed
<1>11. IsReversed(p)' = TRUE /\ \A q \in Payment \ {p} : IsReversed(q)' = IsReversed(q)
  BY <1>1, <1>3 DEF IsReversed
<1>12. Standing(p) = [loan |-> l, amount |-> amount, undone |-> FALSE]
  BY <1>1 DEF Standing
<1>13. Standing(p)' = [loan |-> l, amount |-> amount, undone |-> TRUE]
  BY <1>1, <1>11 DEF Standing
<1>14. \A q \in Payment \ {p} : Standing(q)' = Standing(q)
  BY <1>1, <1>11 DEF Standing
<1> HIDE DEF open, after, parts, amount
<1>15. SumOver(parts, Slot) = SumOver(after, Slot) - SumOver(open, Slot)
  BY <1>9, FiniteContract, SumOfDifferences
<1>16. Debt(l)' = Debt(l) + amount
  BY <1>5, <1>8, <1>10, <1>15
<1>17. Standing(p) # Account!NoPayment
  BY <1>12, LoanNone DEF Account!NoPayment
<1>18. Account!Undo(p)
  BY <1>7, <1>12, <1>13, <1>14, <1>16, <1>17 DEF Account!Undo, Standing
<1> QED BY <1>18

LEMMA AccountSteps ==
  ASSUME IInv, Books, LInv, [Next]_vars
  PROVE  [Account!Next]_(Account!vars)
<1>1. ASSUME NEW l \in Loan, NEW s \in SessionId, Disburse(l, s)
      PROVE  Account!Next
  BY <1>1, AccountByDisburse DEF Account!Next
<1>2. ASSUME NEW l \in Loan, NEW p \in Payment, CommitPayment(l, p)
      PROVE  Account!Next
  BY <1>2, AccountByPayment DEF Account!Next
<1>3. ASSUME NEW l \in Loan, CommitReversal(l)
      PROVE  Account!Next
  BY <1>3, AccountByReversal DEF Account!Next
<1>4. ASSUME NEW l \in Loan, Assess(l)
      PROVE  UNCHANGED Account!vars
  <2>1. /\ loan[l].status # "none" /\ loan'[l].status # "none"
        /\ \A m \in Loan \ {l} : loan'[m] = loan[m]
        /\ UNCHANGED <<payment, reversal>>
    BY <1>4, AssessFields
  <2> QED BY <2>1, AccountStays
<1>5. CASE UNCHANGED <<loan, payment, reversal>>
  BY <1>5, AccountStays
<1> QED BY <1>1, <1>2, <1>3, <1>4, <1>5
        DEF Next, LockToPay, Abort, LockToReverse, NextDay, OpenDrawer, CloseDrawer, vars

LEMMA AccountBegins == Init => Account!Init
<1> SUFFICES ASSUME Init PROVE Account!Init
  OBVIOUS
<1>1. \A l \in Loan : Debt(l) = None
  BY DebtIsOwed DEF Init, Disbursed, NoLoan
<1>2. \A p \in Payment : Standing(p) = Account!NoPayment
  BY DEF Init, Standing, IsReversed, NoPayment, NoReversal, Account!NoPayment
<1> QED BY <1>1, <1>2 DEF Account!Init, Standing

\* Obligations, applications, reversals and statuses implement one account per loan: whatever payments
\* and reversals race for it, each payment takes what it pays and no more than is owed off the debt, and
\* the one reversal it can have puts all of it back.
THEOREM DebtKept == Spec => DebtIsKept
<1>1. Init => Account!Init
  BY AccountBegins
<1>2. IInv /\ Books /\ LInv /\ [Next]_vars => [Account!Next]_(Account!vars)
  BY AccountSteps
<1> QED BY <1>1, <1>2, LedgerInductive, PTL DEF Spec, DebtIsKept, Account!Spec

-----------------------------------------------------------------------------
(***************************************************************************)
(* The commands of Collections take turns on the row of their loan: what   *)
(* one read under the lock, the open assignment, the current promise and   *)
(* what was paid towards it, still holds when it commits, for any number   *)
(* of loans, promises, assignments and payments.  And what a promise still *)
(* needs never exceeds what is due by its date: a payment takes as much    *)
(* from the one as from the other, and its reversal gives both back.       *)
(***************************************************************************)

\* Whether a is the open assignment of the loan, and n its current promise; None if it has none.
OpenIs(l, a) ==
  IF a = None THEN \A b \in Assignment : ~IsOpenFor(b, l) ELSE a \in Assignment /\ IsOpenFor(a, l)
CurrentIs(l, n) ==
  IF n = None THEN \A m \in Promise : ~IsCurrent(m, l) ELSE n \in Promise /\ IsCurrent(n, l)

\* Rows that were not inserted are empty.
EmptyRows ==
  /\ \A n \in Promise : promise[n].loan = None => promise[n] = NoPromise
  /\ \A a \in Assignment : assignment[a].loan = None => assignment[a] = NoAssignment

\* What a command of the loan read still holds.
TaskHolds(l, task) ==
  /\ task # NoTask => task.kind # "none"
  /\ task.kind \in {"promise", "assign", "end", "record"} => OpenIs(l, task.open)
  /\ task.kind = "end" => task.open # None
  /\ task.kind = "assign" => task.to \in Agent
  /\ task.kind = "promise" => CurrentIs(l, task.old)
  /\ task.kind = "cancel" =>
       /\ task.old \in Promise /\ IsCurrent(task.old, l)
       /\ QualifyingPaid(task.old) < promise[task.old].amount

DesksHold == \A l \in Loan : TaskHolds(l, desk[l])

HInv == CollectionsTypeOK /\ EmptyRows /\ HistoryIsALine /\ DesksHold

-----------------------------------------------------------------------------
LEMMA HistoryInitially == CollectionsInit => HInv
<1> SUFFICES ASSUME CollectionsInit PROVE HInv
  OBVIOUS
<1>1. CollectionsTypeOK
  BY LoanBounds, CollectionsNone
     DEF CollectionsInit, CollectionsTypeOK, PromiseRow, AssignmentRow, ActivityRow, Task, NoPromise,
         NoAssignment, NoActivity, NoTask, Day
<1>2. EmptyRows /\ DesksHold
  BY DEF CollectionsInit, EmptyRows, DesksHold, TaskHolds, NoTask
<1>3. HistoryIsALine
  BY LoanNone DEF CollectionsInit, HistoryIsALine, IsCurrent, IsOpenFor, NoPromise, NoAssignment
<1> QED BY <1>1, <1>2, <1>3 DEF HInv

\* What a command reads under the lock of its loan.
LEMMA OpenIsRead == ASSUME NEW l \in Loan PROVE OpenIs(l, Open(l))
BY CollectionsNone DEF OpenIs, Open

LEMMA CurrentIsRead == ASSUME NEW l \in Loan PROVE CurrentIs(l, Current(l))
BY CollectionsNone DEF CurrentIs, Current

\* What was paid towards a promise depends on the payments of its loan only.
LEMMA PaidStays ==
  ASSUME IInv, Books, NEW n \in Promise, NEW l \in Loan, promise[n].loan = l,
         promise'[n].loan = l, promise'[n].earlier = promise[n].earlier,
         promise'[n].date = promise[n].date,
         \A p \in Payment : payment'[p].loan = l => payment[p].loan = l,
         \A p \in Payment : payment[p].loan = l =>
           payment'[p] = payment[p] /\ reversal'[p] = reversal[p] /\ paidOn'[p] = paidOn[p]
  PROVE  QualifyingPaid(n)' = QualifyingPaid(n)
<1>0. ASSUME NEW p \in Payment
      PROVE  /\ payment'[p].loan = l <=> payment[p].loan = l
             /\ payment[p].loan = l =>
                  (reversal'[p].by # None <=> reversal[p].by # None) /\ paidOn'[p] = paidOn[p]
  <2>1. CASE payment[p].loan = l
    BY <2>1
  <2>2. CASE payment[p].loan # l
    BY <2>2
  <2> QED BY <2>1, <2>2
<1>1. Qualifying(n)' = Qualifying(n)
  BY <1>0 DEF Qualifying, IsReversed
<1>2. Qualifying(n) \subseteq PaymentsOf(payment, l)
  BY DEF Qualifying, PaymentsOf
<1>3. IsFiniteSet(Qualifying(n))
  BY <1>2, FinitelyManyOfALoan, FS_Subset
<1>4. \A p \in Qualifying(n) : Amount[p] = payment[p].amount /\ Amount[p] = payment'[p].amount
  BY <1>2 DEF Amount, PaymentsOf
<1>5. IsFiniteSet(Qualifying(n)') /\ \A p \in Qualifying(n)' : Amount[p] = payment'[p].amount
  BY <1>1, <1>3, <1>4
<1>6. MapThenSumSet(LAMBDA p : payment[p].amount, Qualifying(n)) = SumOver(Amount, Qualifying(n))
  BY <1>3, <1>4, AmountsAreSums
<1>7. MapThenSumSet(LAMBDA p : payment'[p].amount, Qualifying(n)') = SumOver(Amount, Qualifying(n)')
  BY <1>5, AmountsAreSums
<1>8. QualifyingPaid(n) = SumOver(Amount, Qualifying(n))
  BY <1>6 DEF QualifyingPaid
<1>9. QualifyingPaid(n)' = MapThenSumSet(LAMBDA p : payment'[p].amount, Qualifying(n)')
  BY DEF QualifyingPaid, MapThenSumSet, MapThenFoldSet
<1>10. QualifyingPaid(n)' = SumOver(Amount, Qualifying(n)')
  BY <1>7, <1>9
<1> QED BY <1>1, <1>8, <1>10

\* Every command of Collections is, for the ledger, one of CreditLoans or none.
LEMMA IsAStepOfLoans ==
  ASSUME [CollectionsNext]_allVars
  PROVE  [Next]_vars
<1>1. CASE UNCHANGED allVars
  BY <1>1 DEF allVars
<1>2. CASE Lend
  <2>1. ASSUME NEW l \in Loan, NEW amount \in 1 .. Contract, NEW s \in Till, NEW key \in Key,
               NEW reference \in Reference \cup {None}, LockToPay(l, amount, s, key, reference)
        PROVE  Next
    BY <2>1, CollectionsTill DEF Next
  <2>2. ASSUME NEW u \in User, NEW p \in Payment, NEW s \in Till, NEW key \in Key,
               LockToReverse(u, p, s, key)
        PROVE  Next
    BY <2>2, CollectionsTill DEF Next
  <2> QED BY <1>2, <2>1, <2>2 DEF Lend, Next
<1>3. CASE Promising
  BY <1>3 DEF Promising, LockToPromise, LockToCancel, CommitPromise, CommitCancel, GiveUp, Pay, Begin, Next
<1>4. CASE Assigning
  BY <1>4 DEF Assigning, LockToAssign, CommitAssign, LockToEnd, CommitEnd, LockToRecord, CommitRecord, Begin
<1> QED BY <1>1, <1>2, <1>3, <1>4 DEF CollectionsNext

LEMMA LoansPreserved ==
  ASSUME IInv, Books, [CollectionsNext]_allVars
  PROVE  IInv' /\ Books'
BY IsAStepOfLoans, Preserved, BooksPreserved

\* While the row of a loan is held by a collection command, its payments and its lock stand.
LEMMA LoanIsHeld ==
  ASSUME IInv, CollectionsTypeOK, Lend \/ (\E k \in Loan, p \in Payment : Pay(k, p)),
         NEW l \in Loan, desk[l] # NoTask
  PROVE  /\ Idle(l)'
         /\ \A p \in Payment : payment'[p].loan = l => payment[p].loan = l
         /\ \A p \in Payment : payment[p].loan = l => payment'[p] = payment[p] /\ reversal'[p] = reversal[p]
<1> DEFINE Held ==
      /\ work'[l] = work[l]
      /\ \A p \in Payment : payment'[p].loan = l => payment[p].loan = l
      /\ \A p \in Payment : payment[p].loan = l => payment'[p] = payment[p] /\ reversal'[p] = reversal[p]
<1>1. Idle(l) /\ work[l].kind = "none"
  BY DEF CollectionsTypeOK, Idle
<1>2. \A k \in Loan : \A c : work' = [work EXCEPT ![k] = c] => k = l \/ work'[l] = work[l]
  BY DEF IInv, RowsAndLocks
<1>3. UNCHANGED <<payment, reversal>> /\ work'[l] = work[l] => Held
  OBVIOUS
<1> HIDE DEF Held
<1>4. ASSUME NEW k \in Loan, NEW p \in Payment, CommitPayment(k, p) PROVE Held
  <2>1. k # l /\ work' = [work EXCEPT ![k] = NoCommand] /\ UNCHANGED reversal
    BY <1>1, <1>4 DEF CommitPayment, Released
  <2>2. /\ payment[p].loan = None /\ payment'[p].loan = k
        /\ \A q \in Payment \ {p} : payment'[q] = payment[q]
    BY <1>4 DEF CommitPayment, NoPayment, IInv, RowsAndLocks
  <2> QED BY <1>2, <2>1, <2>2, LoanNone DEF Held
<1>5. ASSUME NEW k \in Loan, CommitReversal(k) PROVE Held
  <2>1. k # l /\ work' = [work EXCEPT ![k] = NoCommand] /\ UNCHANGED payment
    BY <1>1, <1>5 DEF CommitReversal, Released
  <2>2. \A p \in Payment : payment[p].loan = l => reversal'[p] = reversal[p]
    BY <1>5, <2>1, CommitReversalFields
  <2> QED BY <1>2, <2>1, <2>2 DEF Held
<1>6. ASSUME NEW k \in Loan, NEW s, Disburse(k, s) PROVE Held
  BY <1>3, <1>6 DEF Disburse
<1>7. ASSUME NEW k \in Loan, Free(k), NEW amount, NEW s, NEW key, NEW reference,
             LockToPay(k, amount, s, key, reference)
      PROVE  Held
  <2>1. k # l
    BY <1>7 DEF Free
  <2>2. UNCHANGED <<payment, reversal>> /\ \E c : work' = [work EXCEPT ![k] = c]
    BY <1>7 DEF LockToPay
  <2> QED BY <1>2, <1>3, <2>1, <2>2
<1>8. ASSUME NEW k \in Loan, Assess(k) PROVE Held
  BY <1>3, <1>8 DEF Assess
<1>9. ASSUME NEW k \in Loan, Abort(k) PROVE Held
  <2>1. k # l /\ UNCHANGED <<payment, reversal>> /\ work' = [work EXCEPT ![k] = NoCommand]
    BY <1>1, <1>9 DEF Abort, Released
  <2> QED BY <1>2, <1>3, <2>1
<1>10. ASSUME NEW u, NEW p \in Payment, payment[p].loan # None, Free(payment[p].loan), NEW s, NEW key,
              LockToReverse(u, p, s, key)
       PROVE  Held
  <2>1. payment[p].loan \in Loan /\ payment[p].loan # l
    BY <1>10 DEF Free, IInv, RowsAndLocks
  <2>2. UNCHANGED <<payment, reversal>> /\ \E c : work' = [work EXCEPT ![payment[p].loan] = c]
    BY <1>10 DEF LockToReverse
  <2> QED BY <1>2, <1>3, <2>1, <2>2
<1>11. ASSUME NextDay PROVE Held
  <2>1. UNCHANGED <<payment, reversal, work>>
    BY <1>11 DEF NextDay
  <2> QED BY <1>3, <2>1
<1>12. ASSUME NEW s, (\E fund : OpenDrawer(s, fund)) \/ CloseDrawer(s) PROVE Held
  BY <1>3, <1>12 DEF OpenDrawer, CloseDrawer
<1>13. Held
  <2>1. CASE Lend
    BY <2>1, <1>5, <1>6, <1>7, <1>8, <1>9, <1>10, <1>11, <1>12 DEF Lend
  <2>2. CASE \E k \in Loan, p \in Payment : Pay(k, p)
    BY <2>2, <1>4 DEF Pay
  <2> QED BY <2>1, <2>2
<1> QED BY <1>1, <1>13 DEF Idle, Held

\* The commands of CreditLoans leave history and desks alone.
LEMMA HistoryUnderLoans ==
  ASSUME IInv, Books, HInv, Books', Lend \/ (\E k \in Loan, p \in Payment : Pay(k, p))
  PROVE  HInv'
<1>1. UNCHANGED <<promise, assignment, activity, desk>>
  BY DEF Lend, Pay, deskVars
<1>2. CollectionsTypeOK
  BY DEF HInv
<1>3. paidOn' \in [Payment -> Day]
  <2>1. CASE Lend
    BY <1>2, <2>1 DEF Lend, deskVars, CollectionsTypeOK
  <2>2. ASSUME NEW k \in Loan, NEW p \in Payment, Pay(k, p) PROVE paidOn' \in [Payment -> Day]
    <3>1. work[k].date \in Day /\ paidOn' = [paidOn EXCEPT ![p] = work[k].date]
      BY <2>2 DEF Pay, CommitPayment, Books, OnlyDisbursed
    <3> QED BY <1>2, <3>1 DEF CollectionsTypeOK
  <2> QED BY <2>1, <2>2
<1>4. \A l \in Loan : desk[l] # NoTask => Idle(l)'
  BY <1>2, LoanIsHeld
<1>5. CollectionsTypeOK'
  BY <1>1, <1>2, <1>3, <1>4 DEF CollectionsTypeOK
<1>6. EmptyRows' /\ HistoryIsALine'
  BY <1>1 DEF HInv, EmptyRows, HistoryIsALine, IsCurrent, IsOpenFor
<1>7. ASSUME NEW l \in Loan, desk[l] # NoTask
      PROVE  \A p \in Payment : payment[p].loan = l => paidOn'[p] = paidOn[p]
  <2>1. CASE Lend
    BY <2>1 DEF Lend, deskVars
  <2>2. ASSUME NEW k \in Loan, NEW q \in Payment, Pay(k, q)
        PROVE  \A p \in Payment : payment[p].loan = l => paidOn'[p] = paidOn[p]
    <3>1. payment[q].loan = None /\ l # None /\ paidOn' = [paidOn EXCEPT ![q] = work[k].date]
      BY <2>2, LoanNone DEF Pay, CommitPayment, NoPayment
    <3> QED BY <1>2, <3>1 DEF CollectionsTypeOK
  <2> QED BY <2>1, <2>2
<1>8. ASSUME NEW l \in Loan PROVE TaskHolds(l, desk[l])'
  <2>1. TaskHolds(l, desk[l])
    BY DEF HInv, DesksHold
  <2>2. OpenIs(l, desk[l].open)' <=> OpenIs(l, desk[l].open)
    BY <1>1 DEF OpenIs, IsOpenFor
  <2>3. CurrentIs(l, desk[l].old)' <=> CurrentIs(l, desk[l].old)
    BY <1>1 DEF CurrentIs, IsCurrent
  <2>4. CASE desk[l].kind # "cancel"
    BY <1>1, <2>1, <2>2, <2>3, <2>4 DEF TaskHolds
  <2>5. CASE desk[l].kind = "cancel"
    <3> DEFINE n == desk[l].old
    <3>1. n \in Promise /\ IsCurrent(n, l) /\ QualifyingPaid(n) < promise[n].amount
      BY <2>1, <2>5 DEF TaskHolds
    <3>2. desk[l] # NoTask
      BY <2>5 DEF NoTask
    <3>3. QualifyingPaid(n)' = QualifyingPaid(n)
      BY <1>1, <1>2, <1>7, <3>1, <3>2, LoanIsHeld, PaidStays DEF IsCurrent
    <3> QED BY <1>1, <2>1, <2>5, <3>1, <3>3 DEF TaskHolds, IsCurrent
  <2> QED BY <2>4, <2>5
<1> QED BY <1>5, <1>6, <1>8 DEF HInv, DesksHold

-----------------------------------------------------------------------------
\* Nothing but the desk of one loan changed, to a task whose reads hold.
LEMMA HistoryUnderDesk ==
  ASSUME IInv, Books, HInv, UNCHANGED <<vars, promise, assignment, activity, paidOn>>,
         NEW l \in Loan, NEW task \in Task, desk' = [desk EXCEPT ![l] = task],
         task # NoTask => Idle(l), TaskHolds(l, task)
  PROVE  HInv'
<1>1. desk'[l] = task /\ \A m \in Loan \ {l} : desk'[m] = desk[m]
  BY DEF HInv, CollectionsTypeOK
<1>2. UNCHANGED <<payment, reversal, work>>
  BY DEF vars
<1>3. CollectionsTypeOK'
  BY <1>1, <1>2 DEF HInv, CollectionsTypeOK, Idle
<1>4. EmptyRows' /\ HistoryIsALine'
  BY DEF HInv, EmptyRows, HistoryIsALine, IsCurrent, IsOpenFor
<1>5. \A m \in Loan : \A a : OpenIs(m, a)' <=> OpenIs(m, a)
  BY DEF OpenIs, IsOpenFor
<1>6. \A m \in Loan : \A n : (CurrentIs(m, n)' <=> CurrentIs(m, n)) /\ (IsCurrent(n, m)' <=> IsCurrent(n, m))
  BY DEF CurrentIs, IsCurrent
<1>7. \A m \in Loan, n \in Promise : IsCurrent(n, m) => QualifyingPaid(n)' = QualifyingPaid(n)
  <2> SUFFICES ASSUME NEW m \in Loan, NEW n \in Promise, IsCurrent(n, m)
               PROVE  QualifyingPaid(n)' = QualifyingPaid(n)
    OBVIOUS
  <2> QED BY <1>2, PaidStays DEF IsCurrent
<1>8. ASSUME NEW m \in Loan PROVE TaskHolds(m, desk[m])'
  <2>1. CASE m = l
    BY <1>1, <1>5, <1>6, <1>7, <2>1 DEF TaskHolds
  <2>2. CASE m # l
    <3>1. TaskHolds(m, desk[m]) /\ desk'[m] = desk[m]
      BY <1>1, <2>2 DEF HInv, DesksHold
    <3> QED BY <1>5, <1>6, <1>7, <3>1 DEF TaskHolds
  <2> QED BY <2>1, <2>2
<1> QED BY <1>3, <1>4, <1>8 DEF HInv, DesksHold

LEMMA NoTaskType == NoTask \in Task /\ NoTask.kind = "none"
BY LoanBounds DEF NoTask, Task, Day

LEMMA HistoryByGiveUp ==
  ASSUME IInv, Books, HInv, NEW l \in Loan, GiveUp(l)
  PROVE  HInv'
<1>1. desk' = [desk EXCEPT ![l] = NoTask] /\ UNCHANGED <<vars, promise, assignment, activity, paidOn>>
  BY DEF GiveUp, Done
<1>2. TaskHolds(l, NoTask)
  BY NoTaskType DEF TaskHolds
<1> QED BY <1>1, <1>2, NoTaskType, HistoryUnderDesk

LEMMA OpenType == ASSUME NEW l \in Loan PROVE Open(l) \in Assignment \cup {None}
BY OpenIsRead DEF OpenIs

LEMMA CurrentType == ASSUME NEW l \in Loan PROVE Current(l) \in Promise \cup {None}
BY CurrentIsRead DEF CurrentIs

LEMMA HistoryByAssignmentLocks ==
  ASSUME IInv, Books, HInv, NEW l \in Loan,
         (\E u \in Agent : LockToAssign(l, u)) \/ LockToEnd(l) \/ LockToRecord(l)
  PROVE  HInv'
<1>1. Open(l) \in Assignment \cup {None} /\ OpenIs(l, Open(l))
  BY OpenType, OpenIsRead
<1>2. ASSUME NEW u \in Agent, LockToAssign(l, u) PROVE HInv'
  <2> DEFINE task == [NoTask EXCEPT !.kind = "assign", !.open = Open(l), !.to = u]
  <2>1. task \in Task /\ task.kind = "assign" /\ task.open = Open(l) /\ task.to = u
    BY <1>1, NoTaskType DEF Task
  <2>2. Idle(l) /\ desk' = [desk EXCEPT ![l] = task]
        /\ UNCHANGED <<vars, promise, assignment, activity, paidOn>>
    BY <1>2 DEF LockToAssign, Begin, Free
  <2> HIDE DEF task
  <2>3. TaskHolds(l, task)
    BY <1>1, <2>1, <2>2 DEF TaskHolds
  <2> QED BY <2>1, <2>2, <2>3, HistoryUnderDesk
<1>3. ASSUME LockToEnd(l) PROVE HInv'
  <2> DEFINE task == [NoTask EXCEPT !.kind = "end", !.open = Open(l)]
  <2>1. task \in Task /\ task.kind = "end" /\ task.open = Open(l)
    BY <1>1, NoTaskType DEF Task
  <2>2. Idle(l) /\ desk' = [desk EXCEPT ![l] = task] /\ Open(l) # None
        /\ UNCHANGED <<vars, promise, assignment, activity, paidOn>>
    BY <1>3 DEF LockToEnd, Begin, Free
  <2> HIDE DEF task
  <2>3. TaskHolds(l, task)
    BY <1>1, <2>1, <2>2 DEF TaskHolds
  <2> QED BY <2>1, <2>2, <2>3, HistoryUnderDesk
<1>4. ASSUME LockToRecord(l) PROVE HInv'
  <2> DEFINE task == [NoTask EXCEPT !.kind = "record", !.open = Open(l)]
  <2>1. task \in Task /\ task.kind = "record" /\ task.open = Open(l)
    BY <1>1, NoTaskType DEF Task
  <2>2. Idle(l) /\ desk' = [desk EXCEPT ![l] = task]
        /\ UNCHANGED <<vars, promise, assignment, activity, paidOn>>
    BY <1>4 DEF LockToRecord, Begin, Free
  <2> HIDE DEF task
  <2>3. TaskHolds(l, task)
    BY <1>1, <2>1, <2>2 DEF TaskHolds
  <2> QED BY <2>1, <2>2, <2>3, HistoryUnderDesk
<1> QED BY <1>2, <1>3, <1>4

LEMMA HistoryByLockToPromise ==
  ASSUME IInv, Books, HInv, NEW l \in Loan, NEW replaces \in BOOLEAN, NEW amount \in 1 .. Contract,
         NEW date \in Day, LockToPromise(l, replaces, amount, date)
  PROVE  HInv'
<1> DEFINE old == IF replaces THEN Current(l) ELSE None
           earlier == {p \in Payment : payment[p].loan = l}
           task == [NoTask EXCEPT !.kind = "promise", !.old = old, !.amount = amount, !.date = date,
                                  !.open = Open(l), !.earlier = earlier]
<1>1. Open(l) \in Assignment \cup {None} /\ OpenIs(l, Open(l))
  BY OpenType, OpenIsRead
<1>2. old \in Promise \cup {None} /\ CurrentIs(l, old)
  BY CurrentType, CurrentIsRead DEF LockToPromise, Promisable
<1>3. Idle(l) /\ desk' = [desk EXCEPT ![l] = task]
      /\ UNCHANGED <<vars, promise, assignment, activity, paidOn>>
  BY DEF LockToPromise, Begin, Free
<1>4. amount \in Nat /\ earlier \in SUBSET Payment
  OBVIOUS
<1> HIDE DEF old, earlier
<1>5. task \in Task
  BY <1>1, <1>2, <1>4, NoTaskType DEF Task
<1>6. task.kind = "promise" /\ task.open = Open(l) /\ task.old = old
  BY <1>1, <1>2, <1>4, NoTaskType DEF Task
<1> HIDE DEF task
<1>7. TaskHolds(l, task)
  BY <1>1, <1>2, <1>6 DEF TaskHolds
<1> QED BY <1>3, <1>5, <1>7, HistoryUnderDesk

LEMMA HistoryByLockToCancel ==
  ASSUME IInv, Books, HInv, NEW n \in Promise, LockToCancel(n)
  PROVE  HInv'
<1> DEFINE l == promise[n].loan
           task == [NoTask EXCEPT !.kind = "cancel", !.old = n]
<1>1. l \in Loan /\ promise[n].amount \in Nat
  BY DEF LockToCancel, HInv, CollectionsTypeOK, PromiseRow
<1>2. Idle(l) /\ desk' = [desk EXCEPT ![l] = task]
      /\ UNCHANGED <<vars, promise, assignment, activity, paidOn>>
  BY DEF LockToCancel, Begin, Free
<1>3. IsCurrent(n, l) /\ ~ (QualifyingPaid(n) >= promise[n].amount)
  <2>1. promise[n].closed \in {"no", "cancelled", "superseded"}
    BY DEF HInv, CollectionsTypeOK, PromiseRow
  <2> QED BY <2>1 DEF LockToCancel, Cancellable, ProjectedStatus, IsCurrent
<1>4. QualifyingPaid(n) \in Nat
  <2>1. Qualifying(n) \subseteq PaymentsOf(payment, l)
    BY DEF Qualifying, PaymentsOf
  <2>2. IsFiniteSet(Qualifying(n))
    BY <1>1, <2>1, FinitelyManyOfALoan, FS_Subset
  <2>3. \A p \in Qualifying(n) : Amount[p] = payment[p].amount /\ Amount[p] \in Nat
    BY DEF Qualifying, Amount, Books, MoneyTypes
  <2>4. MapThenSumSet(LAMBDA p : payment[p].amount, Qualifying(n)) = SumOver(Amount, Qualifying(n))
    BY <2>2, <2>3, AmountsAreSums
  <2> QED BY <2>2, <2>3, <2>4, SumIsNatural DEF QualifyingPaid
<1>5. QualifyingPaid(n) < promise[n].amount
  BY <1>1, <1>3, <1>4
<1>6. task \in Task /\ task.kind = "cancel" /\ task.old = n
  BY NoTaskType DEF Task
<1> HIDE DEF task, l
<1>7. TaskHolds(l, task)
  BY <1>3, <1>5, <1>6 DEF TaskHolds
<1> QED BY <1>1, <1>2, <1>6, <1>7, HistoryUnderDesk

-----------------------------------------------------------------------------
\* A commit writes rows of its own loan, which no command of another loan reads.
LEMMA HistoryUnderCommit ==
  ASSUME IInv, Books, HInv, NEW l \in Loan, UNCHANGED <<vars, paidOn>>, Done(l),
         promise' \in [Promise -> PromiseRow], assignment' \in [Assignment -> AssignmentRow],
         activity' \in [Activity -> ActivityRow], EmptyRows', HistoryIsALine',
         \A n \in Promise : promise'[n] # promise[n] =>
           promise[n].loan \in {None, l} /\ promise'[n].loan = l,
         \A a \in Assignment : assignment'[a] # assignment[a] =>
           assignment[a].loan \in {None, l} /\ assignment'[a].loan = l
  PROVE  HInv'
<1>1. desk' = [desk EXCEPT ![l] = NoTask] /\ desk'[l] = NoTask /\ \A m \in Loan \ {l} : desk'[m] = desk[m]
  BY DEF HInv, CollectionsTypeOK, Done
<1>2. UNCHANGED <<payment, reversal, work, paidOn>>
  BY DEF vars
<1>3. CollectionsTypeOK'
  <2>1. desk' \in [Loan -> Task]
    BY <1>1, NoTaskType DEF HInv, CollectionsTypeOK
  <2>2. \A m \in Loan : desk'[m] # NoTask => Idle(m)'
    BY <1>1, <1>2 DEF HInv, CollectionsTypeOK, Idle
  <2> QED BY <1>2, <2>1, <2>2 DEF HInv, CollectionsTypeOK
<1>4. ASSUME NEW m \in Loan PROVE TaskHolds(m, desk[m])'
  <2>1. CASE m = l
    BY <1>1, <2>1, NoTaskType DEF TaskHolds
  <2>2. CASE m # l
    <3>1. desk'[m] = desk[m] /\ TaskHolds(m, desk[m]) /\ m # None
      BY <1>1, <2>2, LoanNone DEF HInv, DesksHold
    <3>2. \A a \in Assignment : IsOpenFor(a, m)' <=> IsOpenFor(a, m)
      BY <2>2, <3>1 DEF IsOpenFor
    <3>3. \A n \in Promise : promise[n].loan = m \/ promise'[n].loan = m => promise'[n] = promise[n]
      BY <2>2, <3>1
    <3>4. \A n \in Promise : IsCurrent(n, m)' <=> IsCurrent(n, m)
      BY <3>3 DEF IsCurrent
    <3>5. \A a : OpenIs(m, a)' <=> OpenIs(m, a)
      BY <3>2 DEF OpenIs
    <3>6. \A n : CurrentIs(m, n)' <=> CurrentIs(m, n)
      BY <3>4 DEF CurrentIs
    <3>7. ASSUME NEW n \in Promise, IsCurrent(n, m)
          PROVE  QualifyingPaid(n)' = QualifyingPaid(n) /\ promise'[n] = promise[n]
      <4>1. promise'[n] = promise[n] /\ promise[n].loan = m
        BY <3>3, <3>7 DEF IsCurrent
      <4> QED BY <1>2, <4>1, PaidStays
    <3> QED BY <3>1, <3>4, <3>5, <3>6, <3>7 DEF TaskHolds
  <2> QED BY <2>1, <2>2
<1> QED BY <1>3, <1>4 DEF HInv, DesksHold

\* What CommitAssign and CommitEnd do to the rows: the open one is ended, a new one is inserted.
LEMMA AssignmentsUnderCommit ==
  ASSUME HInv, NEW l \in Loan, desk[l].kind \in {"assign", "end"}
  PROVE  LET open == desk[l].open
             rows == Ended(assignment, open)
         IN /\ open # None => open \in Assignment /\ IsOpenFor(open, l)
            /\ rows \in [Assignment -> AssignmentRow]
            /\ \A a \in Assignment : a # open => rows[a] = assignment[a]
            /\ open # None => rows[open] = [assignment[open] EXCEPT !.ended = TRUE]
            /\ \A a \in Assignment : rows[a].loan = assignment[a].loan
            /\ \A a \in Assignment : ~rows[a].ended => rows[a] = assignment[a]
<1> DEFINE open == desk[l].open
<1>1. open # None => open \in Assignment /\ IsOpenFor(open, l)
  BY DEF HInv, DesksHold, TaskHolds, OpenIs
<1>2. assignment \in [Assignment -> AssignmentRow]
  BY DEF HInv, CollectionsTypeOK
<1> HIDE DEF open
<1>3. CASE open = None
  BY <1>2, <1>3 DEF Ended, open
<1>4. CASE open # None
  <2>1. Ended(assignment, open) = [assignment EXCEPT ![open].ended = TRUE] /\ open \in Assignment
    BY <1>1, <1>4 DEF Ended
  <2>2. /\ [assignment[open] EXCEPT !.ended = TRUE] \in AssignmentRow
        /\ [assignment[open] EXCEPT !.ended = TRUE].loan = assignment[open].loan
        /\ [assignment[open] EXCEPT !.ended = TRUE].ended
    BY <1>2, <2>1 DEF AssignmentRow
  <2>3. /\ Ended(assignment, open)[open] = [assignment[open] EXCEPT !.ended = TRUE]
        /\ \A a \in Assignment : a # open => Ended(assignment, open)[a] = assignment[a]
        /\ Ended(assignment, open) \in [Assignment -> AssignmentRow]
    BY <1>2, <2>1, <2>2
  <2> QED BY <1>1, <2>2, <2>3 DEF open
<1> QED BY <1>3, <1>4

LEMMA HistoryByCommitEnd ==
  ASSUME IInv, Books, HInv, NEW l \in Loan, CommitEnd(l)
  PROVE  HInv'
<1> DEFINE open == desk[l].open
           rows == Ended(assignment, open)
<1>1. assignment' = rows /\ Done(l) /\ UNCHANGED <<vars, promise, activity, paidOn>>
      /\ desk[l].kind = "end"
  BY DEF CommitEnd
<1>2. /\ open # None => open \in Assignment /\ IsOpenFor(open, l)
      /\ rows \in [Assignment -> AssignmentRow]
      /\ \A a \in Assignment : a # open => rows[a] = assignment[a]
      /\ \A a \in Assignment : rows[a].loan = assignment[a].loan
      /\ \A a \in Assignment : ~rows[a].ended => rows[a] = assignment[a]
  BY <1>1, AssignmentsUnderCommit
<1> HIDE DEF open, rows
<1>3. \A a \in Assignment : assignment'[a].loan = None => assignment'[a] = assignment[a]
  <2>1. open # None => assignment[open].loan # None
    BY <1>2, LoanNone DEF IsOpenFor
  <2> QED BY <1>1, <1>2, <2>1, CollectionsNone
<1>4. EmptyRows'
  BY <1>1, <1>2, <1>3 DEF HInv, EmptyRows
<1>5. \A a \in Assignment, m \in Loan : IsOpenFor(a, m)' => IsOpenFor(a, m)
  BY <1>1, <1>2 DEF IsOpenFor
<1>6. HistoryIsALine'
  BY <1>1, <1>5 DEF HInv, HistoryIsALine, IsCurrent
<1>7. \A a \in Assignment : assignment'[a] # assignment[a] =>
        assignment[a].loan \in {None, l} /\ assignment'[a].loan = l
  BY <1>1, <1>2, CollectionsNone DEF IsOpenFor
<1> QED BY <1>1, <1>2, <1>4, <1>6, <1>7, HistoryUnderCommit DEF HInv, CollectionsTypeOK

LEMMA HistoryByCommitAssign ==
  ASSUME IInv, Books, HInv, NEW l \in Loan, NEW a \in Assignment, CommitAssign(l, a)
  PROVE  HInv'
<1> DEFINE open == desk[l].open
           rows == Ended(assignment, open)
           row == [loan |-> l, to |-> desk[l].to, ended |-> FALSE]
<1>1. assignment' = [rows EXCEPT ![a] = row] /\ AssignmentIndexes(assignment') /\ Done(l)
      /\ UNCHANGED <<vars, promise, activity, paidOn>> /\ assignment[a] = NoAssignment
      /\ desk[l].kind = "assign"
  BY DEF CommitAssign
<1>2. /\ open # None => open \in Assignment /\ IsOpenFor(open, l)
      /\ rows \in [Assignment -> AssignmentRow]
      /\ \A b \in Assignment : b # open => rows[b] = assignment[b]
      /\ \A b \in Assignment : rows[b].loan = assignment[b].loan
  BY <1>1, AssignmentsUnderCommit
<1>3. row \in AssignmentRow /\ row.loan = l
  BY <1>1 DEF HInv, DesksHold, TaskHolds, AssignmentRow
<1> HIDE DEF open, rows, row
<1>4. assignment' \in [Assignment -> AssignmentRow] /\ assignment'[a] = row
      /\ \A b \in Assignment \ {a} : assignment'[b] = rows[b]
  BY <1>1, <1>2, <1>3
<1>5. l # None /\ assignment[a].loan = None /\ (open # None => assignment[open].loan = l)
  BY <1>1, <1>2, LoanNone DEF NoAssignment, IsOpenFor
<1>6. EmptyRows'
  <2>1. \A b \in Assignment : assignment'[b].loan = None => b # a /\ b # open
    BY <1>2, <1>3, <1>4, <1>5, CollectionsNone
  <2>2. \A b \in Assignment : assignment'[b].loan = None => assignment'[b] = NoAssignment
    BY <1>2, <1>4, <2>1 DEF HInv, EmptyRows
  <2> QED BY <1>1, <2>2 DEF HInv, EmptyRows
<1>7. \A m \in Loan : \A b, c \in Assignment : IsOpenFor(b, m)' /\ IsOpenFor(c, m)' => b = c
  BY <1>1, LoanNone DEF AssignmentIndexes, IsOpenFor
<1>8. HistoryIsALine'
  BY <1>1, <1>7 DEF HInv, HistoryIsALine, IsCurrent
<1>9. \A b \in Assignment : assignment'[b] # assignment[b] =>
        assignment[b].loan \in {None, l} /\ assignment'[b].loan = l
  BY <1>2, <1>3, <1>4, <1>5, CollectionsNone
<1> QED BY <1>1, <1>4, <1>6, <1>8, <1>9, HistoryUnderCommit DEF HInv, CollectionsTypeOK

LEMMA HistoryByCommitRecord ==
  ASSUME IInv, Books, HInv, NEW l \in Loan, NEW v \in Activity, CommitRecord(l, v)
  PROVE  HInv'
<1>1. UNCHANGED <<vars, promise, assignment, paidOn>> /\ Done(l)
      /\ activity' = [activity EXCEPT ![v] = [loan |-> l, assignment |-> desk[l].open]]
  BY DEF CommitRecord
<1>2. activity' \in [Activity -> ActivityRow]
  BY <1>1 DEF HInv, CollectionsTypeOK, ActivityRow, Task
<1>3. EmptyRows' /\ HistoryIsALine'
  BY <1>1 DEF HInv, EmptyRows, HistoryIsALine, IsCurrent, IsOpenFor
<1> QED BY <1>1, <1>2, <1>3, HistoryUnderCommit DEF HInv, CollectionsTypeOK

\* What CommitPromise does to the rows: the current one is superseded, a new one is inserted.
Replaced(l, n, old, open) ==
  /\ promise' \in [Promise -> PromiseRow]
  /\ promise'[n].loan = l /\ promise'[n].closed = "no" /\ promise'[n].supersedes = old
  /\ promise'[n].assignment = open
  /\ CurrentIs(l, old)
  /\ old # None => /\ old \in Promise /\ IsCurrent(old, l) /\ old # n
                   /\ promise'[old] = [promise[old] EXCEPT !.closed = "superseded"]
                   /\ promise'[old].loan = l /\ promise'[old].closed = "superseded"
                   /\ promise'[old].supersedes = promise[old].supersedes
  /\ \A m \in Promise : m # n /\ m # old => promise'[m] = promise[m]

LEMMA PromisesUnderCommit ==
  ASSUME IInv, HInv, NEW l \in Loan, NEW n \in Promise, CommitPromise(l, n)
  PROVE  Replaced(l, n, desk[l].old, desk[l].open)
<1> DEFINE task == desk[l]
           old == task.old
           rows == Superseded(promise, old)
           row == NewPromise(l, task)
<1>1. /\ task.kind = "promise" /\ promise[n] = NoPromise
      /\ promise' = [rows EXCEPT ![n] = row]
  BY DEF CommitPromise
<1>2. promise \in [Promise -> PromiseRow] /\ task \in Task
  BY DEF HInv, CollectionsTypeOK
<1>3. CurrentIs(l, old)
  BY <1>1 DEF HInv, DesksHold, TaskHolds
<1>4. old # None => old \in Promise /\ IsCurrent(old, l) /\ old # n
  BY <1>1, <1>3, LoanNone DEF CurrentIs, IsCurrent, NoPromise
<1>5. NoPromise \in PromiseRow
  BY LoanBounds DEF NoPromise, PromiseRow, Day
<1>6. row \in PromiseRow
  BY <1>2, <1>5 DEF NewPromise, PromiseRow, Task
<1>7. row.loan = l /\ row.supersedes = old /\ row.assignment = task.open /\ row.closed = NoPromise.closed
  BY <1>5 DEF NewPromise, PromiseRow
<1>8. NoPromise.closed = "no"
  BY DEF NoPromise
<1> HIDE DEF task, old, row
<1>9. CASE old = None
  <2>1. promise' = [promise EXCEPT ![n] = row]
    BY <1>1, <1>9 DEF Superseded
  <2> QED BY <1>1, <1>2, <1>3, <1>6, <1>7, <1>8, <1>9, <2>1 DEF Replaced, task, old, row
<1>10. CASE old # None
  <2> DEFINE closed == [promise[old] EXCEPT !.closed = "superseded"]
  <2>1. closed \in PromiseRow /\ closed.closed = "superseded" /\ closed.loan = promise[old].loan
        /\ closed.supersedes = promise[old].supersedes
    BY <1>2, <1>4, <1>10 DEF PromiseRow
  <2>2. rows = [promise EXCEPT ![old] = closed]
    BY <1>10 DEF Superseded
  <2> HIDE DEF closed, rows
  <2>3. /\ promise' \in [Promise -> PromiseRow] /\ promise'[n] = row /\ promise'[old] = closed
        /\ \A m \in Promise : m # n /\ m # old => promise'[m] = promise[m]
    BY <1>1, <1>2, <1>4, <1>6, <1>10, <2>1, <2>2
  <2>4. promise[old].loan = l
    BY <1>4, <1>10 DEF IsCurrent
  <2> QED BY <1>1, <1>3, <1>4, <1>7, <1>8, <1>10, <2>1, <2>3, <2>4 DEF Replaced, closed, task, old, row
<1> QED BY <1>9, <1>10

LEMMA HistoryByCommitPromise ==
  ASSUME IInv, Books, HInv, NEW l \in Loan, NEW n \in Promise, CommitPromise(l, n)
  PROVE  HInv'
<1> DEFINE old == desk[l].old
<1>1. UNCHANGED <<vars, assignment, activity, paidOn>> /\ Done(l) /\ PromiseIndexes(promise')
      /\ promise[n] = NoPromise
  BY DEF CommitPromise
<1>0. Replaced(l, n, old, desk[l].open)
  BY PromisesUnderCommit
<1> HIDE DEF old
<1>2. /\ promise' \in [Promise -> PromiseRow]
      /\ promise'[n].loan = l /\ promise'[n].closed = "no" /\ promise'[n].supersedes = old
      /\ old # None => /\ old \in Promise /\ IsCurrent(old, l) /\ old # n
                       /\ promise'[old].loan = l /\ promise'[old].closed = "superseded"
                       /\ promise'[old].supersedes = promise[old].supersedes
      /\ \A m \in Promise : m # n /\ m # old => promise'[m] = promise[m]
  BY <1>0 DEF Replaced
<1>3. /\ promise[n].loan = None /\ promise[n].supersedes = None /\ promise[n].closed = "no"
      /\ l # None /\ n # None
  BY <1>1, LoanNone, CollectionsNone DEF NoPromise
<1>4. EmptyRows'
  <2>1. \A m \in Promise : promise'[m].loan = None => promise'[m] = promise[m]
    BY <1>2, <1>3, CollectionsNone
  <2> QED BY <1>1, <2>1 DEF HInv, EmptyRows
<1>5. /\ \A m \in Promise : promise[m].supersedes # None =>
           /\ promise[promise[m].supersedes].loan = promise[m].loan
           /\ promise[promise[m].supersedes].closed = "superseded"
           /\ \A k \in Promise : promise[k].supersedes = promise[m].supersedes => m = k
      /\ \A m \in Promise : promise[m].closed = "superseded" => \E k \in Promise : promise[k].supersedes = m
      /\ \A m \in Promise : promise[m].supersedes \in Promise \cup {None}
  BY DEF HInv, HistoryIsALine, CollectionsTypeOK, PromiseRow
<1>6. old # None => promise[old].closed = "no" /\ promise[old].loan = l
  BY <1>2 DEF IsCurrent
<1>7. ASSUME NEW m \in Promise, m # n
      PROVE  /\ promise'[m].supersedes = promise[m].supersedes /\ promise'[m].loan = promise[m].loan
             /\ promise[m].closed = "superseded" => promise'[m].closed = "superseded"
  BY <1>2, <1>6, CollectionsNone, <1>7
<1>8. ASSUME NEW m \in Promise, promise'[m].supersedes # None
      PROVE  /\ promise'[promise'[m].supersedes].loan = promise'[m].loan
             /\ promise'[promise'[m].supersedes].closed = "superseded"
             /\ \A k \in Promise : promise'[k].supersedes = promise'[m].supersedes => m = k
  <2>1. CASE m = n
    <3>1. old # None /\ promise'[m].supersedes = old
      BY <1>2, <1>8, <2>1
    <3>2. \A k \in Promise : promise'[k].supersedes = old => k = n
      BY <1>5, <1>6, <1>7, <3>1
    <3> QED BY <1>2, <2>1, <3>1, <3>2
  <2>2. CASE m # n
    <3>1. /\ promise'[m].supersedes = promise[m].supersedes /\ promise'[m].loan = promise[m].loan
          /\ promise[m].supersedes \in Promise
      BY <1>5, <1>7, <1>8, <2>2
    <3>2. /\ promise[promise[m].supersedes].closed = "superseded"
          /\ promise[promise[m].supersedes].loan = promise[m].loan
          /\ \A k \in Promise : promise[k].supersedes = promise[m].supersedes => m = k
      BY <1>5, <1>8, <3>1
    <3>3. promise[m].supersedes # n /\ promise[m].supersedes # old
      BY <1>3, <1>6, <1>8, <3>1, <3>2
    <3> QED BY <1>2, <1>7, <3>1, <3>2, <3>3
  <2> QED BY <2>1, <2>2
<1>9. ASSUME NEW m \in Promise, promise'[m].closed = "superseded"
       PROVE  \E k \in Promise : promise'[k].supersedes = m
  <2>1. CASE m = old
    BY <1>2, <2>1
  <2>2. CASE m # old
    <3>1. m # n /\ promise[m].closed = "superseded" /\ m # None
      BY <1>2, <1>9, <2>2, CollectionsNone
    <3>2. PICK k \in Promise : promise[k].supersedes = m
      BY <1>5, <3>1
    <3>3. k # n
      BY <1>3, <3>1, <3>2
    <3> QED BY <1>7, <3>2, <3>3
  <2> QED BY <2>1, <2>2
<1>10. \A k \in Loan : \A m, o \in Promise : IsCurrent(m, k)' /\ IsCurrent(o, k)' => m = o
  BY <1>1, LoanNone DEF PromiseIndexes, IsCurrent
<1>11. \A k \in Loan : \A a, b \in Assignment : IsOpenFor(a, k)' /\ IsOpenFor(b, k)' => a = b
  BY <1>1 DEF HInv, HistoryIsALine, IsOpenFor
<1>12. HistoryIsALine'
  BY <1>8, <1>9, <1>10, <1>11 DEF HistoryIsALine
<1>13. \A m \in Promise : promise'[m] # promise[m] =>
        promise[m].loan \in {None, l} /\ promise'[m].loan = l
  BY <1>2, <1>3, <1>6, CollectionsNone
<1> QED BY <1>1, <1>2, <1>4, <1>12, <1>13, HistoryUnderCommit DEF HInv, CollectionsTypeOK

LEMMA HistoryByCommitCancel ==
  ASSUME IInv, Books, HInv, NEW l \in Loan, CommitCancel(l)
  PROVE  HInv'
<1> DEFINE n == desk[l].old
           row == [promise[n] EXCEPT !.closed = "cancelled"]
<1>1. UNCHANGED <<vars, assignment, activity, paidOn>> /\ Done(l) /\ desk[l].kind = "cancel"
      /\ promise' = [promise EXCEPT ![n] = row]
  BY DEF CommitCancel
<1>2. n \in Promise /\ IsCurrent(n, l) /\ promise \in [Promise -> PromiseRow]
  BY <1>1 DEF HInv, DesksHold, TaskHolds, CollectionsTypeOK
<1> HIDE DEF n
<1>3. row \in PromiseRow /\ row.closed = "cancelled" /\ row.loan = l /\ row.loan = promise[n].loan
      /\ row.supersedes = promise[n].supersedes
  BY <1>2 DEF PromiseRow, IsCurrent
<1> HIDE DEF row
<1>4. promise'[n] = row /\ promise' \in [Promise -> PromiseRow]
      /\ \A m \in Promise \ {n} : promise'[m] = promise[m]
  BY <1>1, <1>2, <1>3
<1>5. \A m \in Promise : /\ promise'[m].loan = promise[m].loan
                         /\ promise'[m].supersedes = promise[m].supersedes
                         /\ promise'[m].closed # promise[m].closed => m = n
  BY <1>3, <1>4
<1>6. promise[n].closed = "no" /\ l # None /\ promise[n].loan = l
  BY <1>2, LoanNone DEF IsCurrent
<1>7. EmptyRows'
  <2>1. \A m \in Promise : promise'[m].loan = None => promise'[m] = promise[m]
    BY <1>3, <1>4, <1>6
  <2> QED BY <1>1, <2>1 DEF HInv, EmptyRows
<1>8. \A m \in Promise, k \in Loan : IsCurrent(m, k)' => IsCurrent(m, k)
  BY <1>3, <1>4, <1>5 DEF IsCurrent
<1>9. \A m \in Promise : promise[m].closed = "superseded" <=> promise'[m].closed = "superseded"
  BY <1>3, <1>4, <1>6
<1>10. \A m \in Promise : promise[m].supersedes \in Promise \cup {None}
  BY <1>2 DEF PromiseRow
<1>11. HistoryIsALine'
  <2>1. \A k \in Loan : \A m, o \in Promise : IsCurrent(m, k)' /\ IsCurrent(o, k)' => m = o
    BY <1>8 DEF HInv, HistoryIsALine
  <2>2. \A k \in Loan : \A a, b \in Assignment : IsOpenFor(a, k)' /\ IsOpenFor(b, k)' => a = b
    BY <1>1 DEF HInv, HistoryIsALine, IsOpenFor
  <2>3. \A m \in Promise : promise'[m].supersedes # None =>
          /\ promise'[promise'[m].supersedes].loan = promise'[m].loan
          /\ promise'[promise'[m].supersedes].closed = "superseded"
          /\ \A k \in Promise : promise'[k].supersedes = promise'[m].supersedes => m = k
    BY <1>5, <1>9, <1>10 DEF HInv, HistoryIsALine
  <2>4. \A m \in Promise : promise'[m].closed = "superseded" =>
          \E k \in Promise : promise'[k].supersedes = m
    BY <1>5, <1>9 DEF HInv, HistoryIsALine
  <2> QED BY <2>1, <2>2, <2>3, <2>4 DEF HistoryIsALine
<1>12. \A m \in Promise : promise'[m] # promise[m] =>
        promise[m].loan \in {None, l} /\ promise'[m].loan = l
  BY <1>3, <1>4, <1>6
<1> QED BY <1>1, <1>4, <1>7, <1>11, <1>12, HistoryUnderCommit DEF HInv, CollectionsTypeOK

-----------------------------------------------------------------------------
LEMMA HistoryPreserved ==
  ASSUME IInv, Books, HInv, [CollectionsNext]_allVars
  PROVE  HInv'
<1>1. IInv' /\ Books'
  BY LoansPreserved
<1>2. CASE UNCHANGED allVars
  <2>1. UNCHANGED <<vars, promise, assignment, activity, paidOn, desk, payment, reversal, work>>
    BY <1>2 DEF allVars, deskVars, vars
  <2>2. ASSUME NEW l \in Loan PROVE TaskHolds(l, desk[l])'
    <3>1. TaskHolds(l, desk[l])
      BY DEF HInv, DesksHold
    <3>2. \A n \in Promise : IsCurrent(n, l) => QualifyingPaid(n)' = QualifyingPaid(n)
      BY <2>1, PaidStays DEF IsCurrent
    <3> QED BY <2>1, <3>1, <3>2 DEF TaskHolds, OpenIs, CurrentIs, IsOpenFor, IsCurrent
  <2>3. CollectionsTypeOK' /\ EmptyRows' /\ HistoryIsALine'
    BY <2>1 DEF HInv, CollectionsTypeOK, EmptyRows, HistoryIsALine, IsCurrent, IsOpenFor, Idle
  <2> QED BY <2>2, <2>3 DEF HInv, DesksHold
<1>3. CASE Lend
  BY <1>1, <1>3, HistoryUnderLoans
<1>4. CASE Promising
  BY <1>1, <1>4, HistoryUnderLoans, HistoryByLockToPromise, HistoryByLockToCancel,
     HistoryByCommitPromise, HistoryByCommitCancel, HistoryByGiveUp
     DEF Promising
<1>5. CASE Assigning
  BY <1>5, HistoryByAssignmentLocks, HistoryByCommitAssign, HistoryByCommitEnd, HistoryByCommitRecord
     DEF Assigning
<1> QED BY <1>2, <1>3, <1>4, <1>5 DEF CollectionsNext

\* Collections adds its commands to CreditLoans without disturbing it: whatever is proved of the
\* ledger of a loan stands beside assignments, activities and promises.
THEOREM LedgerUnderCollections == CollectionsSpec => Spec
<1>1. CollectionsInit => Init
  BY DEF CollectionsInit
<1>2. [CollectionsNext]_allVars => [Next]_vars
  BY IsAStepOfLoans
<1> QED BY <1>1, <1>2, PTL DEF CollectionsSpec, Spec

\* The rows of Collections keep the columns of their tables, and what a command of a loan read under
\* the lock (open assignment, current promise, what was paid) still holds when it commits.
THEOREM HistoryInductive == CollectionsSpec => [](IInv /\ Books /\ HInv)
<1>1. CollectionsInit => IInv /\ Books /\ HInv
  BY Initially, BooksInitially, HistoryInitially DEF CollectionsInit
<1>2. IInv /\ Books /\ HInv /\ [CollectionsNext]_allVars => IInv' /\ Books' /\ HInv'
  BY LoansPreserved, HistoryPreserved
<1> QED BY <1>1, <1>2, PTL DEF CollectionsSpec

\* The rows the collection commands leave have the columns of their tables, and a command waiting
\* for its commit is alone on the row of its loan.
THEOREM CollectionsTypes == CollectionsSpec => []CollectionsTypeOK
<1>1. HInv => CollectionsTypeOK
  BY DEF HInv
<1> QED BY <1>1, HistoryInductive, PTL

\* Commands that race leave one line of promises and one of assignments per loan.
THEOREM OneLine == CollectionsSpec => []HistoryIsALine
<1>1. HInv => HistoryIsALine
  BY DEF HInv
<1> QED BY <1>1, HistoryInductive, PTL

\* A promise that its customer has kept is never relabelled as cancelled: no payment can come between
\* the moment the command finds it open and its commit.
THEOREM KeptStays == CollectionsSpec => KeptIsNotCancelled
<1> DEFINE Kept == \A n \in Promise :
                     promise'[n].closed = "cancelled" /\ promise[n].closed = "no" =>
                       QualifyingPaid(n) < promise[n].amount
<1>1. ASSUME IInv, Books, HInv, [CollectionsNext]_allVars
      PROVE  Kept \/ UNCHANGED allVars
  <2>1. UNCHANGED promise => Kept
    OBVIOUS
  <2>2. ASSUME NEW l \in Loan, NEW n \in Promise, CommitPromise(l, n) PROVE Kept
    <3> DEFINE old == desk[l].old
    <3>1. Replaced(l, n, old, desk[l].open)
      BY <1>1, <2>2, PromisesUnderCommit
    <3> HIDE DEF old
    <3>2. \A m \in Promise : promise'[m].closed = "cancelled" => promise[m].closed = "cancelled"
      BY <3>1, CollectionsNone DEF Replaced
    <3> QED BY <3>2
  <2>3. ASSUME NEW l \in Loan, CommitCancel(l) PROVE Kept
    <3> DEFINE n == desk[l].old
    <3>1. desk[l].kind = "cancel" /\ promise' = [promise EXCEPT ![n].closed = "cancelled"]
      BY <2>3 DEF CommitCancel
    <3>2. n \in Promise /\ QualifyingPaid(n) < promise[n].amount
      BY <1>1, <3>1 DEF HInv, DesksHold, TaskHolds
    <3> HIDE DEF n
    <3>3. \A m \in Promise \ {n} : promise'[m] = promise[m]
      BY <1>1, <3>1, <3>2 DEF HInv, CollectionsTypeOK
    <3>4. ASSUME NEW m \in Promise, promise'[m].closed = "cancelled", promise[m].closed = "no"
          PROVE  QualifyingPaid(m) < promise[m].amount
      BY <3>2, <3>3, <3>4
    <3> QED BY <3>4
  <2> HIDE DEF Kept
  <2>4. CASE Lend
    BY <2>1, <2>4 DEF Lend, deskVars
  <2>5. CASE Promising
    BY <2>1, <2>2, <2>3, <2>5 DEF Promising, LockToPromise, LockToCancel, Begin, GiveUp, Pay
  <2>6. CASE Assigning
    BY <2>1, <2>6 DEF Assigning, LockToAssign, LockToEnd, LockToRecord, Begin, CommitAssign, CommitEnd,
                      CommitRecord
  <2> QED BY <1>1, <2>4, <2>5, <2>6 DEF CollectionsNext
<1>2. IInv /\ Books /\ HInv /\ [CollectionsNext]_allVars => [Kept]_allVars
  BY <1>1
<1> QED BY <1>2, HistoryInductive, PTL DEF CollectionsSpec, KeptIsNotCancelled

\* What is open for a loan, as a trigger sees it when a row is inserted.
LEMMA OpenAsSeen ==
  ASSUME NEW l \in Loan, NEW a, OpenIs(l, a)
  PROVE  OpenAt(assignment, l, a)
BY DEF OpenIs, OpenAt, IsOpenFor

\* No trigger refuses what a command does under the lock of its loan: a snapshot is of the assignment
\* open at that moment, an ended assignment and a closed promise stay as they are.
THEOREM TriggersAdmit == CollectionsSpec => CollectionBackstopsAdmit
<1> DEFINE Assigned == \A a \in Assignment : assignment'[a] # assignment[a] =>
                         IF assignment[a] = NoAssignment THEN AssignmentInsertCheck(assignment'[a])
                         ELSE AssignmentGuard(assignment[a], assignment'[a])
           Acted == \A v \in Activity : activity'[v] # activity[v] =>
                      activity[v] = NoActivity /\ OpenAt(assignment, activity'[v].loan, activity'[v].assignment)
           Promised == \A n \in Promise : promise'[n] # promise[n] =>
                         IF promise[n] = NoPromise THEN PromiseInsertCheck(n) ELSE PromiseGuard(n)
<1>1. ASSUME IInv, Books, HInv, [CollectionsNext]_allVars
      PROVE  (Assigned /\ Acted /\ Promised) \/ UNCHANGED allVars
  <2>1. /\ UNCHANGED assignment => Assigned
        /\ UNCHANGED activity => Acted
        /\ UNCHANGED promise => Promised
    OBVIOUS
  <2>2. ASSUME NEW l \in Loan, NEW a \in Assignment, CommitAssign(l, a) PROVE Assigned
    <3> DEFINE open == desk[l].open
               rows == Ended(assignment, open)
               row == [loan |-> l, to |-> desk[l].to, ended |-> FALSE]
    <3>1. assignment' = [rows EXCEPT ![a] = row] /\ assignment[a] = NoAssignment
          /\ desk[l].kind = "assign"
      BY <2>2 DEF CommitAssign
    <3>2. /\ open # None => open \in Assignment /\ IsOpenFor(open, l)
          /\ rows \in [Assignment -> AssignmentRow]
          /\ \A b \in Assignment : b # open => rows[b] = assignment[b]
          /\ open # None => rows[open] = [assignment[open] EXCEPT !.ended = TRUE]
      BY <1>1, <3>1, AssignmentsUnderCommit
    <3>3. ~row.ended
      OBVIOUS
    <3> HIDE DEF open, rows, row
    <3>4. assignment'[a] = row /\ \A b \in Assignment \ {a} : assignment'[b] = rows[b]
      BY <3>1, <3>2
    <3>5. open # None => /\ assignment[open] # NoAssignment
                         /\ AssignmentGuard(assignment[open], rows[open])
      BY <3>2, LoanNone DEF IsOpenFor, NoAssignment, AssignmentGuard
    <3>6. ASSUME NEW b \in Assignment, assignment'[b] # assignment[b]
          PROVE  IF assignment[b] = NoAssignment THEN AssignmentInsertCheck(assignment'[b])
                 ELSE AssignmentGuard(assignment[b], assignment'[b])
      <4>1. CASE b = a
        BY <3>1, <3>3, <3>4, <4>1 DEF AssignmentInsertCheck
      <4>2. CASE b # a
        <5>1. b = open /\ open # None /\ assignment'[b] = rows[b]
          BY <3>2, <3>4, <3>6, <4>2, CollectionsNone
        <5> QED BY <3>5, <5>1
      <4> QED BY <4>1, <4>2
    <3> QED BY <3>6
  <2>3. ASSUME NEW l \in Loan, CommitEnd(l) PROVE Assigned
    <3> DEFINE open == desk[l].open
               rows == Ended(assignment, open)
    <3>1. assignment' = rows /\ desk[l].kind = "end"
      BY <2>3 DEF CommitEnd
    <3>2. /\ open # None => open \in Assignment /\ IsOpenFor(open, l)
          /\ \A b \in Assignment : b # open => rows[b] = assignment[b]
          /\ open # None => rows[open] = [assignment[open] EXCEPT !.ended = TRUE]
      BY <1>1, <3>1, AssignmentsUnderCommit
    <3> HIDE DEF open, rows
    <3>3. open # None => /\ assignment[open] # NoAssignment
                         /\ AssignmentGuard(assignment[open], rows[open])
      BY <3>2, LoanNone DEF IsOpenFor, NoAssignment, AssignmentGuard
    <3> QED BY <3>1, <3>2, <3>3, CollectionsNone
  <2>4. ASSUME NEW l \in Loan, NEW v \in Activity, CommitRecord(l, v) PROVE Acted
    <3> DEFINE row == [loan |-> l, assignment |-> desk[l].open]
    <3>1. activity[v] = NoActivity /\ activity' = [activity EXCEPT ![v] = row] /\ desk[l].kind = "record"
      BY <2>4 DEF CommitRecord
    <3>2. OpenAt(assignment, row.loan, row.assignment)
      BY <1>1, <3>1, OpenAsSeen DEF HInv, DesksHold, TaskHolds
    <3> HIDE DEF row
    <3>3. activity'[v] = row /\ \A w \in Activity \ {v} : activity'[w] = activity[w]
      BY <1>1, <3>1 DEF HInv, CollectionsTypeOK
    <3> QED BY <3>1, <3>2, <3>3
  <2>5. ASSUME NEW l \in Loan, NEW n \in Promise, CommitPromise(l, n) PROVE Promised
    <3> DEFINE old == desk[l].old
               open == desk[l].open
    <3>1. desk[l].kind = "promise" /\ promise[n] = NoPromise
      BY <2>5 DEF CommitPromise
    <3>2. Replaced(l, n, old, open)
      BY <1>1, <2>5, PromisesUnderCommit
    <3>3. OpenAt(assignment, l, open)
      BY <1>1, <3>1, OpenAsSeen DEF HInv, DesksHold, TaskHolds
    <3> HIDE DEF old, open
    <3>4. PromiseInsertCheck(n)
      BY <3>2, <3>3 DEF Replaced, PromiseInsertCheck
    <3>5. old # None => promise[old] # NoPromise /\ PromiseGuard(old)
      BY <3>2, LoanNone DEF Replaced, PromiseGuard, IsCurrent, NoPromise
    <3> QED BY <3>1, <3>2, <3>4, <3>5, CollectionsNone DEF Replaced
  <2>6. ASSUME NEW l \in Loan, CommitCancel(l) PROVE Promised
    <3> DEFINE n == desk[l].old
               row == [promise[n] EXCEPT !.closed = "cancelled"]
    <3>1. desk[l].kind = "cancel" /\ promise' = [promise EXCEPT ![n] = row]
      BY <2>6 DEF CommitCancel
    <3>2. n \in Promise /\ promise \in [Promise -> PromiseRow] /\ IsCurrent(n, l)
      BY <1>1, <3>1 DEF HInv, DesksHold, TaskHolds, CollectionsTypeOK
    <3> HIDE DEF n
    <3>3. row.closed = "cancelled"
      BY <3>2 DEF PromiseRow
    <3>4. promise'[n] = row /\ \A m \in Promise \ {n} : promise'[m] = promise[m]
      BY <3>1, <3>2
    <3>5. PromiseGuard(n) /\ promise[n] # NoPromise
      BY <3>2, <3>3, <3>4, LoanNone DEF PromiseGuard, IsCurrent, NoPromise
    <3> QED BY <3>4, <3>5
  <2> HIDE DEF Assigned, Acted, Promised
  <2>7. CASE Lend
    BY <2>1, <2>7 DEF Lend, deskVars
  <2>8. CASE Promising
    BY <2>1, <2>5, <2>6, <2>8
       DEF Promising, LockToPromise, LockToCancel, Begin, GiveUp, Pay, CommitPromise, CommitCancel
  <2>9. CASE Assigning
    BY <2>1, <2>2, <2>3, <2>4, <2>9
       DEF Assigning, LockToAssign, LockToEnd, LockToRecord, Begin, CommitAssign, CommitEnd, CommitRecord
  <2> QED BY <1>1, <2>7, <2>8, <2>9 DEF CollectionsNext
<1>2. IInv /\ Books /\ HInv /\ [CollectionsNext]_allVars =>
        [/\ Assigned
         /\ Acted
         /\ Promised]_allVars
  BY <1>1
<1> QED BY <1>2, HistoryInductive, PTL DEF CollectionsSpec, CollectionBackstopsAdmit

-----------------------------------------------------------------------------
(* What is due by a date, and what a promise still needs.                  *)

OpenBy(l, date) == SumOver(Outstanding(NetApplied(l)), RunSlots(l, date))

LEMMA RunSlotsType ==
  ASSUME NEW l, NEW date
  PROVE  RunSlots(l, date) \subseteq Slot /\ IsFiniteSet(RunSlots(l, date))
<1>1. RunSlots(l, date) \subseteq Slot
  BY DEF RunSlots
<1> QED BY <1>1, FiniteContract, FS_Subset

LEMMA DueIsASum ==
  ASSUME NEW l \in Loan, loan[l].since \in Nat, NEW date
  PROVE  DueBy(l, date) = OpenBy(l, date)
<1> DEFINE run == Run(l, date)
           open == Outstanding(NetApplied(l))
<1>1. PICK n : IsRunOf(run, n, l, date)
  BY RunIsOrdered
<1>2. DueBy(l, date) = SumOver(open, Range(run))
  BY DEF DueBy, DueToDate, SumOver
<1> HIDE DEF run, open
<1>3. Range(run) = RunSlots(l, date)
  BY <1>1 DEF IsRunOf, Range
<1> QED BY <1>2, <1>3 DEF OpenBy, open

\* Each payment was applied to what was due on its date.
PaidWhenDue ==
  \A p \in Payment :
    \A l \in Loan : \A d \in Day : payment[p].loan = l /\ paidOn[p] = d =>
      \A x \in Slot : payment[p].parts[x] > 0 => x \in RunSlots(l, d)

\* A promise is of a loan that was disbursed, and counts its earlier payments among those that were made.
PromisedOfLoans ==
  \A n \in Promise : promise[n].loan # None =>
    Disbursed(promise[n].loan) /\ \A p \in promise[n].earlier : payment[p].loan # None

\* What is missing from a promise can be paid by its date, whether it was kept in the meantime or not.
CanBeKept(n) ==
  \A l \in Loan : \A d \in Day : promise[n].loan = l /\ promise[n].date = d =>
    promise[n].amount - QualifyingPaid(n) <= OpenBy(l, d)
Keepable ==
  \A n \in Promise :
    promise[n].loan # None /\ promise[n].closed = "no" /\ today <= promise[n].date => CanBeKept(n)

\* What a command that promises read under the lock of its loan.
PromisesRead ==
  \A l \in Loan : desk[l].kind = "promise" =>
    /\ Disbursed(l)
    /\ desk[l].earlier = PaymentsOf(payment, l)
    /\ \A d \in Day : desk[l].date = d => desk[l].amount <= OpenBy(l, d)

KInv == PaidWhenDue /\ PromisedOfLoans /\ Keepable /\ PromisesRead

LEMMA KeepableInitially == CollectionsInit => KInv
BY LoanNone DEF CollectionsInit, Init, KInv, PaidWhenDue, PromisedOfLoans, Keepable, PromisesRead,
                NoPayment, NoPromise, NoTask

LEMMA KeepableIsEnough ==
  ASSUME Books, HInv, KInv
  PROVE  PromiseCanBeKept
<1> SUFFICES ASSUME NEW n \in Promise, promise[n].loan # None, ProjectedStatus(n, today) = "open"
             PROVE  promise[n].amount - QualifyingPaid(n) <= DueBy(promise[n].loan, promise[n].date)
  BY DEF PromiseCanBeKept
<1>1. promise[n].loan \in Loan /\ promise[n].closed \in {"no", "cancelled", "superseded"}
      /\ promise[n].date \in Day /\ today \in Day
  BY DEF HInv, CollectionsTypeOK, PromiseRow, Books, MoneyTypes
<1>2. promise[n].closed = "no" /\ ~(today > promise[n].date)
  BY <1>1 DEF ProjectedStatus
<1>3. today <= promise[n].date
  BY <1>1, <1>2, LoanBounds DEF Day
<1>4. loan[promise[n].loan].since \in Nat
  BY <1>1, LoanBounds DEF Books, MoneyTypes, LoanRow, Day
<1>5. CanBeKept(n)
  BY <1>2, <1>3 DEF KInv, Keepable
<1> QED BY <1>1, <1>4, <1>5, DueIsASum DEF CanBeKept

\* What was paid towards a promise, as a sum.
LEMMA QualifyingIsASum ==
  ASSUME Books, HInv, NEW n \in Promise, promise[n].loan # None
  PROVE  /\ IsFiniteSet(Qualifying(n)) /\ QualifyingPaid(n) = SumOver(Amount, Qualifying(n))
         /\ QualifyingPaid(n) \in Nat
<1>1. promise[n].loan \in Loan
  BY DEF HInv, CollectionsTypeOK, PromiseRow
<1>2. Qualifying(n) \subseteq PaymentsOf(payment, promise[n].loan)
  BY DEF Qualifying, PaymentsOf
<1>3. IsFiniteSet(Qualifying(n))
  BY <1>1, <1>2, FinitelyManyOfALoan, FS_Subset
<1>4. \A p \in Qualifying(n) : Amount[p] = payment[p].amount /\ Amount[p] \in Nat
  BY <1>2 DEF Amount, PaymentsOf, Books, MoneyTypes
<1>5. QualifyingPaid(n) = SumOver(Amount, Qualifying(n))
  BY <1>3, <1>4, AmountsAreSums DEF QualifyingPaid
<1> QED BY <1>3, <1>4, <1>5, SumIsNatural

LEMMA RunSlotsStay ==
  ASSUME NEW l \in Loan, NEW d, loan'[l].since = loan[l].since
  PROVE  RunSlots(l, d)' = RunSlots(l, d)
BY DEF RunSlots, DueUpTo, DueDate

\* A loan that was disbursed keeps its dates.
LEMMA DatesStay ==
  ASSUME IInv, Books, [Next]_vars, NEW l \in Loan, Disbursed(l)
  PROVE  loan'[l].since = loan[l].since /\ Disbursed(l)'
<1> DEFINE Same == loan'[l].since = loan[l].since /\ loan'[l].status # "none"
<1>1. loan[l].status # "none" /\ loan \in [Loan -> LoanRow]
  BY DEF Disbursed, Books, MoneyTypes
<1>2. UNCHANGED loan => Same
  BY <1>1
<1> HIDE DEF Same
<1>3. ASSUME NEW k \in Loan, NEW s \in SessionId, Disburse(k, s) PROVE Same
  <2>1. loan'[l] = loan[l]
    BY <1>1, <1>3, DisburseFields
  <2> QED BY <1>1, <2>1 DEF Same
<1>4. ASSUME NEW k \in Loan, NEW pay, NEW rev, NEW date,
             loan' = [loan EXCEPT ![k] = Projected(k, pay, rev, date)]
      PROVE  Same
  <2> DEFINE projected == Projected(k, pay, rev, date)
  <2>1. projected.status # "none" /\ (k = l => projected.since = loan[l].since)
    BY <1>1, ProjectedFields DEF Projected, LoanRow
  <2> HIDE DEF projected
  <2> QED BY <1>1, <1>4, <2>1 DEF Same, projected
<1>5. ASSUME NEW k \in Loan, NEW p \in Payment, CommitPayment(k, p) PROVE Same
  BY <1>4, <1>5 DEF CommitPayment
<1>6. ASSUME NEW k \in Loan, CommitReversal(k) PROVE Same
  BY <1>4, <1>6 DEF CommitReversal
<1>7. ASSUME NEW k \in Loan, Assess(k) PROVE Same
  <2>1. CASE k = l
    BY <1>7, <2>1, AssessFields DEF Same
  <2>2. CASE k # l
    <3>1. loan'[l] = loan[l]
      BY <1>7, <2>2, AssessFields
    <3> QED BY <1>1, <3>1 DEF Same
  <2> QED BY <2>1, <2>2
<1>8. Same
  BY <1>2, <1>3, <1>5, <1>6, <1>7
     DEF Next, LockToPay, Abort, LockToReverse, NextDay, OpenDrawer, CloseDrawer, vars
<1> QED BY <1>8 DEF Same, Disbursed

\* Nothing of the loan moved.
LEMMA OpenByStays ==
  ASSUME Books, NEW l \in Loan, NEW d, loan'[l].since = loan[l].since,
         \A p \in Payment : payment'[p].loan = l => payment[p].loan = l,
         \A p \in Payment : payment[p].loan = l => payment'[p] = payment[p] /\ reversal'[p] = reversal[p]
  PROVE  OpenBy(l, d)' = OpenBy(l, d)
<1>1. PaymentsOf(payment', l) = PaymentsOf(payment, l)
  BY DEF PaymentsOf
<1>2. NetApplied(l)' = NetApplied(l)
  BY <1>1, NetStill DEF PaymentsOf
<1>3. RunSlots(l, d)' = RunSlots(l, d)
  BY RunSlotsStay
<1> QED BY <1>2, <1>3 DEF OpenBy

\* What a promise still needs stays, with the loan and the promise.
LEMMA PromiseStays ==
  ASSUME IInv, Books, NEW n \in Promise, NEW l \in Loan, promise[n].loan = l,
         promise'[n] = promise[n], loan'[l].since = loan[l].since,
         \A p \in Payment : payment'[p].loan = l => payment[p].loan = l,
         \A p \in Payment : payment[p].loan = l =>
           payment'[p] = payment[p] /\ reversal'[p] = reversal[p] /\ paidOn'[p] = paidOn[p],
         CanBeKept(n)
  PROVE  CanBeKept(n)'
<1>1. QualifyingPaid(n)' = QualifyingPaid(n)
  BY PaidStays
<1>2. \A d \in Day : OpenBy(l, d)' = OpenBy(l, d)
  BY OpenByStays
<1> QED BY <1>1, <1>2 DEF CanBeKept

\* What a command read stays, while its loan is held.
LEMMA ReadStays ==
  ASSUME IInv, Books, HInv, KInv, [Next]_vars, NEW l \in Loan, desk[l].kind = "promise", desk'[l] = desk[l],
         \A p \in Payment : payment'[p].loan = l => payment[p].loan = l,
         \A p \in Payment : payment[p].loan = l => payment'[p] = payment[p] /\ reversal'[p] = reversal[p]
  PROVE  /\ Disbursed(l)'
         /\ desk'[l].earlier = PaymentsOf(payment', l)
         /\ \A d \in Day : desk'[l].date = d => desk'[l].amount <= OpenBy(l, d)'
<1>1. /\ Disbursed(l) /\ desk[l].earlier = PaymentsOf(payment, l)
      /\ \A d \in Day : desk[l].date = d => desk[l].amount <= OpenBy(l, d)
  BY DEF KInv, PromisesRead
<1>2. loan'[l].since = loan[l].since /\ Disbursed(l)'
  BY <1>1, DatesStay
<1>3. \A d \in Day : OpenBy(l, d)' = OpenBy(l, d)
  BY <1>2, OpenByStays
<1>4. PaymentsOf(payment', l) = PaymentsOf(payment, l)
  BY DEF PaymentsOf
<1> QED BY <1>1, <1>2, <1>3, <1>4

\* Where payments, reversals and promises stand and only the desks move.
LEMMA KeepableStill ==
  ASSUME IInv, Books, HInv, KInv, [Next]_vars, UNCHANGED <<payment, reversal, paidOn, promise>>,
         today' >= today, today' \in Day, PromisesRead'
  PROVE  KInv'
<1>1. \A p \in Payment : \A l \in Loan : payment[p].loan = l => loan'[l].since = loan[l].since
  BY DatesStay, LoanNone DEF Books, OnlyDisbursed, Disbursed
<1>2. PaidWhenDue'
  <2>1. \A p \in Payment : \A l \in Loan : \A d \in Day :
          payment[p].loan = l => RunSlots(l, d)' = RunSlots(l, d)
    BY <1>1, RunSlotsStay
  <2> QED BY <2>1 DEF KInv, PaidWhenDue
<1>3. ASSUME NEW n \in Promise, NEW l \in Loan, promise[n].loan = l
      PROVE  Disbursed(l)' /\ loan'[l].since = loan[l].since
  <2>1. Disbursed(l)
    BY <1>3, LoanNone DEF KInv, PromisedOfLoans
  <2> QED BY <2>1, DatesStay
<1>4. \A n \in Promise : promise[n].loan \in Loan \cup {None}
  BY DEF HInv, CollectionsTypeOK, PromiseRow
<1>5. PromisedOfLoans'
  BY <1>3, <1>4 DEF KInv, PromisedOfLoans, Disbursed
<1>6. Keepable'
  <2> SUFFICES ASSUME NEW n \in Promise, promise[n].loan # None, promise[n].closed = "no",
                      today' <= promise[n].date
               PROVE  CanBeKept(n)'
    BY DEF Keepable
  <2>1. PICK l \in Loan : promise[n].loan = l
    BY <1>4
  <2>2. today <= promise[n].date
    BY LoanBounds DEF HInv, CollectionsTypeOK, PromiseRow, Books, MoneyTypes, Day
  <2>3. CanBeKept(n)
    BY <2>2 DEF KInv, Keepable
  <2> QED BY <1>3, <2>1, <2>3, PromiseStays
<1> QED BY <1>2, <1>5, <1>6 DEF KInv

\* A payment of the loan by the date of the promise brings both down by its amount.
LEMMA PaymentTowards ==
  ASSUME IInv, Books, LInv, HInv, KInv, NEW l \in Loan, NEW p \in Payment, Pay(l, p),
         NEW n \in Promise, promise[n].loan = l, UNCHANGED promise, today <= promise[n].date
  PROVE  QualifyingPaid(n)' = QualifyingPaid(n) + work[l].pays.amount
<1> DEFINE row == work[l].pays
           S == Qualifying(n)
<1>1. /\ payment[p].loan = None /\ payment' = [payment EXCEPT ![p] = row] /\ UNCHANGED reversal
      /\ paidOn' = [paidOn EXCEPT ![p] = work[l].date] /\ row.loan = l /\ work[l].kind = "pay"
  BY DEF Pay, CommitPayment, NoPayment, IInv, RowsAndLocks
<1>2. /\ payment'[p] = row /\ \A q \in Payment \ {p} : payment'[q] = payment[q]
      /\ paidOn'[p] = work[l].date /\ \A q \in Payment \ {p} : paidOn'[q] = paidOn[q]
  BY <1>1 DEF IInv, RowsAndLocks, HInv, CollectionsTypeOK
<1>3. work[l].date <= promise[n].date
  <2>1. work[l].date <= today /\ work[l].date \in Day /\ today \in Day /\ promise[n].date \in Day
    BY <1>1 DEF Books, OnlyDisbursed, MoneyTypes, HInv, CollectionsTypeOK, PromiseRow
  <2> QED BY <2>1, LoanBounds DEF Day
<1>4. p \notin promise[n].earlier /\ ~IsReversed(p)
  <2>1. p \notin promise[n].earlier
    BY <1>1, LoanNone DEF KInv, PromisedOfLoans
  <2> QED BY <1>1, <2>1 DEF IInv, HandedBackProperly, NoReversal, IsReversed
<1>5. Qualifying(n)' = S \cup {p} /\ p \notin S
  <2>1. \A q \in Payment : IsReversed(q)' <=> IsReversed(q)
    BY <1>1 DEF IsReversed
  <2> QED BY <1>1, <1>2, <1>3, <1>4, <2>1, LoanNone DEF Qualifying
<1>6. IsFiniteSet(S) /\ QualifyingPaid(n) = SumOver(Amount, S) /\ QualifyingPaid(n) \in Nat /\ S \subseteq Payment
  BY QualifyingIsASum, LoanNone DEF Qualifying
<1>7. row.amount \in Nat /\ \A q \in Payment : payment[q].amount \in Nat
  BY <1>1 DEF Books, MoneyTypes
<1> DEFINE f == [q \in Payment |-> payment'[q].amount]
<1>8. f[p] = row.amount /\ \A q \in S : f[q] = Amount[q] /\ f[q] \in Int
  BY <1>2, <1>5, <1>6, <1>7 DEF Amount
<1> HIDE DEF S, row
<1>9. QualifyingPaid(n)' = SumOver(f, S \cup {p})
  <2> DEFINE pay == payment'
             T == S \cup {p}
  <2>1. IsFiniteSet(T)
    BY <1>6, FS_AddElement
  <2>2. \A q \in T : f[q] = pay[q].amount
    BY <1>6
  <2>3. QualifyingPaid(n)' = MapThenSumSet(LAMBDA q : pay[q].amount, T)
    BY <1>5 DEF QualifyingPaid, MapThenSumSet, MapThenFoldSet
  <2> HIDE DEF pay, T, f
  <2>4. MapThenSumSet(LAMBDA q : pay[q].amount, T) = SumOver(f, T)
    BY <2>1, <2>2, AmountsAreSums
  <2> QED BY <2>3, <2>4 DEF T
<1> HIDE DEF f
<1>10. SumOver(f, S \cup {p}) = f[p] + SumOver(f, S)
  <2>1. \A q \in S \cup {p} : f[q] \in Int
    BY <1>7, <1>8
  <2> QED BY <1>5, <1>6, <2>1, SumOfOneMore
<1>11. SumOver(f, S) = SumOver(Amount, S)
  BY <1>6, <1>8, SumsAgree
<1> QED BY <1>6, <1>7, <1>8, <1>9, <1>10, <1>11 DEF row

LEMMA DueLowered ==
  ASSUME IInv, Books, LInv, HInv, KInv, NEW l \in Loan, NEW p \in Payment, Pay(l, p),
         loan'[l].since = loan[l].since, NEW d \in Day, today <= d
  PROVE  /\ OpenBy(l, d)' = OpenBy(l, d) - work[l].pays.amount
         /\ OpenBy(l, d) \in Int
<1> DEFINE parts == work[l].pays.parts
           open == Outstanding(NetApplied(l))
           after == Outstanding(NetApplied(l)')
           S == RunSlots(l, d)
<1>1. work[l].kind = "pay" /\ CommitPayment(l, p)
  BY DEF Pay, CommitPayment
<1>2. work[l].date \in Day /\ work[l].date <= today /\ today \in Day
  BY <1>1 DEF Books, OnlyDisbursed, MoneyTypes
<1>3. Fits(l, work[l].date, open, work[l].pays.amount, parts)
  BY <1>1 DEF LInv, WorkFits, WorkFitsOn
<1>4. parts \in Parts /\ SumOver(parts, Slot) = work[l].pays.amount
  BY <1>3 DEF Fits
<1>5. S \subseteq Slot /\ IsFiniteSet(S)
  BY RunSlotsType
<1>6. \A x \in Slot \ S : parts[x] = 0
  <2> SUFFICES ASSUME NEW x \in Slot, parts[x] # 0 PROVE x \in S
    OBVIOUS
  <2>1. PICK k \in Instalment, c \in Component : x = <<k, c>>
    BY DEF Slot
  <2>2. parts[<<k, c>>] > 0
    BY <1>4, <2>1 DEF Parts
  <2>3. DueDate(l, k) <= work[l].date
    BY <1>3, <2>2 DEF Fits, Settles
  <2>4. DueDate(l, k) <= d
    <3>1. DueAfter[k] \in Nat /\ loan[l].since \in Nat
      BY LoanContract, LoanBounds DEF Books, MoneyTypes, LoanRow, Day
    <3>2. DueDate(l, k) \in Nat
      BY <3>1 DEF DueDate
    <3> QED BY <1>2, <2>3, <3>2, LoanBounds DEF Day
  <2> QED BY <2>1, <2>4 DEF RunSlots, DueUpTo
<1>7. \A x \in Slot : open[x] \in Int /\ parts[x] \in Int /\ after[x] = open[x] - parts[x]
  <2> SUFFICES ASSUME NEW x \in Slot
               PROVE  open[x] \in Int /\ parts[x] \in Int /\ after[x] = open[x] - parts[x]
    OBVIOUS
  <2>1. NetApplied(l)[x] \in 0 .. Due[x] /\ Due[x] \in Nat /\ parts[x] \in Nat
    BY <1>4, LoanContract DEF LInv, NothingOverpaid, Parts
  <2>2. open[x] = Due[x] - NetApplied(l)[x] /\ after[x] = Due[x] - NetApplied(l)'[x]
    BY DEF Outstanding
  <2>3. NetApplied(l)'[x] = NetApplied(l)[x] + parts[x]
    BY <1>1, LedgerByCommitPayment
  <2> QED BY <2>1, <2>2, <2>3
<1>8. OpenBy(l, d) = SumOver(open, S) /\ OpenBy(l, d)' = SumOver(after, S)
  <2>1. RunSlots(l, d)' = S
    BY RunSlotsStay
  <2> QED BY <2>1 DEF OpenBy
<1> HIDE DEF parts, open, after, S
<1>9. SumOver(after, S) = SumOver(open, S) - SumOver(parts, S)
  BY <1>5, <1>7, SumOfDifferences
<1>10. SumOver(parts, Slot) = SumOver(parts, S)
  BY <1>5, <1>6, <1>7, FiniteContract, SumWithin
<1>11. SumOver(open, S) \in Int
  BY <1>5, <1>7, SumType
<1> QED BY <1>4, <1>8, <1>9, <1>10, <1>11

\* A reversal takes its payment from what was paid towards a promise that counted it.
LEMMA ReversalAgainst ==
  ASSUME IInv, Books, LInv, HInv, KInv, NEW l \in Loan, CommitReversal(l), UNCHANGED <<promise, paidOn>>,
         NEW n \in Promise, promise[n].loan = l, NEW p \in Payment, p = work[l].of
  PROVE  QualifyingPaid(n)' =
           QualifyingPaid(n) - (IF p \in Qualifying(n) THEN payment[p].amount ELSE 0)
<1> DEFINE S == Qualifying(n)
           T == S \ {p}
<1>1. /\ UNCHANGED payment /\ reversal'[p].by # None
      /\ \A q \in Payment \ {p} : reversal'[q] = reversal[q]
  BY CommitReversalFields
<1>2. Qualifying(n)' = T
  BY <1>1 DEF Qualifying, IsReversed
<1>3. IsFiniteSet(S) /\ QualifyingPaid(n) = SumOver(Amount, S) /\ QualifyingPaid(n) \in Nat /\ S \subseteq Payment
  BY QualifyingIsASum, LoanNone DEF Qualifying
<1>4. IsFiniteSet(T) /\ T \subseteq S /\ p \notin T /\ (p \in S => S = T \cup {p}) /\ (p \notin S => S = T)
  BY <1>3, FS_Subset
<1>5. \A q \in Payment : Amount[q] = payment[q].amount /\ Amount[q] \in Nat
  BY DEF Amount, Books, MoneyTypes
<1>6. QualifyingPaid(n)' = SumOver(Amount, T)
  <2>1. QualifyingPaid(n)' = MapThenSumSet(LAMBDA q : payment[q].amount, T)
    BY <1>1, <1>2 DEF QualifyingPaid, MapThenSumSet, MapThenFoldSet
  <2>2. \A q \in T : Amount[q] = payment[q].amount
    BY <1>3, <1>5
  <2> HIDE DEF T
  <2>3. MapThenSumSet(LAMBDA q : payment[q].amount, T) = SumOver(Amount, T)
    BY <1>4, <2>2, AmountsAreSums
  <2> QED BY <2>1, <2>3
<1> HIDE DEF T
<1>7. CASE p \in S
  <2>1. \A q \in T \cup {p} : Amount[q] \in Int
    BY <1>3, <1>4, <1>5
  <2>2. SumOver(Amount, T \cup {p}) = Amount[p] + SumOver(Amount, T)
    BY <1>4, <2>1, SumOfOneMore
  <2>3. SumOver(Amount, T) \in Int
    BY <1>4, <2>1, SumType
  <2>4. Amount[p] = payment[p].amount /\ Amount[p] \in Nat
    BY <1>5
  <2>5. QualifyingPaid(n) = Amount[p] + SumOver(Amount, T)
    BY <1>3, <1>4, <1>7, <2>2
  <2> QED BY <1>6, <1>7, <2>3, <2>4, <2>5
<1>8. CASE p \notin S
  BY <1>3, <1>4, <1>6, <1>8
<1> QED BY <1>7, <1>8

\* What is due by a date rises by at least as much.
LEMMA DueRaised ==
  ASSUME IInv, Books, LInv, HInv, KInv, NEW l \in Loan, CommitReversal(l),
         loan'[l].since = loan[l].since, NEW d \in Day, NEW p \in Payment, p = work[l].of
  PROVE  /\ OpenBy(l, d) \in Int /\ OpenBy(l, d)' \in Int
         /\ OpenBy(l, d)' >= OpenBy(l, d)
         /\ paidOn[p] <= d => OpenBy(l, d)' = OpenBy(l, d) + payment[p].amount
<1> DEFINE parts == payment[p].parts
           open == Outstanding(NetApplied(l))
           after == Outstanding(NetApplied(l)')
           S == RunSlots(l, d)
<1>1. payment[p].loan = l /\ payment[p].amount \in Nat /\ paidOn[p] \in Day
  BY CommitReversalFields DEF Books, MoneyTypes, HInv, CollectionsTypeOK
<1>2. parts \in Parts /\ SumOver(parts, Slot) = payment[p].amount
  BY DEF LInv, PartsAgree
<1>3. S \subseteq Slot /\ IsFiniteSet(S)
  BY RunSlotsType
<1>4. ASSUME paidOn[p] <= d, NEW x \in Slot \ S PROVE parts[x] = 0
  <2> SUFFICES ASSUME parts[x] # 0 PROVE x \in S
    OBVIOUS
  <2>1. parts[x] > 0
    BY <1>2 DEF Parts
  <2>2. PICK e \in Day : e = paidOn[p]
    BY <1>1
  <2>3. x \in RunSlots(l, e)
    BY <1>1, <2>1, <2>2 DEF KInv, PaidWhenDue
  <2>4. PICK k \in Instalment, c \in Component : x = <<k, c>>
    BY DEF Slot
  <2>5. DueDate(l, k) <= e
    BY <2>3, <2>4 DEF RunSlots, DueUpTo
  <2>6. DueDate(l, k) <= d
    <3>1. DueAfter[k] \in Nat /\ loan[l].since \in Nat
      BY LoanContract, LoanBounds DEF Books, MoneyTypes, LoanRow, Day
    <3>2. DueDate(l, k) \in Nat
      BY <3>1 DEF DueDate
    <3> QED BY <1>4, <2>2, <2>5, <3>2, LoanBounds DEF Day
  <2> QED BY <2>4, <2>6 DEF RunSlots, DueUpTo
<1>5. \A x \in Slot : open[x] \in Int /\ after[x] \in Int /\ parts[x] \in Nat /\ parts[x] = after[x] - open[x]
  <2> SUFFICES ASSUME NEW x \in Slot
               PROVE  open[x] \in Int /\ after[x] \in Int /\ parts[x] \in Nat /\ parts[x] = after[x] - open[x]
    OBVIOUS
  <2>1. NetApplied(l)[x] \in 0 .. Due[x] /\ Due[x] \in Nat /\ parts[x] \in Nat
    BY <1>2, LoanContract DEF LInv, NothingOverpaid, Parts
  <2>2. open[x] = Due[x] - NetApplied(l)[x] /\ after[x] = Due[x] - NetApplied(l)'[x]
    BY DEF Outstanding
  <2>3. NetApplied(l)'[x] = NetApplied(l)[x] - parts[x]
    BY LedgerByCommitReversal
  <2> QED BY <2>1, <2>2, <2>3
<1>6. OpenBy(l, d) = SumOver(open, S) /\ OpenBy(l, d)' = SumOver(after, S)
  <2>1. RunSlots(l, d)' = S
    BY RunSlotsStay
  <2> QED BY <2>1 DEF OpenBy
<1> HIDE DEF parts, open, after, S
<1>7. SumOver(parts, S) = SumOver(after, S) - SumOver(open, S)
  BY <1>3, <1>5, SumOfDifferences
<1>8. SumOver(open, S) \in Int /\ SumOver(after, S) \in Int /\ SumOver(parts, S) \in Nat
  BY <1>3, <1>5, SumType, SumIsNatural
<1>9. paidOn[p] <= d => SumOver(parts, S) = payment[p].amount
  <2> SUFFICES ASSUME paidOn[p] <= d PROVE SumOver(parts, S) = SumOver(parts, Slot)
    BY <1>2
  <2>1. (\A x \in S : parts[x] \in Int) /\ \A x \in Slot \ S : parts[x] = 0
    BY <1>3, <1>4, <1>5
  <2> QED BY <1>3, <2>1, FiniteContract, SumWithin
<1> QED BY <1>1, <1>6, <1>7, <1>8, <1>9

LEMMA ReadsUnderLoans ==
  ASSUME IInv, Books, HInv, KInv, Lend \/ (\E k \in Loan, p \in Payment : Pay(k, p))
  PROVE  PromisesRead'
<1>1. [Next]_vars
  BY IsAStepOfLoans DEF CollectionsNext, Promising
<1>2. UNCHANGED desk /\ CollectionsTypeOK
  BY DEF Lend, Pay, deskVars, HInv
<1>3. ASSUME NEW l \in Loan, desk[l].kind = "promise"
      PROVE  /\ Disbursed(l)'
             /\ desk'[l].earlier = PaymentsOf(payment', l)
             /\ \A d \in Day : desk'[l].date = d => desk'[l].amount <= OpenBy(l, d)'
  <2>1. desk[l] # NoTask
    BY <1>3 DEF NoTask
  <2>2. /\ \A p \in Payment : payment'[p].loan = l => payment[p].loan = l
        /\ \A p \in Payment : payment[p].loan = l => payment'[p] = payment[p] /\ reversal'[p] = reversal[p]
    BY <1>2, <2>1, LoanIsHeld
  <2> QED BY <1>1, <1>2, <1>3, <2>2, ReadStays
<1>4. \A l \in Loan : PaymentsOf(payment, l)' = PaymentsOf(payment', l)
  BY DEF PaymentsOf
<1> QED BY <1>2, <1>3, <1>4 DEF PromisesRead

LEMMA KeepableByPay ==
  ASSUME IInv, Books, LInv, HInv, KInv, NEW l \in Loan, NEW p \in Payment, Pay(l, p)
  PROVE  KInv'
<1> DEFINE row == work[l].pays
           date == work[l].date
<1>1. /\ payment[p].loan = None /\ payment' = [payment EXCEPT ![p] = row] /\ UNCHANGED <<reversal, promise, today>>
      /\ paidOn' = [paidOn EXCEPT ![p] = date] /\ row.loan = l /\ work[l].kind = "pay"
  BY DEF Pay, CommitPayment, NoPayment, IInv, RowsAndLocks
<1>2. /\ payment'[p] = row /\ \A q \in Payment \ {p} : payment'[q] = payment[q]
      /\ paidOn'[p] = date /\ \A q \in Payment \ {p} : paidOn'[q] = paidOn[q]
  BY <1>1 DEF IInv, RowsAndLocks, HInv, CollectionsTypeOK
<1>3. [Next]_vars
  BY IsAStepOfLoans DEF CollectionsNext, Promising
<1>4. /\ \A m \in Loan : Disbursed(m) => loan'[m].since = loan[m].since /\ Disbursed(m)'
      /\ Disbursed(l)
  <2>1. Disbursed(l)
    BY <1>1 DEF Disbursed, Books, OnlyDisbursed
  <2> QED BY <1>3, <2>1, DatesStay
<1>5. PaidWhenDue'
  <2>1. ASSUME NEW q \in Payment \ {p}, NEW m \in Loan, payment[q].loan = m, NEW d \in Day, paidOn[q] = d
        PROVE  \A x \in Slot : payment[q].parts[x] > 0 => x \in RunSlots(m, d)'
    <3>1. Disbursed(m)
      BY <2>1, LoanNone DEF Books, OnlyDisbursed, Disbursed
    <3>2. RunSlots(m, d)' = RunSlots(m, d)
      BY <1>4, <3>1, RunSlotsStay
    <3> QED BY <2>1, <3>2 DEF KInv, PaidWhenDue
  <2>2. ASSUME NEW d \in Day, date = d, NEW x \in Slot, row.parts[x] > 0
        PROVE  x \in RunSlots(l, d)'
    <3>1. Fits(l, date, Outstanding(NetApplied(l)), row.amount, row.parts)
      BY <1>1 DEF LInv, WorkFits, WorkFitsOn
    <3>2. PICK k \in Instalment, c \in Component : x = <<k, c>>
      BY DEF Slot
    <3>3. DueDate(l, k) <= d
      BY <2>2, <3>1, <3>2 DEF Fits, Settles
    <3>4. x \in RunSlots(l, d)
      BY <3>2, <3>3 DEF RunSlots, DueUpTo
    <3> QED BY <1>4, <3>4, RunSlotsStay
  <2> HIDE DEF row, date
  <2> QED BY <1>1, <1>2, <2>1, <2>2 DEF PaidWhenDue
<1>6. \A n \in Promise : promise[n].loan \in Loan \cup {None} /\ promise[n].earlier \subseteq Payment
  BY DEF HInv, CollectionsTypeOK, PromiseRow
<1>7. PromisedOfLoans'
  <2>1. \A q \in Payment : payment[q].loan # None => payment'[q].loan # None
    BY <1>1, <1>2
  <2>2. \A n \in Promise : promise[n].loan # None => Disbursed(promise[n].loan)'
    <3> SUFFICES ASSUME NEW n \in Promise, promise[n].loan # None PROVE Disbursed(promise[n].loan)'
      OBVIOUS
    <3>1. PICK m \in Loan : promise[n].loan = m
      BY <1>6
    <3>2. Disbursed(m)
      BY <3>1 DEF KInv, PromisedOfLoans
    <3>3. loan'[m].status # "none" /\ promise'[n].loan = m
      BY <1>1, <1>4, <3>1, <3>2 DEF Disbursed
    <3> QED BY <3>3 DEF Disbursed
  <2>3. \A n \in Promise : promise[n].loan # None => \A q \in promise[n].earlier : payment'[q].loan # None
    BY <1>6, <2>1 DEF KInv, PromisedOfLoans
  <2> QED BY <1>1, <2>2, <2>3 DEF PromisedOfLoans
<1>8. Keepable'
  <2> SUFFICES ASSUME NEW n \in Promise, promise[n].loan # None, promise[n].closed = "no",
                      today <= promise[n].date
               PROVE  CanBeKept(n)'
    BY <1>1 DEF Keepable
  <2>1. CanBeKept(n)
    BY DEF KInv, Keepable
  <2>2. PICK m \in Loan : promise[n].loan = m
    BY <1>6
  <2>3. Disbursed(m)
    BY <2>2 DEF KInv, PromisedOfLoans
  <2>4. CASE m # l
    <3>1. /\ \A q \in Payment : payment'[q].loan = m => payment[q].loan = m
          /\ \A q \in Payment : payment[q].loan = m =>
               payment'[q] = payment[q] /\ reversal'[q] = reversal[q] /\ paidOn'[q] = paidOn[q]
      BY <1>1, <1>2, <2>2, <2>4
    <3> QED BY <1>1, <1>4, <2>1, <2>2, <2>3, <3>1, PromiseStays
  <2>5. CASE m = l
    <3>1. QualifyingPaid(n)' = QualifyingPaid(n) + row.amount
      BY <1>1, <2>2, <2>5, PaymentTowards
    <3>2. \A d \in Day : today <= d => OpenBy(l, d)' = OpenBy(l, d) - row.amount /\ OpenBy(l, d) \in Int
      BY <1>4, DueLowered
    <3>3. row.amount \in Nat /\ QualifyingPaid(n) \in Nat /\ promise[n].amount \in Nat
      BY <1>1, QualifyingIsASum DEF Books, MoneyTypes, HInv, CollectionsTypeOK, PromiseRow
    <3> HIDE DEF row
    <3>4. ASSUME NEW d \in Day, promise[n].date = d
          PROVE  promise[n].amount - QualifyingPaid(n)' <= OpenBy(l, d)'
      <4>1. promise[n].amount - QualifyingPaid(n) <= OpenBy(l, d)
        BY <2>1, <2>2, <2>5, <3>4 DEF CanBeKept
      <4>2. OpenBy(l, d)' = OpenBy(l, d) - row.amount /\ OpenBy(l, d) \in Int
        BY <3>2, <3>4
      <4> QED BY <3>1, <3>3, <4>1, <4>2
    <3> QED BY <1>1, <2>2, <2>5, <3>4 DEF CanBeKept
  <2> QED BY <2>4, <2>5
<1>9. PromisesRead'
  BY ReadsUnderLoans
<1> QED BY <1>5, <1>7, <1>8, <1>9 DEF KInv

LEMMA KeepableByReversal ==
  ASSUME IInv, Books, LInv, HInv, KInv, NEW l \in Loan, CommitReversal(l), Lend
  PROVE  KInv'
<1>1. UNCHANGED <<today, payment, promise, paidOn>>
  BY DEF Lend, deskVars, CommitReversal
<1>2. PICK p \in Payment : /\ p = work[l].of /\ payment[p].loan = l
                           /\ \A q \in Payment \ {p} : reversal'[q] = reversal[q]
  BY CommitReversalFields
<1>3. [Next]_vars
  BY IsAStepOfLoans DEF CollectionsNext
<1>4. \A m \in Loan : Disbursed(m) => loan'[m].since = loan[m].since /\ Disbursed(m)'
  BY <1>3, DatesStay
<1>5. PaidWhenDue'
  <2>1. ASSUME NEW q \in Payment, NEW m \in Loan, payment[q].loan = m, NEW d \in Day, paidOn[q] = d
        PROVE  \A x \in Slot : payment[q].parts[x] > 0 => x \in RunSlots(m, d)'
    <3>1. Disbursed(m)
      BY <2>1, LoanNone DEF Books, OnlyDisbursed, Disbursed
    <3>2. RunSlots(m, d)' = RunSlots(m, d)
      BY <1>4, <3>1, RunSlotsStay
    <3> QED BY <2>1, <3>2 DEF KInv, PaidWhenDue
  <2> QED BY <1>1, <2>1 DEF PaidWhenDue
<1>6. \A n \in Promise : promise[n].loan \in Loan \cup {None}
  BY DEF HInv, CollectionsTypeOK, PromiseRow
<1>7. PromisedOfLoans'
  BY <1>1, <1>4, <1>6 DEF KInv, PromisedOfLoans, Disbursed
<1>8. Keepable'
  <2> SUFFICES ASSUME NEW n \in Promise, promise[n].loan # None, promise[n].closed = "no",
                      today <= promise[n].date
               PROVE  CanBeKept(n)'
    BY <1>1 DEF Keepable
  <2>1. CanBeKept(n)
    BY DEF KInv, Keepable
  <2>2. PICK m \in Loan : promise[n].loan = m
    BY <1>6
  <2>3. Disbursed(m)
    BY <2>2 DEF KInv, PromisedOfLoans
  <2>4. CASE m # l
    <3>1. /\ \A q \in Payment : payment'[q].loan = m => payment[q].loan = m
          /\ \A q \in Payment : payment[q].loan = m =>
               payment'[q] = payment[q] /\ reversal'[q] = reversal[q] /\ paidOn'[q] = paidOn[q]
      BY <1>1, <1>2, <2>4
    <3> QED BY <1>1, <1>4, <2>1, <2>2, <2>3, <3>1, PromiseStays
  <2>5. CASE m = l
    <3>1. QualifyingPaid(n)' =
            QualifyingPaid(n) - (IF p \in Qualifying(n) THEN payment[p].amount ELSE 0)
      BY <1>1, <1>2, <2>2, <2>5, ReversalAgainst
    <3>2. \A d \in Day : /\ OpenBy(l, d) \in Int /\ OpenBy(l, d)' \in Int
                         /\ OpenBy(l, d)' >= OpenBy(l, d)
                         /\ paidOn[p] <= d => OpenBy(l, d)' = OpenBy(l, d) + payment[p].amount
      BY <1>2, <1>4, <2>3, <2>5, DueRaised
    <3>3. payment[p].amount \in Nat /\ QualifyingPaid(n) \in Nat /\ promise[n].amount \in Nat
      BY QualifyingIsASum DEF Books, MoneyTypes, HInv, CollectionsTypeOK, PromiseRow
    <3>4. ASSUME NEW d \in Day, promise[n].date = d
          PROVE  promise[n].amount - QualifyingPaid(n)' <= OpenBy(l, d)'
      <4>1. promise[n].amount - QualifyingPaid(n) <= OpenBy(l, d)
        BY <2>1, <2>2, <2>5, <3>4 DEF CanBeKept
      <4>2. /\ OpenBy(l, d) \in Int /\ OpenBy(l, d)' \in Int
            /\ OpenBy(l, d)' >= OpenBy(l, d)
            /\ paidOn[p] <= d => OpenBy(l, d)' = OpenBy(l, d) + payment[p].amount
        BY <3>2, <3>4
      <4>3. CASE p \in Qualifying(n)
        <5>1. paidOn[p] <= d
          BY <3>4, <4>3 DEF Qualifying
        <5> QED BY <3>1, <3>3, <4>1, <4>2, <4>3, <5>1
      <4>4. CASE p \notin Qualifying(n)
        BY <3>1, <3>3, <4>1, <4>2, <4>4
      <4> QED BY <4>3, <4>4
    <3> QED BY <1>1, <2>2, <2>5, <3>4 DEF CanBeKept
  <2> QED BY <2>4, <2>5
<1>9. PromisesRead'
  BY ReadsUnderLoans
<1> QED BY <1>5, <1>7, <1>8, <1>9 DEF KInv

\* Only the desk of one loan moved, to a task that read what is due.
LEMMA ReadsUnderDesk ==
  ASSUME IInv, Books, HInv, KInv, UNCHANGED vars, NEW l \in Loan, NEW task, desk' = [desk EXCEPT ![l] = task],
         task.kind = "promise" =>
           /\ Disbursed(l) /\ task.earlier = PaymentsOf(payment, l)
           /\ \A d \in Day : task.date = d => task.amount <= OpenBy(l, d)
  PROVE  PromisesRead'
<1>1. UNCHANGED <<loan, payment, reversal>>
  BY DEF vars
<1>2. desk'[l] = task /\ \A m \in Loan \ {l} : desk'[m] = desk[m]
  BY DEF HInv, CollectionsTypeOK
<1>3. ASSUME NEW m \in Loan
      PROVE  /\ PaymentsOf(payment, m)' = PaymentsOf(payment, m) /\ (Disbursed(m)' <=> Disbursed(m))
             /\ \A d \in Day : OpenBy(m, d)' = OpenBy(m, d)
  BY <1>1, OpenByStays DEF PaymentsOf, Disbursed
<1>4. ASSUME NEW m \in Loan, desk'[m].kind = "promise"
      PROVE  /\ Disbursed(m) /\ desk'[m].earlier = PaymentsOf(payment, m)
             /\ \A d \in Day : desk'[m].date = d => desk'[m].amount <= OpenBy(m, d)
  <2>1. CASE m = l
    BY <1>2, <1>4, <2>1
  <2>2. CASE m # l
    BY <1>2, <1>4, <2>2 DEF KInv, PromisesRead
  <2> QED BY <2>1, <2>2
<1> QED BY <1>3, <1>4 DEF PromisesRead

LEMMA KeepableUnderDesk ==
  ASSUME IInv, Books, HInv, KInv, UNCHANGED <<vars, promise, paidOn>>, NEW l \in Loan, NEW task,
         desk' = [desk EXCEPT ![l] = task],
         task.kind = "promise" =>
           /\ Disbursed(l) /\ task.earlier = PaymentsOf(payment, l)
           /\ \A d \in Day : task.date = d => task.amount <= OpenBy(l, d)
  PROVE  KInv'
<1>1. PromisesRead'
  BY ReadsUnderDesk
<1>2. UNCHANGED <<payment, reversal, paidOn, promise>> /\ today' = today /\ today \in Day /\ today \in Nat
  BY LoanBounds DEF vars, Books, MoneyTypes, Day
<1> QED BY <1>1, <1>2, KeepableStill

LEMMA KeepableByDesk ==
  ASSUME IInv, Books, HInv, KInv, NEW l \in Loan,
         \/ \E u \in Agent : LockToAssign(l, u)
         \/ LockToEnd(l) \/ LockToRecord(l) \/ GiveUp(l) \/ CommitEnd(l)
         \/ \E a \in Assignment : CommitAssign(l, a)
         \/ \E v \in Activity : CommitRecord(l, v)
  PROVE  KInv'
<1>1. UNCHANGED <<vars, promise, paidOn>>
  BY DEF LockToAssign, LockToEnd, LockToRecord, Begin, GiveUp, CommitEnd, CommitAssign, CommitRecord
<1>2. \E task : desk' = [desk EXCEPT ![l] = task] /\ task.kind # "promise"
  <2>1. NoTask.kind # "promise"
    BY NoTaskType
  <2>2. ASSUME NEW u \in Agent, LockToAssign(l, u)
        PROVE  \E task : desk' = [desk EXCEPT ![l] = task] /\ task.kind # "promise"
    <3>1. [NoTask EXCEPT !.kind = "assign", !.open = Open(l), !.to = u].kind # "promise"
      BY DEF NoTask
    <3> QED BY <2>2, <3>1 DEF LockToAssign, Begin
  <2>3. ASSUME LockToEnd(l)
        PROVE  \E task : desk' = [desk EXCEPT ![l] = task] /\ task.kind # "promise"
    <3>1. [NoTask EXCEPT !.kind = "end", !.open = Open(l)].kind # "promise"
      BY DEF NoTask
    <3> QED BY <2>3, <3>1 DEF LockToEnd, Begin
  <2>4. ASSUME LockToRecord(l)
        PROVE  \E task : desk' = [desk EXCEPT ![l] = task] /\ task.kind # "promise"
    <3>1. [NoTask EXCEPT !.kind = "record", !.open = Open(l)].kind # "promise"
      BY DEF NoTask
    <3> QED BY <2>4, <3>1 DEF LockToRecord, Begin
  <2>5. Done(l) => desk' = [desk EXCEPT ![l] = NoTask]
    BY DEF Done
  <2> QED BY <2>1, <2>2, <2>3, <2>4, <2>5 DEF GiveUp, CommitEnd, CommitAssign, CommitRecord
<1> QED BY <1>1, <1>2, KeepableUnderDesk

LEMMA KeepableByLockToCancel ==
  ASSUME IInv, Books, HInv, KInv, NEW n \in Promise, LockToCancel(n)
  PROVE  KInv'
<1> DEFINE task == [NoTask EXCEPT !.kind = "cancel", !.old = n]
<1>1. UNCHANGED <<vars, promise, paidOn>> /\ desk' = [desk EXCEPT ![promise[n].loan] = task]
  BY DEF LockToCancel, Begin
<1>2. promise[n].loan \in Loan /\ task.kind # "promise"
  BY DEF LockToCancel, HInv, CollectionsTypeOK, PromiseRow, NoTask
<1> HIDE DEF task
<1> QED BY <1>1, <1>2, KeepableUnderDesk

\* The terms of a promise are checked against what is due by its date, under the lock of its loan.
LEMMA KeepableByLockToPromise ==
  ASSUME IInv, Books, HInv, KInv, NEW l \in Loan, NEW replaces \in BOOLEAN, NEW amount \in 1 .. Contract,
         NEW date \in Day, LockToPromise(l, replaces, amount, date)
  PROVE  KInv'
<1> DEFINE old == IF replaces THEN Current(l) ELSE None
           earlier == {p \in Payment : payment[p].loan = l}
           task == [NoTask EXCEPT !.kind = "promise", !.old = old, !.amount = amount, !.date = date,
                                  !.open = Open(l), !.earlier = earlier]
<1>1. /\ UNCHANGED <<vars, promise, paidOn>> /\ desk' = [desk EXCEPT ![l] = task]
      /\ Disbursed(l) /\ amount <= DueBy(l, date)
  BY DEF LockToPromise, Promisable, ValidTerms, Begin
<1>2. earlier = PaymentsOf(payment, l)
  BY DEF PaymentsOf
<1>3. DueBy(l, date) = OpenBy(l, date)
  <2>1. loan[l].since \in Nat
    BY LoanBounds DEF Books, MoneyTypes, LoanRow, Day
  <2> QED BY <2>1, DueIsASum
<1> HIDE DEF old, earlier
<1>4. task.earlier = earlier /\ task.date = date /\ task.amount = amount
  BY DEF NoTask
<1> HIDE DEF task
<1> QED BY <1>1, <1>2, <1>3, <1>4, KeepableUnderDesk

-----------------------------------------------------------------------------
\* The rows of promises moved and nothing else.
LEMMA KeepableUnderPromises ==
  ASSUME IInv, Books, HInv, KInv, UNCHANGED <<vars, paidOn>>, NEW l \in Loan, Done(l), PromisedOfLoans',
         \A n \in Promise :
           \/ promise'[n] = promise[n]
           \/ promise'[n].closed # "no"
           \/ CanBeKept(n)'
  PROVE  KInv'
<1>1. UNCHANGED <<today, loan, payment, reversal, paidOn>>
  BY DEF vars
<1>2. PromisesRead'
  BY NoTaskType, ReadsUnderDesk DEF Done
<1>3. PaidWhenDue'
  BY <1>1 DEF KInv, PaidWhenDue, RunSlots, DueUpTo, DueDate
<1>4. Keepable'
  <2> SUFFICES ASSUME NEW n \in Promise, promise'[n].loan # None, promise'[n].closed = "no",
                      today <= promise'[n].date
               PROVE  CanBeKept(n)'
    BY <1>1 DEF Keepable
  <2>1. ASSUME promise'[n] = promise[n] PROVE CanBeKept(n)'
    <3>1. CanBeKept(n) /\ promise[n].loan \in Loan
      BY <2>1 DEF KInv, Keepable, HInv, CollectionsTypeOK, PromiseRow
    <3> QED BY <1>1, <2>1, <3>1, PromiseStays
  <2> QED BY <2>1
<1> QED BY <1>2, <1>3, <1>4 DEF KInv

LEMMA KeepableByCommitCancel ==
  ASSUME IInv, Books, HInv, KInv, NEW l \in Loan, CommitCancel(l)
  PROVE  KInv'
<1> DEFINE n == desk[l].old
           row == [promise[n] EXCEPT !.closed = "cancelled"]
<1>1. UNCHANGED <<vars, paidOn>> /\ Done(l) /\ desk[l].kind = "cancel" /\ promise' = [promise EXCEPT ![n] = row]
  BY DEF CommitCancel
<1>2. n \in Promise /\ promise \in [Promise -> PromiseRow]
  BY <1>1 DEF HInv, DesksHold, TaskHolds, CollectionsTypeOK
<1> HIDE DEF n
<1>3. row.closed = "cancelled" /\ row.loan = promise[n].loan /\ row.earlier = promise[n].earlier
  BY <1>2 DEF PromiseRow
<1> HIDE DEF row
<1>4. promise'[n] = row /\ \A m \in Promise \ {n} : promise'[m] = promise[m]
  BY <1>1, <1>2
<1>5. PromisedOfLoans'
  <2>1. \A m \in Promise : promise'[m].loan = promise[m].loan /\ promise'[m].earlier = promise[m].earlier
    BY <1>3, <1>4
  <2>2. UNCHANGED <<loan, payment>>
    BY <1>1 DEF vars
  <2> QED BY <2>1, <2>2 DEF KInv, PromisedOfLoans, Disbursed
<1>6. \A m \in Promise : promise'[m] = promise[m] \/ promise'[m].closed # "no"
  BY <1>3, <1>4
<1> QED BY <1>1, <1>5, <1>6, KeepableUnderPromises

\* A promise just made has received nothing yet, and promised no more than what is due by its date.
LEMMA KeepableByCommitPromise ==
  ASSUME IInv, Books, HInv, KInv, NEW l \in Loan, NEW n \in Promise, CommitPromise(l, n)
  PROVE  KInv'
<1> DEFINE task == desk[l]
           old == task.old
           rows == Superseded(promise, old)
           row == NewPromise(l, task)
<1>1. /\ task.kind = "promise" /\ promise[n] = NoPromise /\ promise' = [rows EXCEPT ![n] = row]
      /\ Done(l) /\ UNCHANGED <<vars, paidOn>>
  BY DEF CommitPromise
<1>2. /\ Disbursed(l) /\ task.earlier = PaymentsOf(payment, l)
      /\ \A d \in Day : task.date = d => task.amount <= OpenBy(l, d)
  BY <1>1 DEF KInv, PromisesRead
<1>3. row.loan = l /\ row.amount = task.amount /\ row.date = task.date /\ row.earlier = task.earlier
  BY DEF NewPromise, NoPromise
<1>4. task.date \in Day /\ task.amount \in Nat /\ promise \in [Promise -> PromiseRow]
  BY DEF HInv, CollectionsTypeOK, Task
<1>5. Replaced(l, n, old, task.open)
  BY PromisesUnderCommit
<1>6. /\ old # None => old \in Promise /\ old # n /\ promise'[old].closed = "superseded"
      /\ \A m \in Promise : m # n /\ m # old => promise'[m] = promise[m]
  BY <1>5 DEF Replaced
<1>7. promise'[n] = row
  <2>1. n \in DOMAIN rows
    BY <1>4 DEF Superseded
  <2> HIDE DEF rows, row
  <2> QED BY <1>1, <2>1
<1>8. old # None => promise'[old].earlier = promise[old].earlier /\ promise'[old].loan = promise[old].loan
  <2> SUFFICES ASSUME old # None
               PROVE  promise'[old].earlier = promise[old].earlier /\ promise'[old].loan = promise[old].loan
    OBVIOUS
  <2>1. rows = [promise EXCEPT ![old].closed = "superseded"] /\ old \in Promise /\ old # n
    BY <1>6 DEF Superseded
  <2> HIDE DEF rows, row, old
  <2>2. promise'[old] = [promise[old] EXCEPT !.closed = "superseded"]
    BY <1>1, <1>4, <2>1
  <2> QED BY <1>4, <2>1, <2>2 DEF PromiseRow
<1>9. UNCHANGED <<loan, payment, reversal>>
  BY <1>1 DEF vars
<1> HIDE DEF task, old, rows, row
<1>10. PromisedOfLoans'
  <2>1. ASSUME NEW m \in Promise, promise'[m].loan # None
        PROVE  Disbursed(promise'[m].loan) /\ \A p \in promise'[m].earlier : payment[p].loan # None
    <3>1. CASE m = n
      <4>1. \A p \in PaymentsOf(payment, l) : payment[p].loan # None
        BY LoanNone DEF PaymentsOf
      <4> QED BY <1>2, <1>3, <1>7, <3>1, <4>1
    <3>2. CASE m # n
      <4>1. promise'[m].earlier = promise[m].earlier /\ promise'[m].loan = promise[m].loan
        BY <1>6, <1>8, <3>2, CollectionsNone
      <4> QED BY <2>1, <4>1 DEF KInv, PromisedOfLoans
    <3> QED BY <3>1, <3>2
  <2> QED BY <1>9, <2>1 DEF PromisedOfLoans, Disbursed
<1>11. CanBeKept(n)'
  <2>1. Qualifying(n)' = {}
    BY <1>2, <1>3, <1>7, <1>9 DEF Qualifying, PaymentsOf
  <2>2. QualifyingPaid(n)' = 0
    <3>1. QualifyingPaid(n)' = MapThenSumSet(LAMBDA p : payment[p].amount, {})
      BY <1>9, <2>1 DEF QualifyingPaid, MapThenSumSet, MapThenFoldSet
    <3>2. PICK none : none = {}
      OBVIOUS
    <3>3. IsFiniteSet(none) /\ \A p \in none : Amount[p] = payment[p].amount
      BY <3>2, FS_EmptySet
    <3>4. MapThenSumSet(LAMBDA p : payment[p].amount, none) = SumOver(Amount, none)
      BY <3>3, AmountsAreSums
    <3>5. QualifyingPaid(n)' = MapThenSumSet(LAMBDA p : payment[p].amount, none)
      BY <3>1, <3>2
    <3> QED BY <3>2, <3>4, <3>5, SumOfNone
  <2>3. \A d \in Day : OpenBy(l, d)' = OpenBy(l, d)
    BY <1>9, OpenByStays
  <2>4. ASSUME NEW k \in Loan, NEW d \in Day, promise'[n].loan = k, promise'[n].date = d
        PROVE  promise'[n].amount - QualifyingPaid(n)' <= OpenBy(k, d)'
    <3>1. k = l /\ task.date = d /\ promise'[n].amount = task.amount
      BY <1>3, <1>7, <2>4
    <3>2. task.amount - 0 = task.amount
      BY <1>4
    <3> QED BY <1>2, <2>2, <2>3, <3>1, <3>2
  <2> QED BY <2>4 DEF CanBeKept
<1>12. \A m \in Promise : promise'[m] = promise[m] \/ promise'[m].closed # "no" \/ CanBeKept(m)'
  BY <1>6, <1>11, CollectionsNone
<1> QED BY <1>1, <1>10, <1>12, KeepableUnderPromises

-----------------------------------------------------------------------------
LEMMA KeepablePreserved ==
  ASSUME IInv, Books, LInv, HInv, KInv, [CollectionsNext]_allVars
  PROVE  KInv'
<1>1. [Next]_vars /\ Books'
  BY IsAStepOfLoans, LoansPreserved
<1>2. today \in Day /\ today' \in Day /\ today \in Nat
  BY <1>1, LoanBounds DEF Books, MoneyTypes, Day
<1>3. CASE UNCHANGED allVars
  <2>1. UNCHANGED <<today, loan, payment, reversal, paidOn, promise, desk>>
    BY <1>3 DEF allVars, deskVars, vars
  <2>2. \A m \in Loan : PaymentsOf(payment, m)' = PaymentsOf(payment, m)
                        /\ \A d \in Day : OpenBy(m, d)' = OpenBy(m, d)
    BY <2>1, OpenByStays DEF PaymentsOf
  <2>3. PromisesRead'
    BY <2>1, <2>2 DEF KInv, PromisesRead, Disbursed
  <2> QED BY <1>1, <1>2, <2>1, <2>3, KeepableStill
<1>4. ASSUME Lend, ~ \E l \in Loan : CommitReversal(l) PROVE KInv'
  <2>1. UNCHANGED <<payment, reversal, paidOn, promise>> /\ today' >= today
    <3>1. UNCHANGED <<paidOn, promise>>
      BY <1>4 DEF Lend, deskVars
    <3>2. UNCHANGED <<payment, reversal>> /\ (today' = today \/ today' = today + 1)
      BY <1>4 DEF Lend, Disburse, LockToPay, Assess, Abort, LockToReverse, NextDay, OpenDrawer, CloseDrawer
    <3> QED BY <1>2, <3>1, <3>2
  <2>2. PromisesRead'
    BY <1>4, ReadsUnderLoans
  <2> QED BY <1>1, <1>2, <2>1, <2>2, KeepableStill
<1>5. CASE Lend
  BY <1>4, <1>5, KeepableByReversal
<1>6. CASE Promising
  BY <1>6, KeepableByLockToPromise, KeepableByLockToCancel, KeepableByCommitPromise,
     KeepableByCommitCancel, KeepableByDesk, KeepableByPay
     DEF Promising
<1>7. CASE Assigning
  BY <1>7, KeepableByDesk DEF Assigning
<1> QED BY <1>3, <1>5, <1>6, <1>7 DEF CollectionsNext

\* Beside the ledger and the history: every payment was applied to instalments due by its date, and what
\* a promise still needs is due by its own, as its command found it under the lock of the loan.
THEOREM PromisesInductive == CollectionsSpec => [](IInv /\ Books /\ LInv /\ HInv /\ KInv)
<1>1. CollectionsInit => LInv /\ KInv
  BY LedgerInitially, KeepableInitially DEF CollectionsInit
<1>2. IInv /\ Books /\ LInv /\ HInv /\ KInv /\ [CollectionsNext]_allVars => LInv' /\ KInv'
  BY IsAStepOfLoans, LedgerPreserved, KeepablePreserved
<1> QED BY <1>1, <1>2, HistoryInductive, PTL DEF CollectionsSpec

\* However payments and reversals fall around it, what is missing from a promise that is not broken can
\* still be paid by its date.
THEOREM PromisesAreKeepable == CollectionsSpec => []PromiseCanBeKept
<1>1. Books /\ HInv /\ KInv => PromiseCanBeKept
  BY KeepableIsEnough
<1> QED BY <1>1, PromisesInductive, PTL
=============================================================================
