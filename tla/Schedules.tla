----------------------------- MODULE Schedules -----------------------------
(***************************************************************************)
(* The rules of a credit product, their validation and the engine that     *)
(* turns a principal, a term and a start into a schedule                    *)
(* (app/modules/credit), from the draft to the obligations of the loan.    *)
(*                                                                         *)
(* Amounts are whole minor units: the scale of valid rules is the exponent *)
(* of the currency.  Days are numbered from a Monday.  A rate is a ratio;  *)
(* where the 40 digits of the engine's context cannot hold it, the value   *)
(* errs to one side or the other, which decides a rounding at its edge.    *)
(***************************************************************************)
EXTENDS Integers, FiniteSets, FiniteSetsExt, SequencesExt

CONSTANTS
  Draft,         \* the rules a draft may hold
  Principal,     \* amounts asked for
  Term, Start,   \* terms asked for and days of disbursement
  MonthLength,   \* of the months from the first day on
  SearchLimit,   \* days scanned for a business day
  None

\* The sections of the rules; None stands for what a draft leaves open.
NoneOr(S) == S \cup {None}
Components == {"fees", "delinquency", "interest", "principal"}
LateTerms == {"fee", "base", "frequency", "cap"}
PayoffTerms == {"interest_basis", "include_fees", "include_delinquency", "discount_allowed"}
FeeRow ==
  [code : Nat, kind : {"fixed", "percent"}, value : Nat,
   base : NoneOr({"principal", "installment", "opening", "prepaid", "payoff"}),
   timing : {"at_origination", "per_installment", "at_prepayment", "at_payoff"},
   settlement : NoneOr({"deducted", "separate"})]
PrepaymentRow ==
  [allowed : BOOLEAN, partial : NoneOr(BOOLEAN),
   effect : NoneOr({"reduce_installment", "reduce_term", "reduce_outstanding_principal"}),
   interest : NoneOr({"recalculate", "keep_scheduled", "waive_unaccrued"}), fee : NoneOr(Nat)]
RulesRow ==
  [method : NoneOr({"reducing_balance", "flat", "interest_only", "bullet", "fixed_total_cost"}),
   rate : NoneOr([type : {"per_period", "annual", "total_over_term"}, percent : Nat]),
   basis : NoneOr({"periodic", "actual_360", "actual_365"}),
   cost : NoneOr([type : {"percent_of_principal", "fixed_amount"}, value : Nat]),
   frequency : {"daily", "weekly", "biweekly", "monthly"},
   limits : Seq(Nat), term : Seq(Nat), first : Nat,
   mode : NoneOr({"half_up", "half_even", "down", "up"}),
   nonWorking : SUBSET (0 .. 6), holidays : SUBSET Nat, adjustment : {"keep", "next", "previous"},
   moraBasis : {"effective", "contractual"}, accrual : {"effective", "contractual"},
   graceDays : Nat, grace : Nat,
   late : [enabled : BOOLEAN, onLate : NoneOr(BOOLEAN), set : SUBSET LateTerms],
   order : Seq(Components), prepayment : PrepaymentRow, payoff : SUBSET PayoffTerms,
   restructure : [allowed : BOOLEAN, audited : NoneOr(BOOLEAN)],
   refinance : [allowed : BOOLEAN, audited : NoneOr(BOOLEAN),
                newContract : NoneOr(BOOLEAN), treatment : NoneOr({"settle", "reclassify"})],
   fees : Seq(FeeRow)]
ASSUME DraftsAreRules == Draft \subseteq RulesRow

VARIABLES
  rules,       \* of the version
  stage,       \* of the version and of the one contract made of it
  terms,       \* of the contract
  quote,       \* the last schedule that was simulated, with what it was asked for
  loan         \* the obligations of the disbursed contract, likewise

vars == <<rules, stage, terms, quote, loan>>

NoAsk == [principal |-> 0, n |-> 0, start |-> 0]
NoSchedule == [ask |-> NoAsk, rows |-> <<>>]

Init ==
  /\ rules \in Draft
  /\ stage = "draft"
  /\ terms = NoAsk
  /\ quote = NoSchedule /\ loan = NoSchedule

-----------------------------------------------------------------------------
(* Validation before publication.                                          *)

Complete(r) == r.method # None /\ r.mode # None

CurrencyIsConsistent(r) == 0 < r.limits[1] /\ r.limits[1] <= r.limits[2]

MethodIsConsistent(r) ==
  \/ /\ r.method = "fixed_total_cost"
     /\ r.rate = None /\ r.basis = None /\ r.cost # None
  \/ /\ r.method # "fixed_total_cost"
     /\ r.cost = None /\ r.rate # None
     /\ r.rate.type = "total_over_term" => r.method = "flat"
     /\ r.rate.type # "annual" => r.basis = None
     /\ r.rate.type = "annual" =>
          /\ r.basis # None
          /\ r.basis # "periodic" => r.method # "flat"
          /\ r.basis = "periodic" => r.frequency # "daily"

TermIsConsistent(r) == r.term[1] <= r.term[2] /\ (r.method = "bullet" => r.first = 1)

MutantCalendarIsConsistent(r) == Cardinality(r.nonWorking) < 7
CalendarIsConsistent(r) ==
  /\ Cardinality(r.nonWorking) < 7
  /\ ~(r.moraBasis = "contractual" /\ r.adjustment = "next")

GraceIsConsistent(r) == r.grace > 0 => r.method = "reducing_balance" /\ r.grace < r.term[1]

\* Mora over mora was never approved.
DelinquencyIsConsistent(late) ==
  IF late.enabled THEN late.onLate = FALSE /\ late.set = LateTerms
  ELSE late.onLate = None /\ late.set = {}

AllocationIsConsistent(order) == Len(order) = Cardinality(Components) /\ Range(order) = Components

FeeIsConsistent(fee) ==
  /\ fee.kind = "percent" => fee.base # None
  /\ fee.base # None =>
       fee.base \in CASE fee.timing = "at_origination" -> {"principal"}
                      [] fee.timing = "per_installment" -> {"installment", "opening"}
                      [] fee.timing = "at_prepayment" -> {"prepaid"}
                      [] fee.timing = "at_payoff" -> {"payoff"}
  /\ (fee.timing = "at_origination") <=> (fee.settlement # None)

FeesAreConsistent(fees) ==
  /\ \A i, j \in DOMAIN fees : fees[i].code = fees[j].code => i = j
  /\ \A fee \in Range(fees) : FeeIsConsistent(fee)

PrepaymentIsConsistent(r) ==
  LET p == r.prepayment
  IN IF p.allowed
     THEN /\ p.partial # None /\ p.interest # None
          /\ p.partial = TRUE <=> p.effect # None
          /\ r.method = "fixed_total_cost" => p.partial # TRUE /\ p.interest # "recalculate"
          /\ p.effect \in {"reduce_installment", "reduce_term"} => r.method \in {"reducing_balance", "flat"}
          /\ p.effect = "reduce_outstanding_principal" => r.method \in {"interest_only", "bullet"}
          /\ p.fee # None => \E fee \in Range(r.fees) : fee.code = p.fee /\ fee.timing = "at_prepayment"
     ELSE \A f \in {"partial", "effect", "interest", "fee"} : p[f] = None

RestructureIsConsistent(s) == s.audited = IF s.allowed THEN TRUE ELSE None

RefinanceIsConsistent(s) ==
  IF s.allowed THEN s.audited = TRUE /\ s.newContract # None /\ s.treatment # None
  ELSE \A f \in {"audited", "newContract", "treatment"} : s[f] = None

Valid(r) ==
  /\ Complete(r)
  /\ CurrencyIsConsistent(r)
  /\ MethodIsConsistent(r)
  /\ TermIsConsistent(r)
  /\ CalendarIsConsistent(r)
  /\ GraceIsConsistent(r)
  /\ DelinquencyIsConsistent(r.late)
  /\ AllocationIsConsistent(r.order)
  /\ FeesAreConsistent(r.fees)
  /\ PrepaymentIsConsistent(r)
  /\ r.payoff = PayoffTerms
  /\ RestructureIsConsistent(r.restructure)
  /\ RefinanceIsConsistent(r.refinance)

\* The canonical form that is hashed: the days are sets already, the fees are sorted by their code.
Hash(r) == [r EXCEPT !.fees = SetToSortSeq(Range(r.fees), LAMBDA x, y : x.code < y.code)]

-----------------------------------------------------------------------------
(* Decimals: a ratio, and the side to which its value errs.                *)

RECURSIVE Gcd(_, _)
Gcd(a, b) == IF b = 0 THEN a ELSE Gcd(b, a % b)
Ratio(a, b) == LET g == Gcd(Max({a, -a}), b) IN IF a = 0 THEN <<0, 1>> ELSE <<a \div g, b \div g>>
Plus(x, y) == LET g == Gcd(x[2], y[2]) IN Ratio(x[1] * (y[2] \div g) + y[1] * (x[2] \div g), x[2] * (y[2] \div g))
Times(x, y) ==
  LET a == Ratio(x[1], y[2])  b == Ratio(y[1], x[2]) IN <<a[1] * b[1], a[2] * b[2]>>
Over(x, y) == Times(x, <<y[2], y[1]>>)

\* The 40 digits hold a ratio when its denominator has no other factor than 2 and 5.
IsHeld(x) == 100000000 % x[2] = 0

Money(x, error, mode) ==
  LET sign == IF x[1] < 0 THEN -1 ELSE 1
      q == (sign * x[1]) \div x[2]
      twice == 2 * ((sign * x[1]) % x[2])
      e == sign * error
  IN sign *
     CASE mode = "down" -> IF twice = 0 /\ e < 0 THEN q - 1 ELSE q
       [] mode = "up" -> IF twice = 0 /\ e <= 0 THEN q ELSE q + 1
       [] mode = "half_up" -> IF twice > x[2] \/ (twice = x[2] /\ e >= 0) THEN q + 1 ELSE q
       [] mode = "half_even" ->
            IF twice > x[2] \/ (twice = x[2] /\ (e > 0 \/ (e = 0 /\ q % 2 = 1))) THEN q + 1 ELSE q

-----------------------------------------------------------------------------
(* The calendar.                                                           *)

MonthStart(m) == SumFunction(SubSeq(MonthLength, 1, m - 1))
MonthOf(day) ==
  CHOOSE m \in DOMAIN MonthLength : MonthStart(m) <= day /\ day < MonthStart(m) + MonthLength[m]

AddPeriods(start, frequency, steps) ==
  LET m == MonthOf(start)
      anchored == Min({start - MonthStart(m), MonthLength[m + steps] - 1})
  IN CASE frequency = "daily" -> start + steps
       [] frequency = "weekly" -> start + 7 * steps
       [] frequency = "biweekly" -> start + 14 * steps
       [] frequency = "monthly" -> MonthStart(m + steps) + anchored

IsBusinessDay(r, day) == day % 7 \notin r.nonWorking /\ day \notin r.holidays

\* None where the calendar has no usable day.
EffectiveDue(r, day) ==
  LET step == IF r.adjustment = "next" THEN 1 ELSE -1
      usable == {i \in 1 .. SearchLimit - 1 : IsBusinessDay(r, day + step * i)}
  IN IF r.adjustment = "keep" \/ IsBusinessDay(r, day) THEN day
     ELSE IF usable = {} THEN None ELSE day + step * Min(usable)

Contractual(r, n, start) ==
  IF r.method = "bullet" THEN <<AddPeriods(start, r.frequency, n)>>
  ELSE [k \in 1 .. n |-> AddPeriods(start, r.frequency, r.first + k - 1)]

Effective(r, days) == [k \in DOMAIN days |-> EffectiveDue(r, days[k])]

DatesHold(start, due) ==
  /\ \A k \in DOMAIN due : due[k] # None
  /\ due[1] > start
  /\ \A k \in 2 .. Len(due) : due[k - 1] < due[k]

-----------------------------------------------------------------------------
(* Interest.                                                               *)

PeriodsPerYear(frequency) ==
  CASE frequency = "weekly" -> 52 [] frequency = "biweekly" -> 26 [] frequency = "monthly" -> 12

PerPeriod(r) ==
  IF r.rate.type = "annual" THEN Ratio(r.rate.percent, 100 * PeriodsPerYear(r.frequency))
  ELSE Ratio(r.rate.percent, 100)

Rates(r, start, contractual, due) ==
  LET days == IF r.accrual = "effective" THEN due ELSE contractual
      year == IF r.basis = "actual_360" THEN 360 ELSE 365
      From(k) == IF k = 1 THEN start ELSE days[k - 1]
  IN [k \in DOMAIN days |->
       IF r.basis \in {"actual_360", "actual_365"}
       THEN Ratio(r.rate.percent * (days[k] - From(k)), 100 * year)
       ELSE IF k = 1 THEN Times(PerPeriod(r), <<r.first, 1>>) ELSE PerPeriod(r)]

\* The sides to which a product with one of these rates, or with their sum, may err.
Errs(rate) == IF IsHeld(rate) THEN {0} ELSE {-1, 0, 1}
ErrsOfEach(rates) == {err \in [DOMAIN rates -> {-1, 0, 1}] : \A k \in DOMAIN rates : err[k] \in Errs(rates[k])}
ErrsOfSum(rates) == UNION {Errs(rates[k]) : k \in DOMAIN rates}

Part(principal, interest) == [principal |-> principal, interest |-> interest]

EvenSplit(principal, interest, n, mode) ==
  LET p == Money(Ratio(principal, n), 0, mode)
      i == Money(Ratio(interest, n), 0, mode)
  IN [k \in 1 .. n |-> IF k < n THEN Part(p, i) ELSE Part(principal - (n - 1) * p, interest - (n - 1) * i)]

\* Principal over the sum of the discount factors of the periods after the grace.
Level(r, rates, principal, error) ==
  LET Discount(sum, rate) ==
        LET d == Over(sum.discount, Plus(<<1, 1>>, rate))
        IN [discount |-> d, total |-> Plus(sum.total, d)]
      sum == FoldLeft(Discount, [discount |-> <<1, 1>>, total |-> <<0, 1>>],
                      SubSeq(rates, r.grace + 1, Len(rates)))
  IN Money(Over(<<principal, 1>>, sum.total), error, r.mode)

MutantAmortised(level, interest, balance) == level - interest
Amortised(level, interest, balance) == Min({Max({level - interest, 0}), balance})

\* The schedules of the methods: a set, for the sides to which the values err.
ReducingBalance(r, rates, principal, n) ==
  LET Rows(level, err) ==
        LET Pay(done, k) ==
              LET interest == Money(Times(<<done.balance, 1>>, rates[k]), err[k], r.mode)
                  part == IF k <= r.grace THEN 0 ELSE IF k = n THEN done.balance
                          ELSE Amortised(level, interest, done.balance)
              IN [balance |-> done.balance - part, rows |-> Append(done.rows, Part(part, interest))]
        IN FoldLeft(Pay, [balance |-> principal, rows |-> <<>>], [k \in 1 .. n |-> k]).rows
      levels == {Level(r, rates, principal, e) : e \in {-1, 0, 1}}
  IN {Rows(level, err) : level \in levels, err \in ErrsOfEach(rates)}

InterestOnly(r, rates, principal, n) ==
  {[k \in 1 .. n |-> Part(IF k = n THEN principal ELSE 0,
                          Money(Times(<<principal, 1>>, rates[k]), err[k], r.mode))] : err \in ErrsOfEach(rates)}

\* Simple interest over the n periods of its grid.
Bullet(r, principal, n, start) ==
  LET grid == [k \in 1 .. n |-> AddPeriods(start, r.frequency, k)]
      rates == Rates(r, start, grid, Effective(r, grid))
      total == FoldLeft(Plus, <<0, 1>>, rates)
  IN {<<Part(principal, Money(Times(<<principal, 1>>, total), e, r.mode))>> : e \in ErrsOfSum(rates)}

Flat(r, principal, n) ==
  LET rate == IF r.rate.type = "total_over_term" THEN Ratio(r.rate.percent, 100)
              ELSE Times(PerPeriod(r), <<r.first + n - 1, 1>>)
      errs == IF r.rate.type = "total_over_term" THEN {0} ELSE Errs(PerPeriod(r))
  IN {EvenSplit(principal, Money(Times(<<principal, 1>>, rate), e, r.mode), n, r.mode) : e \in errs}

FixedTotalCost(r, principal, n) ==
  LET cost == IF r.cost.type = "fixed_amount" THEN r.cost.value
              ELSE Money(Ratio(principal * r.cost.value, 100), 0, r.mode)
  IN {EvenSplit(principal, cost, n, r.mode)}

Cores(r, ask, contractual, due) ==
  LET rates == Rates(r, ask.start, contractual, due)
  IN CASE r.method = "reducing_balance" -> ReducingBalance(r, rates, ask.principal, ask.n)
       [] r.method = "interest_only" -> InterestOnly(r, rates, ask.principal, ask.n)
       [] r.method = "bullet" -> Bullet(r, ask.principal, ask.n, ask.start)
       [] r.method = "flat" -> Flat(r, ask.principal, ask.n)
       [] r.method = "fixed_total_cost" -> FixedTotalCost(r, ask.principal, ask.n)

-----------------------------------------------------------------------------
(* The schedule.                                                           *)

FeeAmount(fee, base, mode) ==
  IF fee.kind = "fixed" THEN fee.value ELSE Money(Ratio(base * fee.value, 100), 0, mode)

Fees(r, part, opening) ==
  LET Charged(fee) ==
        FeeAmount(fee, IF fee.base = "installment" THEN part.principal + part.interest ELSE opening, r.mode)
  IN SumFunction([i \in DOMAIN r.fees |->
       IF r.fees[i].timing = "per_installment" THEN Charged(r.fees[i]) ELSE 0])

Rows(r, ask, contractual, due, core) ==
  LET Opening(k) == ask.principal - SumFunction([j \in 1 .. k - 1 |-> core[j].principal])
      Mora(k) == (IF r.moraBasis = "effective" THEN due[k] ELSE contractual[k]) + 1 + r.graceDays
  IN [k \in DOMAIN core |->
       [contractual |-> contractual[k], due |-> due[k],
        mora |-> IF r.late.enabled THEN Mora(k) ELSE None, opening |-> Opening(k),
        principal |-> core[k].principal, interest |-> core[k].interest,
        fees |-> Fees(r, core[k], Opening(k))]]

\* The schedules the engine may answer; none where it raises an error.
Schedule(r, ask) ==
  LET contractual == Contractual(r, ask.n, ask.start)
      due == Effective(r, contractual)
  IN IF /\ r.term[1] <= ask.n /\ ask.n <= r.term[2]
        /\ r.limits[1] <= ask.principal /\ ask.principal <= r.limits[2]
        /\ DatesHold(ask.start, due)
     THEN {Rows(r, ask, contractual, due, core) : core \in Cores(r, ask, contractual, due)}
     ELSE {}

-----------------------------------------------------------------------------
(* From the draft to the loan.                                             *)

Publish ==
  /\ stage = "draft"
  /\ Valid(rules)
  /\ stage' = "published"
  /\ UNCHANGED <<rules, terms, quote, loan>>

Simulate(ask) ==
  /\ stage = "draft" => Valid(rules)
  /\ \E rows \in Schedule(rules, ask) : quote' = [ask |-> ask, rows |-> rows]
  /\ UNCHANGED <<rules, stage, terms, loan>>

\* What an application and its formalization check of the terms.
TermsHold(principal, n) ==
  /\ rules.limits[1] <= principal /\ principal <= rules.limits[2] /\ principal > 0
  /\ rules.term[1] <= n /\ n <= rules.term[2]

Formalize(principal, n) ==
  /\ stage = "published"
  /\ TermsHold(principal, n)
  /\ stage' = "formalized"
  /\ terms' = [NoAsk EXCEPT !.principal = principal, !.n = n]
  /\ UNCHANGED <<rules, quote, loan>>

Obligations(rows) ==
  [k \in DOMAIN rows |->
    [contractual |-> rows[k].contractual, due |-> rows[k].due, mora |-> rows[k].mora,
     principal |-> rows[k].principal, interest |-> rows[k].interest, fees |-> rows[k].fees,
     total |-> rows[k].principal + rows[k].interest + rows[k].fees]]

\* The checks of credit_loan_obligations; what they refuse is answered as an earlier disbursement.
ObligationsAdmit(rows) ==
  \A k \in DOMAIN rows : rows[k].principal >= 0 /\ rows[k].interest >= 0 /\ rows[k].fees >= 0

Disburse(start) ==
  LET ask == [terms EXCEPT !.start = start]
  IN /\ stage = "formalized"
     /\ \A fee \in Range(rules.fees) : fee.timing # "at_origination"
     /\ \E rows \in Schedule(rules, ask) :
          ObligationsAdmit(rows) /\ loan' = [ask |-> ask, rows |-> Obligations(rows)]
     /\ stage' = "disbursed"
     /\ UNCHANGED <<rules, terms, quote>>

Next ==
  \/ Publish
  \/ \E p \in Principal, n \in Term, start \in Start : Simulate([principal |-> p, n |-> n, start |-> start])
  \/ \E p \in Principal, n \in Term : Formalize(p, n)
  \/ \E start \in Start : Disburse(start)

Spec == Init /\ [][Next]_vars

-----------------------------------------------------------------------------
(* Properties.                                                             *)

SumOf(rows, field) == SumFunction([k \in DOMAIN rows |-> rows[k][field]])
Splits(r) == r.method \in {"flat", "fixed_total_cost"}

\* A document that the hash cannot tell from the rules, its fees listed in another order, gives the
\* same schedule: the contract a disbursement verifies by its hash is the one that was quoted.
HashFixesTheSchedule ==
  LET hash == Hash(rules)
  IN \A other \in {r \in Draft : r # rules /\ Hash(r) = hash} :
       /\ quote # NoSchedule => quote.rows \in Schedule(other, quote.ask)
       /\ loan # NoSchedule => loan.rows \in {Obligations(rows) : rows \in Schedule(other, loan.ask)}

\* Whatever the method, the calendar and the rounding, a schedule gives the principal back exactly,
\* on days after the start and in order, and asks for no negative amount that its method does not split
\* evenly; of an even split all parts but the last are equal, and the last, which takes the residual, is
\* off by less than a unit for every part; and the hash of the rules fixes it.
ScheduleAddsUp ==
  HashFixesTheSchedule /\ \A schedule \in {quote, loan} : schedule # NoSchedule =>
    LET rows == schedule.rows
        ask == schedule.ask
    IN /\ SumOf(rows, "principal") = ask.principal
       /\ Len(rows) = IF rules.method = "bullet" THEN 1 ELSE ask.n
       /\ \A k \in DOMAIN rows : (IF k = 1 THEN ask.start ELSE rows[k - 1].due) < rows[k].due
       /\ ~Splits(rules) => ObligationsAdmit(rows)
       /\ Splits(rules) => \A f \in {"principal", "interest"} :
            LET residual == Last(rows)[f] - rows[1][f]
            IN /\ \A k \in 1 .. Len(rows) - 1 : rows[k][f] = rows[1][f]
               /\ Max({residual, -residual}) < Len(rows)

\* No instalment is delinquent before the day after it is due, for rules that validation let through.
MoraFollowsDue ==
  \A schedule \in {quote, loan} : \A k \in DOMAIN schedule.rows :
    schedule.rows[k].mora # None => schedule.rows[k].mora > schedule.rows[k].due

\* "Financial invariants: principal sums exactly, no negative components, residual only on the last
\* installment" (T-005-CREDIT-PRODUCTS.md): the residual of an even split may be negative itself.
NoNegativeComponents == ObligationsAdmit(quote.rows)
=============================================================================
