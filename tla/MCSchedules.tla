---------------------------- MODULE MCSchedules ----------------------------
(* Products that differ from one in how they split, round, adjust or charge, and drafts that fail. *)
EXTENDS Schedules

\* January of a leap year begins on a Monday.
MCMonthLength == <<31, 29, 31, 30, 31, 30>>

\* A schedule is checked and not built upon.
Bounds == quote = NoSchedule /\ loan = NoSchedule

Base ==
  [method |-> "flat", rate |-> [type |-> "per_period", percent |-> 10], basis |-> None, cost |-> None,
   frequency |-> "monthly", limits |-> <<1, 100>>, term |-> <<2, 4>>, first |-> 1, mode |-> "half_up",
   nonWorking |-> {5, 6}, holidays |-> {}, adjustment |-> "next", moraBasis |-> "effective",
   accrual |-> "contractual", graceDays |-> 0, grace |-> 0,
   late |-> [enabled |-> TRUE, onLate |-> FALSE, set |-> LateTerms],
   order |-> <<"fees", "delinquency", "interest", "principal">>,
   prepayment |-> [allowed |-> TRUE, partial |-> FALSE, effect |-> None, interest |-> "keep_scheduled",
                   fee |-> None],
   payoff |-> PayoffTerms, restructure |-> [allowed |-> TRUE, audited |-> TRUE],
   refinance |-> [allowed |-> FALSE, audited |-> None, newContract |-> None, treatment |-> None],
   fees |-> <<>>]

With(method, type, percent, basis) ==
  [Base EXCEPT !.method = method, !.rate = [type |-> type, percent |-> percent], !.basis = basis]
Methods ==
  {With("reducing_balance", "per_period", 50, None), With("reducing_balance", "annual", 120, "periodic"),
   With("reducing_balance", "annual", 360, "actual_360"),
   [With("reducing_balance", "per_period", 10, None) EXCEPT !.grace = 1],
   With("interest_only", "annual", 40, "periodic"), With("bullet", "annual", 365, "actual_365"),
   With("bullet", "annual", 40, "periodic"), With("flat", "total_over_term", 7, None),
   With("flat", "annual", 40, "periodic"),
   [Base EXCEPT !.method = "fixed_total_cost", !.rate = None, !.cost = [type |-> "percent_of_principal", value |-> 3]],
   [Base EXCEPT !.method = "fixed_total_cost", !.rate = None, !.cost = [type |-> "fixed_amount", value |-> 5]]}

Fee(code, kind, value, base, timing, settlement) ==
  [code |-> code, kind |-> kind, value |-> value, base |-> base, timing |-> timing, settlement |-> settlement]
Fixed == Fee(1, "fixed", 2, None, "per_installment", None)
OfInstallment == Fee(2, "percent", 5, "installment", "per_installment", None)
AtPrepayment == Fee(3, "percent", 5, "prepaid", "at_prepayment", None)
Charged ==
  {<<Fixed, OfInstallment>>, <<OfInstallment, Fixed>>,
   <<Fee(1, "percent", 5, "opening", "per_installment", None), AtPrepayment>>,
   <<Fee(1, "percent", 1, "principal", "at_origination", "deducted")>>}
BadFees ==
  {<<Fee(1, "percent", 1, "opening", "at_origination", "deducted")>>, <<Fixed, Fixed>>,
   <<Fee(1, "fixed", 1, None, "at_origination", None)>>,
   <<Fee(1, "percent", 1, "principal", "at_payoff", None)>>}

\* Sections that contradict themselves or the method, beside the last two, which do not.
Disabled == [enabled |-> FALSE, onLate |-> None, set |-> {}]
Partial(effect, fee) ==
  [allowed |-> TRUE, partial |-> TRUE, effect |-> effect, interest |-> "recalculate", fee |-> fee]
Sections ==
  {[Base EXCEPT !.late.onLate = TRUE], [Base EXCEPT !.late.set = {"fee"}],
   [Base EXCEPT !.late = [Disabled EXCEPT !.set = {"cap"}]], [Base EXCEPT !.limits = <<0, 100>>],
   [Base EXCEPT !.order = <<"fees", "interest", "interest", "principal">>], [Base EXCEPT !.payoff = {}],
   [Base EXCEPT !.prepayment = Partial("reduce_outstanding_principal", None)],
   [Base EXCEPT !.prepayment = Partial("reduce_term", 3)], [Base EXCEPT !.prepayment.allowed = FALSE],
   [Base EXCEPT !.restructure.audited = None], [Base EXCEPT !.refinance.allowed = TRUE],
   [Base EXCEPT !.late = Disabled],
   [Base EXCEPT !.prepayment = Partial("reduce_term", 3), !.fees = <<AtPrepayment>>]}

Modes == {"half_up", "half_even", "down", "up"}
MCDraft ==
  {[m EXCEPT !.mode = mode] : m \in Methods, mode \in Modes}
  \cup {[m EXCEPT !.fees = fees] : m \in Methods, fees \in Charged \cup BadFees}
  \cup {[Base EXCEPT !.frequency = f, !.adjustment = a, !.moraBasis = b, !.holidays = h, !.first = first] :
          f \in {"daily", "weekly", "biweekly", "monthly"}, a \in {"keep", "next", "previous"},
          b \in {"effective", "contractual"}, h \in {{}, {31, 32}, 28 .. 36}, first \in {1, 2}}
  \cup {[With(m, "annual", 360, "actual_360") EXCEPT !.accrual = "effective", !.adjustment = a] :
          m \in {"reducing_balance", "interest_only", "bullet"}, a \in {"next", "previous"}}
  \cup {[Base EXCEPT !.method = None], [Base EXCEPT !.mode = None], [Base EXCEPT !.rate = None],
        [Base EXCEPT !.basis = "periodic"], [Base EXCEPT !.grace = 1], [Base EXCEPT !.nonWorking = 0 .. 6],
        [Base EXCEPT !.term = <<3, 2>>], [With("bullet", "per_period", 5, None) EXCEPT !.first = 2],
        [With("flat", "annual", 40, "periodic") EXCEPT !.frequency = "daily"],
        With("bullet", "total_over_term", 5, None), [Base EXCEPT !.limits = <<2, 100>>]}
  \cup Sections
=============================================================================
