\* One collector, one loan and one session; four documents, which is a payment, its delivery, the
\* reversal of that and a second delivery; three movements, which is one and two attempts to reverse it.
CONSTANTS
  ana = ana
  Collector = {c1}
  Cashier = {ana}
  SessionId = {s1}
  Loan = {l1}
  cashierOf <- MCCashierOf
  None = None
  Lent = 2
  Funds = {0, 1}
  Moves = {"elsewhere"}
  Sums = {1}
  MaxMovements = 3
  MaxDocuments = 4
SPECIFICATION Spec
INVARIANTS
  BookedOnce
  HandedInExactly
  DeclaredIsHeld
CHECK_DEADLOCK FALSE
