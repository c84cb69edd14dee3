\* Three loans, two payments, three days, one promise each.
CONSTANTS
  Loan = {1, 2, 3}
  zone <- MCZone
  DueOn <- MCDueOn
  Debt <- MCDebt
  Payment = {p1, p2}
  User = {"ana"}
  None = None
  Filter <- MCFilter
  Limit = 1
  MaxDay = 2
  MaxPromises = 1
CONSTRAINT Bounds
SYMMETRY Ids
SPECIFICATION Spec
INVARIANTS
  EveryLoanOnce
  RowsMatchFilter
CHECK_DEADLOCK FALSE
