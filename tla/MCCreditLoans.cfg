\* One loan of two instalments over its days, or two loans and three drawers on one of them.
CONSTANTS
  ana = ana
  beto = beto
  s1 = s1
  s2 = s2
  s3 = s3
  b1 = b1
  b2 = b2
  l1 = l1
  User = {ana, beto}
  Loan = {l1, l2}
  Payment = {p1, p2}
  Key = {k1, k2}
  Reference = {r1}
  SessionId = {s1, s2, s3}
  cashierOf <- MCCashierOf
  branchOf <- MCBranchOf
  Component = {"interest", "principal"}
  Terms = 2
  DueAfter <- MCDueAfter
  Due <- MCDue
  Order <- MCOrder
  None = None
  MaxDay = 2
  MaxFund = 1
CONSTRAINT Bounds
SYMMETRY Ids
SPECIFICATION Spec
INVARIANTS
  StatusOnlyLags
  KeyHasOneEffect
  CashFollowsLedger
PROPERTIES
  OldestFirst
  DebtIsKept
  LoanBackstopsAdmit
CHECK_DEADLOCK FALSE
