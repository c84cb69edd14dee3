\* One loan of two instalments, two payments in the field, two promises, two agents.
CONSTANTS
  ana = ana
  s1 = s1
  b1 = b1
  User = {ana}
  Loan = {l1}
  Payment = {p1, p2}
  Key = {k1, k2}
  Reference = {}
  SessionId = {s1}
  cashierOf <- MCCashierOf
  branchOf <- MCBranchOf
  Component = {"interest", "principal"}
  Terms = 2
  DueAfter <- MCDueAfter
  Due <- MCDue
  Order <- MCOrder
  None = None
  MaxDay = 2
  MaxFund = 1
  Till = {None}
  Promise = {n1, n2}
  Assignment = {a1, a2}
  Activity = {v1}
  Agent = {u1, u2}
SYMMETRY Ids
SPECIFICATION CollectionsSpec
CONSTRAINT Bounds
INVARIANTS
  PromiseCanBeKept
  HistoryIsALine
PROPERTIES
  KeptIsNotCancelled
  CollectionBackstopsAdmit
CHECK_DEADLOCK FALSE
