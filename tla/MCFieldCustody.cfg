\* Two people who both collect, accept and refund; two payments, two renditions, two sessions.
CONSTANTS
  ana = ana
  beto = beto
  b1 = b1
  b2 = b2
  r1 = r1
  r2 = r2
  s1 = s1
  s2 = s2
  n1 = n1
  n2 = n2
  User = {ana, beto}
  Collectors = {ana, beto}
  Acceptors = {ana, beto}
  Refunders = {ana, beto}
  Branch = {b1}
  Receipt = {r1, r2}
  RenditionId = {n1, n2}
  SessionId = {s1, s2}
  cashierOf <- MCCashierOf
  branchOf <- MCBranchOf
  None = None
  MaxAmount = 2
SYMMETRY Ids
SPECIFICATION Spec
INVARIANTS
  ReceiptsAreSound
  DrawerIsBacked
  NobodyLeavesWithCash
PROPERTIES
  CashGoesOneWay
  CustodyBackstopsAdmit
