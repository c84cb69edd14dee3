\* Three users and their two sessions, two requests, a Google subject, a branch with a cash point.
CONSTANTS
  ana = ana
  bob = bob
  eva = eva
  User = {ana, bob, eva}
  Session = {s1, s2}
  Request = {q1, q2}
  Subject = {g1}
  Role <- MCRole
  Permission <- MCPermission
  Branch = {b1}
  CashPoint = {p1}
  BranchOf <- MCBranchOf
  LockFailures = 2
  CodeAttempts = 2
  None = None
  MaxSecrets = 4
  MaxAssignments = 4
SYMMETRY Ids
SPECIFICATION Spec
CONSTRAINT Bounds
INVARIANTS
  SecretsAreSpentOnce
  AuthorityIsHandedDown
CHECK_DEADLOCK FALSE
