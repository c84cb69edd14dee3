\* One application, three versions of a product over three days, two people.
CONSTANTS
  ana = ana
  bob = bob
  Version = {v1, v2, v3}
  Content = {1, 2}
  WellFormed = {1, 2}
  None = None
  MaxDay = 2
  MaxRow = 2
  Application = {a1}
  User = {ana, bob}
  Document = {d1}
  Amount = {1, 2}
  Policies <- MCPolicies
  Grantable <- MCGrantable
  MaxApp = 4
  MaxSubmissions = 2
SYMMETRY Ids
SPECIFICATION Spec
CONSTRAINT Bounds
INVARIANTS
  OneVersionInForce
  ContractIsTraceable
PROPERTIES
  PastVigencyStands
  NothingWithdrawnIsPromised
  DecidedAsRead
CHECK_DEADLOCK FALSE
