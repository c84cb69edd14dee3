\* One cash point, three cashiers: closes, handovers, refusals, redirects.
CONSTANTS
  ana = ana
  beto = beto
  carla = carla
  p1 = p1
  p2 = p2
  b1 = b1
  b2 = b2
  User = {ana, beto, carla}
  Cashiers = {ana, beto, carla}
  Supervisors = {carla}
  Reviewers = {carla}
  CashPoint = {p1}
  Box = {b1}
  boxOf <- MCBoxOf
  SessionId = {s1, s2}
  HandoverId = {h1, h2}
  None = None
  MaxAmount = 1
  MaxInflight = 1
SYMMETRY IdsAndTellers
SPECIFICATION Spec
INVARIANTS
  TypeOK
  HandoversAreSound
  ReceiverCanAnswer
  DifferencesAreSound
PROPERTIES
  CustodyIsKept
  BackstopsRefuseOneClose
