\* Two workers, two persons, a document, three contacts, two addresses, a reference.
CONSTANTS
  dop = dop
  Currency = {dop, usd}
  Branch = {b1}
  CashPoint = {p1}
  Clerk = {k1}
  None = None
  Person = {ana, bob}
  Document = {d1}
  Note = {n1}
  Value = {v1}
  Contact = {c1, c2, c3}
  Address = {a1, a2}
  Reference = {r1}
  Worker = {w1, w2}
  MaxVersion = 3
SYMMETRY Ids
SPECIFICATION Spec
CONSTRAINT Bounds
INVARIANTS
  IdentityIsAccountedFor
PROPERTY EditsBuildOnWhatWasSeen
CHECK_DEADLOCK FALSE
