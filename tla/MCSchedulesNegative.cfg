\* What the documentation says of the components of a schedule.
CONSTANTS
  Draft <- MCDraft
  Principal = {1, 2, 100, 101}
  Term = {2, 3, 4, 5}
  Start = {4, 29, 30}
  MonthLength <- MCMonthLength
  SearchLimit = 8
  None = None
CONSTRAINT Bounds
SPECIFICATION Spec
INVARIANTS
  NoNegativeComponents
CHECK_DEADLOCK FALSE
