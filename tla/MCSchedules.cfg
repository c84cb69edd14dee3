\* Amounts of a few minor units, terms around the limits, days at the end of January and on a Friday.
CONSTANTS
  Draft <- MCDraft
  Principal = {1, 2, 100, 101}
  Term = {2, 3, 4, 5}
  Start = {4, 29, 30}
  MonthLength <- MCMonthLength
  SearchLimit = 8
  None = None
CONSTRAINT Bounds
SPECIFICATION Spec
INVARIANTS
  ScheduleAddsUp
  MoraFollowsDue
CHECK_DEADLOCK FALSE
