\* Two commands that look before and under the lock, one that looks under it; three calls, one key.
CONSTANTS
  t1 = t1
  t2 = t2
  t3 = t3
  Call = {c1, c2, c3}
  Key = {k1}
  Target = {t1, t2, t3}
  Content = {x1}
  looks <- MCLooks
  None = None
SPECIFICATION Spec
PROPERTIES
  ReplaysTheAnswer
  EveryCallIsAnswered
  ServedOnce
