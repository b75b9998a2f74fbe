SPECIFICATION Spec
CONSTANTS
  Null = Null
  t1 = t1
  t2 = t2
  t3 = t3
  t4 = t4
  t5 = t5
  TripIds = {t1, t2, t3, t4, t5}
  Times <- MCTimes
  Firsts <- MCFirsts
  PageSize = 2
  IntLimit = 8
  MaxFails = 1
  MaxEnds = 3
SYMMETRY Symmetry
INVARIANT TypeOK
INVARIANT NothingMissed
INVARIANT RefusedPastTheIntsOnly
INVARIANT RepeatsPaidByCompletions
CHECK_DEADLOCK FALSE
