SPECIFICATION Spec
CONSTANTS
  Null = Null
  t1 = t1
  t2 = t2
  v1 = v1
  v2 = v2
  d1 = d1
  l1 = l1
  l2 = l2
  k1 = k1
  w1 = w1
  w2 = w2
  TripIds = {t1, t2}
  Tokens = {v1, v2}
  Devices = {d1}
  Locations = {l1, l2}
  Keys = {k1}
  Times = {1, 2}
  Near <- MCNear
  Workers = {w1, w2}
  Calls <- MCCalls
  MaxFails = 1
SYMMETRY Symmetry
INVARIANT TypeOK
INVARIANT CacheFits
PROPERTY WritesWhatItHolds
CHECK_DEADLOCK FALSE
