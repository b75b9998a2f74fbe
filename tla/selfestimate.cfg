SPECIFICATION Spec
CONSTANTS
  Null = Null
  d1 = d1
  d2 = d2
  t1 = t1
  t2 = t2
  t3 = t3
  home = home
  gate = gate
  work = work
  k1 = k1
  k2 = k2
  k3 = k3
  k4 = k4
  k5 = k5
  w1 = w1
  w2 = w2
  Devices = {d1}
  Tokens = {1}
  TripIds = {t1}
  Locations = {home, gate, work}
  Keys = {k1, k2, k3, k4}
  Workers = {w1, w2}
  Times <- MCTimes
  Near <- MCNear
  SegmentEvents <- RoundTrip
  VehicleEvents <- JustNoise
  Pred <- InOrder
  Registered <- Everybody
  DataFetchEnabled = FALSE
  BundlrEnabled = FALSE
  SkipOnError = TRUE
  MaxErrors = 0
  MaxCrashes = 1
SYMMETRY Symmetry
INVARIANT EstimateFromPreviousTrip
