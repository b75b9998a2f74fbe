SPECIFICATION FairArchiveSpec
CONSTANTS
  Null = Null
  Docs <- MCDocs
  Device = "mine"
  Start = 2
  End = 6
  PerSecond = 4
  PageSize = 2
  Token = 1
  Keys = {k1, k2}
  Nonces = {n1, n2}
  MaxTries = 2
INVARIANT InTimeOrder
INVARIANT OnlyTiesMissed
INVARIANT ArchiveTypeOK
INVARIANT ArchivedTrip
PROPERTY FetchEnds
CHECK_DEADLOCK FALSE
