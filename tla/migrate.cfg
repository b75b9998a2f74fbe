SPECIFICATION FairSpec
CONSTANTS
  Null = Null
  c1 = c1
  c2 = c2
  c3 = c3
  o = o
  Runs = {c1, c2, c3, o}
  Containers = {c1, c2, c3}
  Cases <- RolloutOrOperator
  MaxStops = 2
INVARIANT TypeOK
INVARIANT SchemaAsRecorded
INVARIANT ServiceFindsItsColumns
PROPERTY TripsSurvive
PROPERTY MigratedInTheEnd
