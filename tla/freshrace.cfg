SPECIFICATION Spec
CONSTANTS
  Null = Null
  c1 = c1
  c2 = c2
  c3 = c3
  o = o
  Runs = {c1, c2}
  Containers = {c1, c2}
  Cases <- FreshDatabase
  MaxStops = 0
INVARIANT ServiceFindsItsColumns
CHECK_DEADLOCK FALSE
