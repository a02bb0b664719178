SPECIFICATION Spec
CONSTANTS
  Prices = {1, 2, 3}
  Volumes = {0, 1, 2}
  Snapshots <- SomeSnapshots
  Depth = 2
  Slippages = {0, 50, 100}
  Tops = {1, 2}
INVARIANTS
  TopsAreTrue
  QueriesExact
PROPERTIES
  ImplementsMap
CHECK_DEADLOCK FALSE
