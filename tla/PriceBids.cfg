SPECIFICATION Spec
CONSTANTS
  Prices = {1, 2, 3}
  Volumes = {0, 1, 2}
  Snapshots <- SomeSnapshots
  Depth = 2
  Slippages = {0}
  Tops = {1}
INVARIANTS
  BidsKeepHighest
CHECK_DEADLOCK FALSE
