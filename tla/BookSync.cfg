SPECIFICATION FairSpec
CONSTANTS
  bid = bid
  ask = ask
  Levels <- OneEachSide
  Volumes = {0, 1}
  MaxMoves = 3
  StreamCap = 2
INVARIANTS
  TypeOK
  WholeBooks
PROPERTIES
  BooksMoveForward
  Converges
CHECK_DEADLOCK FALSE
