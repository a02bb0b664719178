SPECIFICATION Spec
CONSTANTS
  btc = btc
  order = order
  uuid = uuid
  NoIntent = NoIntent
  Symbols <- OneSymbol
  OrderIds <- OneOrder
  Intents <- OneIntent
  MaxRecentFills = 2
  Inputs <- SomeInputs
  Reports <- SomeReports
  MaxEvents = 4
INVARIANTS
  TypeOK
  ReplicaFollows
  NothingSpent
  ReconcileTells
PROPERTIES
  FillsAreFair
CHECK_DEADLOCK FALSE
