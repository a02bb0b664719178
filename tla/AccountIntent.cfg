SPECIFICATION Spec
CONSTANTS
  btc = btc
  order = order
  uuid = uuid
  NoIntent = NoIntent
  Symbols <- OneSymbol
  OrderIds <- OneOrder
  Intents <- OneIntent
  MaxRecentFills = 2
  Inputs <- SomeInputs
  Reports <- SomeReports
  MaxEvents = 4
PROPERTY FillsKnowIntent
CHECK_DEADLOCK FALSE
