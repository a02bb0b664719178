SPECIFICATION Spec
CONSTANTS
  a = a
  b = b
  c1 = c1
  c2 = c2
  Callers <- OneCaller
  Auths = {"external"}
  FirstListed = a
  Delisted = {}
  Ops = {"place", "cancel", "cancelAll"}
  Symbols = {a}
  purr = purr
  Spot = purr
  Early <- NoneEarly
  o1 = o1
  o2 = o2
  Cloids <- OneOrder
  Specs <- SomeSpecs
  ReadReplies <- SomeReads
  SpotReplies <- SomeSpot
  PerpReplies <- SomePerp
  Clocks = {2}
  Ttl = 1
  Window = 1
  MaxWeight = 200
  Interval = 1
  Budgets = {2}
  MaxTime = 0
  MaxCalls = 4
PROPERTY CancelsHaveHeadroom
CHECK_DEADLOCK FALSE
