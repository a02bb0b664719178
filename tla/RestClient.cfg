SPECIFICATION Spec
CONSTANTS
  a = a
  b = b
  c1 = c1
  c2 = c2
  Callers <- BothCallers
  Auths = {"none", "external"}
  FirstListed = a
  Delisted = {a}
  Ops = {"place", "change", "cancel", "cancelAll", "balance", "read"}
  Symbols = {a, b}
  purr = purr
  Spot = purr
  Early <- NoneOrOne
  o1 = o1
  o2 = o2
  Cloids <- BothOrders
  Specs <- SomeSpecs
  ReadReplies <- SomeReads
  SpotReplies <- SomeSpot
  PerpReplies <- SomePerp
  Clocks = {2}
  Ttl = 1
  Window = 2
  MaxWeight = 41
  Interval = 1
  Budgets = {0}
  MaxTime = 2
  MaxCalls = 2
INVARIANTS
  TypeOK
  WindowKept
  PaceKept
  RefusedNeverSent
  RightMarket
  SignedIsSent
  ListedIsFound
  CancelledUnlessSpared
  BalanceWhole
  ViewsAgree
PROPERTIES
  NoncesFresh
SYMMETRY Alike
CHECK_DEADLOCK FALSE
