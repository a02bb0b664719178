SPECIFICATION Spec
CONSTANTS
  s1 = s1
  s2 = s2
  u = u
  v = v
  c = c
  Slots <- TwoSlots
  Users = {u, v}
  Coins = {c}
  Nobody = Nobody
  Addresses = {u, Nobody}
  Methods = {"l2_update", "l2_snapshot", "asset_context", "fill", "liquidation", "user_fills", "order_updates", "funding_payments", "deposits", "withdrawals", "spot_balance_with_address"}
  Messages <- SomeMessages
  FanoutCapacity = 1
  MaxOutside = 2
  MaxAsked = 1
INVARIANTS
  OneManagerPerUser
  YieldsItsOwn
  ServerAgrees
  EndsOnlyOnRequest
SYMMETRY Alike
CHECK_DEADLOCK FALSE
