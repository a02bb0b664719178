SPECIFICATION SyncSpec
CONSTANTS
  btc = btc
  eth = eth
  NoStream = NoStream
  Streams <- TwoSymbols
  Subs <- TwoSymbols
  SubOf <- OwnBook
  FanoutCapacity = 1
  WireCap = 1
  MaxLeaks = 0
  MaxForeign = 1
  Optional = {"shutdown", "foreign", "again"}
INVARIANTS
  SyncTypeOK
  LoopsEndOnlyOnRequest
  NeverOvercounted
  ServerInStep
  OwnEventsUnbroken
CHECK_DEADLOCK FALSE
