SPECIFICATION FairSyncSpec
CONSTANTS
  btc = btc
  eth = eth
  NoStream = NoStream
  Streams <- OneSymbol
  Subs <- OneSymbol
  SubOf <- OwnBook
  FanoutCapacity = 1
  WireCap = 1
  MaxLeaks = 0
  MaxForeign = 1
  Optional = {}
PROPERTY LoopRecovers
