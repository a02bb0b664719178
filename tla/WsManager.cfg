SPECIFICATION FairSpec
CONSTANTS
  a = a
  b = b
  book = book
  NoStream = NoStream
  Streams <- TwoStreams
  Subs <- OneSub
  SubOf <- AskSame
  FanoutCapacity = 1
  WireCap = 1
  MaxLeaks = 1
  MaxForeign = 1
  Optional = {"abandon", "foreign", "shutdown", "reject"}
INVARIANTS
  RefCountExact
  HeldStreamsStayOpen
  ServerInStep
PROPERTIES
  DataResumes
  ManagerEnds
CHECK_DEADLOCK FALSE
