SPECIFICATION FairSpec
CONSTANTS
  a = a
  b = b
  Symbols = {a, b}
  Calls = {c1, c2}
  NoCall = NoCall
  Batches <- SomeBatches
  MaxAsked = 4
INVARIANTS
  BooksAreFed
PROPERTIES
  ActivationHonest
  HotAddsServed
CHECK_DEADLOCK FALSE
