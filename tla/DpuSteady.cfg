SPECIFICATION FairSpec
CONSTANTS
  MaxQueue = 3
  LazyUnpinning = TRUE
  SqDepth = 3
  Mr = {m1, m2, m3, m4}
  NoMr = NoMr
  Sizes = {1}
  HostDepth = 1
  MaxOp = 5
  Faults = FALSE
INVARIANTS
  StopsOnlyWhenTold
PROPERTIES
  RequestsServed
