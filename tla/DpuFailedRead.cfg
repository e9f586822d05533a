SPECIFICATION Spec
CONSTANTS
  MaxQueue = 2
  LazyUnpinning = TRUE
  SqDepth = 3
  Mr = {m1, m2, m3, m4}
  NoMr = NoMr
  Sizes = {1}
  HostDepth = 2
  MaxOp = 3
  Faults = TRUE
INVARIANTS
  CollectiveAfterReadOk
SYMMETRY RegionSymmetry
