SPECIFICATION Spec
CONSTANTS
  MaxQueue = 3
  LazyUnpinning = TRUE
  SqDepth = 3
  Mr = {m1, m2, m3, m4}
  NoMr = NoMr
  Sizes = {1, 2}
  HostDepth = 2
  MaxOp = 3
  Faults = FALSE
INVARIANTS
  TypeOK
  RegionsExclusive
  ActiveRegionsPinned
  NoRegionLost
  CompletionsMatchJobs
  CollectivesInOrder
PROPERTIES
  ActiveJobKeepsRegions
SYMMETRY RegionSymmetry
