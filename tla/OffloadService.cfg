\* Two ranks, one of which may leave early; either DPU may fail.
CONSTANTS
  Rank = {r1, r2}
  Hasty = {r2}
  MaxOp = 2
  Faults = TRUE
SPECIFICATION FairSpec
INVARIANTS TypeOK BuffersQuiet
PROPERTIES ServiceSafety ServiceLive
CHECK_DEADLOCK FALSE
