SPECIFICATION Spec
CONSTANTS
  QueueDepth = 2
  Cookie <- FiveCookies
  Repeats = FALSE
  Calls <- SpinCalls
  MaxOpen = 3
  MaxOp = 4
  Faults = FALSE
INVARIANTS
  CompletionsMatch
