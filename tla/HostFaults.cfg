SPECIFICATION Spec
CONSTANTS
  QueueDepth = 2
  Cookie <- FourCookies
  Repeats = FALSE
  Calls <- AllCalls
  MaxOpen = 3
  MaxOp = 3
  Faults = TRUE
INVARIANTS
  TestedIsCompleted
  ReceivesCounted
  ServedIsRegistered
CHECK_DEADLOCK FALSE
