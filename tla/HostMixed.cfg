SPECIFICATION FairSpec
CONSTANTS
  QueueDepth = 3
  Cookie <- FourCookies
  Repeats = FALSE
  Calls <- AllCalls
  MaxOpen = 3
  MaxOp = 4
  Faults = FALSE
INVARIANTS
  TypeOK
  ReceivesCounted
  TestedIsCompleted
  ServedIsRegistered
  OnlyOpenRegistered
  CompletionsMatch
  CompletionsAwaited
PROPERTIES
  WaitReports
CHECK_DEADLOCK FALSE
