CONSTANTS
    Size = 2
    Ops = 2
    Setups <- AllSetups
    Offset = 100
    Modes <- AllModes
    AddrSpace = 128
    NoAddr = NoAddr
    Crash = Crash
SPECIFICATION Spec
INVARIANTS
    RightPartner
    ResultsInRankOrder
    SuccessMeansAll
PROPERTY SessionCompletes
CHECK_DEADLOCK FALSE
