CONSTANTS
    Handle <- AllHandle
    SizeOf <- Sizes
    Null = "NULL"
    Types <- Handles
    Calls <- AllCalls
    World = 2
    Pool <- FreeRegions
    Half = 128
    Room = 300
SPECIFICATION Spec
INVARIANTS
    ServedExactly
    InsideBuffers
    TypesAgree
