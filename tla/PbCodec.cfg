CONSTANTS
    Schemas <- AllSchemas
    Outgoing <- AllOutgoing
    Foreign <- AllForeign
SPECIFICATION Spec
INVARIANTS
    TypeOK
    LoadedAsDeclared
    RoundTrip
    SizesHold
    CutShortRefused
    DecodedAsReference
PROPERTY CodecEnds
