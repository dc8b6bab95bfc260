CONSTANTS
    Buffer = 2
    MaxOutputs = 4
SPECIFICATION FairSpec
INVARIANTS
    Backpressure
PROPERTIES
    KeepsContract
    CancelEndsStream
