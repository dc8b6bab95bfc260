CONSTANTS
    Buffer = 1
    ChunkBuffer = 1
    Wire = 1
    MaxOutputs = 8
    MayPanic = FALSE
    MayCut = FALSE
SPECIFICATION FairSpec
PROPERTIES
    KeepsContract
    AbandonedIsReleased
