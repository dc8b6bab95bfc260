SPECIFICATION FairSpec
CONSTANTS
    c1 = c1
    c2 = c2
    Calls <- MCCalls
    Asks <- MCAsks
    Pieces <- MCPieces
    LlamaConfig <- MCConfig
    ModelFile <- MCFile
    MaxOutput = 3
INVARIANTS
    AbandonedStopsSoon
    ContextFits
    EndsExplicitly
    StopNeverLeaks
PROPERTIES
    AbandonedFreesSlot
CHECK_DEADLOCK FALSE
