CONSTANTS
    StreamBuffer = 2
    MaxDeltas = 2
    MaxToolCalls = 2
SPECIFICATION FairSpec
INVARIANTS
    ProposalsWhole
PROPERTIES
    KeepsContract
    AbandonedFreesConnection
    StreamTerminates
