CONSTANTS
    History <- MCHistory
    Options <- MCOptions
    Fragment <- MCFragment
    Declared <- MCDeclared
    MaxCalls = 2
    Streams <- MCStreams
    MaxEvent = 5
    MaxFragments = 4
    MaxTurns = 2
SPECIFICATION EitherSpec
INVARIANTS
    ProposalsUsable
    ReplayAccepted
    ChunkingInvisible
CHECK_DEADLOCK FALSE
