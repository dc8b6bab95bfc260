CONSTANTS
    Requests <- MCRequests
    Capabilities <- MCCapabilities
    Answers <- MCAnswers
    LayaRequests <- MCLayaRequests
    LayaConfigs <- MCLayaConfigs
SPECIFICATION EitherSpec
INVARIANTS
    AnswersWhatIsNeeded
    ExecutesThePlan
    PromptsFit
    AnswersOwnPrompt
PROPERTY ExecutionEnds
CHECK_DEADLOCK FALSE
