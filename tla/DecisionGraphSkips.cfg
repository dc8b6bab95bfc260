CONSTANTS
    Requests <- MCRequests
    Capabilities <- MCCapabilities
    Answers <- MCAnswers
SPECIFICATION Spec
INVARIANT SkippingIsNoFailure
CHECK_DEADLOCK FALSE
