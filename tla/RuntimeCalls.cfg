CONSTANTS
    a = a
    b = b
    Model <- MCModels
    Executable <- MCExecutable
    RemoteRegistered = TRUE
    Task <- MCTasks
    Requests <- MCRequests
    Calls = {"infer", "stream", "chat"}
    HasCatalog = TRUE
    InferPermits = 1
    LoadPermits = 1
    MaxModels = 1
    MaxCalls = 2
    Batches <- MCBatches
    Batching = TRUE
    Builtin = "builtin"
    Ids <- MCIds
    Providers <- MCProviders
    Packages <- MCPackages
    CapabilityRequests <- MCCapabilityRequests
SPECIFICATION EitherSpec
INVARIANTS
    ResultsAnswerRequests
    EffectsAllowed
PROPERTY BoundedEnds
