CONSTANTS
    d1 = d1
    d2 = d2
    w1 = w1
    w2 = w2
    FailureThreshold = 2
    SuccessThreshold = 1
    Cooldown = 1
    MaxFailures = 2
    Deployments <- MCDeployments
    Priority <- MCPriority
    Registered <- MCDeployments
    CandidateSets <- AnyMatch
    Healthy = {}
    Workers <- OneWorker
    Kinds = {"chat", "stream", "test", "explicit_test"}
    MaxCalls = 5
    HardLimit = 3
    SoftLimit = 2
    Estimate = 1
    Costs = {1}
    MaxCost = 1
    DbFaults = TRUE
    Cancels = TRUE

SPECIFICATION Spec

INVARIANT SingleSource
INVARIANT StreamsCloseUnlessInterrupted
INVARIANT HardLimitHolds
