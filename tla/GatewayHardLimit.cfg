CONSTANTS
    d1 = d1
    d2 = d2
    w1 = w1
    w2 = w2
    FailureThreshold = 2
    SuccessThreshold = 1
    Cooldown = 1
    MaxFailures = 2
    Deployments <- MCDeployments
    Priority <- MCPriority
    Registered <- MCDeployments
    CandidateSets <- AllMatch
    Healthy = {}
    Workers <- TwoWorkers
    Kinds = {"chat"}
    MaxCalls = 3
    HardLimit = 2
    SoftLimit = 9
    Estimate = 1
    Costs = {1}
    MaxCost = 1
    DbFaults = FALSE
    Cancels = FALSE

SPECIFICATION Spec

INVARIANT HardLimitHolds
