CONSTANTS
    d1 = d1
    d2 = d2
    w1 = w1
    w2 = w2
    FailureThreshold = 2
    SuccessThreshold = 1
    Cooldown = 1
    MaxFailures = 2
    Deployments <- MCDeployments
    Priority <- MCPriority
    Registered <- MCDeployments
    CandidateSets <- AnyMatch
    Healthy = {d2}
    Workers <- TwoWorkers
    Kinds = {"chat", "stream", "test"}
    MaxCalls = 3
    HardLimit = 2
    SoftLimit = 9
    Estimate = 1
    Costs = {1, 2}
    MaxCost = 2
    DbFaults = FALSE
    Cancels = FALSE

SPECIFICATION FairSpec

INVARIANT TypeOK
INVARIANT OverspendIsBounded
INVARIANT ClosedExactlyOnce
INVARIANT HealthyStaysClosed
PROPERTY CallsEnd
