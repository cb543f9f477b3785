CONSTANTS
    d1 = d1
    d2 = d2
    Deployments <- MCDeployments
    FailureThreshold = 2
    SuccessThreshold = 2
    Cooldown = 2
    MaxFailures = 3

SPECIFICATION FairSpec

INVARIANT ClosedBelowThreshold
PROPERTY ClosesOnlyOnProbes
PROPERTY OpenIsTemporary
