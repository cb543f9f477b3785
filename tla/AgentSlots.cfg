CONSTANTS
    Requests <- FiveRequests
    Scopes <- AllScopes
    Candidates <- Callers
    Limit <- Limits
    MaxSleeps = 1

SPECIFICATION FairSpec

INVARIANT Accounted
PROPERTY KeepsPromise
PROPERTY RefusedOnlyWhenFull
PROPERTY Answered
