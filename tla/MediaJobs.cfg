CONSTANTS
    w1 = w1
    w2 = w2
    r1 = r1
    r2 = r2
    Workers <- OneWorker
    Requests <- OneRequest
    MaxReservations = 2
    MaxSubmits = 2
    MaxTasks = 1
    Crashes = TRUE

SPECIFICATION FairSpec

INVARIANT TypeOK
INVARIANT ClosedOnceIfOrdered
PROPERTY FinalUnlessRetried
PROPERTY EnqueuedIsTaken
CONSTRAINT Ordered
