CONSTANTS
    w1 = w1
    w2 = w2
    r1 = r1
    r2 = r2
    Workers <- OneWorker
    Requests <- OneRequest
    MaxReservations = 2
    MaxSubmits = 1
    MaxTasks = 1
    Crashes = FALSE

SPECIFICATION Spec

PROPERTY CanceledIsFinal
