\* Two requests, three asks of users, one crash.
SPECIFICATION Spec
CONSTANTS
    Enh <- Requests
    MaxJobs = 8
    MaxPlanParallel = 2
    MaxAsks = 3
    MaxCrashes = 1
CHECK_DEADLOCK FALSE
PROPERTY RequestsSettle
INVARIANTS
    RunningHasHandler
    HandlerOwnsJob
    WorkingHasJob
    ReviewHasPlan
