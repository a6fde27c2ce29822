\* Two requests; a plan is replaced between its approval and the coding.
SPECIFICATION Spec
CONSTANTS
    Enh <- Requests
    MaxJobs = 8
    MaxPlanParallel = 2
    MaxAsks = 3
    MaxCrashes = 1
CHECK_DEADLOCK FALSE
INVARIANT OnlyApprovedPlansAreCoded
