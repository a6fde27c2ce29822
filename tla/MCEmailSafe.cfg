\* Two overlapping ticks over three messages, with a crash.
SPECIFICATION Spec
CONSTANTS
    Tick = {t1, t2}
    MaxMail = 3
    MaxAttempts = 2
    Batch = 2
    Limit = 2
    MaxCrashes = 1
INVARIANTS
    SendingHasTick
    NotGivenUpEarly
    BudgetHolds
PROPERTY EveryMailSettles
CHECK_DEADLOCK FALSE
