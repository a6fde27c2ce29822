\* A client killed at its timeout leaves its process, and the mutex is free.
SPECIFICATION CronSpec
CONSTANTS
    Name = {a}
    Cycle = 3
    Schedule <- MCSchedule
    MaxIds = 3
    MaxDeaths = 2
    NoRow = NoRow
INVARIANT NoOverlap
CHECK_DEADLOCK FALSE
