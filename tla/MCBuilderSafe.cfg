\* Two users, two sessions and an improve job.
SPECIFICATION Spec
CONSTANTS
    MaxSessions = 2
    MaxStates = 2
    MaxImproves = 1
INVARIANTS
    OneAtATime
    MemHasContainer
    BusyWhileRunning
    ActiveRowHasTurn
CHECK_DEADLOCK FALSE
PROPERTY TurnsAreServed
