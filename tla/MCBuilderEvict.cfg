\* A container that is evicted while a turn runs in it.
SPECIFICATION Spec
CONSTANTS
    MaxSessions = 2
    MaxStates = 2
    MaxImproves = 1
INVARIANT IdleHasState
CHECK_DEADLOCK FALSE
