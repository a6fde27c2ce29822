\* A turn that is stopped.
SPECIFICATION Spec
CONSTANTS
    MaxSessions = 1
    MaxStates = 1
    MaxImproves = 1
PROPERTY QueueMovesOn
CHECK_DEADLOCK FALSE
