\* Two users who start or resume sessions of one app.
SPECIFICATION Spec
CONSTANTS
    MaxSessions = 2
    MaxStates = 2
    MaxImproves = 1
INVARIANT NoTakeover
CHECK_DEADLOCK FALSE
