\* A release whose migration fails is never gone back from.
SPECIFICATION Spec
CONSTANTS
    Update = {u}
    MaxRelease = 3
    Ships <- MCShips
    Bad = {5}
    NoTx = {2, 3, 4}
    Once = {3}
    Modern = {}
    NoRecord = NoRecord
    Keep = 2
    MaxTries = 3
    MaxCrashes = 0
PROPERTY NotLeftOnBadRelease
CHECK_DEADLOCK FALSE
