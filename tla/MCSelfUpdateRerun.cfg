\* A crash inside a migration without a transaction, which then fails for ever.
SPECIFICATION Spec
CONSTANTS
    Update = {u}
    MaxRelease = 3
    Ships <- MCShips
    Bad = {5}
    NoTx = {2, 3, 4}
    Once = {3}
    Modern = {}
    NoRecord = NoRecord
    Keep = 2
    MaxTries = 3
    MaxCrashes = 1
PROPERTY SafelyRerunnable
CHECK_DEADLOCK FALSE
