\* Three releases, the last of them broken by its last migration; two requests.
SPECIFICATION Spec
CONSTANTS
    Update = {u, v}
    MaxRelease = 3
    Ships <- MCShips
    Bad = {5}
    NoTx = {2, 3, 4}
    Once = {3}
    Modern = {3}
    NoRecord = NoRecord
    Keep = 2
    MaxTries = 3
    MaxCrashes = 2
INVARIANTS
    ServesItsSchema
    SuccessIsTrue
    RestorePointKept
PROPERTIES
    SoundReleaseComesUp
    VerdictComes
CHECK_DEADLOCK FALSE
