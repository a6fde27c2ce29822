\* Two overlapping checks, tests, every setting, a restart of the server.
SPECIFICATION HealthSpec
CONSTANTS
    Check = {c1, c2}
    Config <- Configs
    NoTimer = NoTimer
    Cap = 4
    MaxBoots = 2
INVARIANTS
    OneRestartPerStreak
PROPERTIES
    ActsOnEvidence
    StateSettles
CHECK_DEADLOCK FALSE
