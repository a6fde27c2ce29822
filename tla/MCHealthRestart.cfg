\* No restart of the server: manual tests alone carry the count past the threshold.
SPECIFICATION HealthSpec
CONSTANTS
    Check = {c1, c2}
    Config <- Configs
    NoTimer = NoTimer
    Cap = 4
    MaxBoots = 0
INVARIANT RestartComes
CHECK_DEADLOCK FALSE
