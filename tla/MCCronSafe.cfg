\* One job over three rows and a cycle of three minutes, two crashes.
SPECIFICATION CronSpec
CONSTANTS
    Name = {a}
    Cycle = 3
    Schedule <- MCSchedule
    MaxIds = 3
    MaxDeaths = 2
    NoRow = NoRow
INVARIANTS
    OneRunPerJob
    ResultIsOwn
PROPERTY JobsKeepRunning
CHECK_DEADLOCK FALSE
