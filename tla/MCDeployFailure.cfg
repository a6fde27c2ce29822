\* A deployment that fails after the old container was stopped.
SPECIFICATION Spec
CONSTANTS
    Sources = {"git"}
    MaxDeploys = 2
    MaxArts = 2
    Keep = 1
PROPERTY FailureKeepsServing
CHECK_DEADLOCK FALSE
