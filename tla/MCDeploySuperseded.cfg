\* A reclaimed deployment whose run was slow, not dead.
SPECIFICATION Spec
CONSTANTS
    Sources = {"git"}
    MaxDeploys = 2
    MaxArts = 2
    Keep = 1
PROPERTY SupersededStaysFailed
CHECK_DEADLOCK FALSE
