\* A redeploy of an upload app that was rolled back or promoted.
SPECIFICATION Spec
CONSTANTS
    Sources = {"upload"}
    MaxDeploys = 3
    MaxArts = 2
    Keep = 1
PROPERTY RedeployReplaysRunning
CHECK_DEADLOCK FALSE
