\* A promoted upload release that fails its deployment.
SPECIFICATION Spec
CONSTANTS
    Sources = {"upload"}
    MaxDeploys = 2
    MaxArts = 2
    Keep = 1
PROPERTY CurrentIsLastGood
CHECK_DEADLOCK FALSE
