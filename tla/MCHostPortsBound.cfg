\* The two environments of an app, three ports.
SPECIFICATION Spec
CONSTANTS
    a = a
    App <- OneApp
    Lane <- BothEnvs
    Port <- ThreePorts
    AutoPort <- FirstPort
    ReservedPort <- LastPort
INVARIANT ReservedWhileBound
