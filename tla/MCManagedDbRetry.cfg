\* A retry while the first request still cleans up; no crash.
SPECIFICATION Spec
CONSTANTS
    App = {a}
    Proc = {p, q}
    AdminPw = {w1}
    None = None
    MaxRows = 2
    MaxCrashes = 0
PROPERTY RollsBackItsOwn
CHECK_DEADLOCK FALSE
