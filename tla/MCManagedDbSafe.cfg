\* Two requests of two apps, a crash, two rows.
SPECIFICATION Spec
CONSTANTS
    App = {a, b}
    Proc = {p, q}
    AdminPw = {w1, w2}
    None = None
    MaxRows = 2
    MaxCrashes = 1
SYMMETRY Symmetry
INVARIANTS
    AdminGetsIn
    OneAtATimeIsWhole
CHECK_DEADLOCK FALSE
