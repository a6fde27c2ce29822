\* One app; two users and a group, or one user and two groups.
SPECIFICATION Spec
CONSTANTS
    App = {app}
    User = {alice, bob}
    Group = {g, h}
    NoUser = NoUser
    Tier = {"user", "owner"}
    Crowd = 3
SYMMETRY Symmetric
INVARIANTS
    LedgerIsWanted
    NoGroupLeftovers
    TierNeedsMember
PROPERTY DirectStays
