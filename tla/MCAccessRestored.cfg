\* A user who leaves a group and joins it again.
SPECIFICATION Spec
CONSTANTS
    App = {app}
    User = {alice}
    Group = {g}
    NoUser = NoUser
    Tier = {"user", "owner"}
    Crowd = 2
PROPERTY NothingRestored
