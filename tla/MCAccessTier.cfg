\* A hand changes the tier a group gave.
SPECIFICATION Spec
CONSTANTS
    App = {app}
    User = {alice}
    Group = {g}
    NoUser = NoUser
    Tier = {"user", "owner"}
    Crowd = 2
PROPERTY HandTierStays
