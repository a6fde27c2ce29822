\* Two deployments over three trees, every source: files, rows, crashes, and the
\* guard as a lease.
SPECIFICATION Spec
CONSTANTS
    Sources = {"git", "upload", "image"}
    MaxDeploys = 2
    MaxArts = 3
    Keep = 1
INVARIANTS
    BuildingHasProcess
PROPERTIES
    PublishedRowsStay
    CurrentNeverDeleted
    PruneKeepsNewest
    NeverWedged
    ImplementsLease
CHECK_DEADLOCK FALSE
