\* As RepositoryCrash, without the exception for temporary files that a crash left:
\* violated.
CONSTANTS
    a = a
    b = b
    Names = {a, b}
    NoName = NoName
    Versions = {1, 2}
    Admins = {admin}
    Protected = {}
    Rejected <- MCRejected
    Busy = {a}
    Disjoint = TRUE
    Faults = {"cut", "stop", "remove"}
    MaxInstalls = 1
    MaxCrashes = 2
SPECIFICATION Spec
INVARIANT InstalledStaysInstalled
CHECK_DEADLOCK FALSE
