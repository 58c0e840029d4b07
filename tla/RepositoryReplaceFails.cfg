\* A replacement that fails at its rename, without the exception for the bundle it was
\* to replace: violated.
CONSTANTS
    a = a
    b = b
    Names = {a, b}
    NoName = NoName
    Versions = {1, 2}
    Admins = {admin}
    Protected = {}
    Rejected <- MCRejected
    Busy = {a}
    Disjoint = TRUE
    Faults = {"rename"}
    MaxInstalls = 1
    MaxCrashes = 0
SPECIFICATION Spec
INVARIANT InstalledStaysInstalled
CHECK_DEADLOCK FALSE
