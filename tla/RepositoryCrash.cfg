\* One administrator any of whose steps may fail, crashes, and a bundle that other
\* threads start and stop.
CONSTANTS
    a = a
    b = b
    Names = {a, b}
    NoName = NoName
    Versions = {1, 2}
    Admins = {admin}
    Protected = {}
    Rejected <- MCRejected
    Busy = {a}
    Disjoint = TRUE
    Faults = {"cut", "stop", "remove", "rename", "load"}
    MaxInstalls = 1
    MaxCrashes = 2
SPECIFICATION Spec
INVARIANT RepositoryTypeOK
INVARIANT NamesSurvive
PROPERTY LatestIsLoaded
CHECK_DEADLOCK FALSE
