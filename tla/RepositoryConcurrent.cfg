\* Two administrators who do not work on the same bundle; no crash.
CONSTANTS
    a = a
    b = b
    Names = {a, b}
    NoName = NoName
    Versions = {1, 2}
    Admins = {admin, operator}
    Protected = {}
    Rejected <- MCRejected
    Busy = {}
    Disjoint = TRUE
    Faults = {"cut", "rename", "load", "remove"}
    MaxInstalls = 2
    MaxCrashes = 0
SPECIFICATION Spec
INVARIANT UploadIsolated
INVARIANT DirectoryAgrees
CHECK_DEADLOCK FALSE
