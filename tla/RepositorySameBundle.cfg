\* Two administrators install the same bundle at once; nothing fails: violated.
CONSTANTS
    a = a
    b = b
    Names = {a, b}
    NoName = NoName
    Versions = {1, 2}
    Admins = {admin, operator}
    Protected = {}
    Rejected <- MCRejected
    Busy = {}
    Disjoint = FALSE
    Faults = {}
    MaxInstalls = 2
    MaxCrashes = 0
SPECIFICATION Spec
INVARIANT DirectoryAgrees
CHECK_DEADLOCK FALSE
