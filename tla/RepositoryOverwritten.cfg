\* Two administrators who work on different bundles, a crash, no faults: violated.  One
\* uninstalls a bundle that was loaded from a leftover temporary file, which is by then
\* the upload of the other.
CONSTANTS
    a = a
    b = b
    Names = {a, b}
    NoName = NoName
    Versions = {1, 2}
    Admins = {admin, operator}
    Protected = {}
    Rejected <- MCRejected
    Busy = {}
    Disjoint = TRUE
    Faults = {}
    MaxInstalls = 1
    MaxCrashes = 1
SPECIFICATION Spec
INVARIANT NamesSurvive
CHECK_DEADLOCK FALSE
