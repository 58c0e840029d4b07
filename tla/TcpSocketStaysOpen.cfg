\* A connection whose run() ends before it closes its socket, with a network without
\* faults: violated.
CONSTANTS
    MaxFrames = 1
    IdleEnds = {"client"}
    Timeouts = FALSE
    Faults = FALSE
SPECIFICATION Spec
INVARIANT EndedIsClosed
CHECK_DEADLOCK FALSE
