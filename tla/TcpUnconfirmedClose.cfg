\* The promise of Connection.h about an active close, with a peer that is never
\* late and a network without faults.
CONSTANTS
    MaxFrames = 1
    IdleEnds = {"client"}
    Timeouts = FALSE
    Faults = FALSE
SPECIFICATION Spec
INVARIANT ActiveCloseConfirmed
CHECK_DEADLOCK FALSE
