\* The order of connected and disconnected: violated.
CONSTANTS
    MaxTunnels = 2
    MayStop = FALSE
SPECIFICATION Spec
CHECK_DEADLOCK FALSE
INVARIANT ListenersKnow
