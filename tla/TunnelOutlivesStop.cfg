\* A tunnel that connect() makes while stop() runs: violated.
CONSTANTS
    MaxTunnels = 2
    MayStop = TRUE
SPECIFICATION Spec
CHECK_DEADLOCK FALSE
INVARIANT StopCloses
