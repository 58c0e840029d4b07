\* The promise of WebTunnelService.h about a connection that is closed.
CONSTANTS
    MaxTunnels = 2
    MayStop = FALSE
SPECIFICATION Spec
CHECK_DEADLOCK FALSE
PROPERTY CloseIsReported
