\* Up to four tunnels, one after the other, and a stop at any time.
CONSTANTS
    MaxTunnels = 4
    MayStop = TRUE
SPECIFICATION Spec
INVARIANT OneTunnel
PROPERTY LossIsMadeGood
PROPERTY StopReturns
CHECK_DEADLOCK FALSE
