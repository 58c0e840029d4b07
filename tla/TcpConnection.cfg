CONSTANTS
    MaxFrames = 2
    IdleEnds = {"client", "server"}
    Timeouts = TRUE
    Faults = TRUE
SPECIFICATION FairSpec
INVARIANT TypeOK
INVARIANT ByeIsLast
INVARIANT PassiveGotEverything
INVARIANT RolesAgree
PROPERTY LifeSpec
PROPERTY HangupNoticed
\* Both ends are done.
CHECK_DEADLOCK FALSE
