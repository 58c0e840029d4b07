\* A channel, opened again and again, two local sockets and two workers.
CONSTANTS
    Reports <- ReadableAndException
    MayStop = TRUE
    Losses = {"down"}
    WebSocket = ws
    Locals = {s1, s2}
    Sockets = {ws, s1, s2}
    NoSocket = NoSocket
    Channels = {c1}
    Workers = {w1, w2}
    User = user
    Callers = {user}
    Nobody = Nobody
SPECIFICATION Spec
INVARIANT ForwarderTypeOK
INVARIANT OneReader
INVARIANT SocketsHaveChannels
INVARIANT ReportedOnce
INVARIANT NoHalfOpenChannel
CHECK_DEADLOCK FALSE
SYMMETRY Symmetry
