\* One local socket, that does not fail; the peer may also fall silent.
CONSTANTS
    Reports <- OnlyReadable
    MayStop = TRUE
    Losses = {"down", "silent"}
    WebSocket = ws
    Locals = {s1}
    Sockets = {ws, s1}
    NoSocket = NoSocket
    Channels = {c1}
    Workers = {w1, w2}
    User = user
    Callers = {user}
    Nobody = Nobody
SPECIFICATION Spec
CHECK_DEADLOCK FALSE
PROPERTY LossIsReported
PROPERTY OpenIsAnswered
