\* A shutdown while a server's connection is in its handshake.
CONSTANTS
    Threads = {t1}
    Addresses = {a1}
    Clients = {c1}
    Servers = {s1}
    None = None
SPECIFICATION Spec
INVARIANT ShutdownCloses
