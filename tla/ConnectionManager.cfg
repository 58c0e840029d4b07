\* Three threads that ask for the same endpoint; one connection may be abandoned or
\* leave before the next is made, and a server may accept the same peer.
CONSTANTS
    Threads = {t1, t2, t3}
    Addresses = {a1}
    Clients = {c1, c2}
    Servers = {s1}
    None = None
SPECIFICATION FairSpec
INVARIANT TypeOK
INVARIANT PendingIsCreating
INVARIANT OneConnectionPerAddress
INVARIANT NoConnectionLost
PROPERTY PendingEnds
