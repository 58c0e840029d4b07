--------------------------- MODULE ConnectionManager ---------------------------
(***************************************************************************)
(* The connections a process shares                                        *)
(* (platform/RemotingNG/TCP/src/ConnectionManager.cpp): threads ask for the*)
(* connection to an endpoint and create it when there is none, servers     *)
(* register the connections they accept, and shutdown() closes them all.   *)
(*                                                                         *)
(* What the connections do meanwhile is ConnectionLife, which TcpConnection*)
(* implements.  The manager's mutex is held by every operation except while*)
(* a connection is being created, and while getConnection() sleeps; what it*)
(* is held for is one step here.                                           *)
(***************************************************************************)
EXTENDS Functions

CONSTANTS
    Threads,        \* the threads that call getConnection()
    Addresses,      \* socket addresses of peers
    Clients,        \* connections that createConnection() may make (bounds the runs)
    Servers,        \* connections that a server may accept (bounds the runs)
    None            \* no address, no connection

Conns == Clients \cup Servers

ASSUME ConnectionsAssumption ==
    /\ Clients \cap Servers = {}
    /\ None \notin Conns \cup Addresses

VARIABLES
    life,           \* the phase of each connection
    addrOf,         \* the peer's address of each connection, None until it is made
    ready,          \* the connections whose _ready event is set
    connections,    \* _connections, a function on some of the addresses
    pending,        \* _pendingConnections
    call,           \* each thread's getConnection(): where, for which address, with what
    serving,        \* the connections whose ServerConnection::run() has registered them
    abandoned,      \* the connections createConnection() gave up
    shut            \* the connections that were in _connections at a shutdown()

vars == <<life, addrOf, ready, connections, pending, call, serving, abandoned, shut>>
mapVars == <<connections, pending, shut>>

Life == INSTANCE ConnectionLife

Idle == [pc |-> "idle", addr |-> None, conn |-> None]
At(t, p) == call[t].pc = p
Addr(t) == call[t].addr
Conn(t) == call[t].conn
Goto(t, p) == call' = [call EXCEPT ![t].pc = p]
Return(t) == call' = [call EXCEPT ![t] = Idle]

Established(c) == Life!InPhase(c, "established")
Registered(c) == \E a \in DOMAIN connections: connections[a] = c
Put(f, a, c) == [x \in DOMAIN f \cup {a} |-> IF x = a THEN c ELSE f[x]]
Erase(f, a) == Restrict(f, DOMAIN f \ {a})
\* close() and abort() do nothing unless the connection is established.
Left(c) == IF Established(c) THEN "leaving" ELSE life[c]

Init ==
    /\ Life!Init
    /\ addrOf = [c \in Conns |-> None]
    /\ ready = {}
    /\ connections = <<>>
    /\ pending = {}
    /\ call = [t \in Threads |-> Idle]
    /\ serving = {}
    /\ abandoned = {}
    /\ shut = {}

-----------------------------------------------------------------------------
(* getConnection() and createConnection() *)

GetConnection(t, a) ==
    /\ At(t, "idle")
    /\ call' = [call EXCEPT ![t] = [pc |-> "lookup", addr |-> a, conn |-> None]]
    /\ UNCHANGED <<life, addrOf, ready, mapVars, serving, abandoned>>

Usable(a) == a \in DOMAIN connections /\ Established(connections[a])

\* Mutant of NotPending: a connection is created while another thread creates it.
NeverPending(a) == TRUE
NotPending(a) == a \notin pending

Lookup(t) ==
    /\ At(t, "lookup") /\ NotPending(Addr(t))
    /\ IF Usable(Addr(t))
         THEN Return(t) /\ UNCHANGED <<connections, pending>>
         ELSE /\ connections' = Erase(connections, Addr(t))
              /\ pending' = pending \cup {Addr(t)}
              /\ Goto(t, "create")
    /\ UNCHANGED <<life, addrOf, ready, serving, abandoned, shut>>

Create(t) ==
    /\ At(t, "create")
    /\ \E c \in Clients:
         /\ addrOf[c] = None
         /\ addrOf' = [addrOf EXCEPT ![c] = Addr(t)]
         /\ call' = [call EXCEPT ![t].pc = "wait", ![t].conn = c]
    /\ UNCHANGED <<life, ready, mapVars, serving, abandoned>>

\* Mutant of CreateFails: the exception is swallowed.
CreateFailsSilently(t) ==
    /\ At(t, "create")
    /\ Goto(t, "insert")
    /\ UNCHANGED <<life, addrOf, ready, mapVars, serving, abandoned>>

\* The socket factory or the thread pool throws.
CreateFails(t) ==
    /\ At(t, "create")
    /\ Goto(t, "giveUp")
    /\ UNCHANGED <<life, addrOf, ready, mapVars, serving, abandoned>>

WaitReady(t) ==
    /\ At(t, "wait") /\ Conn(t) \in ready
    /\ Goto(t, "insert")
    /\ UNCHANGED <<life, addrOf, ready, mapVars, serving, abandoned>>

\* Mutant of WaitTimesOut: the thread waits for as long as it takes.
NoTimeOut(t) == FALSE

\* waitReady() waits for a fixed time, which a handshake, whose timeout can be
\* configured, may exceed.
WaitTimesOut(t) ==
    /\ At(t, "wait") /\ Conn(t) \notin ready
    /\ life' = [life EXCEPT ![Conn(t)] = Left(Conn(t))]
    /\ abandoned' = abandoned \cup {Conn(t)}
    /\ call' = [call EXCEPT ![t].pc = "giveUp", ![t].conn = None]
    /\ UNCHANGED <<addrOf, ready, mapVars, serving>>

Insert(t) ==
    /\ At(t, "insert")
    /\ pending' = pending \ {Addr(t)}
    /\ connections' = Put(connections, Addr(t), Conn(t))
    /\ Return(t)
    /\ UNCHANGED <<life, addrOf, ready, serving, abandoned, shut>>

\* Mutant of GiveUp: the address stays pending when the creation throws.
GiveUpPending(t) ==
    /\ At(t, "giveUp")
    /\ Return(t)
    /\ UNCHANGED <<life, addrOf, ready, mapVars, serving, abandoned>>

GiveUp(t) ==
    /\ At(t, "giveUp")
    /\ pending' = pending \ {Addr(t)}
    /\ Return(t)
    /\ UNCHANGED <<life, addrOf, ready, connections, serving, abandoned, shut>>

-----------------------------------------------------------------------------
(* The other operations *)

\* A connection that is found is returned, which changes nothing.
FindConnection(a) ==
    /\ a \in DOMAIN connections /\ ~Established(connections[a])
    /\ connections' = Erase(connections, a)
    /\ UNCHANGED <<life, addrOf, ready, pending, call, serving, abandoned, shut>>

\* ServerConnection::run() registers its connection before it runs it ...
RegisterConnection(c, a) ==
    /\ addrOf[c] = None
    /\ addrOf' = [addrOf EXCEPT ![c] = a]
    /\ serving' = serving \cup {c}
    /\ life' = IF a \in DOMAIN connections
                 THEN [life EXCEPT ![connections[a]] = Left(connections[a])]
                 ELSE life
    /\ connections' = Put(connections, a, c)
    /\ UNCHANGED <<ready, pending, call, abandoned, shut>>

\* ... and unregisters it afterwards.
UnregisterConnection(c) ==
    /\ c \in serving /\ Life!InPhase(c, "over")
    /\ serving' = serving \ {c}
    /\ connections' = Restrict(connections, {a \in DOMAIN connections: connections[a] # c})
    /\ UNCHANGED <<life, addrOf, ready, pending, call, abandoned, shut>>

\* Mutant of Shutdown: the connections are forgotten and not closed.
ShutdownOpen ==
    /\ shut' = shut \cup Range(connections)
    /\ connections' = <<>>
    /\ UNCHANGED <<life, addrOf, ready, pending, call, serving, abandoned>>

Shutdown ==
    /\ life' = [c \in Conns |-> IF Registered(c) THEN Left(c) ELSE life[c]]
    /\ shut' = shut \cup Range(connections)
    /\ connections' = <<>>
    /\ UNCHANGED <<addrOf, ready, pending, call, serving, abandoned>>

-----------------------------------------------------------------------------
(* Connection::run() *)

ConnectionStep(c) ==
    /\ \/ addrOf[c] # None /\ Life!Begin(c)
       \/ Life!Establish(c)
       \/ Life!Fail(c)
       \/ Life!Leave(c)
       \/ c \in ready /\ Life!Finish(c)
    /\ UNCHANGED <<addrOf, ready, mapVars, call, serving, abandoned>>

\* run() sets the event between establishing the connection and its loop.
SetReady(c) ==
    /\ life[c] \in {"established", "leaving"} /\ c \notin ready
    /\ ready' = ready \cup {c}
    /\ UNCHANGED <<life, addrOf, mapVars, call, serving, abandoned>>

ThreadStep(t) ==
    \/ Lookup(t) \/ Create(t) \/ CreateFails(t) \/ WaitReady(t) \/ WaitTimesOut(t)
    \/ Insert(t) \/ GiveUp(t)

Next ==
    \/ \E t \in Threads: ThreadStep(t) \/ \E a \in Addresses: GetConnection(t, a)
    \/ \E a \in Addresses: FindConnection(a)
    \/ \E c \in Servers: UnregisterConnection(c) \/ \E a \in Addresses: RegisterConnection(c, a)
    \/ Shutdown
    \/ \E c \in Conns: ConnectionStep(c) \/ SetReady(c)

Spec == Init /\ [][Next]_vars

\* The threads that are in getConnection() go on, also when a handshake does not.
FairSpec == Spec /\ \A t \in Threads: WF_vars(ThreadStep(t))

-----------------------------------------------------------------------------
(* Properties *)

Pcs == {"idle", "lookup", "create", "wait", "insert", "giveUp"}

\* Every variable keeps its type.
TypeOK ==
    /\ life \in [Conns -> Life!Phases]
    /\ addrOf \in [Conns -> Addresses \cup {None}]
    /\ ready \subseteq Conns
    /\ DOMAIN connections \subseteq Addresses /\ Range(connections) \subseteq Conns
    /\ pending \subseteq Addresses
    /\ call \in [Threads -> [pc: Pcs, addr: Addresses \cup {None}, conn: Clients \cup {None}]]
    /\ serving \subseteq Servers /\ abandoned \subseteq Clients /\ shut \subseteq Conns

Creating(t) == call[t].pc \in {"create", "wait", "insert", "giveUp"}

\* An address is pending exactly while one thread creates the connection to it:
\* no exception leaves it pending, which would make every later getConnection()
\* wait for ever, and no two threads create it.
PendingIsCreating ==
    /\ pending = {Addr(t): t \in {u \in Threads: Creating(u)}}
    /\ \A t, u \in Threads: Creating(t) /\ Creating(u) /\ Addr(t) = Addr(u) => t = u

Kept(c) == Established(c) /\ c \notin abandoned

\* Threads that ask for the same endpoint share one connection: there are never two
\* established connections of the manager's own to one address.
OneConnectionPerAddress ==
    \A c, d \in Clients: Kept(c) /\ Kept(d) /\ addrOf[c] = addrOf[d] => c = d

\* An established connection that the manager made is in its map, or in the hands
\* of the thread that is creating it: neither a shutdown, nor a server's connection
\* with the same address, nor a search leaves it open and unknown.
NoConnectionLost ==
    \A c \in Clients: Kept(c) =>
        \/ addrOf[c] \in DOMAIN connections /\ connections[addrOf[c]] = c
        \/ \E t \in Threads: Creating(t) /\ Conn(t) = c

\* An address does not stay pending: however the creation ends, those who wait
\* for it go on.
PendingEnds == \A a \in Addresses: a \in pending ~> a \notin pending

\* What ConnectionManager.h says of shutdown(): it closes all connections.
ShutdownCloses == \A c \in shut: ~Established(c)
=============================================================================
