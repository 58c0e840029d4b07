------------------------ MODULE ConnectionManagerProofs ------------------------
(***************************************************************************)
(* What ConnectionManager keeps true for any threads, addresses and        *)
(* connections: an address is pending exactly while one thread creates the *)
(* connection to it, and no connection of the manager's own is lost or     *)
(* doubled.                                                                *)
(***************************************************************************)
EXTENDS ConnectionManager, TLAPS

Holds(t, c) == call[t].pc \in {"wait", "insert"} /\ Conn(t) = c
Held(c) == \E t \in Threads: Holds(t, c)
InMap(c) == addrOf[c] \in DOMAIN connections /\ connections[addrOf[c]] = c

\* What a thread in getConnection() knows.
CallInv ==
    \A t \in Threads:
        /\ ~At(t, "idle") => Addr(t) \in Addresses
        /\ Creating(t) => Addr(t) \in pending
        /\ call[t].pc \in {"wait", "insert"} =>
             Conn(t) \in Clients /\ addrOf[Conn(t)] = Addr(t) /\ Conn(t) \notin abandoned
        /\ At(t, "insert") => Conn(t) \in ready

\* Nobody else creates, and every mark has its creator.
OneCreator == \A t, u \in Threads: Creating(t) /\ Creating(u) /\ Addr(t) = Addr(u) => t = u
PendingInv == \A a \in pending: \E t \in Threads: Creating(t) /\ Addr(t) = a

\* A connection is stored under its own address; while another is being created
\* only a server's connection may be there.
MapInv ==
    \A a \in DOMAIN connections:
        /\ addrOf[connections[a]] = a
        /\ a \in pending => connections[a] \in Servers

\* A connection does not run before it is made, and is ready only once established.
LifeInv ==
    \A c \in Conns:
        /\ addrOf[c] = None => life[c] = "new" /\ c \notin abandoned
        /\ c \in ready => life[c] \in {"established", "leaving", "over"}

\* Where the manager's own connections are.
KeptInv ==
    \A c \in Clients: addrOf[c] # None /\ c \notin abandoned =>
        /\ life[c] \in {"new", "opening"} => Held(c)
        /\ life[c] = "established" => Held(c) \/ InMap(c)

IInv ==
    /\ TypeOK
    /\ CallInv
    /\ OneCreator
    /\ PendingInv
    /\ MapInv
    /\ LifeInv
    /\ KeptInv

-----------------------------------------------------------------------------
(* Every step keeps the invariant *)

LEMMA GetConnectionKeeps ==
    ASSUME NEW t \in Threads, NEW a \in Addresses, IInv, GetConnection(t, a)
    PROVE  IInv'
<1>1. TypeOK'
  BY DEF IInv, TypeOK, Pcs, GetConnection, mapVars
<1>2. CallInv'
  BY DEF IInv, CallInv, At, Addr, Conn, Creating, GetConnection, mapVars
<1>3. OneCreator'
  BY DEF IInv, OneCreator, Creating, Addr, GetConnection
<1>4. PendingInv'
  BY DEF IInv, PendingInv, At, Creating, Addr, GetConnection, mapVars
<1>5. MapInv'
  BY DEF IInv, MapInv, GetConnection, mapVars
<1>6. LifeInv'
  BY DEF IInv, LifeInv, GetConnection
<1>7. KeptInv'
  BY DEF IInv, KeptInv, Held, Holds, InMap, At, Conn, GetConnection, mapVars
<1> QED
  BY <1>1, <1>2, <1>3, <1>4, <1>5, <1>6, <1>7 DEF IInv

LEMMA LookupKeeps ==
    ASSUME NEW t \in Threads, IInv, Lookup(t)
    PROVE  IInv'
<1>1. TypeOK'
  <2>1. call' \in [Threads -> [pc: Pcs, addr: Addresses \cup {None}, conn: Clients \cup {None}]]
    BY DEF IInv, TypeOK, Pcs, Lookup, Return, Goto, Idle
  <2>2. DOMAIN connections' \subseteq Addresses /\ Range(connections') \subseteq Conns
    BY DEF IInv, TypeOK, Lookup, Erase, Restrict, Range
  <2>3. pending' \subseteq Addresses
    BY DEF IInv, TypeOK, Lookup, At, CallInv
  <2> QED
    BY <2>1, <2>2, <2>3 DEF IInv, TypeOK, Lookup
<1>2. CallInv'
  BY DEF IInv, CallInv, At, Addr, Conn, Creating, TypeOK, Lookup, Return, Goto, Idle
<1>3. OneCreator'
  BY DEF IInv, OneCreator, CallInv, Creating, Addr, TypeOK, Lookup, Return, Goto, Idle,
     NotPending
<1>4. PendingInv'
  BY DEF IInv, PendingInv, At, Creating, Addr, TypeOK, Lookup, Return, Goto
<1>5. MapInv'
  BY DEF IInv, MapInv, Lookup, Erase, Restrict
<1>6. LifeInv'
  BY DEF IInv, LifeInv, Lookup
<1>7. KeptInv'
  BY DEF IInv, KeptInv, Held, Holds, InMap, At, Conn, TypeOK, Lookup, Return, Goto, Usable,
     Established, Life!InPhase, Erase, Restrict
<1> QED
  BY <1>1, <1>2, <1>3, <1>4, <1>5, <1>6, <1>7 DEF IInv

LEMMA CreateKeeps ==
    ASSUME NEW t \in Threads, IInv, Create(t)
    PROVE  IInv'
<1>1. TypeOK'
  <2>1. PICK c \in Clients: call' = [call EXCEPT ![t].pc = "wait", ![t].conn = c]
    BY DEF Create
  <2>2. call[t] \in [pc: Pcs, addr: Addresses \cup {None}, conn: Clients \cup {None}]
    BY DEF IInv, TypeOK
  <2>3. call' \in [Threads -> [pc: Pcs, addr: Addresses \cup {None}, conn: Clients \cup {None}]]
    BY <2>1, <2>2 DEF IInv, TypeOK, Pcs
  <2>4. addrOf' \in [Conns -> Addresses \cup {None}]
    BY DEF Create, IInv, TypeOK, CallInv, At
  <2> QED
    BY <2>3, <2>4 DEF Create, mapVars, IInv, TypeOK
<1>2. CallInv'
  <2>1. PICK c \in Clients: /\ addrOf[c] = None
                             /\ addrOf' = [addrOf EXCEPT ![c] = Addr(t)]
                             /\ call' = [call EXCEPT ![t].pc = "wait", ![t].conn = c]
    BY DEF Create
  <2>2. c \in Conns /\ c \notin abandoned
    BY <2>1 DEF IInv, LifeInv, Conns
  <2>3. Addr(t) \in Addresses /\ Addr(t) \in pending
    BY DEF IInv, CallInv, Create, At, Creating
  <2>4. \A u \in Threads: u # t => call'[u] = call[u]
    BY <2>1 DEF IInv, TypeOK
  <2>5. /\ call'[t].pc = "wait" /\ call'[t].addr = Addr(t) /\ call'[t].conn = c
        /\ addrOf'[c] = Addr(t)
    BY <2>1, <2>2 DEF IInv, TypeOK, Addr
  <2>6. \A d \in Clients: addrOf[d] # None => addrOf'[d] = addrOf[d]
    BY <2>1 DEF IInv, TypeOK, Conns
  <2>7. pending' = pending /\ ready' = ready /\ abandoned' = abandoned
    BY DEF Create, mapVars
  <2> SUFFICES ASSUME NEW u \in Threads
               PROVE  /\ ~At(u, "idle")' => Addr(u)' \in Addresses
                      /\ Creating(u)' => Addr(u)' \in pending'
                      /\ call'[u].pc \in {"wait", "insert"} =>
                           Conn(u)' \in Clients /\ addrOf'[Conn(u)'] = Addr(u)' /\ Conn(u)' \notin abandoned'
                      /\ At(u, "insert")' => Conn(u)' \in ready'
    BY DEF CallInv
  <2>8. CASE u = t
    BY <2>8, <2>2, <2>3, <2>5, <2>7 DEF At, Addr, Conn
  <2>9. CASE u # t
    <3>1. call[u].pc \in {"wait", "insert"} => addrOf[Conn(u)] # None
      BY ConnectionsAssumption DEF IInv, CallInv, Creating, At
    <3> QED
      BY <2>9, <3>1, <2>4, <2>6, <2>7 DEF IInv, CallInv, At, Addr, Conn, Creating
  <2> QED
    BY <2>8, <2>9
<1>3. OneCreator'
  BY DEF IInv, OneCreator, At, Creating, Addr, TypeOK, Create
<1>4. PendingInv'
  BY DEF IInv, PendingInv, Creating, Addr, TypeOK, Create, mapVars
<1>5. MapInv'
  BY ConnectionsAssumption DEF IInv, MapInv, TypeOK, Create, mapVars
<1>6. LifeInv'
  BY DEF IInv, LifeInv, Create
<1>7. KeptInv'
  BY DEF IInv, KeptInv, Held, Holds, InMap, Conn, TypeOK, Create, mapVars
<1> QED
  BY <1>1, <1>2, <1>3, <1>4, <1>5, <1>6, <1>7 DEF IInv

LEMMA CreateFailsKeeps ==
    ASSUME NEW t \in Threads, IInv, CreateFails(t)
    PROVE  IInv'
<1>1. TypeOK'
  BY DEF IInv, TypeOK, Pcs, CreateFails, Goto, mapVars
<1>2. CallInv'
  BY DEF IInv, CallInv, At, Addr, Conn, Creating, CreateFails, Goto, mapVars
<1>3. OneCreator'
  BY DEF IInv, OneCreator, At, Creating, Addr, CreateFails, Goto
<1>4. PendingInv'
  BY DEF IInv, PendingInv, Creating, Addr, CreateFails, Goto, mapVars
<1>5. MapInv'
  BY DEF IInv, MapInv, CreateFails, mapVars
<1>6. LifeInv'
  BY DEF IInv, LifeInv, CreateFails
<1>7. KeptInv'
  BY DEF IInv, KeptInv, Held, Holds, InMap, At, Conn, CreateFails, Goto, mapVars
<1> QED
  BY <1>1, <1>2, <1>3, <1>4, <1>5, <1>6, <1>7 DEF IInv

LEMMA WaitReadyKeeps ==
    ASSUME NEW t \in Threads, IInv, WaitReady(t)
    PROVE  IInv'
<1>1. TypeOK'
  BY DEF IInv, TypeOK, Pcs, WaitReady, Goto, mapVars
<1>2. CallInv'
  BY DEF IInv, CallInv, At, Addr, Conn, Creating, WaitReady, Goto, mapVars
<1>3. OneCreator'
  BY DEF IInv, OneCreator, At, Creating, Addr, WaitReady, Goto
<1>4. PendingInv'
  BY DEF IInv, PendingInv, Creating, Addr, WaitReady, Goto, mapVars
<1>5. MapInv'
  BY DEF IInv, MapInv, WaitReady, mapVars
<1>6. LifeInv'
  BY DEF IInv, LifeInv, WaitReady
<1>7. KeptInv'
  BY DEF IInv, KeptInv, Held, Holds, InMap, Conn, WaitReady, Goto, mapVars
<1> QED
  BY <1>1, <1>2, <1>3, <1>4, <1>5, <1>6, <1>7 DEF IInv

LEMMA WaitTimesOutKeeps ==
    ASSUME NEW t \in Threads, IInv, WaitTimesOut(t)
    PROVE  IInv'
<1>1. TypeOK'
  <2>1. call[t] \in [pc: Pcs, addr: Addresses \cup {None}, conn: Clients \cup {None}]
    BY DEF IInv, TypeOK
  <2>2. call' \in [Threads -> [pc: Pcs, addr: Addresses \cup {None}, conn: Clients \cup {None}]]
    BY <2>1 DEF IInv, TypeOK, Pcs, WaitTimesOut
  <2>3. Conn(t) \in Clients
    BY DEF IInv, CallInv, WaitTimesOut, At
  <2>4. life' \in [Conns -> Life!Phases]
    BY <2>3 DEF IInv, TypeOK, WaitTimesOut, Life!Phases, Left
  <2> QED
    BY <2>2, <2>3, <2>4 DEF IInv, TypeOK, WaitTimesOut, mapVars
<1>2. CallInv'
  BY ConnectionsAssumption DEF IInv, CallInv, At, Conn, TypeOK, Conns, WaitTimesOut
<1>3. OneCreator'
  BY DEF IInv, OneCreator, At, Creating, Addr, TypeOK, WaitTimesOut
<1>4. PendingInv'
  BY DEF IInv, PendingInv, Creating, Addr, TypeOK, WaitTimesOut, mapVars
<1>5. MapInv'
  BY ConnectionsAssumption DEF IInv, CallInv, At, Conn, TypeOK, Conns, WaitTimesOut
<1>6. LifeInv'
  BY ConnectionsAssumption DEF IInv, LifeInv, CallInv, At, WaitTimesOut
<1>7. KeptInv'
  BY ConnectionsAssumption DEF IInv, CallInv, At, Conn, TypeOK, Conns, WaitTimesOut
<1> QED
  BY <1>1, <1>2, <1>3, <1>4, <1>5, <1>6, <1>7 DEF IInv

LEMMA InsertKeeps ==
    ASSUME NEW t \in Threads, IInv, Insert(t)
    PROVE  IInv'
<1>1. TypeOK'
  <2>1. Addr(t) \in Addresses /\ Conn(t) \in Conns
    BY DEF IInv, Conns, CallInv, Insert, At
  <2>2. DOMAIN connections' = DOMAIN connections \cup {Addr(t)}
    BY DEF Insert, Put, Addr
  <2>3. \A x \in DOMAIN connections': connections'[x] = Conn(t) \/ (x \in DOMAIN connections /\ connections'[x] = connections[x])
    BY DEF Insert, Put, Addr
  <2>4. call' \in [Threads -> [pc: Pcs, addr: Addresses \cup {None}, conn: Clients \cup {None}]]
    BY DEF IInv, TypeOK, Pcs, Insert, Return, Idle
  <2>5. DOMAIN connections' \subseteq Addresses /\ Range(connections') \subseteq Conns
    BY <2>1, <2>2, <2>3 DEF IInv, TypeOK, Range
  <2> QED
    BY <2>4, <2>5 DEF IInv, TypeOK, Insert
<1>2. CallInv'
  <2> SUFFICES ASSUME NEW u \in Threads, u # t
               PROVE  /\ ~At(u, "idle") => Addr(u) \in Addresses
                      /\ Creating(u) => Addr(u) \in pending'
                      /\ call[u].pc \in {"wait", "insert"} =>
                           Conn(u) \in Clients /\ addrOf[Conn(u)] = Addr(u) /\ Conn(u) \notin abandoned
                      /\ At(u, "insert") => Conn(u) \in ready
    BY DEF IInv, TypeOK, CallInv, Insert, Return, Idle, At, Addr, Conn, Creating
  <2>1. Creating(t) /\ (Creating(u) => Addr(u) # Addr(t))
    BY DEF IInv, OneCreator, Insert, At, Creating
  <2> QED
    BY <2>1 DEF IInv, CallInv, Insert
<1>3. OneCreator'
  BY DEF IInv, OneCreator, Creating, Addr, Insert, Return, Idle
<1>4. PendingInv'
  BY DEF IInv, PendingInv, Creating, Addr, Insert, Return
<1>5. MapInv'
  BY DEF IInv, MapInv, CallInv, At, Insert, Put
<1>6. LifeInv'
  BY DEF IInv, LifeInv, Insert
<1>7. KeptInv'
  BY ConnectionsAssumption DEF IInv, KeptInv, Held, Holds, InMap, CallInv, LifeInv, MapInv,
     At, Conn, Creating, TypeOK, Insert, Put, Return
<1> QED
  BY <1>1, <1>2, <1>3, <1>4, <1>5, <1>6, <1>7 DEF IInv

LEMMA GiveUpKeeps ==
    ASSUME NEW t \in Threads, IInv, GiveUp(t)
    PROVE  IInv'
<1>1. TypeOK'
  BY DEF IInv, TypeOK, Pcs, GiveUp, Return, Idle
<1>2. CallInv'
  <2> SUFFICES ASSUME NEW u \in Threads, u # t
               PROVE  /\ ~At(u, "idle") => Addr(u) \in Addresses
                      /\ Creating(u) => Addr(u) \in pending'
                      /\ call[u].pc \in {"wait", "insert"} =>
                           Conn(u) \in Clients /\ addrOf[Conn(u)] = Addr(u) /\ Conn(u) \notin abandoned
                      /\ At(u, "insert") => Conn(u) \in ready
    BY DEF IInv, TypeOK, CallInv, GiveUp, Return, Idle, At, Addr, Conn, Creating
  <2>1. Creating(t) /\ (Creating(u) => Addr(u) # Addr(t))
    BY DEF IInv, OneCreator, GiveUp, At, Creating
  <2> QED
    BY <2>1 DEF IInv, CallInv, GiveUp
<1>3. OneCreator'
  BY DEF IInv, OneCreator, Creating, Addr, GiveUp, Return, Idle
<1>4. PendingInv'
  BY DEF IInv, PendingInv, Creating, Addr, GiveUp, Return
<1>5. MapInv'
  BY DEF IInv, MapInv, GiveUp
<1>6. LifeInv'
  BY DEF IInv, LifeInv, GiveUp
<1>7. KeptInv'
  BY DEF IInv, KeptInv, Held, Holds, InMap, At, Conn, GiveUp, Return
<1> QED
  BY <1>1, <1>2, <1>3, <1>4, <1>5, <1>6, <1>7 DEF IInv

LEMMA FindConnectionKeeps ==
    ASSUME NEW a \in Addresses, IInv, FindConnection(a)
    PROVE  IInv'
<1>1. TypeOK'
  BY DEF IInv, TypeOK, Range, FindConnection, Erase, Restrict
<1>2. CallInv'
  BY DEF IInv, CallInv, At, Addr, Conn, Creating, FindConnection
<1>3. OneCreator'
  BY DEF IInv, OneCreator, Creating, Addr, FindConnection
<1>4. PendingInv'
  BY DEF IInv, PendingInv, Creating, Addr, FindConnection
<1>5. MapInv'
  BY DEF IInv, MapInv, FindConnection, Erase, Restrict
<1>6. LifeInv'
  BY DEF IInv, LifeInv, FindConnection
<1>7. KeptInv'
  BY DEF IInv, KeptInv, Held, Holds, InMap, Conn, FindConnection, Established, Life!InPhase,
     Erase, Restrict
<1> QED
  BY <1>1, <1>2, <1>3, <1>4, <1>5, <1>6, <1>7 DEF IInv

LEMMA RegisterConnectionKeeps ==
    ASSUME NEW c \in Servers, NEW a \in Addresses, IInv, RegisterConnection(c, a)
    PROVE  IInv'
<1>1. TypeOK'
  <2>1. a \in Addresses /\ c \in Conns
    BY DEF IInv, Conns
  <2>2. DOMAIN connections' = DOMAIN connections \cup {a}
    BY DEF RegisterConnection, Put
  <2>3. \A x \in DOMAIN connections': connections'[x] = c \/ (x \in DOMAIN connections /\ connections'[x] = connections[x])
    BY DEF RegisterConnection, Put
  <2>4. addrOf' \in [Conns -> Addresses \cup {None}]
    BY DEF IInv, TypeOK, RegisterConnection
  <2>5. DOMAIN connections' \subseteq Addresses /\ Range(connections') \subseteq Conns
    BY <2>1, <2>2, <2>3 DEF IInv, TypeOK, Range
  <2>6. life' \in [Conns -> Life!Phases]
    BY DEF IInv, TypeOK, RegisterConnection, Life!Phases, Left
  <2> QED
    BY <2>4, <2>5, <2>6 DEF IInv, TypeOK, RegisterConnection
<1>2. CallInv'
  BY ConnectionsAssumption DEF IInv, CallInv, At, Addr, Conn, Creating, RegisterConnection
<1>3. OneCreator'
  BY DEF IInv, OneCreator, Creating, Addr, RegisterConnection
<1>4. PendingInv'
  BY DEF IInv, PendingInv, Creating, Addr, RegisterConnection
<1>5. MapInv'
  BY ConnectionsAssumption DEF IInv, MapInv, TypeOK, Conns, RegisterConnection, Put
<1>6. LifeInv'
  BY DEF IInv, LifeInv, RegisterConnection, Left, Established, Life!InPhase
<1>7. KeptInv'
  BY ConnectionsAssumption DEF IInv, KeptInv, Held, Holds, InMap, Conn, TypeOK, Conns,
     RegisterConnection, Left, Established, Life!InPhase, Put
<1> QED
  BY <1>1, <1>2, <1>3, <1>4, <1>5, <1>6, <1>7 DEF IInv

LEMMA UnregisterConnectionKeeps ==
    ASSUME NEW c \in Servers, IInv, UnregisterConnection(c)
    PROVE  IInv'
<1>1. TypeOK'
  BY DEF IInv, TypeOK, Range, UnregisterConnection, Restrict
<1>2. CallInv'
  BY DEF IInv, CallInv, At, Addr, Conn, Creating, UnregisterConnection
<1>3. OneCreator'
  BY DEF IInv, OneCreator, Creating, Addr, UnregisterConnection
<1>4. PendingInv'
  BY DEF IInv, PendingInv, Creating, Addr, UnregisterConnection
<1>5. MapInv'
  BY DEF IInv, MapInv, UnregisterConnection, Restrict
<1>6. LifeInv'
  BY DEF IInv, LifeInv, UnregisterConnection
<1>7. KeptInv'
  BY ConnectionsAssumption DEF IInv, KeptInv, Held, Holds, InMap, Conn, UnregisterConnection,
     Restrict
<1> QED
  BY <1>1, <1>2, <1>3, <1>4, <1>5, <1>6, <1>7 DEF IInv

LEMMA ShutdownKeeps ==
    ASSUME IInv, Shutdown
    PROVE  IInv'
<1>1. TypeOK'
  BY DEF IInv, TypeOK, Life!Phases, Range, Shutdown, Left
<1>2. CallInv'
  BY DEF IInv, CallInv, At, Addr, Conn, Creating, Shutdown
<1>3. OneCreator'
  BY DEF IInv, OneCreator, Creating, Addr, Shutdown
<1>4. PendingInv'
  BY DEF IInv, PendingInv, Creating, Addr, Shutdown
<1>5. MapInv'
  BY DEF MapInv, Shutdown
<1>6. LifeInv'
  BY DEF IInv, LifeInv, Shutdown, Left, Established, Life!InPhase
<1>7. KeptInv'
  BY DEF IInv, KeptInv, Held, Holds, InMap, Conn, Conns, Shutdown, Registered, Left,
     Established, Life!InPhase
<1> QED
  BY <1>1, <1>2, <1>3, <1>4, <1>5, <1>6, <1>7 DEF IInv

LEMMA ConnectionStepKeeps ==
    ASSUME NEW c \in Conns, IInv, ConnectionStep(c)
    PROVE  IInv'
<1>1. TypeOK'
  BY DEF IInv, TypeOK, Life!Phases, ConnectionStep, mapVars, Life!Begin, Life!Establish,
     Life!Fail, Life!Leave, Life!Finish, Life!Become
<1>2. CallInv'
  BY DEF IInv, CallInv, At, Addr, Conn, Creating, ConnectionStep, mapVars
<1>3. OneCreator'
  BY DEF IInv, OneCreator, Creating, Addr, ConnectionStep
<1>4. PendingInv'
  BY DEF IInv, PendingInv, Creating, Addr, ConnectionStep, mapVars
<1>5. MapInv'
  BY DEF IInv, MapInv, ConnectionStep, mapVars
<1>6. LifeInv'
  BY DEF IInv, LifeInv, TypeOK, ConnectionStep, Life!Begin, Life!Establish, Life!Fail,
     Life!Leave, Life!Finish, Life!InPhase, Life!Become
<1>7. KeptInv'
  BY DEF IInv, KeptInv, Held, Holds, InMap, Conn, TypeOK, Conns, ConnectionStep, mapVars,
     Life!Begin, Life!Establish, Life!Fail, Life!Leave, Life!Finish, Life!InPhase, Life!Become
<1> QED
  BY <1>1, <1>2, <1>3, <1>4, <1>5, <1>6, <1>7 DEF IInv

LEMMA SetReadyKeeps ==
    ASSUME NEW c \in Conns, IInv, SetReady(c)
    PROVE  IInv'
<1>1. TypeOK'
  BY DEF IInv, TypeOK, SetReady, mapVars
<1>2. CallInv'
  BY DEF IInv, CallInv, At, Addr, Conn, Creating, SetReady, mapVars
<1>3. OneCreator'
  BY DEF IInv, OneCreator, Creating, Addr, SetReady
<1>4. PendingInv'
  BY DEF IInv, PendingInv, Creating, Addr, SetReady, mapVars
<1>5. MapInv'
  BY DEF IInv, MapInv, SetReady, mapVars
<1>6. LifeInv'
  BY DEF IInv, LifeInv, SetReady
<1>7. KeptInv'
  BY DEF IInv, KeptInv, Held, Holds, InMap, Conn, SetReady, mapVars
<1> QED
  BY <1>1, <1>2, <1>3, <1>4, <1>5, <1>6, <1>7 DEF IInv

\* A step of Next, or none, keeps the invariant.
LEMMA Inductive == IInv /\ [Next]_vars => IInv'
<1> SUFFICES ASSUME IInv, [Next]_vars PROVE IInv'
  OBVIOUS
<1>1. ASSUME NEW t \in Threads, ThreadStep(t) PROVE IInv'
  BY <1>1, LookupKeeps, CreateKeeps, CreateFailsKeeps, WaitReadyKeeps, WaitTimesOutKeeps,
     InsertKeeps, GiveUpKeeps DEF ThreadStep
<1>2. ASSUME NEW t \in Threads, NEW a \in Addresses, GetConnection(t, a) PROVE IInv'
  BY <1>2, GetConnectionKeeps
<1>3. ASSUME NEW a \in Addresses, FindConnection(a) PROVE IInv'
  BY <1>3, FindConnectionKeeps
<1>4. ASSUME NEW c \in Servers, NEW a \in Addresses, RegisterConnection(c, a) PROVE IInv'
  BY <1>4, RegisterConnectionKeeps
<1>5. ASSUME NEW c \in Servers, UnregisterConnection(c) PROVE IInv'
  BY <1>5, UnregisterConnectionKeeps
<1>6. CASE Shutdown
  BY <1>6, ShutdownKeeps
<1>7. ASSUME NEW c \in Conns, ConnectionStep(c) \/ SetReady(c) PROVE IInv'
  BY <1>7, ConnectionStepKeeps, SetReadyKeeps
<1>8. CASE UNCHANGED vars
  BY <1>8 DEF IInv, vars, TypeOK, CallInv, OneCreator, PendingInv, MapInv, LifeInv, KeptInv,
     Held, Holds, InMap, At, Addr, Conn, Creating
<1> QED
  BY <1>1, <1>2, <1>3, <1>4, <1>5, <1>6, <1>7, <1>8 DEF Next

LEMMA Initially == Init => IInv
  BY DEF Init, Idle, Life!Init, Life!Phases, IInv, TypeOK, Pcs, Conns, Range,
     CallInv, OneCreator, PendingInv, MapInv, LifeInv, KeptInv, At, Addr, Conn, Creating

LEMMA Always == Spec => []IInv
  BY Initially, Inductive, PTL DEF Spec

-----------------------------------------------------------------------------
(* The properties *)

\* Every variable of the manager keeps its type.
THEOREM TypeCorrect == Spec => []TypeOK
<1>1. IInv => TypeOK
  BY DEF IInv
<1> QED
  BY <1>1, Always, PTL

LEMMA CreatorsAreMarked == IInv => PendingIsCreating
<1> SUFFICES ASSUME IInv PROVE PendingIsCreating
  OBVIOUS
<1>1. \A a \in pending: \E t \in Threads: Creating(t) /\ Addr(t) = a
  BY DEF IInv, PendingInv
<1>2. \A t \in Threads: Creating(t) => Addr(t) \in pending
  BY DEF IInv, CallInv
<1>3. pending = {Addr(t): t \in {u \in Threads: Creating(u)}}
  BY <1>1, <1>2
<1> QED
  BY <1>3 DEF IInv, OneCreator, PendingIsCreating

\* An address is pending exactly while one thread creates the connection to it,
\* whatever fails: getConnection() erases it on every way out.
THEOREM NoAddressLeftPending == Spec => []PendingIsCreating
  BY CreatorsAreMarked, Always, PTL

LEMMA KeptIsMade == ASSUME IInv, NEW c \in Clients, Kept(c) PROVE addrOf[c] # None
  BY DEF IInv, LifeInv, Kept, Established, Life!InPhase, Conns

LEMMA KeptIsKnown == IInv => NoConnectionLost
<1> SUFFICES ASSUME IInv, NEW c \in Clients, Kept(c)
             PROVE  \/ addrOf[c] \in DOMAIN connections /\ connections[addrOf[c]] = c
                    \/ \E t \in Threads: Creating(t) /\ Conn(t) = c
  BY DEF NoConnectionLost
<1>1. Held(c) \/ InMap(c)
  BY KeptIsMade DEF IInv, KeptInv, Kept, Established, Life!InPhase
<1> QED
  BY <1>1 DEF Held, Holds, InMap, Creating

\* An established connection of the manager's own is in the map or held by the
\* thread that creates it.
THEOREM NoneIsLost == Spec => []NoConnectionLost
  BY KeptIsKnown, Always, PTL

LEMMA KeptIsUnique == IInv => OneConnectionPerAddress
<1> SUFFICES ASSUME IInv, NEW c \in Clients, NEW d \in Clients, Kept(c), Kept(d), addrOf[c] = addrOf[d]
             PROVE  c = d
  BY DEF OneConnectionPerAddress
<1>1. (Held(c) \/ InMap(c)) /\ (Held(d) \/ InMap(d))
  BY KeptIsMade DEF IInv, KeptInv, Kept, Established, Life!InPhase
<1>2. \A e \in Clients: Held(e) => addrOf[e] \in pending
  BY DEF IInv, CallInv, Held, Holds, Creating
<1>3. \A e \in Clients: InMap(e) => addrOf[e] \notin pending
  BY ConnectionsAssumption DEF IInv, MapInv, InMap
<1>4. CASE Held(c) /\ Held(d)
  BY <1>4 DEF IInv, CallInv, OneCreator, Held, Holds, Creating
<1>5. CASE InMap(c) /\ InMap(d)
  BY <1>5 DEF InMap
<1> QED
  BY <1>1, <1>2, <1>3, <1>4, <1>5

\* Two threads that ask for one endpoint never get two connections that both live.
THEOREM ConnectionsAreShared == Spec => []OneConnectionPerAddress
  BY KeptIsUnique, Always, PTL
=============================================================================
