--------------------------- MODULE ServiceRegistry ---------------------------
(***************************************************************************)
(* The OSP service registry (platform/OSP/src/ServiceRegistry.cpp) and the *)
(* service listeners that follow it (platform/OSP/src/ServiceListener.cpp).*)
(*                                                                         *)
(* Any thread may register or unregister a service, create a listener or   *)
(* destroy one.  The registry's mutex covers only the change of the map:   *)
(* the serviceRegistered / serviceUnregistered events are fired after it   *)
(* is released.  Firing an event copies the list of delegates (a snapshot) *)
(* and then calls them one after the other; a delegate removed meanwhile   *)
(* is disabled, and runs under a mutex of its own (Poco::Delegate).        *)
(*                                                                         *)
(* A ServiceRef is an object: registering a name again makes a new one.    *)
(*                                                                         *)
(* A client's callback returns and throws nothing: an exception would end  *)
(* the notification, and the delegates after it would not be called.       *)
(***************************************************************************)
EXTENDS Naturals, FiniteSets

CONSTANTS
    Threads,    \* the threads that use the registry
    Names,      \* the service names
    Refs,       \* the ServiceRef objects that may be created (bounds the runs)
    Listeners,  \* the ServiceListener objects, each created at most once
    Interest,   \* Interest[l]: the names the query of listener l matches
    NoRef,      \* services[n] = NoRef: no service has the name n
    NoName,     \* nameOf[r] = NoName: r has not been created yet
    NoListener  \* call[t].at = NoListener: no listener is involved

ASSUME InterestAssumption == Interest \in [Listeners -> SUBSET Names]
ASSUME NullsAssumption ==
    /\ NoRef \notin Refs
    /\ NoName \notin Names
    /\ NoListener \notin Listeners

VARIABLES
    services,         \* _services, the name -> ServiceRef map of the registry
    nameOf,           \* the name a ServiceRef was created with
    regDelegates,     \* listeners attached to the registry's serviceRegistered
    unregDelegates,   \* listeners attached to its serviceUnregistered
    life,             \* where each listener is in its life
    refs,             \* _refs of each listener
    notified,         \* refs whose latest event fired to the client of a
                      \* listener was serviceRegistered
    call              \* what each thread is doing

vars == <<services, nameOf, regDelegates, unregDelegates, life, refs, notified,
          call>>

Lives == {"new", "init", "ready", "dying", "dead"}

\* Where a thread can be inside registerService, unregisterService, the
\* constructor of a listener (init) and its destructor.
RegisterPcs == {"fireRegistered", "deliverRegistered", "callRegistered"}
UnregisterPcs == {"fireUnregistered", "deliverUnregistered", "callUnregistered"}
InitPcs == {"attachRegistered", "attachUnregistered", "find", "announce",
            "callAnnounced"}
DestroyPcs == {"detachRegistered", "detachUnregistered"}
Pcs == {"idle"} \cup RegisterPcs \cup UnregisterPcs \cup InitPcs \cup DestroyPcs

\* ref: the service an event is about; at: the listener being called, created
\* or destroyed; to: the snapshot of delegates still to be called; found: the
\* result of find() still to be announced.
Call == [pc: Pcs, ref: Refs \cup {NoRef}, at: Listeners \cup {NoListener},
         to: SUBSET Listeners, found: SUBSET Refs]

IdleCall == [pc |-> "idle", ref |-> NoRef, at |-> NoListener, to |-> {},
             found |-> {}]

Idle(t) == call[t] = IdleCall
At(t, pc) == call[t].pc = pc

\* Delegate::notify() holds the delegate's mutex while the listener's callback
\* runs; nobody else can run or disable that delegate meanwhile.
\* Mutant of RegDelegateFree: disabling a delegate does not wait.
RegDelegateAlwaysFree(l) == TRUE
RegDelegateFree(l) == \A u \in Threads: ~(At(u, "callRegistered") /\ call[u].at = l)
UnregDelegateFree(l) == \A u \in Threads: ~(At(u, "callUnregistered") /\ call[u].at = l)

\* The services now registered that the query of listener l matches.
Matching(l) == {services[n]: n \in Interest[l]} \ {NoRef}

Init ==
    /\ services = [n \in Names |-> NoRef]
    /\ nameOf = [r \in Refs |-> NoName]
    /\ regDelegates = {}
    /\ unregDelegates = {}
    /\ life = [l \in Listeners |-> "new"]
    /\ refs = [l \in Listeners |-> {}]
    /\ notified = [l \in Listeners |-> {}]
    /\ call = [t \in Threads |-> IdleCall]

-----------------------------------------------------------------------------
(* registerService().  An existing name throws and changes nothing. *)

Register(t, n) ==
    /\ Idle(t)
    /\ services[n] = NoRef
    /\ \E r \in Refs:
          /\ nameOf[r] = NoName
          /\ services' = [services EXCEPT ![n] = r]
          /\ nameOf' = [nameOf EXCEPT ![r] = n]
          /\ call' = [call EXCEPT ![t] = [IdleCall EXCEPT !.pc = "fireRegistered", !.ref = r]]
    /\ UNCHANGED <<regDelegates, unregDelegates, life, refs, notified>>

FireRegistered(t) ==
    /\ At(t, "fireRegistered")
    /\ call' = [call EXCEPT ![t].pc = "deliverRegistered", ![t].to = regDelegates]
    /\ UNCHANGED <<services, nameOf, regDelegates, unregDelegates, life, refs,
                   notified>>

\* What onServiceRefRegistered does under the listener's mutex: it inserts a
\* matching ref it does not have yet, and only then calls the client.
Accepts(l, r) == nameOf[r] \in Interest[l] /\ r \notin refs[l]

DeliverRegistered(t, l) ==
    /\ At(t, "deliverRegistered")
    /\ l \in call[t].to
    /\ RegDelegateFree(l)
    /\ IF l \in regDelegates /\ Accepts(l, call[t].ref)
         THEN /\ refs' = [refs EXCEPT ![l] = @ \cup {call[t].ref}]
              /\ call' = [call EXCEPT ![t].pc = "callRegistered", ![t].at = l,
                                      ![t].to = @ \ {l}]
         ELSE /\ call' = [call EXCEPT ![t].to = @ \ {l}]
              /\ UNCHANGED refs
    /\ UNCHANGED <<services, nameOf, regDelegates, unregDelegates, life, notified>>

CallRegistered(t) ==
    /\ At(t, "callRegistered")
    /\ notified' = [notified EXCEPT ![call[t].at] = @ \cup {call[t].ref}]
    /\ call' = [call EXCEPT ![t].pc = "deliverRegistered", ![t].at = NoListener]
    /\ UNCHANGED <<services, nameOf, regDelegates, unregDelegates, life, refs>>

\* Mutant of EndRegister: the event is over before every listener was called.
EndRegisterEarly(t) ==
    /\ At(t, "deliverRegistered")
    /\ call' = [call EXCEPT ![t] = IdleCall]
    /\ UNCHANGED <<services, nameOf, regDelegates, unregDelegates, life, refs,
                   notified>>

EndRegister(t) ==
    /\ At(t, "deliverRegistered")
    /\ call[t].to = {}
    /\ call' = [call EXCEPT ![t] = IdleCall]
    /\ UNCHANGED <<services, nameOf, regDelegates, unregDelegates, life, refs,
                   notified>>

-----------------------------------------------------------------------------
(* unregisterService().  An unknown name throws and changes nothing. *)

\* Mutant of Unregister: an unknown name is not refused.
UnregisterUnknown(t, n) ==
    /\ Idle(t)
    /\ services' = [services EXCEPT ![n] = NoRef]
    /\ call' = [call EXCEPT ![t] = [IdleCall EXCEPT !.pc = "fireUnregistered",
                                                    !.ref = services[n]]]
    /\ UNCHANGED <<nameOf, regDelegates, unregDelegates, life, refs, notified>>

Unregister(t, n) ==
    /\ Idle(t)
    /\ services[n] # NoRef
    /\ services' = [services EXCEPT ![n] = NoRef]
    /\ call' = [call EXCEPT ![t] = [IdleCall EXCEPT !.pc = "fireUnregistered",
                                                    !.ref = services[n]]]
    /\ UNCHANGED <<nameOf, regDelegates, unregDelegates, life, refs, notified>>

FireUnregistered(t) ==
    /\ At(t, "fireUnregistered")
    /\ call' = [call EXCEPT ![t].pc = "deliverUnregistered", ![t].to = unregDelegates]
    /\ UNCHANGED <<services, nameOf, regDelegates, unregDelegates, life, refs,
                   notified>>

\* onServiceRefUnregistered: the client hears of it only if the ref was known.
DeliverUnregistered(t, l) ==
    /\ At(t, "deliverUnregistered")
    /\ l \in call[t].to
    /\ UnregDelegateFree(l)
    /\ IF l \in unregDelegates /\ call[t].ref \in refs[l]
         THEN /\ refs' = [refs EXCEPT ![l] = @ \ {call[t].ref}]
              /\ call' = [call EXCEPT ![t].pc = "callUnregistered", ![t].at = l,
                                      ![t].to = @ \ {l}]
         ELSE /\ call' = [call EXCEPT ![t].to = @ \ {l}]
              /\ UNCHANGED refs
    /\ UNCHANGED <<services, nameOf, regDelegates, unregDelegates, life, notified>>

CallUnregistered(t) ==
    /\ At(t, "callUnregistered")
    /\ notified' = [notified EXCEPT ![call[t].at] = @ \ {call[t].ref}]
    /\ call' = [call EXCEPT ![t].pc = "deliverUnregistered", ![t].at = NoListener]
    /\ UNCHANGED <<services, nameOf, regDelegates, unregDelegates, life, refs>>

EndUnregister(t) ==
    /\ At(t, "deliverUnregistered")
    /\ call[t].to = {}
    /\ call' = [call EXCEPT ![t] = IdleCall]
    /\ UNCHANGED <<services, nameOf, regDelegates, unregDelegates, life, refs,
                   notified>>

-----------------------------------------------------------------------------
(* createListener(): the constructor and ServiceListener::init(). *)

\* The order in which init() does what it does.
\* Mutant of InitOrder: it looks for services before it attaches its delegates.
FindFirst == [first |-> "find", find |-> "attachRegistered",
              attachRegistered |-> "attachUnregistered", attachUnregistered |-> "announce"]
InitOrder == [first |-> "attachRegistered", attachRegistered |-> "attachUnregistered",
              attachUnregistered |-> "find", find |-> "announce"]

CreateListener(t, l) ==
    /\ Idle(t)
    /\ life[l] = "new"
    /\ life' = [life EXCEPT ![l] = "init"]
    /\ call' = [call EXCEPT ![t] = [IdleCall EXCEPT !.pc = InitOrder.first, !.at = l]]
    /\ UNCHANGED <<services, nameOf, regDelegates, unregDelegates, refs, notified>>

AttachRegistered(t) ==
    /\ At(t, "attachRegistered")
    /\ regDelegates' = regDelegates \cup {call[t].at}
    /\ call' = [call EXCEPT ![t].pc = InitOrder.attachRegistered]
    /\ UNCHANGED <<services, nameOf, unregDelegates, life, refs, notified>>

AttachUnregistered(t) ==
    /\ At(t, "attachUnregistered")
    /\ unregDelegates' = unregDelegates \cup {call[t].at}
    /\ call' = [call EXCEPT ![t].pc = InitOrder.attachUnregistered]
    /\ UNCHANGED <<services, nameOf, regDelegates, life, refs, notified>>

\* ServiceRegistry::find() evaluates the query under the registry's mutex.
FindServices(t) ==
    /\ At(t, "find")
    /\ call' = [call EXCEPT ![t].pc = InitOrder.find,
                            ![t].found = Matching(call[t].at)]
    /\ UNCHANGED <<services, nameOf, regDelegates, unregDelegates, life, refs,
                   notified>>

\* init() calls onServiceRefRegistered itself, not through the delegate.
Announce(t, r) ==
    /\ At(t, "announce")
    /\ r \in call[t].found
    /\ LET l == call[t].at IN
         IF Accepts(l, r)
           THEN /\ refs' = [refs EXCEPT ![l] = @ \cup {r}]
                /\ call' = [call EXCEPT ![t].pc = "callAnnounced", ![t].ref = r,
                                        ![t].found = @ \ {r}]
           ELSE /\ call' = [call EXCEPT ![t].found = @ \ {r}]
                /\ UNCHANGED refs
    /\ UNCHANGED <<services, nameOf, regDelegates, unregDelegates, life, notified>>

CallAnnounced(t) ==
    /\ At(t, "callAnnounced")
    /\ notified' = [notified EXCEPT ![call[t].at] = @ \cup {call[t].ref}]
    /\ call' = [call EXCEPT ![t].pc = "announce", ![t].ref = NoRef]
    /\ UNCHANGED <<services, nameOf, regDelegates, unregDelegates, life, refs>>

EndCreate(t) ==
    /\ At(t, "announce")
    /\ call[t].found = {}
    /\ life' = [life EXCEPT ![call[t].at] = "ready"]
    /\ call' = [call EXCEPT ![t] = IdleCall]
    /\ UNCHANGED <<services, nameOf, regDelegates, unregDelegates, refs, notified>>

-----------------------------------------------------------------------------
(* ~ServiceListener().  Removing a delegate disables it, which waits for a *)
(* notification that is running it.                                        *)

DestroyListener(t, l) ==
    /\ Idle(t)
    /\ life[l] = "ready"
    /\ life' = [life EXCEPT ![l] = "dying"]
    /\ call' = [call EXCEPT ![t] = [IdleCall EXCEPT !.pc = "detachRegistered", !.at = l]]
    /\ UNCHANGED <<services, nameOf, regDelegates, unregDelegates, refs, notified>>

DetachRegistered(t) ==
    /\ At(t, "detachRegistered")
    /\ RegDelegateFree(call[t].at)
    /\ regDelegates' = regDelegates \ {call[t].at}
    /\ call' = [call EXCEPT ![t].pc = "detachUnregistered"]
    /\ UNCHANGED <<services, nameOf, unregDelegates, life, refs, notified>>

DetachUnregistered(t) ==
    /\ At(t, "detachUnregistered")
    /\ UnregDelegateFree(call[t].at)
    /\ unregDelegates' = unregDelegates \ {call[t].at}
    /\ life' = [life EXCEPT ![call[t].at] = "dead"]
    /\ call' = [call EXCEPT ![t] = IdleCall]
    /\ UNCHANGED <<services, nameOf, regDelegates, refs, notified>>

-----------------------------------------------------------------------------

\* A thread going on with the call it is in.
Continue(t) ==
    \/ FireRegistered(t) \/ CallRegistered(t) \/ EndRegister(t)
    \/ FireUnregistered(t) \/ CallUnregistered(t) \/ EndUnregister(t)
    \/ \E l \in Listeners: DeliverRegistered(t, l) \/ DeliverUnregistered(t, l)
    \/ AttachRegistered(t) \/ AttachUnregistered(t) \/ FindServices(t)
    \/ \E r \in Refs: Announce(t, r)
    \/ CallAnnounced(t) \/ EndCreate(t)
    \/ DetachRegistered(t) \/ DetachUnregistered(t)

\* A thread starting a call.
Start(t) ==
    \/ \E n \in Names: Register(t, n) \/ Unregister(t, n)
    \/ \E l \in Listeners: CreateListener(t, l) \/ DestroyListener(t, l)

Next == \E t \in Threads: Start(t) \/ Continue(t)

Spec == Init /\ [][Next]_vars

\* Threads that are inside a call go on; nobody has to start one.
FairSpec == Spec /\ \A t \in Threads: WF_vars(Continue(t))

-----------------------------------------------------------------------------
(* Properties *)

\* Inside an event there is a service it is about, inside a listener's code the
\* listener.
RefPcs == RegisterPcs \cup UnregisterPcs \cup {"callAnnounced"}
ListenerPcs == {"callRegistered", "callUnregistered"} \cup InitPcs \cup DestroyPcs
CallType == {c \in Call: /\ c.pc \in RefPcs => c.ref \in Refs
                         /\ c.pc \in ListenerPcs => c.at \in Listeners}

\* Every variable keeps its type; no thread leaves the program points of the
\* four operations.
TypeOK ==
    /\ services \in [Names -> Refs \cup {NoRef}]
    /\ nameOf \in [Refs -> Names \cup {NoName}]
    /\ regDelegates \subseteq Listeners
    /\ unregDelegates \subseteq Listeners
    /\ life \in [Listeners -> Lives]
    /\ refs \in [Listeners -> SUBSET Refs]
    /\ notified \in [Listeners -> SUBSET Refs]
    /\ call \in [Threads -> CallType]

AllIdle == \A t \in Threads: Idle(t)

\* A listener attaches its delegates before it asks the registry for the
\* services already there (ServiceListener::init): whatever the interleaving
\* with registerService() and unregisterService(), once nobody is inside a call
\* its client has been told of every matching service that is registered.
NoMissedService ==
    AllIdle => \A l \in Listeners: life[l] = "ready" => Matching(l) \subseteq notified[l]

\* The client never hears from a listener whose destructor has returned, even
\* when an event that took its snapshot before is still being delivered.
SilentAfterDestroy ==
    [][\A l \in Listeners: life[l] = "dead" => notified'[l] = notified[l]]_vars

\* A service that stays registered is eventually announced to the client of
\* every listener it matches that stays alive.
EventuallyTold ==
    \A l \in Listeners: \A r \in Refs:
        (life[l] = "ready" /\ r \in Matching(l))
            ~> (r \in notified[l] \/ r \notin Matching(l) \/ life[l] # "ready")

\* What ServiceListener.h promises: "when a matching service is unregistered,
\* the serviceUnregistered event is fired".  Once nobody is inside a call, a
\* listener would then hold no service that is no longer registered.
NoStaleService ==
    AllIdle => \A l \in Listeners: life[l] = "ready" => refs[l] \subseteq Matching(l)
=============================================================================
