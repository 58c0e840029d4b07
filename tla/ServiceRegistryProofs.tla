------------------------ MODULE ServiceRegistryProofs ------------------------
(***************************************************************************)
(* Theorems about ServiceRegistry, for any sets of threads, names, services*)
(* and listeners and any queries.                                          *)
(***************************************************************************)
EXTENDS ServiceRegistry, TLAPS

-----------------------------------------------------------------------------
(* The inductive invariant *)

Created(r) == nameOf[r] # NoName

\* The map and the objects agree; whatever a thread or a listener holds exists.
RegistryOK ==
    /\ \A n \in Names: services[n] # NoRef => nameOf[services[n]] = n
    /\ \A l \in Listeners: \A r \in refs[l]: Created(r)
    /\ \A t \in Threads: /\ call[t].pc \in RefPcs => Created(call[t].ref)
                         /\ \A r \in call[t].found: Created(r)

\* The service an unregistration tells of is registered under no name.
UnregisteredIsGone ==
    \A t \in Threads: call[t].pc \in UnregisterPcs =>
        \A n \in Names: services[n] # call[t].ref

\* A listener is constructed, and destroyed, by one thread.
OneOwner ==
    /\ \A t \in Threads:
          /\ call[t].pc \in InitPcs => life[call[t].at] = "init"
          /\ call[t].pc \in DestroyPcs => life[call[t].at] = "dying"
    /\ \A t, u \in Threads:
          /\ call[t].pc \in InitPcs \cup DestroyPcs
          /\ call[u].pc \in InitPcs \cup DestroyPcs
          /\ call[t].at = call[u].at
          => t = u

AttachedPcs == {"attachUnregistered", "find", "announce", "callAnnounced"}

\* Who is attached, and that a delegate that is running still is.
DelegatesOK ==
    /\ \A l \in Listeners:
          /\ life[l] = "ready" => l \in regDelegates
          /\ life[l] = "dead" => l \notin regDelegates /\ l \notin unregDelegates
    /\ \A t \in Threads:
          /\ call[t].pc \in AttachedPcs => call[t].at \in regDelegates
          /\ At(t, "detachUnregistered") => call[t].at \notin regDelegates
          /\ At(t, "callRegistered") => call[t].at \in regDelegates
          /\ At(t, "callUnregistered") => call[t].at \in unregDelegates

\* l has asked the registry what is there, and is not being destroyed.
Follows(l) ==
    \/ life[l] = "ready"
    \/ \E t \in Threads: call[t].pc \in {"announce", "callAnnounced"} /\ call[t].at = l

\* Thread t is going to offer service r to listener l.
Offers(t, l, r) ==
    \/ call[t].ref = r /\ At(t, "fireRegistered")
    \/ /\ call[t].ref = r /\ call[t].pc \in {"deliverRegistered", "callRegistered"}
       /\ l \in call[t].to
    \/ /\ call[t].at = l /\ call[t].pc \in {"announce", "callAnnounced"}
       /\ r \in call[t].found

Tells(t, l, r) ==
    call[t].pc \in {"callRegistered", "callAnnounced"} /\ call[t].at = l /\ call[t].ref = r

\* A registered service is known to every listener that follows its name, or on
\* its way.
KnownOrOffered ==
    \A l \in Listeners: \A n \in Interest[l]:
        services[n] # NoRef /\ Follows(l)
            => services[n] \in refs[l] \/ \E t \in Threads: Offers(t, l, services[n])

\* A registered service a listener knows has been told to its client, or a
\* thread is about to tell.
ToldOrTelling ==
    \A l \in Listeners: \A n \in Interest[l]:
        services[n] # NoRef /\ services[n] \in refs[l]
            => services[n] \in notified[l] \/ \E t \in Threads: Tells(t, l, services[n])

IInv == /\ TypeOK /\ RegistryOK /\ UnregisteredIsGone /\ OneOwner /\ DelegatesOK
        /\ KnownOrOffered /\ ToldOrTelling

-----------------------------------------------------------------------------
(* Type correctness *)

\* What a thread's record becomes when it takes a snapshot of delegates, calls
\* the next one, has found services, or only moves on.
LEMMA CallToType ==
    ASSUME NEW c \in Call, NEW pc \in Pcs, NEW D \in SUBSET Listeners,
           NEW x \in Listeners \cup {NoListener}
    PROVE  /\ [c EXCEPT !.pc = pc, !.to = D] \in Call
           /\ [c EXCEPT !.to = D] \in Call
           /\ [c EXCEPT !.pc = pc, !.at = x, !.to = D] \in Call
           /\ [c EXCEPT !.pc = pc, !.at = x] \in Call
           /\ [c EXCEPT !.pc = pc] \in Call
BY DEF Call

LEMMA CallFoundType ==
    ASSUME NEW c \in Call, NEW pc \in Pcs, NEW F \in SUBSET Refs,
           NEW x \in Refs \cup {NoRef}
    PROVE  /\ [c EXCEPT !.pc = pc, !.found = F] \in Call
           /\ [c EXCEPT !.found = F] \in Call
           /\ [c EXCEPT !.pc = pc, !.ref = x, !.found = F] \in Call
           /\ [c EXCEPT !.pc = pc, !.ref = x] \in Call
BY DEF Call

LEMMA IdleCallType == IdleCall \in CallType
BY DEF IdleCall, CallType, Call, Pcs, RegisterPcs, UnregisterPcs, InitPcs, DestroyPcs,
   RefPcs, ListenerPcs

\* What a program point says of a thread's record.
LEMMA CallFields ==
    ASSUME TypeOK, NEW t \in Threads
    PROVE  /\ call[t] \in CallType /\ call[t] \in Call
           /\ call[t].to \in SUBSET Listeners /\ call[t].found \in SUBSET Refs
           /\ call[t].pc \in RefPcs => call[t].ref \in Refs
           /\ call[t].pc \in ListenerPcs => call[t].at \in Listeners
BY DEF TypeOK, CallType, Call

LEMMA MoveType ==
    ASSUME TypeOK, NEW t \in Threads, NEW c \in CallType, call' = [call EXCEPT ![t] = c]
    PROVE  call' \in [Threads -> CallType]
BY DEF TypeOK

LEMMA TypeStep ==
    ASSUME TypeOK, NEW t \in Threads, Start(t) \/ Continue(t)
    PROVE  TypeOK'
<1> USE NullsAssumption, InterestAssumption
<1>0. /\ call[t] \in CallType /\ call[t] \in Call
      /\ call[t].to \in SUBSET Listeners /\ call[t].found \in SUBSET Refs
      /\ call[t].pc \in RefPcs => call[t].ref \in Refs
      /\ call[t].pc \in ListenerPcs => call[t].at \in Listeners
  BY CallFields
<1>1. ASSUME NEW n \in Names, Register(t, n) PROVE TypeOK'
  <2>1. PICK x \in Refs:
          /\ services' = [services EXCEPT ![n] = x]
          /\ nameOf' = [nameOf EXCEPT ![x] = n]
          /\ call' = [call EXCEPT ![t] = [IdleCall EXCEPT !.pc = "fireRegistered", !.ref = x]]
    BY <1>1 DEF Register
  <2>2. [IdleCall EXCEPT !.pc = "fireRegistered", !.ref = x] \in CallType
    BY DEF IdleCall, CallType, Call, Pcs, RegisterPcs, UnregisterPcs, InitPcs,
       DestroyPcs, RefPcs, ListenerPcs
  <2>3. call' \in [Threads -> CallType]
    BY <2>1, <2>2, MoveType
  <2>4. /\ services' \in [Names -> Refs \cup {NoRef}]
        /\ nameOf' \in [Refs -> Names \cup {NoName}]
    BY <2>1 DEF TypeOK
  <2> QED
    BY <1>1, <2>3, <2>4 DEF Register, TypeOK
<1>2. CASE FireRegistered(t)
  <2>1. regDelegates \in SUBSET Listeners
    BY DEF TypeOK
  <2>2. [call[t] EXCEPT !.pc = "deliverRegistered", !.to = regDelegates] \in Call
    BY <1>0, <2>1, CallToType DEF Pcs, RegisterPcs, UnregisterPcs, InitPcs, DestroyPcs
  <2>3. [call[t] EXCEPT !.pc = "deliverRegistered", !.to = regDelegates] \in CallType
    BY <1>0, <1>2, <2>1, <2>2 DEF FireRegistered, At, CallType, Call, Pcs,
       RegisterPcs, UnregisterPcs, InitPcs, DestroyPcs, RefPcs, ListenerPcs
  <2>4. call' = [call EXCEPT ![t] = [call[t] EXCEPT !.pc = "deliverRegistered", !.to = regDelegates]]
    BY <1>2 DEF FireRegistered
  <2>5. call' \in [Threads -> CallType]
    BY <2>3, <2>4, MoveType
  <2> QED
    BY <1>2, <2>5 DEF FireRegistered, TypeOK
<1>3. ASSUME NEW l \in Listeners, DeliverRegistered(t, l) PROVE TypeOK'
  <2>1. call[t].ref \in Refs /\ call[t].to \ {l} \in SUBSET Listeners
    BY <1>0, <1>3 DEF DeliverRegistered, At, RefPcs, ListenerPcs, Pcs, RegisterPcs,
       UnregisterPcs, InitPcs, DestroyPcs
  <2>2. CASE l \in regDelegates /\ Accepts(l, call[t].ref)
    <3>1. [call[t] EXCEPT !.pc = "callRegistered", !.at = l, !.to = @ \ {l}] \in Call
      BY <1>0, <2>1, CallToType DEF Pcs, RegisterPcs, UnregisterPcs, InitPcs, DestroyPcs
    <3>2. [call[t] EXCEPT !.pc = "callRegistered", !.at = l, !.to = @ \ {l}] \in CallType
      BY <1>0, <1>3, <2>1, <3>1 DEF DeliverRegistered, At, CallType, Call, Pcs,
         RegisterPcs, UnregisterPcs, InitPcs, DestroyPcs, RefPcs, ListenerPcs
    <3>3. call' = [call EXCEPT ![t] = [call[t] EXCEPT !.pc = "callRegistered", !.at = l, !.to = @ \ {l}]]
      BY <1>3, <2>2 DEF DeliverRegistered
    <3>4. call' \in [Threads -> CallType]
      BY <3>2, <3>3, MoveType
    <3>5. refs' \in [Listeners -> SUBSET Refs]
      BY <1>3, <2>1, <2>2 DEF DeliverRegistered, TypeOK
    <3> QED
      BY <1>3, <3>4, <3>5 DEF DeliverRegistered, TypeOK
  <2>3. CASE ~(l \in regDelegates /\ Accepts(l, call[t].ref))
    <3>1. [call[t] EXCEPT !.to = @ \ {l}] \in Call
      BY <1>0, <2>1, CallToType DEF Pcs, RegisterPcs, UnregisterPcs, InitPcs, DestroyPcs
    <3>2. [call[t] EXCEPT !.to = @ \ {l}] \in CallType
      BY <1>0, <1>3, <2>1, <3>1 DEF DeliverRegistered, At, CallType, Call, Pcs,
         RegisterPcs, UnregisterPcs, InitPcs, DestroyPcs, RefPcs, ListenerPcs
    <3>3. call' = [call EXCEPT ![t] = [call[t] EXCEPT !.to = @ \ {l}]] /\ refs' = refs
      BY <1>3, <2>3 DEF DeliverRegistered
    <3>4. call' \in [Threads -> CallType]
      BY <3>2, <3>3, MoveType
    <3> QED
      BY <1>3, <3>3, <3>4 DEF DeliverRegistered, TypeOK
  <2> QED
    BY <2>2, <2>3
<1>4. CASE CallRegistered(t)
  <2>1. [call[t] EXCEPT !.pc = "deliverRegistered", !.at = NoListener] \in Call
    BY <1>0, CallToType DEF Pcs, RegisterPcs, UnregisterPcs, InitPcs, DestroyPcs
  <2>2. [call[t] EXCEPT !.pc = "deliverRegistered", !.at = NoListener] \in CallType
    BY <1>0, <1>4, <2>1 DEF CallRegistered, At, CallType, Call, Pcs, RegisterPcs,
       UnregisterPcs, InitPcs, DestroyPcs, RefPcs, ListenerPcs
  <2>3. call' = [call EXCEPT ![t] = [call[t] EXCEPT !.pc = "deliverRegistered", !.at = NoListener]]
    BY <1>4 DEF CallRegistered
  <2>4. call' \in [Threads -> CallType]
    BY <2>2, <2>3, MoveType
  <2>5. notified' \in [Listeners -> SUBSET Refs]
    BY <1>0, <1>4 DEF CallRegistered, TypeOK, At, Pcs, RegisterPcs, UnregisterPcs,
       InitPcs, DestroyPcs, RefPcs, ListenerPcs
  <2> QED
    BY <1>4, <2>4, <2>5 DEF CallRegistered, TypeOK
<1>5. CASE EndRegister(t)
  <2>1. call' = [call EXCEPT ![t] = IdleCall]
    BY <1>5 DEF EndRegister
  <2>2. call' \in [Threads -> CallType]
    BY <2>1, IdleCallType, MoveType
  <2> QED
    BY <1>5, <2>2 DEF EndRegister, TypeOK
<1>6. ASSUME NEW n \in Names, Unregister(t, n) PROVE TypeOK'
  <2>1. [IdleCall EXCEPT !.pc = "fireUnregistered", !.ref = services[n]] \in CallType
    BY <1>6 DEF Unregister, TypeOK, IdleCall, CallType, Call, Pcs, RegisterPcs,
       UnregisterPcs, InitPcs, DestroyPcs, RefPcs, ListenerPcs
  <2>2. call' = [call EXCEPT ![t] = [IdleCall EXCEPT !.pc = "fireUnregistered", !.ref = services[n]]]
    BY <1>6 DEF Unregister
  <2>3. call' \in [Threads -> CallType]
    BY <2>1, <2>2, MoveType
  <2>4. services' \in [Names -> Refs \cup {NoRef}]
    BY <1>0, <1>6 DEF Unregister, TypeOK, At, Pcs, RegisterPcs, UnregisterPcs,
       InitPcs, DestroyPcs, RefPcs, ListenerPcs
  <2> QED
    BY <1>6, <2>3, <2>4 DEF Unregister, TypeOK
<1>7. CASE FireUnregistered(t)
  <2>1. unregDelegates \in SUBSET Listeners
    BY DEF TypeOK
  <2>2. [call[t] EXCEPT !.pc = "deliverUnregistered", !.to = unregDelegates] \in Call
    BY <1>0, <2>1, CallToType DEF Pcs, RegisterPcs, UnregisterPcs, InitPcs, DestroyPcs
  <2>3. [call[t] EXCEPT !.pc = "deliverUnregistered", !.to = unregDelegates] \in CallType
    BY <1>0, <1>7, <2>1, <2>2 DEF FireUnregistered, At, CallType, Call, Pcs,
       RegisterPcs, UnregisterPcs, InitPcs, DestroyPcs, RefPcs, ListenerPcs
  <2>4. call' = [call EXCEPT ![t] = [call[t] EXCEPT !.pc = "deliverUnregistered", !.to = unregDelegates]]
    BY <1>7 DEF FireUnregistered
  <2>5. call' \in [Threads -> CallType]
    BY <2>3, <2>4, MoveType
  <2> QED
    BY <1>7, <2>5 DEF FireUnregistered, TypeOK
<1>8. ASSUME NEW l \in Listeners, DeliverUnregistered(t, l) PROVE TypeOK'
  <2>1. call[t].ref \in Refs /\ call[t].to \ {l} \in SUBSET Listeners
    BY <1>0, <1>8 DEF DeliverUnregistered, At, RefPcs, ListenerPcs, Pcs, RegisterPcs,
       UnregisterPcs, InitPcs, DestroyPcs
  <2>2. CASE l \in unregDelegates /\ call[t].ref \in refs[l]
    <3>1. [call[t] EXCEPT !.pc = "callUnregistered", !.at = l, !.to = @ \ {l}] \in Call
      BY <1>0, <2>1, CallToType DEF Pcs, RegisterPcs, UnregisterPcs, InitPcs, DestroyPcs
    <3>2. [call[t] EXCEPT !.pc = "callUnregistered", !.at = l, !.to = @ \ {l}] \in CallType
      BY <1>0, <1>8, <2>1, <3>1 DEF DeliverUnregistered, At, CallType, Call, Pcs,
         RegisterPcs, UnregisterPcs, InitPcs, DestroyPcs, RefPcs, ListenerPcs
    <3>3. call' = [call EXCEPT ![t] = [call[t] EXCEPT !.pc = "callUnregistered", !.at = l, !.to = @ \ {l}]]
      BY <1>8, <2>2 DEF DeliverUnregistered
    <3>4. call' \in [Threads -> CallType]
      BY <3>2, <3>3, MoveType
    <3>5. refs' \in [Listeners -> SUBSET Refs]
      BY <1>8, <2>1, <2>2 DEF DeliverUnregistered, TypeOK
    <3> QED
      BY <1>8, <3>4, <3>5 DEF DeliverUnregistered, TypeOK
  <2>3. CASE ~(l \in unregDelegates /\ call[t].ref \in refs[l])
    <3>1. [call[t] EXCEPT !.to = @ \ {l}] \in Call
      BY <1>0, <2>1, CallToType DEF Pcs, RegisterPcs, UnregisterPcs, InitPcs, DestroyPcs
    <3>2. [call[t] EXCEPT !.to = @ \ {l}] \in CallType
      BY <1>0, <1>8, <2>1, <3>1 DEF DeliverUnregistered, At, CallType, Call, Pcs,
         RegisterPcs, UnregisterPcs, InitPcs, DestroyPcs, RefPcs, ListenerPcs
    <3>3. call' = [call EXCEPT ![t] = [call[t] EXCEPT !.to = @ \ {l}]] /\ refs' = refs
      BY <1>8, <2>3 DEF DeliverUnregistered
    <3>4. call' \in [Threads -> CallType]
      BY <3>2, <3>3, MoveType
    <3> QED
      BY <1>8, <3>3, <3>4 DEF DeliverUnregistered, TypeOK
  <2> QED
    BY <2>2, <2>3
<1>9. CASE CallUnregistered(t)
  <2>1. [call[t] EXCEPT !.pc = "deliverUnregistered", !.at = NoListener] \in Call
    BY <1>0, CallToType DEF Pcs, RegisterPcs, UnregisterPcs, InitPcs, DestroyPcs
  <2>2. [call[t] EXCEPT !.pc = "deliverUnregistered", !.at = NoListener] \in CallType
    BY <1>0, <1>9, <2>1 DEF CallUnregistered, At, CallType, Call, Pcs, RegisterPcs,
       UnregisterPcs, InitPcs, DestroyPcs, RefPcs, ListenerPcs
  <2>3. call' = [call EXCEPT ![t] = [call[t] EXCEPT !.pc = "deliverUnregistered", !.at = NoListener]]
    BY <1>9 DEF CallUnregistered
  <2>4. call' \in [Threads -> CallType]
    BY <2>2, <2>3, MoveType
  <2>5. notified' \in [Listeners -> SUBSET Refs]
    BY <1>0, <1>9 DEF CallUnregistered, TypeOK, At, Pcs, RegisterPcs, UnregisterPcs,
       InitPcs, DestroyPcs, RefPcs, ListenerPcs
  <2> QED
    BY <1>9, <2>4, <2>5 DEF CallUnregistered, TypeOK
<1>10. CASE EndUnregister(t)
  <2>1. call' = [call EXCEPT ![t] = IdleCall]
    BY <1>10 DEF EndUnregister
  <2>2. call' \in [Threads -> CallType]
    BY <2>1, IdleCallType, MoveType
  <2> QED
    BY <1>10, <2>2 DEF EndUnregister, TypeOK
<1>11. ASSUME NEW l \in Listeners, CreateListener(t, l) PROVE TypeOK'
  <2>1. [IdleCall EXCEPT !.pc = "attachRegistered", !.at = l] \in CallType
    BY DEF IdleCall, CallType, Call, Pcs, RegisterPcs, UnregisterPcs, InitPcs,
       DestroyPcs, RefPcs, ListenerPcs
  <2>2. call' = [call EXCEPT ![t] = [IdleCall EXCEPT !.pc = "attachRegistered", !.at = l]]
    BY <1>11 DEF CreateListener, InitOrder
  <2>3. call' \in [Threads -> CallType]
    BY <2>1, <2>2, MoveType
  <2>4. life' \in [Listeners -> Lives]
    BY <1>0, <1>11 DEF CreateListener, TypeOK, At, Pcs, RegisterPcs, UnregisterPcs,
       InitPcs, DestroyPcs, RefPcs, ListenerPcs, Lives
  <2> QED
    BY <1>11, <2>3, <2>4 DEF CreateListener, TypeOK
<1>12. CASE AttachRegistered(t)
  <2>1. [call[t] EXCEPT !.pc = "attachUnregistered"] \in Call
    BY <1>0, CallToType DEF Pcs, RegisterPcs, UnregisterPcs, InitPcs, DestroyPcs
  <2>2. [call[t] EXCEPT !.pc = "attachUnregistered"] \in CallType
    BY <1>0, <1>12, <2>1 DEF AttachRegistered, At, CallType, Call, Pcs, RegisterPcs,
       UnregisterPcs, InitPcs, DestroyPcs, RefPcs, ListenerPcs
  <2>3. call' = [call EXCEPT ![t] = [call[t] EXCEPT !.pc = "attachUnregistered"]]
    BY <1>12 DEF AttachRegistered, InitOrder
  <2>4. call' \in [Threads -> CallType]
    BY <2>2, <2>3, MoveType
  <2>5. regDelegates' \subseteq Listeners
    BY <1>0, <1>12 DEF AttachRegistered, TypeOK, At, Pcs, RegisterPcs, UnregisterPcs,
       InitPcs, DestroyPcs, RefPcs, ListenerPcs
  <2> QED
    BY <1>12, <2>4, <2>5 DEF AttachRegistered, TypeOK
<1>13. CASE AttachUnregistered(t)
  <2>1. [call[t] EXCEPT !.pc = "find"] \in Call
    BY <1>0, CallToType DEF Pcs, RegisterPcs, UnregisterPcs, InitPcs, DestroyPcs
  <2>2. [call[t] EXCEPT !.pc = "find"] \in CallType
    BY <1>0, <1>13, <2>1 DEF AttachUnregistered, At, CallType, Call, Pcs, RegisterPcs,
       UnregisterPcs, InitPcs, DestroyPcs, RefPcs, ListenerPcs
  <2>3. call' = [call EXCEPT ![t] = [call[t] EXCEPT !.pc = "find"]]
    BY <1>13 DEF AttachUnregistered, InitOrder
  <2>4. call' \in [Threads -> CallType]
    BY <2>2, <2>3, MoveType
  <2>5. unregDelegates' \subseteq Listeners
    BY <1>0, <1>13 DEF AttachUnregistered, TypeOK, At, Pcs, RegisterPcs,
       UnregisterPcs, InitPcs, DestroyPcs, RefPcs, ListenerPcs
  <2> QED
    BY <1>13, <2>4, <2>5 DEF AttachUnregistered, TypeOK
<1>14. CASE FindServices(t)
  <2>1. Matching(call[t].at) \in SUBSET Refs
    BY <1>0, <1>14 DEF FindServices, Matching, TypeOK, At, ListenerPcs, InitPcs
  <2>2. [call[t] EXCEPT !.pc = "announce", !.found = Matching(call[t].at)] \in Call
    BY <1>0, <2>1, CallFoundType DEF Pcs, RegisterPcs, UnregisterPcs, InitPcs,
       DestroyPcs
  <2>3. [call[t] EXCEPT !.pc = "announce", !.found = Matching(call[t].at)] \in CallType
    BY <1>0, <1>14, <2>1, <2>2 DEF FindServices, At, CallType, Call, Pcs, RegisterPcs,
       UnregisterPcs, InitPcs, DestroyPcs, RefPcs, ListenerPcs
  <2>4. call' = [call EXCEPT ![t] = [call[t] EXCEPT !.pc = "announce", !.found = Matching(call[t].at)]]
    BY <1>14 DEF FindServices, InitOrder
  <2>5. call' \in [Threads -> CallType]
    BY <2>3, <2>4, MoveType
  <2> QED
    BY <1>14, <2>5 DEF FindServices, TypeOK
<1>15. ASSUME NEW r \in Refs, Announce(t, r) PROVE TypeOK'
  <2>1. call[t].at \in Listeners /\ call[t].found \ {r} \in SUBSET Refs
    BY <1>0, <1>15 DEF Announce, At, RefPcs, ListenerPcs, Pcs, RegisterPcs,
       UnregisterPcs, InitPcs, DestroyPcs
  <2>2. CASE Accepts(call[t].at, r)
    <3>1. [call[t] EXCEPT !.pc = "callAnnounced", !.ref = r, !.found = @ \ {r}] \in Call
      BY <1>0, <2>1, CallFoundType DEF Pcs, RegisterPcs, UnregisterPcs, InitPcs,
         DestroyPcs
    <3>2. [call[t] EXCEPT !.pc = "callAnnounced", !.ref = r, !.found = @ \ {r}] \in CallType
      BY <1>0, <1>15, <2>1, <3>1 DEF Announce, At, CallType, Call, Pcs, RegisterPcs,
         UnregisterPcs, InitPcs, DestroyPcs, RefPcs, ListenerPcs
    <3>3. call' = [call EXCEPT ![t] = [call[t] EXCEPT !.pc = "callAnnounced", !.ref = r, !.found = @ \ {r}]]
      BY <1>15, <2>2 DEF Announce
    <3>4. call' \in [Threads -> CallType]
      BY <3>2, <3>3, MoveType
    <3>5. refs' \in [Listeners -> SUBSET Refs]
      BY <1>15, <2>1, <2>2 DEF Announce, TypeOK
    <3> QED
      BY <1>15, <3>4, <3>5 DEF Announce, TypeOK
  <2>3. CASE ~(Accepts(call[t].at, r))
    <3>1. [call[t] EXCEPT !.found = @ \ {r}] \in Call
      BY <1>0, <2>1, CallFoundType DEF Pcs, RegisterPcs, UnregisterPcs, InitPcs,
         DestroyPcs
    <3>2. [call[t] EXCEPT !.found = @ \ {r}] \in CallType
      BY <1>0, <1>15, <2>1, <3>1 DEF Announce, At, CallType, Call, Pcs, RegisterPcs,
         UnregisterPcs, InitPcs, DestroyPcs, RefPcs, ListenerPcs
    <3>3. call' = [call EXCEPT ![t] = [call[t] EXCEPT !.found = @ \ {r}]] /\ refs' = refs
      BY <1>15, <2>3 DEF Announce
    <3>4. call' \in [Threads -> CallType]
      BY <3>2, <3>3, MoveType
    <3> QED
      BY <1>15, <3>3, <3>4 DEF Announce, TypeOK
  <2> QED
    BY <2>2, <2>3
<1>16. CASE CallAnnounced(t)
  <2>1. [call[t] EXCEPT !.pc = "announce", !.ref = NoRef] \in Call
    BY <1>0, CallFoundType DEF Pcs, RegisterPcs, UnregisterPcs, InitPcs, DestroyPcs
  <2>2. [call[t] EXCEPT !.pc = "announce", !.ref = NoRef] \in CallType
    BY <1>0, <1>16, <2>1 DEF CallAnnounced, At, CallType, Call, Pcs, RegisterPcs,
       UnregisterPcs, InitPcs, DestroyPcs, RefPcs, ListenerPcs
  <2>3. call' = [call EXCEPT ![t] = [call[t] EXCEPT !.pc = "announce", !.ref = NoRef]]
    BY <1>16 DEF CallAnnounced
  <2>4. call' \in [Threads -> CallType]
    BY <2>2, <2>3, MoveType
  <2>5. notified' \in [Listeners -> SUBSET Refs]
    BY <1>0, <1>16 DEF CallAnnounced, TypeOK, At, Pcs, RegisterPcs, UnregisterPcs,
       InitPcs, DestroyPcs, RefPcs, ListenerPcs
  <2> QED
    BY <1>16, <2>4, <2>5 DEF CallAnnounced, TypeOK
<1>17. CASE EndCreate(t)
  <2>1. call' = [call EXCEPT ![t] = IdleCall]
    BY <1>17 DEF EndCreate
  <2>2. call' \in [Threads -> CallType]
    BY <2>1, IdleCallType, MoveType
  <2>3. life' \in [Listeners -> Lives]
    BY <1>0, <1>17 DEF EndCreate, TypeOK, At, Pcs, RegisterPcs, UnregisterPcs,
       InitPcs, DestroyPcs, RefPcs, ListenerPcs, Lives
  <2> QED
    BY <1>17, <2>2, <2>3 DEF EndCreate, TypeOK
<1>18. ASSUME NEW l \in Listeners, DestroyListener(t, l) PROVE TypeOK'
  <2>1. [IdleCall EXCEPT !.pc = "detachRegistered", !.at = l] \in CallType
    BY DEF IdleCall, CallType, Call, Pcs, RegisterPcs, UnregisterPcs, InitPcs,
       DestroyPcs, RefPcs, ListenerPcs
  <2>2. call' = [call EXCEPT ![t] = [IdleCall EXCEPT !.pc = "detachRegistered", !.at = l]]
    BY <1>18 DEF DestroyListener
  <2>3. call' \in [Threads -> CallType]
    BY <2>1, <2>2, MoveType
  <2>4. life' \in [Listeners -> Lives]
    BY <1>0, <1>18 DEF DestroyListener, TypeOK, At, Pcs, RegisterPcs, UnregisterPcs,
       InitPcs, DestroyPcs, RefPcs, ListenerPcs, Lives
  <2> QED
    BY <1>18, <2>3, <2>4 DEF DestroyListener, TypeOK
<1>19. CASE DetachRegistered(t)
  <2>1. [call[t] EXCEPT !.pc = "detachUnregistered"] \in Call
    BY <1>0, CallToType DEF Pcs, RegisterPcs, UnregisterPcs, InitPcs, DestroyPcs
  <2>2. [call[t] EXCEPT !.pc = "detachUnregistered"] \in CallType
    BY <1>0, <1>19, <2>1 DEF DetachRegistered, At, CallType, Call, Pcs, RegisterPcs,
       UnregisterPcs, InitPcs, DestroyPcs, RefPcs, ListenerPcs
  <2>3. call' = [call EXCEPT ![t] = [call[t] EXCEPT !.pc = "detachUnregistered"]]
    BY <1>19 DEF DetachRegistered
  <2>4. call' \in [Threads -> CallType]
    BY <2>2, <2>3, MoveType
  <2> QED
    BY <1>19, <2>4 DEF DetachRegistered, TypeOK
<1>20. CASE DetachUnregistered(t)
  <2>1. call' = [call EXCEPT ![t] = IdleCall]
    BY <1>20 DEF DetachUnregistered
  <2>2. call' \in [Threads -> CallType]
    BY <2>1, IdleCallType, MoveType
  <2>3. life' \in [Listeners -> Lives]
    BY <1>0, <1>20 DEF DetachUnregistered, TypeOK, At, Pcs, RegisterPcs,
       UnregisterPcs, InitPcs, DestroyPcs, RefPcs, ListenerPcs, Lives
  <2> QED
    BY <1>20, <2>2, <2>3 DEF DetachUnregistered, TypeOK
<1> QED
  BY <1>1, <1>2, <1>3, <1>4, <1>5, <1>6, <1>7, <1>8, <1>9, <1>10,
     <1>11, <1>12, <1>13, <1>14, <1>15, <1>16, <1>17, <1>18, <1>19, <1>20 DEF Start,
        Continue

-----------------------------------------------------------------------------
(* The rest of the invariant, one lemma per conjunct and one step per action *)

\* What the steps below use of the types.
TypeFacts ==
    /\ services \in [Names -> Refs \cup {NoRef}]
    /\ nameOf \in [Refs -> Names \cup {NoName}]
    /\ refs \in [Listeners -> SUBSET Refs]
    /\ notified \in [Listeners -> SUBSET Refs]
    /\ life \in [Listeners -> Lives]
    /\ call \in [Threads -> Call]
    /\ \A u \in Threads: /\ call[u].pc \in RefPcs => call[u].ref \in Refs
                         /\ call[u].pc \in ListenerPcs => call[u].at \in Listeners

LEMMA TypeGives == ASSUME TypeOK PROVE TypeFacts
BY DEF TypeOK, TypeFacts, CallType

\* A step of a thread leaves the records of the others alone.
LEMMA OthersWait ==
    ASSUME TypeOK, NEW t \in Threads, Start(t) \/ Continue(t)
    PROVE  \A u \in Threads: u # t => call'[u] = call[u]
<1>1. call \in [Threads -> Call]
  BY TypeGives DEF TypeFacts
<1>2. CASE Start(t)
  BY <1>1, <1>2 DEF Start, Register, Unregister, CreateListener, DestroyListener
<1>3. CASE \/ FireRegistered(t) \/ CallRegistered(t) \/ EndRegister(t)
           \/ FireUnregistered(t) \/ CallUnregistered(t) \/ EndUnregister(t)
           \/ AttachRegistered(t) \/ AttachUnregistered(t) \/ FindServices(t)
           \/ CallAnnounced(t) \/ EndCreate(t)
           \/ DetachRegistered(t) \/ DetachUnregistered(t)
  BY <1>1, <1>3 DEF FireRegistered, CallRegistered, EndRegister, FireUnregistered,
     CallUnregistered, EndUnregister, AttachRegistered, AttachUnregistered, FindServices,
     CallAnnounced, EndCreate, DetachRegistered, DetachUnregistered
<1>4. ASSUME NEW l \in Listeners, DeliverRegistered(t, l) \/ DeliverUnregistered(t, l)
      PROVE  \A u \in Threads: u # t => call'[u] = call[u]
  BY <1>1, <1>4 DEF DeliverRegistered, DeliverUnregistered
<1>5. ASSUME NEW r \in Refs, Announce(t, r)
      PROVE  \A u \in Threads: u # t => call'[u] = call[u]
  BY <1>1, <1>5 DEF Announce
<1> QED
  BY <1>2, <1>3, <1>4, <1>5 DEF Continue

LEMMA RegistryStep ==
    ASSUME TypeOK, RegistryOK,
           NEW t \in Threads, Start(t) \/ Continue(t)
    PROVE  RegistryOK'
<1> USE NullsAssumption, InterestAssumption
<1>0. TypeFacts
  BY TypeGives
<1>o. \A u \in Threads: u # t => call'[u] = call[u]
  BY OthersWait
<1>1. ASSUME NEW n \in Names, Register(t, n) PROVE RegistryOK'
  BY <1>0, <1>1 DEF Register, RegistryOK, Created, Matching, Idle, At, IdleCall,
     TypeFacts, Call, Pcs, RegisterPcs, UnregisterPcs, InitPcs, DestroyPcs, RefPcs,
     ListenerPcs, InitOrder
<1>2. CASE FireRegistered(t)
  BY <1>0, <1>2 DEF FireRegistered, RegistryOK, Created, Matching, Idle, At, IdleCall,
     TypeFacts, Call, Pcs, RegisterPcs, UnregisterPcs, InitPcs, DestroyPcs, RefPcs,
     ListenerPcs, InitOrder
<1>3. ASSUME NEW l \in Listeners, DeliverRegistered(t, l) PROVE RegistryOK'
  BY <1>0, <1>3 DEF DeliverRegistered, RegistryOK, Created, Matching, Idle, At,
     IdleCall, TypeFacts, Call, Pcs, RegisterPcs, UnregisterPcs, InitPcs, DestroyPcs,
     RefPcs, ListenerPcs, InitOrder
<1>4. CASE CallRegistered(t)
  BY <1>0, <1>4 DEF CallRegistered, RegistryOK, Created, Matching, Idle, At, IdleCall,
     TypeFacts, Call, Pcs, RegisterPcs, UnregisterPcs, InitPcs, DestroyPcs, RefPcs,
     ListenerPcs, InitOrder
<1>5. CASE EndRegister(t)
  BY <1>0, <1>5 DEF EndRegister, RegistryOK, Created, Matching, Idle, At, IdleCall,
     TypeFacts, Call, Pcs, RegisterPcs, UnregisterPcs, InitPcs, DestroyPcs, RefPcs,
     ListenerPcs, InitOrder
<1>6. ASSUME NEW n \in Names, Unregister(t, n) PROVE RegistryOK'
  BY <1>0, <1>6 DEF Unregister, RegistryOK, Created, Matching, Idle, At, IdleCall,
     TypeFacts, Call, Pcs, RegisterPcs, UnregisterPcs, InitPcs, DestroyPcs, RefPcs,
     ListenerPcs, InitOrder
<1>7. CASE FireUnregistered(t)
  BY <1>0, <1>7 DEF FireUnregistered, RegistryOK, Created, Matching, Idle, At,
     IdleCall, TypeFacts, Call, Pcs, RegisterPcs, UnregisterPcs, InitPcs, DestroyPcs,
     RefPcs, ListenerPcs, InitOrder
<1>8. ASSUME NEW l \in Listeners, DeliverUnregistered(t, l) PROVE RegistryOK'
  BY <1>0, <1>8 DEF DeliverUnregistered, RegistryOK, Created, Matching, Idle, At,
     IdleCall, TypeFacts, Call, Pcs, RegisterPcs, UnregisterPcs, InitPcs, DestroyPcs,
     RefPcs, ListenerPcs, InitOrder
<1>9. CASE CallUnregistered(t)
  BY <1>0, <1>9 DEF CallUnregistered, RegistryOK, Created, Matching, Idle, At,
     IdleCall, TypeFacts, Call, Pcs, RegisterPcs, UnregisterPcs, InitPcs, DestroyPcs,
     RefPcs, ListenerPcs, InitOrder
<1>10. CASE EndUnregister(t)
  BY <1>0, <1>10 DEF EndUnregister, RegistryOK, Created, Matching, Idle, At, IdleCall,
     TypeFacts, Call, Pcs, RegisterPcs, UnregisterPcs, InitPcs, DestroyPcs, RefPcs,
     ListenerPcs, InitOrder
<1>11. ASSUME NEW l \in Listeners, CreateListener(t, l) PROVE RegistryOK'
  BY <1>0, <1>11 DEF CreateListener, RegistryOK, Created, Matching, Idle, At,
     IdleCall, TypeFacts, Call, Pcs, RegisterPcs, UnregisterPcs, InitPcs, DestroyPcs,
     RefPcs, ListenerPcs, InitOrder
<1>12. CASE AttachRegistered(t)
  BY <1>0, <1>12 DEF AttachRegistered, RegistryOK, Created, Matching, Idle, At,
     IdleCall, TypeFacts, Call, Pcs, RegisterPcs, UnregisterPcs, InitPcs, DestroyPcs,
     RefPcs, ListenerPcs, InitOrder
<1>13. CASE AttachUnregistered(t)
  BY <1>0, <1>13 DEF AttachUnregistered, RegistryOK, Created, Matching, Idle, At,
     IdleCall, TypeFacts, Call, Pcs, RegisterPcs, UnregisterPcs, InitPcs, DestroyPcs,
     RefPcs, ListenerPcs, InitOrder
<1>14. CASE FindServices(t)
  BY <1>0, <1>14 DEF FindServices, RegistryOK, Created, Matching, Idle, At, IdleCall,
     TypeFacts, Call, Pcs, RegisterPcs, UnregisterPcs, InitPcs, DestroyPcs, RefPcs,
     ListenerPcs, InitOrder
<1>15. ASSUME NEW r \in Refs, Announce(t, r) PROVE RegistryOK'
  BY <1>0, <1>15 DEF Announce, RegistryOK, Created, Matching, Idle, At, IdleCall,
     TypeFacts, Call, Pcs, RegisterPcs, UnregisterPcs, InitPcs, DestroyPcs, RefPcs,
     ListenerPcs, InitOrder
<1>16. CASE CallAnnounced(t)
  BY <1>0, <1>16 DEF CallAnnounced, RegistryOK, Created, Matching, Idle, At, IdleCall,
     TypeFacts, Call, Pcs, RegisterPcs, UnregisterPcs, InitPcs, DestroyPcs, RefPcs,
     ListenerPcs, InitOrder
<1>17. CASE EndCreate(t)
  BY <1>0, <1>17 DEF EndCreate, RegistryOK, Created, Matching, Idle, At, IdleCall,
     TypeFacts, Call, Pcs, RegisterPcs, UnregisterPcs, InitPcs, DestroyPcs, RefPcs,
     ListenerPcs, InitOrder
<1>18. ASSUME NEW l \in Listeners, DestroyListener(t, l) PROVE RegistryOK'
  BY <1>0, <1>18 DEF DestroyListener, RegistryOK, Created, Matching, Idle, At,
     IdleCall, TypeFacts, Call, Pcs, RegisterPcs, UnregisterPcs, InitPcs, DestroyPcs,
     RefPcs, ListenerPcs, InitOrder
<1>19. CASE DetachRegistered(t)
  BY <1>0, <1>19 DEF DetachRegistered, RegistryOK, Created, Matching, Idle, At,
     IdleCall, TypeFacts, Call, Pcs, RegisterPcs, UnregisterPcs, InitPcs, DestroyPcs,
     RefPcs, ListenerPcs, InitOrder
<1>20. CASE DetachUnregistered(t)
  BY <1>0, <1>20 DEF DetachUnregistered, RegistryOK, Created, Matching, Idle, At,
     IdleCall, TypeFacts, Call, Pcs, RegisterPcs, UnregisterPcs, InitPcs, DestroyPcs,
     RefPcs, ListenerPcs, InitOrder
<1> QED
  BY <1>1, <1>2, <1>3, <1>4, <1>5, <1>6, <1>7, <1>8, <1>9, <1>10,
     <1>11, <1>12, <1>13, <1>14, <1>15, <1>16, <1>17, <1>18, <1>19, <1>20 DEF Start,
        Continue

LEMMA GoneStep ==
    ASSUME TypeOK, RegistryOK, UnregisteredIsGone,
           NEW t \in Threads, Start(t) \/ Continue(t)
    PROVE  UnregisteredIsGone'
<1> USE NullsAssumption, InterestAssumption
<1>0. TypeFacts
  BY TypeGives
<1>o. \A u \in Threads: u # t => call'[u] = call[u]
  BY OthersWait
<1>1. ASSUME NEW n \in Names, Register(t, n) PROVE UnregisteredIsGone'
  BY <1>0, <1>1 DEF Register, RegistryOK, UnregisteredIsGone, Created, Idle, At,
     IdleCall, TypeFacts, Call, Pcs, RegisterPcs, UnregisterPcs, InitPcs, DestroyPcs,
     RefPcs, ListenerPcs, InitOrder
<1>2. CASE FireRegistered(t)
  BY <1>0, <1>2 DEF FireRegistered, RegistryOK, UnregisteredIsGone, Created, Idle, At,
     IdleCall, TypeFacts, Call, Pcs, RegisterPcs, UnregisterPcs, InitPcs, DestroyPcs,
     RefPcs, ListenerPcs, InitOrder
<1>3. ASSUME NEW l \in Listeners, DeliverRegistered(t, l) PROVE UnregisteredIsGone'
  <2>1. /\ call[t].pc = "deliverRegistered" /\ call'[t].ref = call[t].ref
        /\ call'[t].pc \in {"deliverRegistered", "callRegistered"}
    BY <1>3, <1>0 DEF DeliverRegistered, At, TypeFacts, Call
  <2> QED
    BY <1>3, <1>o, <2>1 DEF DeliverRegistered, UnregisteredIsGone, UnregisterPcs
<1>4. CASE CallRegistered(t)
  BY <1>0, <1>4 DEF CallRegistered, RegistryOK, UnregisteredIsGone, Created, Idle, At,
     IdleCall, TypeFacts, Call, Pcs, RegisterPcs, UnregisterPcs, InitPcs, DestroyPcs,
     RefPcs, ListenerPcs, InitOrder
<1>5. CASE EndRegister(t)
  BY <1>0, <1>5 DEF EndRegister, RegistryOK, UnregisteredIsGone, Created, Idle, At,
     IdleCall, TypeFacts, Call, Pcs, RegisterPcs, UnregisterPcs, InitPcs, DestroyPcs,
     RefPcs, ListenerPcs, InitOrder
<1>6. ASSUME NEW n \in Names, Unregister(t, n) PROVE UnregisteredIsGone'
  BY <1>0, <1>6 DEF Unregister, RegistryOK, UnregisteredIsGone, Created, Idle, At,
     IdleCall, TypeFacts, Call, Pcs, RegisterPcs, UnregisterPcs, InitPcs, DestroyPcs,
     RefPcs, ListenerPcs, InitOrder
<1>7. CASE FireUnregistered(t)
  BY <1>0, <1>7 DEF FireUnregistered, RegistryOK, UnregisteredIsGone, Created, Idle,
     At, IdleCall, TypeFacts, Call, Pcs, RegisterPcs, UnregisterPcs, InitPcs,
     DestroyPcs, RefPcs, ListenerPcs, InitOrder
<1>8. ASSUME NEW l \in Listeners, DeliverUnregistered(t, l) PROVE UnregisteredIsGone'
  <2>1. /\ call[t].pc = "deliverUnregistered" /\ call'[t].ref = call[t].ref
        /\ call'[t].pc \in {"deliverUnregistered", "callUnregistered"}
    BY <1>8, <1>0 DEF DeliverUnregistered, At, TypeFacts, Call
  <2> QED
    BY <1>8, <1>o, <2>1 DEF DeliverUnregistered, UnregisteredIsGone, UnregisterPcs
<1>9. CASE CallUnregistered(t)
  BY <1>0, <1>9 DEF CallUnregistered, RegistryOK, UnregisteredIsGone, Created, Idle,
     At, IdleCall, TypeFacts, Call, Pcs, RegisterPcs, UnregisterPcs, InitPcs,
     DestroyPcs, RefPcs, ListenerPcs, InitOrder
<1>10. CASE EndUnregister(t)
  BY <1>0, <1>10 DEF EndUnregister, RegistryOK, UnregisteredIsGone, Created, Idle, At,
     IdleCall, TypeFacts, Call, Pcs, RegisterPcs, UnregisterPcs, InitPcs, DestroyPcs,
     RefPcs, ListenerPcs, InitOrder
<1>11. ASSUME NEW l \in Listeners, CreateListener(t, l) PROVE UnregisteredIsGone'
  BY <1>0, <1>11 DEF CreateListener, RegistryOK, UnregisteredIsGone, Created, Idle,
     At, IdleCall, TypeFacts, Call, Pcs, RegisterPcs, UnregisterPcs, InitPcs,
     DestroyPcs, RefPcs, ListenerPcs, InitOrder
<1>12. CASE AttachRegistered(t)
  BY <1>0, <1>12 DEF AttachRegistered, RegistryOK, UnregisteredIsGone, Created, Idle,
     At, IdleCall, TypeFacts, Call, Pcs, RegisterPcs, UnregisterPcs, InitPcs,
     DestroyPcs, RefPcs, ListenerPcs, InitOrder
<1>13. CASE AttachUnregistered(t)
  BY <1>0, <1>13 DEF AttachUnregistered, RegistryOK, UnregisteredIsGone, Created,
     Idle, At, IdleCall, TypeFacts, Call, Pcs, RegisterPcs, UnregisterPcs, InitPcs,
     DestroyPcs, RefPcs, ListenerPcs, InitOrder
<1>14. CASE FindServices(t)
  BY <1>0, <1>14 DEF FindServices, RegistryOK, UnregisteredIsGone, Created, Idle, At,
     IdleCall, TypeFacts, Call, Pcs, RegisterPcs, UnregisterPcs, InitPcs, DestroyPcs,
     RefPcs, ListenerPcs, InitOrder
<1>15. ASSUME NEW r \in Refs, Announce(t, r) PROVE UnregisteredIsGone'
  BY <1>0, <1>15 DEF Announce, RegistryOK, UnregisteredIsGone, Created, Idle, At,
     IdleCall, TypeFacts, Call, Pcs, RegisterPcs, UnregisterPcs, InitPcs, DestroyPcs,
     RefPcs, ListenerPcs, InitOrder
<1>16. CASE CallAnnounced(t)
  BY <1>0, <1>16 DEF CallAnnounced, RegistryOK, UnregisteredIsGone, Created, Idle, At,
     IdleCall, TypeFacts, Call, Pcs, RegisterPcs, UnregisterPcs, InitPcs, DestroyPcs,
     RefPcs, ListenerPcs, InitOrder
<1>17. CASE EndCreate(t)
  BY <1>0, <1>17 DEF EndCreate, RegistryOK, UnregisteredIsGone, Created, Idle, At,
     IdleCall, TypeFacts, Call, Pcs, RegisterPcs, UnregisterPcs, InitPcs, DestroyPcs,
     RefPcs, ListenerPcs, InitOrder
<1>18. ASSUME NEW l \in Listeners, DestroyListener(t, l) PROVE UnregisteredIsGone'
  BY <1>0, <1>18 DEF DestroyListener, RegistryOK, UnregisteredIsGone, Created, Idle,
     At, IdleCall, TypeFacts, Call, Pcs, RegisterPcs, UnregisterPcs, InitPcs,
     DestroyPcs, RefPcs, ListenerPcs, InitOrder
<1>19. CASE DetachRegistered(t)
  BY <1>0, <1>19 DEF DetachRegistered, RegistryOK, UnregisteredIsGone, Created, Idle,
     At, IdleCall, TypeFacts, Call, Pcs, RegisterPcs, UnregisterPcs, InitPcs,
     DestroyPcs, RefPcs, ListenerPcs, InitOrder
<1>20. CASE DetachUnregistered(t)
  BY <1>0, <1>20 DEF DetachUnregistered, RegistryOK, UnregisteredIsGone, Created,
     Idle, At, IdleCall, TypeFacts, Call, Pcs, RegisterPcs, UnregisterPcs, InitPcs,
     DestroyPcs, RefPcs, ListenerPcs, InitOrder
<1> QED
  BY <1>1, <1>2, <1>3, <1>4, <1>5, <1>6, <1>7, <1>8, <1>9, <1>10,
     <1>11, <1>12, <1>13, <1>14, <1>15, <1>16, <1>17, <1>18, <1>19, <1>20 DEF Start,
        Continue

LEMMA OwnerStep ==
    ASSUME TypeOK, OneOwner,
           NEW t \in Threads, Start(t) \/ Continue(t)
    PROVE  OneOwner'
<1> USE NullsAssumption, InterestAssumption
<1>0. TypeFacts
  BY TypeGives
<1>o. \A u \in Threads: u # t => call'[u] = call[u]
  BY OthersWait
<1>1. ASSUME NEW n \in Names, Register(t, n) PROVE OneOwner'
  BY <1>0, <1>1 DEF Register, OneOwner, Lives, Idle, At, IdleCall, TypeFacts, Call,
     Pcs, RegisterPcs, UnregisterPcs, InitPcs, DestroyPcs, RefPcs, ListenerPcs,
     InitOrder
<1>2. CASE FireRegistered(t)
  BY <1>0, <1>2 DEF FireRegistered, OneOwner, Lives, Idle, At, IdleCall, TypeFacts,
     Call, Pcs, RegisterPcs, UnregisterPcs, InitPcs, DestroyPcs, RefPcs, ListenerPcs,
     InitOrder
<1>3. ASSUME NEW l \in Listeners, DeliverRegistered(t, l) PROVE OneOwner'
  <2>1. /\ call[t].pc = "deliverRegistered" /\ call'[t].ref = call[t].ref
        /\ call'[t].pc \in {"deliverRegistered", "callRegistered"}
    BY <1>3, <1>0 DEF DeliverRegistered, At, TypeFacts, Call
  <2> QED
    BY <1>3, <1>o, <2>1 DEF DeliverRegistered, OneOwner, InitPcs, DestroyPcs
<1>4. CASE CallRegistered(t)
  BY <1>0, <1>4 DEF CallRegistered, OneOwner, Lives, Idle, At, IdleCall, TypeFacts,
     Call, Pcs, RegisterPcs, UnregisterPcs, InitPcs, DestroyPcs, RefPcs, ListenerPcs,
     InitOrder
<1>5. CASE EndRegister(t)
  BY <1>0, <1>5 DEF EndRegister, OneOwner, Lives, Idle, At, IdleCall, TypeFacts, Call,
     Pcs, RegisterPcs, UnregisterPcs, InitPcs, DestroyPcs, RefPcs, ListenerPcs,
     InitOrder
<1>6. ASSUME NEW n \in Names, Unregister(t, n) PROVE OneOwner'
  BY <1>0, <1>6 DEF Unregister, OneOwner, Lives, Idle, At, IdleCall, TypeFacts, Call,
     Pcs, RegisterPcs, UnregisterPcs, InitPcs, DestroyPcs, RefPcs, ListenerPcs,
     InitOrder
<1>7. CASE FireUnregistered(t)
  BY <1>0, <1>7 DEF FireUnregistered, OneOwner, Lives, Idle, At, IdleCall, TypeFacts,
     Call, Pcs, RegisterPcs, UnregisterPcs, InitPcs, DestroyPcs, RefPcs, ListenerPcs,
     InitOrder
<1>8. ASSUME NEW l \in Listeners, DeliverUnregistered(t, l) PROVE OneOwner'
  <2>1. /\ call[t].pc = "deliverUnregistered" /\ call'[t].ref = call[t].ref
        /\ call'[t].pc \in {"deliverUnregistered", "callUnregistered"}
    BY <1>8, <1>0 DEF DeliverUnregistered, At, TypeFacts, Call
  <2> QED
    BY <1>8, <1>o, <2>1 DEF DeliverUnregistered, OneOwner, InitPcs, DestroyPcs
<1>9. CASE CallUnregistered(t)
  BY <1>0, <1>9 DEF CallUnregistered, OneOwner, Lives, Idle, At, IdleCall, TypeFacts,
     Call, Pcs, RegisterPcs, UnregisterPcs, InitPcs, DestroyPcs, RefPcs, ListenerPcs,
     InitOrder
<1>10. CASE EndUnregister(t)
  BY <1>0, <1>10 DEF EndUnregister, OneOwner, Lives, Idle, At, IdleCall, TypeFacts,
     Call, Pcs, RegisterPcs, UnregisterPcs, InitPcs, DestroyPcs, RefPcs, ListenerPcs,
     InitOrder
<1>11. ASSUME NEW l \in Listeners, CreateListener(t, l) PROVE OneOwner'
  BY <1>0, <1>11 DEF CreateListener, OneOwner, Lives, Idle, At, IdleCall, TypeFacts,
     Call, Pcs, RegisterPcs, UnregisterPcs, InitPcs, DestroyPcs, RefPcs, ListenerPcs,
     InitOrder
<1>12. CASE AttachRegistered(t)
  BY <1>0, <1>12 DEF AttachRegistered, OneOwner, Lives, Idle, At, IdleCall, TypeFacts,
     Call, Pcs, RegisterPcs, UnregisterPcs, InitPcs, DestroyPcs, RefPcs, ListenerPcs,
     InitOrder
<1>13. CASE AttachUnregistered(t)
  BY <1>0, <1>13 DEF AttachUnregistered, OneOwner, Lives, Idle, At, IdleCall,
     TypeFacts, Call, Pcs, RegisterPcs, UnregisterPcs, InitPcs, DestroyPcs, RefPcs,
     ListenerPcs, InitOrder
<1>14. CASE FindServices(t)
  BY <1>0, <1>14 DEF FindServices, OneOwner, Lives, Idle, At, IdleCall, TypeFacts,
     Call, Pcs, RegisterPcs, UnregisterPcs, InitPcs, DestroyPcs, RefPcs, ListenerPcs,
     InitOrder
<1>15. ASSUME NEW r \in Refs, Announce(t, r) PROVE OneOwner'
  <2>1. /\ call[t].pc = "announce" /\ call'[t].at = call[t].at
        /\ call'[t].pc \in {"announce", "callAnnounced"}
    BY <1>15, <1>0 DEF Announce, At, TypeFacts, Call
  <2> QED
    BY <1>15, <1>o, <2>1 DEF Announce, OneOwner, InitPcs, DestroyPcs
<1>16. CASE CallAnnounced(t)
  BY <1>0, <1>16 DEF CallAnnounced, OneOwner, Lives, Idle, At, IdleCall, TypeFacts,
     Call, Pcs, RegisterPcs, UnregisterPcs, InitPcs, DestroyPcs, RefPcs, ListenerPcs,
     InitOrder
<1>17. CASE EndCreate(t)
  BY <1>0, <1>17 DEF EndCreate, OneOwner, Lives, Idle, At, IdleCall, TypeFacts, Call,
     Pcs, RegisterPcs, UnregisterPcs, InitPcs, DestroyPcs, RefPcs, ListenerPcs,
     InitOrder
<1>18. ASSUME NEW l \in Listeners, DestroyListener(t, l) PROVE OneOwner'
  BY <1>0, <1>18 DEF DestroyListener, OneOwner, Lives, Idle, At, IdleCall, TypeFacts,
     Call, Pcs, RegisterPcs, UnregisterPcs, InitPcs, DestroyPcs, RefPcs, ListenerPcs,
     InitOrder
<1>19. CASE DetachRegistered(t)
  BY <1>0, <1>19 DEF DetachRegistered, OneOwner, Lives, Idle, At, IdleCall, TypeFacts,
     Call, Pcs, RegisterPcs, UnregisterPcs, InitPcs, DestroyPcs, RefPcs, ListenerPcs,
     InitOrder
<1>20. CASE DetachUnregistered(t)
  BY <1>0, <1>20 DEF DetachUnregistered, OneOwner, Lives, Idle, At, IdleCall,
     TypeFacts, Call, Pcs, RegisterPcs, UnregisterPcs, InitPcs, DestroyPcs, RefPcs,
     ListenerPcs, InitOrder
<1> QED
  BY <1>1, <1>2, <1>3, <1>4, <1>5, <1>6, <1>7, <1>8, <1>9, <1>10,
     <1>11, <1>12, <1>13, <1>14, <1>15, <1>16, <1>17, <1>18, <1>19, <1>20 DEF Start,
        Continue

LEMMA DelegatesStep ==
    ASSUME TypeOK, OneOwner, DelegatesOK,
           NEW t \in Threads, Start(t) \/ Continue(t)
    PROVE  DelegatesOK'
<1> USE NullsAssumption, InterestAssumption
<1>0. TypeFacts
  BY TypeGives
<1>o. \A u \in Threads: u # t => call'[u] = call[u]
  BY OthersWait
<1>1. ASSUME NEW n \in Names, Register(t, n) PROVE DelegatesOK'
  BY <1>0, <1>1 DEF Register, OneOwner, DelegatesOK, AttachedPcs, RegDelegateFree,
     UnregDelegateFree, Lives, Idle, At, IdleCall, TypeFacts, Call, Pcs, RegisterPcs,
     UnregisterPcs, InitPcs, DestroyPcs, RefPcs, ListenerPcs, InitOrder
<1>2. CASE FireRegistered(t)
  BY <1>0, <1>2 DEF FireRegistered, OneOwner, DelegatesOK, AttachedPcs,
     RegDelegateFree, UnregDelegateFree, Lives, Idle, At, IdleCall, TypeFacts, Call,
     Pcs, RegisterPcs, UnregisterPcs, InitPcs, DestroyPcs, RefPcs, ListenerPcs,
     InitOrder
<1>3. ASSUME NEW l \in Listeners, DeliverRegistered(t, l) PROVE DelegatesOK'
  <2>1. /\ call[t].pc = "deliverRegistered" /\ call'[t].ref = call[t].ref
        /\ call'[t].pc \in {"deliverRegistered", "callRegistered"}
    BY <1>3, <1>0 DEF DeliverRegistered, At, TypeFacts, Call
  <2>2. call'[t].pc = "callRegistered" => call'[t].at = l /\ l \in regDelegates
    BY <1>3, <1>0, <2>1 DEF DeliverRegistered, TypeFacts, Call
  <2> QED
    BY <1>3, <1>o, <2>1, <2>2 DEF DeliverRegistered, At, DelegatesOK, AttachedPcs
<1>4. CASE CallRegistered(t)
  BY <1>0, <1>4 DEF CallRegistered, OneOwner, DelegatesOK, AttachedPcs,
     RegDelegateFree, UnregDelegateFree, Lives, Idle, At, IdleCall, TypeFacts, Call,
     Pcs, RegisterPcs, UnregisterPcs, InitPcs, DestroyPcs, RefPcs, ListenerPcs,
     InitOrder
<1>5. CASE EndRegister(t)
  BY <1>0, <1>5 DEF EndRegister, OneOwner, DelegatesOK, AttachedPcs, RegDelegateFree,
     UnregDelegateFree, Lives, Idle, At, IdleCall, TypeFacts, Call, Pcs, RegisterPcs,
     UnregisterPcs, InitPcs, DestroyPcs, RefPcs, ListenerPcs, InitOrder
<1>6. ASSUME NEW n \in Names, Unregister(t, n) PROVE DelegatesOK'
  BY <1>0, <1>6 DEF Unregister, OneOwner, DelegatesOK, AttachedPcs, RegDelegateFree,
     UnregDelegateFree, Lives, Idle, At, IdleCall, TypeFacts, Call, Pcs, RegisterPcs,
     UnregisterPcs, InitPcs, DestroyPcs, RefPcs, ListenerPcs, InitOrder
<1>7. CASE FireUnregistered(t)
  BY <1>0, <1>7 DEF FireUnregistered, OneOwner, DelegatesOK, AttachedPcs,
     RegDelegateFree, UnregDelegateFree, Lives, Idle, At, IdleCall, TypeFacts, Call,
     Pcs, RegisterPcs, UnregisterPcs, InitPcs, DestroyPcs, RefPcs, ListenerPcs,
     InitOrder
<1>8. ASSUME NEW l \in Listeners, DeliverUnregistered(t, l) PROVE DelegatesOK'
  <2>1. /\ call[t].pc = "deliverUnregistered" /\ call'[t].ref = call[t].ref
        /\ call'[t].pc \in {"deliverUnregistered", "callUnregistered"}
    BY <1>8, <1>0 DEF DeliverUnregistered, At, TypeFacts, Call
  <2>2. call'[t].pc = "callUnregistered" => call'[t].at = l /\ l \in unregDelegates
    BY <1>8, <1>0, <2>1 DEF DeliverUnregistered, TypeFacts, Call
  <2> QED
    BY <1>8, <1>o, <2>1, <2>2 DEF DeliverUnregistered, At, DelegatesOK, AttachedPcs
<1>9. CASE CallUnregistered(t)
  BY <1>0, <1>9 DEF CallUnregistered, OneOwner, DelegatesOK, AttachedPcs,
     RegDelegateFree, UnregDelegateFree, Lives, Idle, At, IdleCall, TypeFacts, Call,
     Pcs, RegisterPcs, UnregisterPcs, InitPcs, DestroyPcs, RefPcs, ListenerPcs,
     InitOrder
<1>10. CASE EndUnregister(t)
  BY <1>0, <1>10 DEF EndUnregister, OneOwner, DelegatesOK, AttachedPcs,
     RegDelegateFree, UnregDelegateFree, Lives, Idle, At, IdleCall, TypeFacts, Call,
     Pcs, RegisterPcs, UnregisterPcs, InitPcs, DestroyPcs, RefPcs, ListenerPcs,
     InitOrder
<1>11. ASSUME NEW l \in Listeners, CreateListener(t, l) PROVE DelegatesOK'
  BY <1>0, <1>11 DEF CreateListener, OneOwner, DelegatesOK, AttachedPcs,
     RegDelegateFree, UnregDelegateFree, Lives, Idle, At, IdleCall, TypeFacts, Call,
     Pcs, RegisterPcs, UnregisterPcs, InitPcs, DestroyPcs, RefPcs, ListenerPcs,
     InitOrder
<1>12. CASE AttachRegistered(t)
  BY <1>0, <1>12 DEF AttachRegistered, OneOwner, DelegatesOK, AttachedPcs,
     RegDelegateFree, UnregDelegateFree, Lives, Idle, At, IdleCall, TypeFacts, Call,
     Pcs, RegisterPcs, UnregisterPcs, InitPcs, DestroyPcs, RefPcs, ListenerPcs,
     InitOrder
<1>13. CASE AttachUnregistered(t)
  BY <1>0, <1>13 DEF AttachUnregistered, OneOwner, DelegatesOK, AttachedPcs,
     RegDelegateFree, UnregDelegateFree, Lives, Idle, At, IdleCall, TypeFacts, Call,
     Pcs, RegisterPcs, UnregisterPcs, InitPcs, DestroyPcs, RefPcs, ListenerPcs,
     InitOrder
<1>14. CASE FindServices(t)
  BY <1>0, <1>14 DEF FindServices, OneOwner, DelegatesOK, AttachedPcs,
     RegDelegateFree, UnregDelegateFree, Lives, Idle, At, IdleCall, TypeFacts, Call,
     Pcs, RegisterPcs, UnregisterPcs, InitPcs, DestroyPcs, RefPcs, ListenerPcs,
     InitOrder
<1>15. ASSUME NEW r \in Refs, Announce(t, r) PROVE DelegatesOK'
  <2>1. /\ call[t].pc = "announce" /\ call'[t].at = call[t].at
        /\ call'[t].pc \in {"announce", "callAnnounced"}
    BY <1>15, <1>0 DEF Announce, At, TypeFacts, Call
  <2> QED
    BY <1>15, <1>o, <2>1 DEF Announce, At, DelegatesOK, AttachedPcs
<1>16. CASE CallAnnounced(t)
  BY <1>0, <1>16 DEF CallAnnounced, OneOwner, DelegatesOK, AttachedPcs,
     RegDelegateFree, UnregDelegateFree, Lives, Idle, At, IdleCall, TypeFacts, Call,
     Pcs, RegisterPcs, UnregisterPcs, InitPcs, DestroyPcs, RefPcs, ListenerPcs,
     InitOrder
<1>17. CASE EndCreate(t)
  BY <1>0, <1>17 DEF EndCreate, OneOwner, DelegatesOK, AttachedPcs, RegDelegateFree,
     UnregDelegateFree, Lives, Idle, At, IdleCall, TypeFacts, Call, Pcs, RegisterPcs,
     UnregisterPcs, InitPcs, DestroyPcs, RefPcs, ListenerPcs, InitOrder
<1>18. ASSUME NEW l \in Listeners, DestroyListener(t, l) PROVE DelegatesOK'
  BY <1>0, <1>18 DEF DestroyListener, OneOwner, DelegatesOK, AttachedPcs,
     RegDelegateFree, UnregDelegateFree, Lives, Idle, At, IdleCall, TypeFacts, Call,
     Pcs, RegisterPcs, UnregisterPcs, InitPcs, DestroyPcs, RefPcs, ListenerPcs,
     InitOrder
<1>19. CASE DetachRegistered(t)
  BY <1>0, <1>19 DEF DetachRegistered, OneOwner, DelegatesOK, AttachedPcs,
     RegDelegateFree, UnregDelegateFree, Lives, Idle, At, IdleCall, TypeFacts, Call,
     Pcs, RegisterPcs, UnregisterPcs, InitPcs, DestroyPcs, RefPcs, ListenerPcs,
     InitOrder
<1>20. CASE DetachUnregistered(t)
  BY <1>0, <1>20 DEF DetachUnregistered, OneOwner, DelegatesOK, AttachedPcs,
     RegDelegateFree, UnregDelegateFree, Lives, Idle, At, IdleCall, TypeFacts, Call,
     Pcs, RegisterPcs, UnregisterPcs, InitPcs, DestroyPcs, RefPcs, ListenerPcs,
     InitOrder
<1> QED
  BY <1>1, <1>2, <1>3, <1>4, <1>5, <1>6, <1>7, <1>8, <1>9, <1>10,
     <1>11, <1>12, <1>13, <1>14, <1>15, <1>16, <1>17, <1>18, <1>19, <1>20 DEF Start,
        Continue

\* A step after which every listener knows what it knew, every offer still
\* stands, and that makes no listener follow a name, keeps KnownOrOffered.
LEMMA KnownKept ==
    ASSUME TypeOK, KnownOrOffered, services' = services,
           \A l \in Listeners: refs[l] \subseteq refs'[l],
           \A l \in Listeners: Follows(l)' => Follows(l),
           \A u \in Threads: \A l \in Listeners: \A r \in Refs:
               Offers(u, l, r) => Offers(u, l, r)'
    PROVE  KnownOrOffered'
<1>1. services \in [Names -> Refs \cup {NoRef}] /\ \A l \in Listeners: Interest[l] \subseteq Names
  BY InterestAssumption DEF TypeOK
<1> QED
  BY <1>1 DEF KnownOrOffered, Offers, At

LEMMA KnownFromCases ==
    ASSUME TypeFacts',
           \A k \in Listeners: \A m \in Interest[k]: \A s \in Refs:
               services'[m] = s /\ Follows(k)'
                   => s \in refs'[k] \/ \E u \in Threads: Offers(u, k, s)'
    PROVE  KnownOrOffered'
<1>1. \A k \in Listeners: \A m \in Interest[k]: services'[m] \in Refs \cup {NoRef}
  BY InterestAssumption DEF TypeFacts
<1> QED
  BY <1>1 DEF KnownOrOffered, Offers, At

LEMMA KnownStep ==
    ASSUME TypeOK, RegistryOK, UnregisteredIsGone, DelegatesOK, KnownOrOffered,
           NEW t \in Threads, Start(t) \/ Continue(t)
    PROVE  KnownOrOffered'
<1> USE NullsAssumption
<1>0. TypeFacts
  BY TypeGives
<1>t. TypeFacts'
  BY TypeStep, TypeGives DEF TypeOK, TypeFacts, CallType
<1>o. \A u \in Threads: u # t => call'[u] = call[u]
  BY OthersWait
<1>1. ASSUME NEW n \in Names, Register(t, n) PROVE KnownOrOffered'
  <2>1. PICK x \in Refs:
          /\ nameOf[x] = NoName
          /\ services' = [services EXCEPT ![n] = x]
          /\ call' = [call EXCEPT ![t] = [IdleCall EXCEPT !.pc = "fireRegistered", !.ref = x]]
    BY <1>1 DEF Register
  <2>2. call[t].pc = "idle" /\ call'[t].pc = "fireRegistered" /\ call'[t].ref = x
    BY <1>1, <1>0, <2>1 DEF Register, Idle, IdleCall, TypeFacts
  <2>3. \A k \in Listeners: Follows(k)' => Follows(k)
    BY <1>1, <1>o, <2>2 DEF Register, Follows
  <2>4. \A u \in Threads: \A k \in Listeners: \A r \in Refs: Offers(u, k, r) => Offers(u, k, r)'
    BY <1>o, <2>2 DEF Offers, At
  <2>5. ASSUME NEW k \in Listeners, NEW m \in Interest[k], NEW s \in Refs, services'[m] = s, Follows(k)'
        PROVE  s \in refs'[k] \/ \E u \in Threads: Offers(u, k, s)'
    <3>1. m \in Names
      BY <1>0, InterestAssumption DEF TypeFacts
    <3>2. CASE m = n
      <4>1. s = x
        BY <1>0, <2>1, <2>5, <3>1, <3>2 DEF TypeFacts
      <4> QED
        BY <2>2, <4>1 DEF Offers, At
    <3>3. CASE m # n
      BY <1>1, <1>0, <2>1, <2>3, <2>4, <2>5, <3>1, <3>3 DEF Register, KnownOrOffered,
         TypeFacts
    <3> QED
      BY <3>2, <3>3
  <2> QED
    BY <1>t, <2>5, KnownFromCases
<1>2. CASE FireRegistered(t)
  <2>1. /\ call[t].pc = "fireRegistered" /\ call'[t].pc = "deliverRegistered"
        /\ call'[t].ref = call[t].ref /\ call'[t].to = regDelegates
    BY <1>2, <1>0 DEF FireRegistered, At, TypeFacts, Call
  <2>2. \A k \in Listeners: Follows(k)' => Follows(k)
    BY <1>2, <1>o, <2>1 DEF FireRegistered, Follows
  <2>3. \A k \in Listeners: Follows(k) => k \in regDelegates
    BY DEF Follows, DelegatesOK, AttachedPcs
  <2>4. \A u \in Threads: \A k \in Listeners: \A r \in Refs:
            Follows(k) /\ Offers(u, k, r) => Offers(u, k, r)'
    BY <1>o, <2>1, <2>3 DEF Offers, At
  <2>5. ASSUME NEW k \in Listeners, NEW m \in Interest[k], NEW s \in Refs, services'[m] = s, Follows(k)'
        PROVE  s \in refs'[k] \/ \E u \in Threads: Offers(u, k, s)'
    <3>1. services[m] = s /\ refs' = refs
      BY <1>2, <1>0, <2>5, InterestAssumption DEF FireRegistered, TypeFacts
    <3> QED
      BY <2>2, <2>4, <2>5, <3>1 DEF KnownOrOffered
  <2> QED
    BY <1>t, <2>5, KnownFromCases
<1>3. ASSUME NEW l \in Listeners, DeliverRegistered(t, l) PROVE KnownOrOffered'
  <2>1. /\ call[t].pc = "deliverRegistered" /\ call'[t].ref = call[t].ref
        /\ call'[t].pc \in {"deliverRegistered", "callRegistered"}
        /\ call'[t].to = call[t].to \ {l}
    BY <1>3, <1>0 DEF DeliverRegistered, At, TypeFacts, Call
  <2>2. \A k \in Listeners: Follows(k)' => Follows(k)
    BY <1>3, <1>o, <2>1 DEF DeliverRegistered, Follows
  <2>3. \A u \in Threads: \A k \in Listeners: \A r \in Refs:
            Offers(u, k, r) => Offers(u, k, r)' \/ (k = l /\ r = call[t].ref)
    BY <1>o, <2>1 DEF Offers, At
  <2>4. \A k \in Listeners: refs[k] \subseteq refs'[k]
    BY <1>3, <1>0 DEF DeliverRegistered, TypeFacts
  <2>5. ASSUME NEW k \in Listeners, NEW m \in Interest[k], NEW s \in Refs, services'[m] = s, Follows(k)'
        PROVE  s \in refs'[k] \/ \E u \in Threads: Offers(u, k, s)'
    <3>1. services[m] = s /\ nameOf[s] = m
      BY <1>3, <1>0, <2>5, InterestAssumption DEF DeliverRegistered, TypeFacts,
         RegistryOK
    <3>2. CASE k = l /\ s = call[t].ref
      <4>1. l \in regDelegates
        BY <2>2, <2>5, <3>2 DEF Follows, DelegatesOK, AttachedPcs
      <4> QED
        BY <1>3, <1>0, <3>1, <3>2, <4>1 DEF DeliverRegistered, Accepts, TypeFacts
    <3>3. CASE ~(k = l /\ s = call[t].ref)
      BY <2>2, <2>3, <2>4, <2>5, <3>1, <3>3 DEF KnownOrOffered
    <3> QED
      BY <3>2, <3>3
  <2> QED
    BY <1>t, <2>5, KnownFromCases
<1>4. CASE CallRegistered(t)
  <2>1. call'[t].pc = "deliverRegistered" /\ call'[t].ref = call[t].ref /\ call'[t].to = call[t].to
    BY <1>0, <1>4 DEF CallRegistered, TypeFacts, Call
  <2>2. \A k \in Listeners: Follows(k)' => Follows(k)
    BY <1>0, <1>o, <1>4, <2>1 DEF CallRegistered, At, Follows, TypeFacts, ListenerPcs,
       InitPcs, Lives
  <2>3. \A u \in Threads: \A k \in Listeners: \A r \in Refs: Offers(u, k, r) => Offers(u, k, r)'
    BY <1>o, <1>4, <2>1 DEF CallRegistered, At, Offers
  <2> QED
    BY <1>4, <2>2, <2>3, KnownKept DEF CallRegistered
<1>5. CASE EndRegister(t)
  <2>1. call'[t].pc = "idle"
    BY <1>0, <1>5 DEF EndRegister, TypeFacts, IdleCall
  <2>2. \A k \in Listeners: Follows(k)' => Follows(k)
    BY <1>0, <1>o, <1>5, <2>1 DEF EndRegister, At, Follows, TypeFacts, ListenerPcs,
       InitPcs, Lives
  <2>3. \A u \in Threads: \A k \in Listeners: \A r \in Refs: Offers(u, k, r) => Offers(u, k, r)'
    BY <1>o, <1>5, <2>1 DEF EndRegister, At, Offers
  <2> QED
    BY <1>5, <2>2, <2>3, KnownKept DEF EndRegister
<1>6. ASSUME NEW n \in Names, Unregister(t, n) PROVE KnownOrOffered'
  <2>1. call[t].pc = "idle" /\ call'[t].pc = "fireUnregistered"
    BY <1>6, <1>0 DEF Unregister, Idle, IdleCall, TypeFacts
  <2>2. \A k \in Listeners: Follows(k)' => Follows(k)
    BY <1>6, <1>o, <2>1 DEF Unregister, Follows
  <2>3. \A u \in Threads: \A k \in Listeners: \A r \in Refs: Offers(u, k, r) => Offers(u, k, r)'
    BY <1>o, <2>1 DEF Offers, At
  <2>4. ASSUME NEW k \in Listeners, NEW m \in Interest[k], NEW s \in Refs, services'[m] = s, Follows(k)'
        PROVE  s \in refs'[k] \/ \E u \in Threads: Offers(u, k, s)'
    <3>1. m \in Names /\ services[m] = s
      BY <1>6, <1>0, <2>4, InterestAssumption DEF Unregister, TypeFacts
    <3> QED
      BY <1>6, <2>2, <2>3, <2>4, <3>1 DEF Unregister, KnownOrOffered
  <2> QED
    BY <1>t, <2>4, KnownFromCases
<1>7. CASE FireUnregistered(t)
  <2>1. call'[t].pc = "deliverUnregistered"
    BY <1>0, <1>7 DEF FireUnregistered, TypeFacts, Call
  <2>2. \A k \in Listeners: Follows(k)' => Follows(k)
    BY <1>0, <1>o, <1>7, <2>1 DEF FireUnregistered, At, Follows, TypeFacts,
       ListenerPcs, InitPcs, Lives
  <2>3. \A u \in Threads: \A k \in Listeners: \A r \in Refs: Offers(u, k, r) => Offers(u, k, r)'
    BY <1>o, <1>7, <2>1 DEF FireUnregistered, At, Offers
  <2> QED
    BY <1>7, <2>2, <2>3, KnownKept DEF FireUnregistered
<1>8. ASSUME NEW l \in Listeners, DeliverUnregistered(t, l) PROVE KnownOrOffered'
  <2>1. /\ call[t].pc = "deliverUnregistered"
        /\ call'[t].pc \in {"deliverUnregistered", "callUnregistered"}
    BY <1>8, <1>0 DEF DeliverUnregistered, At, TypeFacts, Call
  <2>2. \A k \in Listeners: Follows(k)' => Follows(k)
    BY <1>8, <1>o, <2>1 DEF DeliverUnregistered, Follows
  <2>3. \A u \in Threads: \A k \in Listeners: \A r \in Refs: Offers(u, k, r) => Offers(u, k, r)'
    BY <1>o, <2>1 DEF Offers, At
  <2>4. \A k \in Listeners: refs[k] \ {call[t].ref} \subseteq refs'[k]
    BY <1>8, <1>0 DEF DeliverUnregistered, TypeFacts
  <2>5. ASSUME NEW k \in Listeners, NEW m \in Interest[k], NEW s \in Refs, services'[m] = s, Follows(k)'
        PROVE  s \in refs'[k] \/ \E u \in Threads: Offers(u, k, s)'
    <3>1. services[m] = s /\ m \in Names
      BY <1>8, <1>0, <2>5, InterestAssumption DEF DeliverUnregistered, TypeFacts
    <3>2. s # call[t].ref
      BY <2>1, <3>1 DEF UnregisteredIsGone, UnregisterPcs
    <3> QED
      BY <2>2, <2>3, <2>4, <2>5, <3>1, <3>2 DEF KnownOrOffered
  <2> QED
    BY <1>t, <2>5, KnownFromCases
<1>9. CASE CallUnregistered(t)
  <2>1. call'[t].pc = "deliverUnregistered"
    BY <1>0, <1>9 DEF CallUnregistered, TypeFacts, Call
  <2>2. \A k \in Listeners: Follows(k)' => Follows(k)
    BY <1>0, <1>o, <1>9, <2>1 DEF CallUnregistered, At, Follows, TypeFacts,
       ListenerPcs, InitPcs, Lives
  <2>3. \A u \in Threads: \A k \in Listeners: \A r \in Refs: Offers(u, k, r) => Offers(u, k, r)'
    BY <1>o, <1>9, <2>1 DEF CallUnregistered, At, Offers
  <2> QED
    BY <1>9, <2>2, <2>3, KnownKept DEF CallUnregistered
<1>10. CASE EndUnregister(t)
  <2>1. call'[t].pc = "idle"
    BY <1>0, <1>10 DEF EndUnregister, TypeFacts, IdleCall
  <2>2. \A k \in Listeners: Follows(k)' => Follows(k)
    BY <1>0, <1>o, <1>10, <2>1 DEF EndUnregister, At, Follows, TypeFacts, ListenerPcs,
       InitPcs, Lives
  <2>3. \A u \in Threads: \A k \in Listeners: \A r \in Refs: Offers(u, k, r) => Offers(u, k, r)'
    BY <1>o, <1>10, <2>1 DEF EndUnregister, At, Offers
  <2> QED
    BY <1>10, <2>2, <2>3, KnownKept DEF EndUnregister
<1>11. ASSUME NEW l \in Listeners, CreateListener(t, l) PROVE KnownOrOffered'
  <2>1. call[t].pc = "idle" /\ call'[t].pc = "attachRegistered"
    BY <1>0, <1>11 DEF CreateListener, InitOrder, TypeFacts, Idle, IdleCall
  <2>2. \A k \in Listeners: Follows(k)' => Follows(k)
    BY <1>0, <1>o, <1>11, <2>1 DEF CreateListener, At, Follows, TypeFacts,
       ListenerPcs, InitPcs, Lives
  <2>3. \A u \in Threads: \A k \in Listeners: \A r \in Refs: Offers(u, k, r) => Offers(u, k, r)'
    BY <1>o, <1>11, <2>1 DEF CreateListener, At, Offers
  <2> QED
    BY <1>11, <2>2, <2>3, KnownKept DEF CreateListener
<1>12. CASE AttachRegistered(t)
  <2>1. call'[t].pc = "attachUnregistered"
    BY <1>0, <1>12 DEF AttachRegistered, InitOrder, TypeFacts, Call
  <2>2. \A k \in Listeners: Follows(k)' => Follows(k)
    BY <1>0, <1>o, <1>12, <2>1 DEF AttachRegistered, At, Follows, TypeFacts,
       ListenerPcs, InitPcs, Lives
  <2>3. \A u \in Threads: \A k \in Listeners: \A r \in Refs: Offers(u, k, r) => Offers(u, k, r)'
    BY <1>o, <1>12, <2>1 DEF AttachRegistered, At, Offers
  <2> QED
    BY <1>12, <2>2, <2>3, KnownKept DEF AttachRegistered
<1>13. CASE AttachUnregistered(t)
  <2>1. call'[t].pc = "find"
    BY <1>0, <1>13 DEF AttachUnregistered, InitOrder, TypeFacts, Call
  <2>2. \A k \in Listeners: Follows(k)' => Follows(k)
    BY <1>0, <1>o, <1>13, <2>1 DEF AttachUnregistered, At, Follows, TypeFacts,
       ListenerPcs, InitPcs, Lives
  <2>3. \A u \in Threads: \A k \in Listeners: \A r \in Refs: Offers(u, k, r) => Offers(u, k, r)'
    BY <1>o, <1>13, <2>1 DEF AttachUnregistered, At, Offers
  <2> QED
    BY <1>13, <2>2, <2>3, KnownKept DEF AttachUnregistered
<1>14. CASE FindServices(t)
  <2>1. /\ call[t].pc = "find" /\ call'[t].pc = "announce" /\ call'[t].at = call[t].at
        /\ call'[t].found = Matching(call[t].at)
    BY <1>14, <1>0 DEF FindServices, At, TypeFacts, Call, InitOrder
  <2>2. \A k \in Listeners: Follows(k)' => Follows(k) \/ k = call[t].at
    BY <1>14, <1>o, <2>1 DEF FindServices, Follows
  <2>3. \A u \in Threads: \A k \in Listeners: \A r \in Refs: Offers(u, k, r) => Offers(u, k, r)'
    BY <1>o, <2>1 DEF Offers, At
  <2>4. ASSUME NEW k \in Listeners, NEW m \in Interest[k], NEW s \in Refs, services'[m] = s, Follows(k)'
        PROVE  s \in refs'[k] \/ \E u \in Threads: Offers(u, k, s)'
    <3>1. services[m] = s /\ refs' = refs
      BY <1>14, <1>0, <2>4, InterestAssumption DEF FindServices, TypeFacts
    <3>2. CASE k = call[t].at
      BY <2>1, <2>4, <3>1, <3>2 DEF Matching, Offers
    <3>3. CASE k # call[t].at
      BY <2>2, <2>3, <2>4, <3>1, <3>3 DEF KnownOrOffered
    <3> QED
      BY <3>2, <3>3
  <2> QED
    BY <1>t, <2>4, KnownFromCases
<1>15. ASSUME NEW r \in Refs, Announce(t, r) PROVE KnownOrOffered'
  <2>1. /\ call[t].pc = "announce" /\ call'[t].pc \in {"announce", "callAnnounced"}
        /\ call'[t].at = call[t].at /\ call'[t].found = call[t].found \ {r}
    BY <1>15, <1>0 DEF Announce, At, TypeFacts, Call
  <2>2. \A k \in Listeners: Follows(k)' => Follows(k)
    BY <1>15, <1>o, <2>1 DEF Announce, Follows
  <2>3. \A u \in Threads: \A k \in Listeners: \A s \in Refs:
            Offers(u, k, s) => Offers(u, k, s)' \/ (k = call[t].at /\ s = r)
    BY <1>o, <2>1 DEF Offers, At
  <2>4. \A k \in Listeners: refs[k] \subseteq refs'[k]
    BY <1>15, <1>0 DEF Announce, TypeFacts
  <2>5. ASSUME NEW k \in Listeners, NEW m \in Interest[k], NEW s \in Refs, services'[m] = s, Follows(k)'
        PROVE  s \in refs'[k] \/ \E u \in Threads: Offers(u, k, s)'
    <3>1. services[m] = s /\ nameOf[s] = m
      BY <1>15, <1>0, <2>5, InterestAssumption DEF Announce, TypeFacts, RegistryOK
    <3>2. CASE k = call[t].at /\ s = r
      BY <1>15, <1>0, <3>1, <3>2 DEF Announce, Accepts, TypeFacts
    <3>3. CASE ~(k = call[t].at /\ s = r)
      BY <2>2, <2>3, <2>4, <2>5, <3>1, <3>3 DEF KnownOrOffered
    <3> QED
      BY <3>2, <3>3
  <2> QED
    BY <1>t, <2>5, KnownFromCases
<1>16. CASE CallAnnounced(t)
  <2>1. call'[t].pc = "announce" /\ call'[t].at = call[t].at /\ call'[t].found = call[t].found
    BY <1>0, <1>16 DEF CallAnnounced, TypeFacts, Call
  <2>2. \A k \in Listeners: Follows(k)' => Follows(k)
    BY <1>0, <1>o, <1>16, <2>1 DEF CallAnnounced, At, Follows, TypeFacts, ListenerPcs,
       InitPcs, Lives
  <2>3. \A u \in Threads: \A k \in Listeners: \A r \in Refs: Offers(u, k, r) => Offers(u, k, r)'
    BY <1>o, <1>16, <2>1 DEF CallAnnounced, At, Offers
  <2> QED
    BY <1>16, <2>2, <2>3, KnownKept DEF CallAnnounced
<1>17. CASE EndCreate(t)
  <2>1. call'[t].pc = "idle"
    BY <1>0, <1>17 DEF EndCreate, TypeFacts, IdleCall
  <2>2. \A k \in Listeners: Follows(k)' => Follows(k)
    BY <1>0, <1>o, <1>17, <2>1 DEF EndCreate, At, Follows, TypeFacts, ListenerPcs,
       InitPcs, Lives
  <2>3. \A u \in Threads: \A k \in Listeners: \A r \in Refs: Offers(u, k, r) => Offers(u, k, r)'
    BY <1>o, <1>17, <2>1 DEF EndCreate, At, Offers
  <2> QED
    BY <1>17, <2>2, <2>3, KnownKept DEF EndCreate
<1>18. ASSUME NEW l \in Listeners, DestroyListener(t, l) PROVE KnownOrOffered'
  <2>1. call[t].pc = "idle" /\ call'[t].pc = "detachRegistered"
    BY <1>0, <1>18 DEF DestroyListener, TypeFacts, Idle, IdleCall
  <2>2. \A k \in Listeners: Follows(k)' => Follows(k)
    BY <1>0, <1>o, <1>18, <2>1 DEF DestroyListener, At, Follows, TypeFacts,
       ListenerPcs, InitPcs, Lives
  <2>3. \A u \in Threads: \A k \in Listeners: \A r \in Refs: Offers(u, k, r) => Offers(u, k, r)'
    BY <1>o, <1>18, <2>1 DEF DestroyListener, At, Offers
  <2> QED
    BY <1>18, <2>2, <2>3, KnownKept DEF DestroyListener
<1>19. CASE DetachRegistered(t)
  <2>1. call'[t].pc = "detachUnregistered"
    BY <1>0, <1>19 DEF DetachRegistered, TypeFacts, Call
  <2>2. \A k \in Listeners: Follows(k)' => Follows(k)
    BY <1>0, <1>o, <1>19, <2>1 DEF DetachRegistered, At, Follows, TypeFacts,
       ListenerPcs, InitPcs, Lives
  <2>3. \A u \in Threads: \A k \in Listeners: \A r \in Refs: Offers(u, k, r) => Offers(u, k, r)'
    BY <1>o, <1>19, <2>1 DEF DetachRegistered, At, Offers
  <2> QED
    BY <1>19, <2>2, <2>3, KnownKept DEF DetachRegistered
<1>20. CASE DetachUnregistered(t)
  <2>1. call'[t].pc = "idle"
    BY <1>0, <1>20 DEF DetachUnregistered, TypeFacts, IdleCall
  <2>2. \A k \in Listeners: Follows(k)' => Follows(k)
    BY <1>0, <1>o, <1>20, <2>1 DEF DetachUnregistered, At, Follows, TypeFacts,
       ListenerPcs, InitPcs, Lives
  <2>3. \A u \in Threads: \A k \in Listeners: \A r \in Refs: Offers(u, k, r) => Offers(u, k, r)'
    BY <1>o, <1>20, <2>1 DEF DetachUnregistered, At, Offers
  <2> QED
    BY <1>20, <2>2, <2>3, KnownKept DEF DetachUnregistered
<1> QED
  BY <1>1, <1>2, <1>3, <1>4, <1>5, <1>6, <1>7, <1>8, <1>9, <1>10,
     <1>11, <1>12, <1>13, <1>14, <1>15, <1>16, <1>17, <1>18, <1>19, <1>20 DEF Start,
        Continue

LEMMA ToldFromCases ==
    ASSUME TypeFacts',
           \A k \in Listeners: \A m \in Interest[k]: \A s \in Refs:
               services'[m] = s /\ s \in refs'[k]
                   => s \in notified'[k] \/ \E u \in Threads: Tells(u, k, s)'
    PROVE  ToldOrTelling'
<1>1. \A k \in Listeners: \A m \in Interest[k]: services'[m] \in Refs \cup {NoRef}
  BY InterestAssumption DEF TypeFacts
<1> QED
  BY <1>1 DEF ToldOrTelling, Tells

LEMMA ToldStep ==
    ASSUME TypeOK, RegistryOK, UnregisteredIsGone, ToldOrTelling,
           NEW t \in Threads, Start(t) \/ Continue(t)
    PROVE  ToldOrTelling'
<1> USE NullsAssumption, InterestAssumption
<1>0. TypeFacts
  BY TypeGives
<1>t. TypeFacts'
  BY TypeStep, TypeGives DEF TypeOK, TypeFacts, CallType
<1>o. \A u \in Threads: u # t => call'[u] = call[u]
  BY OthersWait
<1>1. ASSUME NEW n \in Names, Register(t, n) PROVE ToldOrTelling'
  BY <1>0, <1>1 DEF Register, RegistryOK, UnregisteredIsGone, Created, ToldOrTelling,
     Tells, Accepts, Idle, At, IdleCall, TypeFacts, Call, Pcs, RegisterPcs,
     UnregisterPcs, InitPcs, DestroyPcs, RefPcs, ListenerPcs, InitOrder
<1>2. CASE FireRegistered(t)
  <2>1. call[t].pc = "fireRegistered" /\ call'[t].pc = "deliverRegistered"
    BY <1>2, <1>0 DEF FireRegistered, At, TypeFacts, Call
  <2>2. \A u \in Threads: \A k \in Listeners: \A s \in Refs: Tells(u, k, s) => Tells(u, k, s)'
    BY <1>o, <2>1 DEF Tells
  <2>3. services' = services /\ refs' = refs /\ notified' = notified
    BY <1>2 DEF FireRegistered
  <2> QED
    BY <1>t, <2>2, <2>3, ToldFromCases DEF ToldOrTelling
<1>3. ASSUME NEW l \in Listeners, DeliverRegistered(t, l) PROVE ToldOrTelling'
  <2>1. call[t].pc = "deliverRegistered"
    BY <1>3, <1>0 DEF DeliverRegistered, At, TypeFacts, Call
  <2>2. \A u \in Threads: \A k \in Listeners: \A s \in Refs: Tells(u, k, s) => Tells(u, k, s)'
    BY <1>o, <2>1 DEF Tells
  <2>3. services' = services /\ notified' = notified
    BY <1>3 DEF DeliverRegistered
  <2>4. \A k \in Listeners: \A s \in refs'[k]: s \in refs[k] \/ Tells(t, k, s)'
    BY <1>3, <1>0 DEF DeliverRegistered, Tells, TypeFacts, Call
  <2> QED
    BY <1>t, <2>2, <2>3, <2>4, ToldFromCases DEF ToldOrTelling
<1>4. CASE CallRegistered(t)
  BY <1>0, <1>4 DEF CallRegistered, RegistryOK, UnregisteredIsGone, Created,
     ToldOrTelling, Tells, Accepts, Idle, At, IdleCall, TypeFacts, Call, Pcs,
     RegisterPcs, UnregisterPcs, InitPcs, DestroyPcs, RefPcs, ListenerPcs, InitOrder
<1>5. CASE EndRegister(t)
  BY <1>0, <1>5 DEF EndRegister, RegistryOK, UnregisteredIsGone, Created,
     ToldOrTelling, Tells, Accepts, Idle, At, IdleCall, TypeFacts, Call, Pcs,
     RegisterPcs, UnregisterPcs, InitPcs, DestroyPcs, RefPcs, ListenerPcs, InitOrder
<1>6. ASSUME NEW n \in Names, Unregister(t, n) PROVE ToldOrTelling'
  BY <1>0, <1>6 DEF Unregister, RegistryOK, UnregisteredIsGone, Created,
     ToldOrTelling, Tells, Accepts, Idle, At, IdleCall, TypeFacts, Call, Pcs,
     RegisterPcs, UnregisterPcs, InitPcs, DestroyPcs, RefPcs, ListenerPcs, InitOrder
<1>7. CASE FireUnregistered(t)
  <2>1. call[t].pc = "fireUnregistered" /\ call'[t].pc = "deliverUnregistered"
    BY <1>7, <1>0 DEF FireUnregistered, At, TypeFacts, Call
  <2>2. \A u \in Threads: \A k \in Listeners: \A s \in Refs: Tells(u, k, s) => Tells(u, k, s)'
    BY <1>o, <2>1 DEF Tells
  <2>3. services' = services /\ refs' = refs /\ notified' = notified
    BY <1>7 DEF FireUnregistered
  <2> QED
    BY <1>t, <2>2, <2>3, ToldFromCases DEF ToldOrTelling
<1>8. ASSUME NEW l \in Listeners, DeliverUnregistered(t, l) PROVE ToldOrTelling'
  <2>1. call[t].pc = "deliverUnregistered"
    BY <1>8 DEF DeliverUnregistered, At
  <2>2. \A u \in Threads: \A k \in Listeners: \A s \in Refs: Tells(u, k, s) => Tells(u, k, s)'
    BY <1>o, <2>1 DEF Tells
  <2>3. services' = services /\ notified' = notified
    BY <1>8 DEF DeliverUnregistered
  <2>4. \A k \in Listeners: refs'[k] \subseteq refs[k]
    BY <1>8, <1>0 DEF DeliverUnregistered, TypeFacts
  <2> QED
    BY <1>t, <2>2, <2>3, <2>4, ToldFromCases DEF ToldOrTelling
<1>9. CASE CallUnregistered(t)
  BY <1>0, <1>9 DEF CallUnregistered, RegistryOK, UnregisteredIsGone, Created,
     ToldOrTelling, Tells, Accepts, Idle, At, IdleCall, TypeFacts, Call, Pcs,
     RegisterPcs, UnregisterPcs, InitPcs, DestroyPcs, RefPcs, ListenerPcs, InitOrder
<1>10. CASE EndUnregister(t)
  BY <1>0, <1>10 DEF EndUnregister, RegistryOK, UnregisteredIsGone, Created,
     ToldOrTelling, Tells, Accepts, Idle, At, IdleCall, TypeFacts, Call, Pcs,
     RegisterPcs, UnregisterPcs, InitPcs, DestroyPcs, RefPcs, ListenerPcs, InitOrder
<1>11. ASSUME NEW l \in Listeners, CreateListener(t, l) PROVE ToldOrTelling'
  BY <1>0, <1>11 DEF CreateListener, RegistryOK, UnregisteredIsGone, Created,
     ToldOrTelling, Tells, Accepts, Idle, At, IdleCall, TypeFacts, Call, Pcs,
     RegisterPcs, UnregisterPcs, InitPcs, DestroyPcs, RefPcs, ListenerPcs, InitOrder
<1>12. CASE AttachRegistered(t)
  BY <1>0, <1>12 DEF AttachRegistered, RegistryOK, UnregisteredIsGone, Created,
     ToldOrTelling, Tells, Accepts, Idle, At, IdleCall, TypeFacts, Call, Pcs,
     RegisterPcs, UnregisterPcs, InitPcs, DestroyPcs, RefPcs, ListenerPcs, InitOrder
<1>13. CASE AttachUnregistered(t)
  BY <1>0, <1>13 DEF AttachUnregistered, RegistryOK, UnregisteredIsGone, Created,
     ToldOrTelling, Tells, Accepts, Idle, At, IdleCall, TypeFacts, Call, Pcs,
     RegisterPcs, UnregisterPcs, InitPcs, DestroyPcs, RefPcs, ListenerPcs, InitOrder
<1>14. CASE FindServices(t)
  <2>1. call[t].pc = "find" /\ call'[t].pc = "announce"
    BY <1>14, <1>0 DEF FindServices, At, TypeFacts, Call, InitOrder
  <2>2. \A u \in Threads: \A k \in Listeners: \A s \in Refs: Tells(u, k, s) => Tells(u, k, s)'
    BY <1>o, <2>1 DEF Tells
  <2>3. services' = services /\ refs' = refs /\ notified' = notified
    BY <1>14 DEF FindServices
  <2> QED
    BY <1>t, <2>2, <2>3, ToldFromCases DEF ToldOrTelling
<1>15. ASSUME NEW r \in Refs, Announce(t, r) PROVE ToldOrTelling'
  <2>1. call[t].pc = "announce"
    BY <1>15, <1>0 DEF Announce, At, TypeFacts, Call
  <2>2. \A u \in Threads: \A k \in Listeners: \A s \in Refs: Tells(u, k, s) => Tells(u, k, s)'
    BY <1>o, <2>1 DEF Tells
  <2>3. services' = services /\ notified' = notified
    BY <1>15 DEF Announce
  <2>4. \A k \in Listeners: \A s \in refs'[k]: s \in refs[k] \/ Tells(t, k, s)'
    BY <1>15, <1>0 DEF Announce, Tells, TypeFacts, Call, ListenerPcs, InitPcs, At
  <2> QED
    BY <1>t, <2>2, <2>3, <2>4, ToldFromCases DEF ToldOrTelling
<1>16. CASE CallAnnounced(t)
  BY <1>0, <1>16 DEF CallAnnounced, RegistryOK, UnregisteredIsGone, Created,
     ToldOrTelling, Tells, Accepts, Idle, At, IdleCall, TypeFacts, Call, Pcs,
     RegisterPcs, UnregisterPcs, InitPcs, DestroyPcs, RefPcs, ListenerPcs, InitOrder
<1>17. CASE EndCreate(t)
  BY <1>0, <1>17 DEF EndCreate, RegistryOK, UnregisteredIsGone, Created,
     ToldOrTelling, Tells, Accepts, Idle, At, IdleCall, TypeFacts, Call, Pcs,
     RegisterPcs, UnregisterPcs, InitPcs, DestroyPcs, RefPcs, ListenerPcs, InitOrder
<1>18. ASSUME NEW l \in Listeners, DestroyListener(t, l) PROVE ToldOrTelling'
  BY <1>0, <1>18 DEF DestroyListener, RegistryOK, UnregisteredIsGone, Created,
     ToldOrTelling, Tells, Accepts, Idle, At, IdleCall, TypeFacts, Call, Pcs,
     RegisterPcs, UnregisterPcs, InitPcs, DestroyPcs, RefPcs, ListenerPcs, InitOrder
<1>19. CASE DetachRegistered(t)
  BY <1>0, <1>19 DEF DetachRegistered, RegistryOK, UnregisteredIsGone, Created,
     ToldOrTelling, Tells, Accepts, Idle, At, IdleCall, TypeFacts, Call, Pcs,
     RegisterPcs, UnregisterPcs, InitPcs, DestroyPcs, RefPcs, ListenerPcs, InitOrder
<1>20. CASE DetachUnregistered(t)
  BY <1>0, <1>20 DEF DetachUnregistered, RegistryOK, UnregisteredIsGone, Created,
     ToldOrTelling, Tells, Accepts, Idle, At, IdleCall, TypeFacts, Call, Pcs,
     RegisterPcs, UnregisterPcs, InitPcs, DestroyPcs, RefPcs, ListenerPcs, InitOrder
<1> QED
  BY <1>1, <1>2, <1>3, <1>4, <1>5, <1>6, <1>7, <1>8, <1>9, <1>10,
     <1>11, <1>12, <1>13, <1>14, <1>15, <1>16, <1>17, <1>18, <1>19, <1>20 DEF Start,
        Continue

-----------------------------------------------------------------------------
(* The theorems *)

LEMMA InvInit == Init => IInv
<1> USE NullsAssumption, InterestAssumption
<1> SUFFICES ASSUME Init PROVE IInv
  OBVIOUS
<1>1. TypeOK
  <2>1. call \in [Threads -> CallType]
    BY IdleCallType DEF Init
  <2> QED
    BY <2>1 DEF Init, TypeOK, Lives
<1>2. \A t \in Threads: call[t] = IdleCall
  BY DEF Init
<1>3. RegistryOK
  BY <1>2 DEF Init, RegistryOK, Created, IdleCall, RefPcs, RegisterPcs, UnregisterPcs
<1>4. UnregisteredIsGone /\ OneOwner
  BY <1>2 DEF IdleCall, UnregisteredIsGone, OneOwner, UnregisterPcs, InitPcs, DestroyPcs
<1>5. DelegatesOK
  BY <1>2 DEF Init, IdleCall, At, DelegatesOK, AttachedPcs
<1>6. KnownOrOffered /\ ToldOrTelling
  BY DEF Init, KnownOrOffered, ToldOrTelling
<1> QED
  BY <1>1, <1>3, <1>4, <1>5, <1>6 DEF IInv

LEMMA InvStep == IInv /\ [Next]_vars => IInv'
<1> SUFFICES ASSUME IInv, [Next]_vars PROVE IInv'
  OBVIOUS
<1>1. ASSUME NEW t \in Threads, Start(t) \/ Continue(t) PROVE IInv'
  <2>1. TypeOK' /\ RegistryOK' /\ UnregisteredIsGone'
    BY <1>1, TypeStep, RegistryStep, GoneStep DEF IInv
  <2>2. OneOwner' /\ DelegatesOK'
    BY <1>1, OwnerStep, DelegatesStep DEF IInv
  <2>3. KnownOrOffered' /\ ToldOrTelling'
    BY <1>1, KnownStep, ToldStep DEF IInv
  <2> QED
    BY <2>1, <2>2, <2>3 DEF IInv
<1>2. CASE UNCHANGED vars
  BY <1>2 DEF vars, IInv, TypeOK, RegistryOK, Created, UnregisteredIsGone, OneOwner,
     DelegatesOK, At, KnownOrOffered, Follows, Offers, ToldOrTelling, Tells
<1> QED
  BY <1>1, <1>2 DEF Next

\* The inductive invariant holds in every reachable state.
THEOREM Inductive == Spec => []IInv
BY InvInit, InvStep, PTL DEF Spec

\* Every variable keeps its type, whatever the threads, names and listeners:
\* TypeOK, over registerService, unregisterService and the life of a listener.
THEOREM TypeCorrect == Spec => []TypeOK
<1>1. IInv => TypeOK
  BY DEF IInv
<1> QED
  BY <1>1, Inductive, PTL

\* Because init() attaches before it looks, a listener that is idle has told its
\* client of every matching service: each one was found, or its event reached
\* the delegate, or was in both and was told once.
THEOREM NoServiceIsMissed == Spec => []NoMissedService
<1>1. ASSUME IInv PROVE NoMissedService
  <2>1. SUFFICES ASSUME AllIdle, NEW l \in Listeners, life[l] = "ready",
                        NEW n \in Interest[l], services[n] # NoRef
                 PROVE  services[n] \in notified[l]
    BY DEF NoMissedService, Matching
  <2>2. \A t \in Threads: call[t].pc = "idle"
    BY <2>1 DEF AllIdle, Idle, IdleCall
  <2>3. services[n] \in refs[l]
    BY <1>1, <2>1, <2>2 DEF IInv, KnownOrOffered, Follows, Offers, At
  <2> QED
    BY <1>1, <2>1, <2>2, <2>3 DEF IInv, ToldOrTelling, Tells
<1> QED
  BY <1>1, Inductive, PTL

\* Removing a delegate waits for the notification that runs it and disables it
\* for the ones that took their snapshot before: after ~ServiceListener() no
\* step tells the client anything.
THEOREM DestroyedIsSilent == Spec => SilentAfterDestroy
<1>1. ASSUME IInv, [Next]_vars
      PROVE  [\A l \in Listeners: life[l] = "dead" => notified'[l] = notified[l]]_vars
  <2> SUFFICES ASSUME NEW t \in Threads, Start(t) \/ Continue(t), NEW l \in Listeners,
                      life[l] = "dead"
               PROVE  notified'[l] = notified[l]
    BY <1>1 DEF Next
  <2>0. TypeFacts
    BY <1>1, TypeGives DEF IInv
  <2>1. CASE CallRegistered(t)
    <3>1. call[t].at # l
      BY <1>1, <2>1 DEF CallRegistered, IInv, DelegatesOK
    <3> QED
      BY <2>0, <2>1, <3>1 DEF CallRegistered, TypeFacts
  <2>2. CASE CallUnregistered(t)
    <3>1. call[t].at # l
      BY <1>1, <2>2 DEF CallUnregistered, IInv, DelegatesOK
    <3> QED
      BY <2>0, <2>2, <3>1 DEF CallUnregistered, TypeFacts
  <2>3. CASE CallAnnounced(t)
    <3>1. call[t].at # l
      BY <1>1, <2>3 DEF CallAnnounced, At, IInv, OneOwner, InitPcs
    <3> QED
      BY <2>0, <2>3, <3>1 DEF CallAnnounced, TypeFacts
  <2>4. CASE Start(t)
    BY <2>4 DEF Start, Register, Unregister, CreateListener, DestroyListener
  <2>5. CASE \/ FireRegistered(t) \/ EndRegister(t) \/ FireUnregistered(t)
             \/ EndUnregister(t) \/ AttachRegistered(t) \/ AttachUnregistered(t)
             \/ FindServices(t) \/ EndCreate(t) \/ DetachRegistered(t)
             \/ DetachUnregistered(t)
    BY <2>5 DEF FireRegistered, EndRegister, FireUnregistered, EndUnregister,
       AttachRegistered, AttachUnregistered, FindServices, EndCreate, DetachRegistered,
       DetachUnregistered
  <2>6. CASE \/ \E k \in Listeners: DeliverRegistered(t, k) \/ DeliverUnregistered(t, k)
             \/ \E r \in Refs: Announce(t, r)
    BY <2>6 DEF DeliverRegistered, DeliverUnregistered, Announce
  <2> QED
    BY <2>1, <2>2, <2>3, <2>4, <2>5, <2>6 DEF Continue
<1> QED
  BY <1>1, Inductive, PTL DEF Spec, SilentAfterDestroy

=============================================================================
