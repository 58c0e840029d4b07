--------------------------- MODULE TunnelAgentProofs ---------------------------
(***************************************************************************)
(* There is one tunnel at most, however many are established one after     *)
(* the other, and whenever the bundle is stopped.                          *)
(*                                                                         *)
(* OneTunnel is not inductive: it does not say why a reconnect is not      *)
(* scheduled twice.  The reason is that the right to connect is one thing  *)
(* that passes from hand to hand, and may get lost, but is never doubled:  *)
(* it is the scheduled reconnect, then the timer's thread that carries it  *)
(* out, then the tunnel that is up, then the thread that heard of its      *)
(* loss and will schedule the next reconnect.  Exclusive says that no two  *)
(* of them hold it at once.                                                *)
(***************************************************************************)
EXTENDS TunnelAgent, FiniteSetTheorems, TLAPS

\* A worker that has called onClose() or is about to.
Hears(i) == Busy(i) \/ (worker[i] = "fire" /\ i \in listening)

\* The OSP thread is in onClose().
OspHears == pc["osp"] \in {"update", "tellClosed", "retry"}

\* The timer's thread connects, or has a tunnel that was lost before onClose() listened.
NoneOpen == \A i \in Tunnels: webSocket[i] # "open"
Connecting == Reconnecting \/ (pc["timer"] = "listen" /\ NoneOpen)

TunnelHeld(i) == Hears(i) \/ webSocket[i] = "open"

Exclusive ==
    /\ scheduled <= 1
    /\ scheduled = 1 => ~Connecting /\ ~OspHears
    /\ Connecting => ~OspHears
    /\ \A i \in Tunnels: TunnelHeld(i) =>
         /\ scheduled = 0 /\ ~Connecting /\ ~OspHears
         /\ \A j \in Tunnels: TunnelHeld(j) => i = j

\* What the timer's thread does, and when the tunnels' parts come into use.
Order ==
    /\ pc["timer"] \notin {"update", "tellClosed", "retry"}
    /\ pForwarder # None => webSocket[pForwarder] # "none"
    /\ \A i \in Tunnels:
         /\ webSocket[i] = "open" => pForwarder = i
         /\ webSocket[i] = "none" => i \notin listening
         /\ worker[i] # "none" => webSocket[i] = "closed"
    /\ pc["timer"] = "listen" => pForwarder \notin listening

IInv == AgentTypeOK /\ Exclusive /\ Order
-----------------------------------------------------------------------------
(* Every step keeps the invariant *)

LEMMA NoneIsNoTunnel == None \notin Tunnels
  BY DEF None, Tunnels

LEMMA BooleanPair == \A x, y: {x, y} \subseteq BOOLEAN <=> x \in BOOLEAN /\ y \in BOOLEAN
  OBVIOUS

LEMMA ScheduleTypes ==
    ASSUME AgentTypeOK, ScheduleReconnect
    PROVE  scheduled' \in Nat /\ {cancelling', stopped'} \subseteq BOOLEAN
<1>1. scheduled' = scheduled \/ scheduled' = scheduled + 1
  BY DEF ScheduleReconnect
<1>2. scheduled' \in Nat
  BY <1>1 DEF AgentTypeOK
<1>3. cancelling' \in BOOLEAN /\ stopped' \in BOOLEAN
  BY DEF AgentTypeOK, ScheduleReconnect
<1> QED
  BY <1>2, <1>3

LEMMA DisconnectKeeps == ASSUME NEW p \in Actors, IInv, Disconnect(p) PROVE IInv'
<1>a. AgentTypeOK /\ Exclusive /\ Order /\ Disconnect(p)
  BY DEF IInv
<1>1. AgentTypeOK'
  BY <1>a DEF AgentTypeOK, Disconnect, After, Go, tunnelVars, serviceVars, timerVars
<1>2. Exclusive'
  BY <1>a
     DEF AgentTypeOK, Exclusive, Actors, TunnelHeld, Hears, Busy, OspHears, Connecting,
         Reconnecting, NoneOpen, Disconnect, After, Go, tunnelVars, timerVars
<1>3. Order'
  BY <1>a DEF AgentTypeOK, Order, Actors, Disconnect, After, Go, tunnelVars
<1> QED
  BY <1>1, <1>2, <1>3 DEF IInv

LEMMA ReportDownKeeps == ASSUME NEW p \in Actors, IInv, ReportDown(p) PROVE IInv'
<1>a. AgentTypeOK /\ Exclusive /\ Order /\ ReportDown(p)
  BY DEF IInv
<1>1. AgentTypeOK'
  BY <1>a DEF AgentTypeOK, ReportDown, Update, Go, tunnelVars, timerVars
<1>2. Exclusive'
  BY <1>a
     DEF Exclusive, TunnelHeld, Hears, Busy, OspHears, Connecting, Reconnecting, NoneOpen,
         ReportDown, Go, tunnelVars, timerVars
<1>3. Order'
  BY <1>a DEF Order, ReportDown, Go, tunnelVars
<1> QED
  BY <1>1, <1>2, <1>3 DEF IInv

LEMMA TellDownKeeps == ASSUME NEW p \in Actors, IInv, TellDown(p) PROVE IInv'
<1>a. AgentTypeOK /\ Exclusive /\ Order /\ TellDown(p)
  BY DEF IInv
<1>1. AgentTypeOK'
  BY <1>a DEF AgentTypeOK, TellDown, Go, tunnelVars, timerVars
<1>2. Exclusive'
  BY <1>a
     DEF Exclusive, TunnelHeld, Hears, Busy, OspHears, Connecting, Reconnecting, NoneOpen,
         TellDown, Go, tunnelVars, timerVars
<1>3. Order'
  BY <1>a DEF Order, TellDown, Go, tunnelVars
<1> QED
  BY <1>1, <1>2, <1>3 DEF IInv

LEMMA UnlistenKeeps == ASSUME NEW p \in Actors, IInv, Unlisten(p) PROVE IInv'
<1>a. AgentTypeOK /\ Exclusive /\ Order /\ Unlisten(p)
  BY DEF IInv
<1>1. AgentTypeOK'
  BY <1>a DEF AgentTypeOK, Unlisten, Go, serviceVars, timerVars
<1>2. Exclusive'
  BY <1>a
     DEF Exclusive, TunnelHeld, Hears, Busy, OspHears, Connecting, Reconnecting, NoneOpen,
         Unlisten, Go, timerVars
<1>3. Order'
  BY <1>a DEF Order, Unlisten, Go
<1> QED
  BY <1>1, <1>2, <1>3 DEF IInv

LEMMA CloseTunnelKeeps == ASSUME NEW p \in Actors, IInv, CloseTunnel(p) PROVE IInv'
<1>a. AgentTypeOK /\ Exclusive /\ Order /\ CloseTunnel(p)
  BY DEF IInv
<1>1. AgentTypeOK'
  BY <1>a DEF AgentTypeOK, CloseTunnel, CloseWebSocket, Go, serviceVars, timerVars
<1>2. Exclusive'
  BY <1>a
     DEF AgentTypeOK, Exclusive, Order, TunnelHeld, Hears, Busy, OspHears, Connecting,
         Reconnecting, NoneOpen, CloseTunnel, CloseWebSocket, Go, timerVars
<1>3. Order'
  BY <1>a
     DEF AgentTypeOK, Order, TunnelHeld, Connecting, Reconnecting, Exclusive, CloseTunnel,
         CloseWebSocket, Go
<1> QED
  BY <1>1, <1>2, <1>3 DEF IInv

LEMMA DestroyKeeps == ASSUME NEW p \in Actors, IInv, Destroy(p) PROVE IInv'
<1>a. AgentTypeOK /\ Exclusive /\ Order /\ Destroy(p)
  BY DEF IInv
<1>1. AgentTypeOK'
  BY <1>a DEF AgentTypeOK, Destroy, After, CloseWebSocket, Go, serviceVars, timerVars
<1>2. Exclusive'
  BY <1>a
     DEF AgentTypeOK, Exclusive, Order, TunnelHeld, Hears, Busy, OspHears, Connecting,
         Reconnecting, NoneOpen, Destroy, After, CloseWebSocket, Go, timerVars
<1>3. Order'
  BY <1>a, NoneIsNoTunnel
     DEF AgentTypeOK, Order, TunnelHeld, Connecting, Reconnecting, Exclusive, Destroy, After,
         CloseWebSocket, Go
<1> QED
  BY <1>1, <1>2, <1>3 DEF IInv

LEMMA UpdateClosedKeeps == ASSUME NEW p \in Actors, IInv, UpdateClosed(p) PROVE IInv'
<1>a. AgentTypeOK /\ Exclusive /\ Order /\ UpdateClosed(p)
  BY DEF IInv
<1>1. AgentTypeOK'
  BY <1>a DEF AgentTypeOK, UpdateClosed, Update, Go, tunnelVars, timerVars
<1>2. Exclusive'
  BY <1>a
     DEF Exclusive, TunnelHeld, Hears, Busy, OspHears, Connecting, Reconnecting, NoneOpen,
         UpdateClosed, Go, tunnelVars, timerVars
<1>3. Order'
  BY <1>a DEF Order, UpdateClosed, Go, tunnelVars
<1> QED
  BY <1>1, <1>2, <1>3 DEF IInv

LEMMA TellClosedKeeps == ASSUME NEW p \in Actors, IInv, TellClosed(p) PROVE IInv'
<1>a. AgentTypeOK /\ Exclusive /\ Order /\ TellClosed(p)
  BY DEF IInv
<1>1. AgentTypeOK'
  BY <1>a DEF AgentTypeOK, TellClosed, Go, tunnelVars, timerVars
<1>2. Exclusive'
  BY <1>a
     DEF Exclusive, TunnelHeld, Hears, Busy, OspHears, Connecting, Reconnecting, NoneOpen,
         TellClosed, Go, tunnelVars, timerVars
<1>3. Order'
  BY <1>a DEF Order, TellClosed, Go, tunnelVars
<1> QED
  BY <1>1, <1>2, <1>3 DEF IInv

LEMMA RetryClosedKeeps == ASSUME NEW p \in Actors, IInv, RetryClosed(p) PROVE IInv'
<1>a. AgentTypeOK /\ Exclusive /\ Order /\ RetryClosed(p)
  BY DEF IInv
<1>1. AgentTypeOK'
  BY <1>a, ScheduleTypes DEF AgentTypeOK, RetryClosed, Go, tunnelVars, serviceVars
<1>2. Exclusive'
  BY <1>a
     DEF AgentTypeOK, Exclusive, Order, Actors, TunnelHeld, Hears, Busy, OspHears, Connecting,
         Reconnecting, NoneOpen, RetryClosed, ScheduleReconnect, Go, tunnelVars
<1>3. Order'
  BY <1>a DEF Order, RetryClosed, Go, tunnelVars
<1> QED
  BY <1>1, <1>2, <1>3 DEF IInv

LEMMA NullForwarderKeeps == ASSUME NEW p \in Actors, IInv, NullForwarder(p) PROVE IInv'
<1>a. AgentTypeOK /\ Exclusive /\ Order /\ NullForwarder(p)
  BY DEF IInv
<1>1. AgentTypeOK'
  BY <1>a DEF AgentTypeOK, NullForwarder, tunnelVars, serviceVars, timerVars
<1>2. Exclusive'
  BY <1>a
     DEF Exclusive, TunnelHeld, Hears, Busy, OspHears, Connecting, Reconnecting, NoneOpen,
         NullForwarder, tunnelVars, timerVars
<1>3. Order'
  BY <1>a DEF Order, NullForwarder, tunnelVars
<1> QED
  BY <1>1, <1>2, <1>3 DEF IInv

LEMMA ReconnectKeeps == ASSUME IInv, Reconnect PROVE IInv'
<1>a. AgentTypeOK /\ Exclusive /\ Order /\ Reconnect
  BY DEF IInv
<1>1. AgentTypeOK'
  BY <1>a DEF AgentTypeOK, Actors, Reconnect, Go, tunnelVars, serviceVars
<1>2. Exclusive'
  BY <1>a
     DEF AgentTypeOK, Exclusive, TunnelHeld, Hears, Busy, OspHears, Reconnect, Go, tunnelVars
<1>3. Order'
  BY <1>a DEF Order, Reconnect, Go, tunnelVars
<1> QED
  BY <1>1, <1>2, <1>3 DEF IInv

LEMMA ConnectFailsKeeps == ASSUME IInv, ConnectFails PROVE IInv'
<1>a. AgentTypeOK /\ Exclusive /\ Order /\ ConnectFails
  BY DEF IInv
<1>1. AgentTypeOK'
  BY <1>a DEF AgentTypeOK, ConnectFails, Go, tunnelVars, serviceVars, timerVars
<1>2. CASE Go("timer", "connect", "schedule")
  <2>1. Exclusive'
    BY <1>a, <1>2
       DEF Exclusive, TunnelHeld, Hears, Busy, OspHears, Connecting, Reconnecting,
           ConnectFails, Go, tunnelVars, timerVars
  <2>2. Order'
    BY <1>a, <1>2 DEF Order, ConnectFails, Go, tunnelVars
  <2> QED
    BY <1>1, <2>1, <2>2 DEF IInv
<1>3. CASE Go("timer", "connect", "idle")
  <2>1. Exclusive'
    BY <1>a, <1>3
       DEF Exclusive, TunnelHeld, Hears, Busy, OspHears, Connecting, Reconnecting,
           ConnectFails, Go, tunnelVars, timerVars
  <2>2. Order'
    BY <1>a, <1>3 DEF Order, ConnectFails, Go, tunnelVars
  <2> QED
    BY <1>1, <2>1, <2>2 DEF IInv
<1> QED
  BY <1>a, <1>2, <1>3 DEF ConnectFails

LEMMA ConnectKeeps == ASSUME IInv, Connect PROVE IInv'
<1>a. AgentTypeOK /\ Exclusive /\ Order /\ Connect
  BY DEF IInv
<1>1. AgentTypeOK'
  BY <1>a DEF AgentTypeOK, Actors, Connect, Go, serviceVars, timerVars
<1>2. Exclusive'
  BY <1>a
     DEF AgentTypeOK, Exclusive, Actors, TunnelHeld, Hears, Busy, OspHears, Connecting,
         Reconnecting, NoneOpen, Connect, Go, timerVars
<1>3. Order'
  BY <1>a DEF AgentTypeOK, Order, TunnelHeld, Connecting, Reconnecting, Exclusive, Connect, Go
<1> QED
  BY <1>1, <1>2, <1>3 DEF IInv

LEMMA ListenKeeps == ASSUME IInv, Listen PROVE IInv'
<1>a. AgentTypeOK /\ Exclusive /\ Order /\ Listen
  BY DEF IInv
<1>1. AgentTypeOK'
  BY <1>a DEF AgentTypeOK, None, Listen, Go, serviceVars, timerVars
<1>2. Exclusive'
  <2>1. CASE NoneOpen
    BY <1>a, <2>1, NoneIsNoTunnel
       DEF AgentTypeOK, Exclusive, Order, Actors, TunnelHeld, Hears, Busy, OspHears,
           Connecting, Reconnecting, NoneOpen,
           Listen, Go, serviceVars, timerVars
  <2>2. CASE ~NoneOpen
    BY <1>a, <2>2, NoneIsNoTunnel
       DEF AgentTypeOK, Exclusive, Order, Actors, TunnelHeld, Hears, Busy, OspHears,
           Connecting, Reconnecting, NoneOpen,
           Listen, Go, serviceVars, timerVars
  <2> QED
    BY <2>1, <2>2
<1>3. Order'
  BY <1>a DEF AgentTypeOK, Order, Actors, Listen, Go
<1> QED
  BY <1>1, <1>2, <1>3 DEF IInv

LEMMA AnnounceKeeps == ASSUME IInv, Announce PROVE IInv'
<1>a. AgentTypeOK /\ Exclusive /\ Order /\ Announce
  BY DEF IInv
<1>1. AgentTypeOK'
  BY <1>a DEF AgentTypeOK, Actors, Announce, Update, Go, tunnelVars, timerVars
<1>2. Exclusive'
  BY <1>a
     DEF Exclusive, TunnelHeld, Hears, Busy, OspHears, Connecting, Reconnecting, Announce, Go,
         tunnelVars, timerVars
<1>3. Order'
  BY <1>a DEF Order, Announce, Go, tunnelVars
<1> QED
  BY <1>1, <1>2, <1>3 DEF IInv

LEMMA TellUpKeeps == ASSUME IInv, TellUp PROVE IInv'
<1>a. AgentTypeOK /\ Exclusive /\ Order /\ TellUp
  BY DEF IInv
<1>1. AgentTypeOK'
  BY <1>a DEF AgentTypeOK, TellUp, Go, tunnelVars, timerVars
<1>2. Exclusive'
  BY <1>a
     DEF AgentTypeOK, Exclusive, Actors, TunnelHeld, Hears, Busy, OspHears, Connecting,
         Reconnecting, TellUp, Go, tunnelVars, timerVars
<1>3. Order'
  BY <1>a DEF AgentTypeOK, Order, TellUp, Go, tunnelVars
<1> QED
  BY <1>1, <1>2, <1>3 DEF IInv

LEMMA ScheduleKeeps == ASSUME IInv, Schedule PROVE IInv'
<1>a. AgentTypeOK /\ Exclusive /\ Order /\ Schedule
  BY DEF IInv
<1>1. AgentTypeOK'
  BY <1>a, ScheduleTypes DEF AgentTypeOK, Schedule, Go, tunnelVars, serviceVars
<1>2. Exclusive'
  BY <1>a
     DEF AgentTypeOK, Exclusive, Actors, TunnelHeld, Hears, Busy, OspHears, Connecting,
         Reconnecting, Schedule, ScheduleReconnect, Go, tunnelVars
<1>3. Order'
  BY <1>a DEF Order, Schedule, Go, tunnelVars
<1> QED
  BY <1>1, <1>2, <1>3 DEF IInv

LEMMA CancelKeeps == ASSUME IInv, Cancel PROVE IInv'
<1>a. AgentTypeOK /\ Exclusive /\ Order /\ Cancel
  BY DEF IInv
<1>1. AgentTypeOK'
  <2>1. cancelling' \in BOOLEAN /\ stopped' \in BOOLEAN
    BY <1>a DEF AgentTypeOK, Cancel
  <2>2. {cancelling', stopped'} \subseteq BOOLEAN
    BY <2>1
  <2> QED
    BY <1>a, <2>2 DEF AgentTypeOK, Cancel, threadVars, tunnelVars, serviceVars
<1>2. Exclusive'
  BY <1>a
     DEF Exclusive, TunnelHeld, Hears, Busy, OspHears, Connecting, Reconnecting, Cancel,
         threadVars, tunnelVars
<1>3. Order'
  BY <1>a DEF Order, Cancel, threadVars, tunnelVars
<1> QED
  BY <1>1, <1>2, <1>3 DEF IInv

LEMMA StopKeeps == ASSUME IInv, Stop PROVE IInv'
<1>a. AgentTypeOK /\ Exclusive /\ Order /\ Stop
  BY DEF IInv
<1>1. AgentTypeOK'
  BY <1>a DEF AgentTypeOK, Stop, Go, tunnelVars, serviceVars
<1>2. Exclusive'
  BY <1>a
     DEF Exclusive, TunnelHeld, Hears, Busy, OspHears, Connecting, Reconnecting, NoneOpen,
         Stop, Go, tunnelVars
<1>3. Order'
  BY <1>a DEF Order, Stop, Go, tunnelVars
<1> QED
  BY <1>1, <1>2, <1>3 DEF IInv

LEMMA AskCancelKeeps == ASSUME IInv, AskCancel PROVE IInv'
<1>a. AgentTypeOK /\ Exclusive /\ Order /\ AskCancel
  BY DEF IInv
<1>1. AgentTypeOK'
  BY <1>a DEF AgentTypeOK, Actors, AskCancel, Go, tunnelVars, serviceVars
<1>2. Exclusive'
  BY <1>a
     DEF Exclusive, TunnelHeld, Hears, Busy, OspHears, Connecting, Reconnecting, NoneOpen,
         AskCancel, Go, tunnelVars
<1>3. Order'
  BY <1>a DEF Order, AskCancel, Go, tunnelVars
<1> QED
  BY <1>1, <1>2, <1>3 DEF IInv

LEMMA StoppedKeeps == ASSUME IInv, Stopped PROVE IInv'
<1>a. AgentTypeOK /\ Exclusive /\ Order /\ Stopped
  BY DEF IInv
<1>1. AgentTypeOK'
  BY <1>a DEF AgentTypeOK, Stopped, Go, tunnelVars, serviceVars, timerVars
<1>2. Exclusive'
  BY <1>a
     DEF Exclusive, TunnelHeld, Hears, Busy, OspHears, Connecting, Reconnecting, Stopped, Go,
         tunnelVars, timerVars
<1>3. Order'
  BY <1>a DEF Order, Stopped, Go, tunnelVars
<1> QED
  BY <1>1, <1>2, <1>3 DEF IInv

LEMMA LoseKeeps == ASSUME NEW i \in Tunnels, IInv, Lose(i) PROVE IInv'
<1>a. AgentTypeOK /\ Exclusive /\ Order /\ Lose(i)
  BY DEF IInv
<1>1. AgentTypeOK'
  BY <1>a DEF AgentTypeOK, Lose, WorkerGo, serviceVars, timerVars
<1>2. Exclusive'
  BY <1>a
     DEF AgentTypeOK, Exclusive, Order, TunnelHeld, Hears, Busy, OspHears, Connecting,
         Reconnecting, Lose, WorkerGo, timerVars
<1>3. Order'
  BY <1>a DEF AgentTypeOK, Order, Lose, WorkerGo
<1> QED
  BY <1>1, <1>2, <1>3 DEF IInv

LEMMA FireClosedKeeps == ASSUME NEW i \in Tunnels, IInv, FireClosed(i) PROVE IInv'
<1>a. AgentTypeOK /\ Exclusive /\ Order /\ FireClosed(i)
  BY DEF IInv
<1>1. AgentTypeOK'
  BY <1>a DEF AgentTypeOK, FireClosed, WorkerGo, tunnelVars, serviceVars, timerVars
<1>2. Exclusive'
  BY <1>a
     DEF Exclusive, TunnelHeld, Hears, Busy, OspHears, Connecting, Reconnecting, NoneOpen,
         FireClosed, WorkerGo, tunnelVars, timerVars
<1>3. Order'
  BY <1>a DEF Order, FireClosed, WorkerGo, tunnelVars
<1> QED
  BY <1>1, <1>2, <1>3 DEF IInv

LEMMA UpdateDownKeeps == ASSUME NEW i \in Tunnels, IInv, UpdateDown(i) PROVE IInv'
<1>a. AgentTypeOK /\ Exclusive /\ Order /\ UpdateDown(i)
  BY DEF IInv
<1>1. AgentTypeOK'
  BY <1>a DEF AgentTypeOK, UpdateDown, Update, WorkerGo, tunnelVars, timerVars
<1>2. Exclusive'
  BY <1>a
     DEF Exclusive, TunnelHeld, Hears, Busy, OspHears, Connecting, Reconnecting, NoneOpen,
         UpdateDown, WorkerGo, tunnelVars, timerVars
<1>3. Order'
  BY <1>a DEF Order, UpdateDown, WorkerGo, tunnelVars
<1> QED
  BY <1>1, <1>2, <1>3 DEF IInv

LEMMA WorkerTellKeeps == ASSUME NEW i \in Tunnels, IInv, WorkerTell(i) PROVE IInv'
<1>a. AgentTypeOK /\ Exclusive /\ Order /\ WorkerTell(i)
  BY DEF IInv
<1>1. AgentTypeOK'
  BY <1>a DEF AgentTypeOK, WorkerTell, WorkerGo, tunnelVars, timerVars
<1>2. Exclusive'
  BY <1>a
     DEF Exclusive, TunnelHeld, Hears, Busy, OspHears, Connecting, Reconnecting, NoneOpen,
         WorkerTell, WorkerGo, tunnelVars, timerVars
<1>3. Order'
  BY <1>a DEF Order, WorkerTell, WorkerGo, tunnelVars
<1> QED
  BY <1>1, <1>2, <1>3 DEF IInv

LEMMA WorkerScheduleKeeps == ASSUME NEW i \in Tunnels, IInv, WorkerSchedule(i) PROVE IInv'
<1>a. AgentTypeOK /\ Exclusive /\ Order /\ WorkerSchedule(i)
  BY DEF IInv
<1>1. AgentTypeOK'
  BY <1>a, ScheduleTypes
     DEF AgentTypeOK, WorkerSchedule, WorkerGo, tunnelVars, serviceVars, timerVars
<1>2. Exclusive'
  BY <1>a
     DEF AgentTypeOK, Exclusive, Order, TunnelHeld, Hears, Busy, OspHears, Connecting,
         Reconnecting, NoneOpen, WorkerSchedule, ScheduleReconnect, WorkerGo, tunnelVars,
         timerVars
<1>3. Order'
  BY <1>a DEF Order, WorkerSchedule, WorkerGo, tunnelVars
<1> QED
  BY <1>1, <1>2, <1>3 DEF IInv

LEMMA Initially == Init => IInv
<1> SUFFICES ASSUME Init PROVE IInv
  OBVIOUS
<1>1. AgentTypeOK
  BY DEF Init, AgentTypeOK, Actors, None
<1>2. Exclusive
  BY DEF Init, Exclusive, TunnelHeld, Hears, Busy, OspHears, Connecting, Reconnecting, Actors
<1>3. Order
  BY DEF Init, Order, Actors
<1> QED
  BY <1>1, <1>2, <1>3 DEF IInv

LEMMA StutteringKeeps == IInv /\ UNCHANGED vars => IInv'
  BY
     DEF vars, threadVars, tunnelVars, serviceVars, timerVars, IInv, AgentTypeOK, Exclusive,
         Order,
         TunnelHeld, Hears, Busy, OspHears, Connecting, Reconnecting, NoneOpen

LEMMA DisconnectStepKeeps == ASSUME NEW p \in Actors, IInv, DisconnectStep(p) PROVE IInv'
  BY DisconnectKeeps, ReportDownKeeps, TellDownKeeps, UnlistenKeeps, CloseTunnelKeeps,
     DestroyKeeps, UpdateClosedKeeps, TellClosedKeeps, RetryClosedKeeps, NullForwarderKeeps
     DEF DisconnectStep

LEMMA Inductive == IInv /\ [Next]_vars => IInv'
<1> SUFFICES ASSUME IInv, [Next]_vars PROVE IInv'
  OBVIOUS
<1>1. CASE TimerStep
  BY <1>1, DisconnectStepKeeps, ReconnectKeeps, ConnectFailsKeeps, ConnectKeeps, ListenKeeps,
     AnnounceKeeps, TellUpKeeps, ScheduleKeeps, CancelKeeps
     DEF TimerStep, Actors
<1>2. CASE OspStep
  BY <1>2, DisconnectStepKeeps, AskCancelKeeps, StoppedKeeps DEF OspStep, Actors
<1>3. CASE Stop
  BY <1>3, StopKeeps
<1>4. CASE \E i \in Tunnels: Lose(i) \/ WorkerStep(i)
  BY <1>4, LoseKeeps, FireClosedKeeps, UpdateDownKeeps, WorkerTellKeeps, WorkerScheduleKeeps
     DEF WorkerStep
<1>5. CASE UNCHANGED vars
  BY <1>5, StutteringKeeps
<1> QED
  BY <1>1, <1>2, <1>3, <1>4, <1>5 DEF Next

LEMMA Always == Spec => []IInv
  BY Initially, Inductive, PTL DEF Spec

-----------------------------------------------------------------------------
(* The properties *)

\* Every variable of the bundle keeps its type.
THEOREM TypesKept == Spec => []AgentTypeOK
<1>1. IInv => AgentTypeOK
  BY DEF IInv
<1> QED
  BY <1>1, Always, PTL

LEMMA OneIsOpen == IInv => OneTunnel
<1> SUFFICES ASSUME IInv PROVE OneTunnel
  OBVIOUS
<1>1. scheduled \in Nat /\ scheduled <= 1
  BY DEF IInv, AgentTypeOK, Exclusive
<1>2. \A i, j \in Open: i = j
  BY DEF IInv, Exclusive, TunnelHeld, Open
<1>3. scheduled > 0 \/ Reconnecting => Open = {}
  BY DEF IInv, Exclusive, Connecting, TunnelHeld, Open
<1>4. Cardinality(Open) <= 1
  <2>1. CASE Open = {}
    BY <2>1, FS_EmptySet
  <2>2. CASE Open # {}
    <3>1. PICK i \in Open: Open = {i}
      BY <2>2, <1>2
    <3> QED
      BY <3>1, FS_Singleton
  <2> QED
    BY <2>1, <2>2
<1> QED
  BY <1>1, <1>3, <1>4 DEF OneTunnel

\* The bundle never has two tunnels, and no reconnect is on its way while one
\* is up, whoever closes it: a worker, the timer's thread or stop().
THEOREM NeverTwoTunnels == Spec => []OneTunnel
  BY OneIsOpen, Always, PTL
===============================================================================
