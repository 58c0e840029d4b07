------------------------------ MODULE TunnelAgent ------------------------------
(***************************************************************************)
(* The bundle that keeps a device's web tunnel up                          *)
(* (protocols/WebTunnel/src/BundleActivator.cpp): a timer's thread         *)
(* connects to the reflector server and, when a tunnel was lost, connects  *)
(* again; a worker of the tunnel's SocketDispatcher reports the loss       *)
(* (onClose()); the OSP thread stops the bundle.                           *)
(*                                                                         *)
(* A tunnel is a RemotePortForwarder with its web socket and dispatcher.   *)
(* Of RemotePortForwarder this module takes what ReportedOnce and          *)
(* LossIsReported say: a tunnel that is lost fires webSocketClosed once,   *)
(* on a worker.  The times, and so the retry delay, are left out.          *)
(*                                                                         *)
(* disconnect() runs on the timer's thread and on the OSP thread, maybe at *)
(* once.  Each of its statements reads _pForwarder anew; a null pointer    *)
(* makes it throw.  That two threads write the pointer at the very same    *)
(* time is not modelled.                                                   *)
(***************************************************************************)
EXTENDS Naturals, FiniteSets

CONSTANTS
    MaxTunnels,   \* bound: tunnels established in all
    MayStop       \* whether the bundle is stopped

ASSUME AgentAssumption == MaxTunnels \in Nat \ {0} /\ MayStop \in BOOLEAN

Tunnels == 1 .. MaxTunnels
None == 0

VARIABLES
    pc,         \* what the timer's and the OSP thread do next
    resume,     \* and when they return from an onClose() of their own
    worker,     \* what the worker does that found tunnel i closed
    webSocket,  \* of each tunnel: "none", "open" or "closed"
    listening,  \* tunnels whose webSocketClosed has onClose()
    pForwarder, \* _pForwarder
    service,    \* WebTunnelServiceImpl::_pForwarder
    told,       \* the event the service's listeners heard last
    scheduled,  \* reconnect tasks in the timer's queue
    cancelling, \* a CancelNotification is in it
    stopped     \* the state of the event _stopped, which resets itself

threadVars == <<pc, resume, worker>>
tunnelVars == <<webSocket, listening, pForwarder>>
serviceVars == <<service, told>>
timerVars == <<scheduled, cancelling, stopped>>
vars == <<threadVars, tunnelVars, serviceVars, timerVars>>

Actors == {"timer", "osp"}

\* start() schedules the first reconnect.
Init ==
    /\ pc = [p \in Actors |-> "idle"] /\ resume = [p \in Actors |-> "idle"]
    /\ worker = [i \in Tunnels |-> "none"]
    /\ webSocket = [i \in Tunnels |-> "none"]
    /\ listening = {} /\ pForwarder = None
    /\ service = None /\ told = "disconnected"
    /\ scheduled = 1 /\ cancelling = FALSE /\ stopped = FALSE

Go(p, from, to) == pc[p] = from /\ pc' = [pc EXCEPT ![p] = to]
WorkerGo(i, from, to) == worker[i] = from /\ worker' = [worker EXCEPT ![i] = to]

\* WebTunnelServiceImpl::update(): the listeners are called after the lock is
\* released; tell: that is what the caller does next.
Update(tunnel, tell) ==
    /\ service' = IF tunnel # None /\ service # None THEN service ELSE tunnel
    /\ tell <=> (tunnel = None) # (service = None)

\* scheduleReconnect(): tryWait() resets the event.
ScheduleReconnect ==
    /\ stopped' = FALSE
    /\ scheduled' = IF stopped THEN scheduled ELSE scheduled + 1
    /\ UNCHANGED cancelling

-----------------------------------------------------------------------------
(* disconnect(), on the timer's or the OSP thread *)

Busy(i) == worker[i] \in {"update", "tell", "schedule"}
After(p) == IF p = "timer" THEN "connect" ELSE "cancel"

Disconnect(p) ==
    /\ IF pForwarder = None THEN Go(p, "disconnect", After(p))
                            ELSE Go(p, "disconnect", "report")
    /\ UNCHANGED <<resume, worker, tunnelVars, serviceVars, timerVars>>

ReportDown(p) ==
    /\ \E tell \in BOOLEAN:
         /\ Update(None, tell)
         /\ Go(p, "report", IF tell THEN "tell" ELSE "unlisten")
    /\ UNCHANGED <<resume, worker, tunnelVars, told, timerVars>>

TellDown(p) ==
    /\ Go(p, "tell", "unlisten")
    /\ told' = "disconnected"
    /\ UNCHANGED <<resume, worker, tunnelVars, service, timerVars>>

\* webSocketClosed -= waits for a callback that is running.
Unlisten(p) ==
    /\ pForwarder # None /\ ~Busy(pForwarder)
    /\ Go(p, "unlisten", "close")
    /\ listening' = listening \ {pForwarder}
    /\ UNCHANGED <<resume, worker, webSocket, pForwarder, serviceVars, timerVars>>

\* The web socket of tunnel i is closed on thread p, which then goes on at next;
\* if onClose() still listens, closing the socket calls it first.
CloseWebSocket(p, i, from, next) ==
    LET calls == i \in listening /\ webSocket[i] = "open" IN
      /\ Go(p, from, IF calls THEN "update" ELSE next)
      /\ resume' = IF calls THEN [resume EXCEPT ![p] = next] ELSE resume
      /\ webSocket' = [j \in Tunnels |-> IF j = i THEN "closed" ELSE webSocket[j]]

\* _pForwarder->stop(), and the dispatcher's reset().
CloseTunnel(p) ==
    /\ pForwarder # None
    /\ CloseWebSocket(p, pForwarder, "close", "destroy")
    /\ UNCHANGED <<worker, listening, pForwarder, serviceVars, timerVars>>

\* Mutant of Destroy: the loss of the tunnel must have been reported.
DestroyReported(p) ==
    /\ pForwarder # None => worker[pForwarder] = "done"
    /\ CloseWebSocket(p, pForwarder, "destroy", After(p))
    /\ pForwarder' = None
    /\ UNCHANGED <<worker, listening, serviceVars, timerVars>>

\* _pForwarder = 0; its destructor stops it.  The dispatcher's destructor
\* waits for its workers.
Destroy(p) ==
    /\ pForwarder # None => worker[pForwarder] \in {"none", "done", "missed"}
    /\ CloseWebSocket(p, pForwarder, "destroy", After(p))
    /\ pForwarder' = None
    /\ UNCHANGED <<worker, listening, serviceVars, timerVars>>

\* onClose() on this thread.
UpdateClosed(p) ==
    /\ \E tell \in BOOLEAN:
         /\ Update(None, tell)
         /\ Go(p, "update", IF tell THEN "tellClosed" ELSE "retry")
    /\ UNCHANGED <<resume, worker, tunnelVars, told, timerVars>>

TellClosed(p) ==
    /\ Go(p, "tellClosed", "retry")
    /\ told' = "disconnected"
    /\ UNCHANGED <<resume, worker, tunnelVars, service, timerVars>>

RetryClosed(p) ==
    /\ Go(p, "retry", resume[p])
    /\ ScheduleReconnect
    /\ UNCHANGED <<resume, worker, tunnelVars, serviceVars>>

\* The other thread has set _pForwarder to null: an exception, which
\* reconnect() catches and logs, and stop() does not catch.
NullForwarder(p) ==
    /\ pForwarder = None
    /\ pc[p] \in {"unlisten", "close"}
    /\ pc' = [pc EXCEPT ![p] = IF p = "timer" THEN "idle" ELSE "failed"]
    /\ UNCHANGED <<resume, worker, tunnelVars, serviceVars, timerVars>>

-----------------------------------------------------------------------------
(* The timer's thread: reconnect(), connect() *)

Reconnect ==
    /\ scheduled > 0 /\ ~cancelling /\ pc["osp"] # "stopped"
    /\ Go("timer", "idle", "disconnect")
    /\ scheduled' = scheduled - 1
    /\ UNCHANGED <<resume, worker, tunnelVars, serviceVars, cancelling, stopped>>

\* connect() fails: in its try, and there will be another attempt; or before it,
\* and reconnect() catches the exception and leaves it at that.
ConnectFails ==
    /\ Go("timer", "connect", "schedule") \/ Go("timer", "connect", "idle")
    /\ UNCHANGED <<resume, worker, tunnelVars, serviceVars, timerVars>>

\* The server accepts; from now on it may also close the web socket.
Connect ==
    /\ Go("timer", "connect", "listen")
    /\ \E i \in Tunnels:
         /\ webSocket[i] = "none" /\ \A j \in 1 .. i - 1: webSocket[j] # "none"
         /\ webSocket' = [webSocket EXCEPT ![i] = "open"]
         /\ pForwarder' = i
    /\ UNCHANGED <<resume, worker, listening, serviceVars, timerVars>>

\* webSocketClosed += onClose; a null pointer is caught in connect().
Listen ==
    /\ IF pForwarder # None THEN Go("timer", "listen", "announce")
                            ELSE Go("timer", "listen", "schedule")
    /\ listening' = listening \cup ({pForwarder} \ {None})
    /\ UNCHANGED <<resume, worker, webSocket, pForwarder, serviceVars, timerVars>>

Announce ==
    /\ \E tell \in BOOLEAN:
         /\ Update(pForwarder, tell)
         /\ Go("timer", "announce",
               IF ~tell THEN "idle" ELSE IF pForwarder # None THEN "up" ELSE "down")
    /\ UNCHANGED <<resume, worker, tunnelVars, told, timerVars>>

\* Mutant of TellUp: connect() does not return, but goes on to its last statement.
TellUpAndGoOn ==
    /\ \/ Go("timer", "up", "schedule") /\ told' = "connected"
       \/ Go("timer", "down", "schedule") /\ told' = "disconnected"
    /\ UNCHANGED <<resume, worker, tunnelVars, service, timerVars>>

\* The listeners are called.
TellUp ==
    /\ \/ Go("timer", "up", "idle") /\ told' = "connected"
       \/ Go("timer", "down", "idle") /\ told' = "disconnected"
    /\ UNCHANGED <<resume, worker, tunnelVars, service, timerVars>>

Schedule ==
    /\ Go("timer", "schedule", "idle")
    /\ ScheduleReconnect
    /\ UNCHANGED <<resume, worker, tunnelVars, serviceVars>>

\* CancelNotification::execute() clears the queue.
Cancel ==
    /\ cancelling /\ pc["timer"] = "idle"
    /\ cancelling' = FALSE /\ scheduled' = 0
    /\ UNCHANGED <<threadVars, tunnelVars, serviceVars, stopped>>

-----------------------------------------------------------------------------
(* The workers *)

\* The tunnel is lost; a worker has closed the web socket.
Lose(i) ==
    /\ webSocket[i] = "open"
    /\ webSocket' = [webSocket EXCEPT ![i] = "closed"]
    /\ WorkerGo(i, "none", "fire")
    /\ UNCHANGED <<pc, resume, listening, pForwarder, serviceVars, timerVars>>

\* webSocketClosed is fired, for who listens now.
FireClosed(i) ==
    /\ WorkerGo(i, "fire", IF i \in listening THEN "update" ELSE "missed")
    /\ UNCHANGED <<pc, resume, tunnelVars, serviceVars, timerVars>>

\* Mutant of UpdateDown: onClose() does nothing if the service is down already.
UpdateDownOrNothing(i) ==
    /\ \E tell \in BOOLEAN:
         /\ Update(None, tell)
         /\ WorkerGo(i, "update", IF tell THEN "tell" ELSE "done")
    /\ UNCHANGED <<pc, resume, tunnelVars, told, timerVars>>

\* onClose().
UpdateDown(i) ==
    /\ \E tell \in BOOLEAN:
         /\ Update(None, tell)
         /\ WorkerGo(i, "update", IF tell THEN "tell" ELSE "schedule")
    /\ UNCHANGED <<pc, resume, tunnelVars, told, timerVars>>

WorkerTell(i) ==
    /\ WorkerGo(i, "tell", "schedule")
    /\ told' = "disconnected"
    /\ UNCHANGED <<pc, resume, tunnelVars, service, timerVars>>

\* When the bundle has been stopped there is no timer any more.
WorkerSchedule(i) ==
    /\ WorkerGo(i, "schedule", "done")
    /\ IF pc["osp"] = "stopped" THEN UNCHANGED timerVars ELSE ScheduleReconnect
    /\ UNCHANGED <<pc, resume, tunnelVars, serviceVars>>

-----------------------------------------------------------------------------
(* stop(), on the OSP thread *)

Stop ==
    /\ MayStop
    /\ Go("osp", "idle", "disconnect")
    /\ stopped' = TRUE
    /\ UNCHANGED <<resume, worker, tunnelVars, serviceVars, scheduled, cancelling>>

AskCancel ==
    /\ Go("osp", "cancel", "wait")
    /\ cancelling' = TRUE
    /\ UNCHANGED <<resume, worker, tunnelVars, serviceVars, scheduled, stopped>>

\* cancel() has returned, and _pTimer.reset() has joined the thread.
Stopped ==
    /\ ~cancelling /\ pc["timer"] = "idle"
    /\ Go("osp", "wait", "stopped")
    /\ UNCHANGED <<resume, worker, tunnelVars, serviceVars, timerVars>>

-----------------------------------------------------------------------------
DisconnectStep(p) ==
    Disconnect(p) \/ ReportDown(p) \/ TellDown(p) \/ Unlisten(p) \/ CloseTunnel(p)
    \/ Destroy(p) \/ UpdateClosed(p) \/ TellClosed(p) \/ RetryClosed(p) \/ NullForwarder(p)

TimerStep ==
    DisconnectStep("timer") \/ Reconnect \/ ConnectFails \/ Connect \/ Listen
    \/ Announce \/ TellUp \/ Schedule \/ Cancel

WorkerStep(i) == FireClosed(i) \/ UpdateDown(i) \/ WorkerTell(i) \/ WorkerSchedule(i)

OspStep == DisconnectStep("osp") \/ AskCancel \/ Stopped

Next ==
    \/ TimerStep \/ OspStep \/ Stop
    \/ \E i \in Tunnels: Lose(i) \/ WorkerStep(i)

\* The threads run, and the timer fires.
Fairness == WF_vars(TimerStep) /\ WF_vars(OspStep) /\ \A i \in Tunnels: WF_vars(WorkerStep(i))

Spec == Init /\ [][Next]_vars /\ Fairness

-----------------------------------------------------------------------------
(* Properties *)

\* Type correctness of the state.
AgentTypeOK ==
    /\ pc \in [Actors -> {"idle", "disconnect", "report", "tell", "unlisten", "close",
                          "destroy", "connect", "listen", "announce", "up", "down",
                          "update", "tellClosed", "retry", "schedule", "cancel", "wait",
                          "stopped", "failed"}]
    /\ resume \in [Actors -> {"idle", "destroy", "connect", "cancel"}]
    /\ worker \in [Tunnels -> {"none", "fire", "update", "tell", "schedule", "done",
                            "missed"}]
    /\ webSocket \in [Tunnels -> {"none", "open", "closed"}]
    /\ listening \subseteq Tunnels
    /\ pForwarder \in Tunnels \cup {None} /\ service \in Tunnels \cup {None}
    /\ told \in {"connected", "disconnected"}
    /\ scheduled \in Nat /\ {cancelling, stopped} \subseteq BOOLEAN

Open == {i \in Tunnels: webSocket[i] = "open"}

Reconnecting == pc["timer"] \in {"disconnect", "report", "tell", "unlisten", "close",
                                 "destroy", "connect", "schedule"}

\* There is one tunnel at most, and nobody is about to replace it while it is
\* up: the one reconnect there may be, scheduled or begun, follows a loss or a
\* failure to connect (scheduleReconnect(), reconnect()).
OneTunnel ==
    /\ Cardinality(Open) <= 1
    /\ scheduled <= 1
    /\ scheduled > 0 \/ Reconnecting => Open = {}

Stopping == pc["osp"] # "idle"

\* A loss that onClose() hears of makes the bundle connect again, and the
\* service does not go on reporting the tunnel that is gone, not even when
\* connect() announces it after its loss; unless the bundle is being stopped.
LossIsMadeGood ==
    \A i \in Tunnels:
      /\ worker[i] = "update" ~> pc["timer"] = "connect" \/ Stopping
      /\ webSocket[i] = "closed" /\ service = i
           ~> service # i \/ worker[i] = "missed" \/ Stopping

\* stop() comes to an end, also while connect() or onClose() runs: neither
\* thread waits for the other for ever.
StopReturns == Stopping ~> pc["osp"] \in {"stopped", "failed"}

\* WebTunnelService.h: disconnected is fired, and isConnected() false, when the
\* connection has been closed.  Not so when it is closed before connect() has
\* registered onClose(): nobody hears of it, and nobody connects again.
CloseIsReported ==
    \A i \in Tunnels: webSocket[i] = "closed" ~> service # i \/ Stopping

\* When stop() has returned no tunnel is left.  Not so when stop() finds no
\* tunnel because connect() is still on the way to one.
StopCloses == pc["osp"] = "stopped" => Open = {}

\* The listeners have heard last what the service says of itself.  Not so when
\* "disconnected" overtakes "connected", which is fired after the lock is
\* released.
ListenersKnow ==
    pc["timer"] = "idle" /\ pc["osp"] # "tell" /\ (\A i \in Tunnels: worker[i] \in {"none", "done", "missed"})
      => (told = "connected" <=> service # None)
=============================================================================
