-------------------------- MODULE RemotePortForwarder --------------------------
(***************************************************************************)
(* The device's end of a web tunnel                                        *)
(* (platform/WebTunnel/src/RemotePortForwarder.cpp) on its SocketDispatcher *)
(* (EXTENDS): frames of the web socket are demultiplexed to connections to *)
(* local ports, one for each channel the peer opens, and what the local    *)
(* sockets deliver is multiplexed onto the web socket.                     *)
(*                                                                         *)
(* Handlers run on several workers; a user thread stops the forwarder and  *)
(* resets the dispatcher, as the WebTunnel bundle's disconnect() does.     *)
(* _mutex guards the channels and _webSocketMutex the web socket, but      *)
(* closeWebSocket() takes only the second.  It clears the map while        *)
(* another thread may be inside removeChannel() or openChannel(); the      *)
(* iterator such a thread erases is then dangling: the model goes on as if *)
(* the erase did nothing.                                                  *)
(*                                                                         *)
(* The peer may send any frame, but opens only channels it does not use;   *)
(* payloads are left out.  A frame is sent and received in one step.       *)
(***************************************************************************)
EXTENDS SocketDispatcher

CONSTANTS
    WebSocket,   \* the web socket
    Locals,      \* the sockets to local ports there may be in all
    Channels,    \* the channel numbers the peer uses
    User,        \* the thread that stops the forwarder
    MayStop,     \* whether it does
    Losses,      \* how the peer may be lost
    Reports,     \* what the main thread may report of a local socket
    Nobody

AnyReport == {<<"readable">>, <<"exception">>, <<"readable", "exception">>, <<"timeout">>}

ASSUME ForwarderAssumption ==
    /\ Sockets = Locals \cup {WebSocket} /\ WebSocket \notin Locals
    /\ NoSocket \notin Sockets
    /\ Reports \subseteq AnyReport
    /\ MayStop \in BOOLEAN /\ Losses \subseteq {"silent", "down"}
    /\ Callers = {User} /\ User \notin Workers /\ Nobody \notin Threads \cup Channels
    /\ IsFiniteSet(Sockets) /\ IsFiniteSet(Workers)

VARIABLES
    mutex,          \* the holder of _mutex
    webSocketMutex, \* the holder of _webSocketMutex
    channelMap,     \* _channelMap; NoSocket: no entry
    channelOf,      \* TunnelMultiplexer::_channel of a local socket's handler
    timeoutCount,   \* _timeoutCount
    peer,           \* "up"; "silent": nothing comes from it any more, and
                    \* nobody says so; "down": the connection is broken
    peerView,       \* what the peer holds of a channel
    fired,          \* how often webSocketClosed was fired
    stopping        \* the user has called stop()

channelVars == <<mutex, channelMap, channelOf>>
peerVars == <<peer, peerView>>
webVars == <<webSocketMutex, timeoutCount, fired, stopping>>
vars == <<dispatcherVars, channelVars, peerVars, webVars>>

Opened == {c \in Channels: channelMap[c] # NoSocket}
InUse == {channelMap[c]: c \in Opened}

\* channelOf doubles as the record of the sockets that were created.
Unused == {s \in Locals: channelOf[s] = Nobody}

Init ==
    /\ DispatcherInit({WebSocket})
    /\ mutex = Nobody /\ webSocketMutex = Nobody
    /\ channelMap = [c \in Channels |-> NoSocket]
    /\ channelOf = [s \in Locals |-> Nobody]
    /\ timeoutCount = 0
    /\ peer = "up"
    /\ peerView = [c \in Channels |-> "closed"]
    /\ fired = 0
    /\ stopping = FALSE

\* Most steps touch neither the main thread's variables nor the workers' queue.
Local == UNCHANGED <<registered, wantRead, shut, closed, mainQueue, workerQueue, waiting>>
Asking == UNCHANGED <<registered, wantRead, shut, closed, workerQueue>>

-----------------------------------------------------------------------------
(* Sending, and closing the web socket *)

\* What the peer holds of channel c when it has received the frame.
Heard(c, frame) ==
    [peerView EXCEPT ![c] =
       CASE frame = "CONFIRM" /\ @ = "opening" -> "open"
         [] frame = "FAULT" /\ @ = "opening" -> "closed"
         [] frame \in {"CLOSE", "ERROR"} -> "closed"
         [] OTHER -> @]

\* sendResponse(), and the ends of multiplex(), multiplexError() and
\* multiplexTimeout(): a frame under _webSocketMutex; if that fails the lock
\* is released and the web socket closed.
SendFrame(t) ==
    \E c \in Channels, frame \in {"DATA", "CONFIRM", "FAULT", "CLOSE", "ERROR"}:
      /\ At(t, <<"send", c, frame>>)
      /\ webSocketMutex = Nobody
      /\ \/ /\ WebSocket \notin closed /\ peer # "down"
            /\ peerView' = Heard(c, frame)
            /\ Then(t, <<>>)
         \/ /\ WebSocket \in closed \/ peer # "up"
            /\ Then(t, << <<"closeWebSocket">> >>)
            /\ UNCHANGED peerView
      /\ Local
      /\ UNCHANGED <<channelVars, webVars, peer>>

\* Mutant of CloseWebSocket: whether the socket is open is not tested.
CloseAgain(t) ==
    /\ At(t, <<"closeWebSocket">>)
    /\ webSocketMutex = Nobody /\ fired < 2
    /\ webSocketMutex' = t
    /\ Ask(t, "remove", WebSocket)
    /\ Then(t, << <<"removeSockets", Channels>> >>)
    /\ Asking
    /\ UNCHANGED <<channelVars, peerVars, timeoutCount, fired, stopping>>

\* Mutant of CloseWebSocket: it needs _mutex too.
CloseBothLocks(t) ==
    /\ At(t, <<"closeWebSocket">>)
    /\ webSocketMutex = Nobody /\ mutex = Nobody
    /\ IF WebSocket \in closed
       THEN /\ Then(t, <<>>)
            /\ UNCHANGED <<webSocketMutex, mainQueue, waiting>>
       ELSE /\ webSocketMutex' = t
            /\ Ask(t, "remove", WebSocket)
            /\ Then(t, << <<"removeSockets", Channels>> >>)
    /\ Asking
    /\ UNCHANGED <<channelVars, peerVars, timeoutCount, fired, stopping>>

\* closeWebSocket(): only the first call gets past its test.
CloseWebSocket(t) ==
    /\ At(t, <<"closeWebSocket">>)
    /\ webSocketMutex = Nobody
    /\ IF WebSocket \in closed
       THEN /\ Then(t, <<>>)
            /\ UNCHANGED <<webSocketMutex, mainQueue, waiting>>
       ELSE /\ webSocketMutex' = t
            /\ Ask(t, "remove", WebSocket)
            /\ Then(t, << <<"removeSockets", Channels>> >>)
    /\ Asking
    /\ UNCHANGED <<channelVars, peerVars, timeoutCount, fired, stopping>>

\* Its loop over _channelMap; cs: the channels the iterator has not passed.
RemoveSockets(t) ==
    \E cs \in SUBSET Channels:
      /\ At(t, <<"removeSockets", cs>>)
      /\ IF cs \cap Opened = {}
         THEN /\ Then(t, << <<"closeImpl">> >>)
              /\ UNCHANGED <<mainQueue, waiting>>
         ELSE \E c \in cs \cap Opened:
                /\ Ask(t, "remove", channelMap[c])
                /\ Then(t, << <<"removeSockets", cs \ {c}>> >>)
      /\ Asking
      /\ UNCHANGED <<channelVars, peerVars, webVars>>

\* The web socket is closed, the map cleared, the lock released, and the event
\* fired.
CloseImpl(t) ==
    /\ At(t, <<"closeImpl">>)
    /\ closed' = closed \cup {WebSocket}
    /\ channelMap' = [c \in Channels |-> NoSocket]
    /\ webSocketMutex' = Nobody
    /\ fired' = fired + 1
    /\ Then(t, <<>>)
    /\ UNCHANGED <<registered, wantRead, shut, mainQueue, workerQueue, waiting>>
    /\ UNCHANGED <<mutex, channelOf, peerVars, timeoutCount, stopping>>

-----------------------------------------------------------------------------
(* Channels *)

\* Mutant of OpenChannel: the lock is released after the look-up.
OpenUnlocked(t) ==
    \E c \in Channels:
      /\ At(t, <<"open", c>>)
      /\ mutex = Nobody
      /\ IF channelMap[c] # NoSocket
         THEN Then(t, << <<"send", c, "FAULT">> >>)
         ELSE Then(t, << <<"connect", c>> >>)
      /\ Local
      /\ UNCHANGED <<channelVars, peerVars, webVars>>

\* openChannel(c, port).
OpenChannel(t) ==
    \E c \in Channels:
      /\ At(t, <<"open", c>>)
      /\ mutex = Nobody
      /\ IF channelMap[c] # NoSocket
         THEN Then(t, << <<"send", c, "FAULT">> >>) /\ UNCHANGED mutex
         ELSE Then(t, << <<"connect", c>> >>) /\ mutex' = t
      /\ Local
      /\ UNCHANGED <<channelMap, channelOf, peerVars, webVars>>

\* The connection is made and the socket registered, or it fails and the lock
\* is released before the answer; the peer's request is answered under it.
Connect(t) ==
    \E c \in Channels:
      /\ At(t, <<"connect", c>>)
      /\ \/ /\ mutex' = Nobody
            /\ Then(t, << <<"send", c, "FAULT">> >>)
            /\ UNCHANGED <<channelOf, mainQueue, waiting>>
         \/ \E s \in Unused:
              /\ channelOf' = [channelOf EXCEPT ![s] = c]
              /\ Ask(t, "add", s)
              /\ Then(t, << <<"map", c, s>>, <<"send", c, "CONFIRM">>, <<"unlock">> >>)
              /\ UNCHANGED mutex
      /\ Asking
      /\ UNCHANGED <<channelMap, peerVars, webVars>>

MapChannel(t) ==
    \E c \in Channels, s \in Locals:
      /\ At(t, <<"map", c, s>>)
      /\ channelMap' = [channelMap EXCEPT ![c] = s]
      /\ Then(t, <<>>)
      /\ Local
      /\ UNCHANGED <<mutex, channelOf, peerVars, webVars>>

\* removeChannel(): _mutex is held until the main thread has closed the socket.
RemoveChannel(t) ==
    \E c \in Channels:
      /\ At(t, <<"removeChannel", c>>)
      /\ mutex = Nobody
      /\ IF channelMap[c] = NoSocket
         THEN Then(t, <<>>) /\ UNCHANGED <<mutex, mainQueue, waiting>>
         ELSE /\ mutex' = t
              /\ Ask(t, "close", channelMap[c])
              /\ Then(t, << <<"erase", c>> >>)
      /\ Asking
      /\ UNCHANGED <<channelMap, channelOf, peerVars, webVars>>

Erase(t) ==
    \E c \in Channels:
      /\ At(t, <<"erase", c>>)
      /\ channelMap' = [channelMap EXCEPT ![c] = NoSocket]
      /\ mutex' = Nobody
      /\ Then(t, <<>>)
      /\ Local
      /\ UNCHANGED <<channelOf, peerVars, webVars>>

Unlock(t) ==
    /\ At(t, <<"unlock">>)
    /\ mutex' = Nobody
    /\ Then(t, <<>>)
    /\ Local
    /\ UNCHANGED <<channelMap, channelOf, peerVars, webVars>>

\* forwardData(): the lock is held for the look-up only.
ForwardData(t) ==
    \E c \in Channels:
      /\ At(t, <<"forward", c>>)
      /\ mutex = Nobody
      /\ IF channelMap[c] = NoSocket
         THEN Then(t, << <<"send", c, "ERROR">> >>)
         ELSE Then(t, << <<"write", c, channelMap[c]>> >>)
      /\ Local
      /\ UNCHANGED <<channelVars, peerVars, webVars>>

\* Mutant of Write: the peer is not told.
WriteFailsSilently(t) ==
    \E c \in Channels, s \in Locals:
      /\ At(t, <<"write", c, s>>)
      /\ \/ s \notin shut /\ Then(t, <<>>)
         \/ Then(t, << <<"removeChannel", c>> >>)
      /\ Local
      /\ UNCHANGED <<channelVars, peerVars, webVars>>

\* The data are sent to the local socket, or that fails.
Write(t) ==
    \E c \in Channels, s \in Locals:
      /\ At(t, <<"write", c, s>>)
      /\ \/ s \notin shut /\ Then(t, <<>>)
         \/ Then(t, << <<"removeChannel", c>>, <<"send", c, "ERROR">> >>)
      /\ Local
      /\ UNCHANGED <<channelVars, peerVars, webVars>>

-----------------------------------------------------------------------------
(* The handler of a local socket: multiplex(), multiplexError() and           *)
(* multiplexTimeout()                                                         *)

\* Something was received, also from a socket that was shut down with data in
\* its buffer.
MultiplexData(t) ==
    \E s \in Locals:
      /\ At(t, <<"readable", s>>)
      /\ Then(t, << <<"send", channelOf[s], "DATA">> >>)
      /\ Local
      /\ UNCHANGED <<channelVars, peerVars, webVars>>

\* End of data, an exception, or a timeout.
MultiplexEnd(t) ==
    \E s \in Locals:
      /\ \E frame \in {"CLOSE", "ERROR"}, event \in {"readable", "exception", "timeout"}:
           /\ At(t, <<event, s>>)
           /\ event # "readable" => frame = "ERROR"
           /\ Then(t, << <<"removeChannel", channelOf[s]>>, <<"send", channelOf[s], frame>> >>)
      /\ Local
      /\ UNCHANGED <<channelVars, peerVars, webVars>>

-----------------------------------------------------------------------------
(* The handler of the web socket: demultiplex(), demultiplexError() and       *)
(* demultiplexTimeout()                                                       *)

Demultiplexing(t) ==
    /\ At(t, <<"readable", WebSocket>>)
    /\ WebSocket \notin closed /\ peer # "down"
    /\ Local
    /\ UNCHANGED <<channelVars, webSocketMutex, fired, stopping, peer>>

ReceiveData(t) ==
    /\ Demultiplexing(t)
    /\ \E c \in Channels: Then(t, << <<"forward", c>> >>)
    /\ UNCHANGED <<peerView, timeoutCount>>

\* OPEN_REQUEST; a port that is not forwarded is refused at once.
ReceiveOpen(t) ==
    /\ Demultiplexing(t)
    /\ \E c \in Channels:
         /\ peerView[c] = "closed"
         /\ peerView' = [peerView EXCEPT ![c] = "opening"]
         /\ \/ Then(t, << <<"open", c>> >>)
            \/ Then(t, << <<"send", c, "FAULT">> >>)
    /\ UNCHANGED timeoutCount

\* CLOSE, or ERROR.
ReceiveClose(t) ==
    /\ Demultiplexing(t)
    /\ \E c \in Channels:
         /\ peerView' = [peerView EXCEPT ![c] = "closed"]
         /\ Then(t, << <<"removeChannel", c>> >>)
    /\ UNCHANGED timeoutCount

\* A frame with a bad opcode, or one that is not binary.
ReceiveOther(t) ==
    /\ Demultiplexing(t)
    /\ \/ \E c \in Channels: Then(t, << <<"send", c, "ERROR">> >>)
       \/ Then(t, <<>>)
    /\ UNCHANGED <<peerView, timeoutCount>>

ReceivePong(t) ==
    /\ Demultiplexing(t)
    /\ timeoutCount' = 0
    /\ Then(t, <<>>)
    /\ UNCHANGED peerView

\* receiveFrame() fails, or times out in the middle of a frame; the peer's CLOSE,
\* and any frame but a PONG that is empty; and demultiplexError().  A handler of
\* a socket that is closed is not called, or fails like this.
ReceiveFails(t) ==
    /\ At(t, <<"readable", WebSocket>>) \/ At(t, <<"exception", WebSocket>>)
    /\ Then(t, << <<"closeWebSocket">> >>)
    /\ Local
    /\ UNCHANGED <<channelVars, peerVars, webVars>>

\* Mutant of DemultiplexTimeout: each timeout sends a PING.
PingAgain(t) ==
    /\ At(t, <<"timeout", WebSocket>>)
    /\ Then(t, << <<"ping">> >>)
    /\ Local
    /\ UNCHANGED <<channelVars, peerVars, webVars>>

\* demultiplexTimeout(): a PING first; a second timeout without a PONG closes.
DemultiplexTimeout(t) ==
    /\ At(t, <<"timeout", WebSocket>>)
    /\ \/ timeoutCount = 0 /\ timeoutCount' = 1 /\ Then(t, << <<"ping">> >>)
       \/ timeoutCount = 1 /\ Then(t, << <<"closeWebSocket">> >>) /\ UNCHANGED timeoutCount
    /\ Local
    /\ UNCHANGED <<channelVars, peerVars, webSocketMutex, fired, stopping>>

SendPing(t) ==
    /\ At(t, <<"ping">>)
    /\ webSocketMutex = Nobody
    /\ \/ WebSocket \notin closed /\ peer # "down" /\ Then(t, <<>>)
       \/ (WebSocket \in closed \/ peer # "up") /\ Then(t, << <<"closeWebSocket">> >>)
    /\ Local
    /\ UNCHANGED <<channelVars, peerVars, webVars>>

-----------------------------------------------------------------------------
(* The user, the peer and the specification *)

\* stop(), and reset() of the dispatcher.
Stop ==
    /\ MayStop /\ ~stopping
    /\ stopping' = TRUE
    /\ todo' = [todo EXCEPT ![User] = << <<"closeWebSocket">>, <<"reset">> >>]
    /\ Local
    /\ UNCHANGED <<channelVars, peerVars, webSocketMutex, timeoutCount, fired>>

Reset(t) ==
    /\ At(t, <<"reset">>)
    /\ Ask(t, "reset", NoSocket)
    /\ Then(t, <<>>)
    /\ Asking
    /\ UNCHANGED <<channelVars, peerVars, webVars>>

Lose ==
    /\ peer = "up"
    /\ peer' \in Losses
    /\ UNCHANGED <<dispatcherVars, channelVars, peerView, webVars>>

Step(t) ==
    \/ SendFrame(t) \/ SendPing(t)
    \/ CloseWebSocket(t) \/ RemoveSockets(t) \/ CloseImpl(t)
    \/ OpenChannel(t) \/ Connect(t) \/ MapChannel(t)
    \/ RemoveChannel(t) \/ Erase(t) \/ Unlock(t)
    \/ ForwardData(t) \/ Write(t)
    \/ MultiplexData(t) \/ MultiplexEnd(t)
    \/ ReceiveData(t) \/ ReceiveOpen(t) \/ ReceiveClose(t) \/ ReceiveOther(t)
    \/ ReceivePong(t) \/ ReceiveFails(t) \/ DemultiplexTimeout(t)
    \/ Reset(t)

forwarderVars == <<channelVars, peerVars, webVars>>

\* What the main thread finds of a socket.  Something is there to be read from
\* the web socket only while the peer is not silent.
Poll(s) ==
    /\ \E events \in AnyReport \ {<<"timeout">>}:
         /\ IF s # WebSocket THEN events \in Reports
            ELSE peer = "down" \/ (peer = "up" /\ events = <<"readable">>)
         /\ MainPoll(s, events)
    /\ UNCHANGED forwarderVars

Timeout(s) ==
    /\ s = WebSocket \/ <<"timeout">> \in Reports
    /\ MainTimeout(s)
    /\ UNCHANGED forwarderVars

MainThread == MainTask /\ UNCHANGED forwarderVars
Take == (\E w \in Workers: WorkerTake(w)) /\ UNCHANGED forwarderVars
Return(w) == Finish(w) /\ UNCHANGED forwarderVars
ReadMore(w) == Again(w) /\ UNCHANGED forwarderVars

Next ==
    \/ \E t \in Threads: Step(t)
    \/ \E w \in Workers: Return(w) \/ ReadMore(w)
    \/ Take \/ MainThread
    \/ \E s \in Sockets: Poll(s) \/ Timeout(s)
    \/ Stop \/ Lose

\* A lost connection is found by poll(), silence by the timeout.
FindLoss == \/ peer = "down" /\ Poll(WebSocket)
            \/ peer = "silent" /\ Timeout(WebSocket)

\* Threads run, and get a mutex that is released again and again; a worker's
\* loop ends, since no socket has more to read each time it is asked; the main
\* thread goes round its loop.
Fairness ==
    /\ \A t \in Threads: SF_vars(Step(t))
    /\ \A w \in Workers: SF_vars(Return(w))
    /\ WF_vars(Take) /\ WF_vars(MainThread) /\ WF_vars(FindLoss)

Spec == Init /\ [][Next]_vars /\ Fairness

-----------------------------------------------------------------------------
(* Properties *)

Steps ==
    LET C == Channels
    IN  ({"readable", "exception", "timeout"} \X Sockets)
        \cup ({"finish"} \X {"readable", "timeout"} \X Sockets)
        \cup ({"send"} \X C \X {"DATA", "CONFIRM", "FAULT", "CLOSE", "ERROR"})
        \cup ({"open", "connect", "removeChannel", "erase", "forward"} \X C)
        \cup ({"map", "write"} \X C \X Locals)
        \cup ({"removeSockets"} \X SUBSET C)
        \cup {<<"closeWebSocket">>, <<"closeImpl">>, <<"unlock">>,
              <<"ping">>, <<"reset">>}

\* Type correctness; and a thread has at most one task queued, for which it waits.
ForwarderTypeOK ==
    /\ DispatcherTypeOK
    /\ todo \in [Threads -> Seq(Steps)]
    /\ mutex \in Threads \cup {Nobody} /\ webSocketMutex \in Threads \cup {Nobody}
    /\ channelMap \in [Channels -> Locals \cup {NoSocket}]
    /\ channelOf \in [Locals -> Channels \cup {Nobody}]
    /\ timeoutCount \in {0, 1} /\ fired \in Nat /\ stopping \in BOOLEAN
    /\ peer \in {"up", "silent", "down"}
    /\ peerView \in [Channels -> {"closed", "opening", "open"}]

\* While the tunnel is up and no channel is being opened or removed, the local
\* sockets the dispatcher serves are those of the channels, one for each: no
\* connection to a local port outlives its channel (openChannel(),
\* removeChannel()).  Once closeWebSocket() runs, an openChannel() in progress
\* leaves one behind, until reset().
SocketsHaveChannels ==
    mutex = Nobody /\ webSocketMutex = Nobody /\ WebSocket \notin closed
      => /\ registered \cap Locals = InUse
         /\ \A c \in Opened: channelOf[channelMap[c]] = c

\* The loss of the tunnel is reported once, whichever of several threads that
\* fail to read, to send or to get a PONG, or that stop it, closes it
\* (closeWebSocket()).
ReportedOnce == fired <= 1

\* When a channel the peer holds open is gone here, a thread is about to tell
\* the peer (multiplex(), forwardData()); otherwise the peer's client would
\* wait for ever.
Owing(c) == \E t \in Threads: \E i \in DOMAIN todo[t]:
              todo[t][i] \in {<<"send", c, "CLOSE">>, <<"send", c, "ERROR">>}
NoHalfOpenChannel ==
    peer = "up" /\ WebSocket \notin closed
      => \A c \in Channels: peerView[c] = "open" /\ channelMap[c] = NoSocket => Owing(c)

\* A peer that breaks the connection or falls silent is noticed and reported,
\* also while workers hold channels or wait for the main thread
\* (demultiplexTimeout(), closeWebSocket()).
LossIsReported == peer # "up" ~> fired > 0

\* Every request to open a channel is answered, or the tunnel closed
\* (openChannel(), sendResponse()): no thread waits for ever for a mutex or
\* for the main thread.
OpenIsAnswered ==
    \A c \in Channels:
      peerView[c] = "opening" ~> peerView[c] # "opening" \/ WebSocket \in closed
=============================================================================
