----------------------- MODULE RemotePortForwarderProofs -----------------------
(***************************************************************************)
(* What holds of the forwarder and its dispatcher for any sockets,         *)
(* channels and workers.  The invariants are built up in layers, each      *)
(* resting on the ones before it.                                          *)
(*                                                                         *)
(* IInv, for ReportedOnce: closeWebSocket() tests whether the web socket   *)
(* is closed and closes it much later, after the main thread has removed   *)
(* every channel's socket; what keeps a second thread out in between is    *)
(* _webSocketMutex.  Only its holder is past the test, and while it is,    *)
(* the socket is not closed (Closer).                                      *)
(*                                                                         *)
(* BaseInv, for ForwarderTypeOK: steps, events and tasks name sockets that *)
(* exist, a waiting thread has one task queued, and what a handler still   *)
(* has to do below the function it is in obeys Follows and MayEnd.         *)
(*                                                                         *)
(* ReaderInv, for OneReader: of a socket there is one event queued or one  *)
(* reader, and none while it is polled (ReadInv); one that is about to be  *)
(* added is new (AddInv).                                                  *)
(*                                                                         *)
(* SocketsInv, for SocketsHaveChannels: who holds _mutex, what a channel's *)
(* socket and a queued task are for, and how far the registered sockets    *)
(* may differ from the channels' while a channel is opened or removed.     *)
(*                                                                         *)
(* TalkInv, for NoHalfOpenChannel: what the peer holds of a channel that   *)
(* is not in the map is accounted for by what a thread has still to send.  *)
(***************************************************************************)
EXTENDS RemotePortForwarder, FiniteSetTheorems, TLAPS

\* A step of closeWebSocket() after its test.
Closes(step) == step[1] \in {"removeSockets", "closeImpl"}

IsSeq(q) == \E S: q \in Seq(S)
Calm(q) == \A i \in DOMAIN q: ~Closes(q[i])

TodoInv ==
    /\ todo = [t \in Threads |-> todo[t]]
    /\ \A t \in Threads: IsSeq(todo[t])
    /\ workerQueue \in Seq(Event)

Closer ==
    /\ fired = IF WebSocket \in closed THEN 1 ELSE 0
    /\ \A t \in Threads: \A i \in DOMAIN todo[t]:
         Closes(todo[t][i]) => i = 1 /\ webSocketMutex = t /\ WebSocket \notin closed

IInv == TodoInv /\ Closer

-----------------------------------------------------------------------------
(* A thread's steps *)

LEMMA NoSteps == IsSeq(<<>>) /\ Calm(<<>>)
<1>1. <<>> \in Seq({})
  OBVIOUS
<1> QED
  BY <1>1 DEF IsSeq, Calm

LEMMA OneStep == ASSUME NEW x PROVE IsSeq(<<x>>) /\ (~Closes(x) => Calm(<<x>>))
<1>1. IsSeq(<<x>>)
  <2>1. <<x>> \in Seq({x})
    OBVIOUS
  <2> QED
    BY <2>1 DEF IsSeq
<1>2. DOMAIN <<x>> = {1}
  OBVIOUS
<1>3. <<x>>[1] = x
  OBVIOUS
<1> QED
  BY <1>1, <1>2, <1>3 DEF Calm

LEMMA TwoSteps ==
    ASSUME NEW x, NEW y, ~Closes(x), ~Closes(y)
    PROVE  IsSeq(<<x, y>>) /\ Calm(<<x, y>>)
<1>1. IsSeq(<<x, y>>)
  <2>1. <<x, y>> \in Seq({x, y})
    OBVIOUS
  <2> QED
    BY <2>1 DEF IsSeq
<1>2. DOMAIN <<x, y>> = {1, 2}
  OBVIOUS
<1>3. <<x, y>>[1] = x /\ <<x, y>>[2] = y
  OBVIOUS
<1> QED
  BY <1>1, <1>2, <1>3 DEF Calm

LEMMA ThreeSteps ==
    ASSUME NEW x, NEW y, NEW z, ~Closes(x), ~Closes(y), ~Closes(z)
    PROVE  IsSeq(<<x, y, z>>) /\ Calm(<<x, y, z>>)
<1>1. IsSeq(<<x, y, z>>)
  <2>1. <<x, y, z>> \in Seq({x, y, z})
    OBVIOUS
  <2> QED
    BY <2>1 DEF IsSeq
<1>2. DOMAIN <<x, y, z>> = {1, 2, 3}
  OBVIOUS
<1>3. <<x, y, z>>[1] = x /\ <<x, y, z>>[2] = y /\ <<x, y, z>>[3] = z
  OBVIOUS
<1> QED
  BY <1>1, <1>2, <1>3 DEF Calm

LEMMA Concatenated ==
    ASSUME NEW p, NEW q, IsSeq(p), IsSeq(q)
    PROVE  /\ IsSeq(p \o q)
           /\ \A i \in DOMAIN (p \o q):
                \/ i \in DOMAIN p /\ (p \o q)[i] = p[i]
                \/ i \notin DOMAIN p /\ \E j \in DOMAIN q: (p \o q)[i] = q[j]
<1>1. PICK S: p \in Seq(S)
  BY DEF IsSeq
<1>2. PICK T: q \in Seq(T)
  BY DEF IsSeq
<1>3. p \in Seq(S \cup T) /\ q \in Seq(S \cup T)
  BY <1>1, <1>2
<1>4. p \o q \in Seq(S \cup T)
  BY <1>3
<1>5. ASSUME NEW i \in DOMAIN (p \o q)
      PROVE  \/ i \in DOMAIN p /\ (p \o q)[i] = p[i]
             \/ i \notin DOMAIN p /\ \E j \in DOMAIN q: (p \o q)[i] = q[j]
  <2>1. i \in 1 .. Len(p) + Len(q)
    BY <1>3
  <2>2. CASE i <= Len(p)
    BY <1>3, <2>1, <2>2
  <2>3. CASE i > Len(p)
    <3>1. i - Len(p) \in DOMAIN q /\ (p \o q)[i] = q[i - Len(p)]
      BY <1>3, <2>1, <2>3
    <3>2. i \notin DOMAIN p
      BY <1>3, <2>1, <2>3
    <3> QED
      BY <3>1, <3>2
  <2> QED
    BY <1>3, <2>1, <2>2, <2>3
<1> QED
  BY <1>4, <1>5 DEF IsSeq

LEMMA Rest ==
    ASSUME NEW q, IsSeq(q), q # <<>>
    PROVE  /\ IsSeq(Tail(q))
           /\ 1 \in DOMAIN q /\ Head(q) = q[1]
           /\ \A i \in DOMAIN Tail(q): i + 1 \in DOMAIN q /\ i + 1 # 1 /\ Tail(q)[i] = q[i + 1]
<1>1. PICK S: q \in Seq(S)
  BY DEF IsSeq
<1>2. Tail(q) \in Seq(S) /\ Len(q) \in Nat /\ Len(q) # 0
  BY <1>1
<1>3. 1 \in DOMAIN q /\ Head(q) = q[1]
  BY <1>1, <1>2
<1>4. \A i \in DOMAIN Tail(q): i \in Nat \ {0} /\ i + 1 \in DOMAIN q /\ Tail(q)[i] = q[i + 1]
  BY <1>1, <1>2
<1> QED
  BY <1>2, <1>3, <1>4 DEF IsSeq
LEMMA NextSteps ==
    ASSUME NEW t \in Threads, NEW ss, IsSeq(ss), TodoInv, todo[t] # <<>>, Then(t, ss)
    PROVE  /\ todo' = [u \in Threads |-> todo'[u]]
           /\ \A u \in Threads: IsSeq(todo'[u])
           /\ \A u \in Threads: u # t => todo'[u] = todo[u]
           /\ \A i \in DOMAIN todo'[t]:
                \/ i \in DOMAIN ss /\ todo'[t][i] = ss[i]
                \/ i \notin DOMAIN ss /\ \E j \in DOMAIN todo[t]: j # 1 /\ todo'[t][i] = todo[t][j]
<1> DEFINE rest == Tail(todo[t])
<1>1. todo' = [u \in Threads |-> IF u = t THEN ss \o rest ELSE todo[u]]
  BY DEF Then, TodoInv
<1>2. IsSeq(todo[t])
  BY DEF TodoInv
<1>3. /\ IsSeq(rest)
      /\ \A i \in DOMAIN rest: i + 1 \in DOMAIN todo[t] /\ i + 1 # 1 /\ rest[i] = todo[t][i + 1]
  BY <1>2, Rest
<1> HIDE DEF rest
<1>4. /\ IsSeq(ss \o rest)
      /\ \A i \in DOMAIN (ss \o rest):
           \/ i \in DOMAIN ss /\ (ss \o rest)[i] = ss[i]
           \/ i \notin DOMAIN ss /\ \E j \in DOMAIN rest: (ss \o rest)[i] = rest[j]
  BY <1>3, Concatenated
<1>5. todo'[t] = ss \o rest
  BY <1>1
<1>6. \A i \in DOMAIN todo'[t]:
        \/ i \in DOMAIN ss /\ todo'[t][i] = ss[i]
        \/ i \notin DOMAIN ss /\ \E j \in DOMAIN todo[t]: j # 1 /\ todo'[t][i] = todo[t][j]
  BY <1>3, <1>4, <1>5
<1>7. \A u \in Threads: IsSeq(todo'[u])
  BY <1>1, <1>4 DEF TodoInv
<1> QED
  BY <1>1, <1>6, <1>7

\* A step that has nothing to do with closeWebSocket().
Quiet(t) == \E ss: IsSeq(ss) /\ Calm(ss) /\ todo[t] # <<>> /\ Then(t, ss)

LEMMA QuietKeeps ==
    ASSUME NEW t \in Threads, IInv, Quiet(t), UNCHANGED <<webSocketMutex, closed, fired, workerQueue>>
    PROVE  IInv'
<1>1. PICK ss: IsSeq(ss) /\ Calm(ss) /\ todo[t] # <<>> /\ Then(t, ss)
  BY DEF Quiet
<1>2. TodoInv /\ Closer
  BY DEF IInv
<1>3. TodoInv'
  BY <1>1, <1>2, NextSteps DEF TodoInv
<1>4. \A i \in DOMAIN todo'[t]: ~Closes(todo'[t][i])
  BY <1>1, <1>2, NextSteps DEF Calm, Closer
<1>5. Closer'
  BY <1>1, <1>2, <1>4, NextSteps DEF Closer
<1> QED
  BY <1>3, <1>5 DEF IInv
LEMMA QuietShapes ==
    ASSUME NEW t \in Threads, todo[t] # <<>>
    PROVE  /\ Then(t, <<>>) => Quiet(t)
           /\ \A x: ~Closes(x) /\ Then(t, <<x>>) => Quiet(t)
           /\ \A x, y: ~Closes(x) /\ ~Closes(y) /\ Then(t, <<x, y>>) => Quiet(t)
           /\ \A x, y, z: ~Closes(x) /\ ~Closes(y) /\ ~Closes(z) /\ Then(t, <<x, y, z>>) => Quiet(t)
  BY NoSteps, OneStep, TwoSteps, ThreeSteps DEF Quiet

-----------------------------------------------------------------------------
(* Every step keeps the invariant *)

LEMMA SendFrameKeeps == ASSUME NEW t \in Threads, IInv, SendFrame(t) PROVE IInv'
<1>1. Quiet(t)
  BY QuietShapes DEF SendFrame, At, Closes
<1>2. UNCHANGED <<webSocketMutex, closed, fired, workerQueue>>
  BY DEF SendFrame, Local, channelVars, webVars
<1> QED
  BY <1>1, <1>2, QuietKeeps

LEMMA SendPingKeeps == ASSUME NEW t \in Threads, IInv, SendPing(t) PROVE IInv'
<1>1. Quiet(t)
  BY QuietShapes DEF SendPing, At, Closes
<1>2. UNCHANGED <<webSocketMutex, closed, fired, workerQueue>>
  BY DEF SendPing, Local, channelVars, peerVars, webVars
<1> QED
  BY <1>1, <1>2, QuietKeeps

LEMMA OpenChannelKeeps == ASSUME NEW t \in Threads, IInv, OpenChannel(t) PROVE IInv'
<1>1. Quiet(t)
  BY QuietShapes DEF OpenChannel, At, Closes
<1>2. UNCHANGED <<webSocketMutex, closed, fired, workerQueue>>
  BY DEF OpenChannel, Local, webVars
<1> QED
  BY <1>1, <1>2, QuietKeeps

LEMMA ConnectKeeps == ASSUME NEW t \in Threads, IInv, Connect(t) PROVE IInv'
<1>1. Quiet(t)
  <2>1. todo[t] # <<>>
    BY DEF Connect, At
  <2>2. PICK c \in Channels:
          \/ Then(t, << <<"send", c, "FAULT">> >>)
          \/ \E s \in Unused: Then(t, << <<"map", c, s>>, <<"send", c, "CONFIRM">>, <<"unlock">> >>)
    BY DEF Connect
  <2>3. CASE Then(t, << <<"send", c, "FAULT">> >>)
    BY <2>1, <2>3, QuietShapes DEF Closes
  <2>4. ASSUME NEW s \in Unused, Then(t, << <<"map", c, s>>, <<"send", c, "CONFIRM">>, <<"unlock">> >>)
        PROVE  Quiet(t)
    <3>1. ~Closes(<<"map", c, s>>) /\ ~Closes(<<"send", c, "CONFIRM">>) /\ ~Closes(<<"unlock">>)
      BY DEF Closes
    <3> QED
      BY <2>1, <2>4, <3>1, QuietShapes
  <2> QED
    BY <2>2, <2>3, <2>4
<1>2. UNCHANGED <<webSocketMutex, closed, fired, workerQueue>>
  BY DEF Connect, Asking, Ask, webVars
<1> QED
  BY <1>1, <1>2, QuietKeeps

LEMMA MapChannelKeeps == ASSUME NEW t \in Threads, IInv, MapChannel(t) PROVE IInv'
<1>1. Quiet(t)
  BY QuietShapes DEF MapChannel, At, Closes
<1>2. UNCHANGED <<webSocketMutex, closed, fired, workerQueue>>
  BY DEF MapChannel, Local, webVars
<1> QED
  BY <1>1, <1>2, QuietKeeps

LEMMA RemoveChannelKeeps == ASSUME NEW t \in Threads, IInv, RemoveChannel(t) PROVE IInv'
<1>1. Quiet(t)
  BY QuietShapes DEF RemoveChannel, At, Closes
<1>2. UNCHANGED <<webSocketMutex, closed, fired, workerQueue>>
  BY DEF RemoveChannel, Asking, Ask, webVars
<1> QED
  BY <1>1, <1>2, QuietKeeps

LEMMA EraseKeeps == ASSUME NEW t \in Threads, IInv, Erase(t) PROVE IInv'
<1>1. Quiet(t)
  BY QuietShapes DEF Erase, At, Closes
<1>2. UNCHANGED <<webSocketMutex, closed, fired, workerQueue>>
  BY DEF Erase, Local, webVars
<1> QED
  BY <1>1, <1>2, QuietKeeps

LEMMA UnlockKeeps == ASSUME NEW t \in Threads, IInv, Unlock(t) PROVE IInv'
<1>1. Quiet(t)
  BY QuietShapes DEF Unlock, At, Closes
<1>2. UNCHANGED <<webSocketMutex, closed, fired, workerQueue>>
  BY DEF Unlock, Local, webVars
<1> QED
  BY <1>1, <1>2, QuietKeeps

LEMMA ForwardDataKeeps == ASSUME NEW t \in Threads, IInv, ForwardData(t) PROVE IInv'
<1>1. Quiet(t)
  BY QuietShapes DEF ForwardData, At, Closes
<1>2. UNCHANGED <<webSocketMutex, closed, fired, workerQueue>>
  BY DEF ForwardData, Local, webVars
<1> QED
  BY <1>1, <1>2, QuietKeeps

LEMMA WriteKeeps == ASSUME NEW t \in Threads, IInv, Write(t) PROVE IInv'
<1>1. Quiet(t)
  BY QuietShapes DEF Write, At, Closes
<1>2. UNCHANGED <<webSocketMutex, closed, fired, workerQueue>>
  BY DEF Write, Local, webVars
<1> QED
  BY <1>1, <1>2, QuietKeeps

LEMMA MultiplexDataKeeps == ASSUME NEW t \in Threads, IInv, MultiplexData(t) PROVE IInv'
<1>1. Quiet(t)
  BY QuietShapes DEF MultiplexData, At, Closes
<1>2. UNCHANGED <<webSocketMutex, closed, fired, workerQueue>>
  BY DEF MultiplexData, Local, webVars
<1> QED
  BY <1>1, <1>2, QuietKeeps

LEMMA MultiplexEndKeeps == ASSUME NEW t \in Threads, IInv, MultiplexEnd(t) PROVE IInv'
<1>1. Quiet(t)
  BY QuietShapes DEF MultiplexEnd, At, Closes
<1>2. UNCHANGED <<webSocketMutex, closed, fired, workerQueue>>
  BY DEF MultiplexEnd, Local, webVars
<1> QED
  BY <1>1, <1>2, QuietKeeps

LEMMA ReceiveDataKeeps == ASSUME NEW t \in Threads, IInv, ReceiveData(t) PROVE IInv'
<1>1. Quiet(t)
  BY QuietShapes DEF ReceiveData, Demultiplexing, At, Closes
<1>2. UNCHANGED <<webSocketMutex, closed, fired, workerQueue>>
  BY DEF ReceiveData, Demultiplexing, Local
<1> QED
  BY <1>1, <1>2, QuietKeeps

LEMMA ReceiveOpenKeeps == ASSUME NEW t \in Threads, IInv, ReceiveOpen(t) PROVE IInv'
<1>1. Quiet(t)
  BY QuietShapes DEF ReceiveOpen, Demultiplexing, At, Closes
<1>2. UNCHANGED <<webSocketMutex, closed, fired, workerQueue>>
  BY DEF ReceiveOpen, Demultiplexing, Local
<1> QED
  BY <1>1, <1>2, QuietKeeps

LEMMA ReceiveCloseKeeps == ASSUME NEW t \in Threads, IInv, ReceiveClose(t) PROVE IInv'
<1>1. Quiet(t)
  BY QuietShapes DEF ReceiveClose, Demultiplexing, At, Closes
<1>2. UNCHANGED <<webSocketMutex, closed, fired, workerQueue>>
  BY DEF ReceiveClose, Demultiplexing, Local
<1> QED
  BY <1>1, <1>2, QuietKeeps

LEMMA ReceiveOtherKeeps == ASSUME NEW t \in Threads, IInv, ReceiveOther(t) PROVE IInv'
<1>1. Quiet(t)
  BY QuietShapes DEF ReceiveOther, Demultiplexing, At, Closes
<1>2. UNCHANGED <<webSocketMutex, closed, fired, workerQueue>>
  BY DEF ReceiveOther, Demultiplexing, Local
<1> QED
  BY <1>1, <1>2, QuietKeeps

LEMMA ReceivePongKeeps == ASSUME NEW t \in Threads, IInv, ReceivePong(t) PROVE IInv'
<1>1. Quiet(t)
  BY QuietShapes DEF ReceivePong, Demultiplexing, At, Closes
<1>2. UNCHANGED <<webSocketMutex, closed, fired, workerQueue>>
  BY DEF ReceivePong, Demultiplexing, Local
<1> QED
  BY <1>1, <1>2, QuietKeeps

LEMMA ReceiveFailsKeeps == ASSUME NEW t \in Threads, IInv, ReceiveFails(t) PROVE IInv'
<1>1. Quiet(t)
  BY QuietShapes DEF ReceiveFails, At, Closes
<1>2. UNCHANGED <<webSocketMutex, closed, fired, workerQueue>>
  BY DEF ReceiveFails, Local, webVars
<1> QED
  BY <1>1, <1>2, QuietKeeps

LEMMA DemultiplexTimeoutKeeps ==
    ASSUME NEW t \in Threads, IInv, DemultiplexTimeout(t)
    PROVE  IInv'
<1>1. Quiet(t)
  BY QuietShapes DEF DemultiplexTimeout, At, Closes
<1>2. UNCHANGED <<webSocketMutex, closed, fired, workerQueue>>
  BY DEF DemultiplexTimeout, Local
<1> QED
  BY <1>1, <1>2, QuietKeeps

LEMMA ResetKeeps == ASSUME NEW t \in Threads, IInv, Reset(t) PROVE IInv'
<1>1. Quiet(t)
  BY QuietShapes DEF Reset, At, Closes
<1>2. UNCHANGED <<webSocketMutex, closed, fired, workerQueue>>
  BY DEF Reset, Asking, webVars
<1> QED
  BY <1>1, <1>2, QuietKeeps

\* It gets past its test only when nobody else is past it.
LEMMA CloseWebSocketKeeps == ASSUME NEW t \in Threads, IInv, CloseWebSocket(t) PROVE IInv'
<1>1. todo[t] # <<>> /\ webSocketMutex = Nobody /\ UNCHANGED <<closed, fired, workerQueue>>
  BY DEF CloseWebSocket, At, Asking
<1>2. CASE WebSocket \in closed
  <2>1. Quiet(t) /\ UNCHANGED webSocketMutex
    BY <1>1, <1>2, QuietShapes DEF CloseWebSocket
  <2> QED
    BY <1>1, <2>1, QuietKeeps
<1>3. CASE WebSocket \notin closed
  <2> DEFINE step == <<"removeSockets", Channels>>
  <2>1. webSocketMutex' = t /\ Then(t, <<step>>)
    BY <1>3 DEF CloseWebSocket
  <2>2. TodoInv /\ Closer
    BY DEF IInv
  <2> HIDE DEF step
  <2>3. IsSeq(<<step>>) /\ DOMAIN <<step>> = {1}
    BY OneStep
  <2>4. TodoInv'
    BY <1>1, <2>1, <2>2, <2>3, NextSteps DEF TodoInv
  <2>5. \A u \in Threads: \A i \in DOMAIN todo[u]: ~Closes(todo[u][i])
    BY <1>1, <2>2, ForwarderAssumption DEF Closer
  <2>6. \A i \in DOMAIN todo'[t]: Closes(todo'[t][i]) => i = 1
    BY <1>1, <2>1, <2>2, <2>3, <2>5, NextSteps
  <2>7. \A u \in Threads: u # t => todo'[u] = todo[u]
    BY <1>1, <2>1, <2>2, <2>3, NextSteps
  <2>8. Closer'
    BY <1>1, <1>3, <2>1, <2>2, <2>5, <2>6, <2>7 DEF Closer
  <2> QED
    BY <2>4, <2>8 DEF IInv
<1> QED
  BY <1>2, <1>3

\* The thread that is past the test goes on, and nobody else is past it.
LEMMA Past ==
    ASSUME NEW t \in Threads, IInv, todo[t] # <<>>, Closes(Head(todo[t]))
    PROVE  /\ webSocketMutex = t /\ WebSocket \notin closed
           /\ \A i \in DOMAIN todo[t]: i # 1 => ~Closes(todo[t][i])
           /\ \A u \in Threads: u # t => Calm(todo[u])
<1>1. 1 \in DOMAIN todo[t] /\ Head(todo[t]) = todo[t][1]
  BY Rest DEF IInv, TodoInv
<1> QED
  BY <1>1 DEF IInv, Closer, Calm

LEMMA RemoveSocketsKeeps == ASSUME NEW t \in Threads, IInv, RemoveSockets(t) PROVE IInv'
<1>1. PICK cs \in SUBSET Channels: At(t, <<"removeSockets", cs>>)
  BY DEF RemoveSockets
<1>2. todo[t] # <<>> /\ Closes(Head(todo[t]))
  BY <1>1 DEF At, Closes
<1>3. UNCHANGED <<webSocketMutex, closed, fired, workerQueue>>
  BY DEF RemoveSockets, Asking, webVars
<1>4. PICK step: Then(t, <<step>>)
  BY DEF RemoveSockets
<1>5. TodoInv /\ Closer
  BY DEF IInv
<1>6. IsSeq(<<step>>) /\ DOMAIN <<step>> = {1}
  BY OneStep
<1>7. TodoInv'
  BY <1>2, <1>3, <1>4, <1>5, <1>6, NextSteps DEF TodoInv
<1>8. \A i \in DOMAIN todo'[t]: Closes(todo'[t][i]) => i = 1
  BY <1>2, <1>4, <1>5, <1>6, Past, NextSteps
<1>9. \A u \in Threads: u # t => todo'[u] = todo[u]
  BY <1>2, <1>4, <1>5, <1>6, NextSteps
<1>10. Closer'
  BY <1>2, <1>3, <1>5, <1>8, <1>9, Past DEF Closer
<1> QED
  BY <1>7, <1>10 DEF IInv

LEMMA CloseImplKeeps == ASSUME NEW t \in Threads, IInv, CloseImpl(t) PROVE IInv'
<1>1. todo[t] # <<>> /\ Closes(Head(todo[t]))
  BY DEF CloseImpl, At, Closes
<1>2. /\ closed' = closed \cup {WebSocket}
      /\ fired' = fired + 1
      /\ Then(t, <<>>)
      /\ UNCHANGED workerQueue
  BY DEF CloseImpl
<1>3. TodoInv /\ Closer
  BY DEF IInv
<1>4. TodoInv'
  BY <1>1, <1>2, <1>3, NoSteps, NextSteps DEF TodoInv
<1>5. Calm(todo'[t])
  BY <1>1, <1>2, <1>3, NoSteps, Past, NextSteps DEF Calm
<1>6. \A u \in Threads: Calm(todo'[u])
  BY <1>1, <1>2, <1>3, <1>5, NoSteps, Past, NextSteps
<1>7. fired' = 1 /\ WebSocket \in closed'
  BY <1>1, <1>2, <1>3, Past DEF Closer
<1> QED
  BY <1>4, <1>6, <1>7 DEF IInv, Closer, Calm

LEMMA StepKeeps == ASSUME NEW t \in Threads, IInv, Step(t) PROVE IInv'
  BY SendFrameKeeps, SendPingKeeps, CloseWebSocketKeeps, RemoveSocketsKeeps, CloseImplKeeps,
     OpenChannelKeeps, ConnectKeeps, MapChannelKeeps, RemoveChannelKeeps, EraseKeeps, UnlockKeeps,
     ForwardDataKeeps, WriteKeeps, MultiplexDataKeeps, MultiplexEndKeeps, ReceiveDataKeeps,
     ReceiveOpenKeeps, ReceiveCloseKeeps, ReceiveOtherKeeps, ReceivePongKeeps, ReceiveFailsKeeps,
     DemultiplexTimeoutKeeps, ResetKeeps
     DEF Step

\* The thread's steps are others, and none of them belongs to closeWebSocket().
LEMMA FreshKeeps ==
    ASSUME NEW t \in Threads, NEW ss, IInv, IsSeq(ss), Calm(ss), todo' = [todo EXCEPT ![t] = ss],
           UNCHANGED <<webSocketMutex, closed, fired>>, workerQueue' \in Seq(Event)
    PROVE  IInv'
<1>1. todo' = [u \in Threads |-> IF u = t THEN ss ELSE todo[u]]
  BY DEF IInv, TodoInv
<1>2. TodoInv'
  BY <1>1 DEF IInv, TodoInv
<1>3. Closer'
  BY <1>1 DEF IInv, Closer, Calm
<1> QED
  BY <1>2, <1>3 DEF IInv

LEMMA StopKeeps == ASSUME IInv, Stop PROVE IInv'
<1>1. IsSeq(<< <<"closeWebSocket">>, <<"reset">> >>) /\ Calm(<< <<"closeWebSocket">>, <<"reset">> >>)
  BY TwoSteps DEF Closes
<1>2. UNCHANGED <<webSocketMutex, closed, fired>> /\ workerQueue' \in Seq(Event)
  BY DEF Stop, Local, IInv, TodoInv
<1>3. User \in Threads /\ todo' = [todo EXCEPT ![User] = << <<"closeWebSocket">>, <<"reset">> >>]
  BY ForwarderAssumption DEF Stop, Threads
<1> QED
  BY <1>1, <1>2, <1>3, FreshKeeps

LEMMA WorkerTakeKeeps ==
    ASSUME NEW w \in Workers, IInv, WorkerTake(w), UNCHANGED forwarderVars
    PROVE  IInv'
<1> DEFINE event == Head(workerQueue)[1]
           s == Head(workerQueue)[2]
           ss == IF event = "exception" THEN << <<event, s>> >>
                 ELSE << <<event, s>>, <<"finish", event, s>> >>
<1>1. Head(workerQueue) \in Event /\ workerQueue' \in Seq(Event)
  BY DEF WorkerTake, IInv, TodoInv
<1>2. event \in {"readable", "exception", "timeout"}
  BY <1>1 DEF Event
<1>3. ~Closes(<<event, s>>) /\ ~Closes(<<"finish", event, s>>)
  BY <1>2 DEF Closes
<1>4. IsSeq(ss) /\ Calm(ss)
  BY <1>3, OneStep, TwoSteps
<1>5. todo' = [todo EXCEPT ![w] = ss]
  BY DEF WorkerTake
<1>6. UNCHANGED <<webSocketMutex, closed, fired>>
  BY DEF WorkerTake, forwarderVars, webVars
<1>7. w \in Threads
  BY DEF Threads
<1> HIDE DEF ss
<1> QED
  BY <1>1, <1>4, <1>5, <1>6, <1>7, FreshKeeps

LEMMA ReturnKeeps == ASSUME NEW w \in Workers, IInv, Return(w) PROVE IInv'
<1>1. todo[w] # <<>> /\ Then(w, <<>>)
  BY DEF Return, Finish, At
<1>2. UNCHANGED <<webSocketMutex, closed, fired, workerQueue>>
  BY DEF Return, Finish, forwarderVars, webVars
<1>3. w \in Threads
  BY DEF Threads
<1> QED
  BY <1>1, <1>2, <1>3, QuietShapes, QuietKeeps

\* A worker that finds more to read is not closing the web socket.
LEMMA ReadMoreKeeps == ASSUME NEW w \in Workers, IInv, ReadMore(w) PROVE IInv'
<1>1. PICK s \in Sockets:
        /\ At(w, <<"finish", "readable", s>>)
        /\ todo' = [todo EXCEPT ![w] = << <<"readable", s>> >> \o todo[w]]
  BY DEF ReadMore, Again, IInv, TodoInv, Threads
<1>2. w \in Threads /\ IsSeq(todo[w]) /\ todo[w] # <<>> /\ Head(todo[w]) = <<"finish", "readable", s>>
  BY <1>1 DEF Threads, At, IInv, TodoInv
<1>3. 1 \in DOMAIN todo[w] /\ ~Closes(todo[w][1])
  BY <1>2, Rest DEF Closes
<1>4. Calm(todo[w])
  BY <1>2, <1>3 DEF Calm, IInv, Closer
<1> DEFINE step == <<"readable", s>>
           ss == <<step>> \o todo[w]
<1>5. ~Closes(step)
  BY DEF Closes
<1> HIDE DEF step
<1>6. IsSeq(<<step>>) /\ Calm(<<step>>)
  BY <1>5, OneStep
<1>7. IsSeq(ss) /\ Calm(ss)
  <2>1. /\ IsSeq(ss)
        /\ \A i \in DOMAIN ss:
             \/ i \in DOMAIN <<step>> /\ ss[i] = <<step>>[i]
             \/ i \notin DOMAIN <<step>> /\ \E j \in DOMAIN todo[w]: ss[i] = todo[w][j]
    BY <1>2, <1>6, Concatenated
  <2> HIDE DEF ss
  <2> QED
    BY <1>4, <1>6, <2>1 DEF Calm
<1>8. UNCHANGED <<webSocketMutex, closed, fired>> /\ workerQueue' \in Seq(Event)
  BY DEF ReadMore, Again, forwarderVars, webVars, IInv, TodoInv
<1>9. todo' = [todo EXCEPT ![w] = ss]
  BY <1>1 DEF step
<1> HIDE DEF ss
<1> QED
  BY <1>2, <1>7, <1>8, <1>9, FreshKeeps

LEMMA PostKeeps ==
    ASSUME NEW s \in Sockets, NEW events \in AnyReport, IInv, MainPoll(s, events), UNCHANGED forwarderVars
    PROVE  IInv'
<1> DEFINE posted == [i \in DOMAIN events |-> <<events[i], s>>]
<1>1. events \in Seq({"readable", "exception", "timeout"})
  <2>1. /\ <<"readable">> \in Seq({"readable", "exception", "timeout"})
        /\ <<"exception">> \in Seq({"readable", "exception", "timeout"})
        /\ <<"timeout">> \in Seq({"readable", "exception", "timeout"})
    OBVIOUS
  <2>2. <<"readable", "exception">> \in Seq({"readable", "exception", "timeout"})
    OBVIOUS
  <2> QED
    BY <2>1, <2>2 DEF AnyReport
<1>2. posted \in Seq(Event)
  BY <1>1 DEF Event
<1>3. workerQueue' \in Seq(Event)
  BY <1>2 DEF MainPoll, Post, IInv, TodoInv
<1>4. UNCHANGED <<todo, webSocketMutex, closed, fired>>
  BY DEF MainPoll, forwarderVars, webVars
<1> QED
  BY <1>3, <1>4 DEF IInv, TodoInv, Closer

LEMMA Initially == Init => IInv
<1> SUFFICES ASSUME Init PROVE IInv
  OBVIOUS
<1>1. /\ todo = [t \in Threads |-> <<>>]
      /\ workerQueue = <<>> /\ closed = {} /\ fired = 0
  BY DEF Init, DispatcherInit
<1> QED
  BY <1>1, NoSteps DEF IInv, TodoInv, Closer, Calm

LEMMA Inductive == IInv /\ [Next]_vars => IInv'
<1> SUFFICES ASSUME IInv, [Next]_vars PROVE IInv'
  OBVIOUS
<1>1. CASE \E t \in Threads: Step(t)
  BY <1>1, StepKeeps
<1>2. CASE \E w \in Workers: Return(w) \/ ReadMore(w)
  BY <1>2, ReturnKeeps, ReadMoreKeeps
<1>3. CASE Take
  BY <1>3, WorkerTakeKeeps DEF Take
<1>4. CASE MainThread
  BY <1>4 DEF MainThread, MainTask, forwarderVars, webVars, IInv, TodoInv, Closer
<1>5. CASE \E s \in Sockets: Poll(s) \/ Timeout(s)
  <2>1. <<"timeout">> \in AnyReport
    BY DEF AnyReport
  <2> QED
    BY <1>5, <2>1, PostKeeps DEF Poll, Timeout, MainTimeout
<1>6. CASE Stop
  BY <1>6, StopKeeps
<1>7. CASE Lose
  BY <1>7 DEF Lose, dispatcherVars, webVars, IInv, TodoInv, Closer
<1>8. CASE UNCHANGED vars
  BY <1>8 DEF vars, dispatcherVars, webVars, IInv, TodoInv, Closer
<1> QED
  BY <1>1, <1>2, <1>3, <1>4, <1>5, <1>6, <1>7, <1>8 DEF Next

-----------------------------------------------------------------------------
(* The property *)

\* Whatever threads fail on a tunnel at once, and whoever stops it, its loss is
\* reported once.
THEOREM LossReportedOnce == Spec => []ReportedOnce
<1>1. IInv => ReportedOnce
  BY DEF IInv, Closer, ReportedOnce
<1> QED
  BY <1>1, Initially, Inductive, PTL DEF Spec

-----------------------------------------------------------------------------
(* The steps of the handlers *)

\* The web socket, and the local sockets that openChannel() has created so far.
CreatedLocals == {s \in Locals: channelOf[s] # Nobody}
Created == {WebSocket} \cup CreatedLocals

\* Steps, Event and Task, of sockets that exist.
CreatedEvent == {"readable", "exception", "timeout"} \X Created
CreatedTask ==
    {k \in [do: {"add", "remove", "close", "reset"}, socket: Created \cup {NoSocket}, by: Threads]:
       k.do \in {"add", "close"} => k.socket \in CreatedLocals}
CreatedSteps ==
    CreatedEvent
    \cup ({"finish"} \X {"readable", "timeout"} \X Created)
    \cup ({"send"} \X Channels \X {"DATA", "CONFIRM", "FAULT", "CLOSE", "ERROR"})
    \cup ({"open", "connect", "removeChannel", "erase", "forward"} \X Channels)
    \cup ({"map", "write"} \X Channels \X CreatedLocals)
    \cup ({"removeSockets"} \X SUBSET Channels)
    \cup {<<"closeWebSocket">>, <<"closeImpl">>, <<"unlock">>, <<"ping">>, <<"reset">>}

\* The end of the handler of what the web socket has received.
FinishWeb == <<"finish", "readable", WebSocket>>
Closing == {"closeWebSocket", "removeSockets", "closeImpl"}
Confirms(x) == x[1] = "send" /\ x[3] = "CONFIRM"

\* A thread may have the step y to take right after x: what a handler still has
\* to do below the function x belongs to.
Follows(x, y) ==
    /\ x[1] \notin {"finish", "reset"}
    /\ y[1] \in {"finish", "reset", "unlock", "send"}
    /\ y[1] = "reset" => x[1] \in Closing
    /\ y[1] = "unlock" => x[1] \in Closing \/ Confirms(x)
    /\ Confirms(y) => x[1] = "map" /\ x[2] = y[2]
    /\ y[1] = "send" /\ ~Confirms(y) =>
         y[3] \in {"CLOSE", "ERROR"} /\ x[1] \in {"removeChannel", "erase"} /\ x[2] = y[2]
    /\ x[1] = "map" => Confirms(y)
    /\ Confirms(x) => y[1] = "unlock"
    /\ x[1] \in {"open", "connect", "unlock"} \/ x = <<"readable", WebSocket>> => y = FinishWeb
    /\ x[1] \in {"removeChannel", "erase"} /\ y[1] = "finish" => y = FinishWeb

\* Nothing need follow x.
MayEnd(x) ==
    /\ x[1] \notin {"map", "connect", "open", "unlock", "removeChannel", "erase", "readable"}
    /\ ~Confirms(x)

Grammar(q) ==
    /\ \A i \in 1 .. (Len(q) - 1): Follows(q[i], q[i + 1])
    /\ q # <<>> => MayEnd(q[Len(q)])

Has(q, x) == \E i \in 1 .. Len(q): q[i] = x
Later(q, x) == \E i \in 2 .. Len(q): q[i] = x

LEMMA HeadOrLater ==
    ASSUME NEW S, NEW q \in Seq(S), q # <<>>
    PROVE  /\ 1 \in 1 .. Len(q) /\ Len(q) \in Nat \ {0} /\ Head(q) = q[1] /\ Head(q) \in S
           /\ \A x: Has(q, x) <=> x = Head(q) \/ Later(q, x)
<1>1. Len(q) \in Nat \ {0} /\ Head(q) = q[1] /\ 1 \in 1 .. Len(q) /\ q[1] \in S
  OBVIOUS
<1>2. ASSUME NEW x, Has(q, x) PROVE x = Head(q) \/ Later(q, x)
  <2>1. PICK i \in 1 .. Len(q): q[i] = x
    BY <1>2 DEF Has
  <2>2. i = 1 \/ i \in 2 .. Len(q)
    BY <1>1
  <2> QED
    BY <1>1, <2>1, <2>2 DEF Later
<1>3. ASSUME NEW x, Later(q, x) PROVE Has(q, x)
  <2>1. PICK i \in 2 .. Len(q): q[i] = x
    BY <1>3 DEF Later
  <2>2. i \in 1 .. Len(q)
    BY <1>1
  <2> QED
    BY <2>1, <2>2 DEF Has
<1> QED
  BY <1>1, <1>2, <1>3 DEF Has

\* The steps ss take the place of the first.
LEMMA Spliced ==
    ASSUME NEW S, NEW q \in Seq(S), q # <<>>, NEW ss \in Seq(S), NEW r, r = ss \o Tail(q),
           Grammar(q),
           \A i \in 1 .. (Len(ss) - 1): Follows(ss[i], ss[i + 1]),
           Len(ss) > 0 /\ Len(q) > 1 => Follows(ss[Len(ss)], q[2]),
           Len(ss) > 0 /\ Len(q) = 1 => MayEnd(ss[Len(ss)])
    PROVE  /\ r \in Seq(S) /\ Len(r) = Len(ss) + Len(q) - 1
           /\ \A i \in 1 .. Len(ss): r[i] = ss[i]
           /\ \A i \in (Len(ss) + 1) .. Len(r): r[i] = q[i - Len(ss) + 1]
           /\ \A x: Has(r, x) <=> Has(ss, x) \/ Later(q, x)
           /\ Grammar(r)
<1>1. PICK p \in Seq(S): /\ p = Tail(q) /\ Len(p) = Len(q) - 1
                         /\ \A i \in 1 .. Len(p): p[i] = q[i + 1]
  <2>1. Tail(q) \in Seq(S) /\ Len(Tail(q)) = Len(q) - 1
    OBVIOUS
  <2>2. \A i \in 1 .. Len(Tail(q)): Tail(q)[i] = q[i + 1]
    OBVIOUS
  <2> QED
    BY <2>1, <2>2
<1>2. PICK m \in Nat: m = Len(q)
  OBVIOUS
<1>3. PICK k \in Nat: k = Len(ss)
  OBVIOUS
<1>4. m > 0
  BY <1>2
<1>5. r \in Seq(S) /\ Len(r) = k + m - 1 /\ \A i \in 1 .. k: r[i] = ss[i]
  BY <1>1, <1>2, <1>3
<1>6. \A i \in (k + 1) .. Len(r): r[i] = q[i - k + 1]
  <2> SUFFICES ASSUME NEW i \in (k + 1) .. Len(r) PROVE r[i] = q[i - k + 1]
    OBVIOUS
  <2>1. r[i] = p[i - k] /\ i - k \in 1 .. Len(p)
    BY <1>1, <1>2, <1>3, <1>5
  <2> QED
    BY <1>1, <2>1
<1>7. ASSUME NEW x, Has(r, x) PROVE Has(ss, x) \/ Later(q, x)
  <2>1. PICK i \in 1 .. Len(r): r[i] = x
    BY <1>7 DEF Has
  <2>2. CASE i <= k
    BY <1>3, <1>5, <2>1, <2>2 DEF Has
  <2>3. CASE i > k
    <3>1. i - k + 1 \in 2 .. Len(q) /\ q[i - k + 1] = x
      BY <1>2, <1>5, <1>6, <2>1, <2>3
    <3> QED
      BY <3>1 DEF Later
  <2> QED
    BY <1>5, <2>2, <2>3
<1>8. ASSUME NEW x, Has(ss, x) PROVE Has(r, x)
  <2>1. PICK i \in 1 .. k: ss[i] = x
    BY <1>3, <1>8 DEF Has
  <2>2. i \in 1 .. Len(r) /\ r[i] = x
    BY <1>4, <1>5, <2>1
  <2> QED
    BY <2>2 DEF Has
<1>9. ASSUME NEW x, Later(q, x) PROVE Has(r, x)
  <2>1. PICK j \in 2 .. m: q[j] = x
    BY <1>2, <1>9 DEF Later
  <2>2. j + k - 1 \in (k + 1) .. Len(r) /\ (j + k - 1) - k + 1 = j
    BY <1>5, <2>1
  <2>3. j + k - 1 \in 1 .. Len(r) /\ r[j + k - 1] = x
    <3>1. r[j + k - 1] = q[j]
      BY <1>6, <2>2
    <3>2. j + k - 1 \in 1 .. Len(r)
      BY <1>2, <1>3, <1>4, <1>5, <2>1
    <3> QED
      BY <2>1, <3>1, <3>2
  <2> QED
    BY <2>3 DEF Has
<1>10. ASSUME NEW i \in 1 .. (Len(r) - 1) PROVE Follows(r[i], r[i + 1])
  <2>1. CASE i < k
    <3>1. r[i] = ss[i] /\ r[i + 1] = ss[i + 1] /\ i \in 1 .. (k - 1)
      BY <1>5, <2>1
    <3> QED
      BY <1>3, <3>1
  <2>2. CASE i = k
    <3>1. r[i] = ss[k] /\ k > 0 /\ m > 1 /\ i + 1 \in (k + 1) .. Len(r) /\ (i + 1) - k + 1 = 2
      BY <1>2, <1>3, <1>4, <1>5, <1>10, <2>2
    <3>2. r[i + 1] = q[2]
      BY <1>6, <3>1
    <3> QED
      BY <1>2, <1>3, <3>1, <3>2
  <2>3. CASE i > k
    <3>1. /\ i \in (k + 1) .. Len(r) /\ i + 1 \in (k + 1) .. Len(r)
          /\ (i + 1) - k + 1 = (i - k + 1) + 1 /\ i - k + 1 \in 1 .. (m - 1)
      BY <1>2, <1>3, <1>4, <1>5, <1>10, <2>3
    <3>2. r[i] = q[i - k + 1] /\ r[i + 1] = q[(i - k + 1) + 1]
      BY <1>6, <3>1
    <3> QED
      BY <1>2, <3>1, <3>2 DEF Grammar
  <2> QED
    BY <1>3, <1>5, <1>10, <2>1, <2>2, <2>3
<1>11. r # <<>> => MayEnd(r[Len(r)])
  <2>1. CASE m = 1 /\ k > 0
    BY <1>2, <1>3, <1>5, <2>1
  <2>2. CASE m = 1 /\ k = 0
    BY <1>5, <2>2
  <2>3. CASE m > 1
    <3>1. Len(r) \in (k + 1) .. Len(r) /\ Len(r) - k + 1 = m
      BY <1>5, <2>3
    <3>2. r[Len(r)] = q[m]
      BY <1>6, <3>1
    <3> QED
      BY <1>2, <3>2 DEF Grammar
  <2> QED
    BY <1>4, <2>1, <2>2, <2>3
<1> QED
  BY <1>2, <1>3, <1>5, <1>6, <1>7, <1>8, <1>9, <1>10, <1>11 DEF Grammar

LEMMA Steps0 == ASSUME NEW S PROVE <<>> \in Seq(S) /\ Len(<<>>) = 0 /\ \A z: ~Has(<<>>, z)
BY DEF Has
LEMMA Steps1 ==
    ASSUME NEW S, NEW x \in S
    PROVE  /\ <<x>> \in Seq(S) /\ Len(<<x>>) = 1 /\ <<x>>[1] = x
           /\ \A z: Has(<<x>>, z) <=> z = x
<1>1. <<x>> \in Seq(S) /\ Len(<<x>>) = 1 /\ <<x>>[1] = x /\ \A i \in 1 .. 1: i = 1
  OBVIOUS
<1> QED
  BY <1>1 DEF Has
LEMMA Steps2 ==
    ASSUME NEW S, NEW x \in S, NEW y \in S
    PROVE  /\ <<x, y>> \in Seq(S) /\ Len(<<x, y>>) = 2 /\ <<x, y>>[1] = x /\ <<x, y>>[2] = y
           /\ \A z: Has(<<x, y>>, z) <=> z = x \/ z = y
<1>1. <<x, y>> \in Seq(S) /\ Len(<<x, y>>) = 2 /\ <<x, y>>[1] = x /\ <<x, y>>[2] = y
      /\ \A i \in 1 .. 2: i = 1 \/ i = 2
  OBVIOUS
<1> QED
  BY <1>1 DEF Has
LEMMA Steps3 ==
    ASSUME NEW S, NEW x \in S, NEW y \in S, NEW z \in S
    PROVE  /\ <<x, y, z>> \in Seq(S) /\ Len(<<x, y, z>>) = 3
           /\ <<x, y, z>>[1] = x /\ <<x, y, z>>[2] = y /\ <<x, y, z>>[3] = z
           /\ \A w: Has(<<x, y, z>>, w) <=> w = x \/ w = y \/ w = z
<1>1. /\ <<x, y, z>> \in Seq(S) /\ Len(<<x, y, z>>) = 3
      /\ <<x, y, z>>[1] = x /\ <<x, y, z>>[2] = y /\ <<x, y, z>>[3] = z
      /\ \A i \in 1 .. 3: i = 1 \/ i = 2 \/ i = 3
  OBVIOUS
<1> QED
  BY <1>1 DEF Has

\* A step is put in front.
LEMMA Preceded ==
    ASSUME NEW S, NEW q \in Seq(S), NEW x \in S, NEW r, q # <<>>, Grammar(q), Follows(x, q[1]),
           r = <<x>> \o q
    PROVE  /\ r \in Seq(S) /\ Len(r) = Len(q) + 1 /\ r[1] = x
           /\ \A i \in 2 .. Len(r): r[i] = q[i - 1]
           /\ \A y: Has(r, y) <=> y = x \/ Has(q, y)
           /\ Grammar(r)
<1>1. /\ Len(q) \in Nat \ {0} /\ r \in Seq(S) /\ Len(r) = Len(q) + 1 /\ r[1] = x
      /\ \A i \in 2 .. Len(r): r[i] = q[i - 1]
  <2>1. <<x>> \in Seq(S) /\ Len(<<x>>) = 1 /\ <<x>>[1] = x
    OBVIOUS
  <2> QED
    BY <2>1
<1>2. \A y: Later(r, y) <=> Has(q, y)
  <2>1. \A y: Later(r, y) => Has(q, y)
    BY <1>1 DEF Later, Has
  <2>2. ASSUME NEW y, Has(q, y) PROVE Later(r, y)
    <3>1. PICK i \in 1 .. Len(q): q[i] = y
      BY <2>2 DEF Has
    <3>2. i + 1 \in 2 .. Len(r) /\ r[i + 1] = y
      BY <1>1, <3>1
    <3> QED
      BY <3>2 DEF Later
  <2> QED
    BY <2>1, <2>2
<1>3. \A y: Has(r, y) <=> y = x \/ Has(q, y)
  <2>1. r # <<>> /\ Head(r) = x
    BY <1>1
  <2> QED
    BY <1>1, <1>2, <2>1, HeadOrLater, Zenon
<1>4. ASSUME NEW i \in 1 .. (Len(r) - 1) PROVE Follows(r[i], r[i + 1])
  <2>1. CASE i = 1
    BY <1>1, <2>1
  <2>2. CASE i # 1
    <3>1. i - 1 \in 1 .. (Len(q) - 1) /\ r[i] = q[i - 1] /\ r[i + 1] = q[(i - 1) + 1]
      BY <1>1, <2>2
    <3> QED
      BY <3>1 DEF Grammar
  <2> QED
    BY <2>1, <2>2
<1>5. MayEnd(r[Len(r)])
  BY <1>1 DEF Grammar
<1> QED
  BY <1>1, <1>3, <1>4, <1>5 DEF Grammar

\* What a thread has to take after a step that ends what holds a lock or closes
\* the web socket, and after any step.
LEMMA WhatFollows ==
    ASSUME NEW S, NEW q \in Seq(S), Grammar(q), NEW i \in 2 .. Len(q)
    PROVE  /\ q[i][1] \in {"finish", "reset", "unlock", "send"}
           /\ q[1][1] \in {"unlock", "erase", "connect", "send"} /\ ~Confirms(q[1])
                => q[i][1] \in {"finish", "send"}
<1>1. Len(q) \in Nat /\ i - 1 \in 1 .. (Len(q) - 1) /\ (i - 1) + 1 = i
  OBVIOUS
<1>2. Follows(q[i - 1], q[i])
  BY <1>1 DEF Grammar
<1>3. q[i][1] \in {"finish", "reset", "unlock", "send"}
  BY <1>2 DEF Follows
<1>4. ASSUME q[1][1] \in {"unlock", "erase", "connect", "send"}, ~Confirms(q[1])
      PROVE  q[i][1] \in {"finish", "send"}
  <2>1. Follows(q[1], q[2])
    BY <1>1 DEF Grammar
  <2>2. q[2][1] \in {"finish", "send"} /\ (q[2][1] = "send" => ~Confirms(q[2]))
    BY <1>4, <2>1 DEF Follows, Closing, FinishWeb
  <2>3. CASE i = 2
    BY <2>2, <2>3
  <2>4. CASE i # 2
    <3>1. Follows(q[2], q[3])
      BY <1>1, <2>4 DEF Grammar
    <3>2. q[3][1] = "finish"
      BY <2>2, <3>1 DEF Follows, Closing
    <3>3. CASE i = 3
      BY <3>2, <3>3
    <3>4. CASE i # 3
      <4>1. Follows(q[3], q[4])
        BY <1>1, <2>4, <3>4 DEF Grammar
      <4> QED
        BY <3>2, <4>1 DEF Follows
    <3> QED
      BY <3>3, <3>4
  <2> QED
    BY <2>3, <2>4
<1> QED
  BY <1>3, <1>4

-----------------------------------------------------------------------------
(* A thread takes a step *)

\* The steps ss may take the place of the step x, whatever comes after x.
Fits(x, ss) ==
    /\ \A i \in 1 .. (Len(ss) - 1): Follows(ss[i], ss[i + 1])
    /\ Len(ss) > 0 => /\ \A y: Follows(x, y) => Follows(ss[Len(ss)], y)
                      /\ MayEnd(x) => MayEnd(ss[Len(ss)])
    /\ \A z: Has(ss, z) => /\ z[1] \notin {"reset", "finish"}
                           /\ x[1] \in Closing \cup {"reset"} => z[1] \in Closing

Turn(t, x, ss) ==
    /\ At(t, x) /\ Then(t, ss)
    /\ ss \in Seq(CreatedSteps') /\ Fits(x, ss)

StepsInv ==
    /\ todo \in [Threads -> Seq(CreatedSteps)]
    /\ \A t \in Threads: Grammar(todo[t])
    /\ \A z: Has(todo[User], z) => z[1] \in Closing \cup {"reset"}
    /\ \A w \in Workers: \A z: Has(todo[w], z) => z[1] # "reset"

LEMMA LargerSeq == ASSUME NEW S, NEW T, S \subseteq T PROVE Seq(S) \subseteq Seq(T)
<1> SUFFICES ASSUME NEW q \in Seq(S) PROVE q \in Seq(T)
  OBVIOUS
<1>1. Len(q) \in Nat /\ q \in [1 .. Len(q) -> T]
  OBVIOUS
<1> QED
  BY <1>1

LEMMA CreatedGrows ==
    ASSUME CreatedLocals \subseteq CreatedLocals'
    PROVE  /\ Created \subseteq Created' /\ CreatedEvent \subseteq CreatedEvent'
           /\ CreatedTask \subseteq CreatedTask' /\ CreatedSteps \subseteq CreatedSteps'
<1>1. Created \subseteq Created'
  BY DEF Created
<1>2. CreatedEvent \subseteq CreatedEvent'
  BY <1>1 DEF CreatedEvent
<1>3. CreatedTask \subseteq CreatedTask'
  BY <1>1 DEF CreatedTask
<1>4. CreatedSteps \subseteq CreatedSteps'
  BY <1>1, <1>2 DEF CreatedSteps
<1> QED
  BY <1>1, <1>2, <1>3, <1>4

\* What is there after the step.
LEMMA Turned ==
    ASSUME NEW t \in Threads, NEW x, NEW ss, StepsInv, Turn(t, x, ss),
           CreatedLocals \subseteq CreatedLocals'
    PROVE  /\ x \in CreatedSteps /\ t \notin waiting /\ todo[t] # <<>> /\ todo[t][1] = x
           /\ \A u \in Threads: u # t => todo'[u] = todo[u]
           /\ Len(todo'[t]) = Len(ss) + Len(todo[t]) - 1
           /\ \A i \in 1 .. Len(ss): todo'[t][i] = ss[i]
           /\ \A i \in (Len(ss) + 1) .. Len(todo'[t]): todo'[t][i] = todo[t][i - Len(ss) + 1]
           /\ \A z: Has(todo'[t], z) <=> Has(ss, z) \/ Later(todo[t], z)
           /\ \A z: Has(todo[t], z) <=> z = x \/ Later(todo[t], z)
           /\ StepsInv'
<1> DEFINE q == todo[t]
           T == CreatedSteps'
<1>1. CreatedSteps \subseteq T
  BY CreatedGrows
<1>2. \A u \in Threads: todo[u] \in Seq(CreatedSteps) /\ todo[u] \in Seq(T)
  BY <1>1, LargerSeq DEF StepsInv
<1>3. q \in Seq(CreatedSteps) /\ q \in Seq(T) /\ q # <<>> /\ Head(q) = x /\ t \notin waiting /\ Grammar(q)
  BY <1>2 DEF Turn, At, StepsInv
<1> HIDE DEF T
<1>4. /\ x \in CreatedSteps /\ q[1] = x /\ Len(q) \in Nat \ {0}
      /\ \A z: Has(q, z) <=> z = x \/ Later(q, z)
  BY <1>3, HeadOrLater
<1>5. todo' = [todo EXCEPT ![t] = ss \o Tail(q)] /\ ss \in Seq(T) /\ Fits(x, ss)
  BY DEF Turn, Then, T
<1>6. todo'[t] = ss \o Tail(q) /\ \A u \in Threads: u # t => todo'[u] = todo[u]
  BY <1>5 DEF StepsInv
<1>7. Len(q) > 1 => Follows(x, q[2])
  BY <1>3, <1>4 DEF Grammar
<1>8. Len(q) = 1 => MayEnd(x)
  BY <1>3, <1>4 DEF Grammar
<1> HIDE DEF q
<1>9. /\ todo'[t] \in Seq(T) /\ Len(todo'[t]) = Len(ss) + Len(q) - 1
      /\ \A i \in 1 .. Len(ss): todo'[t][i] = ss[i]
      /\ \A i \in (Len(ss) + 1) .. Len(todo'[t]): todo'[t][i] = q[i - Len(ss) + 1]
      /\ \A z: Has(todo'[t], z) <=> Has(ss, z) \/ Later(q, z)
      /\ Grammar(todo'[t])
  <2>1. Len(ss) > 0 /\ Len(q) > 1 => Follows(ss[Len(ss)], q[2])
    BY <1>5, <1>7 DEF Fits
  <2>2. Len(ss) > 0 /\ Len(q) = 1 => MayEnd(ss[Len(ss)])
    BY <1>5, <1>8 DEF Fits
  <2>3. \A i \in 1 .. (Len(ss) - 1): Follows(ss[i], ss[i + 1])
    BY <1>5 DEF Fits
  <2> QED
    BY <1>3, <1>5, <1>6, <2>1, <2>2, <2>3, Spliced
<1>10. todo' \in [Threads -> Seq(T)]
  BY <1>2, <1>5, <1>6, <1>9 DEF StepsInv
<1>11. \A u \in Threads: Grammar(todo'[u])
  BY <1>6, <1>9 DEF StepsInv
<1>12. \A z: Has(todo'[t], z) => Has(todo[t], z) \/ Has(ss, z)
  BY <1>4, <1>9 DEF q
<1>13. Has(todo[t], x)
  BY <1>4 DEF q
<1>14. \A z: Has(todo'[User], z) => z[1] \in Closing \cup {"reset"}
  <2>1. CASE t = User
    BY <1>5, <1>12, <1>13, <2>1 DEF StepsInv, Fits
  <2>2. CASE t # User
    <3>1. User \in Threads
      BY ForwarderAssumption DEF Threads
    <3> QED
      BY <1>6, <2>2, <3>1 DEF StepsInv
  <2> QED
    BY <2>1, <2>2
<1>15. \A w \in Workers: \A z: Has(todo'[w], z) => z[1] # "reset"
  <2> SUFFICES ASSUME NEW w \in Workers, NEW z, Has(todo'[w], z) PROVE z[1] # "reset"
    OBVIOUS
  <2>1. CASE w = t
    BY <1>5, <1>12, <2>1 DEF StepsInv, Fits
  <2>2. CASE w # t
    <3>1. w \in Threads
      BY DEF Threads
    <3> QED
      BY <1>6, <2>2, <3>1 DEF StepsInv
  <2> QED
    BY <2>1, <2>2
<1>16. StepsInv'
  BY <1>10, <1>11, <1>14, <1>15 DEF StepsInv, T
<1> QED
  BY <1>3, <1>4, <1>6, <1>9, <1>16 DEF q

LEMMA FitsNone == ASSUME NEW x PROVE Fits(x, <<>>)
BY DEF Fits, Has

LEMMA FitsOne ==
    ASSUME NEW x, NEW y, \A z: Follows(x, z) => Follows(y, z), MayEnd(x) => MayEnd(y),
           y[1] \notin {"reset", "finish"}, x[1] \in Closing \cup {"reset"} => y[1] \in Closing
    PROVE  Fits(x, <<y>>)
<1>1. Len(<<y>>) = 1 /\ <<y>>[1] = y /\ \A z: Has(<<y>>, z) <=> z = y
  BY Steps1
<1> QED
  BY <1>1 DEF Fits

LEMMA FitsTwo ==
    ASSUME NEW x, NEW y, NEW w, Follows(y, w), \A z: Follows(x, z) => Follows(w, z),
           MayEnd(x) => MayEnd(w),
           y[1] \notin {"reset", "finish"}, w[1] \notin {"reset", "finish"},
           x[1] \notin Closing \cup {"reset"}
    PROVE  Fits(x, <<y, w>>)
<1>1. /\ Len(<<y, w>>) = 2 /\ <<y, w>>[1] = y /\ <<y, w>>[2] = w
      /\ \A z: Has(<<y, w>>, z) <=> z = y \/ z = w
  <2>1. Len(<<y, w>>) = 2 /\ <<y, w>>[1] = y /\ <<y, w>>[2] = w
    OBVIOUS
  <2>2. \A i \in 1 .. 2: i = 1 \/ i = 2
    OBVIOUS
  <2> QED
    BY <2>1, <2>2 DEF Has
<1>2. \A i \in 1 .. (2 - 1): i = 1
  OBVIOUS
<1> QED
  BY <1>1, <1>2 DEF Fits

LEMMA FitsThree ==
    ASSUME NEW x, NEW y, NEW v, NEW w, Follows(y, v), Follows(v, w),
           \A z: Follows(x, z) => Follows(w, z), MayEnd(x) => MayEnd(w),
           y[1] \notin {"reset", "finish"}, v[1] \notin {"reset", "finish"},
           w[1] \notin {"reset", "finish"}, x[1] \notin Closing \cup {"reset"}
    PROVE  Fits(x, <<y, v, w>>)
<1>1. /\ Len(<<y, v, w>>) = 3
      /\ <<y, v, w>>[1] = y /\ <<y, v, w>>[2] = v /\ <<y, v, w>>[3] = w
      /\ \A z: Has(<<y, v, w>>, z) <=> z = y \/ z = v \/ z = w
  <2>1. /\ Len(<<y, v, w>>) = 3
        /\ <<y, v, w>>[1] = y /\ <<y, v, w>>[2] = v /\ <<y, v, w>>[3] = w
    OBVIOUS
  <2>2. \A i \in 1 .. 3: i = 1 \/ i = 2 \/ i = 3
    OBVIOUS
  <2> QED
    BY <2>1, <2>2 DEF Has
<1>2. \A i \in 1 .. (3 - 1): i = 1 \/ i = 2
  OBVIOUS
<1> QED
  BY <1>1, <1>2 DEF Fits

LEMMA TurnNone == ASSUME NEW t, NEW x, At(t, x), Then(t, <<>>) PROVE Turn(t, x, <<>>)
<1>1. <<>> \in Seq(CreatedSteps')
  BY Steps0
<1> QED
  BY <1>1, FitsNone DEF Turn

LEMMA TurnOne ==
    ASSUME NEW t, NEW x, NEW y \in CreatedSteps', At(t, x), Then(t, <<y>>),
           \A z: Follows(x, z) => Follows(y, z), MayEnd(x) => MayEnd(y),
           y[1] \notin {"reset", "finish"}, x[1] \in Closing \cup {"reset"} => y[1] \in Closing
    PROVE  Turn(t, x, <<y>>)
<1>1. <<y>> \in Seq(CreatedSteps')
  BY Steps1
<1> QED
  BY <1>1, FitsOne DEF Turn

LEMMA TurnTwo ==
    ASSUME NEW t, NEW x, NEW y \in CreatedSteps', NEW w \in CreatedSteps', At(t, x),
           Then(t, <<y, w>>), Follows(y, w), \A z: Follows(x, z) => Follows(w, z),
           MayEnd(x) => MayEnd(w), y[1] \notin {"reset", "finish"}, w[1] \notin {"reset", "finish"},
           x[1] \notin Closing \cup {"reset"}
    PROVE  Turn(t, x, <<y, w>>)
<1>1. <<y, w>> \in Seq(CreatedSteps')
  BY Steps2
<1> QED
  BY <1>1, FitsTwo DEF Turn

\* The steps that name no socket, or one that exists.
LEMMA StepsThereAre ==
    /\ \A c \in Channels, frame \in {"DATA", "CONFIRM", "FAULT", "CLOSE", "ERROR"}:
         <<"send", c, frame>> \in CreatedSteps'
    /\ \A c \in Channels: /\ <<"open", c>> \in CreatedSteps' /\ <<"connect", c>> \in CreatedSteps'
                          /\ <<"removeChannel", c>> \in CreatedSteps'
                          /\ <<"erase", c>> \in CreatedSteps' /\ <<"forward", c>> \in CreatedSteps'
    /\ \A c \in Channels, s \in CreatedLocals': /\ <<"map", c, s>> \in CreatedSteps'
                                               /\ <<"write", c, s>> \in CreatedSteps'
    /\ \A cs \in SUBSET Channels: <<"removeSockets", cs>> \in CreatedSteps'
    /\ <<"closeWebSocket">> \in CreatedSteps' /\ <<"closeImpl">> \in CreatedSteps'
    /\ <<"unlock">> \in CreatedSteps' /\ <<"ping">> \in CreatedSteps'
    /\ <<"reset">> \in CreatedSteps'
    /\ \A s \in Created': /\ <<"readable", s>> \in CreatedSteps' /\ <<"exception", s>> \in CreatedSteps'
                         /\ <<"timeout", s>> \in CreatedSteps'
                         /\ <<"finish", "readable", s>> \in CreatedSteps'
                         /\ <<"finish", "timeout", s>> \in CreatedSteps'
BY DEF CreatedSteps, CreatedEvent

LEMMA SocketsOfSteps ==
    ASSUME NEW x \in CreatedSteps
    PROVE  /\ x[1] \in {"readable", "exception", "timeout"} => x[2] \in Created
           /\ x[1] = "finish" => x[3] \in Created
           /\ x[1] \in {"map", "write"} => x[2] \in Channels /\ x[3] \in CreatedLocals
BY DEF CreatedSteps, CreatedEvent

Frames == {"DATA", "CONFIRM", "FAULT", "CLOSE", "ERROR"}

\* What each step of a handler is replaced by.
LEMMA Turns ==
    ASSUME NEW t
    PROVE  /\ \A x: At(t, x) /\ Then(t, <<>>) => Turn(t, x, <<>>)
           /\ \A x: /\ \/ x \in {<<"ping">>, <<"timeout", WebSocket>>, <<"exception", WebSocket>>,
                                 <<"readable", WebSocket>>}
                       \/ x \in {"send"} \X Channels \X Frames
                    /\ At(t, x) /\ Then(t, << <<"closeWebSocket">> >>)
                    => Turn(t, x, << <<"closeWebSocket">> >>)
           /\ At(t, <<"timeout", WebSocket>>) /\ Then(t, << <<"ping">> >>)
                => Turn(t, <<"timeout", WebSocket>>, << <<"ping">> >>)
           /\ At(t, <<"closeWebSocket">>) /\ Then(t, << <<"removeSockets", Channels>> >>)
                => Turn(t, <<"closeWebSocket">>, << <<"removeSockets", Channels>> >>)
           /\ \A cs, ds \in SUBSET Channels:
                At(t, <<"removeSockets", cs>>) /\ Then(t, << <<"removeSockets", ds>> >>)
                => Turn(t, <<"removeSockets", cs>>, << <<"removeSockets", ds>> >>)
           /\ \A cs \in SUBSET Channels:
                At(t, <<"removeSockets", cs>>) /\ Then(t, << <<"closeImpl">> >>)
                => Turn(t, <<"removeSockets", cs>>, << <<"closeImpl">> >>)
<1>1. ASSUME NEW x, \/ x \in {<<"ping">>, <<"timeout", WebSocket>>, <<"exception", WebSocket>>,
                              <<"readable", WebSocket>>}
                    \/ x \in {"send"} \X Channels \X Frames,
             At(t, x), Then(t, << <<"closeWebSocket">> >>)
      PROVE  Turn(t, x, << <<"closeWebSocket">> >>)
  <2> DEFINE y == <<"closeWebSocket">>
  <2>1. x[1] \in {"ping", "timeout", "exception", "readable", "send"}
    BY <1>1
  <2>2. \A z: Follows(x, z) => Follows(y, z)
    BY <2>1 DEF Follows, Closing, Confirms, FinishWeb
  <2>3. MayEnd(y)
    BY DEF MayEnd, Confirms
  <2>4. y \in CreatedSteps' /\ y[1] = "closeWebSocket" /\ y[1] \in Closing
    BY StepsThereAre DEF Closing
  <2> HIDE DEF y
  <2> QED
    BY <1>1, <2>2, <2>3, <2>4, TurnOne DEF y
<1>2. ASSUME At(t, <<"timeout", WebSocket>>), Then(t, << <<"ping">> >>)
      PROVE  Turn(t, <<"timeout", WebSocket>>, << <<"ping">> >>)
  <2> DEFINE x == <<"timeout", WebSocket>>
             y == <<"ping">>
  <2>1. \A z: Follows(x, z) => Follows(y, z)
    BY DEF Follows, Closing, Confirms, FinishWeb
  <2>2. MayEnd(y)
    BY DEF MayEnd, Confirms
  <2>3. y \in CreatedSteps' /\ y[1] = "ping" /\ x[1] \notin Closing \cup {"reset"}
    BY StepsThereAre DEF Closing
  <2> HIDE DEF x, y
  <2> QED
    BY <1>2, <2>1, <2>2, <2>3, TurnOne DEF x, y
<1>3. ASSUME NEW x, NEW y \in CreatedSteps', x[1] \in {"closeWebSocket", "removeSockets"},
             y[1] \in {"removeSockets", "closeImpl"}, At(t, x), Then(t, <<y>>)
      PROVE  Turn(t, x, <<y>>)
  <2>1. \A z: Follows(x, z) => Follows(y, z)
    BY <1>3 DEF Follows, Closing, Confirms, FinishWeb
  <2>2. MayEnd(y)
    BY <1>3 DEF MayEnd, Confirms
  <2>3. y[1] \notin {"reset", "finish"} /\ y[1] \in Closing
    BY <1>3 DEF Closing
  <2> QED
    BY <1>3, <2>1, <2>2, <2>3, TurnOne
<1>4. At(t, <<"closeWebSocket">>) /\ Then(t, << <<"removeSockets", Channels>> >>)
        => Turn(t, <<"closeWebSocket">>, << <<"removeSockets", Channels>> >>)
  <2> DEFINE x == <<"closeWebSocket">>
             y == <<"removeSockets", Channels>>
  <2>1. y \in CreatedSteps' /\ x[1] = "closeWebSocket" /\ y[1] = "removeSockets"
    BY StepsThereAre
  <2> HIDE DEF x, y
  <2> QED
    BY <1>3, <2>1 DEF x, y
<1>5. ASSUME NEW cs \in SUBSET Channels, NEW ds \in SUBSET Channels
      PROVE  At(t, <<"removeSockets", cs>>) /\ Then(t, << <<"removeSockets", ds>> >>)
                => Turn(t, <<"removeSockets", cs>>, << <<"removeSockets", ds>> >>)
  <2> DEFINE x == <<"removeSockets", cs>>
             y == <<"removeSockets", ds>>
  <2>1. y \in CreatedSteps' /\ x[1] = "removeSockets" /\ y[1] = "removeSockets"
    BY StepsThereAre
  <2> HIDE DEF x, y
  <2> QED
    BY <1>3, <2>1 DEF x, y
<1>6. ASSUME NEW cs \in SUBSET Channels
      PROVE  At(t, <<"removeSockets", cs>>) /\ Then(t, << <<"closeImpl">> >>)
                => Turn(t, <<"removeSockets", cs>>, << <<"closeImpl">> >>)
  <2> DEFINE x == <<"removeSockets", cs>>
             y == <<"closeImpl">>
  <2>1. y \in CreatedSteps' /\ x[1] = "removeSockets" /\ y[1] = "closeImpl"
    BY StepsThereAre
  <2> HIDE DEF x, y
  <2> QED
    BY <1>3, <2>1 DEF x, y
<1> QED
  BY <1>1, <1>2, <1>4, <1>5, <1>6, TurnNone

LEMMA ChannelTurns ==
    ASSUME NEW t, NEW c \in Channels
    PROVE  /\ \A x \in {<<"open", c>>, <<"connect", c>>, <<"readable", WebSocket>>}:
                At(t, x) /\ Then(t, << <<"send", c, "FAULT">> >>)
                => Turn(t, x, << <<"send", c, "FAULT">> >>)
           /\ At(t, <<"open", c>>) /\ Then(t, << <<"connect", c>> >>)
                => Turn(t, <<"open", c>>, << <<"connect", c>> >>)
           /\ At(t, <<"removeChannel", c>>) /\ Then(t, << <<"erase", c>> >>)
                => Turn(t, <<"removeChannel", c>>, << <<"erase", c>> >>)
           /\ \A x \in {<<"forward", c>>, <<"readable", WebSocket>>}:
                At(t, x) /\ Then(t, << <<"send", c, "ERROR">> >>)
                => Turn(t, x, << <<"send", c, "ERROR">> >>)
           /\ \A s \in CreatedLocals': At(t, <<"forward", c>>) /\ Then(t, << <<"write", c, s>> >>)
                => Turn(t, <<"forward", c>>, << <<"write", c, s>> >>)
           /\ \A y \in {<<"forward", c>>, <<"open", c>>, <<"removeChannel", c>>}:
                At(t, <<"readable", WebSocket>>) /\ Then(t, <<y>>)
                => Turn(t, <<"readable", WebSocket>>, <<y>>)
           /\ \A s \in Locals: At(t, <<"readable", s>>) /\ Then(t, << <<"send", c, "DATA">> >>)
                => Turn(t, <<"readable", s>>, << <<"send", c, "DATA">> >>)
<1> DEFINE web == <<"readable", WebSocket>>
<1>1. ASSUME NEW x, NEW y \in CreatedSteps', x[1] \notin Closing \cup {"reset"},
             y[1] \notin {"reset", "finish"}, \A z: Follows(x, z) => Follows(y, z),
             MayEnd(x) => MayEnd(y), At(t, x), Then(t, <<y>>)
      PROVE  Turn(t, x, <<y>>)
  BY <1>1, TurnOne
<1>2. ASSUME NEW frame \in {"DATA", "FAULT", "ERROR"},
             NEW x, x[1] \in {"open", "connect", "readable", "forward"},
             At(t, x), Then(t, << <<"send", c, frame>> >>)
      PROVE  Turn(t, x, << <<"send", c, frame>> >>)
  <2> DEFINE y == <<"send", c, frame>>
  <2>1. \A z: Follows(x, z) => Follows(y, z)
    BY <1>2 DEF Follows, Closing, Confirms, FinishWeb
  <2>2. MayEnd(y)
    BY <1>2 DEF MayEnd, Confirms
  <2>3. y \in CreatedSteps' /\ y[1] = "send" /\ x[1] \notin Closing \cup {"reset"}
    BY <1>2, StepsThereAre DEF Closing
  <2> HIDE DEF y
  <2> QED
    BY <1>1, <1>2, <2>1, <2>2, <2>3 DEF y
<1>3. ASSUME NEW x, NEW y \in CreatedSteps', x = <<"open", c>> /\ y = <<"connect", c>>,
             At(t, x), Then(t, <<y>>)
      PROVE  Turn(t, x, <<y>>)
  <2>1. \A z: Follows(x, z) => Follows(y, z)
    BY <1>3 DEF Follows, Closing, Confirms, FinishWeb
  <2>2. ~MayEnd(x) /\ x[1] \notin Closing \cup {"reset"} /\ y[1] \notin {"reset", "finish"}
    BY <1>3 DEF MayEnd, Confirms, Closing
  <2> QED
    BY <1>1, <1>3, <2>1, <2>2
<1>4. ASSUME NEW x, NEW y \in CreatedSteps', x = <<"removeChannel", c>> /\ y = <<"erase", c>>,
             At(t, x), Then(t, <<y>>)
      PROVE  Turn(t, x, <<y>>)
  <2>1. \A z: Follows(x, z) => Follows(y, z)
    BY <1>4 DEF Follows, Closing, Confirms, FinishWeb
  <2>2. ~MayEnd(x) /\ x[1] \notin Closing \cup {"reset"} /\ y[1] \notin {"reset", "finish"}
    BY <1>4 DEF MayEnd, Confirms, Closing
  <2> QED
    BY <1>1, <1>4, <2>1, <2>2
<1>5. ASSUME NEW s \in CreatedLocals', NEW x, NEW y \in CreatedSteps',
             x = <<"forward", c>> /\ y = <<"write", c, s>>, At(t, x), Then(t, <<y>>)
      PROVE  Turn(t, x, <<y>>)
  <2>1. \A z: Follows(x, z) => Follows(y, z)
    BY <1>5 DEF Follows, Closing, Confirms, FinishWeb
  <2>2. MayEnd(y) /\ x[1] \notin Closing \cup {"reset"} /\ y[1] \notin {"reset", "finish"}
    BY <1>5 DEF MayEnd, Confirms, Closing
  <2> QED
    BY <1>1, <1>5, <2>1, <2>2
<1>6. ASSUME NEW y \in {<<"forward", c>>, <<"open", c>>, <<"removeChannel", c>>},
             At(t, web), Then(t, <<y>>)
      PROVE  Turn(t, web, <<y>>)
  <2>1. \A z: Follows(web, z) => Follows(y, z)
    BY <1>6 DEF Follows, Closing, Confirms, FinishWeb
  <2>2. ~MayEnd(web) /\ web[1] \notin Closing \cup {"reset"} /\ y[1] \notin {"reset", "finish"}
    BY <1>6 DEF MayEnd, Confirms, Closing
  <2>3. y \in CreatedSteps'
    BY <1>6, StepsThereAre
  <2> HIDE DEF web
  <2> QED
    BY <1>1, <1>6, <2>1, <2>2, <2>3
<1>7. /\ <<"connect", c>> \in CreatedSteps' /\ <<"erase", c>> \in CreatedSteps'
      /\ \A s \in CreatedLocals': <<"write", c, s>> \in CreatedSteps'
  BY StepsThereAre
<1>8. \A x \in {<<"open", c>>, <<"connect", c>>, <<"readable", WebSocket>>}:
        At(t, x) /\ Then(t, << <<"send", c, "FAULT">> >>) => Turn(t, x, << <<"send", c, "FAULT">> >>)
  <2> TAKE x \in {<<"open", c>>, <<"connect", c>>, <<"readable", WebSocket>>}
  <2>1. x[1] \in {"open", "connect", "readable", "forward"}
    OBVIOUS
  <2> QED
    BY <1>2, <2>1
<1>9. \A x \in {<<"forward", c>>, <<"readable", WebSocket>>}:
        At(t, x) /\ Then(t, << <<"send", c, "ERROR">> >>) => Turn(t, x, << <<"send", c, "ERROR">> >>)
  <2> TAKE x \in {<<"forward", c>>, <<"readable", WebSocket>>}
  <2>1. x[1] \in {"open", "connect", "readable", "forward"}
    OBVIOUS
  <2> QED
    BY <1>2, <2>1
<1>10. \A s \in Locals: At(t, <<"readable", s>>) /\ Then(t, << <<"send", c, "DATA">> >>)
         => Turn(t, <<"readable", s>>, << <<"send", c, "DATA">> >>)
  <2> TAKE s \in Locals
  <2> DEFINE x == <<"readable", s>>
  <2>1. x[1] \in {"open", "connect", "readable", "forward"}
    OBVIOUS
  <2> HIDE DEF x
  <2> QED
    BY <1>2, <2>1 DEF x
<1> QED
  BY <1>3, <1>4, <1>5, <1>6, <1>7, <1>8, <1>9, <1>10

LEMMA EndTurns ==
    ASSUME NEW t, NEW c \in Channels
    PROVE  /\ \A s \in CreatedLocals':
                /\ At(t, <<"connect", c>>)
                /\ Then(t, << <<"map", c, s>>, <<"send", c, "CONFIRM">>, <<"unlock">> >>)
                => Turn(t, <<"connect", c>>,
                        << <<"map", c, s>>, <<"send", c, "CONFIRM">>, <<"unlock">> >>)
           /\ \A x: \A frame \in {"CLOSE", "ERROR"}, s \in Locals:
                /\ x \in {<<"write", c, s>>, <<"readable", s>>, <<"exception", s>>, <<"timeout", s>>}
                /\ At(t, x) /\ Then(t, << <<"removeChannel", c>>, <<"send", c, frame>> >>)
                => Turn(t, x, << <<"removeChannel", c>>, <<"send", c, frame>> >>)
<1>1. ASSUME NEW s \in CreatedLocals', At(t, <<"connect", c>>),
             Then(t, << <<"map", c, s>>, <<"send", c, "CONFIRM">>, <<"unlock">> >>)
      PROVE  Turn(t, <<"connect", c>>,
                  << <<"map", c, s>>, <<"send", c, "CONFIRM">>, <<"unlock">> >>)
  <2> DEFINE x == <<"connect", c>>
             y == <<"map", c, s>>
             v == <<"send", c, "CONFIRM">>
             w == <<"unlock">>
  <2>1. Follows(y, v) /\ Follows(v, w)
    BY DEF Follows, Confirms, Closing, FinishWeb
  <2>2. \A z: Follows(x, z) => Follows(w, z)
    BY DEF Follows, Confirms, Closing, FinishWeb
  <2>3. ~MayEnd(x) /\ x[1] \notin Closing \cup {"reset"}
    BY DEF MayEnd, Closing
  <2>4. y[1] = "map" /\ v[1] = "send" /\ w[1] = "unlock"
    OBVIOUS
  <2>5. y \in CreatedSteps' /\ v \in CreatedSteps' /\ w \in CreatedSteps'
    BY StepsThereAre
  <2> HIDE DEF x, y, v, w
  <2>6. Fits(x, <<y, v, w>>)
    BY <2>1, <2>2, <2>3, <2>4, FitsThree
  <2>7. <<y, v, w>> \in Seq(CreatedSteps')
    BY <2>5, Steps3
  <2> QED
    BY <1>1, <2>6, <2>7 DEF Turn, x, y, v, w
<1>2. ASSUME NEW x, NEW frame \in {"CLOSE", "ERROR"}, NEW s \in Locals,
             x \in {<<"write", c, s>>, <<"readable", s>>, <<"exception", s>>, <<"timeout", s>>},
             At(t, x), Then(t, << <<"removeChannel", c>>, <<"send", c, frame>> >>)
      PROVE  Turn(t, x, << <<"removeChannel", c>>, <<"send", c, frame>> >>)
  <2> DEFINE y == <<"removeChannel", c>>
             w == <<"send", c, frame>>
  <2>1. Follows(y, w)
    BY DEF Follows, Confirms, Closing, FinishWeb
  <2>2. \A z: Follows(x, z) => Follows(w, z)
    BY <1>2 DEF Follows, Confirms, Closing, FinishWeb
  <2>3. MayEnd(w) /\ x[1] \notin Closing \cup {"reset"}
    BY <1>2 DEF MayEnd, Confirms, Closing
  <2>4. y[1] = "removeChannel" /\ w[1] = "send"
    OBVIOUS
  <2>5. y \in CreatedSteps' /\ w \in CreatedSteps'
    BY StepsThereAre
  <2> HIDE DEF y, w
  <2> QED
    BY <1>2, <2>1, <2>2, <2>3, <2>4, <2>5, TurnTwo DEF y, w
<1> QED
  BY <1>1, <1>2

-----------------------------------------------------------------------------
(* The types of the variables, with the sockets that exist *)

\* A task's thread waits, and has queued no other.
TasksInv ==
    /\ mainQueue \in Seq(CreatedTask) /\ workerQueue \in Seq(CreatedEvent)
    /\ waiting = {mainQueue[i].by: i \in DOMAIN mainQueue}
    /\ \A i, j \in DOMAIN mainQueue: mainQueue[i].by = mainQueue[j].by => i = j

ValuesInv ==
    /\ registered \subseteq Created /\ shut \subseteq Created /\ closed \subseteq Created
    /\ wantRead \in [Sockets -> BOOLEAN]
    /\ mutex \in Threads \cup {Nobody} /\ webSocketMutex \in Threads \cup {Nobody}
    /\ channelMap \in [Channels -> CreatedLocals \cup {NoSocket}]
    /\ channelOf \in [Locals -> Channels \cup {Nobody}]
    /\ timeoutCount \in {0, 1} /\ fired \in Nat /\ stopping \in BOOLEAN
    /\ peer \in {"up", "silent", "down"}
    /\ peerView \in [Channels -> {"closed", "opening", "open"}]

\* The user does nothing before it stops the forwarder.
UserInv == ~stopping => todo[User] = <<>> /\ User \notin waiting

BaseInv == StepsInv /\ TasksInv /\ ValuesInv /\ UserInv

LEMMA Asked ==
    ASSUME NEW t \in Threads, NEW do \in {"add", "remove", "close", "reset"},
           NEW s \in Created' \cup {NoSocket}, do \in {"add", "close"} => s \in CreatedLocals',
           TasksInv, t \notin waiting, Ask(t, do, s),
           CreatedLocals \subseteq CreatedLocals', UNCHANGED workerQueue
    PROVE  /\ Len(mainQueue) \in Nat /\ DOMAIN mainQueue = 1 .. Len(mainQueue)
           /\ DOMAIN mainQueue' = 1 .. (Len(mainQueue) + 1)
           /\ \A i \in DOMAIN mainQueue: mainQueue'[i] = mainQueue[i]
           /\ mainQueue'[Len(mainQueue) + 1] = [do |-> do, socket |-> s, by |-> t]
           /\ TasksInv'
<1> DEFINE k == [do |-> do, socket |-> s, by |-> t]
           n == Len(mainQueue)
<1>1. CreatedTask \subseteq CreatedTask' /\ CreatedEvent \subseteq CreatedEvent'
  BY CreatedGrows
<1>2. k \in CreatedTask'
  BY DEF CreatedTask
<1>3. mainQueue \in Seq(CreatedTask') /\ workerQueue \in Seq(CreatedEvent')
  BY <1>1, LargerSeq DEF TasksInv
<1>4. mainQueue' = Append(mainQueue, k)
  BY DEF Ask
<1>5. k.by = t
  OBVIOUS
<1> HIDE DEF k
<1>6. mainQueue' \in Seq(CreatedTask')
  BY <1>2, <1>3, <1>4
<1>7. n \in Nat /\ DOMAIN mainQueue = 1 .. n /\ DOMAIN mainQueue' = 1 .. (n + 1)
  BY <1>2, <1>3, <1>4
<1>8. (\A i \in DOMAIN mainQueue: mainQueue'[i] = mainQueue[i]) /\ mainQueue'[n + 1] = k
  BY <1>2, <1>3, <1>4
<1> HIDE DEF n
<1>9. \A i \in DOMAIN mainQueue': i \in DOMAIN mainQueue \/ i = n + 1
  BY <1>7
<1>10. n + 1 \in DOMAIN mainQueue' /\ \A i \in DOMAIN mainQueue: i \in DOMAIN mainQueue'
  BY <1>7
<1>11. waiting' = {mainQueue'[i].by: i \in DOMAIN mainQueue'}
  <2>1. waiting' = waiting \cup {t} /\ waiting = {mainQueue[i].by: i \in DOMAIN mainQueue}
    BY DEF Ask, TasksInv
  <2> QED
    BY <1>5, <1>8, <1>9, <1>10, <2>1
<1>12. \A i \in DOMAIN mainQueue: mainQueue[i].by # t
  BY DEF TasksInv
<1>13. \A i, j \in DOMAIN mainQueue': mainQueue'[i].by = mainQueue'[j].by => i = j
  BY <1>5, <1>8, <1>9, <1>12 DEF TasksInv
<1> QED
  BY <1>3, <1>6, <1>7, <1>8, <1>11, <1>13 DEF TasksInv, n, k

LEMMA TurnKeeps ==
    ASSUME NEW t \in Threads, NEW x, NEW ss, BaseInv, Turn(t, x, ss),
           CreatedLocals \subseteq CreatedLocals', UNCHANGED <<workerQueue, stopping>>,
           \/ UNCHANGED <<mainQueue, waiting>>
           \/ \E do \in {"add", "remove", "close", "reset"}, s \in Created' \cup {NoSocket}:
                Ask(t, do, s) /\ (do \in {"add", "close"} => s \in CreatedLocals'),
           ValuesInv'
    PROVE  BaseInv'
<1>1. StepsInv' /\ todo[t] # <<>> /\ t \notin waiting /\ \A u \in Threads: u # t => todo'[u] = todo[u]
  BY Turned DEF BaseInv
<1>2. TasksInv' /\ waiting' \subseteq waiting \cup {t}
  <2>1. CASE UNCHANGED <<mainQueue, waiting>>
    <3>1. CreatedTask \subseteq CreatedTask' /\ CreatedEvent \subseteq CreatedEvent'
      BY CreatedGrows
    <3>2. mainQueue \in Seq(CreatedTask') /\ workerQueue \in Seq(CreatedEvent')
      BY <3>1, LargerSeq DEF TasksInv, BaseInv
    <3> QED
      BY <2>1, <3>2 DEF TasksInv, BaseInv
  <2>2. ASSUME NEW do \in {"add", "remove", "close", "reset"}, NEW s \in Created' \cup {NoSocket},
               Ask(t, do, s), do \in {"add", "close"} => s \in CreatedLocals'
        PROVE  TasksInv' /\ waiting' \subseteq waiting \cup {t}
    BY <1>1, <2>2, Asked DEF BaseInv, Ask
  <2> QED
    BY <2>1, <2>2
<1>3. UserInv'
  <2>1. User \in Threads
    BY ForwarderAssumption DEF Threads
  <2> QED
    BY <1>1, <1>2, <2>1 DEF UserInv, BaseInv
<1> QED
  BY <1>1, <1>2, <1>3 DEF BaseInv

Turning(t) == \E x, ss: Turn(t, x, ss)

LEMMA SameCreated ==
    ASSUME UNCHANGED channelOf
    PROVE  CreatedLocals' = CreatedLocals /\ Created' = Created
BY DEF Created, CreatedLocals

\* A step by which no socket comes into being.
LEMMA OrdinaryKeeps ==
    ASSUME NEW t \in Threads, BaseInv, Turning(t),
           UNCHANGED <<registered, wantRead, shut, workerQueue, channelOf, stopping, peer>>,
           \/ UNCHANGED <<mainQueue, waiting>>
           \/ \E do \in {"remove", "close", "reset"}, s \in Created \cup {NoSocket}:
                Ask(t, do, s) /\ (do = "close" => s \in CreatedLocals),
           closed' \subseteq Created, fired' \in Nat,
           mutex' \in Threads \cup {Nobody}, webSocketMutex' \in Threads \cup {Nobody},
           channelMap' \in [Channels -> CreatedLocals \cup {NoSocket}],
           timeoutCount' \in {0, 1}, peerView' \in [Channels -> {"closed", "opening", "open"}]
    PROVE  BaseInv' /\ Turning(t)
<1>1. CreatedLocals' = CreatedLocals /\ Created' = Created
  BY SameCreated
<1>2. ValuesInv'
  BY <1>1 DEF ValuesInv, BaseInv
<1>3. PICK x, ss: Turn(t, x, ss)
  BY DEF Turning
<1> QED
  BY <1>1, <1>2, <1>3, TurnKeeps DEF Turning

LEMMA SendFrameBase ==
    ASSUME NEW t \in Threads, BaseInv, SendFrame(t)
    PROVE  BaseInv' /\ Turning(t)
<1>1. PICK c \in Channels, frame \in Frames:
        /\ At(t, <<"send", c, frame>>)
        /\ Then(t, <<>>) \/ Then(t, << <<"closeWebSocket">> >>)
        /\ peerView' = Heard(c, frame) \/ UNCHANGED peerView
  BY DEF SendFrame, Frames
<1>2. Turning(t)
  BY <1>1, Turns DEF Turning
<1>3. peerView' \in [Channels -> {"closed", "opening", "open"}]
  BY <1>1 DEF Heard, BaseInv, ValuesInv
<1> QED
  BY <1>2, <1>3, OrdinaryKeeps DEF SendFrame, Local, channelVars, webVars, BaseInv, ValuesInv

LEMMA SendPingBase ==
    ASSUME NEW t \in Threads, BaseInv, SendPing(t)
    PROVE  BaseInv' /\ Turning(t)
<1>1. At(t, <<"ping">>) /\ (Then(t, <<>>) \/ Then(t, << <<"closeWebSocket">> >>))
  BY DEF SendPing
<1>2. Turning(t)
  BY <1>1, Turns DEF Turning
<1> QED
  BY <1>2, OrdinaryKeeps DEF SendPing, Local, channelVars, webVars, peerVars, BaseInv, ValuesInv

LEMMA CloseWebSocketBase ==
    ASSUME NEW t \in Threads, BaseInv, CloseWebSocket(t)
    PROVE  BaseInv' /\ Turning(t)
<1>1. /\ At(t, <<"closeWebSocket">>)
      /\ Then(t, <<>>) \/ Then(t, << <<"removeSockets", Channels>> >>)
  BY DEF CloseWebSocket
<1>2. Turning(t)
  BY <1>1, Turns DEF Turning
<1>3. UNCHANGED <<mainQueue, waiting>> \/ Ask(t, "remove", WebSocket)
  BY DEF CloseWebSocket
<1>4. WebSocket \in Created \cup {NoSocket}
  BY DEF Created
<1> QED
  BY <1>2, <1>3, <1>4, OrdinaryKeeps
  DEF CloseWebSocket, Asking, channelVars, peerVars, BaseInv, ValuesInv

LEMMA RemoveSocketsBase ==
    ASSUME NEW t \in Threads, BaseInv, RemoveSockets(t)
    PROVE  BaseInv' /\ Turning(t)
<1>1. PICK cs \in SUBSET Channels:
        /\ At(t, <<"removeSockets", cs>>)
        /\ \/ Then(t, << <<"closeImpl">> >>) /\ UNCHANGED <<mainQueue, waiting>>
           \/ \E c \in cs \cap Opened: /\ Ask(t, "remove", channelMap[c])
                                       /\ Then(t, << <<"removeSockets", cs \ {c}>> >>)
  BY DEF RemoveSockets
<1>2. Turning(t)
  <2> DEFINE x == <<"removeSockets", cs>>
  <2>1. CASE Then(t, << <<"closeImpl">> >>)
    <3>1. Turn(t, x, << <<"closeImpl">> >>)
      BY <1>1, <2>1, Turns
    <3> QED
      BY <3>1 DEF Turning
  <2>2. ASSUME NEW c, Then(t, << <<"removeSockets", cs \ {c}>> >>)
        PROVE  \E ss: Turn(t, x, ss)
    <3>1. cs \ {c} \in SUBSET Channels
      OBVIOUS
    <3>2. Turn(t, x, << <<"removeSockets", cs \ {c}>> >>)
      BY <1>1, <2>2, <3>1, Turns
    <3> QED
      BY <3>2
  <2> HIDE DEF x
  <2> QED
    BY <1>1, <2>1, <2>2 DEF Turning
<1>3. \/ UNCHANGED <<mainQueue, waiting>>
      \/ \E c \in Opened: Ask(t, "remove", channelMap[c])
  BY <1>1
<1>4. \A c \in Opened: channelMap[c] \in Created \cup {NoSocket}
  BY DEF Opened, Created, BaseInv, ValuesInv
<1>5. UNCHANGED <<registered, wantRead, shut, closed, workerQueue, channelVars, peerVars, webVars>>
  BY DEF RemoveSockets, Asking
<1> QED
  BY <1>2, <1>3, <1>4, <1>5, OrdinaryKeeps
     DEF channelVars, peerVars, webVars, BaseInv, ValuesInv

LEMMA CloseImplBase ==
    ASSUME NEW t \in Threads, BaseInv, CloseImpl(t)
    PROVE  BaseInv' /\ Turning(t)
<1>1. At(t, <<"closeImpl">>) /\ Then(t, <<>>)
  BY DEF CloseImpl
<1>2. Turning(t)
  BY <1>1, Turns DEF Turning
<1>3. closed' \subseteq Created
  BY DEF CloseImpl, Created, BaseInv, ValuesInv
<1> QED
  BY <1>2, <1>3, OrdinaryKeeps DEF CloseImpl, peerVars, BaseInv, ValuesInv

LEMMA OpenChannelBase ==
    ASSUME NEW t \in Threads, BaseInv, OpenChannel(t)
    PROVE  BaseInv' /\ Turning(t)
<1>1. PICK c \in Channels:
        /\ At(t, <<"open", c>>)
        /\ Then(t, << <<"send", c, "FAULT">> >>) \/ Then(t, << <<"connect", c>> >>)
  BY DEF OpenChannel
<1>2. Turning(t)
  BY <1>1, ChannelTurns DEF Turning
<1>3. mutex' \in Threads \cup {Nobody}
  BY DEF OpenChannel, BaseInv, ValuesInv
<1> QED
  BY <1>2, <1>3, OrdinaryKeeps DEF OpenChannel, Local, webVars, peerVars, BaseInv, ValuesInv

LEMMA MapChannelBase ==
    ASSUME NEW t \in Threads, BaseInv, MapChannel(t)
    PROVE  BaseInv' /\ Turning(t)
<1>1. PICK c \in Channels, s \in Locals: /\ At(t, <<"map", c, s>>) /\ Then(t, <<>>)
                                         /\ channelMap' = [channelMap EXCEPT ![c] = s]
  BY DEF MapChannel
<1>2. PICK x, ss: Turn(t, x, ss) /\ x = <<"map", c, s>>
  BY <1>1, Turns
<1>3. UNCHANGED channelOf
  BY DEF MapChannel
<1>4. s \in CreatedLocals
  <2>1. x \in CreatedSteps
    BY <1>2, <1>3, SameCreated, Turned DEF BaseInv
  <2>2. x[1] = "map" /\ x[3] = s
    BY <1>2
  <2> QED
    BY <2>1, <2>2, SocketsOfSteps
<1>5. channelMap' \in [Channels -> CreatedLocals \cup {NoSocket}]
  BY <1>1, <1>4 DEF BaseInv, ValuesInv
<1>6. Turning(t)
  BY <1>2 DEF Turning
<1> QED
  BY <1>5, <1>6, OrdinaryKeeps DEF MapChannel, Local, webVars, peerVars, BaseInv, ValuesInv

LEMMA RemoveChannelBase ==
    ASSUME NEW t \in Threads, BaseInv, RemoveChannel(t)
    PROVE  BaseInv' /\ Turning(t)
<1>1. PICK c \in Channels:
        /\ At(t, <<"removeChannel", c>>)
        /\ \/ Then(t, <<>>) /\ UNCHANGED <<mutex, mainQueue, waiting>>
           \/ /\ Then(t, << <<"erase", c>> >>) /\ mutex' = t
              /\ Ask(t, "close", channelMap[c]) /\ channelMap[c] \in CreatedLocals
  BY DEF RemoveChannel, BaseInv, ValuesInv
<1>2. Turning(t)
  BY <1>1, Turns, ChannelTurns DEF Turning
<1>3. channelMap[c] \in CreatedLocals => channelMap[c] \in Created \cup {NoSocket}
  BY DEF Created
<1>4. \/ UNCHANGED <<mainQueue, waiting>>
      \/ Ask(t, "close", channelMap[c]) /\ channelMap[c] \in CreatedLocals
  BY <1>1
<1>5. mutex' \in Threads \cup {Nobody}
  BY <1>1 DEF BaseInv, ValuesInv
<1> QED
  BY <1>2, <1>3, <1>4, <1>5, OrdinaryKeeps
  DEF RemoveChannel, Asking, webVars, peerVars, BaseInv, ValuesInv

LEMMA EraseBase == ASSUME NEW t \in Threads, BaseInv, Erase(t) PROVE BaseInv' /\ Turning(t)
<1>1. PICK c \in Channels: /\ At(t, <<"erase", c>>) /\ Then(t, <<>>)
                           /\ channelMap' = [channelMap EXCEPT ![c] = NoSocket]
  BY DEF Erase
<1>2. Turning(t)
  BY <1>1, Turns DEF Turning
<1>3. channelMap' \in [Channels -> CreatedLocals \cup {NoSocket}]
  BY <1>1 DEF BaseInv, ValuesInv
<1> QED
  BY <1>2, <1>3, OrdinaryKeeps DEF Erase, Local, webVars, peerVars, BaseInv, ValuesInv

LEMMA UnlockBase == ASSUME NEW t \in Threads, BaseInv, Unlock(t) PROVE BaseInv' /\ Turning(t)
<1>1. At(t, <<"unlock">>) /\ Then(t, <<>>)
  BY DEF Unlock
<1>2. Turning(t)
  BY <1>1, Turns DEF Turning
<1> QED
  BY <1>2, OrdinaryKeeps DEF Unlock, Local, webVars, peerVars, BaseInv, ValuesInv

LEMMA ForwardDataBase ==
    ASSUME NEW t \in Threads, BaseInv, ForwardData(t)
    PROVE  BaseInv' /\ Turning(t)
<1>1. PICK c \in Channels:
        /\ At(t, <<"forward", c>>)
        /\ \/ Then(t, << <<"send", c, "ERROR">> >>)
           \/ channelMap[c] # NoSocket /\ Then(t, << <<"write", c, channelMap[c]>> >>)
  BY DEF ForwardData
<1>2. UNCHANGED channelOf
  BY DEF ForwardData, channelVars
<1>3. channelMap[c] # NoSocket => channelMap[c] \in CreatedLocals'
  BY <1>2, SameCreated DEF BaseInv, ValuesInv
<1>4. Turning(t)
  BY <1>1, <1>3, ChannelTurns DEF Turning
<1> QED
  BY <1>4, OrdinaryKeeps
     DEF ForwardData, Local, channelVars, webVars, peerVars, BaseInv, ValuesInv

LEMMA WriteBase == ASSUME NEW t \in Threads, BaseInv, Write(t) PROVE BaseInv' /\ Turning(t)
<1>1. PICK c \in Channels, s \in Locals:
        /\ At(t, <<"write", c, s>>)
        /\ Then(t, <<>>) \/ Then(t, << <<"removeChannel", c>>, <<"send", c, "ERROR">> >>)
  BY DEF Write
<1>2. Turning(t)
  <2> DEFINE x == <<"write", c, s>>
             ss == << <<"removeChannel", c>>, <<"send", c, "ERROR">> >>
  <2>1. Then(t, <<>>) => Turn(t, x, <<>>)
    BY <1>1, Turns
  <2>2. Then(t, ss) => Turn(t, x, ss)
    BY <1>1, EndTurns
  <2> HIDE DEF x, ss
  <2> QED
    BY <1>1, <2>1, <2>2 DEF ss, Turning
<1> QED
  BY <1>2, OrdinaryKeeps DEF Write, Local, channelVars, webVars, peerVars, BaseInv, ValuesInv

\* A local socket whose handler runs has a channel.
LEMMA CreatedWhenAt ==
    ASSUME NEW t \in Threads, NEW s \in Locals, NEW event \in {"readable", "exception", "timeout"},
           BaseInv, At(t, <<event, s>>)
    PROVE  channelOf[s] \in Channels
<1> DEFINE x == <<event, s>>
<1>1. todo[t] \in Seq(CreatedSteps) /\ todo[t] # <<>> /\ Head(todo[t]) = x
  BY DEF At, BaseInv, StepsInv
<1>2. x[1] = event /\ x[2] = s
  OBVIOUS
<1> HIDE DEF x
<1>3. x \in CreatedSteps
  BY <1>1, HeadOrLater
<1>4. s \in Created
  BY <1>2, <1>3, SocketsOfSteps
<1>5. s \in CreatedLocals
  BY <1>4, ForwarderAssumption DEF Created
<1> QED
  BY <1>5 DEF CreatedLocals, BaseInv, ValuesInv

LEMMA MultiplexDataBase ==
    ASSUME NEW t \in Threads, BaseInv, MultiplexData(t)
    PROVE  BaseInv' /\ Turning(t)
<1>1. PICK s \in Locals: /\ At(t, <<"readable", s>>)
                         /\ Then(t, << <<"send", channelOf[s], "DATA">> >>)
  BY DEF MultiplexData
<1>2. channelOf[s] \in Channels
  BY <1>1, CreatedWhenAt DEF BaseInv
<1>3. Turning(t)
  BY <1>1, <1>2, ChannelTurns DEF Turning
<1> QED
  BY <1>3, OrdinaryKeeps
     DEF MultiplexData, Local, channelVars, webVars, peerVars, BaseInv, ValuesInv

LEMMA MultiplexEndBase ==
    ASSUME NEW t \in Threads, BaseInv, MultiplexEnd(t)
    PROVE  BaseInv' /\ Turning(t)
<1>1. PICK s \in Locals, frame \in {"CLOSE", "ERROR"}, event \in {"readable", "exception", "timeout"}:
        /\ At(t, <<event, s>>)
        /\ Then(t, << <<"removeChannel", channelOf[s]>>, <<"send", channelOf[s], frame>> >>)
  BY DEF MultiplexEnd
<1>2. channelOf[s] \in Channels
  BY <1>1, CreatedWhenAt DEF BaseInv
<1>3. Turning(t)
  <2> DEFINE c == channelOf[s]
             x == <<event, s>>
             ss == << <<"removeChannel", c>>, <<"send", c, frame>> >>
  <2>1. x \in {<<"write", c, s>>, <<"readable", s>>, <<"exception", s>>, <<"timeout", s>>}
    OBVIOUS
  <2>2. c \in Channels /\ At(t, x) /\ Then(t, ss)
    BY <1>1, <1>2
  <2> HIDE DEF c, x
  <2>3. Turn(t, x, ss)
    BY <2>1, <2>2, EndTurns
  <2> QED
    BY <2>3 DEF Turning
<1> QED
  BY <1>3, OrdinaryKeeps
     DEF MultiplexEnd, Local, channelVars, webVars, peerVars, BaseInv, ValuesInv

LEMMA ReceiveDataBase ==
    ASSUME NEW t \in Threads, BaseInv, ReceiveData(t)
    PROVE  BaseInv' /\ Turning(t)
<1>1. PICK c \in Channels: At(t, <<"readable", WebSocket>>) /\ Then(t, << <<"forward", c>> >>)
  BY DEF ReceiveData, Demultiplexing
<1>2. Turning(t)
  BY <1>1, ChannelTurns DEF Turning
<1> QED
  BY <1>2, OrdinaryKeeps DEF ReceiveData, Demultiplexing, Local, channelVars, BaseInv, ValuesInv

LEMMA ReceiveOpenBase ==
    ASSUME NEW t \in Threads, BaseInv, ReceiveOpen(t)
    PROVE  BaseInv' /\ Turning(t)
<1>1. PICK c \in Channels:
        /\ At(t, <<"readable", WebSocket>>)
        /\ Then(t, << <<"open", c>> >>) \/ Then(t, << <<"send", c, "FAULT">> >>)
        /\ peerView' = [peerView EXCEPT ![c] = "opening"]
  BY DEF ReceiveOpen, Demultiplexing
<1>2. Turning(t)
  BY <1>1, ChannelTurns DEF Turning
<1>3. peerView' \in [Channels -> {"closed", "opening", "open"}]
  BY <1>1 DEF BaseInv, ValuesInv
<1> QED
  BY <1>2, <1>3, OrdinaryKeeps
     DEF ReceiveOpen, Demultiplexing, Local, channelVars, BaseInv, ValuesInv

LEMMA ReceiveCloseBase ==
    ASSUME NEW t \in Threads, BaseInv, ReceiveClose(t)
    PROVE  BaseInv' /\ Turning(t)
<1>1. PICK c \in Channels:
        /\ At(t, <<"readable", WebSocket>>)
        /\ Then(t, << <<"removeChannel", c>> >>)
        /\ peerView' = [peerView EXCEPT ![c] = "closed"]
  BY DEF ReceiveClose, Demultiplexing
<1>2. Turning(t)
  BY <1>1, ChannelTurns DEF Turning
<1>3. peerView' \in [Channels -> {"closed", "opening", "open"}]
  BY <1>1 DEF BaseInv, ValuesInv
<1> QED
  BY <1>2, <1>3, OrdinaryKeeps
     DEF ReceiveClose, Demultiplexing, Local, channelVars, BaseInv, ValuesInv

LEMMA ReceiveOtherBase ==
    ASSUME NEW t \in Threads, BaseInv, ReceiveOther(t)
    PROVE  BaseInv' /\ Turning(t)
<1>1. /\ At(t, <<"readable", WebSocket>>)
      /\ Then(t, <<>>) \/ \E c \in Channels: Then(t, << <<"send", c, "ERROR">> >>)
  BY DEF ReceiveOther, Demultiplexing
<1>2. Turning(t)
  BY <1>1, Turns, ChannelTurns DEF Turning
<1> QED
  BY <1>2, OrdinaryKeeps
     DEF ReceiveOther, Demultiplexing, Local, channelVars, BaseInv, ValuesInv

LEMMA ReceivePongBase ==
    ASSUME NEW t \in Threads, BaseInv, ReceivePong(t)
    PROVE  BaseInv' /\ Turning(t)
<1>1. At(t, <<"readable", WebSocket>>) /\ Then(t, <<>>)
  BY DEF ReceivePong, Demultiplexing
<1>2. Turning(t)
  BY <1>1, Turns DEF Turning
<1> QED
  BY <1>2, OrdinaryKeeps DEF ReceivePong, Demultiplexing, Local, channelVars, BaseInv, ValuesInv

LEMMA ReceiveFailsBase ==
    ASSUME NEW t \in Threads, BaseInv, ReceiveFails(t)
    PROVE  BaseInv' /\ Turning(t)
<1>1. /\ At(t, <<"readable", WebSocket>>) \/ At(t, <<"exception", WebSocket>>)
      /\ Then(t, << <<"closeWebSocket">> >>)
  BY DEF ReceiveFails
<1>2. Turning(t)
  BY <1>1, Turns DEF Turning
<1> QED
  BY <1>2, OrdinaryKeeps
     DEF ReceiveFails, Local, channelVars, webVars, peerVars, BaseInv, ValuesInv

LEMMA DemultiplexTimeoutBase ==
    ASSUME NEW t \in Threads, BaseInv, DemultiplexTimeout(t)
    PROVE  BaseInv' /\ Turning(t)
<1>1. /\ At(t, <<"timeout", WebSocket>>)
      /\ Then(t, << <<"closeWebSocket">> >>) \/ Then(t, << <<"ping">> >>)
      /\ timeoutCount' \in {0, 1}
  BY DEF DemultiplexTimeout, BaseInv, ValuesInv
<1>2. Turning(t)
  BY <1>1, Turns DEF Turning
<1> QED
  BY <1>1, <1>2, OrdinaryKeeps
  DEF DemultiplexTimeout, Local, channelVars, peerVars, BaseInv, ValuesInv

LEMMA ResetBase == ASSUME NEW t \in Threads, BaseInv, Reset(t) PROVE BaseInv' /\ Turning(t)
<1>1. At(t, <<"reset">>) /\ Then(t, <<>>) /\ Ask(t, "reset", NoSocket)
  BY DEF Reset
<1>2. Turning(t)
  BY <1>1, Turns DEF Turning
<1> QED
  BY <1>1, <1>2, OrdinaryKeeps
     DEF Reset, Asking, channelVars, webVars, peerVars, BaseInv, ValuesInv

\* The one step by which a socket comes into being.
LEMMA ConnectGrows ==
    ASSUME NEW s \in Unused, NEW c \in Channels, channelOf' = [channelOf EXCEPT ![s] = c], ValuesInv
    PROVE  CreatedLocals' = CreatedLocals \cup {s} /\ s \in CreatedLocals'
<1>1. c # Nobody
  BY ForwarderAssumption
<1> QED
  BY <1>1 DEF CreatedLocals, Unused, ValuesInv

LEMMA ConnectBase == ASSUME NEW t \in Threads, BaseInv, Connect(t) PROVE BaseInv' /\ Turning(t)
<1>1. PICK c \in Channels:
        /\ At(t, <<"connect", c>>)
        /\ \/ /\ mutex' = Nobody /\ Then(t, << <<"send", c, "FAULT">> >>)
              /\ UNCHANGED <<channelOf, mainQueue, waiting>>
           \/ \E s \in Unused:
                /\ channelOf' = [channelOf EXCEPT ![s] = c] /\ Ask(t, "add", s)
                /\ Then(t, << <<"map", c, s>>, <<"send", c, "CONFIRM">>, <<"unlock">> >>)
                /\ UNCHANGED mutex
  BY DEF Connect
<1>2. UNCHANGED <<registered, wantRead, shut, closed, workerQueue, channelMap, peerVars, webVars>>
  BY DEF Connect, Asking
<1>3. CASE /\ mutex' = Nobody /\ Then(t, << <<"send", c, "FAULT">> >>)
           /\ UNCHANGED <<channelOf, mainQueue, waiting>>
  <2>1. Turning(t)
    BY <1>1, <1>3, ChannelTurns DEF Turning
  <2> QED
    BY <1>2, <1>3, <2>1, OrdinaryKeeps DEF webVars, peerVars, BaseInv, ValuesInv
<1>4. ASSUME NEW s \in Unused, channelOf' = [channelOf EXCEPT ![s] = c], Ask(t, "add", s),
             Then(t, << <<"map", c, s>>, <<"send", c, "CONFIRM">>, <<"unlock">> >>),
             UNCHANGED mutex
      PROVE  BaseInv' /\ Turning(t)
  <2>1. CreatedLocals' = CreatedLocals \cup {s} /\ s \in CreatedLocals' /\ s \in Created'
    BY <1>4, ConnectGrows DEF BaseInv, Created
  <2>2. Created \subseteq Created'
    BY <2>1, CreatedGrows
  <2>3. Turning(t)
    BY <1>1, <1>4, <2>1, EndTurns DEF Turning
  <2>4. channelOf' \in [Locals -> Channels \cup {Nobody}]
    BY <1>4 DEF BaseInv, ValuesInv
  <2>5. ValuesInv'
    BY <1>2, <1>4, <2>1, <2>2, <2>4 DEF webVars, peerVars, BaseInv, ValuesInv
  <2> QED
    BY <1>2, <1>4, <2>1, <2>3, <2>5, TurnKeeps DEF webVars, Turning
<1> QED
  BY <1>1, <1>3, <1>4

LEMMA StepBase == ASSUME NEW t \in Threads, BaseInv, Step(t) PROVE BaseInv' /\ Turning(t)
BY SendFrameBase, SendPingBase, CloseWebSocketBase, RemoveSocketsBase, CloseImplBase,
   OpenChannelBase, ConnectBase, MapChannelBase, RemoveChannelBase, EraseBase, UnlockBase,
   ForwardDataBase, WriteBase, MultiplexDataBase, MultiplexEndBase, ReceiveDataBase,
   ReceiveOpenBase, ReceiveCloseBase, ReceiveOtherBase, ReceivePongBase, ReceiveFailsBase,
   DemultiplexTimeoutBase, ResetBase DEF Step

\* The steps of one thread are replaced altogether.
LEMMA FreshSteps ==
    ASSUME NEW t \in Threads, NEW q \in Seq(CreatedSteps), StepsInv, UNCHANGED channelOf,
           todo' = [todo EXCEPT ![t] = q], Grammar(q),
           \A z: Has(q, z) => /\ t = User => z[1] \in Closing \cup {"reset"}
                              /\ t \in Workers => z[1] # "reset"
    PROVE  StepsInv'
<1>1. CreatedSteps' = CreatedSteps
  BY SameCreated DEF CreatedSteps, CreatedEvent
<1>2. todo'[t] = q /\ \A u \in Threads: u # t => todo'[u] = todo[u]
  BY DEF StepsInv
<1>3. todo' \in [Threads -> Seq(CreatedSteps)]
  BY DEF StepsInv
<1>4. \A u \in Threads: Grammar(todo'[u])
  BY <1>2 DEF StepsInv
<1>5. User \in Threads /\ \A w \in Workers: w \in Threads
  BY ForwarderAssumption DEF Threads
<1>6. \A z: Has(todo'[User], z) => z[1] \in Closing \cup {"reset"}
  BY <1>2, <1>5 DEF StepsInv
<1>7. \A w \in Workers: \A z: Has(todo'[w], z) => z[1] # "reset"
  BY <1>2, <1>5 DEF StepsInv
<1> QED
  BY <1>1, <1>3, <1>4, <1>6, <1>7 DEF StepsInv

\* An event has been taken, or the user begins.
LEMMA TakenSteps ==
    ASSUME NEW s \in Created
    PROVE  /\ << <<"exception", s>> >> \in Seq(CreatedSteps) /\ Grammar(<< <<"exception", s>> >>)
           /\ \A event \in {"readable", "timeout"}:
                /\ << <<event, s>>, <<"finish", event, s>> >> \in Seq(CreatedSteps)
                /\ Grammar(<< <<event, s>>, <<"finish", event, s>> >>)
<1>1. <<"exception", s>> \in CreatedSteps
  BY DEF CreatedSteps, CreatedEvent
<1>2. << <<"exception", s>> >> \in Seq(CreatedSteps) /\ Grammar(<< <<"exception", s>> >>)
  <2> DEFINE x == <<"exception", s>>
  <2>1. MayEnd(x)
    BY DEF MayEnd, Confirms
  <2> HIDE DEF x
  <2>2. <<x>> \in Seq(CreatedSteps) /\ Len(<<x>>) = 1 /\ <<x>>[1] = x
    BY <1>1 DEF x
  <2>3. Grammar(<<x>>)
    BY <2>1, <2>2 DEF Grammar
  <2> QED
    BY <2>2, <2>3 DEF x
<1>3. ASSUME NEW event \in {"readable", "timeout"}
      PROVE  /\ << <<event, s>>, <<"finish", event, s>> >> \in Seq(CreatedSteps)
             /\ Grammar(<< <<event, s>>, <<"finish", event, s>> >>)
  <2> DEFINE x == <<event, s>>
             y == <<"finish", event, s>>
  <2>1. x \in CreatedSteps /\ y \in CreatedSteps
    BY DEF CreatedSteps, CreatedEvent
  <2>2. MayEnd(y)
    BY DEF MayEnd, Confirms
  <2>3. Follows(x, y)
    BY DEF Follows, Confirms, FinishWeb, Closing
  <2> HIDE DEF x, y
  <2>4. /\ <<x, y>> \in Seq(CreatedSteps) /\ Len(<<x, y>>) = 2
        /\ <<x, y>>[1] = x /\ <<x, y>>[2] = y
    BY <2>1
  <2>5. \A i \in 1 .. (2 - 1): i = 1
    OBVIOUS
  <2>6. Grammar(<<x, y>>)
    BY <2>2, <2>3, <2>4, <2>5 DEF Grammar
  <2> QED
    BY <2>4, <2>6 DEF x, y
<1> QED
  BY <1>2, <1>3

LEMMA WorkerTakeBase ==
    ASSUME NEW w \in Workers, BaseInv, WorkerTake(w), UNCHANGED forwarderVars
    PROVE  BaseInv'
<1> DEFINE e == Head(workerQueue)
           q == IF e[1] = "exception" THEN << <<e[1], e[2]>> >>
                ELSE << <<e[1], e[2]>>, <<"finish", e[1], e[2]>> >>
<1>1. w \in Threads /\ w # User
  BY ForwarderAssumption DEF Threads
<1>2. /\ todo' = [todo EXCEPT ![w] = q] /\ workerQueue # <<>> /\ workerQueue' = Tail(workerQueue)
      /\ UNCHANGED <<registered, shut, mainQueue, waiting, wantRead, closed>>
  BY DEF WorkerTake, mainVars
<1>3. workerQueue \in Seq(CreatedEvent)
  BY DEF BaseInv, TasksInv
<1>4. e \in CreatedEvent /\ workerQueue' \in Seq(CreatedEvent)
  BY <1>2, <1>3
<1>5. e[1] \in {"readable", "exception", "timeout"} /\ e[2] \in Created
  BY <1>4 DEF CreatedEvent
<1>6. UNCHANGED <<channelOf, stopping>>
  BY DEF forwarderVars, channelVars, webVars
<1>7. StepsInv'
  <2> HIDE DEF e
  <2>1. q \in Seq(CreatedSteps) /\ Grammar(q)
    BY <1>5, TakenSteps
  <2>2. \A z: Has(q, z) => z[1] \in {"readable", "exception", "timeout", "finish"}
    <3>1. CASE e[1] = "exception"
      <4>1. Len(q) = 1 /\ q[1] = <<e[1], e[2]>> /\ \A i \in 1 .. 1: i = 1
        BY <3>1
      <4> QED
        BY <1>5, <4>1 DEF Has
    <3>2. CASE e[1] # "exception"
      <4>1. /\ Len(q) = 2 /\ q[1] = <<e[1], e[2]>> /\ q[2] = <<"finish", e[1], e[2]>>
            /\ \A i \in 1 .. 2: i = 1 \/ i = 2
        BY <3>2
      <4> QED
        BY <1>5, <4>1 DEF Has
    <3> QED
      BY <3>1, <3>2
  <2> HIDE DEF q
  <2> QED
    BY <1>1, <1>2, <1>6, <2>1, <2>2, FreshSteps DEF BaseInv
<1>8. TasksInv'
  <2>1. CreatedTask' = CreatedTask /\ CreatedEvent' = CreatedEvent
    BY <1>6, SameCreated DEF CreatedTask, CreatedEvent
  <2> QED
    BY <1>2, <1>4, <2>1 DEF BaseInv, TasksInv
<1>9. ValuesInv'
  BY <1>2, <1>6, SameCreated
     DEF BaseInv, ValuesInv, forwarderVars, channelVars, peerVars, webVars
<1>10. UserInv'
  <2>1. todo'[User] = todo[User]
    BY <1>1, <1>2 DEF BaseInv, StepsInv
  <2> QED
    BY <1>2, <1>6, <2>1 DEF BaseInv, UserInv
<1> QED
  BY <1>7, <1>8, <1>9, <1>10 DEF BaseInv

LEMMA ReturnBase == ASSUME NEW w \in Workers, BaseInv, Return(w) PROVE BaseInv'
<1>1. PICK s \in Sockets, event \in {"readable", "timeout"}:
        /\ At(w, <<"finish", event, s>>) /\ Then(w, <<>>)
        /\ wantRead' = [wantRead EXCEPT ![s] = s \notin closed]
  BY DEF Return, Finish
<1>2. Turn(w, <<"finish", event, s>>, <<>>)
  BY <1>1, Turns
<1>3. UNCHANGED <<registered, shut, mainQueue, waiting, closed, workerQueue, forwarderVars>>
  BY DEF Return, Finish, mainVars
<1>4. UNCHANGED <<channelOf, stopping>>
  BY <1>3 DEF forwarderVars, channelVars, webVars
<1>5. wantRead' \in [Sockets -> BOOLEAN]
  BY <1>1 DEF BaseInv, ValuesInv
<1>6. ValuesInv'
  BY <1>3, <1>4, <1>5, SameCreated
     DEF BaseInv, ValuesInv, forwarderVars, channelVars, peerVars, webVars
<1>7. w \in Threads
  BY DEF Threads
<1> QED
  BY <1>2, <1>3, <1>4, <1>6, <1>7, SameCreated, TurnKeeps

LEMMA ReadMoreBase == ASSUME NEW w \in Workers, BaseInv, ReadMore(w) PROVE BaseInv'
<1>1. PICK s \in Sockets:
        /\ At(w, <<"finish", "readable", s>>)
        /\ todo' = [todo EXCEPT ![w] = << <<"readable", s>> >> \o todo[w]]
  BY DEF ReadMore, Again, BaseInv, StepsInv, Threads
<1>2. UNCHANGED <<registered, shut, mainQueue, waiting, wantRead, closed, workerQueue, forwarderVars>>
  BY DEF ReadMore, Again, mainVars
<1>3. UNCHANGED <<channelOf, stopping>>
  BY <1>2 DEF forwarderVars, channelVars, webVars
<1> DEFINE x == <<"readable", s>>
           y == <<"finish", "readable", s>>
           q == <<x>> \o todo[w]
<1>4. w \in Threads /\ w # User
  BY ForwarderAssumption DEF Threads
<1>5. todo[w] \in Seq(CreatedSteps) /\ todo[w] # <<>> /\ Head(todo[w]) = y /\ Grammar(todo[w])
  BY <1>1, <1>4 DEF At, BaseInv, StepsInv
<1>6. y \in CreatedSteps /\ todo[w][1] = y
  BY <1>5, HeadOrLater
<1>7. y[1] = "finish" /\ y[3] = s
  OBVIOUS
<1>8. s \in Created
  BY <1>6, <1>7, SocketsOfSteps
<1>9. x \in CreatedSteps /\ x[1] = "readable"
  BY <1>8 DEF CreatedSteps, CreatedEvent
<1>10. Follows(x, y)
  BY DEF Follows, Confirms, FinishWeb, Closing
<1> HIDE DEF x, y
<1>11. q \in Seq(CreatedSteps) /\ Grammar(q) /\ \A z: Has(q, z) <=> z = x \/ Has(todo[w], z)
  <2>1. Follows(x, todo[w][1]) /\ q = <<x>> \o todo[w]
    BY <1>6, <1>10
  <2> HIDE DEF q
  <2>2. todo[w] \in Seq(CreatedSteps) /\ todo[w] # <<>> /\ Grammar(todo[w]) /\ x \in CreatedSteps
    BY <1>5, <1>9
  <2> DEFINE p == todo[w]
             S == CreatedSteps
  <2>3. p \in Seq(S) /\ p # <<>> /\ Grammar(p) /\ x \in S /\ Follows(x, p[1]) /\ q = <<x>> \o p
    BY <2>1, <2>2
  <2> HIDE DEF p, S
  <2>4. q \in Seq(S) /\ Grammar(q) /\ \A z: Has(q, z) <=> z = x \/ Has(p, z)
    BY <2>3, Preceded
  <2> QED
    BY <2>4 DEF p, S
<1>12. todo' = [todo EXCEPT ![w] = q]
  BY <1>1 DEF x
<1> HIDE DEF q
<1>13. StepsInv'
  BY <1>3, <1>4, <1>9, <1>11, <1>12, FreshSteps DEF BaseInv, StepsInv
<1>14. TasksInv'
  <2>1. CreatedTask' = CreatedTask /\ CreatedEvent' = CreatedEvent
    BY <1>3, SameCreated DEF CreatedTask, CreatedEvent
  <2> QED
    BY <1>2, <2>1 DEF BaseInv, TasksInv
<1>15. ValuesInv'
  BY <1>2, <1>3, SameCreated
     DEF BaseInv, ValuesInv, forwarderVars, channelVars, peerVars, webVars
<1>16. UserInv'
  <2>1. todo'[User] = todo[User]
    BY <1>4, <1>12 DEF BaseInv, StepsInv
  <2> QED
    BY <1>2, <1>3, <2>1 DEF BaseInv, UserInv
<1> QED
  BY <1>13, <1>14, <1>15, <1>16 DEF BaseInv

LEMMA PostBase ==
    ASSUME NEW s \in Sockets, NEW events \in AnyReport, BaseInv, MainPoll(s, events), UNCHANGED forwarderVars
    PROVE  BaseInv'
<1> DEFINE posted == [i \in DOMAIN events |-> <<events[i], s>>]
<1>1. events \in Seq({"readable", "exception", "timeout"})
  <2>1. /\ <<"readable">> \in Seq({"readable", "exception", "timeout"})
        /\ <<"exception">> \in Seq({"readable", "exception", "timeout"})
        /\ <<"timeout">> \in Seq({"readable", "exception", "timeout"})
    OBVIOUS
  <2>2. <<"readable", "exception">> \in Seq({"readable", "exception", "timeout"})
    OBVIOUS
  <2> QED
    BY <2>1, <2>2 DEF AnyReport
<1>2. /\ UNCHANGED <<registered, shut, mainQueue, waiting, closed, todo, channelOf, stopping>>
      /\ wantRead' = [wantRead EXCEPT ![s] = FALSE] /\ s \in registered
  BY DEF MainPoll, mainVars, forwarderVars, channelVars, webVars
<1>3. s \in Created
  BY <1>2 DEF BaseInv, ValuesInv
<1>4. posted \in Seq(CreatedEvent)
  BY <1>1, <1>3 DEF CreatedEvent
<1>5. workerQueue' = workerQueue \o posted
  BY DEF MainPoll, Post
<1> HIDE DEF posted
<1>6. workerQueue' \in Seq(CreatedEvent)
  BY <1>4, <1>5 DEF BaseInv, TasksInv
<1>7. /\ CreatedTask' = CreatedTask /\ CreatedEvent' = CreatedEvent /\ CreatedSteps' = CreatedSteps
      /\ Created' = Created /\ CreatedLocals' = CreatedLocals
  BY <1>2, SameCreated DEF CreatedTask, CreatedEvent, CreatedSteps
<1>8. StepsInv'
  BY <1>2, <1>7 DEF BaseInv, StepsInv
<1>9. TasksInv'
  BY <1>2, <1>6, <1>7 DEF BaseInv, TasksInv
<1>10. ValuesInv'
  BY <1>2, <1>7 DEF BaseInv, ValuesInv, forwarderVars, channelVars, peerVars, webVars
<1> QED
  BY <1>2, <1>8, <1>9, <1>10 DEF BaseInv, UserInv

\* What is left of a queue.
LEMMA Dequeued ==
    ASSUME NEW S, NEW q \in Seq(S), q # <<>>
    PROVE  /\ Tail(q) \in Seq(S) /\ 1 \in DOMAIN q /\ Head(q) = q[1] /\ q[1] \in S
           /\ \A i \in DOMAIN Tail(q): i + 1 \in DOMAIN q /\ i + 1 # 1 /\ i \in Nat /\ Tail(q)[i] = q[i + 1]
           /\ \A j \in DOMAIN q: j # 1 => j \in Nat /\ j - 1 \in DOMAIN Tail(q) /\ Tail(q)[j - 1] = q[j]
<1>1. Tail(q) \in Seq(S) /\ Len(q) \in Nat \ {0} /\ DOMAIN q = 1 .. Len(q)
  OBVIOUS
<1>2. Len(Tail(q)) = Len(q) - 1 /\ DOMAIN Tail(q) = 1 .. (Len(q) - 1)
  OBVIOUS
<1>3. 1 \in DOMAIN q /\ Head(q) = q[1] /\ q[1] \in S
  OBVIOUS
<1>4. \A i \in 1 .. (Len(q) - 1): Tail(q)[i] = q[i + 1]
  BY <1>2
<1>5. \A i \in DOMAIN Tail(q): i + 1 \in DOMAIN q /\ i + 1 # 1 /\ i \in Nat /\ Tail(q)[i] = q[i + 1]
  BY <1>1, <1>2, <1>4
<1>6. ASSUME NEW j \in DOMAIN q, j # 1
      PROVE  j \in Nat /\ j - 1 \in DOMAIN Tail(q) /\ Tail(q)[j - 1] = q[j]
  <2>1. j - 1 \in 1 .. (Len(q) - 1) /\ (j - 1) + 1 = j
    BY <1>1, <1>6
  <2> QED
    BY <1>1, <1>2, <1>4, <1>6, <2>1
<1> QED
  BY <1>1, <1>3, <1>5, <1>6

LEMMA MainThreadBase == ASSUME BaseInv, MainThread PROVE BaseInv'
<1> DEFINE k == Head(mainQueue)
<1>1. /\ mainQueue # <<>> /\ mainQueue' = Tail(mainQueue) /\ waiting' = waiting \ {k.by}
      /\ UNCHANGED <<workerQueue, closed, todo, channelOf, stopping>>
  BY DEF MainThread, MainTask, forwarderVars, channelVars, webVars
<1>2. mainQueue \in Seq(CreatedTask)
  BY DEF BaseInv, TasksInv
<1>3. /\ mainQueue' \in Seq(CreatedTask) /\ k \in CreatedTask /\ 1 \in DOMAIN mainQueue /\ k = mainQueue[1]
      /\ \A i \in DOMAIN mainQueue': i + 1 \in DOMAIN mainQueue /\ i + 1 # 1 /\ i \in Nat
                                     /\ mainQueue'[i] = mainQueue[i + 1]
      /\ \A j \in DOMAIN mainQueue: j # 1 => /\ j \in Nat /\ j - 1 \in DOMAIN mainQueue'
                                             /\ mainQueue'[j - 1] = mainQueue[j]
  BY <1>1, <1>2, Dequeued
<1>4. /\ CreatedTask' = CreatedTask /\ CreatedEvent' = CreatedEvent /\ CreatedSteps' = CreatedSteps
      /\ Created' = Created /\ CreatedLocals' = CreatedLocals
  BY <1>1, SameCreated DEF CreatedTask, CreatedEvent, CreatedSteps
<1>5. registered' \subseteq Created /\ shut' \subseteq Created /\ wantRead' \in [Sockets -> BOOLEAN]
  <2>1. /\ k.do \in {"add", "remove", "close", "reset"} /\ k.socket \in Created \cup {NoSocket}
        /\ k.do \in {"add", "close"} => k.socket \in Created
    BY <1>3 DEF CreatedTask, Created
  <2>2. /\ registered' = CASE k.do = "add" -> registered \cup {k.socket}
                           [] k.do \in {"remove", "close"} -> registered \ {k.socket}
                           [] k.do = "reset" -> {}
        /\ shut' = IF k.do = "close" THEN shut \cup {k.socket} ELSE shut
        /\ wantRead' = IF k.do = "add" THEN [wantRead EXCEPT ![k.socket] = TRUE] ELSE wantRead
    BY DEF MainThread, MainTask
  <2> HIDE DEF k
  <2>3. registered' \subseteq Created
    BY <2>1, <2>2 DEF BaseInv, ValuesInv
  <2> QED
    BY <2>1, <2>2, <2>3 DEF BaseInv, ValuesInv
<1>6. TasksInv'
  <2>1. \A i, j \in DOMAIN mainQueue': mainQueue'[i].by = mainQueue'[j].by => i = j
    <3> SUFFICES ASSUME NEW i \in DOMAIN mainQueue', NEW j \in DOMAIN mainQueue',
                        mainQueue'[i].by = mainQueue'[j].by
                 PROVE  i = j
      OBVIOUS
    <3>1. /\ i + 1 \in DOMAIN mainQueue /\ j + 1 \in DOMAIN mainQueue
          /\ mainQueue[i + 1].by = mainQueue[j + 1].by /\ i \in Nat /\ j \in Nat
      BY <1>3
    <3>2. i + 1 = j + 1
      BY <3>1 DEF BaseInv, TasksInv
    <3> QED
      BY <3>1, <3>2
  <2>2. waiting' = {mainQueue'[i].by: i \in DOMAIN mainQueue'}
    <3>1. waiting = {mainQueue[i].by: i \in DOMAIN mainQueue} /\ waiting' = waiting \ {mainQueue[1].by}
      BY <1>1, <1>3 DEF BaseInv, TasksInv
    <3>2. \A j \in DOMAIN mainQueue: j # 1 => mainQueue[j].by # mainQueue[1].by
      BY <1>3 DEF BaseInv, TasksInv
    <3>3. ASSUME NEW u \in waiting' PROVE u \in {mainQueue'[i].by: i \in DOMAIN mainQueue'}
      <4>1. PICK j \in DOMAIN mainQueue: u = mainQueue[j].by /\ j # 1
        BY <3>1, <3>3
      <4> QED
        BY <1>3, <4>1
    <3>4. ASSUME NEW i \in DOMAIN mainQueue' PROVE mainQueue'[i].by \in waiting'
      <4>1. i + 1 \in DOMAIN mainQueue /\ i + 1 # 1 /\ mainQueue'[i] = mainQueue[i + 1]
        BY <1>3
      <4> QED
        BY <3>1, <3>2, <4>1
    <3> QED
      BY <3>3, <3>4
  <2> QED
    BY <1>1, <1>3, <1>4, <2>1, <2>2 DEF BaseInv, TasksInv
<1>7. ValuesInv'
  BY <1>1, <1>4, <1>5
     DEF BaseInv, ValuesInv, MainThread, forwarderVars, channelVars, peerVars, webVars
<1>8. StepsInv'
  BY <1>1, <1>4 DEF BaseInv, StepsInv
<1>9. UserInv'
  BY <1>1 DEF BaseInv, UserInv
<1> QED
  BY <1>6, <1>7, <1>8, <1>9 DEF BaseInv

LEMMA StopBase == ASSUME BaseInv, Stop PROVE BaseInv'
<1> DEFINE x == <<"closeWebSocket">>
           y == <<"reset">>
           q == <<x, y>>
<1>1. /\ todo' = [todo EXCEPT ![User] = q] /\ stopping'
      /\ UNCHANGED <<registered, wantRead, shut, closed, mainQueue, workerQueue, waiting>>
      /\ UNCHANGED <<channelVars, peerVars, webSocketMutex, timeoutCount, fired>>
  BY DEF Stop, Local
<1>2. UNCHANGED channelOf /\ User \in Threads /\ User \notin Workers
  BY <1>1, ForwarderAssumption DEF channelVars, Threads
<1>3. x \in CreatedSteps /\ y \in CreatedSteps
  BY DEF CreatedSteps
<1>4. Follows(x, y) /\ MayEnd(y)
  BY DEF Follows, MayEnd, Confirms, FinishWeb, Closing
<1>5. x[1] \in Closing \cup {"reset"} /\ y[1] \in Closing \cup {"reset"}
  BY DEF Closing
<1> HIDE DEF x, y
<1>6. /\ q \in Seq(CreatedSteps) /\ Len(q) = 2 /\ q[1] = x /\ q[2] = y
      /\ \A z: Has(q, z) <=> z = x \/ z = y
  BY <1>3, Steps2
<1> HIDE DEF q
<1>7. \A i \in 1 .. (2 - 1): i = 1
  OBVIOUS
<1>8. Grammar(q)
  BY <1>4, <1>6, <1>7 DEF Grammar
<1>9. StepsInv'
  BY <1>1, <1>2, <1>5, <1>6, <1>8, FreshSteps DEF BaseInv
<1>10. TasksInv'
  <2>1. CreatedTask' = CreatedTask /\ CreatedEvent' = CreatedEvent
    BY <1>2, SameCreated DEF CreatedTask, CreatedEvent
  <2> QED
    BY <1>1, <2>1 DEF BaseInv, TasksInv
<1>11. ValuesInv'
  BY <1>1, <1>2, SameCreated DEF BaseInv, ValuesInv, channelVars, peerVars
<1>12. stopping' \in BOOLEAN
  BY DEF Stop
<1> QED
  BY <1>1, <1>9, <1>10, <1>11, <1>12 DEF BaseInv, UserInv

LEMMA LoseBase == ASSUME BaseInv, Lose PROVE BaseInv'
<1>1. /\ UNCHANGED <<dispatcherVars, channelVars, peerView, webVars>>
      /\ peer' \in {"up", "silent", "down"}
  BY ForwarderAssumption DEF Lose
<1>2. /\ CreatedTask' = CreatedTask /\ CreatedEvent' = CreatedEvent /\ CreatedSteps' = CreatedSteps
      /\ Created' = Created /\ CreatedLocals' = CreatedLocals
  BY <1>1, SameCreated DEF CreatedTask, CreatedEvent, CreatedSteps, channelVars
<1> QED
  BY <1>1, <1>2
  DEF BaseInv, StepsInv, TasksInv, ValuesInv, UserInv, dispatcherVars, channelVars, webVars

LEMMA IdleBase == ASSUME BaseInv, UNCHANGED vars PROVE BaseInv'
<1>1. UNCHANGED <<dispatcherVars, channelVars, peerVars, webVars>>
  BY DEF vars
<1>2. /\ CreatedTask' = CreatedTask /\ CreatedEvent' = CreatedEvent /\ CreatedSteps' = CreatedSteps
      /\ Created' = Created /\ CreatedLocals' = CreatedLocals
  BY <1>1, SameCreated DEF CreatedTask, CreatedEvent, CreatedSteps, channelVars
<1> QED
  BY <1>1, <1>2
  DEF BaseInv, StepsInv, TasksInv, ValuesInv, UserInv, dispatcherVars, channelVars, peerVars, webVars

LEMMA BaseInitially == Init => BaseInv
<1> SUFFICES ASSUME Init PROVE BaseInv
  OBVIOUS
<1>1. /\ registered = {WebSocket} /\ wantRead = [s \in Sockets |-> TRUE]
      /\ shut = {} /\ closed = {} /\ mainQueue = <<>> /\ workerQueue = <<>> /\ waiting = {}
      /\ todo = [t \in Threads |-> <<>>]
      /\ mutex = Nobody /\ webSocketMutex = Nobody
      /\ channelMap = [c \in Channels |-> NoSocket] /\ channelOf = [s \in Locals |-> Nobody]
      /\ timeoutCount = 0 /\ peer = "up" /\ peerView = [c \in Channels |-> "closed"]
      /\ fired = 0 /\ stopping = FALSE
  BY DEF Init, DispatcherInit
<1>2. User \in Threads /\ \A w \in Workers: w \in Threads
  BY ForwarderAssumption DEF Threads
<1>3. <<>> \in Seq(CreatedSteps) /\ Len(<<>>) = 0 /\ \A z: ~Has(<<>>, z)
  BY Steps0
<1>4. Grammar(<<>>)
  BY <1>3 DEF Grammar
<1>5. StepsInv
  BY <1>1, <1>2, <1>3, <1>4 DEF StepsInv
<1>6. TasksInv
  BY <1>1 DEF TasksInv
<1>7. ValuesInv
  BY <1>1 DEF ValuesInv, Created
<1>8. UserInv
  BY <1>1, <1>2 DEF UserInv
<1> QED
  BY <1>5, <1>6, <1>7, <1>8 DEF BaseInv

LEMMA BaseInductive == BaseInv /\ [Next]_vars => BaseInv'
<1> SUFFICES ASSUME BaseInv, [Next]_vars PROVE BaseInv'
  OBVIOUS
<1>1. CASE \E t \in Threads: Step(t)
  BY <1>1, StepBase
<1>2. CASE \E w \in Workers: Return(w) \/ ReadMore(w)
  BY <1>2, ReturnBase, ReadMoreBase
<1>3. CASE Take
  BY <1>3, WorkerTakeBase DEF Take
<1>4. CASE MainThread
  BY <1>4, MainThreadBase
<1>5. CASE \E s \in Sockets: Poll(s) \/ Timeout(s)
  <2>1. <<"timeout">> \in AnyReport
    BY DEF AnyReport
  <2> QED
    BY <1>5, <2>1, PostBase DEF Poll, Timeout, MainTimeout
<1>6. CASE Stop
  BY <1>6, StopBase
<1>7. CASE Lose
  BY <1>7, LoseBase
<1>8. CASE UNCHANGED vars
  BY <1>8, IdleBase
<1> QED
  BY <1>1, <1>2, <1>3, <1>4, <1>5, <1>6, <1>7, <1>8 DEF Next

\* Each waiting thread has one task.
LEMMA TasksCounted == ASSUME TasksInv PROVE Cardinality(waiting) = Len(mainQueue)
<1> DEFINE n == Len(mainQueue)
           f == [i \in 1 .. n |-> mainQueue[i].by]
<1>1. n \in Nat /\ DOMAIN mainQueue = 1 .. n
  BY DEF TasksInv
<1>2. f \in Bijection(1 .. n, waiting)
  BY <1>1 DEF TasksInv, Bijection, Injection, Surjection, IsInjective
<1>3. IsFiniteSet(1 .. n) /\ Cardinality(1 .. n) = n
  <2> HIDE DEF n
  <2>1. /\ IsFiniteSet(1 .. n)
        /\ Cardinality(1 .. n) = IF 1 > n THEN 0 ELSE n - 1 + 1
    BY <1>1, FS_Interval
  <2> QED
    BY <1>1, <2>1
<1> HIDE DEF f, n
<1>4. ExistsBijection(1 .. n, waiting)
  BY <1>2 DEF ExistsBijection
<1> QED
  BY <1>3, <1>4, FS_Bijection DEF n

\* The variables have the values the code gives them; a thread has at most one
\* task queued for the main thread, for which it waits.
THEOREM TypesCorrect == Spec => []ForwarderTypeOK
<1>1. BaseInv => ForwarderTypeOK
  <2> SUFFICES ASSUME BaseInv PROVE ForwarderTypeOK
    OBVIOUS
  <2>1. CreatedLocals \subseteq Locals /\ Created \subseteq Sockets
    BY ForwarderAssumption DEF Created, CreatedLocals
  <2>2. CreatedSteps \subseteq Steps /\ CreatedEvent \subseteq Event /\ CreatedTask \subseteq Task
    <3>1. CreatedEvent \subseteq Event /\ CreatedTask \subseteq Task
      BY <2>1 DEF CreatedEvent, Event, CreatedTask, Task
    <3>2. CreatedSteps \subseteq Steps
      BY <2>1, <3>1 DEF CreatedSteps, Steps, Event
    <3> QED
      BY <3>1, <3>2
  <2>3. todo \in [Threads -> Seq(Steps)]
    BY <2>2, LargerSeq DEF BaseInv, StepsInv
  <2>4. mainQueue \in Seq(Task) /\ workerQueue \in Seq(Event)
    BY <2>2, LargerSeq DEF BaseInv, TasksInv
  <2>5. waiting \subseteq Threads
    BY DEF BaseInv, TasksInv, CreatedTask
  <2>6. DispatcherTypeOK
    BY <2>1, <2>4, <2>5, TasksCounted DEF DispatcherTypeOK, BaseInv, ValuesInv, TasksInv
  <2> QED
    BY <2>1, <2>3, <2>6 DEF ForwarderTypeOK, BaseInv, ValuesInv
<1> QED
  BY <1>1, BaseInitially, BaseInductive, PTL DEF Spec

-----------------------------------------------------------------------------
(* One reader *)

ReadEvents(s) == {<<"readable", s>>, <<"timeout", s>>}
Queued(s) == \E i \in DOMAIN workerQueue: workerQueue[i] \in ReadEvents(s)
Reading(w, s) == Has(todo[w], <<"finish", "readable", s>>) \/ Has(todo[w], <<"finish", "timeout", s>>)
NotRead(s) == ~Queued(s) /\ \A w \in Workers: ~Reading(w, s)

\* A socket has one event queued or one reader, and is not polled then.
ReadInv ==
    \A s \in Sockets:
      /\ \A i, j \in DOMAIN workerQueue:
           workerQueue[i] \in ReadEvents(s) /\ workerQueue[j] \in ReadEvents(s) => i = j
      /\ Queued(s) => \A w \in Workers: ~Reading(w, s)
      /\ \A v, w \in Workers: Reading(v, s) /\ Reading(w, s) => v = w
      /\ s \in registered /\ wantRead[s] => NotRead(s)

\* A socket that is about to be registered, and polled, is a new one.
AddInv ==
    \A i \in DOMAIN mainQueue: mainQueue[i].do = "add" =>
      /\ mainQueue[i].socket \notin registered /\ NotRead(mainQueue[i].socket)
      /\ \A j \in DOMAIN mainQueue:
           mainQueue[j].do = "add" /\ mainQueue[j].socket = mainQueue[i].socket => i = j

ReaderInv == BaseInv /\ ReadInv /\ AddInv

LEMMA StepEffects ==
    ASSUME NEW t \in Threads, Step(t)
    PROVE  /\ UNCHANGED <<registered, wantRead, shut, workerQueue>>
           /\ \/ UNCHANGED <<mainQueue, waiting>>
              \/ \E s: \E do \in {"remove", "close", "reset"}: Ask(t, do, s)
              \/ \E s \in Unused: Ask(t, "add", s) /\ Connect(t)
<1>1. /\ SendFrame(t) \/ SendPing(t) \/ OpenChannel(t) \/ MapChannel(t) \/ Erase(t) \/ Unlock(t)
         \/ ForwardData(t) \/ Write(t) \/ MultiplexData(t) \/ MultiplexEnd(t) \/ ReceiveFails(t)
         \/ DemultiplexTimeout(t)
         => Local
      /\ ReceiveData(t) \/ ReceiveOpen(t) \/ ReceiveClose(t) \/ ReceiveOther(t) \/ ReceivePong(t) => Local
  BY DEF SendFrame, SendPing, OpenChannel, MapChannel, Erase, Unlock, ForwardData, Write,
     MultiplexData, MultiplexEnd, ReceiveFails, DemultiplexTimeout, ReceiveData, ReceiveOpen,
     ReceiveClose, ReceiveOther, ReceivePong, Demultiplexing
<1>2. CASE CloseImpl(t)
  BY <1>2 DEF CloseImpl
<1>3. CASE CloseWebSocket(t)
  BY <1>3 DEF CloseWebSocket, Asking
<1>4. CASE RemoveSockets(t)
  BY <1>4 DEF RemoveSockets, Asking
<1>5. CASE RemoveChannel(t)
  BY <1>5 DEF RemoveChannel, Asking
<1>6. CASE Connect(t)
  BY <1>6 DEF Connect, Asking
<1>7. CASE Reset(t)
  BY <1>7 DEF Reset, Asking
<1>8. CASE Local
  BY <1>8 DEF Local
<1> QED
  BY <1>1, <1>2, <1>3, <1>4, <1>5, <1>6, <1>7, <1>8 DEF Step

\* No step makes a reader; the new steps of a thread are not new ends of handlers.
LEMMA TurnReads ==
    ASSUME NEW t \in Threads, BaseInv, Turning(t), CreatedLocals \subseteq CreatedLocals'
    PROVE  \A w \in Workers: \A s: Reading(w, s)' => Reading(w, s)
<1>1. PICK x, ss: Turn(t, x, ss)
  BY DEF Turning
<1>2. \A u \in Threads: u # t => todo'[u] = todo[u]
  BY <1>1, Turned DEF BaseInv
<1>3. /\ \A z: Has(todo'[t], z) <=> Has(ss, z) \/ Later(todo[t], z)
      /\ \A z: Has(todo[t], z) <=> z = x \/ Later(todo[t], z)
  BY <1>1, Turned DEF BaseInv
<1>4. \A z: Has(ss, z) => z[1] # "finish"
  BY <1>1 DEF Turn, Fits
<1>5. \A z: z[1] = "finish" /\ Has(todo'[t], z) => Has(todo[t], z)
  BY <1>3, <1>4
<1> SUFFICES ASSUME NEW w \in Workers, NEW s, Reading(w, s)' PROVE Reading(w, s)
  OBVIOUS
<1>6. <<"finish", "readable", s>>[1] = "finish" /\ <<"finish", "timeout", s>>[1] = "finish"
  OBVIOUS
<1>7. w \in Threads
  BY DEF Threads
<1> QED
  BY <1>2, <1>5, <1>6, <1>7 DEF Reading

\* Fewer reads, and no new tasks.
LEMMA FewerReads ==
    ASSUME ReaderInv, UNCHANGED <<registered, wantRead, workerQueue, mainQueue>>,
           \A w \in Workers: \A s: Reading(w, s)' => Reading(w, s)
    PROVE  ReadInv' /\ AddInv'
<1>1. \A s: (Queued(s)' <=> Queued(s)) /\ (NotRead(s) => NotRead(s)')
  BY DEF Queued, NotRead
<1>2. ReadInv'
  BY <1>1 DEF ReadInv, ReaderInv
<1>3. AddInv'
  BY <1>1 DEF AddInv, ReaderInv
<1> QED
  BY <1>2, <1>3

\* Nothing is read from a socket that does not exist.
LEMMA UnusedNotRead ==
    ASSUME BaseInv, NEW s \in Unused
    PROVE  NotRead(s) /\ s \notin registered /\ s \in Sockets
<1>1. s \notin Created /\ s \in Sockets
  BY ForwarderAssumption DEF Unused, Created, CreatedLocals
<1>2. s \notin registered
  BY <1>1 DEF BaseInv, ValuesInv
<1>3. ~Queued(s)
  <2> SUFFICES ASSUME NEW i \in DOMAIN workerQueue, workerQueue[i] \in ReadEvents(s) PROVE FALSE
    BY DEF Queued
  <2>1. workerQueue[i] \in CreatedEvent
    BY DEF BaseInv, TasksInv
  <2> QED
    BY <1>1, <2>1 DEF ReadEvents, CreatedEvent
<1>4. ASSUME NEW w \in Workers PROVE ~Reading(w, s)
  <2>1. w \in Threads
    BY DEF Threads
  <2>2. todo[w] \in Seq(CreatedSteps)
    BY <2>1 DEF BaseInv, StepsInv
  <2>3. ASSUME NEW event, Has(todo[w], <<"finish", event, s>>) PROVE FALSE
    <3> DEFINE x == <<"finish", event, s>>
    <3>1. x \in CreatedSteps
      BY <2>2, <2>3 DEF Has
    <3>2. x[1] = "finish" /\ x[3] = s
      OBVIOUS
    <3> HIDE DEF x
    <3> QED
      BY <1>1, <3>1, <3>2, SocketsOfSteps
  <2> QED
    BY <2>3 DEF Reading
<1> QED
  BY <1>1, <1>2, <1>3, <1>4 DEF NotRead

LEMMA StepCreates ==
    ASSUME NEW t \in Threads, BaseInv, Step(t)
    PROVE  CreatedLocals \subseteq CreatedLocals'
<1>1. CASE UNCHANGED channelOf
  BY <1>1, SameCreated
<1>2. CASE Connect(t)
  <2>1. \/ UNCHANGED channelOf
        \/ \E c \in Channels, s \in Unused: channelOf' = [channelOf EXCEPT ![s] = c]
    BY <1>2 DEF Connect
  <2> QED
    BY <1>1, <2>1, ConnectGrows DEF BaseInv
<1>3. /\ SendFrame(t) \/ SendPing(t) \/ OpenChannel(t) \/ MapChannel(t) \/ Erase(t) \/ Unlock(t)
         \/ ForwardData(t) \/ Write(t) \/ MultiplexData(t) \/ MultiplexEnd(t) \/ ReceiveFails(t)
         \/ DemultiplexTimeout(t)
         => UNCHANGED channelOf
      /\ ReceiveData(t) \/ ReceiveOpen(t) \/ ReceiveClose(t) \/ ReceiveOther(t) \/ ReceivePong(t)
         => UNCHANGED channelOf
      /\ CloseWebSocket(t) \/ RemoveSockets(t) \/ CloseImpl(t) \/ RemoveChannel(t) \/ Reset(t)
         => UNCHANGED channelOf
  BY DEF SendFrame, SendPing, OpenChannel, MapChannel, Erase, Unlock, ForwardData, Write,
     MultiplexData, MultiplexEnd, ReceiveFails, DemultiplexTimeout, ReceiveData, ReceiveOpen,
     ReceiveClose, ReceiveOther, ReceivePong, Demultiplexing, CloseWebSocket, RemoveSockets,
     CloseImpl, RemoveChannel, Reset, channelVars
<1> QED
  BY <1>1, <1>2, <1>3 DEF Step

LEMMA StepReads == ASSUME NEW t \in Threads, ReaderInv, Step(t) PROVE ReadInv' /\ AddInv'
<1>1. BaseInv /\ Turning(t) /\ UNCHANGED <<registered, wantRead, workerQueue>>
  BY StepBase, StepEffects DEF ReaderInv
<1>2. CreatedLocals \subseteq CreatedLocals'
  BY <1>1, StepCreates
<1>3. \A w \in Workers: \A s: Reading(w, s)' => Reading(w, s)
  BY <1>1, <1>2, TurnReads
<1>4. CASE UNCHANGED mainQueue
  BY <1>1, <1>3, <1>4, FewerReads
<1>5. ASSUME NEW s, NEW do \in {"add", "remove", "close", "reset"}, Ask(t, do, s),
             do = "add" => s \in Unused
      PROVE  ReadInv' /\ AddInv'
  <2> DEFINE n == Len(mainQueue)
             k == [do |-> do, socket |-> s, by |-> t]
  <2>1. mainQueue \in Seq(CreatedTask) /\ mainQueue' = Append(mainQueue, k)
    BY <1>1, <1>5 DEF BaseInv, TasksInv, Ask
  <2>2. k.do = do /\ k.socket = s
    OBVIOUS
  <2> HIDE DEF k
  <2>3. /\ n \in Nat /\ \A i \in DOMAIN mainQueue': i \in DOMAIN mainQueue \/ i = n + 1
        /\ \A i \in DOMAIN mainQueue: mainQueue'[i] = mainQueue[i]
        /\ mainQueue'[n + 1] = k
    BY <2>1
  <2> HIDE DEF n
  <2>4. \A r: (Queued(r)' <=> Queued(r)) /\ (NotRead(r) => NotRead(r)')
    BY <1>1, <1>3 DEF Queued, NotRead
  <2>5. ReadInv'
    BY <1>1, <1>3, <2>4 DEF ReadInv, ReaderInv
  <2>6. \A i \in DOMAIN mainQueue: mainQueue[i].socket \notin Unused \/ mainQueue[i].do # "add"
    BY <1>1 DEF BaseInv, TasksInv, CreatedTask, CreatedLocals, Unused
  <2>7. do = "add" => NotRead(s) /\ s \notin registered
    BY <1>1, <1>5, UnusedNotRead
  <2>8. AddInv'
    <3>2. ASSUME NEW i \in DOMAIN mainQueue', mainQueue'[i].do = "add", NEW r, r = mainQueue'[i].socket
          PROVE  /\ r \notin registered /\ NotRead(r)
                 /\ \A j \in DOMAIN mainQueue': mainQueue'[j].do = "add" /\ mainQueue'[j].socket = r => i = j
      <4>1. CASE i \in DOMAIN mainQueue
        <5>1. mainQueue[i].do = "add" /\ mainQueue[i].socket = r
          BY <2>3, <3>2, <4>1
        <5>2. r \notin registered /\ NotRead(r)
          BY <4>1, <5>1 DEF AddInv, ReaderInv
        <5>3. \A j \in DOMAIN mainQueue:
                mainQueue'[j].do = "add" /\ mainQueue'[j].socket = r => i = j
          BY <2>3, <4>1, <5>1 DEF AddInv, ReaderInv
        <5>4. mainQueue'[n + 1].do = "add" => mainQueue'[n + 1].socket # r
          BY <1>5, <2>2, <2>3, <2>6, <4>1, <5>1
        <5> QED
          BY <2>3, <5>2, <5>3, <5>4
      <4>2. CASE i = n + 1
        <5>1. do = "add" /\ r = s
          BY <2>2, <2>3, <3>2, <4>2
        <5>2. \A j \in DOMAIN mainQueue: mainQueue'[j].do = "add" => mainQueue'[j].socket # s
          BY <1>5, <2>3, <2>6, <5>1
        <5> QED
          BY <2>3, <2>7, <4>2, <5>1, <5>2
      <4> QED
        BY <2>3, <3>2, <4>1, <4>2
    <3>3. \A i \in DOMAIN mainQueue': mainQueue'[i].do = "add" =>
            /\ mainQueue'[i].socket \notin registered' /\ NotRead(mainQueue[i].socket)'
            /\ \A j \in DOMAIN mainQueue':
                 mainQueue'[j].do = "add" /\ mainQueue'[j].socket = mainQueue'[i].socket => i = j
      BY <1>1, <2>4, <3>2
    <3> QED
      BY <3>3 DEF AddInv
  <2> QED
    BY <2>5, <2>8
<1> QED
  BY <1>4, <1>5, StepEffects

LEMMA ReturnReads == ASSUME NEW w \in Workers, ReaderInv, Return(w) PROVE ReadInv' /\ AddInv'
<1>1. PICK s \in Sockets, event \in {"readable", "timeout"}:
        /\ At(w, <<"finish", event, s>>) /\ Then(w, <<>>)
        /\ wantRead' = [wantRead EXCEPT ![s] = s \notin closed]
  BY DEF Return, Finish
<1> DEFINE x == <<"finish", event, s>>
<1>2. Turn(w, x, <<>>) /\ x[1] = "finish"
  BY <1>1, Turns
<1>3. UNCHANGED <<registered, mainQueue, workerQueue, channelOf>>
  BY DEF Return, Finish, mainVars, forwarderVars, channelVars
<1>4. w \in Threads /\ BaseInv /\ CreatedLocals \subseteq CreatedLocals'
  BY <1>3, SameCreated DEF Threads, ReaderInv
<1>5. \A v \in Workers: \A r: Reading(v, r)' => Reading(v, r)
  BY <1>2, <1>4, TurnReads DEF Turning
<1>6. Reading(w, s)
  <2>1. Has(todo[w], x)
    BY <1>2, <1>4, Turned DEF BaseInv
  <2> QED
    BY <2>1 DEF Reading
\* Nothing follows the end of a handler.
<1>7. ~Reading(w, s)'
  <2>1. todo[w] \in Seq(CreatedSteps) /\ todo[w] # <<>> /\ todo[w][1] = x /\ Grammar(todo[w])
    BY <1>2, <1>4, Turned DEF BaseInv, StepsInv
  <2>2. Len(todo[w]) > 1 => Follows(x, todo[w][2])
    BY <2>1 DEF Grammar
  <2>3. Len(todo[w]) = 1
    <3>1. Len(todo[w]) \in Nat \ {0}
      BY <2>1, HeadOrLater
    <3>2. ~Follows(x, todo[w][2])
      <4>1. x[1] = "finish"
        OBVIOUS
      <4> HIDE DEF x
      <4> QED
        BY <4>1 DEF Follows
    <3>3. ~(Len(todo[w]) > 1)
      BY <2>2, <3>2, Zenon
    <3>4. \A n \in Nat \ {0}: ~(n > 1) => n = 1
      OBVIOUS
    <3> QED
      BY <3>1, <3>3, <3>4, Zenon
  <2>4. \A z: ~Later(todo[w], z)
    BY <2>3 DEF Later
  <2>5. \A z: ~Has(todo'[w], z)
    BY <1>2, <1>4, <2>4, Turned, Steps0 DEF BaseInv
  <2> QED
    BY <2>5 DEF Reading
<1> HIDE DEF x
<1>8. \A r: (Queued(r)' <=> Queued(r)) /\ (NotRead(r) => NotRead(r)')
  BY <1>3, <1>5 DEF Queued, NotRead
<1>9. NotRead(s)'
  BY <1>1, <1>5, <1>6, <1>7, <1>8 DEF ReadInv, ReaderInv, NotRead
<1>10. ReadInv'
  <2> SUFFICES ASSUME NEW r \in Sockets
               PROVE  /\ \A i, j \in DOMAIN workerQueue':
                           workerQueue'[i] \in ReadEvents(r) /\ workerQueue'[j] \in ReadEvents(r) => i = j
                      /\ Queued(r)' => \A v \in Workers: ~Reading(v, r)'
                      /\ \A u, v \in Workers: Reading(u, r)' /\ Reading(v, r)' => u = v
                      /\ r \in registered' /\ wantRead'[r] => NotRead(r)'
    BY DEF ReadInv
  <2>1. r # s => wantRead'[r] = wantRead[r]
    BY <1>1 DEF ReaderInv, BaseInv, ValuesInv
  <2> QED
    BY <1>3, <1>5, <1>8, <1>9, <2>1 DEF ReadInv, ReaderInv
<1>11. AddInv'
  BY <1>3, <1>8 DEF AddInv, ReaderInv
<1> QED
  BY <1>10, <1>11

LEMMA ReadMoreReads ==
    ASSUME NEW w \in Workers, ReaderInv, ReadMore(w)
    PROVE  ReadInv' /\ AddInv'
<1>1. PICK s \in Sockets:
        /\ At(w, <<"finish", "readable", s>>)
        /\ todo' = [todo EXCEPT ![w] = << <<"readable", s>> >> \o todo[w]]
  BY DEF ReadMore, Again, ReaderInv, BaseInv, StepsInv, Threads
<1>2. UNCHANGED <<registered, wantRead, mainQueue, workerQueue>>
  BY DEF ReadMore, Again, mainVars
<1> DEFINE x == <<"readable", s>>
           p == todo[w]
<1>3. w \in Threads /\ BaseInv
  BY DEF Threads, ReaderInv
<1>4. p \in Seq(CreatedSteps) /\ p # <<>>
  BY <1>1, <1>3 DEF At, BaseInv, StepsInv
<1>5. todo'[w] = <<x>> \o p /\ \A u \in Threads: u # w => todo'[u] = todo[u]
  BY <1>1, <1>3 DEF BaseInv, StepsInv
<1>6. x[1] = "readable"
  OBVIOUS
<1> HIDE DEF x, p
<1>7. \A z: Has(todo'[w], z) => z = x \/ Has(p, z)
  <2> SUFFICES ASSUME NEW z, NEW i \in 1 .. Len(<<x>> \o p), (<<x>> \o p)[i] = z
               PROVE  z = x \/ Has(p, z)
    BY <1>5 DEF Has
  <2>1. i = 1 \/ (i - 1 \in 1 .. Len(p) /\ (<<x>> \o p)[i] = p[i - 1])
    BY <1>4
  <2>2. (<<x>> \o p)[1] = x
    BY <1>4
  <2> QED
    BY <2>1, <2>2 DEF Has
<1>8. \A v \in Workers: \A r: Reading(v, r)' => Reading(v, r)
  <2> SUFFICES ASSUME NEW v \in Workers, NEW r, Reading(v, r)' PROVE Reading(v, r)
    OBVIOUS
  <2>1. <<"finish", "readable", r>>[1] = "finish" /\ <<"finish", "timeout", r>>[1] = "finish"
    OBVIOUS
  <2>2. v \in Threads
    BY DEF Threads
  <2> QED
    BY <1>5, <1>6, <1>7, <2>1, <2>2 DEF Reading, p
<1> QED
  BY <1>2, <1>8, FewerReads

LEMMA WorkerTakeReads ==
    ASSUME NEW w \in Workers, ReaderInv, WorkerTake(w), UNCHANGED forwarderVars
    PROVE  ReadInv' /\ AddInv'
<1> DEFINE e == Head(workerQueue)
           q == IF e[1] = "exception" THEN << <<e[1], e[2]>> >>
                ELSE << <<e[1], e[2]>>, <<"finish", e[1], e[2]>> >>
<1>1. /\ todo' = [todo EXCEPT ![w] = q] /\ workerQueue # <<>> /\ workerQueue' = Tail(workerQueue)
      /\ todo[w] = <<>> /\ UNCHANGED <<registered, mainQueue, wantRead>>
  BY DEF WorkerTake, mainVars
<1>2. w \in Threads /\ BaseInv /\ workerQueue \in Seq(CreatedEvent)
  BY DEF Threads, ReaderInv, BaseInv, TasksInv
<1>3. /\ e \in CreatedEvent /\ 1 \in DOMAIN workerQueue /\ e = workerQueue[1]
      /\ \A i \in DOMAIN workerQueue': i + 1 \in DOMAIN workerQueue /\ i + 1 # 1 /\ i \in Nat
                                       /\ workerQueue'[i] = workerQueue[i + 1]
  BY <1>1, <1>2, Dequeued
<1>4. e[1] \in {"readable", "exception", "timeout"} /\ e = <<e[1], e[2]>>
  BY <1>3 DEF CreatedEvent
<1>5. todo'[w] = q /\ \A u \in Threads: u # w => todo'[u] = todo[u]
  BY <1>1, <1>2 DEF BaseInv, StepsInv
<1> HIDE DEF e
\* The worker reads what the event says, and nobody else begins to.
<1>6. \A s: Reading(w, s)' => e \in ReadEvents(s)
  <2>1. CASE e[1] = "exception"
    <3>1. Len(q) = 1 /\ q[1] = <<e[1], e[2]>> /\ \A i \in 1 .. 1: i = 1
      BY <2>1
    <3>2. q[1][1] = "exception"
      BY <2>1, <3>1
    <3> HIDE DEF q
    <3>3. \A z: Has(q, z) => z[1] = "exception"
      BY <3>1, <3>2 DEF Has
    <3>4. \A s: <<"finish", "readable", s>>[1] = "finish" /\ <<"finish", "timeout", s>>[1] = "finish"
      OBVIOUS
    <3> QED
      BY <1>5, <3>3, <3>4 DEF Reading
  <2>2. CASE e[1] # "exception"
    <3>1. /\ Len(q) = 2 /\ q[1] = <<e[1], e[2]>> /\ q[2] = <<"finish", e[1], e[2]>>
          /\ \A i \in 1 .. 2: i = 1 \/ i = 2
      BY <2>2
    <3>2. q[1][1] # "finish"
      BY <1>4, <3>1
    <3> HIDE DEF q
    <3>3. \A z: Has(q, z) => z[1] # "finish" \/ z = <<"finish", e[1], e[2]>>
      BY <3>1, <3>2 DEF Has
    <3>4. ASSUME NEW s, Reading(w, s)' PROVE e \in ReadEvents(s)
      <4>1. PICK event \in {"readable", "timeout"}: Has(q, <<"finish", event, s>>)
        BY <1>5, <3>4 DEF Reading
      <4>2. <<"finish", event, s>>[1] = "finish"
        OBVIOUS
      <4>3. <<"finish", event, s>> = <<"finish", e[1], e[2]>>
        BY <3>3, <4>1, <4>2
      <4>4. event = e[1] /\ s = e[2]
        BY <4>3
      <4>5. e = <<event, s>>
        BY <1>4, <4>4
      <4> QED
        BY <4>1, <4>5 DEF ReadEvents
    <3> QED
      BY <3>4
  <2> QED
    BY <2>1, <2>2
<1> HIDE DEF q
<1>7. ~\E s: Reading(w, s)
  <2>1. \A z: ~Has(todo[w], z)
    BY <1>1, Steps0
  <2> QED
    BY <2>1 DEF Reading
<1>8. \A v \in Workers: v # w => \A s: Reading(v, s)' <=> Reading(v, s)
  BY <1>5 DEF Reading, Threads
<1>9. \A s: Queued(s)' => Queued(s)
  BY <1>3 DEF Queued
<1>10. \A s: e \in ReadEvents(s) => Queued(s)
  BY <1>3 DEF Queued
<1>11. \A s \in Sockets: e \in ReadEvents(s) => ~Queued(s)'
  <2> SUFFICES ASSUME NEW s \in Sockets, e \in ReadEvents(s), NEW i \in DOMAIN workerQueue',
                      workerQueue'[i] \in ReadEvents(s)
               PROVE  FALSE
    BY DEF Queued
  <2> QED
    BY <1>3 DEF ReadInv, ReaderInv
<1>12. \A s: NotRead(s) => NotRead(s)'
  BY <1>6, <1>8, <1>9, <1>10 DEF NotRead
<1>13. ReadInv'
  <2> SUFFICES ASSUME NEW r \in Sockets
               PROVE  /\ \A i, j \in DOMAIN workerQueue':
                           workerQueue'[i] \in ReadEvents(r) /\ workerQueue'[j] \in ReadEvents(r) => i = j
                      /\ Queued(r)' => \A v \in Workers: ~Reading(v, r)'
                      /\ \A u, v \in Workers: Reading(u, r)' /\ Reading(v, r)' => u = v
                      /\ r \in registered' /\ wantRead'[r] => NotRead(r)'
    BY DEF ReadInv
  <2>1. ASSUME NEW i \in DOMAIN workerQueue', NEW j \in DOMAIN workerQueue',
               workerQueue'[i] \in ReadEvents(r), workerQueue'[j] \in ReadEvents(r)
        PROVE  i = j
    <3>1. i + 1 = j + 1
      BY <1>3, <2>1 DEF ReadInv, ReaderInv
    <3> QED
      BY <1>3, <3>1
  <2>2. Queued(r)' => \A v \in Workers: ~Reading(v, r)'
    BY <1>6, <1>8, <1>9, <1>11 DEF ReadInv, ReaderInv
  <2>3. \A u, v \in Workers: Reading(u, r)' /\ Reading(v, r)' => u = v
    BY <1>6, <1>8, <1>10 DEF ReadInv, ReaderInv
  <2>4. r \in registered' /\ wantRead'[r] => NotRead(r)'
    BY <1>1, <1>12 DEF ReadInv, ReaderInv
  <2> QED
    BY <2>1, <2>2, <2>3, <2>4
<1>14. AddInv'
  BY <1>1, <1>12 DEF AddInv, ReaderInv
<1> QED
  BY <1>13, <1>14

LEMMA PostReads ==
    ASSUME NEW s \in Sockets, NEW events \in AnyReport, ReaderInv, MainPoll(s, events), UNCHANGED forwarderVars
    PROVE  ReadInv' /\ AddInv'
<1> DEFINE posted == [i \in DOMAIN events |-> <<events[i], s>>]
           n == Len(workerQueue)
<1>1. /\ UNCHANGED <<registered, mainQueue, todo>> /\ s \in registered /\ wantRead[s]
      /\ wantRead' = [wantRead EXCEPT ![s] = FALSE] /\ workerQueue' = workerQueue \o posted
  BY DEF MainPoll, mainVars, Post
<1>2. BaseInv /\ workerQueue \in Seq(CreatedEvent)
  BY DEF ReaderInv, BaseInv, TasksInv
\* One of the events at most is for a reader.
<1>3. /\ posted \in Seq({"readable", "exception", "timeout"} \X {s})
      /\ \A i, j \in DOMAIN posted: posted[i] \in ReadEvents(s) /\ posted[j] \in ReadEvents(s) => i = j
  <2>1. \A x: DOMAIN <<x>> = {1} /\ Len(<<x>>) = 1
    OBVIOUS
  <2>2. DOMAIN <<"readable", "exception">> = {1, 2}
    OBVIOUS
  <2>3. CASE \E x \in {"readable", "exception", "timeout"}: events = <<x>>
    BY <2>1, <2>3
  <2>4. CASE events = <<"readable", "exception">>
    <3>1. posted[2] = <<"exception", s>> /\ posted[1] = <<"readable", s>> /\ DOMAIN posted = {1, 2}
      BY <2>2, <2>4
    <3>2. posted[2] \notin ReadEvents(s)
      BY <3>1 DEF ReadEvents
    <3>3. posted = << <<"readable", s>>, <<"exception", s>> >>
      BY <2>2, <2>4
    <3>4. posted \in Seq({"readable", "exception", "timeout"} \X {s})
      BY <3>3
    <3> QED
      BY <3>1, <3>2, <3>4
  <2> QED
    BY <2>3, <2>4 DEF AnyReport
<1> HIDE DEF posted
<1>4. /\ n \in Nat /\ DOMAIN workerQueue = 1 .. n
      /\ \A i \in DOMAIN workerQueue: i \in DOMAIN workerQueue' /\ workerQueue'[i] = workerQueue[i]
  BY <1>1, <1>2, <1>3
<1>5. \A i \in DOMAIN workerQueue': i \notin DOMAIN workerQueue =>
        i \in Int /\ i - n \in DOMAIN posted /\ workerQueue'[i] = posted[i - n]
  BY <1>1, <1>2, <1>3
<1>6. \A i \in DOMAIN posted: posted[i] \in {"readable", "exception", "timeout"} \X {s}
  BY <1>3
<1> HIDE DEF n
<1>7. NotRead(s)
  BY <1>1 DEF ReadInv, ReaderInv
<1>8. \A r: r # s => \A i \in DOMAIN workerQueue': workerQueue'[i] \in ReadEvents(r) =>
                       i \in DOMAIN workerQueue /\ workerQueue[i] \in ReadEvents(r)
  BY <1>4, <1>5, <1>6 DEF ReadEvents
<1>9. \A r: r # s => (Queued(r)' => Queued(r))
  BY <1>8 DEF Queued
<1>10. \A v, r: Reading(v, r)' <=> Reading(v, r)
  BY <1>1 DEF Reading
<1>11. \A i \in DOMAIN workerQueue': workerQueue'[i] \in ReadEvents(s) => i \notin DOMAIN workerQueue
  BY <1>4, <1>7 DEF NotRead, Queued
<1>12. ReadInv'
  <2> SUFFICES ASSUME NEW r \in Sockets
               PROVE  /\ \A i, j \in DOMAIN workerQueue':
                           workerQueue'[i] \in ReadEvents(r) /\ workerQueue'[j] \in ReadEvents(r) => i = j
                      /\ Queued(r)' => \A v \in Workers: ~Reading(v, r)'
                      /\ \A u, v \in Workers: Reading(u, r)' /\ Reading(v, r)' => u = v
                      /\ r \in registered' /\ wantRead'[r] => NotRead(r)'
    BY DEF ReadInv
  <2>1. CASE r = s
    <3>1. ASSUME NEW i \in DOMAIN workerQueue', NEW j \in DOMAIN workerQueue',
                 workerQueue'[i] \in ReadEvents(s), workerQueue'[j] \in ReadEvents(s)
          PROVE  i = j
      <4>1. i - n = j - n /\ i \in Int /\ j \in Int
        BY <1>3, <1>5, <1>11, <3>1
      <4> QED
        BY <1>4, <4>1
    <3>2. ~wantRead'[s]
      BY <1>1, <1>2 DEF BaseInv, ValuesInv
    <3> QED
      BY <1>7, <1>10, <2>1, <3>1, <3>2 DEF NotRead
  <2>2. CASE r # s
    <3>1. wantRead'[r] = wantRead[r]
      BY <1>1, <1>2, <2>2 DEF BaseInv, ValuesInv
    <3>2. \A i, j \in DOMAIN workerQueue':
            workerQueue'[i] \in ReadEvents(r) /\ workerQueue'[j] \in ReadEvents(r) => i = j
      BY <1>8, <2>2 DEF ReadInv, ReaderInv
    <3>3. NotRead(r) => NotRead(r)'
      BY <1>9, <1>10, <2>2 DEF NotRead
    <3> QED
      BY <1>1, <1>9, <1>10, <2>2, <3>1, <3>2, <3>3 DEF ReadInv, ReaderInv
  <2> QED
    BY <2>1, <2>2
<1>13. AddInv'
  <2>1. \A r: r # s => (NotRead(r) => NotRead(r)')
    BY <1>9, <1>10 DEF NotRead
  <2> QED
    BY <1>1, <2>1 DEF AddInv, ReaderInv
<1> QED
  BY <1>12, <1>13

LEMMA MainThreadReads == ASSUME ReaderInv, MainThread PROVE ReadInv' /\ AddInv'
<1> DEFINE k == Head(mainQueue)
<1>1. /\ mainQueue # <<>> /\ mainQueue' = Tail(mainQueue) /\ UNCHANGED <<workerQueue, todo>>
      /\ registered' = CASE k.do = "add" -> registered \cup {k.socket}
                         [] k.do \in {"remove", "close"} -> registered \ {k.socket}
                         [] k.do = "reset" -> {}
      /\ wantRead' = IF k.do = "add" THEN [wantRead EXCEPT ![k.socket] = TRUE] ELSE wantRead
  BY DEF MainThread, MainTask
<1>2. mainQueue \in Seq(CreatedTask) /\ BaseInv
  BY DEF ReaderInv, BaseInv, TasksInv
<1>3. /\ k \in CreatedTask /\ 1 \in DOMAIN mainQueue /\ k = mainQueue[1]
      /\ \A i \in DOMAIN mainQueue': i + 1 \in DOMAIN mainQueue /\ i + 1 # 1 /\ i \in Nat
                                     /\ mainQueue'[i] = mainQueue[i + 1]
  BY <1>1, <1>2, Dequeued
<1>4. k.do \in {"add", "remove", "close", "reset"}
  BY <1>3 DEF CreatedTask
<1> HIDE DEF k
<1>5. \A r: (Queued(r)' <=> Queued(r)) /\ (NotRead(r)' <=> NotRead(r))
  BY <1>1 DEF Queued, NotRead, Reading
<1>6. k.do = "add" => NotRead(k.socket)
  BY <1>3 DEF AddInv, ReaderInv
<1>7. \A r \in registered': r \in registered \/ (k.do = "add" /\ r = k.socket)
  BY <1>1, <1>4
<1>8. \A r \in Sockets: wantRead'[r] => wantRead[r] \/ (k.do = "add" /\ r = k.socket)
  BY <1>1, <1>2 DEF BaseInv, ValuesInv
<1>9. ReadInv'
  <2>1. \A r \in Sockets: r \in registered' /\ wantRead'[r] => NotRead(r)'
    BY <1>5, <1>6, <1>7, <1>8 DEF ReadInv, ReaderInv
  <2>2. \A v, r: Reading(v, r)' <=> Reading(v, r)
    BY <1>1 DEF Reading
  <2> QED
    BY <1>1, <1>5, <2>1, <2>2 DEF ReadInv, ReaderInv
<1>10. AddInv'
  <2> SUFFICES ASSUME NEW i \in DOMAIN mainQueue', mainQueue'[i].do = "add"
               PROVE  /\ mainQueue'[i].socket \notin registered' /\ NotRead(mainQueue[i].socket)'
                      /\ \A j \in DOMAIN mainQueue':
                           mainQueue'[j].do = "add" /\ mainQueue'[j].socket = mainQueue'[i].socket => i = j
    BY DEF AddInv
  <2> DEFINE r == mainQueue[i + 1].socket
  <2>1. mainQueue'[i].socket = r /\ mainQueue[i + 1].do = "add" /\ i + 1 \in DOMAIN mainQueue /\ i + 1 # 1
    BY <1>3
  <2>2. /\ r \notin registered /\ NotRead(r)
        /\ \A j \in DOMAIN mainQueue: mainQueue[j].do = "add" /\ mainQueue[j].socket = r => i + 1 = j
    BY <2>1 DEF AddInv, ReaderInv
  <2>3. k.do = "add" => k.socket # r
    BY <1>3, <2>1, <2>2
  <2>4. r \notin registered'
    BY <1>7, <2>2, <2>3
  <2>5. ASSUME NEW j \in DOMAIN mainQueue', mainQueue'[j].do = "add", mainQueue'[j].socket = r
        PROVE  i = j
    <3>1. i + 1 = j + 1
      BY <1>3, <2>2, <2>5
    <3> QED
      BY <1>3, <3>1
  <2> QED
    BY <1>5, <2>1, <2>2, <2>4, <2>5
<1> QED
  BY <1>9, <1>10

LEMMA ReaderInductive == ReaderInv /\ [Next]_vars => ReaderInv'
<1> SUFFICES ASSUME ReaderInv, [Next]_vars PROVE ReaderInv'
  OBVIOUS
<1>1. BaseInv'
  BY BaseInductive DEF ReaderInv
<1>2. ReadInv' /\ AddInv'
  <2>1. CASE \E t \in Threads: Step(t)
    BY <2>1, StepReads
  <2>2. CASE \E w \in Workers: Return(w) \/ ReadMore(w)
    BY <2>2, ReturnReads, ReadMoreReads
  <2>3. CASE Take
    BY <2>3, WorkerTakeReads DEF Take
  <2>4. CASE MainThread
    BY <2>4, MainThreadReads
  <2>5. CASE \E s \in Sockets: Poll(s) \/ Timeout(s)
    <3>1. <<"timeout">> \in AnyReport
      BY DEF AnyReport
    <3> QED
      BY <2>5, <3>1, PostReads DEF Poll, Timeout, MainTimeout
  <2>6. CASE Stop
    <3>1. UNCHANGED <<registered, wantRead, workerQueue, mainQueue>>
      BY <2>6 DEF Stop, Local
    <3>2. \A w \in Workers: todo'[w] = todo[w]
      BY <2>6, ForwarderAssumption DEF Stop, Threads, ReaderInv, BaseInv, StepsInv
    <3>3. \A w \in Workers: \A s: Reading(w, s)' => Reading(w, s)
      BY <3>2 DEF Reading
    <3> QED
      BY <3>1, <3>3, FewerReads
  <2>7. CASE Lose \/ UNCHANGED vars
    <3>1. UNCHANGED <<registered, wantRead, workerQueue, mainQueue, todo>>
      BY <2>7 DEF Lose, vars, dispatcherVars
    <3>2. \A w \in Workers: \A s: Reading(w, s)' => Reading(w, s)
      BY <3>1 DEF Reading
    <3> QED
      BY <3>1, <3>2, FewerReads
  <2> QED
    BY <2>1, <2>2, <2>3, <2>4, <2>5, <2>6, <2>7 DEF Next
<1> QED
  BY <1>1, <1>2 DEF ReaderInv

LEMMA ReaderInitially == Init => ReaderInv
<1> SUFFICES ASSUME Init PROVE ReaderInv
  OBVIOUS
<1>1. BaseInv
  BY BaseInitially
<1>2. mainQueue = <<>> /\ workerQueue = <<>> /\ todo = [t \in Threads |-> <<>>]
  BY DEF Init, DispatcherInit
<1>3. \A s: NotRead(s)
  BY <1>2, Steps0 DEF NotRead, Queued, Reading, Threads
<1>4. ReadInv
  BY <1>2, <1>3 DEF ReadInv, NotRead
<1>5. AddInv
  BY <1>2 DEF AddInv
<1> QED
  BY <1>1, <1>4, <1>5 DEF ReaderInv

LEMMA AtMostOne ==
    ASSUME NEW S, \A x, y \in S: x = y
    PROVE  Cardinality(S) \in Nat /\ Cardinality(S) <= 1 /\ (S = {} => Cardinality(S) = 0)
<1>1. CASE S = {}
  BY <1>1, FS_EmptySet
<1>2. CASE S # {}
  <2>1. PICK x: x \in S
    BY <1>2
  <2>2. S = {x}
    BY <2>1
  <2> QED
    BY <1>2, <2>2, FS_Singleton
<1> QED
  BY <1>1, <1>2

\* A socket, whichever workers handle it, is read by one at a time.
THEOREM ReadByOne == Spec => []OneReader
<1>1. ReaderInv => OneReader
  <2> SUFFICES ASSUME ReaderInv, NEW s \in Sockets
               PROVE  /\ Reads(s) <= 1
                      /\ s \in registered /\ wantRead[s] => Reads(s) = 0
    BY DEF OneReader
  <2> DEFINE A == {i \in DOMAIN workerQueue: workerQueue[i] \in {<<"readable", s>>, <<"timeout", s>>}}
             B == {w \in Workers: \E i \in DOMAIN todo[w]:
                     todo[w][i] \in {<<"finish", "readable", s>>, <<"finish", "timeout", s>>}}
  <2>1. Reads(s) = Cardinality(A) + Cardinality(B)
    BY DEF Reads
  <2>2. \A i, j \in A: i = j
    BY DEF ReaderInv, ReadInv, ReadEvents
  <2>3. \A w \in Workers: w \in B <=> Reading(w, s)
    <3> SUFFICES ASSUME NEW w \in Workers PROVE w \in B <=> Reading(w, s)
      OBVIOUS
    <3>1. w \in Threads
      BY DEF Threads
    <3>2. todo[w] \in Seq(CreatedSteps)
      BY <3>1 DEF ReaderInv, BaseInv, StepsInv
    <3>3. DOMAIN todo[w] = 1 .. Len(todo[w])
      BY <3>2
    <3> QED
      BY <3>3 DEF Reading, Has
  <2>4. \A v, w \in B: v = w
    BY <2>3 DEF ReaderInv, ReadInv
  <2>5. A # {} => B = {}
    BY <2>3 DEF ReaderInv, ReadInv, Queued, ReadEvents
  <2>6. s \in registered /\ wantRead[s] => A = {} /\ B = {}
    BY <2>3 DEF ReaderInv, ReadInv, NotRead, Queued, ReadEvents
  <2> HIDE DEF A, B
  <2>7. /\ Cardinality(A) \in Nat /\ Cardinality(A) <= 1 /\ (A = {} => Cardinality(A) = 0)
        /\ Cardinality(B) \in Nat /\ Cardinality(B) <= 1 /\ (B = {} => Cardinality(B) = 0)
    BY <2>2, <2>4, AtMostOne
  <2> QED
    BY <2>1, <2>5, <2>6, <2>7
<1> QED
  BY <1>1, ReaderInitially, ReaderInductive, PTL DEF Spec

-----------------------------------------------------------------------------
(* Sockets and channels *)

First(t) == IF todo[t] = <<>> THEN <<"none">> ELSE todo[t][1]
WebOpen == WebSocket \notin closed /\ webSocketMutex = Nobody
Locking == {"connect", "map", "erase", "unlock"}

\* The steps that are taken under _mutex.
LockInv == \A t \in Threads: \A z: Has(todo[t], z) /\ z[1] \in Locking => mutex = t

\* A channel's socket has its channel; one that is being opened has none yet.
ChannelInv ==
    /\ \A c \in Opened: channelOf[channelMap[c]] = c
    /\ \A t \in Threads, c \in Channels:
         /\ First(t) = <<"connect", c>> => channelMap[c] = NoSocket
         /\ \A s \in Locals: First(t) = <<"map", c, s>> => channelMap[c] = NoSocket /\ channelOf[s] = c

\* What a queued task is for: its thread waits before the step named here.
TaskOK(do, s, u) ==
    /\ do = "add" => \E c \in Channels: First(u) = <<"map", c, s>>
    /\ do = "close" => \E c \in Channels: First(u) = <<"erase", c>> /\ (WebOpen => channelMap[c] = s)
    /\ do = "remove" => Closes(First(u))
    /\ do = "reset" => ~WebOpen /\ u = User /\ First(u) = <<"none">>
TaskInv == \A i \in DOMAIN mainQueue: TaskOK(mainQueue[i].do, mainQueue[i].socket, mainQueue[i].by)

\* The main thread has done its part of openChannel() or removeChannel(), the
\* thread that asked has not entered it in the map yet.
Adding(s) == \E t \in Threads \ waiting: \E c \in Channels: First(t) = <<"map", c, s>>
Removing(s) == \E t \in Threads \ waiting: \E c \in Channels: First(t) = <<"erase", c>> /\ channelMap[c] = s
SocketInv ==
    WebOpen => \A s \in Locals: s \in registered <=> (s \in InUse /\ ~Removing(s)) \/ Adding(s)

\* The user resets the dispatcher when the web socket is closed, or being closed.
ResetInv == First(User)[1] = "reset" => ~WebOpen

OwnInv == LockInv /\ ChannelInv /\ TaskInv /\ SocketInv /\ ResetInv
SocketsInv == BaseInv /\ IInv /\ OwnInv

LEMMA FirstIsThere ==
    ASSUME NEW t \in Threads, BaseInv
    PROVE  /\ First(t) = <<"none">> \/ (todo[t] # <<>> /\ First(t) = todo[t][1] /\ Has(todo[t], First(t)))
           /\ First(t)[1] # "none" => todo[t] # <<>> /\ Has(todo[t], First(t))
<1>1. todo[t] \in Seq(CreatedSteps)
  BY DEF BaseInv, StepsInv
<1>2. todo[t] # <<>> => Has(todo[t], todo[t][1])
  BY <1>1, HeadOrLater
<1> QED
  BY <1>2 DEF First

\* The next step of a thread.
LEMMA HeadAfter ==
    ASSUME NEW t \in Threads, NEW x, NEW ss, BaseInv, Turn(t, x, ss),
           CreatedLocals \subseteq CreatedLocals'
    PROVE  /\ First(t) = x /\ Has(todo[t], x) /\ t \notin waiting
           /\ \A u \in Threads: u # t => First(u)' = First(u) /\ todo'[u] = todo[u]
           /\ ss # <<>> => First(t)' = ss[1]
           /\ ss = <<>> => First(t)' = <<"none">> \/ (Follows(x, First(t)') /\ Later(todo[t], First(t)'))
           /\ \A z: Has(todo'[t], z) => Has(ss, z) \/ Later(todo[t], z)
           /\ \A z: Later(todo[t], z) => /\ z[1] \in {"finish", "reset", "unlock", "send"}
                                         /\ Has(todo[t], z)
                                         /\ x[1] \in {"unlock", "erase", "connect"} => z[1] # "unlock"
<1>1. StepsInv
  BY DEF BaseInv
<1>2. /\ x \in CreatedSteps /\ t \notin waiting /\ todo[t] # <<>> /\ todo[t][1] = x
      /\ \A u \in Threads: u # t => todo'[u] = todo[u]
      /\ Len(todo'[t]) = Len(ss) + Len(todo[t]) - 1
      /\ \A i \in 1 .. Len(ss): todo'[t][i] = ss[i]
      /\ \A i \in (Len(ss) + 1) .. Len(todo'[t]): todo'[t][i] = todo[t][i - Len(ss) + 1]
      /\ \A z: Has(todo'[t], z) <=> Has(ss, z) \/ Later(todo[t], z)
      /\ \A z: Has(todo[t], z) <=> z = x \/ Later(todo[t], z)
      /\ StepsInv'
  BY <1>1, Turned
<1>3. todo[t] \in Seq(CreatedSteps) /\ Grammar(todo[t]) /\ Len(todo[t]) \in Nat \ {0}
  BY <1>1, <1>2, HeadOrLater DEF StepsInv
<1>4. ss \in Seq(CreatedSteps') /\ Len(ss) \in Nat /\ todo'[t] \in Seq(CreatedSteps')
  BY <1>2 DEF Turn, StepsInv
<1>5. First(t) = x /\ \A u \in Threads: u # t => First(u)' = First(u)
  BY <1>2 DEF First
<1>6. ASSUME ss # <<>> PROVE First(t)' = ss[1]
  <2>1. 1 \in 1 .. Len(ss) /\ Len(todo'[t]) > 0
    BY <1>2, <1>3, <1>4, <1>6
  <2>2. todo'[t] # <<>>
    BY <1>4, <2>1
  <2> QED
    BY <1>2, <2>1, <2>2 DEF First
<1>7. ASSUME ss = <<>> PROVE First(t)' = <<"none">> \/ (Follows(x, First(t)') /\ Later(todo[t], First(t)'))
  <2>1. Len(ss) = 0
    BY <1>7
  <2>2. CASE Len(todo[t]) = 1
    <3>1. todo'[t] = <<>>
      BY <1>2, <1>4, <2>1, <2>2
    <3> QED
      BY <3>1 DEF First
  <2>3. CASE Len(todo[t]) # 1
    <3>0. PICK n \in Nat \ {0}: n = Len(todo[t])
      BY <1>3
    <3>a. n > 1
      <4>1. n # 1
        BY <2>3, <3>0, Zenon
      <4>2. \A k \in Nat \ {0}: k # 1 => k > 1
        OBVIOUS
      <4> QED
        BY <4>1, <4>2, Zenon
    <3>b. Len(todo'[t]) = n - 1
      <4>1. Len(todo'[t]) = Len(ss) + Len(todo[t]) - 1
        BY <1>2
      <4> QED
        BY <2>1, <3>0, <4>1
    <3>1. 1 \in (Len(ss) + 1) .. Len(todo'[t]) /\ 1 - Len(ss) + 1 = 2 /\ Len(todo'[t]) > 0
      BY <2>1, <3>a, <3>b
    <3>2. todo'[t][1] = todo[t][2] /\ todo'[t] # <<>>
      BY <1>2, <1>4, <3>1
    <3>3. 2 \in 2 .. Len(todo[t]) /\ 1 \in 1 .. (Len(todo[t]) - 1)
      BY <3>0, <3>a
    <3>4. Follows(x, todo[t][2])
      BY <1>2, <1>3, <3>3 DEF Grammar
    <3> QED
      BY <3>2, <3>3, <3>4 DEF First, Later
  <2> QED
    BY <2>2, <2>3
<1>8. ASSUME NEW z, Later(todo[t], z)
      PROVE  /\ z[1] \in {"finish", "reset", "unlock", "send"}
             /\ x[1] \in {"unlock", "erase", "connect"} => z[1] # "unlock"
  <2>1. PICK i \in 2 .. Len(todo[t]): todo[t][i] = z
    BY <1>8 DEF Later
  <2>2. z[1] \in {"finish", "reset", "unlock", "send"}
    BY <1>3, <2>1, WhatFollows
  <2>3. ASSUME x[1] \in {"unlock", "erase", "connect"} PROVE z[1] # "unlock"
    <3>1. ~Confirms(x)
      BY <2>3 DEF Confirms
    <3> QED
      BY <1>2, <1>3, <2>1, <2>3, <3>1, WhatFollows
  <2> QED
    BY <2>2, <2>3
<1> QED
  BY <1>2, <1>5, <1>6, <1>7, <1>8

\* _mutex is kept, or taken, or released.
LEMMA LockTurn ==
    ASSUME NEW t \in Threads, NEW x, NEW ss, BaseInv, LockInv, Turn(t, x, ss),
           CreatedLocals \subseteq CreatedLocals',
           \/ mutex' = mutex /\ \A z: Has(ss, z) /\ z[1] \in Locking => mutex = t
           \/ mutex = Nobody /\ mutex' = t
           \/ /\ mutex' = Nobody /\ x[1] \in {"unlock", "erase", "connect"}
              /\ \A z: Has(ss, z) => z[1] \notin Locking
    PROVE  LockInv'
<1>1. /\ Has(todo[t], x) /\ \A u \in Threads: u # t => todo'[u] = todo[u]
      /\ \A z: Has(todo'[t], z) => Has(ss, z) \/ Later(todo[t], z)
      /\ \A z: Later(todo[t], z) => /\ z[1] \in {"finish", "reset", "unlock", "send"}
                                    /\ Has(todo[t], z)
                                    /\ x[1] \in {"unlock", "erase", "connect"} => z[1] # "unlock"
  BY HeadAfter
<1>2. Nobody \notin Threads
  BY ForwarderAssumption
<1> SUFFICES ASSUME NEW u \in Threads, NEW z, Has(todo'[u], z), z[1] \in Locking
             PROVE  mutex' = u
  BY DEF LockInv
<1>3. CASE mutex' = mutex /\ \A y: Has(ss, y) /\ y[1] \in Locking => mutex = t
  BY <1>1, <1>3 DEF LockInv
<1>4. CASE mutex = Nobody /\ mutex' = t
  BY <1>1, <1>2, <1>4 DEF LockInv
<1>5. CASE /\ mutex' = Nobody /\ x[1] \in {"unlock", "erase", "connect"}
           /\ \A y: Has(ss, y) => y[1] \notin Locking
  <2>1. mutex = t
    BY <1>1, <1>5 DEF LockInv, Locking
  <2>2. u = t
    BY <1>1, <2>1 DEF LockInv
  <2>3. Later(todo[t], z)
    BY <1>1, <1>5, <2>2
  <2> QED
    BY <1>1, <1>5, <2>3 DEF Locking
<1> QED
  BY <1>3, <1>4, <1>5

\* A task stays what it was queued for: the thread that waits for it does not move.
LEMMA TasksStay ==
    ASSUME \A u \in waiting: First(u)' = First(u), WebOpen' => WebOpen,
           \A u \in waiting, c \in Channels:
             WebOpen' /\ First(u) = <<"erase", c>> => channelMap'[c] = channelMap[c]
    PROVE  \A u \in waiting: \A do, s: TaskOK(do, s, u) => TaskOK(do, s, u)'
<1> SUFFICES ASSUME NEW u \in waiting, NEW do, NEW s, TaskOK(do, s, u) PROVE TaskOK(do, s, u)'
  OBVIOUS
<1>1. First(u)' = First(u)
  OBVIOUS
<1>2. do = "close" => \E c \in Channels: First(u)' = <<"erase", c>> /\ (WebOpen' => channelMap'[c] = s)
  BY <1>1 DEF TaskOK
<1> QED
  BY <1>1, <1>2 DEF TaskOK

LEMMA SameTasks ==
    ASSUME BaseInv, TaskInv, UNCHANGED mainQueue,
           \A u \in waiting: \A do, s: TaskOK(do, s, u) => TaskOK(do, s, u)'
    PROVE  TaskInv'
<1>1. \A i \in DOMAIN mainQueue: mainQueue[i].by \in waiting
  BY DEF BaseInv, TasksInv
<1>2. \A i \in DOMAIN mainQueue: mainQueue'[i] = mainQueue[i]
  OBVIOUS
<1>3. \A i \in DOMAIN mainQueue: TaskOK(mainQueue[i].do, mainQueue[i].socket, mainQueue[i].by)
  BY DEF TaskInv
<1>4. ASSUME NEW i \in DOMAIN mainQueue
      PROVE  TaskOK(mainQueue[i].do, mainQueue[i].socket, mainQueue[i].by)'
  <2>1. PICK do, s, u: do = mainQueue[i].do /\ s = mainQueue[i].socket /\ u = mainQueue[i].by
    OBVIOUS
  <2>2. TaskOK(do, s, u)'
    BY <1>1, <1>3, <2>1
  <2>3. do = mainQueue'[i].do /\ s = mainQueue'[i].socket /\ u = mainQueue'[i].by
    BY <1>2, <2>1
  <2> QED
    BY <2>2, <2>3 DEF TaskOK
<1> QED
  BY <1>4 DEF TaskInv

LEMMA OneMoreTask ==
    ASSUME NEW t \in Threads, NEW do, NEW s, BaseInv, TaskInv, Ask(t, do, s), TaskOK(do, s, t)',
           \A u \in waiting: \A do1, s1: TaskOK(do1, s1, u) => TaskOK(do1, s1, u)'
    PROVE  TaskInv'
<1> DEFINE k == [do |-> do, socket |-> s, by |-> t]
           n == Len(mainQueue)
<1>1. mainQueue \in Seq(CreatedTask) /\ mainQueue' = Append(mainQueue, k)
  BY DEF BaseInv, TasksInv, Ask
<1>2. k.do = do /\ k.socket = s /\ k.by = t
  OBVIOUS
<1> HIDE DEF k
<1>3. /\ \A i \in DOMAIN mainQueue': i \in DOMAIN mainQueue \/ i = n + 1
      /\ \A i \in DOMAIN mainQueue: mainQueue'[i] = mainQueue[i]
      /\ mainQueue'[n + 1] = k
  BY <1>1
<1>4. ASSUME NEW i \in DOMAIN mainQueue', NEW do1, NEW s1, NEW u, do1 = mainQueue'[i].do,
             s1 = mainQueue'[i].socket, u = mainQueue'[i].by
      PROVE  TaskOK(do1, s1, u)'
  <2>1. CASE i = n + 1
    <3>1. do1 = do /\ s1 = s /\ u = t
      BY <1>2, <1>3, <1>4, <2>1
    <3> QED
      BY <3>1
  <2>2. CASE i \in DOMAIN mainQueue
    <3>1. do1 = mainQueue[i].do /\ s1 = mainQueue[i].socket /\ u = mainQueue[i].by
      BY <1>3, <1>4, <2>2
    <3>2. u \in waiting /\ TaskOK(do1, s1, u)
      BY <2>2, <3>1 DEF BaseInv, TasksInv, TaskInv
    <3> QED
      BY <3>2
  <2> QED
    BY <1>3, <2>1, <2>2
<1>5. ASSUME NEW i \in DOMAIN mainQueue'
      PROVE  TaskOK(mainQueue[i].do, mainQueue[i].socket, mainQueue[i].by)'
  <2>1. PICK do1, s1, u: do1 = mainQueue'[i].do /\ s1 = mainQueue'[i].socket /\ u = mainQueue'[i].by
    OBVIOUS
  <2>2. TaskOK(do1, s1, u)'
    BY <1>4, <2>1
  <2> QED
    BY <2>1, <2>2 DEF TaskOK
<1> QED
  BY <1>5 DEF TaskInv

\* No socket is added or removed, and no channel mapped.
LEMMA SameSockets ==
    ASSUME SocketInv, WebOpen' => WebOpen, UNCHANGED <<registered, channelMap>>,
           \A s: (Adding(s)' <=> Adding(s)) /\ (Removing(s)' <=> Removing(s))
    PROVE  SocketInv'
<1>1. InUse' = InUse
  BY DEF InUse, Opened
<1> QED
  BY <1>1 DEF SocketInv

LEMMA SameEndings ==
    ASSUME NEW t \in Threads, UNCHANGED channelMap, waiting' = waiting \/ waiting' = waiting \cup {t},
           \A u \in Threads: u # t => First(u)' = First(u),
           First(t)[1] \notin {"map", "erase"},
           t \in waiting' \/ First(t)'[1] \notin {"map", "erase"}
    PROVE  \A s: (Adding(s)' <=> Adding(s)) /\ (Removing(s)' <=> Removing(s))
<1> SUFFICES ASSUME NEW s PROVE (Adding(s)' <=> Adding(s)) /\ (Removing(s)' <=> Removing(s))
  OBVIOUS
<1>1. \A c, r: <<"map", c, r>>[1] = "map" /\ <<"erase", c>>[1] = "erase"
  OBVIOUS
<1>2. \A u \in Threads: u # t => (u \in waiting' <=> u \in waiting)
  OBVIOUS
<1>3. Adding(s)' <=> Adding(s)
  BY <1>1, <1>2 DEF Adding
<1>4. Removing(s)' <=> Removing(s)
  BY <1>1, <1>2 DEF Removing
<1> QED
  BY <1>3, <1>4

\* One thread goes on elsewhere; no lock is taken, and neither the map nor the
\* main thread's queue touched.
LEMMA StillOwn ==
    ASSUME NEW t \in Threads, SocketsInv, t \notin waiting,
           \A u \in Threads: u # t => todo'[u] = todo[u],
           First(t)[1] \notin {"map", "erase"},
           First(t)'[1] \notin {"connect", "map", "erase", "reset"},
           \A z: Has(todo'[t], z) /\ z[1] \in Locking => Has(todo[t], z),
           UNCHANGED <<registered, closed, mainQueue, waiting, channelMap, channelOf, mutex,
                       webSocketMutex>>
    PROVE  OwnInv'
<1>1. \A u \in Threads: u # t => First(u)' = First(u)
  BY DEF First
<1>2. LockInv'
  BY DEF LockInv, SocketsInv, OwnInv
<1>3. ChannelInv'
  <2>1. \A c, s: <<"map", c, s>>[1] = "map" /\ <<"connect", c>>[1] = "connect"
    OBVIOUS
  <2>2. \A u \in Threads, c \in Channels:
          /\ First(u)' = <<"connect", c>> => First(u) = <<"connect", c>>
          /\ \A s: First(u)' = <<"map", c, s>> => First(u) = <<"map", c, s>>
    BY <1>1, <2>1
  <2>3. Opened' = Opened
    BY DEF Opened
  <2> QED
    BY <2>2, <2>3 DEF ChannelInv, SocketsInv, OwnInv
<1>4. WebOpen' <=> WebOpen
  BY DEF WebOpen
<1>5. TaskInv'
  <2>1. \A u \in waiting: First(u)' = First(u)
    BY <1>1 DEF SocketsInv, BaseInv, TasksInv, CreatedTask
  <2>2. \A u \in waiting: \A do, s: TaskOK(do, s, u) => TaskOK(do, s, u)'
    BY <1>4, <2>1, TasksStay
  <2> QED
    BY <2>2, SameTasks DEF SocketsInv, OwnInv
<1>6. SocketInv'
  BY <1>1, <1>4, SameEndings, SameSockets DEF SocketsInv, OwnInv
<1>7. ResetInv'
  <2>1. User \in Threads
    BY ForwarderAssumption DEF Threads
  <2> QED
    BY <1>1, <1>4, <2>1 DEF ResetInv, SocketsInv, OwnInv
<1> QED
  BY <1>2, <1>3, <1>5, <1>6, <1>7 DEF OwnInv

LEMMA QuietTurn ==
    ASSUME NEW t \in Threads, NEW x, NEW ss, SocketsInv, Turn(t, x, ss),
           x[1] \notin Locking \cup Closing, \A z: Has(ss, z) => z[1] \notin Locking,
           UNCHANGED <<registered, closed, mainQueue, waiting, channelMap, channelOf, mutex,
                       webSocketMutex>>
    PROVE  OwnInv'
<1>1. BaseInv /\ CreatedLocals \subseteq CreatedLocals'
  BY SameCreated DEF SocketsInv
<1>2. /\ First(t) = x /\ Has(todo[t], x) /\ t \notin waiting
      /\ \A u \in Threads: u # t => First(u)' = First(u) /\ todo'[u] = todo[u]
      /\ ss # <<>> => First(t)' = ss[1]
      /\ ss = <<>> => First(t)' = <<"none">> \/ (Follows(x, First(t)') /\ Later(todo[t], First(t)'))
      /\ \A z: Has(todo'[t], z) => Has(ss, z) \/ Later(todo[t], z)
      /\ \A z: Later(todo[t], z) => z[1] \in {"finish", "reset", "unlock", "send"} /\ Has(todo[t], z)
  BY <1>1, HeadAfter
<1>3. First(t)'[1] \notin {"connect", "map", "erase", "reset"}
  <2>1. CASE ss = <<>>
    BY <1>2, <2>1 DEF Follows
  <2>2. CASE ss # <<>>
    <3>1. Has(ss, ss[1])
      BY <2>2, HeadOrLater DEF Turn
    <3>2. ss[1][1] \notin Locking /\ ss[1][1] # "reset"
      BY <3>1 DEF Turn, Fits
    <3> QED
      BY <1>2, <2>2, <3>2 DEF Locking
  <2> QED
    BY <2>1, <2>2
<1>4. x[1] \notin {"map", "erase"}
  BY DEF Locking
<1> QED
  BY <1>2, <1>3, <1>4, StillOwn

-----------------------------------------------------------------------------
(* Every step keeps it *)

LEMMA FinishKinds ==
    /\ \A c, frame: <<"send", c, frame>>[1] \notin Locking \cup Closing
    /\ \A c: /\ <<"forward", c>>[1] \notin Locking \cup Closing
             /\ <<"open", c>>[1] \notin Locking \cup Closing
             /\ <<"removeChannel", c>>[1] \notin Locking \cup Closing
    /\ \A c, s: <<"write", c, s>>[1] \notin Locking \cup Closing
    /\ \A s, event: /\ event \in {"readable", "exception", "timeout"}
                         => <<event, s>>[1] \notin Locking \cup Closing
                    /\ <<"finish", event, s>>[1] \notin Locking \cup Closing
    /\ <<"ping">>[1] \notin Locking \cup Closing
    /\ <<"closeWebSocket">>[1] \notin Locking
BY DEF Locking, Closing

LEMMA QuietNone ==
    ASSUME NEW t \in Threads, NEW x, SocketsInv, At(t, x), Then(t, <<>>), x[1] \notin Locking \cup Closing,
           UNCHANGED <<registered, closed, mainQueue, waiting, channelMap, channelOf, mutex,
                       webSocketMutex>>
    PROVE  OwnInv'
<1>1. Turn(t, x, <<>>)
  BY Turns
<1>2. \A z: ~Has(<<>>, z)
  BY Steps0
<1> QED
  BY <1>1, <1>2, QuietTurn

LEMMA QuietOne ==
    ASSUME NEW t \in Threads, NEW x, NEW y, SocketsInv, Turn(t, x, <<y>>), x[1] \notin Locking \cup Closing,
           y[1] \notin Locking,
           UNCHANGED <<registered, closed, mainQueue, waiting, channelMap, channelOf, mutex,
                       webSocketMutex>>
    PROVE  OwnInv'
<1>1. \A z: Has(<<y>>, z) <=> z = y
  BY Steps1
<1> QED
  BY <1>1, QuietTurn

LEMMA QuietTwo ==
    ASSUME NEW t \in Threads, NEW x, NEW y, NEW w, SocketsInv, Turn(t, x, <<y, w>>),
           x[1] \notin Locking \cup Closing, y[1] \notin Locking, w[1] \notin Locking,
           UNCHANGED <<registered, closed, mainQueue, waiting, channelMap, channelOf, mutex,
                       webSocketMutex>>
    PROVE  OwnInv'
<1>1. \A z: Has(<<y, w>>, z) <=> z = y \/ z = w
  <2>1. Len(<<y, w>>) = 2 /\ <<y, w>>[1] = y /\ <<y, w>>[2] = w
    OBVIOUS
  <2>2. \A i \in 1 .. 2: i = 1 \/ i = 2
    OBVIOUS
  <2> QED
    BY <2>1, <2>2 DEF Has
<1> QED
  BY <1>1, QuietTurn

LEMMA SendFrameOwn == ASSUME NEW t \in Threads, SocketsInv, SendFrame(t) PROVE OwnInv'
<1>1. PICK c \in Channels, frame \in Frames:
        /\ At(t, <<"send", c, frame>>)
        /\ Then(t, <<>>) \/ Then(t, << <<"closeWebSocket">> >>)
  BY DEF SendFrame, Frames
<1>2. UNCHANGED <<registered, closed, mainQueue, waiting, channelMap, channelOf, mutex, webSocketMutex>>
  BY DEF SendFrame, Local, channelVars, webVars
<1> DEFINE x == <<"send", c, frame>>
           y == <<"closeWebSocket">>
<1>3. x[1] \notin Locking \cup Closing /\ y[1] \notin Locking
  BY FinishKinds
<1>4. Then(t, <<y>>) => Turn(t, x, <<y>>)
  BY <1>1, Turns
<1> HIDE DEF x
<1>5. CASE Then(t, <<>>)
  BY <1>1, <1>2, <1>3, <1>5, QuietNone DEF x
<1>6. CASE Then(t, <<y>>)
  <2> HIDE DEF y
  <2> QED
    BY <1>2, <1>3, <1>4, <1>6, QuietOne
<1> QED
  BY <1>1, <1>5, <1>6

LEMMA SendPingOwn == ASSUME NEW t \in Threads, SocketsInv, SendPing(t) PROVE OwnInv'
<1> DEFINE x == <<"ping">>
           y == <<"closeWebSocket">>
<1>1. At(t, x) /\ (Then(t, <<>>) \/ Then(t, <<y>>))
  BY DEF SendPing
<1>2. UNCHANGED <<registered, closed, mainQueue, waiting, channelMap, channelOf, mutex, webSocketMutex>>
  BY DEF SendPing, Local, channelVars, webVars
<1>3. x[1] \notin Locking \cup Closing /\ y[1] \notin Locking
  BY FinishKinds
<1>4. Then(t, <<y>>) => Turn(t, x, <<y>>)
  BY <1>1, Turns
<1> HIDE DEF x, y
<1> QED
  BY <1>1, <1>2, <1>3, <1>4, QuietNone, QuietOne

LEMMA ForwardDataOwn == ASSUME NEW t \in Threads, SocketsInv, ForwardData(t) PROVE OwnInv'
<1>1. PICK c \in Channels:
        /\ At(t, <<"forward", c>>)
        /\ \/ Then(t, << <<"send", c, "ERROR">> >>)
           \/ channelMap[c] # NoSocket /\ Then(t, << <<"write", c, channelMap[c]>> >>)
  BY DEF ForwardData
<1>2. UNCHANGED <<registered, closed, mainQueue, waiting, channelMap, channelOf, mutex, webSocketMutex>>
  BY DEF ForwardData, Local, channelVars, webVars
<1> DEFINE x == <<"forward", c>>
           y == <<"send", c, "ERROR">>
           w == <<"write", c, channelMap[c]>>
<1>3. x[1] \notin Locking \cup Closing /\ y[1] \notin Locking /\ w[1] \notin Locking
  BY FinishKinds
<1>4. channelMap[c] # NoSocket => channelMap[c] \in CreatedLocals'
  BY <1>2, SameCreated DEF SocketsInv, BaseInv, ValuesInv
<1>5. (Then(t, <<y>>) => Turn(t, x, <<y>>)) /\ (channelMap[c] # NoSocket /\ Then(t, <<w>>) => Turn(t, x, <<w>>))
  BY <1>1, <1>4, ChannelTurns
<1>6. Then(t, <<y>>) \/ (channelMap[c] # NoSocket /\ Then(t, <<w>>))
  BY <1>1
<1> HIDE DEF x, y, w
<1> QED
  BY <1>2, <1>3, <1>5, <1>6, QuietOne

LEMMA WriteOwn == ASSUME NEW t \in Threads, SocketsInv, Write(t) PROVE OwnInv'
<1>1. PICK c \in Channels, s \in Locals:
        /\ At(t, <<"write", c, s>>)
        /\ Then(t, <<>>) \/ Then(t, << <<"removeChannel", c>>, <<"send", c, "ERROR">> >>)
  BY DEF Write
<1>2. UNCHANGED <<registered, closed, mainQueue, waiting, channelMap, channelOf, mutex, webSocketMutex>>
  BY DEF Write, Local, channelVars, webVars
<1> DEFINE x == <<"write", c, s>>
           y == <<"removeChannel", c>>
           w == <<"send", c, "ERROR">>
<1>3. x[1] \notin Locking \cup Closing /\ y[1] \notin Locking /\ w[1] \notin Locking
  BY FinishKinds
<1>4. Then(t, <<y, w>>) => Turn(t, x, <<y, w>>)
  BY <1>1, EndTurns
<1>5. At(t, x) /\ (Then(t, <<>>) \/ Then(t, <<y, w>>))
  BY <1>1
<1> HIDE DEF x, y, w
<1> QED
  BY <1>2, <1>3, <1>4, <1>5, QuietNone, QuietTwo

LEMMA MultiplexDataOwn == ASSUME NEW t \in Threads, SocketsInv, MultiplexData(t) PROVE OwnInv'
<1>1. PICK s \in Locals: /\ At(t, <<"readable", s>>)
                         /\ Then(t, << <<"send", channelOf[s], "DATA">> >>)
  BY DEF MultiplexData
<1>2. UNCHANGED <<registered, closed, mainQueue, waiting, channelMap, channelOf, mutex, webSocketMutex>>
  BY DEF MultiplexData, Local, channelVars, webVars
<1>3. channelOf[s] \in Channels
  BY <1>1, CreatedWhenAt DEF SocketsInv
<1> DEFINE x == <<"readable", s>>
           y == <<"send", channelOf[s], "DATA">>
<1>4. x[1] \notin Locking \cup Closing /\ y[1] \notin Locking
  BY FinishKinds
<1>5. Turn(t, x, <<y>>)
  BY <1>1, <1>3, ChannelTurns
<1> HIDE DEF x, y
<1> QED
  BY <1>2, <1>4, <1>5, QuietOne

LEMMA MultiplexEndOwn == ASSUME NEW t \in Threads, SocketsInv, MultiplexEnd(t) PROVE OwnInv'
<1>1. PICK s \in Locals, frame \in {"CLOSE", "ERROR"}, event \in {"readable", "exception", "timeout"}:
        /\ At(t, <<event, s>>)
        /\ Then(t, << <<"removeChannel", channelOf[s]>>, <<"send", channelOf[s], frame>> >>)
  BY DEF MultiplexEnd
<1>2. UNCHANGED <<registered, closed, mainQueue, waiting, channelMap, channelOf, mutex, webSocketMutex>>
  BY DEF MultiplexEnd, Local, channelVars, webVars
<1>3. channelOf[s] \in Channels
  BY <1>1, CreatedWhenAt DEF SocketsInv
<1> DEFINE c == channelOf[s]
           x == <<event, s>>
           y == <<"removeChannel", c>>
           w == <<"send", c, frame>>
<1>4. x[1] \notin Locking \cup Closing /\ y[1] \notin Locking /\ w[1] \notin Locking
  BY FinishKinds
<1>5. x \in {<<"write", c, s>>, <<"readable", s>>, <<"exception", s>>, <<"timeout", s>>}
  OBVIOUS
<1>6. c \in Channels /\ At(t, x) /\ Then(t, <<y, w>>)
  BY <1>1, <1>3
<1> HIDE DEF c, x
<1>7. Turn(t, x, <<y, w>>)
  BY <1>5, <1>6, EndTurns
<1> HIDE DEF y, w
<1> QED
  BY <1>2, <1>4, <1>7, QuietTwo

\* What the handler of the web socket does.
LEMMA WebOwn ==
    ASSUME NEW t \in Threads, SocketsInv, At(t, <<"readable", WebSocket>>),
           UNCHANGED <<registered, closed, mainQueue, waiting, channelMap, channelOf, mutex,
                       webSocketMutex>>,
           \/ Then(t, <<>>) \/ Then(t, << <<"closeWebSocket">> >>)
           \/ \E c \in Channels: \/ Then(t, << <<"forward", c>> >>) \/ Then(t, << <<"open", c>> >>)
                                 \/ Then(t, << <<"removeChannel", c>> >>)
                                 \/ Then(t, << <<"send", c, "FAULT">> >>)
                                 \/ Then(t, << <<"send", c, "ERROR">> >>)
    PROVE  OwnInv'
<1> DEFINE x == <<"readable", WebSocket>>
<1>1. x[1] \notin Locking \cup Closing
  BY FinishKinds
<1>2. CASE Then(t, <<>>)
  BY <1>1, <1>2, QuietNone
<1>3. ASSUME NEW y, Then(t, <<y>>), \/ y = <<"closeWebSocket">>
                                    \/ \E c \in Channels: y \in {<<"forward", c>>, <<"open", c>>,
                                         <<"removeChannel", c>>, <<"send", c, "FAULT">>,
                                         <<"send", c, "ERROR">>}
      PROVE  OwnInv'
  <2>1. y[1] \notin Locking
    BY <1>3 DEF Locking
  <2>2. Turn(t, x, <<y>>)
    <3>1. CASE y = <<"closeWebSocket">>
      BY <1>3, <3>1, Turns
    <3>2. ASSUME NEW c \in Channels, y \in {<<"forward", c>>, <<"open", c>>, <<"removeChannel", c>>}
          PROVE  Turn(t, x, <<y>>)
      BY <1>3, <3>2, ChannelTurns
    <3>3. ASSUME NEW c \in Channels, y \in {<<"send", c, "FAULT">>, <<"send", c, "ERROR">>}
          PROVE  Turn(t, x, <<y>>)
      BY <1>3, <3>3, ChannelTurns
    <3> QED
      BY <1>3, <3>1, <3>2, <3>3
  <2> HIDE DEF x
  <2> QED
    BY <1>1, <2>1, <2>2, QuietOne
<1> QED
  BY <1>2, <1>3

\* The holder of _mutex is alone in what _mutex guards.
LEMMA Alone ==
    ASSUME NEW t, BaseInv, LockInv, mutex = t
    PROVE  \A u \in Threads: u # t => First(u)[1] \notin Locking
<1> SUFFICES ASSUME NEW u \in Threads, u # t, First(u)[1] \in Locking PROVE FALSE
  OBVIOUS
<1>1. Has(todo[u], First(u))
  BY FirstIsThere DEF Locking
<1> QED
  BY <1>1 DEF LockInv

LEMMA KeptChannels ==
    ASSUME NEW t \in Threads, ChannelInv,
           \A u \in Threads: u # t => First(u)' = First(u),
           First(t)'[1] \notin {"connect", "map"},
           \A c \in Channels: channelMap'[c] \in {channelMap[c], NoSocket},
           UNCHANGED channelOf
    PROVE  ChannelInv'
<1>1. \A c, s: <<"map", c, s>>[1] = "map" /\ <<"connect", c>>[1] = "connect"
  OBVIOUS
<1>2. \A u \in Threads, c \in Channels:
        /\ First(u)' = <<"connect", c>> => First(u) = <<"connect", c>>
        /\ \A s: First(u)' = <<"map", c, s>> => First(u) = <<"map", c, s>>
  BY <1>1
<1>3. \A c \in Opened': c \in Opened /\ channelMap'[c] = channelMap[c]
  BY DEF Opened
<1> QED
  BY <1>2, <1>3 DEF ChannelInv

LEMMA KeptReset ==
    ASSUME NEW t \in Threads, NEW x, NEW ss, BaseInv, ResetInv, Turn(t, x, ss),
           CreatedLocals \subseteq CreatedLocals', WebOpen' => WebOpen,
           x[1] \notin Closing \/ ss # <<>> \/ ~WebOpen'
    PROVE  ResetInv'
<1>1. /\ \A u \in Threads: u # t => First(u)' = First(u)
      /\ ss # <<>> => First(t)' = ss[1]
      /\ ss = <<>> => First(t)' = <<"none">> \/ (Follows(x, First(t)') /\ Later(todo[t], First(t)'))
  BY HeadAfter
<1>2. User \in Threads
  BY ForwarderAssumption DEF Threads
<1>3. CASE User # t
  BY <1>1, <1>2, <1>3 DEF ResetInv
<1>4. CASE ~WebOpen'
  BY <1>4 DEF ResetInv
<1>5. CASE ss # <<>>
  <2>1. Has(ss, ss[1])
    BY <1>5, HeadOrLater DEF Turn
  <2>2. First(t)'[1] # "reset"
    BY <1>1, <1>5, <2>1 DEF Turn, Fits
  <2> QED
    BY <1>3, <2>2 DEF ResetInv
<1>6. CASE ss = <<>> /\ x[1] \notin Closing
  <2>1. First(t)'[1] # "reset"
    BY <1>1, <1>6 DEF Follows
  <2> QED
    BY <1>3, <2>1 DEF ResetInv
<1> QED
  BY <1>3, <1>4, <1>5, <1>6

LEMMA ReceiveOwn ==
    ASSUME NEW t \in Threads, SocketsInv,
           \/ ReceiveData(t) \/ ReceiveOpen(t) \/ ReceiveClose(t) \/ ReceiveOther(t) \/ ReceivePong(t)
    PROVE  OwnInv'
<1>1. /\ At(t, <<"readable", WebSocket>>)
      /\ UNCHANGED <<registered, closed, mainQueue, waiting, channelMap, channelOf, mutex, webSocketMutex>>
  BY
     DEF ReceiveData, ReceiveOpen, ReceiveClose, ReceiveOther, ReceivePong, Demultiplexing,
         Local,
         channelVars
<1>2. \/ Then(t, <<>>)
      \/ \E c \in Channels: \/ Then(t, << <<"forward", c>> >>) \/ Then(t, << <<"open", c>> >>)
                            \/ Then(t, << <<"removeChannel", c>> >>)
                            \/ Then(t, << <<"send", c, "FAULT">> >>)
                            \/ Then(t, << <<"send", c, "ERROR">> >>)
  BY DEF ReceiveData, ReceiveOpen, ReceiveClose, ReceiveOther, ReceivePong
<1> QED
  BY <1>1, <1>2, WebOwn

LEMMA ReceiveFailsOwn == ASSUME NEW t \in Threads, SocketsInv, ReceiveFails(t) PROVE OwnInv'
<1>1. /\ UNCHANGED <<registered, closed, mainQueue, waiting, channelMap, channelOf, mutex, webSocketMutex>>
      /\ Then(t, << <<"closeWebSocket">> >>)
  BY DEF ReceiveFails, Local, channelVars, webVars
<1>2. CASE At(t, <<"readable", WebSocket>>)
  BY <1>1, <1>2, WebOwn
<1>3. CASE At(t, <<"exception", WebSocket>>)
  <2> DEFINE x == <<"exception", WebSocket>>
             y == <<"closeWebSocket">>
  <2>1. x[1] \notin Locking \cup Closing /\ y[1] \notin Locking
    BY FinishKinds
  <2>2. Turn(t, x, <<y>>)
    BY <1>1, <1>3, Turns
  <2> HIDE DEF x, y
  <2> QED
    BY <1>1, <2>1, <2>2, QuietOne
<1> QED
  BY <1>2, <1>3 DEF ReceiveFails

LEMMA DemultiplexTimeoutOwn ==
    ASSUME NEW t \in Threads, SocketsInv, DemultiplexTimeout(t)
    PROVE  OwnInv'
<1> DEFINE x == <<"timeout", WebSocket>>
           y == <<"closeWebSocket">>
           w == <<"ping">>
<1>1. At(t, x) /\ (Then(t, <<w>>) \/ Then(t, <<y>>))
  BY DEF DemultiplexTimeout
<1>2. UNCHANGED <<registered, closed, mainQueue, waiting, channelMap, channelOf, mutex, webSocketMutex>>
  BY DEF DemultiplexTimeout, Local, channelVars
<1>3. x[1] \notin Locking \cup Closing /\ y[1] \notin Locking /\ w[1] \notin Locking
  BY FinishKinds
<1>4. (Then(t, <<y>>) => Turn(t, x, <<y>>)) /\ (Then(t, <<w>>) => Turn(t, x, <<w>>))
  BY <1>1, Turns
<1> HIDE DEF x, y, w
<1> QED
  BY <1>1, <1>2, <1>3, <1>4, QuietOne

\* A step that may take or release _mutex, and touches neither the map nor the
\* main thread's queue.
LEMMA LockStepOwn ==
    ASSUME NEW t \in Threads, NEW x, NEW ss, SocketsInv, Turn(t, x, ss),
           x[1] \notin Closing \cup {"map", "erase"}, First(t)'[1] \notin {"map", "erase"},
           \A c \in Channels: First(t)' = <<"connect", c>> => channelMap[c] = NoSocket,
           \/ mutex = Nobody /\ mutex' = t
           \/ /\ mutex' = Nobody /\ x[1] \in {"unlock", "erase", "connect"}
              /\ \A z: Has(ss, z) => z[1] \notin Locking,
           UNCHANGED <<registered, closed, mainQueue, waiting, channelMap, channelOf, webSocketMutex>>
    PROVE  OwnInv'
<1>1. BaseInv /\ CreatedLocals \subseteq CreatedLocals' /\ LockInv
  BY SameCreated DEF SocketsInv, OwnInv
<1>2. First(t) = x /\ t \notin waiting /\ \A u \in Threads: u # t => First(u)' = First(u)
  BY <1>1, HeadAfter
<1>3. LockInv'
  BY <1>1, LockTurn
<1>4. ChannelInv'
  <2>1. \A c, s: <<"map", c, s>>[1] = "map"
    OBVIOUS
  <2>2. \A u \in Threads, c \in Channels:
          /\ First(u)' = <<"connect", c>> => First(u) = <<"connect", c>> \/ channelMap[c] = NoSocket
          /\ \A s: First(u)' = <<"map", c, s>> => First(u) = <<"map", c, s>>
    BY <1>2, <2>1
  <2>3. Opened' = Opened
    BY DEF Opened
  <2> QED
    BY <2>2, <2>3 DEF ChannelInv, SocketsInv, OwnInv
<1>5. WebOpen' <=> WebOpen
  BY DEF WebOpen
<1>6. TaskInv'
  <2>1. \A u \in waiting: First(u)' = First(u)
    BY <1>2 DEF SocketsInv, BaseInv, TasksInv, CreatedTask
  <2>2. \A u \in waiting: \A do, s: TaskOK(do, s, u) => TaskOK(do, s, u)'
    BY <1>5, <2>1, TasksStay
  <2> QED
    BY <2>2, SameTasks DEF SocketsInv, OwnInv
<1>7. SocketInv'
  BY <1>2, <1>5, SameEndings, SameSockets DEF SocketsInv, OwnInv
<1>8. ResetInv'
  BY <1>1, <1>5, KeptReset DEF SocketsInv, OwnInv
<1> QED
  BY <1>3, <1>4, <1>6, <1>7, <1>8 DEF OwnInv

\* A step that has the main thread do something.
LEMMA AskOwn ==
    ASSUME NEW t \in Threads, NEW x, NEW ss, NEW do, NEW s, SocketsInv, Turn(t, x, ss), Ask(t, do, s),
           LockInv', ChannelInv', TaskOK(do, s, t)', x[1] \notin {"map", "erase"},
           CreatedLocals \subseteq CreatedLocals', webSocketMutex' \in {webSocketMutex, t},
           x[1] \notin Closing \/ ss # <<>>,
           UNCHANGED <<registered, closed, channelMap>>
    PROVE  OwnInv'
<1>1. BaseInv /\ TaskInv /\ waiting' = waiting \cup {t} /\ Nobody # t
  BY ForwarderAssumption DEF SocketsInv, OwnInv, Ask
<1>2. First(t) = x /\ t \notin waiting /\ \A u \in Threads: u # t => First(u)' = First(u)
  BY <1>1, HeadAfter
<1>3. WebOpen' => WebOpen
  BY <1>1 DEF WebOpen
<1>4. TaskInv'
  <2>1. \A u \in waiting: First(u)' = First(u)
    BY <1>2 DEF SocketsInv, BaseInv, TasksInv, CreatedTask
  <2>2. \A u \in waiting: \A do1, s1: TaskOK(do1, s1, u) => TaskOK(do1, s1, u)'
    BY <1>3, <2>1, TasksStay
  <2> QED
    BY <1>1, <2>2, OneMoreTask
<1>5. SocketInv'
  <2>1. \A r: (Adding(r)' <=> Adding(r)) /\ (Removing(r)' <=> Removing(r))
    BY <1>1, <1>2, SameEndings
  <2> QED
    BY <1>3, <2>1, SameSockets DEF SocketsInv, OwnInv
<1>6. ResetInv'
  BY <1>1, <1>3, KeptReset DEF SocketsInv, OwnInv
<1> QED
  BY <1>4, <1>5, <1>6 DEF OwnInv

LEMMA OpenChannelOwn == ASSUME NEW t \in Threads, SocketsInv, OpenChannel(t) PROVE OwnInv'
<1>1. PICK c \in Channels:
        /\ At(t, <<"open", c>>) /\ mutex = Nobody
        /\ \/ Then(t, << <<"send", c, "FAULT">> >>) /\ UNCHANGED mutex
           \/ Then(t, << <<"connect", c>> >>) /\ mutex' = t /\ channelMap[c] = NoSocket
  BY DEF OpenChannel
<1>2. UNCHANGED <<registered, closed, mainQueue, waiting, channelMap, channelOf, webSocketMutex>>
  BY DEF OpenChannel, Local, webVars
<1> DEFINE x == <<"open", c>>
           y == <<"send", c, "FAULT">>
           w == <<"connect", c>>
<1>3. x[1] \notin Locking \cup Closing /\ y[1] \notin Locking
  BY FinishKinds
<1>4. (Then(t, <<y>>) => Turn(t, x, <<y>>)) /\ (Then(t, <<w>>) => Turn(t, x, <<w>>))
  BY <1>1, ChannelTurns
<1>5. \A d: w = <<"connect", d>> => d = c
  OBVIOUS
<1>6. w[1] = "connect"
  OBVIOUS
<1>7. \/ Then(t, <<y>>) /\ UNCHANGED mutex
      \/ Then(t, <<w>>) /\ mutex' = t /\ channelMap[c] = NoSocket
  BY <1>1
<1> HIDE DEF x, y, w
<1>8. CASE Then(t, <<y>>) /\ UNCHANGED mutex
  BY <1>2, <1>3, <1>4, <1>8, QuietOne
<1>9. CASE Then(t, <<w>>) /\ mutex' = t /\ channelMap[c] = NoSocket
  <2>1. <<w>> # <<>> /\ <<w>>[1] = w
    OBVIOUS
  <2>2. Turn(t, x, <<w>>) /\ BaseInv /\ CreatedLocals \subseteq CreatedLocals'
    BY <1>2, <1>4, <1>9, SameCreated DEF SocketsInv
  <2>3. First(t)' = w
    BY <2>1, <2>2, HeadAfter
  <2>4. \A d \in Channels: First(t)' = <<"connect", d>> => channelMap[d] = NoSocket
    BY <1>5, <1>9, <2>3
  <2>5. x[1] \notin Closing \cup {"map", "erase"} /\ First(t)'[1] \notin {"map", "erase"}
    BY <1>3, <1>6, <2>3 DEF Locking
  <2> QED
    BY <1>1, <1>2, <1>9, <2>2, <2>4, <2>5, LockStepOwn
<1> QED
  BY <1>7, <1>8, <1>9

LEMMA UnlockOwn == ASSUME NEW t \in Threads, SocketsInv, Unlock(t) PROVE OwnInv'
<1> DEFINE x == <<"unlock">>
<1>1. /\ UNCHANGED <<registered, closed, mainQueue, waiting, channelMap, channelOf, webSocketMutex>>
      /\ mutex' = Nobody /\ At(t, x) /\ Then(t, <<>>)
  BY DEF Unlock, Local, webVars
<1>2. x[1] = "unlock" /\ x[1] \notin Closing \cup {"map", "erase"}
  BY DEF Closing
<1>3. Turn(t, x, <<>>)
  BY <1>1, Turns
<1> HIDE DEF x
<1>4. First(t)' = <<"none">> \/ Follows(x, First(t)')
  BY <1>1, <1>3, HeadAfter, SameCreated DEF SocketsInv
<1>5. First(t)'[1] \notin {"connect", "map", "erase"}
  BY <1>4 DEF Follows
<1>6. \A z: ~Has(<<>>, z)
  BY Steps0
<1>7. \A c: <<"connect", c>>[1] = "connect"
  OBVIOUS
<1> QED
  BY <1>1, <1>2, <1>3, <1>5, <1>6, <1>7, LockStepOwn

LEMMA ConnectOwn == ASSUME NEW t \in Threads, SocketsInv, Connect(t) PROVE OwnInv'
<1>1. PICK c \in Channels:
        /\ At(t, <<"connect", c>>)
        /\ \/ /\ mutex' = Nobody
              /\ Then(t, << <<"send", c, "FAULT">> >>)
              /\ UNCHANGED <<channelOf, mainQueue, waiting>>
           \/ \E s \in Unused:
                /\ channelOf' = [channelOf EXCEPT ![s] = c]
                /\ Ask(t, "add", s)
                /\ Then(t, << <<"map", c, s>>, <<"send", c, "CONFIRM">>, <<"unlock">> >>)
                /\ UNCHANGED mutex
  BY DEF Connect
<1>2. UNCHANGED <<registered, closed, channelMap, webSocketMutex>>
  BY DEF Connect, Asking, webVars
<1>0. BaseInv /\ LockInv /\ ChannelInv
  BY DEF SocketsInv, OwnInv
<1> DEFINE x == <<"connect", c>>
<1>3. x[1] = "connect" /\ x[1] \notin Closing \cup {"map", "erase"} /\ x[1] \in Locking
  BY DEF Closing, Locking
<1>4. CASE /\ mutex' = Nobody
           /\ Then(t, << <<"send", c, "FAULT">> >>)
           /\ UNCHANGED <<channelOf, mainQueue, waiting>>
  <2> DEFINE y == <<"send", c, "FAULT">>
  <2>1. Turn(t, x, <<y>>)
    BY <1>1, <1>4, ChannelTurns
  <2>2. y[1] \notin Locking /\ y[1] = "send" /\ \A d: y # <<"connect", d>>
    BY DEF Locking
  <2> HIDE DEF x, y
  <2>3. First(t)' = y
    <3>1. <<y>> # <<>> /\ <<y>>[1] = y
      OBVIOUS
    <3> QED
      BY <1>0, <1>4, <2>1, <3>1, HeadAfter, SameCreated
  <2>4. \A z: Has(<<y>>, z) => z[1] \notin Locking
    BY <2>2, Steps1
  <2> QED
    BY <1>2, <1>3, <1>4, <2>1, <2>2, <2>3, <2>4, LockStepOwn
<1>5. ASSUME NEW s \in Unused, channelOf' = [channelOf EXCEPT ![s] = c], Ask(t, "add", s),
             Then(t, << <<"map", c, s>>, <<"send", c, "CONFIRM">>, <<"unlock">> >>), UNCHANGED mutex
      PROVE  OwnInv'
  <2> DEFINE y == <<"map", c, s>>
             v == <<"send", c, "CONFIRM">>
             w == <<"unlock">>
             ss == <<y, v, w>>
  <2>1. /\ s \in Locals /\ channelOf[s] = Nobody /\ channelOf'[s] = c /\ c # Nobody
        /\ \A r \in Locals: channelOf[r] # Nobody => channelOf'[r] = channelOf[r]
    <3>1. channelOf \in [Locals -> Channels \cup {Nobody}]
      BY DEF SocketsInv, BaseInv, ValuesInv
    <3>2. s \in Locals /\ channelOf[s] = Nobody
      BY DEF Unused
    <3>3. c # Nobody
      BY ForwarderAssumption
    <3> QED
      BY <1>5, <3>1, <3>2, <3>3
  <2>2. CreatedLocals \subseteq CreatedLocals' /\ s \in CreatedLocals'
    BY <2>1 DEF CreatedLocals
  <2>3. Turn(t, x, ss)
    BY <1>1, <1>5, <2>2, EndTurns
  <2>4. y[1] = "map" /\ \A d, r: y = <<"map", d, r>> => d = c /\ r = s
    OBVIOUS
  <2>6. \A d: y # <<"connect", d>>
    OBVIOUS
  <2>7. ss # <<>> /\ ss[1] = y
    OBVIOUS
  <2>8. \A d, r: <<"connect", d>>[1] = "connect" /\ <<"map", d, r>>[1] = "map"
    OBVIOUS
  <2> HIDE DEF x, y, v, w, ss
  <2>9. /\ First(t) = x /\ Has(todo[t], x) /\ First(t)' = y
        /\ \A u \in Threads: u # t => First(u)' = First(u)
    BY <1>0, <2>2, <2>3, <2>7, HeadAfter
  <2>10. mutex = t /\ \A u \in Threads: u # t => First(u)[1] \notin Locking
    BY <1>0, <1>3, <2>9, Alone DEF LockInv
  <2>11. LockInv'
    BY <1>0, <1>5, <2>2, <2>3, <2>10, LockTurn
  <2>12. channelMap[c] = NoSocket
    BY <1>0, <2>9 DEF ChannelInv, x
  <2>13. ChannelInv'
    <3>1. \A d \in Opened': channelOf'[channelMap'[d]] = d
      <4> SUFFICES ASSUME NEW d \in Opened' PROVE channelOf'[channelMap'[d]] = d
        OBVIOUS
      <4>1. d \in Opened /\ d \in Channels /\ channelMap'[d] = channelMap[d] /\ channelMap[d] \in Locals
        BY <1>2 DEF Opened, SocketsInv, BaseInv, ValuesInv, CreatedLocals
      <4>2. channelOf[channelMap[d]] = d /\ d # Nobody
        BY <1>0, <4>1, ForwarderAssumption DEF ChannelInv
      <4> QED
        BY <2>1, <4>1, <4>2
    <3>2. ASSUME NEW u \in Threads, NEW d \in Channels
          PROVE  /\ First(u)' # <<"connect", d>>
                 /\ \A r \in Locals: First(u)' = <<"map", d, r>> => u = t
      BY <2>6, <2>8, <2>9, <2>10 DEF Locking
    <3> QED
      BY <1>2, <2>1, <2>4, <2>9, <2>12, <3>1, <3>2 DEF ChannelInv
  <2>14. TaskOK("add", s, t)'
    BY <2>9 DEF TaskOK, y
  <2>15. webSocketMutex' \in {webSocketMutex, t}
    BY <1>2
  <2> QED
    BY <1>2, <1>3, <1>5, <2>2, <2>3, <2>7, <2>11, <2>13, <2>14, <2>15, AskOwn
<1> QED
  BY <1>1, <1>4, <1>5

LEMMA RemoveChannelOwn == ASSUME NEW t \in Threads, SocketsInv, RemoveChannel(t) PROVE OwnInv'
<1>1. PICK c \in Channels:
        /\ At(t, <<"removeChannel", c>>) /\ mutex = Nobody
        /\ \/ Then(t, <<>>) /\ UNCHANGED <<mutex, mainQueue, waiting>>
           \/ /\ mutex' = t /\ Ask(t, "close", channelMap[c])
              /\ Then(t, << <<"erase", c>> >>)
  BY DEF RemoveChannel
<1>2. UNCHANGED <<registered, closed, channelMap, channelOf, webSocketMutex>>
  BY DEF RemoveChannel, Asking, webVars
<1>0. BaseInv /\ LockInv /\ ChannelInv /\ CreatedLocals \subseteq CreatedLocals'
  BY <1>2, SameCreated DEF SocketsInv, OwnInv
<1> DEFINE x == <<"removeChannel", c>>
           y == <<"erase", c>>
<1>3. x[1] \notin Locking \cup Closing /\ x[1] \notin {"map", "erase"}
  BY FinishKinds
<1>4. Then(t, <<y>>) => Turn(t, x, <<y>>)
  BY <1>1, ChannelTurns
<1>5. y[1] = "erase"
  OBVIOUS
<1>6. At(t, x) /\ \/ Then(t, <<>>) /\ UNCHANGED <<mutex, mainQueue, waiting>>
                  \/ mutex' = t /\ Ask(t, "close", channelMap[c]) /\ Then(t, <<y>>)
  BY <1>1
<1> HIDE DEF x
<1>7. CASE Then(t, <<>>) /\ UNCHANGED <<mutex, mainQueue, waiting>>
  BY <1>2, <1>3, <1>6, <1>7, QuietNone
<1>8. CASE mutex' = t /\ Ask(t, "close", channelMap[c]) /\ Then(t, <<y>>)
  <2>1. <<y>> # <<>> /\ <<y>>[1] = y
    OBVIOUS
  <2> HIDE DEF y
  <2>2. Turn(t, x, <<y>>)
    BY <1>4, <1>8
  <2>3. First(t)' = y /\ \A u \in Threads: u # t => First(u)' = First(u)
    BY <1>0, <2>1, <2>2, HeadAfter
  <2>4. LockInv'
    BY <1>0, <1>1, <1>8, <2>2, LockTurn
  <2>5. First(t)'[1] \notin {"connect", "map"}
    BY <1>5, <2>3
  <2>6. ChannelInv'
    BY <1>0, <1>2, <2>3, <2>5, KeptChannels
  <2>7. TaskOK("close", channelMap[c], t)'
    <3>1. First(t)' = <<"erase", c>> /\ channelMap'[c] = channelMap[c]
      BY <1>2, <2>3 DEF y
    <3>2. \A s: s = channelMap[c] => TaskOK("close", s, t)'
      BY <3>1 DEF TaskOK
    <3> QED
      BY <1>2, <3>2
  <2>8. webSocketMutex' \in {webSocketMutex, t}
    BY <1>2
  <2>9. \A s: s = channelMap[c] /\ TaskOK("close", s, t)' => OwnInv'
    BY <1>0, <1>2, <1>3, <1>8, <2>2, <2>4, <2>6, <2>8, AskOwn
  <2> QED
    BY <1>2, <2>7, <2>9
<1> QED
  BY <1>6, <1>7, <1>8

\* The user's thread, the workers: whoever closes the web socket.
LEMMA CloseWebSocketOwn == ASSUME NEW t \in Threads, SocketsInv, CloseWebSocket(t) PROVE OwnInv'
<1> DEFINE x == <<"closeWebSocket">>
           y == <<"removeSockets", Channels>>
<1>1. /\ At(t, x)
      /\ \/ /\ Then(t, <<>>) /\ UNCHANGED <<webSocketMutex, mainQueue, waiting>> /\ WebSocket \in closed
         \/ webSocketMutex' = t /\ Ask(t, "remove", WebSocket) /\ Then(t, <<y>>)
      /\ UNCHANGED <<registered, closed, channelMap, channelOf, mutex>>
  BY DEF CloseWebSocket, Asking, channelVars
<1>0. BaseInv /\ LockInv /\ ChannelInv /\ CreatedLocals \subseteq CreatedLocals'
  BY <1>1, SameCreated DEF SocketsInv, OwnInv
<1>2. (Then(t, <<>>) => Turn(t, x, <<>>)) /\ (Then(t, <<y>>) => Turn(t, x, <<y>>))
  BY <1>1, Turns
<1>3. /\ x[1] = "closeWebSocket" /\ x[1] \notin {"map", "erase"} /\ x[1] \in Closing
      /\ Closes(y) /\ y[1] = "removeSockets" /\ y[1] \notin Locking
  BY DEF Closing, Closes, Locking
<1>4. <<y>> # <<>> /\ <<y>>[1] = y
  OBVIOUS
<1> HIDE DEF x, y
<1>5. CASE Then(t, <<>>) /\ UNCHANGED <<webSocketMutex, mainQueue, waiting>> /\ WebSocket \in closed
  <2>1. Turn(t, x, <<>>) /\ ~WebOpen'
    BY <1>1, <1>2, <1>5 DEF WebOpen
  <2>2. /\ First(t)' = <<"none">> \/ Follows(x, First(t)')
        /\ First(t) = x /\ t \notin waiting
        /\ \A u \in Threads: u # t => First(u)' = First(u)
    BY <1>0, <2>1, HeadAfter
  <2>3. First(t)'[1] \notin {"connect", "map", "erase"}
    BY <2>2 DEF Follows
  <2>4. \A z: ~Has(<<>>, z)
    BY Steps0
  <2>5. LockInv'
    BY <1>0, <1>1, <2>1, <2>4, LockTurn
  <2>6. ChannelInv'
    BY <1>0, <1>1, <2>2, <2>3, KeptChannels
  <2>7. TaskInv'
    <3>1. \A u \in waiting: First(u)' = First(u)
      BY <1>0, <2>2 DEF BaseInv, TasksInv, CreatedTask
    <3>2. \A u \in waiting: \A do, s: TaskOK(do, s, u) => TaskOK(do, s, u)'
      BY <2>1, <3>1, TasksStay
    <3> QED
      BY <1>5, <3>2, SameTasks DEF SocketsInv, OwnInv
  <2> QED
    BY <2>1, <2>5, <2>6, <2>7 DEF OwnInv, SocketInv, ResetInv
<1>6. CASE webSocketMutex' = t /\ Ask(t, "remove", WebSocket) /\ Then(t, <<y>>)
  <2>1. Turn(t, x, <<y>>)
    BY <1>2, <1>6
  <2>2. First(t)' = y /\ \A u \in Threads: u # t => First(u)' = First(u)
    BY <1>0, <1>4, <2>1, HeadAfter
  <2>3. \A z: Has(<<y>>, z) => z[1] \notin Locking
    BY <1>3, Steps1
  <2>4. LockInv'
    BY <1>0, <1>1, <2>1, <2>3, LockTurn
  <2>5. First(t)'[1] \notin {"connect", "map"}
    BY <1>3, <2>2
  <2>6. ChannelInv'
    BY <1>0, <1>1, <2>2, <2>5, KeptChannels
  <2>7. TaskOK("remove", WebSocket, t)'
    BY <1>3, <2>2 DEF TaskOK
  <2> QED
    BY <1>0, <1>1, <1>3, <1>4, <1>6, <2>1, <2>4, <2>6, <2>7, AskOwn
<1> QED
  BY <1>1, <1>5, <1>6

\* Whoever is past closeWebSocket()'s test has the web socket's mutex.
LEMMA ClosesAlone ==
    ASSUME NEW t \in Threads, BaseInv, IInv, Closes(First(t))
    PROVE  webSocketMutex = t /\ WebSocket \notin closed /\ ~WebOpen
<1>1. First(t)[1] # "none"
  BY DEF Closes
<1>2. Has(todo[t], First(t))
  BY <1>1, FirstIsThere
<1>3. PICK i \in 1 .. Len(todo[t]): todo[t][i] = First(t)
  BY <1>2 DEF Has
<1>4. DOMAIN todo[t] = 1 .. Len(todo[t])
  BY DEF BaseInv, StepsInv
<1>5. Nobody # t
  BY ForwarderAssumption
<1> QED
  BY <1>3, <1>4, <1>5 DEF IInv, Closer, WebOpen

LEMMA RemoveSocketsOwn == ASSUME NEW t \in Threads, SocketsInv, RemoveSockets(t) PROVE OwnInv'
<1>1. PICK cs \in SUBSET Channels:
        /\ At(t, <<"removeSockets", cs>>)
        /\ \/ Then(t, << <<"closeImpl">> >>) /\ UNCHANGED <<mainQueue, waiting>>
           \/ \E c \in cs \cap Opened: /\ Ask(t, "remove", channelMap[c])
                                       /\ Then(t, << <<"removeSockets", cs \ {c}>> >>)
  BY DEF RemoveSockets
<1>2. UNCHANGED <<registered, closed, channelMap, channelOf, mutex, webSocketMutex>>
  BY DEF RemoveSockets, Asking, channelVars, webVars
<1>0. BaseInv /\ LockInv /\ ChannelInv /\ CreatedLocals \subseteq CreatedLocals'
  BY <1>2, SameCreated DEF SocketsInv, OwnInv
<1> DEFINE x == <<"removeSockets", cs>>
<1>3. x[1] = "removeSockets" /\ x[1] \notin {"map", "erase"} /\ Closes(x)
  BY DEF Closes
<1>4. ASSUME NEW y, Closes(y), Turn(t, x, <<y>>),
             \/ UNCHANGED <<mainQueue, waiting>>
             \/ \E s: Ask(t, "remove", s)
      PROVE  OwnInv'
  <2> HIDE DEF x
  <2>1. <<y>> # <<>> /\ <<y>>[1] = y
    OBVIOUS
  <2>2. /\ First(t)' = y /\ First(t) = x /\ t \notin waiting
        /\ \A u \in Threads: u # t => First(u)' = First(u)
    BY <1>0, <1>4, <2>1, HeadAfter
  <2>3. \A z: Has(<<y>>, z) => z[1] \notin Locking
    BY <1>4, Steps1 DEF Closes, Locking
  <2>4. LockInv'
    BY <1>0, <1>2, <1>4, <2>3, LockTurn
  <2>5. First(t)'[1] \notin {"connect", "map"}
    BY <1>4, <2>2 DEF Closes
  <2>6. ChannelInv'
    BY <1>0, <1>2, <2>2, <2>5, KeptChannels
  <2>7. \A s: TaskOK("remove", s, t)'
    BY <1>4, <2>2 DEF TaskOK
  <2>8. ~WebOpen'
    BY <1>0, <1>2, <1>3, <2>2, ClosesAlone DEF WebOpen, SocketsInv
  <2>9. CASE \E s: Ask(t, "remove", s)
    <3>1. webSocketMutex' \in {webSocketMutex, t}
      BY <1>2
    <3> QED
      BY <1>0, <1>2, <1>3, <1>4, <2>1, <2>4, <2>6, <2>7, <2>9, <3>1, AskOwn
  <2>10. CASE UNCHANGED <<mainQueue, waiting>>
    <3>1. \A u \in waiting: First(u)' = First(u)
      BY <1>0, <2>2 DEF BaseInv, TasksInv, CreatedTask
    <3>2. \A u \in waiting: \A do, s: TaskOK(do, s, u) => TaskOK(do, s, u)'
      BY <2>8, <3>1, TasksStay
    <3>3. TaskInv'
      BY <2>10, <3>2, SameTasks DEF SocketsInv, OwnInv
    <3> QED
      BY <2>4, <2>6, <2>8, <3>3 DEF OwnInv, SocketInv, ResetInv
  <2> QED
    BY <1>4, <2>9, <2>10
<1>5. CASE Then(t, << <<"closeImpl">> >>) /\ UNCHANGED <<mainQueue, waiting>>
  <2> DEFINE y == <<"closeImpl">>
  <2>1. Closes(y)
    BY DEF Closes
  <2>2. Turn(t, x, <<y>>)
    BY <1>1, <1>5, Turns
  <2> HIDE DEF x, y
  <2> QED
    BY <1>4, <1>5, <2>1, <2>2
<1>6. ASSUME NEW c \in cs \cap Opened, Ask(t, "remove", channelMap[c]),
             Then(t, << <<"removeSockets", cs \ {c}>> >>)
      PROVE  OwnInv'
  <2> DEFINE y == <<"removeSockets", cs \ {c}>>
  <2>1. Closes(y)
    BY DEF Closes
  <2>2. cs \ {c} \in SUBSET Channels
    OBVIOUS
  <2>3. Turn(t, x, <<y>>)
    BY <1>1, <1>6, <2>2, Turns
  <2> HIDE DEF x, y
  <2> QED
    BY <1>4, <1>6, <2>1, <2>3
<1> QED
  BY <1>1, <1>5, <1>6

LEMMA CloseImplOwn == ASSUME NEW t \in Threads, SocketsInv, CloseImpl(t) PROVE OwnInv'
<1> DEFINE x == <<"closeImpl">>
<1>1. /\ At(t, x) /\ Then(t, <<>>)
      /\ closed' = closed \cup {WebSocket}
      /\ channelMap' = [c \in Channels |-> NoSocket]
      /\ UNCHANGED <<registered, mainQueue, waiting, mutex, channelOf>>
  BY DEF CloseImpl
<1>2. BaseInv /\ LockInv /\ ChannelInv /\ CreatedLocals \subseteq CreatedLocals'
  BY <1>1, SameCreated DEF SocketsInv, OwnInv
<1>3. Turn(t, x, <<>>) /\ x[1] = "closeImpl"
  BY <1>1, Turns
<1> HIDE DEF x
<1>4. ~WebOpen'
  BY <1>1 DEF WebOpen
<1>5. /\ First(t)' = <<"none">> \/ Follows(x, First(t)')
      /\ t \notin waiting /\ \A u \in Threads: u # t => First(u)' = First(u)
  BY <1>2, <1>3, HeadAfter
<1>6. \A z: ~Has(<<>>, z)
  BY Steps0
<1>7. LockInv'
  BY <1>1, <1>2, <1>3, <1>6, LockTurn
<1>8. ChannelInv'
  <2>1. First(t)'[1] \notin {"connect", "map"}
    BY <1>5 DEF Follows
  <2> QED
    BY <1>1, <1>2, <1>5, <2>1, KeptChannels
<1>9. TaskInv'
  <2>1. \A u \in waiting: First(u)' = First(u)
    BY <1>2, <1>5 DEF BaseInv, TasksInv, CreatedTask
  <2>2. \A u \in waiting: \A do, s: TaskOK(do, s, u) => TaskOK(do, s, u)'
    BY <1>4, <2>1, TasksStay
  <2> QED
    BY <1>1, <2>2, SameTasks DEF SocketsInv, OwnInv
<1> QED
  BY <1>4, <1>7, <1>8, <1>9 DEF OwnInv, SocketInv, ResetInv

\* The thread that holds _mutex is the only one whose socket is on its way into
\* the map or out of it.
LEMMA OnlyOne ==
    ASSUME NEW t \in Threads, BaseInv, LockInv, mutex = t, t \notin waiting,
           \A u \in Threads: u # t => First(u)' = First(u),
           First(t)'[1] \notin Locking
    PROVE  /\ \A r: ~Adding(r)' /\ ~Removing(r)'
           /\ \A c \in Channels: \A s: First(t) = <<"map", c, s>>
                => \A r: (Adding(r) <=> r = s) /\ ~Removing(r)
           /\ \A c \in Channels: First(t) = <<"erase", c>>
                => \A r: ~Adding(r) /\ (Removing(r) <=> channelMap[c] = r)
<1>1. \A u \in Threads: u # t => First(u)[1] \notin Locking
  BY Alone
<1>2. \A c, r: /\ <<"map", c, r>>[1] = "map" /\ <<"map", c, r>>[3] = r
               /\ <<"erase", c>>[1] = "erase" /\ <<"erase", c>>[2] = c
  OBVIOUS
<1>3. "map" \in Locking /\ "erase" \in Locking /\ "map" # "erase"
  BY DEF Locking
<1>4. \A u \in Threads: First(u)'[1] \notin Locking
  BY <1>1
<1>5. \A r: ~Adding(r)' /\ ~Removing(r)'
  BY <1>2, <1>3, <1>4 DEF Adding, Removing
<1>6. ASSUME NEW c \in Channels, NEW s, First(t) = <<"map", c, s>>, NEW r
      PROVE  (Adding(r) <=> r = s) /\ ~Removing(r)
  <2>1. ~Removing(r)
    BY <1>1, <1>2, <1>3, <1>6 DEF Removing
  <2>2. r = s => Adding(r)
    BY <1>6 DEF Adding
  <2>3. Adding(r) => r = s
    BY <1>1, <1>2, <1>3, <1>6 DEF Adding
  <2> QED
    BY <2>1, <2>2, <2>3
<1>7. ASSUME NEW c \in Channels, First(t) = <<"erase", c>>, NEW r
      PROVE  ~Adding(r) /\ (Removing(r) <=> channelMap[c] = r)
  <2>1. ~Adding(r)
    BY <1>1, <1>2, <1>3, <1>7 DEF Adding
  <2>2. channelMap[c] = r => Removing(r)
    BY <1>7 DEF Removing
  <2>3. Removing(r) => channelMap[c] = r
    BY <1>1, <1>2, <1>3, <1>7 DEF Removing
  <2> QED
    BY <2>1, <2>2, <2>3
<1> QED
  BY <1>5, <1>6, <1>7

\* What the two have in common.
LEMMA EndingOwn ==
    ASSUME NEW t \in Threads, NEW x, SocketsInv, Turn(t, x, <<>>), x[1] \in {"map", "erase"},
           mutex' = mutex \/ (mutex' = Nobody /\ x[1] = "erase"),
           UNCHANGED <<registered, closed, mainQueue, waiting, channelOf, webSocketMutex>>,
           \A c \in Channels: channelMap'[c] # channelMap[c] => x[2] = c
    PROVE  /\ LockInv' /\ TaskInv' /\ ResetInv' /\ (WebOpen' <=> WebOpen)
           /\ First(t) = x /\ mutex = t /\ t \notin waiting
           /\ \A u \in Threads: u # t => First(u)' = First(u) /\ First(u)[1] \notin Locking
           /\ First(t)'[1] \notin Locking
<1>1. BaseInv /\ LockInv /\ CreatedLocals \subseteq CreatedLocals' /\ x[1] \in Locking
  BY SameCreated DEF SocketsInv, OwnInv, Locking
<1>2. /\ First(t) = x /\ Has(todo[t], x) /\ t \notin waiting
      /\ \A u \in Threads: u # t => First(u)' = First(u)
      /\ First(t)' = <<"none">> \/ (Follows(x, First(t)') /\ Later(todo[t], First(t)'))
      /\ \A z: Later(todo[t], z) /\ x[1] = "erase" => z[1] # "unlock"
  BY <1>1, HeadAfter
<1>3. mutex = t /\ \A u \in Threads: u # t => First(u)[1] \notin Locking
  BY <1>1, <1>2, Alone DEF LockInv
<1>4. First(t)'[1] \notin Locking
  <2>1. "unlock" # "none" /\ "none" \notin Locking
    BY DEF Locking
  <2>2. CASE Follows(x, First(t)')
    BY <2>2 DEF Follows, Locking, Closing, Confirms
  <2> QED
    BY <1>2, <2>1, <2>2
<1>5. \A z: ~Has(<<>>, z)
  BY Steps0
<1>6. LockInv'
  BY <1>1, <1>5, LockTurn
<1>7. WebOpen' <=> WebOpen
  BY DEF WebOpen
<1>8. TaskInv'
  <2>1. \A u \in waiting: u \in Threads /\ u # t /\ First(u)' = First(u)
    BY <1>1, <1>2 DEF BaseInv, TasksInv, CreatedTask
  <2>2. \A c: <<"erase", c>>[1] = "erase" /\ "erase" \in Locking
    BY DEF Locking
  <2>3. \A u \in waiting, c \in Channels: First(u) # <<"erase", c>>
    BY <1>3, <2>1, <2>2
  <2>4. \A u \in waiting: \A do, s: TaskOK(do, s, u) => TaskOK(do, s, u)'
    BY <1>7, <2>1, <2>3, TasksStay
  <2> QED
    BY <1>1, <2>4, SameTasks DEF SocketsInv, OwnInv
<1>9. ResetInv'
  <2>1. x[1] \notin Closing
    BY DEF Closing
  <2> QED
    BY <1>1, <1>7, <2>1, KeptReset DEF SocketsInv, OwnInv
<1> QED
  BY <1>2, <1>3, <1>4, <1>6, <1>7, <1>8, <1>9

LEMMA MapChannelOwn == ASSUME NEW t \in Threads, SocketsInv, MapChannel(t) PROVE OwnInv'
<1>1. PICK c \in Channels, s \in Locals: /\ At(t, <<"map", c, s>>) /\ Then(t, <<>>)
                                         /\ channelMap' = [channelMap EXCEPT ![c] = s]
  BY DEF MapChannel
<1>2. UNCHANGED <<registered, closed, mainQueue, waiting, channelOf, webSocketMutex, mutex>>
  BY DEF MapChannel, Local, webVars
<1>3. BaseInv /\ LockInv /\ ChannelInv /\ SocketInv /\ s # NoSocket
  BY ForwarderAssumption DEF SocketsInv, OwnInv
<1> DEFINE x == <<"map", c, s>>
<1>4. x[1] = "map" /\ x[2] = c
  OBVIOUS
<1>5. Turn(t, x, <<>>)
  BY <1>1, Turns
<1>6. /\ channelMap' = [channelMap EXCEPT ![c] = s] /\ channelMap'[c] = s
      /\ \A d \in Channels: d # c => channelMap'[d] = channelMap[d]
  BY <1>1 DEF SocketsInv, BaseInv, ValuesInv
<1>7. First(t) = x => channelMap[c] = NoSocket /\ channelOf[s] = c
  BY <1>3 DEF ChannelInv
<1>8. First(t) = x /\ t \notin waiting /\ mutex = t /\ (\A u \in Threads: u # t => First(u)' = First(u))
       /\ First(t)'[1] \notin Locking
       => /\ \A r: ~Adding(r)' /\ ~Removing(r)'
          /\ \A r: (Adding(r) <=> r = s) /\ ~Removing(r)
  BY <1>3, OnlyOne
<1> HIDE DEF x
<1>9. /\ LockInv' /\ TaskInv' /\ ResetInv' /\ (WebOpen' <=> WebOpen)
      /\ First(t) = x /\ mutex = t /\ t \notin waiting
      /\ \A u \in Threads: u # t => First(u)' = First(u) /\ First(u)[1] \notin Locking
      /\ First(t)'[1] \notin Locking
  BY <1>2, <1>4, <1>5, <1>6, EndingOwn
<1>10. channelMap[c] = NoSocket /\ channelOf[s] = c
  BY <1>7, <1>9
<1>11. Opened' = Opened \cup {c} /\ \A d \in Opened: d # c
  BY <1>3, <1>6, <1>10 DEF Opened
<1>12. ChannelInv'
  <2>1. \A d \in Opened': channelOf'[channelMap'[d]] = d
    BY <1>2, <1>3, <1>6, <1>10, <1>11 DEF ChannelInv, Opened
  <2>2. \A u \in Threads: First(u)'[1] \notin Locking
    BY <1>9
  <2>3. \A d, r: <<"map", d, r>>[1] \in Locking /\ <<"connect", d>>[1] \in Locking
    BY DEF Locking
  <2>4. \A u \in Threads, d \in Channels:
          First(u)' # <<"connect", d>> /\ \A r \in Locals: First(u)' # <<"map", d, r>>
    BY <2>2, <2>3
  <2> QED
    BY <2>1, <2>4 DEF ChannelInv
<1>13. SocketInv'
  <2>1. InUse' = InUse \cup {s}
    BY <1>6, <1>11 DEF InUse
  <2> QED
    BY <1>2, <1>3, <1>8, <1>9, <2>1 DEF SocketInv
<1> QED
  BY <1>9, <1>12, <1>13 DEF OwnInv

LEMMA EraseOwn == ASSUME NEW t \in Threads, SocketsInv, Erase(t) PROVE OwnInv'
<1>1. PICK c \in Channels: /\ At(t, <<"erase", c>>) /\ Then(t, <<>>)
                           /\ channelMap' = [channelMap EXCEPT ![c] = NoSocket]
  BY DEF Erase
<1>2. /\ UNCHANGED <<registered, closed, mainQueue, waiting, channelOf, webSocketMutex>>
      /\ mutex' = Nobody
  BY DEF Erase, Local, webVars
<1>3. BaseInv /\ LockInv /\ ChannelInv /\ SocketInv
  BY DEF SocketsInv, OwnInv
<1> DEFINE x == <<"erase", c>>
<1>4. x[1] = "erase" /\ x[2] = c
  OBVIOUS
<1>5. Turn(t, x, <<>>)
  BY <1>1, Turns
<1>6. /\ channelMap' = [channelMap EXCEPT ![c] = NoSocket] /\ channelMap'[c] = NoSocket
      /\ \A d \in Channels: d # c => channelMap'[d] = channelMap[d]
  BY <1>1 DEF SocketsInv, BaseInv, ValuesInv
<1>7. First(t) = x /\ t \notin waiting /\ mutex = t /\ (\A u \in Threads: u # t => First(u)' = First(u))
       /\ First(t)'[1] \notin Locking
       => /\ \A r: ~Adding(r)' /\ ~Removing(r)'
          /\ \A r: ~Adding(r) /\ (Removing(r) <=> channelMap[c] = r)
  BY <1>3, OnlyOne
<1> HIDE DEF x
<1>8. /\ LockInv' /\ TaskInv' /\ ResetInv' /\ (WebOpen' <=> WebOpen)
      /\ First(t) = x /\ mutex = t /\ t \notin waiting
      /\ \A u \in Threads: u # t => First(u)' = First(u) /\ First(u)[1] \notin Locking
      /\ First(t)'[1] \notin Locking
  BY <1>2, <1>4, <1>5, <1>6, EndingOwn
<1>9. First(t)'[1] \notin {"connect", "map"} /\ \A d \in Channels: channelMap'[d] \in {channelMap[d], NoSocket}
  BY <1>6, <1>8 DEF Locking
<1>10. ChannelInv'
  BY <1>2, <1>3, <1>8, <1>9, KeptChannels
<1>11. SocketInv'
  <2>1. Opened' = Opened \ {c}
    BY <1>6 DEF Opened
  <2>2. \A d \in Opened: d # c => channelMap[d] # channelMap[c]
    BY <1>3 DEF ChannelInv, Opened
  <2>3. InUse' = InUse \ {channelMap[c]} \/ c \notin Opened
    BY <1>6, <2>1, <2>2 DEF InUse
  <2>4. c \notin Opened => InUse' = InUse /\ channelMap[c] = NoSocket
    BY <1>6, <2>1 DEF InUse, Opened
  <2>5. NoSocket \notin Locals
    BY ForwarderAssumption
  <2> QED
    BY <1>2, <1>3, <1>7, <1>8, <2>3, <2>4, <2>5 DEF SocketInv
<1> QED
  BY <1>8, <1>10, <1>11 DEF OwnInv

LEMMA ResetOwn == ASSUME NEW t \in Threads, SocketsInv, Reset(t) PROVE OwnInv'
<1> DEFINE x == <<"reset">>
<1>1. /\ At(t, x) /\ Then(t, <<>>) /\ Ask(t, "reset", NoSocket)
      /\ UNCHANGED <<registered, closed, mutex, channelMap, channelOf, webSocketMutex>>
  BY DEF Reset, Asking, channelVars, webVars
<1>2. BaseInv /\ LockInv /\ ChannelInv /\ ResetInv /\ CreatedLocals \subseteq CreatedLocals'
  BY <1>1, SameCreated DEF SocketsInv, OwnInv
<1>3. Turn(t, x, <<>>) /\ x[1] = "reset" /\ x[1] \notin {"map", "erase"} \cup Closing
  BY <1>1, Turns DEF Closing
<1> HIDE DEF x
<1>4. /\ First(t)' = <<"none">> \/ Follows(x, First(t)')
      /\ First(t) = x /\ Has(todo[t], x)
      /\ t \notin waiting /\ \A u \in Threads: u # t => First(u)' = First(u)
  BY <1>2, <1>3, HeadAfter
<1>5. First(t)' = <<"none">>
  BY <1>3, <1>4 DEF Follows
<1>6. t = User
  BY <1>2, <1>3, <1>4, ForwarderAssumption DEF BaseInv, StepsInv, Threads
<1>7. ~WebOpen'
  BY <1>1, <1>2, <1>3, <1>4, <1>6 DEF ResetInv, WebOpen
<1>8. TaskOK("reset", NoSocket, t)'
  BY <1>5, <1>6, <1>7 DEF TaskOK
<1>9. \A z: ~Has(<<>>, z)
  BY Steps0
<1>10. LockInv'
  BY <1>1, <1>2, <1>3, <1>9, LockTurn
<1>11. ChannelInv'
  <2>1. First(t)'[1] \notin {"connect", "map"}
    BY <1>5
  <2> QED
    BY <1>1, <1>2, <1>4, <2>1, KeptChannels
<1>12. webSocketMutex' \in {webSocketMutex, t}
  BY <1>1
<1> QED
  BY <1>1, <1>2, <1>3, <1>8, <1>10, <1>11, <1>12, AskOwn

LEMMA StepOwn == ASSUME NEW t \in Threads, SocketsInv, Step(t) PROVE OwnInv'
BY SendFrameOwn, SendPingOwn, CloseWebSocketOwn, RemoveSocketsOwn, CloseImplOwn, OpenChannelOwn,
   ConnectOwn, MapChannelOwn, RemoveChannelOwn, EraseOwn, UnlockOwn, ForwardDataOwn, WriteOwn,
   MultiplexDataOwn, MultiplexEndOwn, ReceiveOwn, ReceiveFailsOwn, DemultiplexTimeoutOwn, ResetOwn
DEF Step

\* The variables the invariant speaks of are left alone.
LEMMA SameOwn ==
    ASSUME OwnInv, UNCHANGED <<registered, closed, mainQueue, waiting, todo, mutex, webSocketMutex,
                               channelMap, channelOf>>
    PROVE  OwnInv'
<1>1. \A u: First(u)' = First(u)
  BY DEF First
<1>2. InUse' = InUse /\ Opened' = Opened /\ WebOpen' = WebOpen
  BY DEF InUse, Opened, WebOpen
<1>3. LockInv'
  BY DEF OwnInv, LockInv
<1>4. ChannelInv'
  BY <1>1, <1>2 DEF OwnInv, ChannelInv
<1>5. TaskInv'
  BY <1>1, <1>2 DEF OwnInv, TaskInv, TaskOK
<1>6. SocketInv'
  BY <1>1, <1>2 DEF OwnInv, SocketInv, Adding, Removing
<1>7. ResetInv'
  BY <1>1, <1>2 DEF OwnInv, ResetInv
<1> QED
  BY <1>3, <1>4, <1>5, <1>6, <1>7 DEF OwnInv

LEMMA ReturnOwn == ASSUME NEW w \in Workers, SocketsInv, Return(w) PROVE OwnInv'
<1>1. PICK s \in Sockets, event \in {"readable", "timeout"}: At(w, <<"finish", event, s>>) /\ Then(w, <<>>)
  BY DEF Return, Finish
<1>2. UNCHANGED <<registered, closed, mainQueue, waiting, channelMap, channelOf, mutex, webSocketMutex>>
  BY DEF Return, Finish, mainVars, forwarderVars, channelVars, webVars
<1> DEFINE x == <<"finish", event, s>>
<1>3. x[1] \notin Locking \cup Closing
  BY FinishKinds
<1>4. At(w, x) /\ w \in Threads
  BY <1>1 DEF Threads
<1> HIDE DEF x
<1> QED
  BY <1>1, <1>2, <1>3, <1>4, QuietNone

LEMMA ReadMoreOwn == ASSUME NEW w \in Workers, SocketsInv, ReadMore(w) PROVE OwnInv'
<1>1. PICK s \in Sockets:
        /\ At(w, <<"finish", "readable", s>>)
        /\ todo' = [todo EXCEPT ![w] = << <<"readable", s>> >> \o todo[w]]
  BY DEF ReadMore, Again, SocketsInv, BaseInv, StepsInv, Threads
<1>2. UNCHANGED <<registered, closed, mainQueue, waiting, channelMap, channelOf, mutex, webSocketMutex>>
  BY DEF ReadMore, Again, mainVars, forwarderVars, channelVars, webVars
<1> DEFINE x == <<"readable", s>>
           y == <<"finish", "readable", s>>
<1>3. x[1] = "readable" /\ y[1] = "finish"
  OBVIOUS
<1>4. w \in Threads
  BY DEF Threads
<1>5. /\ todo[w] \in Seq(CreatedSteps) /\ todo[w] # <<>> /\ Head(todo[w]) = y /\ w \notin waiting
  BY <1>1, <1>4 DEF At, SocketsInv, BaseInv, StepsInv
<1>6. todo'[w] = <<x>> \o todo[w] /\ \A u \in Threads: u # w => todo'[u] = todo[u]
  BY <1>1, <1>4 DEF SocketsInv, BaseInv, StepsInv
<1> HIDE DEF x, y
<1>7. First(w) = y
  BY <1>5, HeadOrLater DEF First
<1>8. PICK T: T = CreatedSteps \cup {x}
  OBVIOUS
<1>9. todo[w] \in Seq(T) /\ x \in T
  BY <1>5, <1>8, LargerSeq
<1>10. /\ <<x>> \o todo[w] \in Seq(T) /\ <<x>> \o todo[w] # <<>> /\ (<<x>> \o todo[w])[1] = x
       /\ Tail(<<x>> \o todo[w]) = todo[w]
  BY <1>9
<1>11. First(w)' = x
  BY <1>6, <1>10 DEF First
<1>12. \A z: Has(todo'[w], z) => z = x \/ Has(todo[w], z)
  <2> DEFINE q == todo[w]
             r == <<x>> \o q
  <2>1. q \in Seq(T) /\ x \in T /\ todo'[w] = r
    BY <1>6, <1>9
  <2> HIDE DEF q
  <2>2. \A z: Has(r, z) => z = x \/ Has(q, z)
    <3> SUFFICES ASSUME NEW z, Has(r, z) PROVE z = x \/ Has(q, z)
      OBVIOUS
    <3>1. PICK i \in 1 .. Len(r): r[i] = z
      BY DEF Has
    <3>2. Len(r) = Len(q) + 1 /\ Len(q) \in Nat
      BY <2>1
    <3>3. CASE i = 1
      BY <2>1, <3>1, <3>3
    <3>4. CASE i # 1
      <4>1. i - 1 \in 1 .. Len(q)
        BY <3>1, <3>2, <3>4
      <4>2. r[i] = q[i - 1]
        BY <2>1, <3>1, <3>2, <3>4
      <4> QED
        BY <3>1, <4>1, <4>2 DEF Has
    <3> QED
      BY <3>3, <3>4
  <2> QED
    BY <2>1, <2>2 DEF q
<1>13. x[1] \notin Locking
  BY <1>3 DEF Locking
<1> QED
  BY <1>2, <1>3, <1>4, <1>5, <1>6, <1>7, <1>11, <1>12, <1>13, StillOwn

LEMMA IdleWorker ==
    ASSUME NEW w \in Workers, SocketsInv, todo[w] = <<>>
    PROVE  w \notin waiting
<1>1. First(w) = <<"none">> /\ w # User
  BY ForwarderAssumption DEF First
<1>2. <<"none">>[1] = "none" /\ \A c, s: <<"map", c, s>>[1] = "map" /\ <<"erase", c>>[1] = "erase"
  OBVIOUS
<1>3. ~Closes(<<"none">>)
  BY <1>2 DEF Closes
<1> SUFFICES ASSUME NEW i \in DOMAIN mainQueue, mainQueue[i].by = w PROVE FALSE
  BY DEF SocketsInv, BaseInv, TasksInv
<1>4. mainQueue[i].do \in {"add", "remove", "close", "reset"}
  BY DEF SocketsInv, BaseInv, TasksInv, CreatedTask
<1>5. TaskOK(mainQueue[i].do, mainQueue[i].socket, w)
  BY DEF SocketsInv, OwnInv, TaskInv
<1> QED
  BY <1>1, <1>2, <1>3, <1>4, <1>5 DEF TaskOK

LEMMA WorkerTakeOwn ==
    ASSUME NEW w \in Workers, SocketsInv, WorkerTake(w), UNCHANGED forwarderVars
    PROVE  OwnInv'
<1> DEFINE e == Head(workerQueue)
           x == <<e[1], e[2]>>
           y == <<"finish", e[1], e[2]>>
           q == IF e[1] = "exception" THEN <<x>> ELSE <<x, y>>
<1>1. /\ todo' = [todo EXCEPT ![w] = q] /\ workerQueue # <<>> /\ todo[w] = <<>>
      /\ UNCHANGED <<registered, closed, mainQueue, waiting, channelMap, channelOf, mutex, webSocketMutex>>
  BY DEF WorkerTake, mainVars, forwarderVars, channelVars, webVars
<1>2. e[1] \in {"readable", "exception", "timeout"}
  BY <1>1 DEF SocketsInv, BaseInv, TasksInv, CreatedEvent
<1>3. x[1] \in {"readable", "exception", "timeout"} /\ y[1] = "finish"
  BY <1>2
<1>4. w \in Threads
  BY DEF Threads
<1> HIDE DEF e, x, y
<1>5. q # <<>> /\ q[1] = x /\ \A z: Has(q, z) => z = x \/ z = y
  <2>1. CASE e[1] = "exception"
    <3>1. q = <<x>> /\ Len(q) = 1 /\ q[1] = x /\ \A i \in 1 .. 1: i = 1
      BY <2>1
    <3> QED
      BY <3>1 DEF Has
  <2>2. CASE e[1] # "exception"
    <3>1. q = <<x, y>> /\ Len(q) = 2 /\ q[1] = x /\ q[2] = y /\ \A i \in 1 .. 2: i = 1 \/ i = 2
      BY <2>2
    <3> QED
      BY <3>1 DEF Has
  <2> QED
    BY <2>1, <2>2
<1> HIDE DEF q
<1>6. todo'[w] = q /\ \A u \in Threads: u # w => todo'[u] = todo[u]
  BY <1>1, <1>4 DEF SocketsInv, BaseInv, StepsInv
<1>7. First(w) = <<"none">> /\ First(w)' = x
  BY <1>1, <1>5, <1>6 DEF First
<1>8. \A z: Has(todo'[w], z) => z[1] \notin Locking
  BY <1>3, <1>5, <1>6 DEF Locking
<1>9. w \notin waiting
  BY <1>1, IdleWorker
<1> QED
  BY <1>1, <1>3, <1>4, <1>6, <1>7, <1>8, <1>9, StillOwn

LEMMA StopOwn == ASSUME SocketsInv, Stop PROVE OwnInv'
<1> DEFINE x == <<"closeWebSocket">>
           y == <<"reset">>
           q == <<x, y>>
<1>1. /\ todo' = [todo EXCEPT ![User] = q] /\ ~stopping
      /\ UNCHANGED <<registered, closed, mainQueue, waiting, channelMap, channelOf, mutex, webSocketMutex>>
  BY DEF Stop, Local, channelVars
<1>2. User \in Threads
  BY ForwarderAssumption DEF Threads
<1>3. todo[User] = <<>> /\ User \notin waiting
  BY <1>1 DEF SocketsInv, BaseInv, UserInv
<1>4. x[1] = "closeWebSocket" /\ y[1] = "reset"
  OBVIOUS
<1> HIDE DEF x, y
<1>5. q # <<>> /\ q[1] = x /\ \A z: Has(q, z) => z = x \/ z = y
  <2>1. Len(q) = 2 /\ q[1] = x /\ q[2] = y /\ \A i \in 1 .. 2: i = 1 \/ i = 2
    OBVIOUS
  <2> QED
    BY <2>1 DEF Has
<1> HIDE DEF q
<1>6. todo'[User] = q /\ \A u \in Threads: u # User => todo'[u] = todo[u]
  BY <1>1, <1>2 DEF SocketsInv, BaseInv, StepsInv
<1>7. First(User) = <<"none">> /\ First(User)' = x
  BY <1>3, <1>5, <1>6 DEF First
<1>8. \A z: Has(todo'[User], z) => z[1] \notin Locking
  BY <1>4, <1>5, <1>6 DEF Locking
<1> QED
  BY <1>1, <1>2, <1>3, <1>4, <1>6, <1>7, <1>8, StillOwn

\* The main thread does what it was asked to.
LEMMA MainThreadOwn == ASSUME SocketsInv, MainThread PROVE OwnInv'
<1> DEFINE k == Head(mainQueue)
<1>1. /\ mainQueue # <<>> /\ mainQueue' = Tail(mainQueue) /\ waiting' = waiting \ {k.by}
      /\ UNCHANGED <<closed, todo, channelMap, channelOf, mutex, webSocketMutex>>
  BY DEF MainThread, MainTask, forwarderVars, channelVars, webVars
<1>2. BaseInv /\ IInv /\ LockInv /\ ChannelInv /\ TaskInv /\ SocketInv /\ mainQueue \in Seq(CreatedTask)
  BY DEF SocketsInv, OwnInv, BaseInv, TasksInv
<1>3. /\ k \in CreatedTask /\ 1 \in DOMAIN mainQueue /\ k = mainQueue[1]
      /\ \A i \in DOMAIN mainQueue': i + 1 \in DOMAIN mainQueue /\ mainQueue'[i] = mainQueue[i + 1]
  BY <1>1, <1>2, Dequeued
<1>4. PICK do, s, v: do = k.do /\ s = k.socket /\ v = k.by
  OBVIOUS
<1>5. /\ do \in {"add", "remove", "close", "reset"} /\ v \in Threads /\ v \in waiting /\ TaskOK(do, s, v)
      /\ do \in {"add", "close"} => s \in Locals
      /\ waiting' = waiting \ {v}
  BY <1>1, <1>2, <1>3, <1>4 DEF CreatedTask, CreatedLocals, BaseInv, TasksInv, TaskInv
<1>6. registered' = CASE do = "add" -> registered \cup {s}
                      [] do \in {"remove", "close"} -> registered \ {s}
                      [] do = "reset" -> {}
  BY <1>4 DEF MainThread, MainTask
<1> HIDE DEF k
<1>7. \A u: First(u)' = First(u)
  BY <1>1 DEF First
<1>8. InUse' = InUse /\ Opened' = Opened /\ WebOpen' = WebOpen
  BY <1>1 DEF InUse, Opened, WebOpen
<1>9. LockInv' /\ ChannelInv' /\ ResetInv'
  BY <1>1, <1>7, <1>8 DEF SocketsInv, OwnInv, LockInv, ChannelInv, ResetInv
<1>10. TaskInv'
  <2>1. \A d, r, u: TaskOK(d, r, u) => TaskOK(d, r, u)'
    BY <1>1, <1>7, <1>8 DEF TaskOK
  <2>2. ASSUME NEW i \in DOMAIN mainQueue'
        PROVE  TaskOK(mainQueue[i].do, mainQueue[i].socket, mainQueue[i].by)'
    <3>1. PICK d, r, u: d = mainQueue'[i].do /\ r = mainQueue'[i].socket /\ u = mainQueue'[i].by
      OBVIOUS
    <3>2. /\ i + 1 \in DOMAIN mainQueue
          /\ d = mainQueue[i + 1].do /\ r = mainQueue[i + 1].socket /\ u = mainQueue[i + 1].by
      BY <1>3, <3>1
    <3>3. TaskOK(d, r, u)
      BY <1>2, <3>2 DEF TaskInv
    <3>4. TaskOK(d, r, u)'
      BY <2>1, <3>3
    <3> QED
      BY <3>1, <3>4 DEF TaskOK
  <2> QED
    BY <2>2 DEF TaskInv
<1>11. SocketInv'
  <2> SUFFICES ASSUME WebOpen, NEW r \in Locals
               PROVE  r \in registered' <=> (r \in InUse' /\ ~Removing(r)') \/ Adding(r)'
    BY <1>8 DEF SocketInv
  <2>1. r \in registered <=> (r \in InUse /\ ~Removing(r)) \/ Adding(r)
    BY <1>2 DEF SocketInv
  <2>2. \A c, z: /\ <<"map", c, z>>[1] = "map" /\ <<"map", c, z>>[3] = z
                 /\ <<"erase", c>>[1] = "erase" /\ <<"erase", c>>[2] = c
    OBVIOUS
  <2>3. \A u \in Threads: u \in Threads \ waiting' <=> u \in Threads \ waiting \/ u = v
    BY <1>5
  <2>4. CASE do = "add"
    <3>1. PICK c \in Channels: First(v) = <<"map", c, s>>
      BY <1>5, <2>4 DEF TaskOK
    <3>2. Adding(r)' <=> Adding(r) \/ r = s
      <4>1. r = s => Adding(r)'
        BY <1>5, <1>7, <2>3, <3>1 DEF Adding
      <4>2. Adding(r) => Adding(r)'
        BY <1>7, <2>3 DEF Adding
      <4>3. ASSUME Adding(r)' PROVE Adding(r) \/ r = s
        <5>1. PICK u \in Threads \ waiting', d \in Channels: First(u)' = <<"map", d, r>>
          BY <4>3 DEF Adding
        <5>2. CASE u = v
          <6>1. <<"map", d, r>> = <<"map", c, s>>
            BY <1>7, <3>1, <5>1, <5>2
          <6> QED
            BY <6>1
        <5>3. CASE u # v
          BY <1>7, <2>3, <5>1, <5>3 DEF Adding
        <5> QED
          BY <5>2, <5>3
      <4> QED
        BY <4>1, <4>2, <4>3
    <3>3. Removing(r)' <=> Removing(r)
      BY <1>1, <1>7, <2>2, <2>3, <3>1 DEF Removing
    <3>4. registered' = registered \cup {s}
      BY <1>6, <2>4
    <3> QED
      BY <1>8, <2>1, <3>2, <3>3, <3>4
  <2>5. CASE do = "close"
    <3>1. PICK c \in Channels: First(v) = <<"erase", c>> /\ channelMap[c] = s
      BY <1>5, <2>5 DEF TaskOK
    <3>2. mutex = v /\ \A u \in Threads: u # v => First(u)[1] \notin Locking
      <4>1. First(v)[1] \in Locking /\ First(v)[1] # "none"
        BY <2>2, <3>1 DEF Locking
      <4>2. Has(todo[v], First(v))
        BY <1>2, <1>5, <4>1, FirstIsThere
      <4>3. mutex = v
        BY <1>2, <1>5, <4>1, <4>2 DEF LockInv
      <4> QED
        BY <1>2, <4>3, Alone
    <3>3. "map" \in Locking /\ "erase" \in Locking
      BY DEF Locking
    <3>4. ~Adding(r) /\ ~Adding(r)' /\ ~Removing(r)
      BY <1>5, <1>7, <2>2, <3>1, <3>2, <3>3 DEF Adding, Removing
    <3>5. Removing(r)' <=> r = s
      <4>1. r = s => Removing(r)'
        BY <1>1, <1>5, <1>7, <2>3, <3>1 DEF Removing
      <4>2. ASSUME Removing(r)' PROVE r = s
        <5>1. PICK u \in Threads \ waiting', d \in Channels: First(u)' = <<"erase", d>> /\ channelMap'[d] = r
          BY <4>2 DEF Removing
        <5>2. u = v
          BY <1>7, <2>2, <3>2, <3>3, <5>1
        <5>3. <<"erase", d>> = <<"erase", c>>
          BY <1>7, <3>1, <5>1, <5>2
        <5>4. d = c
          BY <5>3
        <5> QED
          BY <1>1, <3>1, <5>1, <5>4
      <4> QED
        BY <4>1, <4>2
    <3>6. registered' = registered \ {s}
      BY <1>6, <2>5
    <3> QED
      BY <1>8, <2>1, <3>4, <3>5, <3>6
  <2>6. CASE do \in {"remove", "reset"}
    BY <1>2, <1>5, <2>6, ClosesAlone DEF TaskOK
  <2> QED
    BY <1>5, <2>4, <2>5, <2>6
<1> QED
  BY <1>9, <1>10, <1>11 DEF OwnInv

LEMMA OwnInitially == Init => OwnInv
<1> SUFFICES ASSUME Init PROVE OwnInv
  OBVIOUS
<1>1. /\ registered = {WebSocket} /\ closed = {} /\ mainQueue = <<>>
      /\ todo = [t \in Threads |-> <<>>] /\ mutex = Nobody /\ webSocketMutex = Nobody
      /\ channelMap = [c \in Channels |-> NoSocket]
  BY DEF Init, DispatcherInit
<1>2. User \in Threads /\ WebSocket \notin Locals
  BY ForwarderAssumption DEF Threads
<1>3. \A t \in Threads: First(t) = <<"none">>
  BY <1>1 DEF First
<1>4. <<"none">>[1] = "none" /\ \A c, s: /\ <<"connect", c>>[1] = "connect"
                                         /\ <<"map", c, s>>[1] = "map" /\ <<"erase", c>>[1] = "erase"
  OBVIOUS
<1>5. Opened = {} /\ InUse = {}
  BY <1>1 DEF Opened, InUse
<1>6. LockInv
  BY <1>1, Steps0 DEF LockInv
<1>7. ChannelInv
  BY <1>3, <1>4, <1>5 DEF ChannelInv
<1>8. TaskInv
  BY <1>1 DEF TaskInv
<1>9. SocketInv
  BY <1>1, <1>2, <1>3, <1>4, <1>5 DEF SocketInv, Adding
<1>10. ResetInv
  BY <1>2, <1>3, <1>4 DEF ResetInv
<1> QED
  BY <1>6, <1>7, <1>8, <1>9, <1>10 DEF OwnInv

LEMMA SocketsInductive == SocketsInv /\ [Next]_vars => SocketsInv'
<1> SUFFICES ASSUME SocketsInv, [Next]_vars PROVE SocketsInv'
  OBVIOUS
<1>1. BaseInv' /\ IInv'
  BY BaseInductive, Inductive DEF SocketsInv
<1>2. OwnInv'
  <2>1. CASE \E t \in Threads: Step(t)
    BY <2>1, StepOwn
  <2>2. CASE \E w \in Workers: Return(w) \/ ReadMore(w)
    BY <2>2, ReturnOwn, ReadMoreOwn
  <2>3. CASE Take
    BY <2>3, WorkerTakeOwn DEF Take
  <2>4. CASE MainThread
    BY <2>4, MainThreadOwn
  <2>5. CASE \E s \in Sockets: Poll(s) \/ Timeout(s)
    BY <2>5, SameOwn
    DEF Poll, Timeout, MainTimeout, MainPoll, mainVars, forwarderVars, channelVars, webVars, SocketsInv
  <2>6. CASE Stop
    BY <2>6, StopOwn
  <2>7. CASE Lose
    BY <2>7, SameOwn DEF Lose, dispatcherVars, channelVars, webVars, SocketsInv
  <2>8. CASE UNCHANGED vars
    BY <2>8, SameOwn DEF vars, dispatcherVars, channelVars, webVars, SocketsInv
  <2> QED
    BY <2>1, <2>2, <2>3, <2>4, <2>5, <2>6, <2>7, <2>8 DEF Next
<1> QED
  BY <1>1, <1>2 DEF SocketsInv

\* While the tunnel is up and no channel is being opened or removed, the
\* dispatcher serves the channels' sockets and no other local socket: a connection
\* to a local port lives and dies with its channel (openChannel(), removeChannel()).
THEOREM ChannelsHaveSockets == Spec => []SocketsHaveChannels
<1>1. SocketsInv => SocketsHaveChannels
  <2> SUFFICES ASSUME SocketsInv, mutex = Nobody, webSocketMutex = Nobody, WebSocket \notin closed
               PROVE  /\ registered \cap Locals = InUse
                      /\ \A c \in Opened: channelOf[channelMap[c]] = c
    BY DEF SocketsHaveChannels
  <2>1. BaseInv /\ LockInv /\ ChannelInv /\ SocketInv /\ WebOpen
    BY DEF SocketsInv, OwnInv, WebOpen
  <2>2. \A t \in Threads: First(t)[1] \notin Locking
    <3>1. Nobody \notin Threads
      BY ForwarderAssumption
    <3>2. \A t \in Threads: t # Nobody => First(t)[1] \notin Locking
      BY <2>1, Alone
    <3> QED
      BY <3>1, <3>2
  <2>3. \A c, s: <<"map", c, s>>[1] \in Locking /\ <<"erase", c>>[1] \in Locking
    BY DEF Locking
  <2>4. \A s: ~Adding(s) /\ ~Removing(s)
    BY <2>2, <2>3 DEF Adding, Removing
  <2>5. InUse \subseteq Locals
    BY <2>1 DEF InUse, Opened, BaseInv, ValuesInv, CreatedLocals
  <2> QED
    BY <2>1, <2>4, <2>5 DEF SocketInv, ChannelInv
<1>2. Init => SocketsInv
  BY BaseInitially, Initially, OwnInitially DEF SocketsInv
<1> QED
  BY <1>1, <1>2, SocketsInductive, PTL DEF Spec

-----------------------------------------------------------------------------
(* What the peer has been told *)

Tells(z, c) == z \in {<<"send", c, "CLOSE">>, <<"send", c, "ERROR">>}
Owes(c) == \E t \in Threads: \E z: Has(todo[t], z) /\ Tells(z, c)

\* removeChannel() on the peer's own CLOSE: nobody goes on to tell it.
Plain(t, c) == /\ First(t) \in {<<"removeChannel", c>>, <<"erase", c>>}
               /\ \A z: Later(todo[t], z) => z[1] # "send"

\* A channel is in the map when the peer hears that it is open; one that is
\* removed without a word is one the peer has closed.
ConfirmInv ==
    WebSocket \notin closed =>
      \A t \in Threads, c \in Channels: First(t) = <<"send", c, "CONFIRM">> => channelMap[c] # NoSocket
PlainInv == \A t \in Threads, c \in Channels: Plain(t, c) => peerView[c] = "closed"
ToldInv ==
    peer = "up" /\ WebSocket \notin closed
      => \A c \in Channels: peerView[c] = "open" /\ channelMap[c] = NoSocket => Owes(c)

PeerInv == ConfirmInv /\ PlainInv /\ ToldInv
TalkInv == SocketsInv /\ ReaderInv /\ PeerInv

LEMMA SameOwing ==
    ASSUME NEW t \in Threads, \A u \in Threads: u # t => todo'[u] = todo[u],
           \A z: Has(todo[t], z) /\ z[1] = "send" => Has(todo'[t], z)
    PROVE  \A c: Owes(c) => Owes(c)'
<1>1. \A c, z: Tells(z, c) => z[1] = "send"
  BY DEF Tells
<1> SUFFICES ASSUME NEW c, Owes(c) PROVE Owes(c)'
  OBVIOUS
<1>2. PICK u \in Threads: \E z: Has(todo[u], z) /\ Tells(z, c)
  BY DEF Owes
<1>3. PICK z: Has(todo[u], z) /\ Tells(z, c)
  BY <1>2
<1>4. Has(todo'[u], z)
  BY <1>1, <1>3
<1> QED
  BY <1>3, <1>4 DEF Owes, Tells

LEMMA KeptPeer ==
    ASSUME NEW t \in Threads, PeerInv,
           \A u \in Threads: u # t => todo'[u] = todo[u],
           \A z: Has(todo[t], z) /\ z[1] = "send" => Has(todo'[t], z),
           closed \subseteq closed', UNCHANGED channelMap, peer' = "up" => peer = "up",
           \A c \in Channels: peerView'[c] = "open" => peerView[c] = "open",
           \A u \in Threads, c \in Channels: u # t /\ Plain(u, c) => peerView'[c] = "closed",
           \A c: First(t)' # <<"send", c, "CONFIRM">>,
           \A c \in Channels: Plain(t, c)' => peerView'[c] = "closed"
    PROVE  PeerInv'
<1>1. \A u \in Threads: u # t => First(u)' = First(u) /\ \A c: Plain(u, c)' <=> Plain(u, c)
  BY DEF First, Plain, Later
<1>2. ConfirmInv'
  BY <1>1 DEF PeerInv, ConfirmInv
<1>3. PlainInv'
  BY <1>1 DEF PeerInv, PlainInv
<1>5. \A c: Owes(c) => Owes(c)'
  BY SameOwing
<1>6. ToldInv'
  BY <1>5 DEF PeerInv, ToldInv
<1> QED
  BY <1>2, <1>3, <1>6 DEF PeerInv

\* What was still to be sent still is, and the rest of the steps remains.
LEMMA SendsStay ==
    ASSUME NEW t \in Threads, NEW x, NEW ss, BaseInv, Turn(t, x, ss), CreatedLocals \subseteq CreatedLocals'
    PROVE  /\ x[1] # "send" => \A z: Has(todo[t], z) /\ z[1] = "send" => Has(todo'[t], z)
           /\ \A z: Has(todo[t], z) /\ z # x => Has(todo'[t], z)
           /\ ss # <<>> => \A z: Later(todo[t], z) => Later(todo'[t], z)
<1>1. /\ Len(todo'[t]) = Len(ss) + Len(todo[t]) - 1
      /\ \A i \in (Len(ss) + 1) .. Len(todo'[t]): todo'[t][i] = todo[t][i - Len(ss) + 1]
      /\ \A z: Has(todo'[t], z) <=> Has(ss, z) \/ Later(todo[t], z)
      /\ \A z: Has(todo[t], z) <=> z = x \/ Later(todo[t], z)
  BY Turned DEF BaseInv
<1>2. ASSUME ss # <<>>, NEW z, Later(todo[t], z) PROVE Later(todo'[t], z)
  <2>1. PICK n \in Nat, k \in Nat \ {0}: n = Len(todo[t]) /\ k = Len(ss)
    <3>1. todo[t] \in Seq(CreatedSteps) /\ ss \in Seq(CreatedSteps')
      BY DEF BaseInv, StepsInv, Turn
    <3>2. Len(todo[t]) \in Nat /\ Len(ss) \in Nat \ {0}
      BY <1>2, <3>1, HeadOrLater
    <3> QED
      BY <3>2
  <2>2. PICK i \in 2 .. n: todo[t][i] = z
    BY <1>2, <2>1 DEF Later
  <2>3. Len(todo'[t]) = k + n - 1
    BY <1>1, <2>1
  <2>4. i + k - 1 \in (k + 1) .. (k + n - 1) /\ (i + k - 1) - k + 1 = i /\ i + k - 1 \in 2 .. (k + n - 1)
    BY <2>1, <2>2
  <2>5. todo'[t][i + k - 1] = todo[t][i]
    BY <1>1, <2>1, <2>3, <2>4
  <2> QED
    BY <2>2, <2>3, <2>4, <2>5 DEF Later
<1> QED
  BY <1>1, <1>2

\* A step of a handler that neither removes a channel nor tells the peer of one.
LEMMA QuietPeer ==
    ASSUME NEW t \in Threads, NEW x, NEW ss, BaseInv, PeerInv, Turn(t, x, ss),
           CreatedLocals \subseteq CreatedLocals', x[1] \notin {"send", "map"},
           ss # <<>> => ss[1][1] \notin {"removeChannel", "erase"} /\ ~Confirms(ss[1]),
           closed \subseteq closed', UNCHANGED channelMap, peer' = "up" => peer = "up",
           \A c \in Channels: peerView'[c] = "open" => peerView[c] = "open",
           \A u \in Threads, c \in Channels: u # t /\ Plain(u, c) => peerView'[c] = "closed"
    PROVE  PeerInv'
<1>1. /\ \A u \in Threads: u # t => todo'[u] = todo[u]
      /\ ss # <<>> => First(t)' = ss[1]
      /\ ss = <<>> => First(t)' = <<"none">> \/ Follows(x, First(t)')
  BY HeadAfter
<1>2. First(t)'[1] \notin {"removeChannel", "erase"} /\ ~Confirms(First(t)')
  <2>1. CASE ss # <<>>
    BY <1>1, <2>1
  <2>2. CASE ss = <<>>
    <3>1. <<"none">>[1] = "none"
      OBVIOUS
    <3> QED
      BY <1>1, <2>2, <3>1 DEF Follows, Confirms
  <2> QED
    BY <2>1, <2>2
<1>3. \A z: Has(todo[t], z) /\ z[1] = "send" => Has(todo'[t], z)
  BY SendsStay
<1>4. \A c: <<"send", c, "CONFIRM">>[1] = "send" /\ <<"send", c, "CONFIRM">>[3] = "CONFIRM"
  OBVIOUS
<1>5. \A c: First(t)' # <<"send", c, "CONFIRM">>
  BY <1>2, <1>4 DEF Confirms
<1>6. \A c: ~Plain(t, c)'
  BY <1>2 DEF Plain
<1> QED
  BY <1>1, <1>3, <1>5, <1>6, KeptPeer

MildTurn(t) ==
    \E x: /\ x[1] \notin {"send", "map"}
          /\ \/ At(t, x) /\ Then(t, <<>>)
             \/ \E y: Turn(t, x, <<y>>) /\ y[1] \notin {"removeChannel", "erase"} /\ ~Confirms(y)

LEMMA MildPeer ==
    ASSUME NEW t \in Threads, BaseInv, PeerInv, MildTurn(t), UNCHANGED channelOf,
           closed \subseteq closed', UNCHANGED channelMap, peer' = "up" => peer = "up",
           \A c \in Channels: peerView'[c] = "open" => peerView[c] = "open",
           \A u \in Threads, c \in Channels: u # t /\ Plain(u, c) => peerView'[c] = "closed"
    PROVE  PeerInv'
<1>1. CreatedLocals \subseteq CreatedLocals'
  BY SameCreated
<1>2. ASSUME NEW x, x[1] \notin {"send", "map"}, At(t, x), Then(t, <<>>) PROVE PeerInv'
  <2>1. Turn(t, x, <<>>)
    BY <1>2, Turns
  <2> QED
    BY <1>1, <1>2, <2>1, QuietPeer
<1>3. ASSUME NEW x, x[1] \notin {"send", "map"}, NEW y, Turn(t, x, <<y>>),
             y[1] \notin {"removeChannel", "erase"}, ~Confirms(y)
      PROVE  PeerInv'
  <2> DEFINE ss == <<y>>
  <2>1. ss # <<>> /\ ss[1] = y /\ Turn(t, x, ss)
    BY <1>3
  <2> HIDE DEF ss
  <2> QED
    BY <1>1, <1>3, <2>1, QuietPeer
<1> QED
  BY <1>2, <1>3 DEF MildTurn

\* The steps after which a thread is about to do nothing that matters here.
LEMMA Milds ==
    ASSUME NEW t
    PROVE  /\ \A x: x[1] \notin {"send", "map"} /\ At(t, x) /\ Then(t, <<>>) => MildTurn(t)
           /\ \A x, y: /\ x[1] \notin {"send", "map"} /\ Turn(t, x, <<y>>)
                       /\ y[1] \notin {"removeChannel", "erase", "send"}
                       => MildTurn(t)
           /\ \A x, c: \A frame \in {"DATA", "FAULT", "ERROR"}:
                x[1] \notin {"send", "map"} /\ Turn(t, x, << <<"send", c, frame>> >>) => MildTurn(t)
<1>1. \A y: y[1] # "send" => ~Confirms(y)
  BY DEF Confirms
<1>2. ASSUME NEW x, NEW c, NEW frame \in {"DATA", "FAULT", "ERROR"},
             x[1] \notin {"send", "map"}, Turn(t, x, << <<"send", c, frame>> >>)
      PROVE  MildTurn(t)
  <2> DEFINE y == <<"send", c, frame>>
  <2>1. y[1] = "send" /\ y[3] = frame
    OBVIOUS
  <2>2. Turn(t, x, <<y>>)
    BY <1>2
  <2> HIDE DEF y
  <2> QED
    BY <1>2, <2>1, <2>2 DEF MildTurn, Confirms
<1> QED
  BY <1>1, <1>2 DEF MildTurn

LEMMA WebMilds ==
    ASSUME NEW t \in Threads, BaseInv,
           \/ SendPing(t) \/ CloseWebSocket(t) \/ RemoveSockets(t)
           \/ ReceiveFails(t) \/ DemultiplexTimeout(t) \/ Reset(t) \/ ReceivePong(t)
    PROVE  MildTurn(t)
<1>1. CASE SendPing(t)
  <2>1. At(t, <<"ping">>) /\ (Then(t, <<>>) \/ Then(t, << <<"closeWebSocket">> >>))
    BY <1>1 DEF SendPing
  <2> QED
    BY <2>1, Turns, Milds
<1>2. CASE CloseWebSocket(t)
  <2>1. /\ At(t, <<"closeWebSocket">>)
        /\ Then(t, <<>>) \/ Then(t, << <<"removeSockets", Channels>> >>)
    BY <1>2 DEF CloseWebSocket
  <2> QED
    BY <2>1, Turns, Milds
<1>3. CASE RemoveSockets(t)
  <2>1. PICK cs \in SUBSET Channels:
          /\ At(t, <<"removeSockets", cs>>)
          /\ \/ Then(t, << <<"closeImpl">> >>)
             \/ \E ds \in SUBSET Channels: Then(t, << <<"removeSockets", ds>> >>)
    BY <1>3 DEF RemoveSockets
  <2>2. <<"removeSockets", cs>>[1] = "removeSockets"
    OBVIOUS
  <2>3. CASE Then(t, << <<"closeImpl">> >>)
    <3>1. Turn(t, <<"removeSockets", cs>>, << <<"closeImpl">> >>)
      BY <2>1, <2>3, Turns
    <3> QED
      BY <2>2, <3>1, Milds
  <2>4. ASSUME NEW ds \in SUBSET Channels, Then(t, << <<"removeSockets", ds>> >>) PROVE MildTurn(t)
    <3>1. Turn(t, <<"removeSockets", cs>>, << <<"removeSockets", ds>> >>)
      BY <2>1, <2>4, Turns
    <3> QED
      BY <2>2, <3>1, Milds
  <2> QED
    BY <2>1, <2>3, <2>4
<1>4. CASE ReceiveFails(t)
  <2>1. /\ At(t, <<"readable", WebSocket>>) \/ At(t, <<"exception", WebSocket>>)
        /\ Then(t, << <<"closeWebSocket">> >>)
    BY <1>4 DEF ReceiveFails
  <2>2. \/ Turn(t, <<"readable", WebSocket>>, << <<"closeWebSocket">> >>)
        \/ Turn(t, <<"exception", WebSocket>>, << <<"closeWebSocket">> >>)
    BY <2>1, Turns
  <2> QED
    BY <2>2, Milds
<1>5. CASE DemultiplexTimeout(t)
  <2>1. /\ At(t, <<"timeout", WebSocket>>)
        /\ Then(t, << <<"ping">> >>) \/ Then(t, << <<"closeWebSocket">> >>)
    BY <1>5 DEF DemultiplexTimeout
  <2>2. \/ Turn(t, <<"timeout", WebSocket>>, << <<"ping">> >>)
        \/ Turn(t, <<"timeout", WebSocket>>, << <<"closeWebSocket">> >>)
    BY <2>1, Turns
  <2> QED
    BY <2>2, Milds
<1>6. CASE Reset(t)
  <2>1. At(t, <<"reset">>) /\ Then(t, <<>>)
    BY <1>6 DEF Reset
  <2> QED
    BY <2>1, Milds
<1>7. CASE ReceivePong(t)
  <2>1. At(t, <<"readable", WebSocket>>) /\ Then(t, <<>>)
    BY <1>7 DEF ReceivePong, Demultiplexing
  <2> QED
    BY <2>1, Milds
<1> QED
  BY <1>1, <1>2, <1>3, <1>4, <1>5, <1>6, <1>7

LEMMA ChannelMilds ==
    ASSUME NEW t \in Threads, BaseInv, UNCHANGED channelOf,
           \/ OpenChannel(t) \/ Connect(t) \/ Unlock(t) \/ ForwardData(t) \/ MultiplexData(t)
           \/ ReceiveData(t) \/ ReceiveOpen(t) \/ ReceiveOther(t)
    PROVE  MildTurn(t)
<1>1. CASE OpenChannel(t)
  <2>1. PICK c \in Channels:
          /\ At(t, <<"open", c>>)
          /\ Then(t, << <<"send", c, "FAULT">> >>) \/ Then(t, << <<"connect", c>> >>)
    BY <1>1 DEF OpenChannel
  <2>2. \/ Turn(t, <<"open", c>>, << <<"send", c, "FAULT">> >>)
        \/ Turn(t, <<"open", c>>, << <<"connect", c>> >>)
    BY <2>1, ChannelTurns
  <2> QED
    BY <2>2, Milds
<1>2. CASE Connect(t)
  <2>1. PICK c \in Channels:
          /\ At(t, <<"connect", c>>)
          /\ \/ Then(t, << <<"send", c, "FAULT">> >>)
             \/ \E s \in Unused: channelOf' = [channelOf EXCEPT ![s] = c]
    BY <1>2 DEF Connect
  <2>2. \A s \in Unused: channelOf' # [channelOf EXCEPT ![s] = c]
    BY ForwarderAssumption DEF Unused, BaseInv, ValuesInv
  <2>3. Turn(t, <<"connect", c>>, << <<"send", c, "FAULT">> >>)
    BY <2>1, <2>2, ChannelTurns
  <2> QED
    BY <2>3, Milds
<1>3. CASE Unlock(t)
  <2>1. At(t, <<"unlock">>) /\ Then(t, <<>>)
    BY <1>3 DEF Unlock
  <2> QED
    BY <2>1, Milds
<1>4. CASE ForwardData(t)
  <2>1. PICK c \in Channels:
          /\ At(t, <<"forward", c>>)
          /\ \/ Then(t, << <<"send", c, "ERROR">> >>)
             \/ channelMap[c] # NoSocket /\ Then(t, << <<"write", c, channelMap[c]>> >>)
    BY <1>4 DEF ForwardData
  <2>2. channelMap[c] # NoSocket => channelMap[c] \in CreatedLocals'
    BY SameCreated DEF BaseInv, ValuesInv
  <2>3. \/ Turn(t, <<"forward", c>>, << <<"send", c, "ERROR">> >>)
        \/ Turn(t, <<"forward", c>>, << <<"write", c, channelMap[c]>> >>)
    BY <2>1, <2>2, ChannelTurns
  <2>4. <<"write", c, channelMap[c]>>[1] = "write" /\ <<"forward", c>>[1] = "forward"
    OBVIOUS
  <2> QED
    BY <2>3, <2>4, Milds
<1>5. CASE MultiplexData(t)
  <2>1. PICK s \in Locals: /\ At(t, <<"readable", s>>)
                           /\ Then(t, << <<"send", channelOf[s], "DATA">> >>)
    BY <1>5 DEF MultiplexData
  <2>2. channelOf[s] \in Channels
    BY <2>1, CreatedWhenAt
  <2>3. Turn(t, <<"readable", s>>, << <<"send", channelOf[s], "DATA">> >>)
    BY <2>1, <2>2, ChannelTurns
  <2>4. <<"readable", s>>[1] = "readable"
    OBVIOUS
  <2> QED
    BY <2>3, <2>4, Milds
<1>6. ASSUME NEW c \in Channels, At(t, <<"readable", WebSocket>>),
             \/ Then(t, << <<"forward", c>> >>) \/ Then(t, << <<"open", c>> >>)
             \/ Then(t, << <<"send", c, "FAULT">> >>) \/ Then(t, << <<"send", c, "ERROR">> >>)
      PROVE  MildTurn(t)
  <2>1. \/ Turn(t, <<"readable", WebSocket>>, << <<"forward", c>> >>)
        \/ Turn(t, <<"readable", WebSocket>>, << <<"open", c>> >>)
        \/ Turn(t, <<"readable", WebSocket>>, << <<"send", c, "FAULT">> >>)
        \/ Turn(t, <<"readable", WebSocket>>, << <<"send", c, "ERROR">> >>)
    BY <1>6, ChannelTurns
  <2> QED
    BY <2>1, Milds
<1>7. CASE ReceiveData(t) \/ ReceiveOpen(t) \/ ReceiveOther(t)
  <2>1. At(t, <<"readable", WebSocket>>)
    BY <1>7 DEF ReceiveData, ReceiveOpen, ReceiveOther, Demultiplexing
  <2>2. CASE Then(t, <<>>)
    BY <2>1, <2>2, Milds
  <2> QED
    BY <1>6, <1>7, <2>1, <2>2 DEF ReceiveData, ReceiveOpen, ReceiveOther
<1> QED
  BY <1>1, <1>2, <1>3, <1>4, <1>5, <1>7

\* The peer knows of no more channels than before.
LEMMA MildStepPeer ==
    ASSUME NEW t \in Threads, BaseInv, PeerInv, UNCHANGED channelOf,
           \/ SendPing(t) \/ CloseWebSocket(t) \/ RemoveSockets(t)
           \/ ReceiveFails(t) \/ DemultiplexTimeout(t) \/ Reset(t) \/ ReceivePong(t)
           \/ OpenChannel(t) \/ Connect(t) \/ Unlock(t) \/ ForwardData(t) \/ MultiplexData(t)
           \/ ReceiveData(t) \/ ReceiveOther(t)
    PROVE  PeerInv'
<1>1. UNCHANGED <<channelMap, peer, peerView, closed>>
  BY
     DEF SendPing, CloseWebSocket, RemoveSockets, ReceiveFails, DemultiplexTimeout, Reset,
         ReceivePong,
         OpenChannel, Connect, Unlock, ForwardData, MultiplexData, ReceiveData, ReceiveOther,
         Demultiplexing, Local, Asking, channelVars, peerVars
<1>2. MildTurn(t)
  BY WebMilds, ChannelMilds
<1>3. \A u \in Threads, c \in Channels: Plain(u, c) => peerView'[c] = "closed"
  BY <1>1 DEF PeerInv, PlainInv
<1> QED
  BY <1>1, <1>2, <1>3, MildPeer

\* What comes after a removeChannel(), or an erase, of a thread.
LEMMA AfterRemoval ==
    ASSUME NEW t \in Threads, NEW c, BaseInv,
           First(t) \in {<<"removeChannel", c>>, <<"erase", c>>}
    PROVE  /\ \A z: Later(todo[t], z) /\ z[1] = "send" => Tells(z, c)
           /\ Plain(t, c) => t \in Workers /\ Reading(t, WebSocket)
<1> DEFINE q == todo[t]
           x == First(t)
<1>1. x[1] \in {"removeChannel", "erase"} /\ x[2] = c
  OBVIOUS
<1>2. q \in Seq(CreatedSteps) /\ Grammar(q) /\ q # <<>> /\ Has(q, x) /\ x = q[1]
  BY <1>1, FirstIsThere DEF BaseInv, StepsInv
<1> HIDE DEF q, x
<1>3. PICK n \in Nat \ {0}: n = Len(q)
  BY <1>2, HeadOrLater
<1>4. ~MayEnd(x)
  BY <1>1 DEF MayEnd
<1>5. n # 1
  BY <1>2, <1>3, <1>4 DEF Grammar
<1>6. 1 \in 1 .. (n - 1) /\ 2 \in 2 .. n /\ \A i \in 2 .. n: i - 1 \in 1 .. (n - 1) /\ (i - 1) + 1 = i
                                                     /\ (i # 2 => i - 1 \in 2 .. n)
  BY <1>3, <1>5
<1>7. Follows(x, q[2]) /\ Later(q, q[2])
  BY <1>2, <1>3, <1>6 DEF Grammar, Later
<1>8. ASSUME NEW z, Later(q, z), z[1] = "send" PROVE z = q[2]
  <2>1. PICK i \in 2 .. n: q[i] = z
    BY <1>3, <1>8 DEF Later
  <2>2. Follows(q[i - 1], z)
    BY <1>2, <1>3, <1>6, <2>1 DEF Grammar
  <2>3. CASE i # 2
    <3>1. q[i - 1][1] \in {"finish", "reset", "unlock", "send"}
      BY <1>2, <1>3, <1>6, <2>1, <2>3, WhatFollows
    <3> QED
      BY <1>8, <2>2, <3>1 DEF Follows
  <2> QED
    BY <2>1, <2>3
<1>9. ASSUME NEW z, Later(q, z), z[1] = "send" PROVE Tells(z, c)
  <2>1. Follows(x, z) /\ z = q[2]
    BY <1>7, <1>8, <1>9
  <2>4. z \in CreatedSteps
    <3>1. 2 \in 1 .. Len(q)
      BY <1>3, <1>6
    <3> QED
      BY <1>2, <2>1, <3>1
  <2>2. z[3] \in {"CLOSE", "ERROR"} /\ z[2] = c
    BY <1>1, <1>9, <2>1 DEF Follows
  <2>3. z = <<"send", z[2], z[3]>>
    BY <1>9, <2>4 DEF CreatedSteps, CreatedEvent
  <2> QED
    BY <2>2, <2>3 DEF Tells
<1>10. ASSUME Plain(t, c) PROVE t \in Workers /\ Reading(t, WebSocket)
  <2>1. q[2][1] # "send"
    BY <1>7, <1>10 DEF Plain, q
  <2>2. q[2] = FinishWeb
    BY <1>1, <1>7, <2>1 DEF Follows, Closing, Confirms
  <2>3. Has(todo[t], FinishWeb)
    <3>1. 2 \in 1 .. Len(q)
      BY <1>3, <1>6
    <3> QED
      BY <2>2, <3>1 DEF Has, q
  <2>4. t # User
    <3>1. \A z: Has(todo[User], z) => z[1] \in Closing \cup {"reset"}
      BY DEF BaseInv, StepsInv
    <3>2. FinishWeb[1] = "finish"
      BY DEF FinishWeb
    <3> QED
      BY <2>3, <3>1, <3>2 DEF Closing
  <2> QED
    BY <2>3, <2>4, ForwarderAssumption DEF Threads, Reading, FinishWeb
<1> QED
  BY <1>9, <1>10 DEF q

\* openChannel() answers the peer under _mutex.
LEMMA ConfirmLocked ==
    ASSUME NEW t \in Threads, BaseInv, LockInv, Confirms(First(t))
    PROVE  mutex = t
<1> DEFINE q == todo[t]
           x == First(t)
<1>1. x[1] = "send"
  BY DEF Confirms
<1>2. q \in Seq(CreatedSteps) /\ Grammar(q) /\ q # <<>> /\ Has(q, x) /\ x = q[1]
  BY <1>1, FirstIsThere DEF BaseInv, StepsInv
<1> HIDE DEF q, x
<1>3. PICK n \in Nat \ {0}: n = Len(q)
  BY <1>2, HeadOrLater
<1>4. ~MayEnd(x) /\ Confirms(x)
  BY DEF MayEnd, x
<1>5. n # 1
  BY <1>2, <1>3, <1>4 DEF Grammar
<1>6. 1 \in 1 .. (n - 1) /\ 2 \in 1 .. n
  BY <1>3, <1>5
<1>7. Follows(x, q[2]) /\ Has(q, q[2])
  BY <1>2, <1>3, <1>6 DEF Grammar, Has
<1>8. q[2][1] = "unlock"
  BY <1>4, <1>7 DEF Follows
<1> QED
  BY <1>7, <1>8 DEF LockInv, Locking, q

LEMMA CloseImplPeer == ASSUME NEW t \in Threads, TalkInv, CloseImpl(t) PROVE PeerInv'
<1> DEFINE x == <<"closeImpl">>
<1>1. /\ At(t, x) /\ Then(t, <<>>) /\ closed' = closed \cup {WebSocket}
      /\ UNCHANGED <<peerView, channelOf>>
  BY DEF CloseImpl, peerVars
<1>2. BaseInv /\ PlainInv /\ CreatedLocals \subseteq CreatedLocals'
  BY <1>1, SameCreated DEF TalkInv, SocketsInv, PeerInv
<1>3. Turn(t, x, <<>>)
  BY <1>1, Turns
<1> HIDE DEF x
<1>4. /\ First(t)' = <<"none">> \/ Follows(x, First(t)')
      /\ \A u \in Threads: u # t => todo'[u] = todo[u]
  BY <1>2, <1>3, HeadAfter
<1>5. First(t)'[1] \notin {"removeChannel", "erase"}
  BY <1>4 DEF Follows
<1>6. PlainInv'
  <2>1. \A c: ~Plain(t, c)'
    BY <1>5 DEF Plain
  <2>2. \A u \in Threads: u # t => \A c: Plain(u, c)' <=> Plain(u, c)
    BY <1>4 DEF Plain, First, Later
  <2> QED
    BY <1>1, <1>2, <2>1, <2>2 DEF PlainInv
<1> QED
  BY <1>1, <1>6 DEF PeerInv, ConfirmInv, ToldInv

LEMMA MapChannelPeer == ASSUME NEW t \in Threads, TalkInv, MapChannel(t) PROVE PeerInv'
<1>1. PICK c \in Channels, s \in Locals: /\ At(t, <<"map", c, s>>) /\ Then(t, <<>>)
                                         /\ channelMap' = [channelMap EXCEPT ![c] = s]
  BY DEF MapChannel
<1>2. UNCHANGED <<closed, channelOf, peer, peerView>>
  BY DEF MapChannel, Local, peerVars
<1>3. BaseInv /\ PeerInv /\ CreatedLocals \subseteq CreatedLocals' /\ s # NoSocket
  BY <1>2, SameCreated, ForwarderAssumption DEF TalkInv, SocketsInv
<1> DEFINE x == <<"map", c, s>>
<1>4. Turn(t, x, <<>>) /\ x[1] = "map" /\ x[2] = c
  BY <1>1, Turns
<1> HIDE DEF x
<1>5. /\ First(t)' = <<"none">> \/ Follows(x, First(t)')
      /\ \A u \in Threads: u # t => todo'[u] = todo[u]
  BY <1>3, <1>4, HeadAfter
<1>6. channelMap'[c] = s /\ \A d \in Channels: d # c => channelMap'[d] = channelMap[d]
  BY <1>1, <1>3 DEF BaseInv, ValuesInv
<1>7. ConfirmInv'
  <2>1. \A d: LET y == <<"send", d, "CONFIRM">> IN
                Confirms(y) /\ y[2] = d /\ y # <<"none">>
    BY DEF Confirms
  <2>2. \A d: First(t)' = <<"send", d, "CONFIRM">> => d = c
    BY <1>4, <1>5, <2>1 DEF Follows
  <2>3. \A u \in Threads: u # t => First(u)' = First(u)
    BY <1>5 DEF First
  <2> QED
    BY <1>2, <1>3, <1>6, <2>2, <2>3 DEF ConfirmInv, PeerInv
<1>8. PlainInv'
  <2>1. First(t)'[1] \notin {"removeChannel", "erase"}
    BY <1>5 DEF Follows
  <2>2. \A d: ~Plain(t, d)'
    BY <2>1 DEF Plain
  <2>3. \A u \in Threads: u # t => \A d: Plain(u, d)' <=> Plain(u, d)
    BY <1>5 DEF Plain, First, Later
  <2> QED
    BY <1>2, <1>3, <2>2, <2>3 DEF PlainInv, PeerInv
<1>9. ToldInv'
  <2>1. \A z: Has(todo[t], z) /\ z[1] = "send" => Has(todo'[t], z)
    BY <1>3, <1>4, SendsStay
  <2>3. \A d: Owes(d) => Owes(d)'
    BY <1>5, <2>1, SameOwing
  <2> QED
    BY <1>2, <1>3, <1>6, <2>3 DEF ToldInv, PeerInv
<1> QED
  BY <1>7, <1>8, <1>9 DEF PeerInv

LEMMA ErasePeer == ASSUME NEW t \in Threads, TalkInv, Erase(t) PROVE PeerInv'
<1>1. PICK c \in Channels: /\ At(t, <<"erase", c>>) /\ Then(t, <<>>)
                           /\ channelMap' = [channelMap EXCEPT ![c] = NoSocket]
  BY DEF Erase
<1>2. UNCHANGED <<closed, channelOf, peer, peerView>>
  BY DEF Erase, Local, peerVars
<1>3. BaseInv /\ LockInv /\ PeerInv /\ CreatedLocals \subseteq CreatedLocals'
  BY <1>2, SameCreated DEF TalkInv, SocketsInv, OwnInv
<1> DEFINE x == <<"erase", c>>
<1>4. Turn(t, x, <<>>) /\ x[1] = "erase"
  BY <1>1, Turns
<1>5. First(t) = x => First(t) \in {<<"removeChannel", c>>, <<"erase", c>>}
  OBVIOUS
<1> HIDE DEF x
<1>6. /\ First(t)' = <<"none">> \/ Follows(x, First(t)')
      /\ First(t) = x /\ Has(todo[t], x)
      /\ \A u \in Threads: u # t => todo'[u] = todo[u]
  BY <1>3, <1>4, HeadAfter
<1>7. \A d \in Channels: d # c => channelMap'[d] = channelMap[d]
  BY <1>1, <1>3 DEF BaseInv, ValuesInv
<1>8. ConfirmInv'
  <2>1. mutex = t
    BY <1>3, <1>4, <1>6 DEF LockInv, Locking
  <2>2. \A d: Confirms(<<"send", d, "CONFIRM">>) /\ <<"send", d, "CONFIRM">> # <<"none">>
    BY DEF Confirms
  <2>3. \A d: First(t)' # <<"send", d, "CONFIRM">>
    BY <1>4, <1>6, <2>2 DEF Follows
  <2>4. \A u \in Threads: u # t => First(u)' = First(u)
    BY <1>6 DEF First
  <2>5. \A u \in Threads: u # t => ~Confirms(First(u))
    BY <1>3, <2>1, ConfirmLocked
  <2> QED
    BY <2>2, <2>3, <2>4, <2>5 DEF ConfirmInv
<1>9. PlainInv'
  <2>1. First(t)'[1] \notin {"removeChannel", "erase"}
    BY <1>6 DEF Follows
  <2>2. \A d: ~Plain(t, d)'
    BY <2>1 DEF Plain
  <2>3. \A u \in Threads: u # t => \A d: Plain(u, d)' <=> Plain(u, d)
    BY <1>6 DEF Plain, First, Later
  <2> QED
    BY <1>2, <1>3, <2>2, <2>3 DEF PlainInv, PeerInv
<1>10. ToldInv'
  <2>1. \A z: Has(todo[t], z) /\ z[1] = "send" => Has(todo'[t], z)
    BY <1>3, <1>4, SendsStay
  <2>3. \A d: Owes(d) => Owes(d)'
    BY <1>6, <2>1, SameOwing
  <2>4. peerView[c] = "closed" \/ Owes(c)
    <3>1. CASE Plain(t, c)
      BY <1>3, <3>1 DEF PeerInv, PlainInv
    <3>2. CASE ~Plain(t, c)
      <4>1. PICK z: Later(todo[t], z) /\ z[1] = "send"
        BY <1>5, <1>6, <3>2 DEF Plain
      <4>2. todo[t] \in Seq(CreatedSteps) /\ todo[t] # <<>>
        BY <1>4, <1>6, FirstIsThere, <1>3 DEF BaseInv, StepsInv
      <4>3. Has(todo[t], z)
        BY <4>1, <4>2, HeadOrLater
      <4>4. Tells(z, c)
        BY <1>3, <1>5, <1>6, <4>1, AfterRemoval
      <4> QED
        BY <4>3, <4>4 DEF Owes
    <3> QED
      BY <3>1, <3>2
  <2> QED
    BY <1>2, <1>3, <1>7, <2>3, <2>4 DEF ToldInv, PeerInv
<1> QED
  BY <1>8, <1>9, <1>10 DEF PeerInv

LEMMA SendFramePeer == ASSUME NEW t \in Threads, TalkInv, SendFrame(t) PROVE PeerInv'
<1>1. PICK c \in Channels, frame \in Frames:
        /\ At(t, <<"send", c, frame>>)
        /\ \/ /\ WebSocket \notin closed
              /\ peerView' = Heard(c, frame)
              /\ Then(t, <<>>)
           \/ /\ WebSocket \in closed \/ peer # "up"
              /\ Then(t, << <<"closeWebSocket">> >>)
              /\ UNCHANGED peerView
  BY DEF SendFrame, Frames
<1>2. UNCHANGED <<closed, channelOf, channelMap, peer>>
  BY DEF SendFrame, Local, channelVars
<1>3. BaseInv /\ PeerInv /\ CreatedLocals \subseteq CreatedLocals'
  BY <1>2, SameCreated DEF TalkInv, SocketsInv
<1> DEFINE x == <<"send", c, frame>>
           y == <<"closeWebSocket">>
<1>4. x[1] = "send" /\ x[2] = c /\ x[3] = frame /\ y[1] = "closeWebSocket"
  OBVIOUS
<1>5. (Then(t, <<>>) => Turn(t, x, <<>>)) /\ (Then(t, <<y>>) => Turn(t, x, <<y>>))
  BY <1>1, Turns DEF Frames
<1>6. \A d, f: <<"send", d, f>> = x => d = c /\ f = frame
  OBVIOUS
<1>7. \A d: Confirms(<<"send", d, "CONFIRM">>) /\ <<"send", d, "CONFIRM">> # <<"none">>
            /\ <<"send", d, "CONFIRM">>[1] = "send"
  BY DEF Confirms
<1> HIDE DEF x, y
<1>8. ASSUME NEW ss, Turn(t, x, ss), ss = <<>> \/ ss = <<y>>
      PROVE  /\ First(t) = x /\ \A u \in Threads: u # t => todo'[u] = todo[u]
             /\ \A d: ~Plain(t, d)' /\ First(t)' # <<"send", d, "CONFIRM">>
             /\ \A z: Has(todo[t], z) /\ z # x => Has(todo'[t], z)
  <2>1. /\ First(t) = x /\ \A u \in Threads: u # t => todo'[u] = todo[u]
        /\ ss # <<>> => First(t)' = ss[1]
        /\ ss = <<>> => First(t)' = <<"none">> \/ Follows(x, First(t)')
    BY <1>3, <1>8, HeadAfter
  <2>2. \A z: Has(todo[t], z) /\ z # x => Has(todo'[t], z)
    BY <1>3, <1>8, SendsStay
  <2>3. <<y>> # <<>> /\ <<y>>[1] = y
    OBVIOUS
  <2>4. First(t)'[1] \notin {"removeChannel", "erase"} /\ \A d: First(t)' # <<"send", d, "CONFIRM">>
    BY <1>4, <1>7, <1>8, <2>1, <2>3 DEF Follows
  <2> QED
    BY <2>1, <2>2, <2>4 DEF Plain
<1>9. ASSUME \A u \in Threads: u # t => todo'[u] = todo[u],
             \A d: ~Plain(t, d)' /\ First(t)' # <<"send", d, "CONFIRM">>,
             \A d \in Channels: peerView[d] = "closed" => peerView'[d] = "closed"
      PROVE  ConfirmInv' /\ PlainInv'
  <2>1. \A u \in Threads: u # t => First(u)' = First(u) /\ \A d: Plain(u, d)' <=> Plain(u, d)
    BY <1>9 DEF Plain, First, Later
  <2>2. ConfirmInv'
    BY <1>2, <1>3, <1>9, <2>1 DEF ConfirmInv, PeerInv
  <2>3. PlainInv'
    BY <1>3, <1>9, <2>1 DEF PlainInv, PeerInv
  <2> QED
    BY <2>2, <2>3
<1>10. CASE /\ WebSocket \in closed \/ peer # "up"
            /\ Then(t, <<y>>)
            /\ UNCHANGED peerView
  BY <1>2, <1>5, <1>8, <1>9, <1>10 DEF PeerInv, ToldInv
<1>11. CASE /\ WebSocket \notin closed /\ peerView' = Heard(c, frame) /\ Then(t, <<>>)
  <2>1. /\ First(t) = x /\ \A u \in Threads: u # t => todo'[u] = todo[u]
        /\ \A d: ~Plain(t, d)' /\ First(t)' # <<"send", d, "CONFIRM">>
        /\ \A z: Has(todo[t], z) /\ z # x => Has(todo'[t], z)
    BY <1>5, <1>8, <1>11
  <2>2. peerView \in [Channels -> {"closed", "opening", "open"}]
    BY <1>3 DEF BaseInv, ValuesInv
  <2>3. \A d \in Channels: peerView[d] = "closed" => peerView'[d] = "closed"
    BY <1>11, <2>2 DEF Heard
  <2>4. \A d \in Channels: peerView'[d] = "open" =>
          /\ peerView[d] = "open" \/ (d = c /\ frame = "CONFIRM")
          /\ d # c \/ frame \notin {"CLOSE", "ERROR"}
    BY <1>11, <2>2 DEF Heard, Frames
  <2>5. ASSUME NEW d \in Channels, peerView'[d] = "open", channelMap'[d] = NoSocket, peer = "up"
        PROVE  Owes(d)'
    <3>1. ~(d = c /\ frame = "CONFIRM")
      BY <1>2, <1>3, <1>11, <2>1, <2>5 DEF PeerInv, ConfirmInv, x
    <3>2. Owes(d)
      BY <1>2, <1>3, <1>11, <2>4, <2>5, <3>1 DEF PeerInv, ToldInv
    <3>3. PICK u \in Threads: \E z: Has(todo[u], z) /\ Tells(z, d)
      BY <3>2 DEF Owes
    <3>4. PICK z: Has(todo[u], z) /\ Tells(z, d)
      BY <3>3
    <3>5. z # x
      BY <1>6, <2>4, <2>5, <3>4 DEF Tells
    <3>6. Has(todo'[u], z)
      BY <2>1, <3>4, <3>5
    <3> QED
      BY <3>4, <3>6 DEF Owes, Tells
  <2> QED
    BY <1>2, <1>9, <2>1, <2>3, <2>5 DEF PeerInv, ToldInv
<1> QED
  BY <1>1, <1>10, <1>11 DEF y

LEMMA ConnectPeer == ASSUME NEW t \in Threads, TalkInv, Connect(t) PROVE PeerInv'
<1>1. PICK c \in Channels:
        /\ At(t, <<"connect", c>>)
        /\ \/ UNCHANGED channelOf
           \/ \E s \in Unused:
                /\ channelOf' = [channelOf EXCEPT ![s] = c]
                /\ Then(t, << <<"map", c, s>>, <<"send", c, "CONFIRM">>, <<"unlock">> >>)
  BY DEF Connect
<1>2. UNCHANGED <<channelMap, peer, peerView, closed>>
  BY DEF Connect, Asking, peerVars
<1>3. BaseInv /\ PeerInv
  BY DEF TalkInv, SocketsInv
<1>4. CASE UNCHANGED channelOf
  BY <1>3, <1>4, MildStepPeer
<1>5. ASSUME NEW s \in Unused, channelOf' = [channelOf EXCEPT ![s] = c],
             Then(t, << <<"map", c, s>>, <<"send", c, "CONFIRM">>, <<"unlock">> >>)
      PROVE  PeerInv'
  <2> DEFINE x == <<"connect", c>>
             y == <<"map", c, s>>
             ss == <<y, <<"send", c, "CONFIRM">>, <<"unlock">> >>
  <2>1. CreatedLocals \subseteq CreatedLocals' /\ s \in CreatedLocals'
    BY <1>3, <1>5, ConnectGrows DEF BaseInv
  <2>2. Turn(t, x, ss)
    BY <1>1, <1>5, <2>1, EndTurns
  <2>3. x[1] = "connect" /\ y[1] = "map" /\ ss # <<>> /\ ss[1] = y
    OBVIOUS
  <2> HIDE DEF x, y, ss
  <2>4. ss[1][1] \notin {"removeChannel", "erase"} /\ ~Confirms(ss[1])
    BY <2>3 DEF Confirms
  <2>5. \A u \in Threads, d \in Channels: u # t /\ Plain(u, d) => peerView'[d] = "closed"
    BY <1>2, <1>3 DEF PeerInv, PlainInv
  <2> QED
    BY <1>2, <1>3, <2>1, <2>2, <2>3, <2>4, <2>5, QuietPeer
<1> QED
  BY <1>1, <1>4, <1>5

LEMMA RemoveChannelPeer == ASSUME NEW t \in Threads, TalkInv, RemoveChannel(t) PROVE PeerInv'
<1>1. PICK c \in Channels:
        At(t, <<"removeChannel", c>>) /\ (Then(t, <<>>) \/ Then(t, << <<"erase", c>> >>))
  BY DEF RemoveChannel
<1>2. UNCHANGED <<channelMap, channelOf, peer, peerView, closed>>
  BY DEF RemoveChannel, Asking, peerVars
<1>3. BaseInv /\ PeerInv /\ CreatedLocals \subseteq CreatedLocals'
  BY <1>2, SameCreated DEF TalkInv, SocketsInv
<1>4. \A u \in Threads, d \in Channels: Plain(u, d) => peerView'[d] = "closed"
  BY <1>2, <1>3 DEF PeerInv, PlainInv
<1> DEFINE x == <<"removeChannel", c>>
           y == <<"erase", c>>
<1>5. x[1] = "removeChannel" /\ y[1] = "erase" /\ (Then(t, <<y>>) => Turn(t, x, <<y>>))
  BY <1>1, ChannelTurns
<1>6. CASE Then(t, <<>>)
  <2>1. MildTurn(t)
    BY <1>1, <1>5, <1>6 DEF MildTurn
  <2> QED
    BY <1>2, <1>3, <1>4, <2>1, MildPeer
<1>7. CASE Then(t, <<y>>)
  <2>1. \A d: y \in {<<"removeChannel", d>>, <<"erase", d>>} => d = c
    OBVIOUS
  <2>2. x \in {<<"removeChannel", c>>, <<"erase", c>>}
    OBVIOUS
  <2>3. <<y>> # <<>> /\ <<y>>[1] = y
    OBVIOUS
  <2> HIDE DEF x, y
  <2> DEFINE ss == <<y>>
  <2>4. Turn(t, x, ss) /\ ss # <<>> /\ ss[1] = y
    BY <1>5, <1>7, <2>3
  <2> HIDE DEF ss
  <2>5. First(t)' = y /\ First(t) = x /\ \A u \in Threads: u # t => todo'[u] = todo[u]
    BY <1>3, <2>4, HeadAfter
  <2>6. /\ \A z: Has(todo[t], z) /\ z[1] = "send" => Has(todo'[t], z)
        /\ \A z: Later(todo[t], z) => Later(todo'[t], z)
    BY <1>3, <1>5, <2>4, SendsStay
  <2>7. \A d: Plain(t, d)' => d = c /\ Plain(t, c)
    BY <2>1, <2>2, <2>5, <2>6 DEF Plain
  <2>8. \A d: First(t)' # <<"send", d, "CONFIRM">>
    <3>1. \A d: <<"send", d, "CONFIRM">>[1] = "send"
      OBVIOUS
    <3> QED
      BY <1>5, <2>5, <3>1
  <2> QED
    BY <1>2, <1>3, <1>4, <2>5, <2>6, <2>7, <2>8, KeptPeer
<1> QED
  BY <1>1, <1>6, <1>7

LEMMA StepsToCome ==
    ASSUME NEW t \in Threads, NEW x, NEW ss, BaseInv, Turn(t, x, ss), CreatedLocals \subseteq CreatedLocals'
    PROVE  \A i \in 2 .. Len(ss): Later(todo'[t], ss[i])
<1>1. /\ Len(todo'[t]) = Len(ss) + Len(todo[t]) - 1
      /\ \A i \in 1 .. Len(ss): todo'[t][i] = ss[i]
      /\ todo[t] # <<>>
  BY Turned DEF BaseInv
<1>2. PICK n \in Nat \ {0}, k \in Nat: n = Len(todo[t]) /\ k = Len(ss)
  <2>1. todo[t] \in Seq(CreatedSteps) /\ ss \in Seq(CreatedSteps')
    BY DEF BaseInv, StepsInv, Turn
  <2>2. Len(todo[t]) \in Nat \ {0} /\ Len(ss) \in Nat
    BY <1>1, <2>1, HeadOrLater
  <2> QED
    BY <2>2
<1>3. Len(todo'[t]) = k + n - 1
  BY <1>1, <1>2
<1> SUFFICES ASSUME NEW i \in 2 .. k PROVE Later(todo'[t], ss[i])
  BY <1>2
<1>4. i \in 2 .. (k + n - 1) /\ i \in 1 .. k
  BY <1>2
<1> QED
  BY <1>1, <1>2, <1>3, <1>4 DEF Later

\* A failure, or the end of the data, of a local socket: the peer is told after
\* the channel has been removed.
LEMMA EndPeer ==
    ASSUME NEW t \in Threads, NEW x, NEW c \in Channels, NEW frame \in {"CLOSE", "ERROR"}, TalkInv,
           x[1] # "send", Turn(t, x, << <<"removeChannel", c>>, <<"send", c, frame>> >>),
           UNCHANGED <<channelMap, channelOf, peer, peerView, closed>>
    PROVE  PeerInv'
<1>1. BaseInv /\ PeerInv /\ CreatedLocals \subseteq CreatedLocals'
  BY SameCreated DEF TalkInv, SocketsInv
<1> DEFINE y == <<"removeChannel", c>>
           w == <<"send", c, frame>>
           ss == <<y, w>>
<1>2. /\ y[1] = "removeChannel" /\ w[1] = "send"
      /\ Len(ss) = 2 /\ ss # <<>> /\ ss[1] = y /\ ss[2] = w /\ Turn(t, x, ss)
  OBVIOUS
<1> HIDE DEF y, w, ss
<1>3. First(t)' = y /\ \A u \in Threads: u # t => todo'[u] = todo[u]
  BY <1>1, <1>2, HeadAfter
<1>4. \A z: Has(todo[t], z) /\ z[1] = "send" => Has(todo'[t], z)
  BY <1>1, <1>2, SendsStay
<1>5. Later(todo'[t], w)
  <2>1. \A i \in 2 .. Len(ss): Later(todo'[t], ss[i])
    BY <1>1, <1>2, StepsToCome
  <2>2. 2 \in 2 .. Len(ss)
    BY <1>2
  <2> QED
    BY <1>2, <2>1, <2>2
<1>6. \A d: ~Plain(t, d)'
  BY <1>2, <1>5 DEF Plain
<1>7. \A d: First(t)' # <<"send", d, "CONFIRM">>
  <2>1. \A d: <<"send", d, "CONFIRM">>[1] = "send"
    OBVIOUS
  <2> QED
    BY <1>2, <1>3, <2>1
<1>8. \A u \in Threads, d \in Channels: Plain(u, d) => peerView'[d] = "closed"
  BY <1>1 DEF PeerInv, PlainInv
<1> QED
  BY <1>1, <1>3, <1>4, <1>6, <1>7, <1>8, KeptPeer

LEMMA WritePeer == ASSUME NEW t \in Threads, TalkInv, Write(t) PROVE PeerInv'
<1>1. PICK c \in Channels, s \in Locals:
        /\ At(t, <<"write", c, s>>)
        /\ Then(t, <<>>) \/ Then(t, << <<"removeChannel", c>>, <<"send", c, "ERROR">> >>)
  BY DEF Write
<1>2. UNCHANGED <<channelMap, channelOf, peer, peerView, closed>>
  BY DEF Write, Local, channelVars, peerVars
<1>3. BaseInv /\ PeerInv
  BY DEF TalkInv, SocketsInv
<1> DEFINE x == <<"write", c, s>>
<1>4. x[1] = "write" /\ At(t, x)
  BY <1>1
<1>5. CASE Then(t, <<>>)
  <2>1. MildTurn(t)
    BY <1>4, <1>5 DEF MildTurn
  <2>2. \A u \in Threads, d \in Channels: Plain(u, d) => peerView'[d] = "closed"
    BY <1>2, <1>3 DEF PeerInv, PlainInv
  <2> QED
    BY <1>2, <1>3, <2>1, <2>2, MildPeer
<1>6. CASE Then(t, << <<"removeChannel", c>>, <<"send", c, "ERROR">> >>)
  <2>1. Turn(t, x, << <<"removeChannel", c>>, <<"send", c, "ERROR">> >>)
    BY <1>1, <1>6, EndTurns
  <2> HIDE DEF x
  <2> QED
    BY <1>2, <1>4, <2>1, EndPeer
<1> QED
  BY <1>1, <1>5, <1>6

LEMMA MultiplexEndPeer == ASSUME NEW t \in Threads, TalkInv, MultiplexEnd(t) PROVE PeerInv'
<1>1. PICK s \in Locals, frame \in {"CLOSE", "ERROR"}, event \in {"readable", "exception", "timeout"}:
        /\ At(t, <<event, s>>)
        /\ Then(t, << <<"removeChannel", channelOf[s]>>, <<"send", channelOf[s], frame>> >>)
  BY DEF MultiplexEnd
<1>2. UNCHANGED <<channelMap, channelOf, peer, peerView, closed>>
  BY DEF MultiplexEnd, Local, channelVars, peerVars
<1>3. channelOf[s] \in Channels
  BY <1>1, CreatedWhenAt DEF TalkInv, SocketsInv
<1> DEFINE c == channelOf[s]
           x == <<event, s>>
<1>4. x[1] # "send" /\ x \in {<<"write", c, s>>, <<"readable", s>>, <<"exception", s>>, <<"timeout", s>>}
  OBVIOUS
<1>5. c \in Channels /\ At(t, x) /\ Then(t, << <<"removeChannel", c>>, <<"send", c, frame>> >>)
  BY <1>1, <1>3
<1> HIDE DEF c, x
<1>6. Turn(t, x, << <<"removeChannel", c>>, <<"send", c, frame>> >>)
  BY <1>4, <1>5, EndTurns
<1> QED
  BY <1>2, <1>4, <1>5, <1>6, EndPeer

\* The web socket is read by one worker, so a channel is not opened while another
\* worker still removes it for the peer.
LEMMA ReceiveOpenPeer == ASSUME NEW t \in Threads, TalkInv, ReceiveOpen(t) PROVE PeerInv'
<1>1. PICK c \in Channels: /\ peerView[c] = "closed"
                           /\ peerView' = [peerView EXCEPT ![c] = "opening"]
  BY DEF ReceiveOpen
<1>2. /\ UNCHANGED <<channelMap, channelOf, peer, closed>>
      /\ At(t, <<"readable", WebSocket>>)
  BY DEF ReceiveOpen, Demultiplexing, Local, channelVars
<1>3. BaseInv /\ PeerInv /\ ReadInv /\ WebSocket \in Sockets
  BY ForwarderAssumption DEF TalkInv, SocketsInv, ReaderInv
<1>4. t \in Workers /\ Reading(t, WebSocket)
  <2> DEFINE q == todo[t]
             x == <<"readable", WebSocket>>
  <2>1. q \in Seq(CreatedSteps) /\ Grammar(q) /\ q # <<>> /\ Head(q) = x
    BY <1>2, <1>3 DEF At, BaseInv, StepsInv
  <2>2. x[1] = "readable" /\ \A y: Follows(x, y) => y = FinishWeb
    BY DEF Follows
  <2>3. ~MayEnd(x)
    BY <2>2 DEF MayEnd
  <2>4. Has(q, x) /\ q[1] = x
    BY <2>1, HeadOrLater
  <2> HIDE DEF q, x
  <2>5. PICK n \in Nat \ {0}: n = Len(q)
    BY <2>1, HeadOrLater
  <2>6. n # 1
    BY <2>1, <2>3, <2>4, <2>5 DEF Grammar
  <2>7. 1 \in 1 .. (n - 1) /\ 2 \in 1 .. n
    BY <2>5, <2>6
  <2>8. q[2] = FinishWeb
    BY <2>1, <2>2, <2>4, <2>5, <2>7 DEF Grammar
  <2>9. t # User
    <3>1. \A z: Has(todo[User], z) => z[1] \in Closing \cup {"reset"}
      BY <1>3 DEF BaseInv, StepsInv
    <3> QED
      BY <2>2, <2>4, <3>1 DEF Closing, q
  <2> QED
    BY <2>5, <2>7, <2>8, <2>9, ForwarderAssumption DEF Threads, Reading, Has, FinishWeb, q
<1>5. ASSUME NEW u \in Threads, u # t, Plain(u, c) PROVE FALSE
  <2>1. u \in Workers /\ Reading(u, WebSocket)
    BY <1>3, <1>5, AfterRemoval DEF Plain
  <2> QED
    BY <1>3, <1>4, <1>5, <2>1 DEF ReadInv
<1>6. \A u \in Threads, d \in Channels: u # t /\ Plain(u, d) => peerView'[d] = "closed"
  BY <1>1, <1>3, <1>5 DEF PeerInv, PlainInv, BaseInv, ValuesInv
<1>7. \A d \in Channels: peerView'[d] = "open" => peerView[d] = "open"
  BY <1>1, <1>3 DEF BaseInv, ValuesInv
<1>8. MildTurn(t)
  BY <1>2, <1>3, ChannelMilds
<1> QED
  BY <1>2, <1>3, <1>6, <1>7, <1>8, MildPeer

LEMMA ReceiveClosePeer == ASSUME NEW t \in Threads, TalkInv, ReceiveClose(t) PROVE PeerInv'
<1>1. PICK c \in Channels: /\ peerView' = [peerView EXCEPT ![c] = "closed"]
                           /\ Then(t, << <<"removeChannel", c>> >>)
  BY DEF ReceiveClose
<1>2. /\ UNCHANGED <<channelMap, channelOf, peer, closed>>
      /\ At(t, <<"readable", WebSocket>>)
  BY DEF ReceiveClose, Demultiplexing, Local, channelVars
<1>3. BaseInv /\ PeerInv /\ CreatedLocals \subseteq CreatedLocals'
  BY <1>2, SameCreated DEF TalkInv, SocketsInv
<1> DEFINE x == <<"readable", WebSocket>>
           y == <<"removeChannel", c>>
           ss == <<y>>
<1>4. Turn(t, x, ss)
  BY <1>1, <1>2, ChannelTurns
<1>5. /\ x[1] = "readable" /\ y[1] = "removeChannel" /\ ss # <<>> /\ ss[1] = y
      /\ \A d: y \in {<<"removeChannel", d>>, <<"erase", d>>} => d = c
  OBVIOUS
<1> HIDE DEF x, y, ss
<1>6. First(t)' = y /\ \A u \in Threads: u # t => todo'[u] = todo[u]
  BY <1>3, <1>4, <1>5, HeadAfter
<1>7. \A z: Has(todo[t], z) /\ z[1] = "send" => Has(todo'[t], z)
  BY <1>3, <1>4, <1>5, SendsStay
<1>8. peerView'[c] = "closed" /\ \A d \in Channels: peerView'[d] \in {peerView[d], "closed"}
  BY <1>1, <1>3 DEF BaseInv, ValuesInv
<1>9. \A d: Plain(t, d)' => d = c
  BY <1>5, <1>6 DEF Plain
<1>10. \A d: First(t)' # <<"send", d, "CONFIRM">>
  <2>1. \A d: <<"send", d, "CONFIRM">>[1] = "send"
    OBVIOUS
  <2> QED
    BY <1>5, <1>6, <2>1
<1>11. \A u \in Threads, d \in Channels: Plain(u, d) => peerView'[d] = "closed"
  BY <1>3, <1>8 DEF PeerInv, PlainInv
<1> QED
  BY <1>2, <1>3, <1>6, <1>7, <1>8, <1>9, <1>10, <1>11, KeptPeer

LEMMA StepPeer == ASSUME NEW t \in Threads, TalkInv, Step(t) PROVE PeerInv'
<1>1. BaseInv /\ PeerInv
  BY DEF TalkInv, SocketsInv
<1>2. \/ SendPing(t) \/ CloseWebSocket(t) \/ RemoveSockets(t)
      \/ ReceiveFails(t) \/ DemultiplexTimeout(t) \/ Reset(t) \/ ReceivePong(t)
      \/ OpenChannel(t) \/ Unlock(t) \/ ForwardData(t) \/ MultiplexData(t)
      \/ ReceiveData(t) \/ ReceiveOther(t)
      => UNCHANGED channelOf
  BY
     DEF SendPing, CloseWebSocket, RemoveSockets, ReceiveFails, DemultiplexTimeout, Reset,
         ReceivePong,
         OpenChannel, Unlock, ForwardData, MultiplexData, ReceiveData, ReceiveOther,
         Demultiplexing, channelVars
<1> QED
  BY <1>1, <1>2, MildStepPeer, SendFramePeer, CloseImplPeer, ConnectPeer, MapChannelPeer,
     RemoveChannelPeer, ErasePeer, WritePeer, MultiplexEndPeer, ReceiveOpenPeer, ReceiveClosePeer
  DEF Step

\* A thread that has nothing left to do begins, or a worker reads on.
LEMMA BeginPeer ==
    ASSUME NEW t \in Threads, TalkInv, UNCHANGED <<closed, peer, peerView, channelMap>>,
           \A u \in Threads: u # t => todo'[u] = todo[u],
           \A z: Has(todo[t], z) => Has(todo'[t], z),
           First(t)'[1] \in {"readable", "exception", "timeout", "closeWebSocket"}
    PROVE  PeerInv'
<1>1. PeerInv
  BY DEF TalkInv
<1>2. \A d: First(t)' # <<"send", d, "CONFIRM">>
  <2>1. \A d: <<"send", d, "CONFIRM">>[1] = "send"
    OBVIOUS
  <2> QED
    BY <2>1
<1>3. \A d: ~Plain(t, d)'
  BY DEF Plain
<1>4. \A u \in Threads, d \in Channels: Plain(u, d) => peerView'[d] = "closed"
  BY <1>1 DEF PeerInv, PlainInv
<1> QED
  BY <1>1, <1>2, <1>3, <1>4, KeptPeer

LEMMA SamePeer ==
    ASSUME PeerInv, UNCHANGED <<todo, closed, peerView, channelMap>>, peer' = "up" => peer = "up"
    PROVE  PeerInv'
<1>1. ConfirmInv'
  BY DEF PeerInv, ConfirmInv, First
<1>2. PlainInv'
  BY DEF PeerInv, PlainInv, Plain, First, Later
<1>3. ToldInv'
  BY DEF PeerInv, ToldInv, Owes, Has, Tells
<1> QED
  BY <1>1, <1>2, <1>3 DEF PeerInv

LEMMA ReturnPeer == ASSUME NEW w \in Workers, TalkInv, Return(w) PROVE PeerInv'
<1>1. PICK s \in Sockets, event \in {"readable", "timeout"}: At(w, <<"finish", event, s>>) /\ Then(w, <<>>)
  BY DEF Return, Finish
<1>2. UNCHANGED <<closed, channelMap, channelOf, peer, peerView>>
  BY DEF Return, Finish, mainVars, forwarderVars, channelVars, peerVars
<1>3. BaseInv /\ PeerInv /\ w \in Threads
  BY DEF TalkInv, SocketsInv, Threads
<1> DEFINE x == <<"finish", event, s>>
<1>4. x[1] = "finish" /\ At(w, x)
  BY <1>1
<1> HIDE DEF x
<1>5. MildTurn(w)
  BY <1>1, <1>4, Milds
<1>6. \A u \in Threads, d \in Channels: Plain(u, d) => peerView'[d] = "closed"
  BY <1>2, <1>3 DEF PeerInv, PlainInv
<1> QED
  BY <1>2, <1>3, <1>5, <1>6, MildPeer

LEMMA ReadMorePeer == ASSUME NEW w \in Workers, TalkInv, ReadMore(w) PROVE PeerInv'
<1>1. PICK s \in Sockets: todo' = [todo EXCEPT ![w] = << <<"readable", s>> >> \o todo[w]]
  BY DEF ReadMore, Again, TalkInv, SocketsInv, BaseInv, StepsInv, Threads
<1>2. UNCHANGED <<closed, channelMap, peer, peerView>>
  BY DEF ReadMore, Again, mainVars, forwarderVars, channelVars, peerVars
<1> DEFINE x == <<"readable", s>>
           q == todo[w]
           r == <<x>> \o q
<1>3. x[1] = "readable" /\ w \in Threads
  BY DEF Threads
<1>4. q \in Seq(CreatedSteps) /\ todo'[w] = r /\ \A u \in Threads: u # w => todo'[u] = todo[u]
  BY <1>1, <1>3 DEF TalkInv, SocketsInv, BaseInv, StepsInv
<1> HIDE DEF x, q
<1>5. PICK T: T = CreatedSteps \cup {x}
  OBVIOUS
<1>6. q \in Seq(T) /\ x \in T
  BY <1>4, <1>5, LargerSeq
<1>7. r # <<>> /\ r[1] = x /\ Len(r) = Len(q) + 1 /\ Len(q) \in Nat
  BY <1>6
<1>8. \A z: Has(q, z) => Has(r, z)
  <2> SUFFICES ASSUME NEW z, Has(q, z) PROVE Has(r, z)
    OBVIOUS
  <2>1. PICK i \in 1 .. Len(q): q[i] = z
    BY DEF Has
  <2>2. i + 1 \in 1 .. Len(r) /\ r[i + 1] = q[i]
    BY <1>6, <1>7, <2>1
  <2> QED
    BY <2>1, <2>2 DEF Has
<1> HIDE DEF r
<1>9. First(w)' = x
  BY <1>4, <1>7 DEF First
<1>10. \A z: Has(todo[w], z) => Has(todo'[w], z)
  BY <1>4, <1>8 DEF q
<1> QED
  BY <1>2, <1>3, <1>4, <1>9, <1>10, BeginPeer

LEMMA NothingHas == \A z: ~Has(<<>>, z)
BY Steps0

LEMMA WorkerTakePeer ==
    ASSUME NEW w \in Workers, TalkInv, WorkerTake(w), UNCHANGED forwarderVars
    PROVE  PeerInv'
<1> DEFINE e == Head(workerQueue)
           x == <<e[1], e[2]>>
           y == <<"finish", e[1], e[2]>>
           q == IF e[1] = "exception" THEN <<x>> ELSE <<x, y>>
<1>1. /\ todo' = [todo EXCEPT ![w] = q] /\ workerQueue # <<>> /\ todo[w] = <<>>
      /\ UNCHANGED <<closed, channelMap, peer, peerView>>
  BY DEF WorkerTake, mainVars, forwarderVars, channelVars, peerVars
<1>2. e[1] \in {"readable", "exception", "timeout"}
  BY <1>1 DEF TalkInv, SocketsInv, BaseInv, TasksInv, CreatedEvent
<1>3. x[1] \in {"readable", "exception", "timeout"}
  BY <1>2
<1>4. w \in Threads
  BY DEF Threads
<1> HIDE DEF e, x, y
<1>5. q # <<>> /\ q[1] = x
  OBVIOUS
<1> HIDE DEF q
<1>6. todo'[w] = q /\ \A u \in Threads: u # w => todo'[u] = todo[u]
  BY <1>1, <1>4 DEF TalkInv, SocketsInv, BaseInv, StepsInv
<1>7. First(w)' = x
  BY <1>5, <1>6 DEF First
<1>8. \A z: Has(todo[w], z) => Has(todo'[w], z)
  BY <1>1, NothingHas
<1> QED
  BY <1>1, <1>3, <1>4, <1>6, <1>7, <1>8, BeginPeer

LEMMA StopPeer == ASSUME TalkInv, Stop PROVE PeerInv'
<1> DEFINE x == <<"closeWebSocket">>
           q == <<x, <<"reset">> >>
<1>1. /\ todo' = [todo EXCEPT ![User] = q] /\ ~stopping
      /\ UNCHANGED <<closed, channelMap, peer, peerView>>
  BY DEF Stop, Local, channelVars, peerVars
<1>2. User \in Threads
  BY ForwarderAssumption DEF Threads
<1>3. todo[User] = <<>>
  BY <1>1 DEF TalkInv, SocketsInv, BaseInv, UserInv
<1>4. x[1] = "closeWebSocket"
  OBVIOUS
<1> HIDE DEF x
<1>5. q # <<>> /\ q[1] = x
  OBVIOUS
<1> HIDE DEF q
<1>6. todo'[User] = q /\ \A u \in Threads: u # User => todo'[u] = todo[u]
  BY <1>1, <1>2 DEF TalkInv, SocketsInv, BaseInv, StepsInv
<1>7. First(User)' = x
  BY <1>5, <1>6 DEF First
<1>8. \A z: Has(todo[User], z) => Has(todo'[User], z)
  BY <1>3, NothingHas
<1> QED
  BY <1>1, <1>2, <1>4, <1>6, <1>7, <1>8, BeginPeer

LEMMA PeerInitially == Init => PeerInv
<1> SUFFICES ASSUME Init PROVE PeerInv
  OBVIOUS
<1>1. todo = [t \in Threads |-> <<>>] /\ peerView = [c \in Channels |-> "closed"]
  BY DEF Init, DispatcherInit
<1>2. \A t \in Threads: First(t) = <<"none">>
  BY <1>1 DEF First
<1>3. <<"none">>[1] = "none" /\ \A c, frame: <<"send", c, frame>>[1] = "send"
  OBVIOUS
<1>4. ConfirmInv
  BY <1>2, <1>3 DEF ConfirmInv
<1>5. PlainInv
  BY <1>1 DEF PlainInv
<1>6. ToldInv
  BY <1>1 DEF ToldInv
<1> QED
  BY <1>4, <1>5, <1>6 DEF PeerInv

LEMMA TalkInductive == TalkInv /\ [Next]_vars => TalkInv'
<1> SUFFICES ASSUME TalkInv, [Next]_vars PROVE TalkInv'
  OBVIOUS
<1>1. SocketsInv' /\ ReaderInv'
  BY SocketsInductive, ReaderInductive DEF TalkInv
<1>2. PeerInv'
  <2>1. CASE \E t \in Threads: Step(t)
    BY <2>1, StepPeer
  <2>2. CASE \E w \in Workers: Return(w) \/ ReadMore(w)
    BY <2>2, ReturnPeer, ReadMorePeer
  <2>3. CASE Take
    BY <2>3, WorkerTakePeer DEF Take
  <2>4. CASE MainThread
    BY <2>4, SamePeer DEF MainThread, MainTask, forwarderVars, channelVars, peerVars, TalkInv
  <2>5. CASE \E s \in Sockets: Poll(s) \/ Timeout(s)
    BY <2>5, SamePeer
    DEF Poll, Timeout, MainTimeout, MainPoll, mainVars, forwarderVars, channelVars, peerVars, TalkInv
  <2>6. CASE Stop
    BY <2>6, StopPeer
  <2>7. CASE Lose
    BY <2>7, SamePeer DEF Lose, dispatcherVars, channelVars, TalkInv
  <2>8. CASE UNCHANGED vars
    BY <2>8, SamePeer DEF vars, dispatcherVars, channelVars, peerVars, TalkInv
  <2> QED
    BY <2>1, <2>2, <2>3, <2>4, <2>5, <2>6, <2>7, <2>8 DEF Next
<1> QED
  BY <1>1, <1>2 DEF TalkInv

\* While the tunnel is up, a channel the peer holds open and that is gone here is
\* one of which a thread is about to tell the peer (removeChannel(),
\* multiplex(), forwardData()): no client of the peer waits on a dead channel.
THEOREM PeerIsTold == Spec => []NoHalfOpenChannel
<1>1. TalkInv => NoHalfOpenChannel
  <2> SUFFICES ASSUME TalkInv, peer = "up", WebSocket \notin closed, NEW c \in Channels,
                      peerView[c] = "open", channelMap[c] = NoSocket
               PROVE  Owing(c)
    BY DEF NoHalfOpenChannel
  <2>1. PICK t \in Threads: \E z: Has(todo[t], z) /\ Tells(z, c)
    BY DEF TalkInv, PeerInv, ToldInv, Owes
  <2>2. PICK i \in 1 .. Len(todo[t]): Tells(todo[t][i], c)
    BY <2>1 DEF Has
  <2>3. i \in DOMAIN todo[t]
    BY <2>2 DEF TalkInv, SocketsInv, BaseInv, StepsInv
  <2> QED
    BY <2>2, <2>3 DEF Owing, Tells
<1>2. Init => TalkInv
  BY BaseInitially, Initially, OwnInitially, ReaderInitially, PeerInitially
     DEF TalkInv, SocketsInv
<1> QED
  BY <1>1, <1>2, TalkInductive, PTL DEF Spec
=============================================================================
