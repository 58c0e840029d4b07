----------------------------- MODULE TcpConnection -----------------------------
(***************************************************************************)
(* The two ends of one RemotingNG TCP connection                           *)
(* (platform/RemotingNG/TCP/src/Connection.cpp): the HELO handshake, frames*)
(* in both directions, the BYE handshake, idle timeouts, abort, and a peer *)
(* that goes away.                                                         *)
(*                                                                         *)
(* Each end has the thread of Connection::run() and any number of threads  *)
(* that call sendFrame(), close() and abort().  The Connection's mutex is  *)
(* held while a frame is sent or received, and by close() and abort(); the *)
(* thread of run() writes the state without it, except for the peer's BYE. *)
(***************************************************************************)
EXTENDS Naturals, Sequences

CONSTANTS
    MaxFrames,  \* how many data frames the users of one end send (bounds the runs)
    IdleEnds,   \* the ends that have an idle timeout
    Timeouts,   \* whether the peer may be too late with its HELO or its BYE
    Faults      \* whether a socket operation may fail while the peer is there

Ends == {"client", "server"}
Peer(e) == IF e = "client" THEN "server" ELSE "client"

ASSUME BoundsAssumption ==
    /\ MaxFrames \in Nat
    /\ IdleEnds \subseteq Ends
    /\ Timeouts \in BOOLEAN /\ Faults \in BOOLEAN

VARIABLES
    state,      \* _state of each end
    pc,         \* where each end's run() is
    hand,       \* the frame it has received and not yet processed
    sending,    \* the ends with a thread inside sendFrame(), holding the mutex
    wire,       \* wire[e]: the frames e sent that its peer has not received
    closed,     \* the ends that have closed their socket
    reset,      \* the ends that were sent a TCP reset
    sent,       \* how many data frames each end's users have sent
    delivered,  \* how many data frames each end's handlers were given
    byeSeen     \* the ends that have received the peer's BYE

vars == <<state, pc, hand, sending, wire, closed, reset, sent, delivered, byeSeen>>
netVars == <<wire, closed, reset>>
frameVars == <<sending, sent, delivered>>

States == {"PRE_HANDSHAKE", "HANDSHAKE", "ESTABLISHED", "CLOSING_ACTIVE",
           "CLOSING_PASSIVE", "ABORTED", "CLOSED"}
Pcs == {"start", "sendHelo", "receiveHelo", "establish", "loop", "receive",
        "process", "bye", "receiveBye", "waitPeer", "closeSocket", "done", "failed"}
Frames == {"helo", "data", "bye"}

In(e, s) == state[e] = s
At(e, p) == pc[e] = p
SetState(e, s) == state' = [state EXCEPT ![e] = s]
Goto(e, p) == pc' = [pc EXCEPT ![e] = p]

MutexFree(e) == e \notin sending

Init ==
    /\ state = [e \in Ends |-> "PRE_HANDSHAKE"]
    /\ pc = [e \in Ends |-> "start"]
    /\ hand = [e \in Ends |-> "none"]
    /\ sending = {}
    /\ wire = [e \in Ends |-> <<>>]
    /\ closed = {}
    /\ reset = {}
    /\ sent = [e \in Ends |-> 0]
    /\ delivered = [e \in Ends |-> 0]
    /\ byeSeen = {}

-----------------------------------------------------------------------------
(* The socket *)

\* What a peer that has closed its socket answers is a reset.
Transmit(e, f) ==
    /\ e \notin closed \cup reset
    /\ IF Peer(e) \in closed
         THEN reset' = reset \cup {e} /\ UNCHANGED wire
         ELSE wire' = [wire EXCEPT ![e] = Append(@, f)] /\ UNCHANGED reset
    /\ UNCHANGED closed

TransmitFails(e) ==
    /\ e \in closed \cup reset \/ Faults
    /\ UNCHANGED netVars

Incoming(e) == wire[Peer(e)]

\* Receiving ends with an error: nothing more will come, or a reset came (what
\* was received before the reset may be read or not).
\* Mutant of Broken: the end of the stream is not noticed.
BrokenByReset(e) == e \in reset
Broken(e) == e \in reset \/ (Incoming(e) = <<>> /\ Peer(e) \in closed)

Take(e) ==
    /\ Incoming(e) # <<>>
    /\ wire' = [wire EXCEPT ![Peer(e)] = Tail(@)]
    /\ UNCHANGED <<closed, reset>>

\* Closing a socket loses what it has not read, and then resets the connection.
Hangup(e) ==
    /\ closed' = closed \cup {e}
    /\ reset' = IF Incoming(e) # <<>> THEN reset \cup {Peer(e)} ELSE reset
    /\ wire' = [wire EXCEPT ![Peer(e)] = <<>>]

-----------------------------------------------------------------------------
(* Connection::runImpl(), the handshake *)

Start(e) ==
    /\ At(e, "start")
    /\ SetState(e, "HANDSHAKE")
    /\ Goto(e, IF e = "client" THEN "sendHelo" ELSE "receiveHelo")
    /\ UNCHANGED <<hand, netVars, frameVars, byeSeen>>

\* An exception here ends run(): it is logged, nothing else.
SendHelo(e) ==
    /\ At(e, "sendHelo") /\ MutexFree(e)
    /\ \/ Transmit(e, "helo") /\ Goto(e, IF e = "client" THEN "receiveHelo" ELSE "establish")
       \/ TransmitFails(e) /\ Goto(e, "failed")
    /\ UNCHANGED <<state, hand, frameVars, byeSeen>>

ReceiveHelo(e) ==
    /\ At(e, "receiveHelo") /\ MutexFree(e)
    /\ \/ /\ Take(e)
          /\ Goto(e, IF Head(Incoming(e)) # "helo" THEN "failed"
                     ELSE IF e = "client" THEN "establish" ELSE "sendHelo")
       \/ /\ Broken(e) \/ Faults \/ (Timeouts /\ Incoming(e) = <<>>)
          /\ Goto(e, "failed")
          /\ UNCHANGED netVars
    /\ UNCHANGED <<state, hand, frameVars, byeSeen>>

Establish(e) ==
    /\ At(e, "establish")
    /\ SetState(e, "ESTABLISHED")
    /\ Goto(e, "loop")
    /\ UNCHANGED <<hand, netVars, frameVars, byeSeen>>

-----------------------------------------------------------------------------
(* Connection::runImpl(), the frames *)

\* Mutant of AfterLoop: an aborted connection says BYE too.
AfterLoopAlwaysBye(e) == "bye"
AfterLoop(e) == IF In(e, "ABORTED") THEN "closeSocket" ELSE "bye"

Loop(e) ==
    /\ At(e, "loop")
    /\ Goto(e, IF In(e, "ESTABLISHED") THEN "receive" ELSE AfterLoop(e))
    /\ UNCHANGED <<state, hand, netVars, frameVars, byeSeen>>

ReceiveFrame(e) ==
    /\ At(e, "receive") /\ MutexFree(e)
    /\ Take(e)
    /\ hand' = [hand EXCEPT ![e] = Head(Incoming(e))]
    /\ Goto(e, "process")
    /\ UNCHANGED <<state, frameVars, byeSeen>>

\* The poll times out.  The state is written without the mutex, whatever it has
\* become since Loop looked at it.
ReceiveNothing(e) ==
    /\ At(e, "receive")
    /\ Incoming(e) = <<>> /\ ~Broken(e)
    /\ \/ UNCHANGED state
       \/ e \in IdleEnds /\ SetState(e, "CLOSING_ACTIVE")
    /\ Goto(e, "loop")
    /\ UNCHANGED <<hand, netVars, frameVars, byeSeen>>

ReceiveError(e) ==
    /\ At(e, "receive")
    /\ Broken(e) \/ Faults
    /\ SetState(e, "ABORTED")
    /\ Goto(e, "loop")
    /\ UNCHANGED <<hand, netVars, frameVars, byeSeen>>

\* Mutant of ProcessFrame: the frame is not given back.
ProcessFrameKept(e) ==
    /\ At(e, "process") /\ MutexFree(e)
    /\ IF hand[e] = "bye"
         THEN /\ byeSeen' = byeSeen \cup {e}
              /\ IF In(e, "ESTABLISHED") THEN SetState(e, "CLOSING_PASSIVE")
                                         ELSE UNCHANGED state
              /\ UNCHANGED delivered
         ELSE /\ delivered' = [delivered EXCEPT ![e] = @ + 1]
              /\ UNCHANGED <<state, byeSeen>>
    /\ Goto(e, "loop")
    /\ UNCHANGED <<hand, netVars, sending, sent>>

ProcessFrame(e) ==
    /\ At(e, "process") /\ MutexFree(e)
    /\ IF hand[e] = "bye"
         THEN /\ byeSeen' = byeSeen \cup {e}
              /\ IF In(e, "ESTABLISHED") THEN SetState(e, "CLOSING_PASSIVE")
                                         ELSE UNCHANGED state
              /\ UNCHANGED delivered
         ELSE /\ delivered' = [delivered EXCEPT ![e] = @ + 1]
              /\ UNCHANGED <<state, byeSeen>>
    /\ hand' = [hand EXCEPT ![e] = "none"]
    /\ Goto(e, "loop")
    /\ UNCHANGED <<netVars, sending, sent>>

-----------------------------------------------------------------------------
(* Connection::runImpl(), the end *)

\* Mutant of SendBye: the BYE does not wait for a frame that is being sent.
SendByeUnlocked(e) ==
    /\ At(e, "bye")
    /\ \/ /\ Transmit(e, "bye")
          /\ Goto(e, IF In(e, "CLOSING_ACTIVE") THEN "receiveBye" ELSE "waitPeer")
       \/ TransmitFails(e) /\ Goto(e, "failed")
    /\ UNCHANGED <<state, hand, frameVars, byeSeen>>

\* When the BYE cannot be sent, run() ends with the state it is in.
SendBye(e) ==
    /\ At(e, "bye") /\ MutexFree(e)
    /\ \/ /\ Transmit(e, "bye")
          /\ Goto(e, IF In(e, "CLOSING_ACTIVE") THEN "receiveBye" ELSE "waitPeer")
       \/ TransmitFails(e) /\ Goto(e, "failed")
    /\ UNCHANGED <<state, hand, frameVars, byeSeen>>

\* receiveBYE() takes one frame, of whatever type, within TIMEOUT_BYE.
ReceiveBye(e) ==
    /\ At(e, "receiveBye") /\ MutexFree(e)
    /\ \/ /\ Take(e)
          /\ byeSeen' = IF Head(Incoming(e)) = "bye" THEN byeSeen \cup {e} ELSE byeSeen
       \/ /\ Broken(e) \/ Faults \/ (Timeouts /\ Incoming(e) = <<>>)
          /\ UNCHANGED <<netVars, byeSeen>>
    /\ SetState(e, "CLOSED")
    /\ Goto(e, "closeSocket")
    /\ UNCHANGED <<hand, frameVars>>

\* The passive side polls until the peer has closed, or sent something.
WaitPeer(e) ==
    /\ At(e, "waitPeer")
    /\ Broken(e) \/ Incoming(e) # <<>> \/ Timeouts
    /\ SetState(e, "CLOSED")
    /\ Goto(e, "closeSocket")
    /\ UNCHANGED <<hand, netVars, frameVars, byeSeen>>

\* The polls of receiveBYE() and of the passive side are in no try: when one
\* throws, run() ends there too.
PollFails(e) ==
    /\ Faults
    /\ At(e, "receiveBye") \/ At(e, "waitPeer")
    /\ Goto(e, "failed")
    /\ UNCHANGED <<state, hand, netVars, frameVars, byeSeen>>

CloseSocket(e) ==
    /\ At(e, "closeSocket")
    /\ Hangup(e)
    /\ Goto(e, "done")
    /\ UNCHANGED <<state, hand, frameVars, byeSeen>>

\* The socket of a connection whose run() failed is closed by its destructor,
\* when nobody refers to it any more.
Destroy(e) ==
    /\ At(e, "failed") /\ e \notin closed
    /\ Hangup(e)
    /\ UNCHANGED <<state, pc, hand, frameVars, byeSeen>>

-----------------------------------------------------------------------------
(* The users of the connection *)

\* sendFrame() checks the state and sends with the mutex held.
\* Mutant of BeginSend: it does not check the state.
BeginSendAlways(e) ==
    /\ MutexFree(e) /\ sent[e] < MaxFrames
    /\ ~In(e, "PRE_HANDSHAKE") /\ ~In(e, "HANDSHAKE")
    /\ sending' = sending \cup {e}
    /\ UNCHANGED <<state, pc, hand, netVars, sent, delivered, byeSeen>>

BeginSend(e) ==
    /\ MutexFree(e) /\ sent[e] < MaxFrames
    /\ In(e, "ESTABLISHED")
    /\ sending' = sending \cup {e}
    /\ UNCHANGED <<state, pc, hand, netVars, sent, delivered, byeSeen>>

EndSend(e) ==
    /\ e \in sending
    /\ sending' = sending \ {e}
    /\ \/ Transmit(e, "data") /\ sent' = [sent EXCEPT ![e] = @ + 1]
       \/ TransmitFails(e) /\ UNCHANGED sent
    /\ UNCHANGED <<state, pc, hand, delivered, byeSeen>>

\* Mutant of Close: it does not look at the state.
CloseAlways(e) ==
    /\ MutexFree(e)
    /\ SetState(e, "CLOSING_ACTIVE")
    /\ UNCHANGED <<pc, hand, netVars, frameVars, byeSeen>>

Close(e) ==
    /\ MutexFree(e)
    /\ In(e, "ESTABLISHED")
    /\ SetState(e, "CLOSING_ACTIVE")
    /\ UNCHANGED <<pc, hand, netVars, frameVars, byeSeen>>

Abort(e) ==
    /\ MutexFree(e)
    /\ In(e, "ESTABLISHED")
    /\ SetState(e, "ABORTED")
    /\ UNCHANGED <<pc, hand, netVars, frameVars, byeSeen>>

-----------------------------------------------------------------------------

Run(e) ==
    \/ Start(e) \/ SendHelo(e) \/ ReceiveHelo(e) \/ Establish(e)
    \/ Loop(e) \/ ReceiveFrame(e) \/ ReceiveNothing(e) \/ ReceiveError(e) \/ ProcessFrame(e)
    \/ SendBye(e) \/ ReceiveBye(e) \/ WaitPeer(e) \/ CloseSocket(e)

Use(e) == BeginSend(e) \/ EndSend(e) \/ Close(e) \/ Abort(e)

Next == \E e \in Ends: Run(e) \/ PollFails(e) \/ Destroy(e) \/ Use(e)

Spec == Init /\ [][Next]_vars

\* The threads of run() and a thread that is sending go on, run() also when others
\* keep taking the mutex in between; nobody has to send, close, abort or let go of
\* a connection.
FairSpec == Spec /\ \A e \in Ends: SF_vars(Run(e)) /\ WF_vars(EndSend(e))

-----------------------------------------------------------------------------
(* Properties *)

\* Every variable keeps its type, and a frame is in hand only while run()
\* processes it.
TypeOK ==
    /\ state \in [Ends -> States]
    /\ pc \in [Ends -> Pcs]
    /\ hand \in [Ends -> Frames \cup {"none"}]
    /\ \A e \in Ends: At(e, "process") <=> hand[e] # "none"
    /\ sending \subseteq Ends /\ closed \subseteq Ends /\ reset \subseteq Ends
    /\ wire \in [Ends -> Seq(Frames)]
    /\ sent \in [Ends -> 0..MaxFrames]
    /\ delivered \in [Ends -> 0..MaxFrames]
    /\ byeSeen \subseteq Ends

\* A BYE is the last frame an end ever sends: sendFrame() checks the state and
\* sends under one lock, and run() takes that lock for the BYE after the state
\* has changed.
ByeIsLast ==
    \A e \in Ends: \A i \in 1..Len(wire[e]): wire[e][i] = "bye" => i = Len(wire[e])

\* An end that answers the peer's BYE has given its handlers every frame the
\* peer's users sent.
PassiveGotEverything ==
    \A e \in Ends: In(e, "CLOSING_PASSIVE") => delivered[e] = sent[Peer(e)]

\* The two ends agree on who closes: only the peer of an end that closes actively
\* (or has closed) is passive.
RolesAgree ==
    \A e \in Ends: In(e, "CLOSING_PASSIVE") => state[Peer(e)] \in {"CLOSING_ACTIVE", "CLOSED"}

Ended(e) == pc[e] \in {"done", "failed"}

\* The phases of ConnectionLife.
Phase(e) ==
    CASE Ended(e) -> "over"
      [] In(e, "PRE_HANDSHAKE") -> "new"
      [] In(e, "HANDSHAKE") -> "opening"
      [] In(e, "ESTABLISHED") -> "established"
      [] OTHER -> "leaving"

Life == INSTANCE ConnectionLife WITH Conns <- Ends, life <- [e \in Ends |-> Phase(e)]

\* Each end implements ConnectionLife: established once and never again after it
\* left, close() and abort() ignored before, and run() returns once it leaves.
LifeSpec == Life!Spec

\* When one end's socket is closed, whatever the reason, the other end's run()
\* returns.
HangupNoticed == \A e \in Ends: e \in closed ~> Ended(Peer(e))

\* What Connection.h says of an active close: it waits for the confirming BYE of
\* the peer.  Without timeouts, faults or a reset, an end whose active close is
\* over has received it.
ActiveCloseConfirmed ==
    \A e \in Ends: In(e, "CLOSED") /\ e \notin reset => e \in byeSeen

\* An end whose run() is over has closed its socket.  Not so when run() failed,
\* as when it cannot send its BYE: the socket is open until the destructor runs.
EndedIsClosed == \A e \in Ends: Ended(e) => e \in closed
=============================================================================
