-------------------------- MODULE TcpConnectionProofs --------------------------
(***************************************************************************)
(* What the two ends of a connection keep true however many frames their   *)
(* users send, whatever times out or fails: a BYE is the last frame on the *)
(* wire, the passive side has got everything, the two agree on who closes, *)
(* and each end takes the steps of ConnectionLife.                         *)
(***************************************************************************)
EXTENDS TcpConnection, TLAPS

Contains(s, f) == \E i \in 1..Len(s): s[i] = f
ByeLast(s) == \A i \in 1..Len(s): s[i] = "bye" => i = Len(s)
HeloFirst(s) == \A i \in 1..Len(s): s[i] = "helo" => i = 1
One(b) == IF b THEN 1 ELSE 0

\* TypeOK, but for the bounds that CountInv gives.
TypeInv ==
    /\ state \in [Ends -> States]
    /\ pc \in [Ends -> Pcs]
    /\ hand \in [Ends -> Frames \cup {"none"}]
    /\ \A e \in Ends: At(e, "process") <=> hand[e] # "none"
    /\ sending \subseteq Ends /\ closed \subseteq Ends /\ reset \subseteq Ends
    /\ wire \in [Ends -> Seq(Frames)]
    /\ sent \in [Ends -> Nat] /\ delivered \in [Ends -> Nat]
    /\ byeSeen \subseteq Ends

\* A thread that sends has taken its frame from those that may be sent.
BoundInv == \A e \in Ends: sent[e] <= MaxFrames /\ (e \in sending => sent[e] < MaxFrames)

\* Where run() is when the state is what it is.
PhaseOK(e) ==
    /\ At(e, "start") => In(e, "PRE_HANDSHAKE")
    /\ pc[e] \in {"sendHelo", "receiveHelo", "establish"} => In(e, "HANDSHAKE")
    /\ At(e, "loop") =>
         state[e] \in {"ESTABLISHED", "CLOSING_ACTIVE", "CLOSING_PASSIVE", "ABORTED"}
    /\ pc[e] \in {"receive", "process"} =>
         state[e] \in {"ESTABLISHED", "CLOSING_ACTIVE", "ABORTED"}
    /\ At(e, "bye") => state[e] \in {"CLOSING_ACTIVE", "CLOSING_PASSIVE"}
    /\ At(e, "receiveBye") => In(e, "CLOSING_ACTIVE")
    /\ At(e, "waitPeer") => In(e, "CLOSING_PASSIVE")
    /\ pc[e] \in {"closeSocket", "done"} => state[e] \in {"ABORTED", "CLOSED"}
    /\ At(e, "failed") => state[e] \in {"HANDSHAKE", "CLOSING_ACTIVE", "CLOSING_PASSIVE"}
    /\ e \in closed => pc[e] \in {"done", "failed"}
    /\ e \in sending => state[e] \notin {"PRE_HANDSHAKE", "HANDSHAKE"}
PhaseInv == \A e \in Ends: PhaseOK(e)

\* e has sent its BYE (or run() failed on the way), and sends nothing more.
SaidBye(e) ==
    /\ \/ pc[e] \in {"receiveBye", "waitPeer"}
       \/ pc[e] \in {"closeSocket", "done"} /\ In(e, "CLOSED")
       \/ At(e, "failed") /\ state[e] \in {"CLOSING_ACTIVE", "CLOSING_PASSIVE"}
    /\ e \notin sending

ByeOK(e) ==
    /\ ByeLast(wire[e])
    /\ Contains(wire[e], "bye") => SaidBye(e)
    /\ hand[Peer(e)] = "bye" => SaidBye(e) /\ wire[e] = <<>>
ByeInv == \A e \in Ends: ByeOK(e)

\* An end is passive because its peer has said BYE first.
RoleOK(e) ==
    In(e, "CLOSING_PASSIVE") =>
        /\ SaidBye(Peer(e))
        /\ state[Peer(e)] \in {"CLOSING_ACTIVE", "CLOSED"}
        /\ delivered[e] = sent[Peer(e)]
RoleInv == \A e \in Ends: RoleOK(e)

\* The HELO is the first frame, and read before any other.
BeforeHelo(e) == pc[e] \in {"start", "sendHelo"} \/ (e = "server" /\ At(e, "receiveHelo"))
AwaitsHelo(e) == pc[e] \in {"start", "receiveHelo"} \/ (e = "client" /\ At(e, "sendHelo"))

HeloOK(e) ==
    /\ HeloFirst(wire[e])
    /\ BeforeHelo(e) => wire[e] = <<>> /\ sent[e] = 0
    /\ ~AwaitsHelo(e) /\ ~At(e, "failed") =>
         ~BeforeHelo(Peer(e)) /\ ~Contains(wire[Peer(e)], "helo")
    /\ hand[e] # "helo"
HeloInv == \A e \in Ends: HeloOK(e)

\* While an end reads what its peer sends, no data frame is lost.
Reading(e) ==
    pc[e] \in {"start", "sendHelo", "receiveHelo", "establish", "loop", "receive", "process"}

Balanced(s, b, h, d, n, l) == s + b + h = d + n + l

CountOK(e) ==
    /\ delivered[e] + One(hand[e] = "data") <= sent[Peer(e)]
    /\ Reading(e) =>
         Balanced(sent[Peer(e)], One(Contains(wire[Peer(e)], "bye")),
                  One(Contains(wire[Peer(e)], "helo")),
                  delivered[e], One(hand[e] = "data"), Len(wire[Peer(e)]))
CountInv == \A e \in Ends: CountOK(e)

IInv == TypeInv /\ BoundInv /\ PhaseInv /\ ByeInv /\ RoleInv /\ HeloInv /\ CountInv

-----------------------------------------------------------------------------
(* Ends and sequences of frames *)

LEMMA PeerFacts ==
    ASSUME NEW e \in Ends
    PROVE  /\ Peer(e) \in Ends
           /\ Peer(e) # e
           /\ Peer(Peer(e)) = e
           /\ \A d \in Ends: d = e \/ d = Peer(e)
  BY DEF Ends, Peer

LEMMA EmptyWire == \A f: ~Contains(<<>>, f) /\ ByeLast(<<>>) /\ HeloFirst(<<>>)
  BY DEF Contains, ByeLast, HeloFirst

LEMMA AppendFrame ==
    ASSUME NEW s \in Seq(Frames), NEW f \in Frames
    PROVE  /\ Append(s, f) \in Seq(Frames)
           /\ Len(Append(s, f)) = Len(s) + 1
           /\ \A g: Contains(Append(s, f), g) => Contains(s, g) \/ g = f
           /\ \A g: Contains(s, g) \/ g = f => Contains(Append(s, f), g)
           /\ ByeLast(s) /\ ~Contains(s, "bye") => ByeLast(Append(s, f))
           /\ HeloFirst(s) /\ (f # "helo" \/ s = <<>>) => HeloFirst(Append(s, f))
<1> DEFINE a == Append(s, f)
<1>1. a \in Seq(Frames) /\ Len(a) = Len(s) + 1 /\ Len(s) \in Nat
  OBVIOUS
<1>2. \A i \in 1..Len(s): a[i] = s[i]
  OBVIOUS
<1>3. a[Len(s) + 1] = f
  OBVIOUS
<1>4. 1..Len(a) = 1..Len(s) \cup {Len(s) + 1}
  BY <1>1
<1> HIDE DEF a
<1>5. /\ \A g: Contains(a, g) => Contains(s, g) \/ g = f
      /\ \A g: Contains(s, g) \/ g = f => Contains(a, g)
  BY <1>1, <1>2, <1>3, <1>4 DEF Contains
<1>6. ByeLast(s) /\ ~Contains(s, "bye") => ByeLast(a)
  BY <1>1, <1>2, <1>3, <1>4 DEF Contains, ByeLast
<1>7. s = <<>> => Len(s) = 0
  OBVIOUS
<1>8. HeloFirst(s) /\ (f # "helo" \/ s = <<>>) => HeloFirst(a)
  BY <1>1, <1>2, <1>3, <1>4, <1>7 DEF HeloFirst
<1> QED
  BY <1>1, <1>5, <1>6, <1>8 DEF a

LEMMA TailOfWire ==
    ASSUME NEW s \in Seq(Frames), s # <<>>
    PROVE  /\ Tail(s) \in Seq(Frames) /\ Head(s) \in Frames
           /\ Len(Tail(s)) = Len(s) - 1 /\ Len(s) \in Nat
           /\ \A g: Contains(s, g) => Contains(Tail(s), g) \/ g = Head(s)
           /\ \A g: Contains(Tail(s), g) \/ g = Head(s) => Contains(s, g)
           /\ ByeLast(s) => ByeLast(Tail(s))
           /\ ByeLast(s) /\ Head(s) = "bye" => Tail(s) = <<>>
           /\ HeloFirst(s) => HeloFirst(Tail(s)) /\ ~Contains(Tail(s), "helo")
<1> DEFINE u == Tail(s)
<1>1. u \in Seq(Frames) /\ Len(u) = Len(s) - 1 /\ Len(s) \in Nat /\ Len(s) > 0
  OBVIOUS
<1>2. \A i \in 1..Len(u): u[i] = s[i + 1] /\ i + 1 \in 1..Len(s)
  OBVIOUS
<1>3. Head(s) = s[1] /\ Head(s) \in Frames /\ 1 \in 1..Len(s)
  OBVIOUS
<1> HIDE DEF u
<1>4. Len(u) = 0 => u = <<>>
  BY <1>1
<1>5. \A i \in 1..Len(s): i = 1 \/ (i - 1 \in 1..Len(u) /\ u[i - 1] = s[i])
  BY <1>1, <1>2
<1>6. /\ \A g: Contains(s, g) => Contains(u, g) \/ g = Head(s)
      /\ \A g: Contains(u, g) \/ g = Head(s) => Contains(s, g)
  BY <1>2, <1>3, <1>5 DEF Contains
<1>7. ByeLast(s) => ByeLast(u)
  BY <1>1, <1>2 DEF ByeLast
<1>8. ByeLast(s) /\ Head(s) = "bye" => u = <<>>
  BY <1>1, <1>3, <1>4 DEF ByeLast
<1>9. HeloFirst(s) => HeloFirst(u) /\ ~Contains(u, "helo")
  BY <1>1, <1>2 DEF HeloFirst, Contains
<1> QED
  BY <1>1, <1>3, <1>6, <1>7, <1>8, <1>9 DEF u

-----------------------------------------------------------------------------
(* The socket *)

\* What Transmit() does to the wires, frame by frame.
Appended(e, f) ==
    /\ wire' \in [Ends -> Seq(Frames)]
    /\ closed' = closed /\ (reset' = reset \/ reset' = reset \cup {e})
    /\ wire'[Peer(e)] = wire[Peer(e)]
    /\ \/ Peer(e) \in closed /\ wire' = wire
       \/ /\ Len(wire'[e]) = Len(wire[e]) + 1
          /\ Contains(wire'[e], "bye") => Contains(wire[e], "bye") \/ f = "bye"
          /\ Contains(wire[e], "bye") \/ f = "bye" => Contains(wire'[e], "bye")
          /\ Contains(wire'[e], "helo") => Contains(wire[e], "helo") \/ f = "helo"
          /\ Contains(wire[e], "helo") \/ f = "helo" => Contains(wire'[e], "helo")
          /\ ByeLast(wire[e]) /\ ~Contains(wire[e], "bye") => ByeLast(wire'[e])
          /\ HeloFirst(wire[e]) /\ (f # "helo" \/ wire[e] = <<>>)
               => HeloFirst(wire'[e])

LEMMA TransmitFacts ==
    ASSUME NEW e \in Ends, NEW f \in Frames,
           wire \in [Ends -> Seq(Frames)], Transmit(e, f)
    PROVE  Appended(e, f)
<1>1. CASE Peer(e) \in closed
  BY <1>1 DEF Transmit, Appended
<1>2. CASE Peer(e) \notin closed
  <2>1. wire' = [wire EXCEPT ![e] = Append(wire[e], f)] /\ reset' = reset /\ closed' = closed
    BY <1>2 DEF Transmit
  <2>2. wire[e] \in Seq(Frames) /\ Append(wire[e], f) \in Seq(Frames)
    BY AppendFrame
  <2>3. wire'[e] = Append(wire[e], f) /\ wire'[Peer(e)] = wire[Peer(e)]
    BY <2>1, PeerFacts
  <2>4. wire' \in [Ends -> Seq(Frames)]
    BY <2>1, <2>2
  <2> QED
    BY <1>2, <2>1, <2>2, <2>3, <2>4, AppendFrame DEF Appended
<1> QED
  BY <1>1, <1>2

\* What Take() does to them.
Taken(e) ==
    /\ wire' \in [Ends -> Seq(Frames)]
    /\ closed' = closed /\ reset' = reset
    /\ wire'[e] = wire[e]
    /\ wire[Peer(e)] # <<>> /\ Head(Incoming(e)) \in Frames
    /\ Len(wire'[Peer(e)]) = Len(wire[Peer(e)]) - 1 /\ Len(wire[Peer(e)]) \in Nat
    /\ \A g \in {"bye", "helo"}:
         /\ Contains(wire[Peer(e)], g) => Contains(wire'[Peer(e)], g) \/ g = Head(Incoming(e))
         /\ Contains(wire'[Peer(e)], g) \/ g = Head(Incoming(e)) => Contains(wire[Peer(e)], g)
    /\ ByeLast(wire[Peer(e)]) =>
         ByeLast(wire'[Peer(e)]) /\ (Head(Incoming(e)) = "bye" => wire'[Peer(e)] = <<>>)
    /\ HeloFirst(wire[Peer(e)]) =>
         HeloFirst(wire'[Peer(e)]) /\ ~Contains(wire'[Peer(e)], "helo")

LEMMA TakeFacts ==
    ASSUME NEW e \in Ends, wire \in [Ends -> Seq(Frames)], Take(e)
    PROVE  Taken(e)
<1> DEFINE s == wire[Peer(e)]
<1>1. Peer(e) \in Ends /\ Peer(e) # e
  BY PeerFacts
<1>2. s \in Seq(Frames) /\ s # <<>> /\ Incoming(e) = s
  BY <1>1 DEF Take, Incoming
<1>3. wire' = [wire EXCEPT ![Peer(e)] = Tail(s)] /\ closed' = closed /\ reset' = reset
  BY DEF Take
<1>4. wire'[Peer(e)] = Tail(s) /\ wire'[e] = wire[e]
  BY <1>1, <1>3
<1>5. Tail(s) \in Seq(Frames)
  BY <1>2, TailOfWire
<1>6. wire' \in [Ends -> Seq(Frames)]
  BY <1>3, <1>5
<1> HIDE DEF s
<1> QED
  BY <1>2, <1>3, <1>4, <1>6, TailOfWire DEF s, Taken

-----------------------------------------------------------------------------
(* Every step keeps the invariant *)

\* What the types say of one end.
Known(e) ==
    /\ sent[e] \in Nat /\ delivered[e] \in Nat /\ Len(wire[e]) \in Nat
    /\ wire[e] = <<>> => Len(wire[e]) = 0
    /\ wire[e] = <<>> => ~Contains(wire[e], "bye") /\ ~Contains(wire[e], "helo")

\* What the invariant says of one end.
KnownOf(e) ==
    PhaseOK(e) /\ ByeOK(e) /\ RoleOK(e) /\ HeloOK(e) /\ CountOK(e) /\ Known(e)

LEMMA KnownFacts ==
    ASSUME IInv, NEW e \in Ends
    PROVE  KnownOf(e)
<1>1. wire[e] \in Seq(Frames)
  BY DEF IInv, TypeInv
<1>2. Len(wire[e]) \in Nat /\ (wire[e] = <<>> => Len(wire[e]) = 0)
  BY <1>1
<1>3. sent[e] \in Nat /\ delivered[e] \in Nat
  BY DEF IInv, TypeInv
<1>4. PhaseOK(e) /\ ByeOK(e) /\ RoleOK(e) /\ HeloOK(e) /\ CountOK(e)
  BY DEF IInv, PhaseInv, ByeInv, RoleInv, HeloInv, CountInv
<1>5. Known(e)
  BY <1>2, <1>3, EmptyWire DEF Known
<1> QED
  BY <1>4, <1>5 DEF KnownOf

\* What a step adds on one side it adds on the other.
LEMMA Balance ==
    ASSUME NEW s \in Nat, NEW b \in Nat, NEW h \in Nat,
           NEW d \in Nat, NEW n \in Nat, NEW l \in Nat
    PROVE  /\ Balanced(s, b, h, d, n, l) =>
                /\ Balanced(s + 1, b, h, d, n, l + 1)
                /\ Balanced(s, b + 1, h, d, n, l + 1)
                /\ Balanced(s, b, h + 1, d, n, l + 1)
           /\ d + n <= s => d + n <= s + 1
           /\ Balanced(s, b + 1, h, d, n, l + 1) => Balanced(s, b, h, d, n, l)
           /\ Balanced(s, b, h + 1, d, n, l + 1) => Balanced(s, b, h, d, n, l)
           /\ Balanced(s, b, h, d, 0, l + 1) /\ l >= b + h =>
                Balanced(s, b, h, d, 1, l)
  BY DEF Balanced

LEMMA EnoughSent ==
    ASSUME NEW s \in Nat, NEW b \in Nat, NEW h \in Nat, NEW d \in Nat, NEW l \in Nat,
           Balanced(s, b, h, d, 1, l), l >= b + h
    PROVE  d + 1 <= s
  BY DEF Balanced

LEMMA StartKeeps ==
    ASSUME NEW e \in Ends, IInv, Start(e)
    PROVE  IInv'
<1>p. Peer(e) \in Ends /\ Peer(e) # e /\ Peer(Peer(e)) = e /\ \A d \in Ends: d = e \/ d = Peer(e)
  BY PeerFacts
<1>r. \/ e = "client" /\ Peer(e) = "server"
      \/ e = "server" /\ Peer(e) = "client"
  BY DEF Ends, Peer
<1>a. TypeInv /\ Start(e)
  BY DEF IInv
<1>b. BoundInv
  BY DEF IInv
<1>h. KnownOf(e) /\ KnownOf(Peer(e))
  BY <1>p, KnownFacts
<1>w. wire' = wire /\ closed' = closed /\ reset' = reset
  BY DEF Start, netVars
<1>e. /\ state'[e] = "HANDSHAKE"
      /\ pc'[e] = (IF e = "client" THEN "sendHelo" ELSE "receiveHelo")
      /\ hand'[e] = hand[e]
      /\ sent'[e] = sent[e]
      /\ delivered'[e] = delivered[e]
  BY <1>a DEF Start, SetState, Goto, frameVars, TypeInv
<1>q. /\ state'[Peer(e)] = state[Peer(e)]
      /\ pc'[Peer(e)] = pc[Peer(e)]
      /\ hand'[Peer(e)] = hand[Peer(e)]
      /\ sent'[Peer(e)] = sent[Peer(e)]
      /\ delivered'[Peer(e)] = delivered[Peer(e)]
      /\ sending' = sending
  BY <1>p DEF Start, SetState, Goto, frameVars
<1>1. TypeInv'
  BY <1>a, <1>w DEF Start, SetState, Goto, frameVars, TypeInv, At, States, Pcs
<1>2. BoundInv'
  BY <1>b, <1>p, <1>e, <1>q DEF BoundInv
<1>3. PhaseOK(e)' /\ PhaseOK(Peer(e))'
  BY <1>h, <1>w, <1>e, <1>q DEF KnownOf, Start, PhaseOK, At, In
<1>4. ByeOK(e)' /\ ByeOK(Peer(e))'
  BY <1>h, <1>w, <1>q DEF KnownOf, Start, ByeOK, SaidBye, At, In
<1>5. RoleOK(e)' /\ RoleOK(Peer(e))'
  BY <1>p, <1>h, <1>e, <1>q DEF KnownOf, Start, PhaseOK, RoleOK, In
<1>6. HeloOK(e)' /\ HeloOK(Peer(e))'
  BY <1>p, <1>h, <1>w, <1>e, <1>q DEF KnownOf, Start, HeloOK, BeforeHelo, AwaitsHelo, At
<1>7. CountOK(e)' /\ CountOK(Peer(e))'
  BY <1>p, <1>h, <1>w, <1>e, <1>q DEF KnownOf, Start, CountOK, Reading, At
<1> QED
  BY <1>p, <1>1, <1>2, <1>3, <1>4, <1>5, <1>6, <1>7
     DEF IInv, PhaseInv, ByeInv, RoleInv, HeloInv, CountInv

LEMMA SendHeloKeeps ==
    ASSUME NEW e \in Ends, IInv, SendHelo(e)
    PROVE  IInv'
<1>p. Peer(e) \in Ends /\ Peer(e) # e /\ Peer(Peer(e)) = e /\ \A d \in Ends: d = e \/ d = Peer(e)
  BY PeerFacts
<1>r. \/ e = "client" /\ Peer(e) = "server"
      \/ e = "server" /\ Peer(e) = "client"
  BY DEF Ends, Peer
<1>a. TypeInv /\ SendHelo(e)
  BY DEF IInv
<1>b. BoundInv
  BY DEF IInv
<1>h. KnownOf(e) /\ KnownOf(Peer(e))
  BY <1>p, KnownFacts
<1>1. CASE Transmit(e, "helo") /\ Goto(e, IF e = "client" THEN "receiveHelo" ELSE "establish")
  <2>w. Appended(e, "helo")
    BY <1>1, <1>a, TransmitFacts DEF TypeInv, Frames
  <2>g. \/ Peer(e) \in closed /\ wire' = wire
        \/ /\ Len(wire'[e]) = Len(wire[e]) + 1
           /\ Contains(wire'[e], "bye") => Contains(wire[e], "bye")
           /\ Contains(wire[e], "bye") => Contains(wire'[e], "bye")
           /\ Contains(wire'[e], "helo")
           /\ ByeLast(wire[e]) /\ ~Contains(wire[e], "bye") => ByeLast(wire'[e])
           /\ HeloFirst(wire[e]) /\ wire[e] = <<>> => HeloFirst(wire'[e])
    BY <2>w DEF Appended
  <2>k. wire'[Peer(e)] = wire[Peer(e)] /\ closed' = closed
    BY <2>w DEF Appended
  <2>e. /\ state'[e] = state[e]
        /\ pc'[e] = (IF e = "client" THEN "receiveHelo" ELSE "establish")
        /\ hand'[e] = hand[e]
        /\ sent'[e] = sent[e]
        /\ delivered'[e] = delivered[e]
    BY <1>1, <1>a DEF SendHelo, Goto, frameVars, TypeInv
  <2>q. /\ state'[Peer(e)] = state[Peer(e)]
        /\ pc'[Peer(e)] = pc[Peer(e)]
        /\ hand'[Peer(e)] = hand[Peer(e)]
        /\ sent'[Peer(e)] = sent[Peer(e)]
        /\ delivered'[Peer(e)] = delivered[Peer(e)]
        /\ sending' = sending
    BY <1>1, <1>p DEF SendHelo, Goto, frameVars
  <2>1. TypeInv'
    BY <1>1, <1>a, <1>p, <2>w, <2>e, <2>q
       DEF SendHelo, TransmitFails, SetState, Goto, netVars, frameVars, TypeInv, At, States,
           Pcs, Frames, Appended
  <2>2. BoundInv'
    BY <1>b, <1>p, <2>e, <2>q DEF BoundInv
  <2>3. PhaseOK(e)' /\ PhaseOK(Peer(e))'
    BY <1>h, <2>k, <2>e, <2>q DEF KnownOf, SendHelo, PhaseOK, At, In
  <2>4. ByeOK(e)' /\ ByeOK(Peer(e))'
    BY <1>h, <2>g, <2>k, <2>q DEF KnownOf, SendHelo, ByeOK, SaidBye, At, In
  <2>5. RoleOK(e)' /\ RoleOK(Peer(e))'
    BY <1>p, <1>h DEF KnownOf, SendHelo, PhaseOK, RoleOK, At, In
  <2>6. HeloOK(e)' /\ HeloOK(Peer(e))'
    BY <1>p, <1>h, <2>g, <2>k, <2>e, <2>q
       DEF KnownOf, SendHelo, HeloOK, BeforeHelo, AwaitsHelo, At
  <2>7e. CountOK(e)'
    BY <1>h, <2>k, <2>e, <2>q DEF KnownOf, SendHelo, CountOK, Reading, At
  <2>7p. CountOK(Peer(e))'
    <3>1. CASE Peer(e) \in closed /\ wire' = wire
      BY <3>1, <1>p, <1>h, <2>e, <2>q DEF KnownOf, CountOK, Reading
    <3>2. CASE wire' # wire \/ Peer(e) \notin closed
      <4>1. Len(wire'[e]) = Len(wire[e]) + 1 /\ Len(wire[e]) \in Nat
        BY <3>2, <2>g, <1>h DEF KnownOf, Known
      <4>2. ~Contains(wire[e], "helo")
        BY <1>h DEF KnownOf, Known, SendHelo, At, HeloOK, BeforeHelo
      <4>3. /\ One(Contains(wire'[e], "bye")) = One(Contains(wire[e], "bye"))
            /\ One(Contains(wire'[e], "helo")) = One(Contains(wire[e], "helo")) + 1
        BY <3>2, <2>g, <4>2 DEF One
      <4>4. /\ One(Contains(wire[e], "bye")) \in Nat
            /\ One(Contains(wire[e], "helo")) \in Nat
            /\ One(hand[Peer(e)] = "data") \in Nat
        BY DEF One
      <4>5. One(hand[Peer(e)] = "data")' = One(hand[Peer(e)] = "data")
        BY <2>q DEF One
      <4>6. Reading(Peer(e))' => Reading(Peer(e))
        BY <2>q DEF Reading
      <4>7. Reading(Peer(e)) =>
                Balanced(sent[e], One(Contains(wire[e], "bye")), One(Contains(wire[e], "helo")),
                         delivered[Peer(e)], One(hand[Peer(e)] = "data"), Len(wire[e]))
        BY <1>p, <1>h DEF KnownOf, Known, CountOK
      <4>8. delivered[Peer(e)] + One(hand[Peer(e)] = "data") <= sent[e]
        BY <1>p, <1>h DEF KnownOf, CountOK
      <4>9. Reading(Peer(e)) =>
                Balanced(sent[e], One(Contains(wire[e], "bye")), One(Contains(wire[e], "helo")) + 1,
                         delivered[Peer(e)], One(hand[Peer(e)] = "data"), Len(wire[e]) + 1)
        BY <1>h, <4>4, <4>7, Balance DEF KnownOf, Known
      <4> QED
        BY <1>p, <2>e, <2>q, <4>1, <4>3, <4>6, <4>8, <4>9 DEF CountOK
    <3> QED
      BY <3>1, <3>2, <2>g
  <2> QED
    BY <1>p, <2>1, <2>2, <2>3, <2>4, <2>5, <2>6, <2>7e, <2>7p
       DEF IInv, PhaseInv, ByeInv, RoleInv, HeloInv, CountInv
<1>2. CASE TransmitFails(e) /\ Goto(e, "failed")
  <2>w. wire' = wire /\ closed' = closed /\ reset' = reset
    BY <1>2 DEF TransmitFails, netVars
  <2>e. /\ state'[e] = state[e]
        /\ pc'[e] = "failed"
        /\ hand'[e] = hand[e]
        /\ sent'[e] = sent[e]
        /\ delivered'[e] = delivered[e]
    BY <1>2, <1>a DEF SendHelo, Goto, frameVars, TypeInv
  <2>q. /\ state'[Peer(e)] = state[Peer(e)]
        /\ pc'[Peer(e)] = pc[Peer(e)]
        /\ hand'[Peer(e)] = hand[Peer(e)]
        /\ sent'[Peer(e)] = sent[Peer(e)]
        /\ delivered'[Peer(e)] = delivered[Peer(e)]
        /\ sending' = sending
    BY <1>2, <1>p DEF SendHelo, Goto, frameVars
  <2>1. TypeInv'
    BY <1>2, <1>a, <2>w DEF SendHelo, Goto, frameVars, TypeInv, At, Pcs
  <2>2. BoundInv'
    BY <1>b, <1>p, <2>e, <2>q DEF BoundInv
  <2>3. PhaseOK(e)' /\ PhaseOK(Peer(e))'
    BY <1>h, <2>w, <2>e, <2>q DEF KnownOf, SendHelo, PhaseOK, At, In
  <2>4. ByeOK(e)' /\ ByeOK(Peer(e))'
    BY <1>h, <2>w, <2>q DEF KnownOf, SendHelo, ByeOK, SaidBye, At, In
  <2>5. RoleOK(e)' /\ RoleOK(Peer(e))'
    BY <1>p, <1>h DEF KnownOf, SendHelo, PhaseOK, RoleOK, At, In
  <2>6. HeloOK(e)' /\ HeloOK(Peer(e))'
    BY <1>p, <1>h, <2>w, <2>e, <2>q DEF KnownOf, Known, SendHelo, HeloOK, BeforeHelo, At
  <2>7. CountOK(e)' /\ CountOK(Peer(e))'
    BY <1>p, <1>h, <2>w, <2>e, <2>q DEF KnownOf, CountOK, Reading
  <2> QED
    BY <1>p, <2>1, <2>2, <2>3, <2>4, <2>5, <2>6, <2>7
       DEF IInv, PhaseInv, ByeInv, RoleInv, HeloInv, CountInv
<1> QED
  BY <1>1, <1>2 DEF SendHelo

LEMMA ReceiveHeloKeeps ==
    ASSUME NEW e \in Ends, IInv, ReceiveHelo(e)
    PROVE  IInv'
<1>p. Peer(e) \in Ends /\ Peer(e) # e /\ Peer(Peer(e)) = e /\ \A d \in Ends: d = e \/ d = Peer(e)
  BY PeerFacts
<1>r. \/ e = "client" /\ Peer(e) = "server"
      \/ e = "server" /\ Peer(e) = "client"
  BY DEF Ends, Peer
<1>a. TypeInv /\ ReceiveHelo(e)
  BY DEF IInv
<1>b. BoundInv
  BY DEF IInv
<1>h. KnownOf(e) /\ KnownOf(Peer(e))
  BY <1>p, KnownFacts
<1>1. CASE Take(e) /\ Goto(e, IF Head(Incoming(e)) # "helo" THEN "failed"
                          ELSE IF e = "client" THEN "establish" ELSE "sendHelo")
  <2>w. Taken(e)
    BY <1>1, <1>a, TakeFacts DEF TypeInv
  <2>l. ByeLast(wire[Peer(e)]) /\ HeloFirst(wire[Peer(e)])
    BY <1>h DEF KnownOf, Known, ByeOK, HeloOK
  <2>m. /\ wire[Peer(e)] # <<>>
        /\ Len(wire'[Peer(e)]) = Len(wire[Peer(e)]) - 1
    BY <2>w DEF Taken
  <2>i. /\ Contains(wire[Peer(e)], "bye") => Contains(wire'[Peer(e)], "bye") \/ Head(Incoming(e)) = "bye"
        /\ Contains(wire[Peer(e)], "helo") => Contains(wire'[Peer(e)], "helo") \/ Head(Incoming(e)) = "helo"
        /\ Contains(wire'[Peer(e)], "bye") \/ Head(Incoming(e)) = "bye" => Contains(wire[Peer(e)], "bye")
        /\ Contains(wire'[Peer(e)], "helo") \/ Head(Incoming(e)) = "helo" => Contains(wire[Peer(e)], "helo")
    BY <2>w DEF Taken
  <2>j. /\ ByeLast(wire'[Peer(e)]) /\ (Head(Incoming(e)) = "bye" => wire'[Peer(e)] = <<>>)
        /\ wire'[Peer(e)] = <<>> => ~Contains(wire'[Peer(e)], "bye")
        /\ HeloFirst(wire'[Peer(e)]) /\ ~Contains(wire'[Peer(e)], "helo")
    BY <2>w, <2>l, EmptyWire DEF Taken
  <2>g. Head(Incoming(e)) \in {"helo", "data", "bye"}
    BY <2>w DEF Taken, Frames
  <2>k. wire'[e] = wire[e] /\ closed' = closed
    BY <2>w DEF Taken
  <2>e. /\ state'[e] = state[e]
        /\ pc'[e] = (IF Head(Incoming(e)) # "helo" THEN "failed"
                     ELSE IF e = "client" THEN "establish" ELSE "sendHelo")
        /\ hand'[e] = hand[e]
        /\ sent'[e] = sent[e]
        /\ delivered'[e] = delivered[e]
    BY <1>1, <1>a DEF ReceiveHelo, Goto, frameVars, TypeInv
  <2>q. /\ state'[Peer(e)] = state[Peer(e)]
        /\ pc'[Peer(e)] = pc[Peer(e)]
        /\ hand'[Peer(e)] = hand[Peer(e)]
        /\ sent'[Peer(e)] = sent[Peer(e)]
        /\ delivered'[Peer(e)] = delivered[Peer(e)]
        /\ sending' = sending
    BY <1>1, <1>p DEF ReceiveHelo, Goto, frameVars
  <2>1. TypeInv'
    BY <1>1, <1>a, <2>w DEF ReceiveHelo, Goto, frameVars, TypeInv, At, Pcs, Taken
  <2>2. BoundInv'
    BY <1>b, <1>p, <2>e, <2>q DEF BoundInv
  <2>3. PhaseOK(e)' /\ PhaseOK(Peer(e))'
    BY <1>h, <2>k, <2>e, <2>q DEF KnownOf, ReceiveHelo, PhaseOK, At, In
  <2>4. ByeOK(e)' /\ ByeOK(Peer(e))'
    BY <1>h, <2>k, <2>i, <2>j, <2>m, <2>q DEF KnownOf, ReceiveHelo, ByeOK, SaidBye, At, In
  <2>5. RoleOK(e)' /\ RoleOK(Peer(e))'
    BY <1>p, <1>h DEF KnownOf, ReceiveHelo, PhaseOK, RoleOK, At, In
  <2>6. HeloOK(e)' /\ HeloOK(Peer(e))'
    BY <1>p, <1>r, <1>h, <2>k, <2>j, <2>m, <2>e, <2>q
       DEF KnownOf, ReceiveHelo, HeloOK, BeforeHelo, AwaitsHelo, At
  <2>7e. CountOK(e)'
    <3>1. CASE Head(Incoming(e)) = "bye"
      BY <3>1, <1>h, <2>e, <2>q DEF KnownOf, CountOK, Reading
    <3>2. CASE Head(Incoming(e)) = "helo"
      <4>1. /\ Len(wire'[Peer(e)]) = Len(wire[Peer(e)]) - 1 /\ Len(wire[Peer(e)]) \in Nat
            /\ Len(wire'[Peer(e)]) \in Nat
        BY <1>p, <2>m, <2>w, <1>h DEF KnownOf, Known, Taken
      <4>2. /\ One(Contains(wire[Peer(e)], "bye")) = One(Contains(wire'[Peer(e)], "bye"))
            /\ One(Contains(wire[Peer(e)], "helo")) = One(Contains(wire'[Peer(e)], "helo")) + 1
        BY <3>2, <2>i, <2>j DEF One
      <4>3. /\ One(Contains(wire'[Peer(e)], "bye")) \in Nat
            /\ One(Contains(wire'[Peer(e)], "helo")) \in Nat
            /\ One(hand[e] = "data") \in Nat
        BY DEF One
      <4>4. One(hand[e] = "data")' = One(hand[e] = "data")
        BY <2>e DEF One
      <4>5. Reading(e)
        BY <1>a DEF ReceiveHelo, At, Reading
      <4>6. sent'[Peer(e)] = sent[Peer(e)] /\ delivered'[e] = delivered[e]
        BY <2>e, <2>q
      <4>7. Balanced(sent[Peer(e)], One(Contains(wire'[Peer(e)], "bye")), One(Contains(wire'[Peer(e)], "helo")) + 1,
                     delivered[e], One(hand[e] = "data"), Len(wire'[Peer(e)]) + 1)
        BY <1>h, <4>1, <4>2, <4>5 DEF KnownOf, CountOK
      <4>10. Balanced(sent[Peer(e)], One(Contains(wire'[Peer(e)], "bye")), One(Contains(wire'[Peer(e)], "helo")),
                      delivered[e], One(hand[e] = "data"), Len(wire'[Peer(e)]))
        BY <1>h, <4>1, <4>3, <4>7, Balance DEF KnownOf, Known
      <4>11. delivered[e] + One(hand[e] = "data") <= sent[Peer(e)]
        BY <1>h DEF KnownOf, CountOK
      <4> QED
        BY <4>4, <4>6, <4>10, <4>11 DEF CountOK
    <3>3. CASE Head(Incoming(e)) = "data"
      BY <3>3, <1>h, <2>e, <2>q DEF KnownOf, CountOK, Reading
    <3> QED
      BY <3>1, <3>2, <3>3, <2>g
  <2>7p. CountOK(Peer(e))'
    BY <1>p, <1>h, <2>k, <2>e, <2>q DEF KnownOf, CountOK, Reading
  <2> QED
    BY <1>p, <2>1, <2>2, <2>3, <2>4, <2>5, <2>6, <2>7e, <2>7p
       DEF IInv, PhaseInv, ByeInv, RoleInv, HeloInv, CountInv
<1>2. CASE Goto(e, "failed") /\ UNCHANGED netVars
  <2>w. wire' = wire /\ closed' = closed /\ reset' = reset
    BY <1>2 DEF netVars
  <2>e. /\ state'[e] = state[e]
        /\ pc'[e] = "failed"
        /\ hand'[e] = hand[e]
        /\ sent'[e] = sent[e]
        /\ delivered'[e] = delivered[e]
    BY <1>2, <1>a DEF ReceiveHelo, Goto, frameVars, TypeInv
  <2>q. /\ state'[Peer(e)] = state[Peer(e)]
        /\ pc'[Peer(e)] = pc[Peer(e)]
        /\ hand'[Peer(e)] = hand[Peer(e)]
        /\ sent'[Peer(e)] = sent[Peer(e)]
        /\ delivered'[Peer(e)] = delivered[Peer(e)]
        /\ sending' = sending
    BY <1>2, <1>p DEF ReceiveHelo, Goto, frameVars
  <2>1. TypeInv'
    BY <1>2, <1>a, <2>w DEF ReceiveHelo, Goto, frameVars, TypeInv, At, Pcs
  <2>2. BoundInv'
    BY <1>b, <1>p, <2>e, <2>q DEF BoundInv
  <2>3. PhaseOK(e)' /\ PhaseOK(Peer(e))'
    BY <1>h, <2>w, <2>e, <2>q DEF KnownOf, ReceiveHelo, PhaseOK, At, In
  <2>4. ByeOK(e)' /\ ByeOK(Peer(e))'
    BY <1>h, <2>w, <2>q DEF KnownOf, ReceiveHelo, ByeOK, SaidBye, At, In
  <2>5. RoleOK(e)' /\ RoleOK(Peer(e))'
    BY <1>p, <1>h DEF KnownOf, ReceiveHelo, PhaseOK, RoleOK, At, In
  <2>6. HeloOK(e)' /\ HeloOK(Peer(e))'
    BY <1>p, <1>h, <2>w, <2>e, <2>q DEF KnownOf, HeloOK, BeforeHelo, AwaitsHelo, At
  <2>7. CountOK(e)' /\ CountOK(Peer(e))'
    BY <1>p, <1>h, <2>w, <2>e, <2>q DEF KnownOf, CountOK, Reading
  <2> QED
    BY <1>p, <2>1, <2>2, <2>3, <2>4, <2>5, <2>6, <2>7
       DEF IInv, PhaseInv, ByeInv, RoleInv, HeloInv, CountInv
<1> QED
  BY <1>1, <1>2 DEF ReceiveHelo

LEMMA EstablishKeeps ==
    ASSUME NEW e \in Ends, IInv, Establish(e)
    PROVE  IInv'
<1>p. Peer(e) \in Ends /\ Peer(e) # e /\ Peer(Peer(e)) = e /\ \A d \in Ends: d = e \/ d = Peer(e)
  BY PeerFacts
<1>r. \/ e = "client" /\ Peer(e) = "server"
      \/ e = "server" /\ Peer(e) = "client"
  BY DEF Ends, Peer
<1>a. TypeInv /\ Establish(e)
  BY DEF IInv
<1>b. BoundInv
  BY DEF IInv
<1>h. KnownOf(e) /\ KnownOf(Peer(e))
  BY <1>p, KnownFacts
<1>w. wire' = wire /\ closed' = closed /\ reset' = reset
  BY DEF Establish, netVars
<1>e. /\ state'[e] = "ESTABLISHED"
      /\ pc'[e] = "loop"
      /\ hand'[e] = hand[e]
      /\ sent'[e] = sent[e]
      /\ delivered'[e] = delivered[e]
  BY <1>a DEF Establish, SetState, Goto, frameVars, TypeInv
<1>q. /\ state'[Peer(e)] = state[Peer(e)]
      /\ pc'[Peer(e)] = pc[Peer(e)]
      /\ hand'[Peer(e)] = hand[Peer(e)]
      /\ sent'[Peer(e)] = sent[Peer(e)]
      /\ delivered'[Peer(e)] = delivered[Peer(e)]
      /\ sending' = sending
  BY <1>p DEF Establish, SetState, Goto, frameVars
<1>1. TypeInv'
  BY <1>a, <1>w DEF Establish, SetState, Goto, frameVars, TypeInv, At, States, Pcs
<1>2. BoundInv'
  BY <1>b, <1>p, <1>e, <1>q DEF BoundInv
<1>3. PhaseOK(e)' /\ PhaseOK(Peer(e))'
  BY <1>h, <1>w, <1>e, <1>q DEF KnownOf, Establish, PhaseOK, At, In
<1>4. ByeOK(e)' /\ ByeOK(Peer(e))'
  BY <1>h, <1>w, <1>q DEF KnownOf, Establish, ByeOK, SaidBye, At, In
<1>5. RoleOK(e)' /\ RoleOK(Peer(e))'
  BY <1>p, <1>h, <1>e, <1>q DEF KnownOf, Establish, PhaseOK, RoleOK, At, In
<1>6. HeloOK(e)' /\ HeloOK(Peer(e))'
  BY <1>p, <1>h, <1>w, <1>e, <1>q DEF KnownOf, Establish, HeloOK, BeforeHelo, AwaitsHelo, At
<1>7. CountOK(e)' /\ CountOK(Peer(e))'
  BY <1>p, <1>h, <1>w, <1>e, <1>q DEF KnownOf, Establish, CountOK, Reading, At
<1> QED
  BY <1>p, <1>1, <1>2, <1>3, <1>4, <1>5, <1>6, <1>7
     DEF IInv, PhaseInv, ByeInv, RoleInv, HeloInv, CountInv

LEMMA LoopKeeps ==
    ASSUME NEW e \in Ends, IInv, Loop(e)
    PROVE  IInv'
<1>p. Peer(e) \in Ends /\ Peer(e) # e /\ Peer(Peer(e)) = e /\ \A d \in Ends: d = e \/ d = Peer(e)
  BY PeerFacts
<1>r. \/ e = "client" /\ Peer(e) = "server"
      \/ e = "server" /\ Peer(e) = "client"
  BY DEF Ends, Peer
<1>a. TypeInv /\ Loop(e)
  BY DEF IInv
<1>b. BoundInv
  BY DEF IInv
<1>h. KnownOf(e) /\ KnownOf(Peer(e))
  BY <1>p, KnownFacts
<1>w. wire' = wire /\ closed' = closed /\ reset' = reset
  BY DEF Loop, netVars
<1>e. /\ state'[e] = state[e]
      /\ pc'[e] = (IF state[e] = "ESTABLISHED" THEN "receive"
                   ELSE IF state[e] = "ABORTED" THEN "closeSocket" ELSE "bye")
      /\ hand'[e] = hand[e]
      /\ sent'[e] = sent[e]
      /\ delivered'[e] = delivered[e]
  BY <1>a DEF Loop, AfterLoop, In, Goto, frameVars, TypeInv
<1>q. /\ state'[Peer(e)] = state[Peer(e)]
      /\ pc'[Peer(e)] = pc[Peer(e)]
      /\ hand'[Peer(e)] = hand[Peer(e)]
      /\ sent'[Peer(e)] = sent[Peer(e)]
      /\ delivered'[Peer(e)] = delivered[Peer(e)]
      /\ sending' = sending
  BY <1>p DEF Loop, Goto, frameVars
<1>1. TypeInv'
  BY <1>a, <1>w, <1>e DEF Loop, Goto, frameVars, TypeInv, At, Pcs
<1>2. BoundInv'
  BY <1>b, <1>p, <1>e, <1>q DEF BoundInv
<1>3. PhaseOK(e)' /\ PhaseOK(Peer(e))'
  BY <1>h, <1>w, <1>e, <1>q DEF KnownOf, Loop, PhaseOK, At, In
<1>4. ByeOK(e)' /\ ByeOK(Peer(e))'
  BY <1>h, <1>w, <1>q DEF KnownOf, Loop, ByeOK, SaidBye, At, In
<1>5. RoleOK(e)' /\ RoleOK(Peer(e))'
  BY <1>p, <1>h, <1>e, <1>q DEF KnownOf, Loop, RoleOK, SaidBye, At, In
<1>6. HeloOK(e)' /\ HeloOK(Peer(e))'
  BY <1>p, <1>h, <1>w, <1>e, <1>q DEF KnownOf, Loop, HeloOK, BeforeHelo, AwaitsHelo, At
<1>7. CountOK(e)' /\ CountOK(Peer(e))'
  BY <1>p, <1>h, <1>w, <1>e, <1>q DEF KnownOf, Loop, CountOK, Reading, At
<1> QED
  BY <1>p, <1>1, <1>2, <1>3, <1>4, <1>5, <1>6, <1>7
     DEF IInv, PhaseInv, ByeInv, RoleInv, HeloInv, CountInv

LEMMA ReceiveFrameKeeps ==
    ASSUME NEW e \in Ends, IInv, ReceiveFrame(e)
    PROVE  IInv'
<1>p. Peer(e) \in Ends /\ Peer(e) # e /\ Peer(Peer(e)) = e /\ \A d \in Ends: d = e \/ d = Peer(e)
  BY PeerFacts
<1>r. \/ e = "client" /\ Peer(e) = "server"
      \/ e = "server" /\ Peer(e) = "client"
  BY DEF Ends, Peer
<1>a. TypeInv /\ ReceiveFrame(e)
  BY DEF IInv
<1>b. BoundInv
  BY DEF IInv
<1>h. KnownOf(e) /\ KnownOf(Peer(e))
  BY <1>p, KnownFacts
<1>w. Taken(e)
  BY <1>a, TakeFacts DEF TypeInv, ReceiveFrame
<1>l. ByeLast(wire[Peer(e)]) /\ HeloFirst(wire[Peer(e)])
  BY <1>h DEF KnownOf, Known, ByeOK, HeloOK
<1>m. /\ wire[Peer(e)] # <<>>
      /\ Len(wire'[Peer(e)]) = Len(wire[Peer(e)]) - 1
  BY <1>w DEF Taken
<1>i. /\ Contains(wire[Peer(e)], "bye") => Contains(wire'[Peer(e)], "bye") \/ Head(Incoming(e)) = "bye"
      /\ Contains(wire[Peer(e)], "helo") => Contains(wire'[Peer(e)], "helo") \/ Head(Incoming(e)) = "helo"
      /\ Contains(wire'[Peer(e)], "bye") \/ Head(Incoming(e)) = "bye" => Contains(wire[Peer(e)], "bye")
      /\ Contains(wire'[Peer(e)], "helo") \/ Head(Incoming(e)) = "helo" => Contains(wire[Peer(e)], "helo")
  BY <1>w DEF Taken
<1>j. /\ ByeLast(wire'[Peer(e)]) /\ (Head(Incoming(e)) = "bye" => wire'[Peer(e)] = <<>>)
      /\ wire'[Peer(e)] = <<>> => ~Contains(wire'[Peer(e)], "bye")
      /\ HeloFirst(wire'[Peer(e)]) /\ ~Contains(wire'[Peer(e)], "helo")
  BY <1>w, <1>l, EmptyWire DEF Taken
<1>g. Head(Incoming(e)) \in {"helo", "data", "bye"}
  BY <1>w DEF Taken, Frames
<1>k. wire'[e] = wire[e] /\ closed' = closed
  BY <1>w DEF Taken
<1>e. /\ state'[e] = state[e]
      /\ pc'[e] = "process"
      /\ hand'[e] = Head(Incoming(e))
      /\ sent'[e] = sent[e]
      /\ delivered'[e] = delivered[e]
  BY <1>a DEF ReceiveFrame, Goto, frameVars, TypeInv
<1>q. /\ state'[Peer(e)] = state[Peer(e)]
      /\ pc'[Peer(e)] = pc[Peer(e)]
      /\ hand'[Peer(e)] = hand[Peer(e)]
      /\ sent'[Peer(e)] = sent[Peer(e)]
      /\ delivered'[Peer(e)] = delivered[Peer(e)]
      /\ sending' = sending
  BY <1>p DEF ReceiveFrame, Goto, frameVars
<1>1. TypeInv'
  <2>1. state' \in [Ends -> States]
    BY <1>a DEF ReceiveFrame, TypeInv
  <2>2. pc' \in [Ends -> Pcs]
    BY <1>a DEF ReceiveFrame, Goto, TypeInv, Pcs
  <2>3. hand' \in [Ends -> Frames \cup {"none"}]
    BY <1>a, <1>w DEF ReceiveFrame, TypeInv, Taken
  <2>4. sent' \in [Ends -> Nat]
    BY <1>a DEF ReceiveFrame, frameVars, TypeInv
  <2>5. delivered' \in [Ends -> Nat]
    BY <1>a DEF ReceiveFrame, frameVars, TypeInv
  <2>6. \A d \in Ends: At(d, "process")' <=> hand'[d] # "none"
    BY <1>a, <1>p, <1>w, <1>e, <1>q DEF ReceiveFrame, TypeInv, At, Frames, Taken
  <2>7. byeSeen' \subseteq Ends /\ sending' \subseteq Ends
    BY <1>a DEF ReceiveFrame, frameVars, TypeInv
  <2>8. closed' \subseteq Ends /\ reset' \subseteq Ends /\ wire' \in [Ends -> Seq(Frames)]
    BY <1>a, <1>w DEF TypeInv, Taken
  <2> QED
    BY <2>1, <2>2, <2>3, <2>4, <2>5, <2>6, <2>7, <2>8 DEF TypeInv
<1>2. BoundInv'
  BY <1>b, <1>p, <1>e, <1>q DEF BoundInv
<1>3. PhaseOK(e)' /\ PhaseOK(Peer(e))'
  BY <1>h, <1>k, <1>e, <1>q DEF KnownOf, ReceiveFrame, PhaseOK, At, In
<1>4. ByeOK(e)' /\ ByeOK(Peer(e))'
  BY <1>h, <1>k, <1>i, <1>j, <1>m, <1>q DEF KnownOf, ReceiveFrame, ByeOK, SaidBye, At, In
<1>5. RoleOK(e)' /\ RoleOK(Peer(e))'
  BY <1>p, <1>h, <1>e, <1>q DEF KnownOf, ReceiveFrame, RoleOK, SaidBye, At, In
<1>6. HeloOK(e)' /\ HeloOK(Peer(e))'
  BY <1>p, <1>h, <1>k, <1>i, <1>j, <1>e, <1>q
     DEF KnownOf, ReceiveFrame, HeloOK, BeforeHelo, AwaitsHelo, At
<1>7e. CountOK(e)'
  <2>1. CASE Head(Incoming(e)) = "bye"
    <3>1. /\ Len(wire'[Peer(e)]) = Len(wire[Peer(e)]) - 1 /\ Len(wire[Peer(e)]) \in Nat
          /\ Len(wire'[Peer(e)]) \in Nat
      BY <1>p, <1>m, <1>w, <1>h DEF KnownOf, Known, Taken
    <3>2. /\ One(Contains(wire[Peer(e)], "bye")) = One(Contains(wire'[Peer(e)], "bye")) + 1
          /\ One(Contains(wire[Peer(e)], "helo")) = One(Contains(wire'[Peer(e)], "helo"))
      BY <2>1, <1>i, <1>j DEF One
    <3>3. /\ One(Contains(wire'[Peer(e)], "bye")) \in Nat
          /\ One(Contains(wire'[Peer(e)], "helo")) \in Nat
          /\ One(hand[e] = "data") \in Nat
      BY DEF One
    <3>4. One(hand[e] = "data") = 0 /\ One(hand[e] = "data")' = 0
      BY <1>a, <2>1 DEF ReceiveFrame, At, TypeInv, One
    <3>5. Reading(e)
      BY <1>a DEF ReceiveFrame, At, Reading
    <3>6. sent'[Peer(e)] = sent[Peer(e)] /\ delivered'[e] = delivered[e]
      BY <1>e, <1>q
    <3>7. Balanced(sent[Peer(e)], One(Contains(wire'[Peer(e)], "bye")) + 1, One(Contains(wire'[Peer(e)], "helo")),
                   delivered[e], 0, Len(wire'[Peer(e)]) + 1)
      BY <1>h, <3>1, <3>2, <3>4, <3>5 DEF KnownOf, CountOK
    <3>8. Contains(wire'[Peer(e)], "bye") => Len(wire'[Peer(e)]) >= 1
      BY <3>1 DEF Contains
    <3>9. Len(wire'[Peer(e)]) >= One(Contains(wire'[Peer(e)], "bye")) + One(Contains(wire'[Peer(e)], "helo"))
      BY <1>j DEF One
    <3>10. Balanced(sent[Peer(e)], One(Contains(wire'[Peer(e)], "bye")), One(Contains(wire'[Peer(e)], "helo")),
                    delivered[e], 0, Len(wire'[Peer(e)]))
      BY <1>h, <3>1, <3>3, <3>7, Balance DEF KnownOf, Known
    <3>11. delivered[e] + 0 <= sent[Peer(e)]
      BY <1>h, <3>4 DEF KnownOf, CountOK
    <3> QED
      BY <3>4, <3>6, <3>10, <3>11 DEF CountOK
  <2>2. CASE Head(Incoming(e)) = "helo"
    BY <2>2, <1>h, <1>i DEF KnownOf, ReceiveFrame, HeloOK, AwaitsHelo, At
  <2>3. CASE Head(Incoming(e)) = "data"
    <3>1. /\ Len(wire'[Peer(e)]) = Len(wire[Peer(e)]) - 1 /\ Len(wire[Peer(e)]) \in Nat
          /\ Len(wire'[Peer(e)]) \in Nat
      BY <1>p, <1>m, <1>w, <1>h DEF KnownOf, Known, Taken
    <3>2. /\ One(Contains(wire[Peer(e)], "bye")) = One(Contains(wire'[Peer(e)], "bye"))
          /\ One(Contains(wire[Peer(e)], "helo")) = One(Contains(wire'[Peer(e)], "helo"))
      BY <2>3, <1>i, <1>j DEF One
    <3>3. /\ One(Contains(wire'[Peer(e)], "bye")) \in Nat
          /\ One(Contains(wire'[Peer(e)], "helo")) \in Nat
          /\ One(hand[e] = "data") \in Nat
      BY DEF One
    <3>4. One(hand[e] = "data") = 0 /\ One(hand[e] = "data")' = 1
      BY <1>a, <2>3 DEF ReceiveFrame, At, TypeInv, One
    <3>5. Reading(e)
      BY <1>a DEF ReceiveFrame, At, Reading
    <3>6. sent'[Peer(e)] = sent[Peer(e)] /\ delivered'[e] = delivered[e]
      BY <1>e, <1>q
    <3>7. Balanced(sent[Peer(e)], One(Contains(wire'[Peer(e)], "bye")), One(Contains(wire'[Peer(e)], "helo")),
                   delivered[e], 0, Len(wire'[Peer(e)]) + 1)
      BY <1>h, <3>1, <3>2, <3>4, <3>5 DEF KnownOf, CountOK
    <3>8. Contains(wire'[Peer(e)], "bye") => Len(wire'[Peer(e)]) >= 1
      BY <3>1 DEF Contains
    <3>9. Len(wire'[Peer(e)]) >= One(Contains(wire'[Peer(e)], "bye")) + One(Contains(wire'[Peer(e)], "helo"))
      BY <1>j DEF One
    <3>10. Balanced(sent[Peer(e)], One(Contains(wire'[Peer(e)], "bye")), One(Contains(wire'[Peer(e)], "helo")),
                    delivered[e], 1, Len(wire'[Peer(e)]))
      BY <1>h, <3>1, <3>3, <3>7, <3>9, Balance DEF KnownOf, Known
    <3>11. sent[Peer(e)] \in Nat /\ delivered[e] \in Nat
      BY <1>h DEF KnownOf, Known
    <3>12. delivered[e] + 1 <= sent[Peer(e)]
      <4> DEFINE s == sent[Peer(e)]
      <4> DEFINE b == One(Contains(wire'[Peer(e)], "bye"))
      <4> DEFINE h == One(Contains(wire'[Peer(e)], "helo"))
      <4> DEFINE d == delivered[e]
      <4> DEFINE l == Len(wire'[Peer(e)])
      <4>1. /\ s \in Nat /\ b \in Nat /\ h \in Nat /\ d \in Nat /\ l \in Nat
          /\ Balanced(s, b, h, d, 1, l) /\ l >= b + h
        BY <3>1, <3>3, <3>9, <3>10, <3>11
      <4> HIDE DEF s, b, h, d, l
      <4>2. d + 1 <= s
        BY <4>1, EnoughSent
      <4> QED
        BY <4>2 DEF s, d
    <3> QED
      BY <3>4, <3>6, <3>10, <3>12 DEF CountOK
  <2> QED
    BY <2>1, <2>2, <2>3, <1>g
<1>7p. CountOK(Peer(e))'
  BY <1>p, <1>h, <1>k, <1>e, <1>q DEF KnownOf, CountOK, Reading
<1> QED
  BY <1>p, <1>1, <1>2, <1>3, <1>4, <1>5, <1>6, <1>7e, <1>7p
     DEF IInv, PhaseInv, ByeInv, RoleInv, HeloInv, CountInv

LEMMA ReceiveNothingKeeps ==
    ASSUME NEW e \in Ends, IInv, ReceiveNothing(e)
    PROVE  IInv'
<1>p. Peer(e) \in Ends /\ Peer(e) # e /\ Peer(Peer(e)) = e /\ \A d \in Ends: d = e \/ d = Peer(e)
  BY PeerFacts
<1>r. \/ e = "client" /\ Peer(e) = "server"
      \/ e = "server" /\ Peer(e) = "client"
  BY DEF Ends, Peer
<1>a. TypeInv /\ ReceiveNothing(e)
  BY DEF IInv
<1>b. BoundInv
  BY DEF IInv
<1>h. KnownOf(e) /\ KnownOf(Peer(e))
  BY <1>p, KnownFacts
<1>w. wire' = wire /\ closed' = closed /\ reset' = reset
  BY DEF ReceiveNothing, netVars
<1>e. /\ state'[e] \in {state[e], "CLOSING_ACTIVE"}
      /\ pc'[e] = "loop"
      /\ hand'[e] = hand[e]
      /\ sent'[e] = sent[e]
      /\ delivered'[e] = delivered[e]
  BY <1>a DEF ReceiveNothing, SetState, Goto, frameVars, TypeInv
<1>q. /\ state'[Peer(e)] = state[Peer(e)]
      /\ pc'[Peer(e)] = pc[Peer(e)]
      /\ hand'[Peer(e)] = hand[Peer(e)]
      /\ sent'[Peer(e)] = sent[Peer(e)]
      /\ delivered'[Peer(e)] = delivered[Peer(e)]
      /\ sending' = sending
  BY <1>a, <1>p DEF ReceiveNothing, SetState, Goto, frameVars, TypeInv
<1>1. TypeInv'
  <2>1. state' \in [Ends -> States]
    BY <1>a DEF ReceiveNothing, SetState, Goto, TypeInv, States
  <2>2. pc' \in [Ends -> Pcs]
    BY <1>a DEF ReceiveNothing, SetState, Goto, TypeInv, Pcs
  <2>3. \A d \in Ends: At(d, "process")' <=> hand'[d] # "none"
    <3> SUFFICES ASSUME NEW d \in Ends PROVE  At(d, "process")' <=> hand'[d] # "none"
      OBVIOUS
    <3>1. At(d, "process")' <=> At(d, "process")
      BY <1>a DEF ReceiveNothing, Goto, TypeInv, At
    <3> QED
      BY <1>a, <3>1 DEF ReceiveNothing, TypeInv
  <2> QED
    BY <1>a, <2>1, <2>2, <2>3 DEF ReceiveNothing, netVars, frameVars, TypeInv
<1>2. BoundInv'
  BY <1>b, <1>p, <1>e, <1>q DEF BoundInv
<1>3. PhaseOK(e)' /\ PhaseOK(Peer(e))'
  BY <1>h, <1>w, <1>e, <1>q DEF KnownOf, ReceiveNothing, PhaseOK, At, In
<1>4. ByeOK(e)' /\ ByeOK(Peer(e))'
  BY <1>h, <1>w, <1>q DEF KnownOf, ReceiveNothing, ByeOK, SaidBye, At, In
<1>5. RoleOK(e)' /\ RoleOK(Peer(e))'
  BY <1>p, <1>h, <1>e, <1>q DEF KnownOf, ReceiveNothing, RoleOK, SaidBye, At, In
<1>6. HeloOK(e)' /\ HeloOK(Peer(e))'
  BY <1>p, <1>h, <1>w, <1>e, <1>q
     DEF KnownOf, ReceiveNothing, HeloOK, BeforeHelo, AwaitsHelo, At
<1>7. CountOK(e)' /\ CountOK(Peer(e))'
  BY <1>p, <1>h, <1>w, <1>e, <1>q DEF KnownOf, ReceiveNothing, CountOK, Reading, At
<1> QED
  BY <1>p, <1>1, <1>2, <1>3, <1>4, <1>5, <1>6, <1>7
     DEF IInv, PhaseInv, ByeInv, RoleInv, HeloInv, CountInv

LEMMA ReceiveErrorKeeps ==
    ASSUME NEW e \in Ends, IInv, ReceiveError(e)
    PROVE  IInv'
<1>p. Peer(e) \in Ends /\ Peer(e) # e /\ Peer(Peer(e)) = e /\ \A d \in Ends: d = e \/ d = Peer(e)
  BY PeerFacts
<1>r. \/ e = "client" /\ Peer(e) = "server"
      \/ e = "server" /\ Peer(e) = "client"
  BY DEF Ends, Peer
<1>a. TypeInv /\ ReceiveError(e)
  BY DEF IInv
<1>b. BoundInv
  BY DEF IInv
<1>h. KnownOf(e) /\ KnownOf(Peer(e))
  BY <1>p, KnownFacts
<1>w. wire' = wire /\ closed' = closed /\ reset' = reset
  BY DEF ReceiveError, netVars
<1>e. /\ state'[e] = "ABORTED"
      /\ pc'[e] = "loop"
      /\ hand'[e] = hand[e]
      /\ sent'[e] = sent[e]
      /\ delivered'[e] = delivered[e]
  BY <1>a DEF ReceiveError, SetState, Goto, frameVars, TypeInv
<1>q. /\ state'[Peer(e)] = state[Peer(e)]
      /\ pc'[Peer(e)] = pc[Peer(e)]
      /\ hand'[Peer(e)] = hand[Peer(e)]
      /\ sent'[Peer(e)] = sent[Peer(e)]
      /\ delivered'[Peer(e)] = delivered[Peer(e)]
      /\ sending' = sending
  BY <1>p DEF ReceiveError, SetState, Goto, frameVars
<1>1. TypeInv'
  BY <1>a, <1>w DEF ReceiveError, SetState, Goto, frameVars, TypeInv, At, States, Pcs
<1>2. BoundInv'
  BY <1>b, <1>p, <1>e, <1>q DEF BoundInv
<1>3. PhaseOK(e)' /\ PhaseOK(Peer(e))'
  BY <1>h, <1>w, <1>e, <1>q DEF KnownOf, ReceiveError, PhaseOK, At, In
<1>4. ByeOK(e)' /\ ByeOK(Peer(e))'
  BY <1>h, <1>w, <1>q DEF KnownOf, ReceiveError, ByeOK, SaidBye, At, In
<1>5. RoleOK(e)' /\ RoleOK(Peer(e))'
  BY <1>p, <1>h, <1>e, <1>q DEF KnownOf, ReceiveError, RoleOK, SaidBye, At, In
<1>6. HeloOK(e)' /\ HeloOK(Peer(e))'
  BY <1>p, <1>h, <1>w, <1>e, <1>q DEF KnownOf, ReceiveError, HeloOK, BeforeHelo, AwaitsHelo, At
<1>7. CountOK(e)' /\ CountOK(Peer(e))'
  BY <1>p, <1>h, <1>w, <1>e, <1>q DEF KnownOf, ReceiveError, CountOK, Reading, At
<1> QED
  BY <1>p, <1>1, <1>2, <1>3, <1>4, <1>5, <1>6, <1>7
     DEF IInv, PhaseInv, ByeInv, RoleInv, HeloInv, CountInv

LEMMA ProcessFrameKeeps ==
    ASSUME NEW e \in Ends, IInv, ProcessFrame(e)
    PROVE  IInv'
<1>p. Peer(e) \in Ends /\ Peer(e) # e /\ Peer(Peer(e)) = e /\ \A d \in Ends: d = e \/ d = Peer(e)
  BY PeerFacts
<1>r. \/ e = "client" /\ Peer(e) = "server"
      \/ e = "server" /\ Peer(e) = "client"
  BY DEF Ends, Peer
<1>a. TypeInv /\ ProcessFrame(e)
  BY DEF IInv
<1>b. BoundInv
  BY DEF IInv
<1>h. KnownOf(e) /\ KnownOf(Peer(e))
  BY <1>p, KnownFacts
<1>1. CASE hand[e] = "bye"
  <2>w. wire' = wire /\ closed' = closed /\ reset' = reset
    BY DEF ProcessFrame, netVars
  <2>e. /\ state'[e] = (IF state[e] = "ESTABLISHED" THEN "CLOSING_PASSIVE" ELSE state[e])
        /\ pc'[e] = "loop"
        /\ hand'[e] = "none"
        /\ sent'[e] = sent[e]
        /\ delivered'[e] = delivered[e]
    BY <1>1, <1>a DEF ProcessFrame, In, SetState, Goto, TypeInv
  <2>q. /\ state'[Peer(e)] = state[Peer(e)]
        /\ pc'[Peer(e)] = pc[Peer(e)]
        /\ hand'[Peer(e)] = hand[Peer(e)]
        /\ sent'[Peer(e)] = sent[Peer(e)]
        /\ delivered'[Peer(e)] = delivered[Peer(e)]
        /\ sending' = sending
    BY <1>a, <1>p DEF ProcessFrame, SetState, Goto, TypeInv
  <2>1. TypeInv'
    BY <1>1, <1>a, <1>p, <2>w
       DEF ProcessFrame, In, SetState, Goto, TypeInv, At, States, Pcs, Frames
  <2>2. BoundInv'
    BY <1>b, <1>p, <2>e, <2>q DEF BoundInv
  <2>3. PhaseOK(e)' /\ PhaseOK(Peer(e))'
    BY <1>h, <2>w, <2>e, <2>q DEF KnownOf, ProcessFrame, PhaseOK, At, In
  <2>4. ByeOK(e)' /\ ByeOK(Peer(e))'
    BY <1>1, <1>p, <1>h, <2>w, <2>e DEF KnownOf, Known, ProcessFrame, ByeOK, SaidBye, At
  <2>5. RoleOK(e)' /\ RoleOK(Peer(e))'
    BY <1>p, <1>h, <2>q
       DEF KnownOf, Known, ProcessFrame, PhaseOK, ByeOK, RoleOK, SaidBye, CountOK, Reading,
           One, At, In, Balanced
  <2>6. HeloOK(e)' /\ HeloOK(Peer(e))'
    BY <1>p, <1>h, <2>w, <2>e, <2>q
       DEF KnownOf, ProcessFrame, HeloOK, BeforeHelo, AwaitsHelo, At
  <2>7. CountOK(e)' /\ CountOK(Peer(e))'
    BY <1>1, <1>h, <2>w, <2>q DEF KnownOf, ProcessFrame, CountOK, Reading, At
  <2> QED
    BY <1>p, <2>1, <2>2, <2>3, <2>4, <2>5, <2>6, <2>7
       DEF IInv, PhaseInv, ByeInv, RoleInv, HeloInv, CountInv
<1>2. CASE hand[e] # "bye"
  <2>w. wire' = wire /\ closed' = closed /\ reset' = reset
    BY DEF ProcessFrame, netVars
  <2>e. /\ state'[e] = state[e]
        /\ pc'[e] = "loop"
        /\ hand'[e] = "none"
        /\ sent'[e] = sent[e]
        /\ delivered'[e] = delivered[e] + 1
    BY <1>2, <1>a DEF ProcessFrame, Goto, TypeInv
  <2>q. /\ state'[Peer(e)] = state[Peer(e)]
        /\ pc'[Peer(e)] = pc[Peer(e)]
        /\ hand'[Peer(e)] = hand[Peer(e)]
        /\ sent'[Peer(e)] = sent[Peer(e)]
        /\ delivered'[Peer(e)] = delivered[Peer(e)]
        /\ sending' = sending
    BY <1>2, <1>a, <1>p DEF ProcessFrame, Goto, TypeInv
  <2>1. TypeInv'
    <3>1. state' \in [Ends -> States]
      BY <1>2, <1>a DEF ProcessFrame, TypeInv
    <3>2. pc' \in [Ends -> Pcs]
      BY <1>a DEF ProcessFrame, Goto, TypeInv, Pcs
    <3>3. hand' \in [Ends -> Frames \cup {"none"}]
      BY <1>a DEF ProcessFrame, TypeInv
    <3>4. sent' \in [Ends -> Nat]
      BY <1>a DEF ProcessFrame, TypeInv
    <3>5. delivered' \in [Ends -> Nat]
      BY <1>2, <1>a, <1>p DEF ProcessFrame, In, SetState, Goto, netVars, frameVars, TypeInv
    <3>6. \A d \in Ends: At(d, "process")' <=> hand'[d] # "none"
      BY <1>a, <1>p, <2>e, <2>q DEF TypeInv, At
    <3>7. byeSeen' \subseteq Ends /\ sending' \subseteq Ends
      BY <1>a DEF ProcessFrame, TypeInv
    <3>8. closed' \subseteq Ends /\ reset' \subseteq Ends /\ wire' \in [Ends -> Seq(Frames)]
      BY <1>a, <2>w DEF TypeInv
    <3> QED
      BY <3>1, <3>2, <3>3, <3>4, <3>5, <3>6, <3>7, <3>8 DEF TypeInv
  <2>2. BoundInv'
    BY <1>b, <1>p, <2>e, <2>q DEF BoundInv
  <2>3. PhaseOK(e)' /\ PhaseOK(Peer(e))'
    BY <1>h, <2>w, <2>e, <2>q DEF KnownOf, ProcessFrame, PhaseOK, At, In
  <2>4. ByeOK(e)' /\ ByeOK(Peer(e))'
    BY <1>h, <2>w, <2>q DEF KnownOf, ProcessFrame, ByeOK, SaidBye, At, In
  <2>5. RoleOK(e)' /\ RoleOK(Peer(e))'
    BY <1>p, <1>h, <2>e, <2>q DEF KnownOf, ProcessFrame, PhaseOK, RoleOK, SaidBye, At, In
  <2>6. HeloOK(e)' /\ HeloOK(Peer(e))'
    BY <1>p, <1>h, <2>w, <2>e, <2>q
       DEF KnownOf, ProcessFrame, HeloOK, BeforeHelo, AwaitsHelo, At
  <2>7. CountOK(e)' /\ CountOK(Peer(e))'
    BY <1>a, <1>h, <2>w, <2>q
       DEF KnownOf, ProcessFrame, HeloOK, CountOK, Reading, One, At, TypeInv, Frames, Balanced
  <2> QED
    BY <1>p, <2>1, <2>2, <2>3, <2>4, <2>5, <2>6, <2>7
       DEF IInv, PhaseInv, ByeInv, RoleInv, HeloInv, CountInv
<1> QED
  BY <1>1, <1>2 DEF ProcessFrame

LEMMA SendByeKeeps ==
    ASSUME NEW e \in Ends, IInv, SendBye(e)
    PROVE  IInv'
<1>p. Peer(e) \in Ends /\ Peer(e) # e /\ Peer(Peer(e)) = e /\ \A d \in Ends: d = e \/ d = Peer(e)
  BY PeerFacts
<1>r. \/ e = "client" /\ Peer(e) = "server"
      \/ e = "server" /\ Peer(e) = "client"
  BY DEF Ends, Peer
<1>a. TypeInv /\ SendBye(e)
  BY DEF IInv
<1>b. BoundInv
  BY DEF IInv
<1>h. KnownOf(e) /\ KnownOf(Peer(e))
  BY <1>p, KnownFacts
<1>1. CASE Transmit(e, "bye") /\ Goto(e, IF In(e, "CLOSING_ACTIVE") THEN "receiveBye" ELSE "waitPeer")
  <2>w. Appended(e, "bye")
    BY <1>1, <1>a, TransmitFacts DEF TypeInv, Frames
  <2>g. \/ Peer(e) \in closed /\ wire' = wire
        \/ /\ Len(wire'[e]) = Len(wire[e]) + 1
           /\ Contains(wire'[e], "bye")
           /\ Contains(wire'[e], "helo") => Contains(wire[e], "helo")
           /\ Contains(wire[e], "helo") => Contains(wire'[e], "helo")
           /\ ByeLast(wire[e]) /\ ~Contains(wire[e], "bye") => ByeLast(wire'[e])
           /\ HeloFirst(wire[e]) => HeloFirst(wire'[e])
    BY <2>w DEF Appended
  <2>k. wire'[Peer(e)] = wire[Peer(e)] /\ closed' = closed
    BY <2>w DEF Appended
  <2>e. /\ state'[e] = state[e]
        /\ pc'[e] = (IF state[e] = "CLOSING_ACTIVE" THEN "receiveBye" ELSE "waitPeer")
        /\ hand'[e] = hand[e]
        /\ sent'[e] = sent[e]
        /\ delivered'[e] = delivered[e]
    BY <1>1, <1>a DEF SendBye, In, Goto, frameVars, TypeInv
  <2>q. /\ state'[Peer(e)] = state[Peer(e)]
        /\ pc'[Peer(e)] = pc[Peer(e)]
        /\ hand'[Peer(e)] = hand[Peer(e)]
        /\ sent'[Peer(e)] = sent[Peer(e)]
        /\ delivered'[Peer(e)] = delivered[Peer(e)]
        /\ sending' = sending
    BY <1>1, <1>p DEF SendBye, Goto, frameVars
  <2>1. TypeInv'
    BY <1>1, <1>a, <1>p, <2>w, <2>e, <2>q
       DEF SendBye, TransmitFails, In, SetState, Goto, netVars, frameVars, TypeInv, At,
           States, Pcs, Frames, Appended
  <2>2. BoundInv'
    BY <1>b, <1>p, <2>e, <2>q DEF BoundInv
  <2>3. PhaseOK(e)' /\ PhaseOK(Peer(e))'
    BY <1>h, <2>k, <2>e, <2>q DEF KnownOf, SendBye, PhaseOK, At, In
  <2>4. ByeOK(e)' /\ ByeOK(Peer(e))'
    BY <1>h, <2>g, <2>k, <2>e, <2>q DEF KnownOf, SendBye, MutexFree, ByeOK, SaidBye, At, In
  <2>5. RoleOK(e)' /\ RoleOK(Peer(e))'
    BY <1>p, <1>h, <2>e, <2>q DEF KnownOf, RoleOK, SaidBye, At, In
  <2>6. HeloOK(e)' /\ HeloOK(Peer(e))'
    BY <1>p, <1>h, <2>g, <2>k, <2>e, <2>q
       DEF KnownOf, SendBye, HeloOK, BeforeHelo, AwaitsHelo, At
  <2>7e. CountOK(e)'
    BY <1>h, <2>e, <2>q DEF KnownOf, CountOK, Reading
  <2>7p. CountOK(Peer(e))'
    <3>1. CASE Peer(e) \in closed /\ wire' = wire
      BY <3>1, <1>p, <1>h, <2>e, <2>q DEF KnownOf, CountOK, Reading
    <3>2. CASE wire' # wire \/ Peer(e) \notin closed
      <4>1. Len(wire'[e]) = Len(wire[e]) + 1 /\ Len(wire[e]) \in Nat
        BY <3>2, <2>g, <1>h DEF KnownOf, Known
      <4>2. ~Contains(wire[e], "bye")
        BY <1>h DEF KnownOf, SendBye, At, ByeOK, SaidBye
      <4>3. /\ One(Contains(wire'[e], "bye")) = One(Contains(wire[e], "bye")) + 1
            /\ One(Contains(wire'[e], "helo")) = One(Contains(wire[e], "helo"))
        BY <3>2, <2>g, <4>2 DEF One
      <4>4. /\ One(Contains(wire[e], "bye")) \in Nat
            /\ One(Contains(wire[e], "helo")) \in Nat
            /\ One(hand[Peer(e)] = "data") \in Nat
        BY DEF One
      <4>5. One(hand[Peer(e)] = "data")' = One(hand[Peer(e)] = "data")
        BY <2>q DEF One
      <4>6. Reading(Peer(e))' => Reading(Peer(e))
        BY <2>q DEF Reading
      <4>7. Reading(Peer(e)) =>
                Balanced(sent[e], One(Contains(wire[e], "bye")), One(Contains(wire[e], "helo")),
                         delivered[Peer(e)], One(hand[Peer(e)] = "data"), Len(wire[e]))
        BY <1>p, <1>h DEF KnownOf, Known, CountOK
      <4>8. delivered[Peer(e)] + One(hand[Peer(e)] = "data") <= sent[e]
        BY <1>p, <1>h DEF KnownOf, CountOK
      <4>9. Reading(Peer(e)) =>
                Balanced(sent[e], One(Contains(wire[e], "bye")) + 1, One(Contains(wire[e], "helo")),
                         delivered[Peer(e)], One(hand[Peer(e)] = "data"), Len(wire[e]) + 1)
        BY <1>h, <4>4, <4>7, Balance DEF KnownOf, Known
      <4> QED
        BY <1>p, <2>e, <2>q, <4>1, <4>3, <4>6, <4>8, <4>9 DEF CountOK
    <3> QED
      BY <3>1, <3>2, <2>g
  <2> QED
    BY <1>p, <2>1, <2>2, <2>3, <2>4, <2>5, <2>6, <2>7e, <2>7p
       DEF IInv, PhaseInv, ByeInv, RoleInv, HeloInv, CountInv
<1>2. CASE TransmitFails(e) /\ Goto(e, "failed")
  <2>w. wire' = wire /\ closed' = closed /\ reset' = reset
    BY <1>2 DEF TransmitFails, netVars
  <2>e. /\ state'[e] = state[e]
        /\ pc'[e] = "failed"
        /\ hand'[e] = hand[e]
        /\ sent'[e] = sent[e]
        /\ delivered'[e] = delivered[e]
    BY <1>2, <1>a DEF SendBye, Goto, frameVars, TypeInv
  <2>q. /\ state'[Peer(e)] = state[Peer(e)]
        /\ pc'[Peer(e)] = pc[Peer(e)]
        /\ hand'[Peer(e)] = hand[Peer(e)]
        /\ sent'[Peer(e)] = sent[Peer(e)]
        /\ delivered'[Peer(e)] = delivered[Peer(e)]
        /\ sending' = sending
    BY <1>2, <1>p DEF SendBye, Goto, frameVars
  <2>1. TypeInv'
    BY <1>2, <1>a, <2>w DEF SendBye, Goto, frameVars, TypeInv, At, Pcs
  <2>2. BoundInv'
    BY <1>b, <1>p, <2>e, <2>q DEF BoundInv
  <2>3. PhaseOK(e)' /\ PhaseOK(Peer(e))'
    BY <1>h, <2>w, <2>e, <2>q DEF KnownOf, SendBye, PhaseOK, At, In
  <2>4. ByeOK(e)' /\ ByeOK(Peer(e))'
    BY <1>h, <2>w, <2>q DEF KnownOf, SendBye, ByeOK, SaidBye, At, In
  <2>5. RoleOK(e)' /\ RoleOK(Peer(e))'
    BY <1>p, <1>h, <2>e, <2>q DEF KnownOf, SendBye, RoleOK, SaidBye, At, In
  <2>6. HeloOK(e)' /\ HeloOK(Peer(e))'
    BY <1>p, <1>h, <2>w, <2>e, <2>q DEF KnownOf, HeloOK, BeforeHelo, AwaitsHelo, At
  <2>7. CountOK(e)' /\ CountOK(Peer(e))'
    BY <1>p, <1>h, <2>w, <2>e, <2>q DEF KnownOf, CountOK, Reading
  <2> QED
    BY <1>p, <2>1, <2>2, <2>3, <2>4, <2>5, <2>6, <2>7
       DEF IInv, PhaseInv, ByeInv, RoleInv, HeloInv, CountInv
<1> QED
  BY <1>1, <1>2 DEF SendBye

LEMMA ReceiveByeKeeps ==
    ASSUME NEW e \in Ends, IInv, ReceiveBye(e)
    PROVE  IInv'
<1>p. Peer(e) \in Ends /\ Peer(e) # e /\ Peer(Peer(e)) = e /\ \A d \in Ends: d = e \/ d = Peer(e)
  BY PeerFacts
<1>r. \/ e = "client" /\ Peer(e) = "server"
      \/ e = "server" /\ Peer(e) = "client"
  BY DEF Ends, Peer
<1>a. TypeInv /\ ReceiveBye(e)
  BY DEF IInv
<1>b. BoundInv
  BY DEF IInv
<1>h. KnownOf(e) /\ KnownOf(Peer(e))
  BY <1>p, KnownFacts
<1>1. CASE Take(e)
  <2>w. Taken(e)
    BY <1>1, <1>a, TakeFacts DEF TypeInv
  <2>l. ByeLast(wire[Peer(e)]) /\ HeloFirst(wire[Peer(e)])
    BY <1>h DEF KnownOf, Known, ByeOK, HeloOK
  <2>m. /\ wire[Peer(e)] # <<>>
        /\ Len(wire'[Peer(e)]) = Len(wire[Peer(e)]) - 1
    BY <2>w DEF Taken
  <2>i. /\ Contains(wire[Peer(e)], "bye") => Contains(wire'[Peer(e)], "bye") \/ Head(Incoming(e)) = "bye"
        /\ Contains(wire[Peer(e)], "helo") => Contains(wire'[Peer(e)], "helo") \/ Head(Incoming(e)) = "helo"
        /\ Contains(wire'[Peer(e)], "bye") \/ Head(Incoming(e)) = "bye" => Contains(wire[Peer(e)], "bye")
        /\ Contains(wire'[Peer(e)], "helo") \/ Head(Incoming(e)) = "helo" => Contains(wire[Peer(e)], "helo")
    BY <2>w DEF Taken
  <2>j. /\ ByeLast(wire'[Peer(e)]) /\ (Head(Incoming(e)) = "bye" => wire'[Peer(e)] = <<>>)
        /\ wire'[Peer(e)] = <<>> => ~Contains(wire'[Peer(e)], "bye")
        /\ HeloFirst(wire'[Peer(e)]) /\ ~Contains(wire'[Peer(e)], "helo")
    BY <2>w, <2>l, EmptyWire DEF Taken
  <2>g. Head(Incoming(e)) \in {"helo", "data", "bye"}
    BY <2>w DEF Taken, Frames
  <2>k. wire'[e] = wire[e] /\ closed' = closed
    BY <2>w DEF Taken
  <2>e. /\ state'[e] = "CLOSED"
        /\ pc'[e] = "closeSocket"
        /\ hand'[e] = hand[e]
        /\ sent'[e] = sent[e]
        /\ delivered'[e] = delivered[e]
    BY <1>a DEF ReceiveBye, SetState, Goto, frameVars, TypeInv
  <2>q. /\ state'[Peer(e)] = state[Peer(e)]
        /\ pc'[Peer(e)] = pc[Peer(e)]
        /\ hand'[Peer(e)] = hand[Peer(e)]
        /\ sent'[Peer(e)] = sent[Peer(e)]
        /\ delivered'[Peer(e)] = delivered[Peer(e)]
        /\ sending' = sending
    BY <1>p DEF ReceiveBye, SetState, Goto, frameVars
  <2>1. TypeInv'
    <3>1. state' \in [Ends -> States]
      BY <1>a DEF ReceiveBye, SetState, TypeInv, States
    <3>2. pc' \in [Ends -> Pcs]
      BY <1>a DEF ReceiveBye, Goto, TypeInv, Pcs
    <3>3. hand' \in [Ends -> Frames \cup {"none"}]
      BY <1>a DEF ReceiveBye, TypeInv
    <3>4. sent' \in [Ends -> Nat]
      BY <1>a DEF ReceiveBye, frameVars, TypeInv
    <3>5. delivered' \in [Ends -> Nat]
      BY <1>a DEF ReceiveBye, frameVars, TypeInv
    <3>6. \A d \in Ends: At(d, "process")' <=> hand'[d] # "none"
      BY <1>a, <1>p, <2>w, <2>e, <2>q DEF ReceiveBye, TypeInv, At, Frames, Taken
    <3>7. byeSeen' \subseteq Ends /\ sending' \subseteq Ends
      BY <1>a DEF ReceiveBye, frameVars, TypeInv
    <3>8. closed' \subseteq Ends /\ reset' \subseteq Ends /\ wire' \in [Ends -> Seq(Frames)]
      BY <1>a, <2>w DEF TypeInv, Taken
    <3> QED
      BY <3>1, <3>2, <3>3, <3>4, <3>5, <3>6, <3>7, <3>8 DEF TypeInv
  <2>2. BoundInv'
    BY <1>b, <1>p, <2>e, <2>q DEF BoundInv
  <2>3. PhaseOK(e)' /\ PhaseOK(Peer(e))'
    BY <1>h, <2>k, <2>e, <2>q DEF KnownOf, ReceiveBye, PhaseOK, At, In
  <2>4. ByeOK(e)' /\ ByeOK(Peer(e))'
    BY <1>p, <1>h, <2>k, <2>i, <2>j, <2>m, <2>e, <2>q DEF KnownOf, ByeOK, SaidBye, At, In
  <2>5. RoleOK(e)' /\ RoleOK(Peer(e))'
    BY <1>p, <1>h, <2>e, <2>q DEF KnownOf, RoleOK, SaidBye, At, In
  <2>6. HeloOK(e)' /\ HeloOK(Peer(e))'
    BY <1>p, <1>h, <2>k, <2>j, <2>m, <2>e, <2>q DEF KnownOf, HeloOK, BeforeHelo, AwaitsHelo, At
  <2>7. CountOK(e)' /\ CountOK(Peer(e))'
    BY <1>p, <1>h, <2>k, <2>e, <2>q DEF KnownOf, CountOK, Reading
  <2> QED
    BY <1>p, <2>1, <2>2, <2>3, <2>4, <2>5, <2>6, <2>7
       DEF IInv, PhaseInv, ByeInv, RoleInv, HeloInv, CountInv
<1>2. CASE UNCHANGED <<netVars, byeSeen>>
  <2>w. wire' = wire /\ closed' = closed /\ reset' = reset
    BY <1>2 DEF netVars
  <2>e. /\ state'[e] = "CLOSED"
        /\ pc'[e] = "closeSocket"
        /\ hand'[e] = hand[e]
        /\ sent'[e] = sent[e]
        /\ delivered'[e] = delivered[e]
    BY <1>a DEF ReceiveBye, SetState, Goto, frameVars, TypeInv
  <2>q. /\ state'[Peer(e)] = state[Peer(e)]
        /\ pc'[Peer(e)] = pc[Peer(e)]
        /\ hand'[Peer(e)] = hand[Peer(e)]
        /\ sent'[Peer(e)] = sent[Peer(e)]
        /\ delivered'[Peer(e)] = delivered[Peer(e)]
        /\ sending' = sending
    BY <1>p DEF ReceiveBye, SetState, Goto, frameVars
  <2>1. TypeInv'
    BY <1>a, <2>w DEF ReceiveBye, SetState, Goto, frameVars, TypeInv, At, States, Pcs
  <2>2. BoundInv'
    BY <1>b, <1>p, <2>e, <2>q DEF BoundInv
  <2>3. PhaseOK(e)' /\ PhaseOK(Peer(e))'
    BY <1>h, <2>w, <2>e, <2>q DEF KnownOf, ReceiveBye, PhaseOK, At, In
  <2>4. ByeOK(e)' /\ ByeOK(Peer(e))'
    BY <1>p, <1>h, <2>w, <2>e, <2>q DEF KnownOf, ByeOK, SaidBye, At, In
  <2>5. RoleOK(e)' /\ RoleOK(Peer(e))'
    BY <1>p, <1>h, <2>e, <2>q DEF KnownOf, RoleOK, SaidBye, At, In
  <2>6. HeloOK(e)' /\ HeloOK(Peer(e))'
    BY <1>p, <1>h, <2>w, <2>e, <2>q DEF KnownOf, ReceiveBye, HeloOK, BeforeHelo, AwaitsHelo, At
  <2>7. CountOK(e)' /\ CountOK(Peer(e))'
    BY <1>p, <1>h, <2>w, <2>e, <2>q DEF KnownOf, CountOK, Reading
  <2> QED
    BY <1>p, <2>1, <2>2, <2>3, <2>4, <2>5, <2>6, <2>7
       DEF IInv, PhaseInv, ByeInv, RoleInv, HeloInv, CountInv
<1> QED
  BY <1>1, <1>2 DEF ReceiveBye

LEMMA WaitPeerKeeps ==
    ASSUME NEW e \in Ends, IInv, WaitPeer(e)
    PROVE  IInv'
<1>p. Peer(e) \in Ends /\ Peer(e) # e /\ Peer(Peer(e)) = e /\ \A d \in Ends: d = e \/ d = Peer(e)
  BY PeerFacts
<1>r. \/ e = "client" /\ Peer(e) = "server"
      \/ e = "server" /\ Peer(e) = "client"
  BY DEF Ends, Peer
<1>a. TypeInv /\ WaitPeer(e)
  BY DEF IInv
<1>b. BoundInv
  BY DEF IInv
<1>h. KnownOf(e) /\ KnownOf(Peer(e))
  BY <1>p, KnownFacts
<1>w. wire' = wire /\ closed' = closed /\ reset' = reset
  BY DEF WaitPeer, netVars
<1>e. /\ state'[e] = "CLOSED"
      /\ pc'[e] = "closeSocket"
      /\ hand'[e] = hand[e]
      /\ sent'[e] = sent[e]
      /\ delivered'[e] = delivered[e]
  BY <1>a DEF WaitPeer, SetState, Goto, frameVars, TypeInv
<1>q. /\ state'[Peer(e)] = state[Peer(e)]
      /\ pc'[Peer(e)] = pc[Peer(e)]
      /\ hand'[Peer(e)] = hand[Peer(e)]
      /\ sent'[Peer(e)] = sent[Peer(e)]
      /\ delivered'[Peer(e)] = delivered[Peer(e)]
      /\ sending' = sending
  BY <1>p DEF WaitPeer, SetState, Goto, frameVars
<1>1. TypeInv'
  BY <1>a, <1>w DEF WaitPeer, SetState, Goto, frameVars, TypeInv, At, States, Pcs
<1>2. BoundInv'
  BY <1>b, <1>p, <1>e, <1>q DEF BoundInv
<1>3. PhaseOK(e)' /\ PhaseOK(Peer(e))'
  BY <1>h, <1>w, <1>e, <1>q DEF KnownOf, WaitPeer, PhaseOK, At, In
<1>4. ByeOK(e)' /\ ByeOK(Peer(e))'
  BY <1>p, <1>h, <1>w, <1>e, <1>q DEF KnownOf, ByeOK, SaidBye, At, In
<1>5. RoleOK(e)' /\ RoleOK(Peer(e))'
  BY <1>h, <1>e, <1>q DEF KnownOf, WaitPeer, PhaseOK, RoleOK, In
<1>6. HeloOK(e)' /\ HeloOK(Peer(e))'
  BY <1>p, <1>h, <1>w, <1>e, <1>q DEF KnownOf, WaitPeer, HeloOK, BeforeHelo, AwaitsHelo, At
<1>7. CountOK(e)' /\ CountOK(Peer(e))'
  BY <1>p, <1>h, <1>w, <1>e, <1>q DEF KnownOf, CountOK, Reading
<1> QED
  BY <1>p, <1>1, <1>2, <1>3, <1>4, <1>5, <1>6, <1>7
     DEF IInv, PhaseInv, ByeInv, RoleInv, HeloInv, CountInv

LEMMA CloseSocketKeeps ==
    ASSUME NEW e \in Ends, IInv, CloseSocket(e)
    PROVE  IInv'
<1>p. Peer(e) \in Ends /\ Peer(e) # e /\ Peer(Peer(e)) = e /\ \A d \in Ends: d = e \/ d = Peer(e)
  BY PeerFacts
<1>r. \/ e = "client" /\ Peer(e) = "server"
      \/ e = "server" /\ Peer(e) = "client"
  BY DEF Ends, Peer
<1>a. TypeInv /\ CloseSocket(e)
  BY DEF IInv
<1>b. BoundInv
  BY DEF IInv
<1>h. KnownOf(e) /\ KnownOf(Peer(e))
  BY <1>p, KnownFacts
<1>w. /\ wire' \in [Ends -> Seq(Frames)]
      /\ wire'[e] = wire[e] /\ wire'[Peer(e)] = <<>>
      /\ closed' = closed \cup {e} /\ reset' \subseteq Ends
  BY <1>a, <1>p DEF CloseSocket, Hangup, TypeInv
<1>g. /\ ByeLast(wire'[Peer(e)]) /\ HeloFirst(wire'[Peer(e)])
      /\ ~Contains(wire'[Peer(e)], "bye") /\ ~Contains(wire'[Peer(e)], "helo")
  BY <1>w, EmptyWire
<1>k. wire'[e] = wire[e] /\ wire'[Peer(e)] = <<>> /\ closed' = closed \cup {e}
  BY <1>w
<1>e. /\ state'[e] = state[e]
      /\ pc'[e] = "done"
      /\ hand'[e] = hand[e]
      /\ sent'[e] = sent[e]
      /\ delivered'[e] = delivered[e]
  BY <1>a DEF CloseSocket, Goto, frameVars, TypeInv
<1>q. /\ state'[Peer(e)] = state[Peer(e)]
      /\ pc'[Peer(e)] = pc[Peer(e)]
      /\ hand'[Peer(e)] = hand[Peer(e)]
      /\ sent'[Peer(e)] = sent[Peer(e)]
      /\ delivered'[Peer(e)] = delivered[Peer(e)]
      /\ sending' = sending
  BY <1>p DEF CloseSocket, Goto, frameVars
<1>1. TypeInv'
  BY <1>a, <1>p, <1>w, <1>e, <1>q
     DEF CloseSocket, Hangup, Incoming, SetState, Goto, netVars, frameVars, TypeInv, At,
         States, Pcs, Frames
<1>2. BoundInv'
  BY <1>b, <1>p, <1>e, <1>q DEF BoundInv
<1>3. PhaseOK(e)' /\ PhaseOK(Peer(e))'
  BY <1>h, <1>k, <1>e, <1>q DEF KnownOf, CloseSocket, PhaseOK, At, In
<1>4. ByeOK(e)' /\ ByeOK(Peer(e))'
  BY <1>h, <1>g, <1>k, <1>e, <1>q DEF KnownOf, CloseSocket, ByeOK, SaidBye, At, In
<1>5. RoleOK(e)' /\ RoleOK(Peer(e))'
  BY <1>p, <1>h, <1>e, <1>q DEF KnownOf, CloseSocket, RoleOK, SaidBye, At, In
<1>6. HeloOK(e)' /\ HeloOK(Peer(e))'
  BY <1>p, <1>h, <1>g, <1>k, <1>e, <1>q
     DEF KnownOf, CloseSocket, HeloOK, BeforeHelo, AwaitsHelo, At
<1>7. CountOK(e)' /\ CountOK(Peer(e))'
  BY <1>p, <1>h, <1>k, <1>e, <1>q DEF KnownOf, CountOK, Reading
<1> QED
  BY <1>p, <1>1, <1>2, <1>3, <1>4, <1>5, <1>6, <1>7
     DEF IInv, PhaseInv, ByeInv, RoleInv, HeloInv, CountInv

LEMMA PollFailsKeeps ==
    ASSUME NEW e \in Ends, IInv, PollFails(e)
    PROVE  IInv'
<1>p. Peer(e) \in Ends /\ Peer(e) # e /\ Peer(Peer(e)) = e /\ \A d \in Ends: d = e \/ d = Peer(e)
  BY PeerFacts
<1>a. TypeInv /\ PollFails(e)
  BY DEF IInv
<1>b. BoundInv
  BY DEF IInv
<1>h. KnownOf(e) /\ KnownOf(Peer(e))
  BY <1>p, KnownFacts
<1>w. wire' = wire /\ closed' = closed /\ reset' = reset
  BY DEF PollFails, netVars
<1>e. /\ state'[e] = state[e]
      /\ pc'[e] = "failed"
      /\ hand'[e] = hand[e]
      /\ sent'[e] = sent[e]
      /\ delivered'[e] = delivered[e]
  BY <1>a DEF PollFails, Goto, frameVars, TypeInv
<1>q. /\ state'[Peer(e)] = state[Peer(e)]
      /\ pc'[Peer(e)] = pc[Peer(e)]
      /\ hand'[Peer(e)] = hand[Peer(e)]
      /\ sent'[Peer(e)] = sent[Peer(e)]
      /\ delivered'[Peer(e)] = delivered[Peer(e)]
      /\ sending' = sending
  BY <1>p DEF PollFails, Goto, frameVars
<1>s. SaidBye(e) <=> SaidBye(e)'
  BY <1>h, <1>e, <1>q DEF KnownOf, PollFails, PhaseOK, SaidBye, At, In
<1>1. TypeInv'
  BY <1>a, <1>w DEF PollFails, Goto, frameVars, TypeInv, At, Pcs
<1>2. BoundInv'
  BY <1>b, <1>p, <1>e, <1>q DEF BoundInv
<1>3. PhaseOK(e)' /\ PhaseOK(Peer(e))'
  BY <1>h, <1>w, <1>e, <1>q DEF KnownOf, PollFails, PhaseOK, At, In
<1>t. SaidBye(Peer(e)) <=> SaidBye(Peer(e))'
  BY <1>q DEF SaidBye, At, In
<1>4. ByeOK(e)' /\ ByeOK(Peer(e))'
  BY <1>p, <1>h, <1>w, <1>e, <1>q, <1>s, <1>t DEF KnownOf, ByeOK
<1>5. RoleOK(e)' /\ RoleOK(Peer(e))'
  BY <1>p, <1>h, <1>e, <1>q, <1>s, <1>t DEF KnownOf, RoleOK, In
<1>6. HeloOK(e)' /\ HeloOK(Peer(e))'
  BY <1>p, <1>h, <1>w, <1>e, <1>q DEF KnownOf, PollFails, HeloOK, BeforeHelo, AwaitsHelo, At
<1>7. CountOK(e)' /\ CountOK(Peer(e))'
  BY <1>p, <1>h, <1>w, <1>e, <1>q DEF KnownOf, CountOK, Reading
<1> QED
  BY <1>p, <1>1, <1>2, <1>3, <1>4, <1>5, <1>6, <1>7
     DEF IInv, PhaseInv, ByeInv, RoleInv, HeloInv, CountInv

LEMMA DestroyKeeps ==
    ASSUME NEW e \in Ends, IInv, Destroy(e)
    PROVE  IInv'
<1>p. Peer(e) \in Ends /\ Peer(e) # e /\ Peer(Peer(e)) = e /\ \A d \in Ends: d = e \/ d = Peer(e)
  BY PeerFacts
<1>r. \/ e = "client" /\ Peer(e) = "server"
      \/ e = "server" /\ Peer(e) = "client"
  BY DEF Ends, Peer
<1>a. TypeInv /\ Destroy(e)
  BY DEF IInv
<1>b. BoundInv
  BY DEF IInv
<1>h. KnownOf(e) /\ KnownOf(Peer(e))
  BY <1>p, KnownFacts
<1>w. /\ wire' \in [Ends -> Seq(Frames)]
      /\ wire'[e] = wire[e] /\ wire'[Peer(e)] = <<>>
      /\ closed' = closed \cup {e} /\ reset' \subseteq Ends
  BY <1>a, <1>p DEF Destroy, Hangup, TypeInv
<1>g. /\ ByeLast(wire'[Peer(e)]) /\ HeloFirst(wire'[Peer(e)])
      /\ ~Contains(wire'[Peer(e)], "bye") /\ ~Contains(wire'[Peer(e)], "helo")
  BY <1>w, EmptyWire
<1>k. wire'[e] = wire[e] /\ wire'[Peer(e)] = <<>> /\ closed' = closed \cup {e}
  BY <1>w
<1>e. /\ state'[e] = state[e]
      /\ pc'[e] = pc[e]
      /\ hand'[e] = hand[e]
      /\ sent'[e] = sent[e]
      /\ delivered'[e] = delivered[e]
  BY DEF Destroy, frameVars
<1>q. /\ state'[Peer(e)] = state[Peer(e)]
      /\ pc'[Peer(e)] = pc[Peer(e)]
      /\ hand'[Peer(e)] = hand[Peer(e)]
      /\ sent'[Peer(e)] = sent[Peer(e)]
      /\ delivered'[Peer(e)] = delivered[Peer(e)]
      /\ sending' = sending
  BY DEF Destroy, frameVars
<1>1. TypeInv'
  BY <1>a, <1>w DEF Destroy, frameVars, TypeInv, At
<1>2. BoundInv'
  BY <1>b, <1>p, <1>e, <1>q DEF BoundInv
<1>3. PhaseOK(e)' /\ PhaseOK(Peer(e))'
  BY <1>h, <1>k, <1>q DEF KnownOf, Destroy, PhaseOK, At, In
<1>4. ByeOK(e)' /\ ByeOK(Peer(e))'
  BY <1>p, <1>h, <1>g, <1>k, <1>e, <1>q DEF KnownOf, ByeOK, SaidBye, At, In
<1>5. RoleOK(e)' /\ RoleOK(Peer(e))'
  BY <1>p, <1>h, <1>e, <1>q DEF KnownOf, RoleOK, SaidBye, At, In
<1>6. HeloOK(e)' /\ HeloOK(Peer(e))'
  BY <1>p, <1>h, <1>g, <1>k, <1>e, <1>q DEF KnownOf, HeloOK, BeforeHelo, AwaitsHelo, At
<1>7. CountOK(e)' /\ CountOK(Peer(e))'
  BY <1>p, <1>h, <1>k, <1>e, <1>q DEF KnownOf, Destroy, CountOK, Reading, At
<1> QED
  BY <1>p, <1>1, <1>2, <1>3, <1>4, <1>5, <1>6, <1>7
     DEF IInv, PhaseInv, ByeInv, RoleInv, HeloInv, CountInv

LEMMA BeginSendKeeps ==
    ASSUME NEW e \in Ends, IInv, BeginSend(e)
    PROVE  IInv'
<1>p. Peer(e) \in Ends /\ Peer(e) # e /\ Peer(Peer(e)) = e /\ \A d \in Ends: d = e \/ d = Peer(e)
  BY PeerFacts
<1>r. \/ e = "client" /\ Peer(e) = "server"
      \/ e = "server" /\ Peer(e) = "client"
  BY DEF Ends, Peer
<1>a. TypeInv /\ BeginSend(e)
  BY DEF IInv
<1>b. BoundInv
  BY DEF IInv
<1>h. KnownOf(e) /\ KnownOf(Peer(e))
  BY <1>p, KnownFacts
<1>w. wire' = wire /\ closed' = closed /\ reset' = reset
  BY DEF BeginSend, netVars
<1>e. /\ state'[e] = state[e]
      /\ pc'[e] = pc[e]
      /\ hand'[e] = hand[e]
      /\ sent'[e] = sent[e]
      /\ delivered'[e] = delivered[e]
  BY DEF BeginSend
<1>q. /\ state'[Peer(e)] = state[Peer(e)]
      /\ pc'[Peer(e)] = pc[Peer(e)]
      /\ hand'[Peer(e)] = hand[Peer(e)]
      /\ sent'[Peer(e)] = sent[Peer(e)]
      /\ delivered'[Peer(e)] = delivered[Peer(e)]
      /\ sending' = sending \cup {e}
  BY DEF BeginSend
<1>1. TypeInv'
  BY <1>a, <1>w DEF BeginSend, TypeInv, At
<1>2. BoundInv'
  BY <1>b DEF BeginSend, BoundInv
<1>3. PhaseOK(e)' /\ PhaseOK(Peer(e))'
  BY <1>h, <1>w DEF KnownOf, BeginSend, PhaseOK, At, In
<1>4. ByeOK(e)' /\ ByeOK(Peer(e))'
  BY <1>h, <1>w DEF KnownOf, BeginSend, PhaseOK, ByeOK, SaidBye, At, In
<1>5. RoleOK(e)' /\ RoleOK(Peer(e))'
  BY <1>p, <1>h DEF KnownOf, BeginSend, RoleOK, In
<1>6. HeloOK(e)' /\ HeloOK(Peer(e))'
  BY <1>p, <1>h, <1>w, <1>e, <1>q DEF KnownOf, HeloOK, BeforeHelo, AwaitsHelo, At
<1>7. CountOK(e)' /\ CountOK(Peer(e))'
  BY <1>p, <1>h, <1>w, <1>e, <1>q DEF KnownOf, CountOK, Reading
<1> QED
  BY <1>p, <1>1, <1>2, <1>3, <1>4, <1>5, <1>6, <1>7
     DEF IInv, PhaseInv, ByeInv, RoleInv, HeloInv, CountInv

LEMMA EndSendKeeps ==
    ASSUME NEW e \in Ends, IInv, EndSend(e)
    PROVE  IInv'
<1>p. Peer(e) \in Ends /\ Peer(e) # e /\ Peer(Peer(e)) = e /\ \A d \in Ends: d = e \/ d = Peer(e)
  BY PeerFacts
<1>r. \/ e = "client" /\ Peer(e) = "server"
      \/ e = "server" /\ Peer(e) = "client"
  BY DEF Ends, Peer
<1>a. TypeInv /\ EndSend(e)
  BY DEF IInv
<1>b. BoundInv
  BY DEF IInv
<1>h. KnownOf(e) /\ KnownOf(Peer(e))
  BY <1>p, KnownFacts
<1>1. CASE Transmit(e, "data") /\ sent' = [sent EXCEPT ![e] = @ + 1]
  <2>w. Appended(e, "data")
    BY <1>1, <1>a, TransmitFacts DEF TypeInv, Frames
  <2>g. \/ Peer(e) \in closed /\ wire' = wire
        \/ /\ Len(wire'[e]) = Len(wire[e]) + 1
           /\ Contains(wire'[e], "bye") => Contains(wire[e], "bye")
           /\ Contains(wire[e], "bye") => Contains(wire'[e], "bye")
           /\ Contains(wire'[e], "helo") => Contains(wire[e], "helo")
           /\ Contains(wire[e], "helo") => Contains(wire'[e], "helo")
           /\ ByeLast(wire[e]) /\ ~Contains(wire[e], "bye") => ByeLast(wire'[e])
           /\ HeloFirst(wire[e]) => HeloFirst(wire'[e])
    BY <2>w DEF Appended
  <2>k. wire'[Peer(e)] = wire[Peer(e)] /\ closed' = closed
    BY <2>w DEF Appended
  <2>e. /\ state'[e] = state[e]
        /\ pc'[e] = pc[e]
        /\ hand'[e] = hand[e]
        /\ sent'[e] = sent[e] + 1
        /\ delivered'[e] = delivered[e]
    BY <1>1, <1>a DEF EndSend, TypeInv
  <2>q. /\ state'[Peer(e)] = state[Peer(e)]
        /\ pc'[Peer(e)] = pc[Peer(e)]
        /\ hand'[Peer(e)] = hand[Peer(e)]
        /\ sent'[Peer(e)] = sent[Peer(e)]
        /\ delivered'[Peer(e)] = delivered[Peer(e)]
        /\ sending' = sending \ {e}
    BY <1>1, <1>p DEF EndSend
  <2>1. TypeInv'
    <3>1. state' \in [Ends -> States]
      BY <1>a DEF EndSend, TypeInv
    <3>2. pc' \in [Ends -> Pcs]
      BY <1>a DEF EndSend, TypeInv
    <3>3. hand' \in [Ends -> Frames \cup {"none"}]
      BY <1>a DEF EndSend, TypeInv
    <3>4. sent' \in [Ends -> Nat]
      BY <1>1, <1>a DEF TypeInv
    <3>5. delivered' \in [Ends -> Nat]
      BY <1>a DEF EndSend, TypeInv
    <3>6. \A d \in Ends: At(d, "process")' <=> hand'[d] # "none"
      BY <1>a DEF EndSend, TypeInv, At
    <3>7. byeSeen' \subseteq Ends /\ sending' \subseteq Ends
      BY <1>a DEF EndSend, TypeInv
    <3>8. closed' \subseteq Ends /\ reset' \subseteq Ends /\ wire' \in [Ends -> Seq(Frames)]
      BY <1>a, <2>w DEF TypeInv, Appended
    <3> QED
      BY <3>1, <3>2, <3>3, <3>4, <3>5, <3>6, <3>7, <3>8 DEF TypeInv
  <2>2. BoundInv'
    BY <1>a, <1>b, BoundsAssumption DEF EndSend, TypeInv, BoundInv
  <2>3. PhaseOK(e)' /\ PhaseOK(Peer(e))'
    BY <1>h, <2>k, <2>e, <2>q DEF KnownOf, PhaseOK, At, In
  <2>4. ByeOK(e)' /\ ByeOK(Peer(e))'
    BY <1>h, <2>g, <2>k DEF KnownOf, EndSend, ByeOK, SaidBye, At, In
  <2>5. RoleOK(e)' /\ RoleOK(Peer(e))'
    BY <1>p, <1>h, <2>q DEF KnownOf, EndSend, RoleOK, SaidBye, At, In
  <2>6. HeloOK(e)' /\ HeloOK(Peer(e))'
    BY <1>p, <1>h, <2>g, <2>k, <2>q
       DEF KnownOf, EndSend, PhaseOK, HeloOK, BeforeHelo, AwaitsHelo, At, In
  <2>7e. CountOK(e)'
    BY <1>h, <2>k, <2>e, <2>q DEF KnownOf, CountOK, Reading
  <2>7p. CountOK(Peer(e))'
    <3>1. CASE Peer(e) \in closed /\ wire' = wire
      BY <3>1, <1>p, <1>h, <2>e, <2>q DEF KnownOf, Known, PhaseOK, CountOK, Reading, One
    <3>2. CASE wire' # wire \/ Peer(e) \notin closed
      <4>1. Len(wire'[e]) = Len(wire[e]) + 1 /\ Len(wire[e]) \in Nat
        BY <3>2, <2>g, <1>h DEF KnownOf, Known
      <4>3. /\ One(Contains(wire'[e], "bye")) = One(Contains(wire[e], "bye"))
            /\ One(Contains(wire'[e], "helo")) = One(Contains(wire[e], "helo"))
        BY <3>2, <2>g DEF One
      <4>4. /\ One(Contains(wire[e], "bye")) \in Nat
            /\ One(Contains(wire[e], "helo")) \in Nat
            /\ One(hand[Peer(e)] = "data") \in Nat
        BY DEF One
      <4>5. One(hand[Peer(e)] = "data")' = One(hand[Peer(e)] = "data")
        BY <2>q DEF One
      <4>6. Reading(Peer(e))' => Reading(Peer(e))
        BY <2>q DEF Reading
      <4>7. Reading(Peer(e)) =>
                Balanced(sent[e], One(Contains(wire[e], "bye")), One(Contains(wire[e], "helo")),
                         delivered[Peer(e)], One(hand[Peer(e)] = "data"), Len(wire[e]))
        BY <1>p, <1>h DEF KnownOf, Known, CountOK
      <4>8. delivered[Peer(e)] + One(hand[Peer(e)] = "data") <= sent[e] + 1
        BY <1>p, <1>h, <4>4 DEF KnownOf, Known, CountOK
      <4>9. Reading(Peer(e)) =>
                Balanced(sent[e] + 1, One(Contains(wire[e], "bye")), One(Contains(wire[e], "helo")),
                         delivered[Peer(e)], One(hand[Peer(e)] = "data"), Len(wire[e]) + 1)
        BY <1>h, <4>4, <4>7, Balance DEF KnownOf, Known
      <4> QED
        BY <1>p, <2>e, <2>q, <4>1, <4>3, <4>6, <4>8, <4>9 DEF CountOK
    <3> QED
      BY <3>1, <3>2, <2>g
  <2> QED
    BY <1>p, <2>1, <2>2, <2>3, <2>4, <2>5, <2>6, <2>7e, <2>7p
       DEF IInv, PhaseInv, ByeInv, RoleInv, HeloInv, CountInv
<1>2. CASE TransmitFails(e) /\ UNCHANGED sent
  <2>w. wire' = wire /\ closed' = closed /\ reset' = reset
    BY <1>2 DEF TransmitFails, netVars
  <2>e. /\ state'[e] = state[e]
        /\ pc'[e] = pc[e]
        /\ hand'[e] = hand[e]
        /\ sent'[e] = sent[e]
        /\ delivered'[e] = delivered[e]
    BY <1>2 DEF EndSend
  <2>q. /\ state'[Peer(e)] = state[Peer(e)]
        /\ pc'[Peer(e)] = pc[Peer(e)]
        /\ hand'[Peer(e)] = hand[Peer(e)]
        /\ sent'[Peer(e)] = sent[Peer(e)]
        /\ delivered'[Peer(e)] = delivered[Peer(e)]
        /\ sending' = sending \ {e}
    BY <1>2 DEF EndSend
  <2>1. TypeInv'
    BY <1>a, <2>w, <2>q DEF EndSend, TypeInv, At
  <2>2. BoundInv'
    BY <1>b, <1>p, <2>e, <2>q DEF BoundInv
  <2>3. PhaseOK(e)' /\ PhaseOK(Peer(e))'
    BY <1>h, <2>w, <2>e, <2>q DEF KnownOf, PhaseOK, At, In
  <2>4. ByeOK(e)' /\ ByeOK(Peer(e))'
    BY <1>p, <1>h, <2>w, <2>e, <2>q DEF KnownOf, ByeOK, SaidBye, At, In
  <2>5. RoleOK(e)' /\ RoleOK(Peer(e))'
    BY <1>p, <1>h, <2>e, <2>q DEF KnownOf, RoleOK, SaidBye, At, In
  <2>6. HeloOK(e)' /\ HeloOK(Peer(e))'
    BY <1>p, <1>h, <2>w, <2>e, <2>q DEF KnownOf, HeloOK, BeforeHelo, AwaitsHelo, At
  <2>7. CountOK(e)' /\ CountOK(Peer(e))'
    BY <1>p, <1>h, <2>w, <2>e, <2>q DEF KnownOf, CountOK, Reading
  <2> QED
    BY <1>p, <2>1, <2>2, <2>3, <2>4, <2>5, <2>6, <2>7
       DEF IInv, PhaseInv, ByeInv, RoleInv, HeloInv, CountInv
<1> QED
  BY <1>1, <1>2 DEF EndSend

LEMMA CloseKeeps ==
    ASSUME NEW e \in Ends, IInv, Close(e)
    PROVE  IInv'
<1>p. Peer(e) \in Ends /\ Peer(e) # e /\ Peer(Peer(e)) = e /\ \A d \in Ends: d = e \/ d = Peer(e)
  BY PeerFacts
<1>r. \/ e = "client" /\ Peer(e) = "server"
      \/ e = "server" /\ Peer(e) = "client"
  BY DEF Ends, Peer
<1>a. TypeInv /\ Close(e)
  BY DEF IInv
<1>b. BoundInv
  BY DEF IInv
<1>h. KnownOf(e) /\ KnownOf(Peer(e))
  BY <1>p, KnownFacts
<1>w. wire' = wire /\ closed' = closed /\ reset' = reset
  BY DEF Close, netVars
<1>e. /\ state'[e] = "CLOSING_ACTIVE"
      /\ pc'[e] = pc[e]
      /\ hand'[e] = hand[e]
      /\ sent'[e] = sent[e]
      /\ delivered'[e] = delivered[e]
  BY <1>a DEF Close, SetState, frameVars, TypeInv
<1>q. /\ state'[Peer(e)] = state[Peer(e)]
      /\ pc'[Peer(e)] = pc[Peer(e)]
      /\ hand'[Peer(e)] = hand[Peer(e)]
      /\ sent'[Peer(e)] = sent[Peer(e)]
      /\ delivered'[Peer(e)] = delivered[Peer(e)]
      /\ sending' = sending
  BY <1>p DEF Close, SetState, frameVars
<1>1. TypeInv'
  BY <1>a, <1>w DEF Close, SetState, frameVars, TypeInv, At, States
<1>2. BoundInv'
  BY <1>b, <1>p, <1>e, <1>q DEF BoundInv
<1>3. PhaseOK(e)' /\ PhaseOK(Peer(e))'
  BY <1>h, <1>w, <1>e, <1>q DEF KnownOf, Close, PhaseOK, At, In
<1>4. ByeOK(e)' /\ ByeOK(Peer(e))'
  BY <1>h, <1>w, <1>q DEF KnownOf, Close, ByeOK, SaidBye, At, In
<1>5. RoleOK(e)' /\ RoleOK(Peer(e))'
  BY <1>p, <1>h, <1>e, <1>q DEF KnownOf, Close, RoleOK, In
<1>6. HeloOK(e)' /\ HeloOK(Peer(e))'
  BY <1>p, <1>h, <1>w, <1>e, <1>q DEF KnownOf, HeloOK, BeforeHelo, AwaitsHelo, At
<1>7. CountOK(e)' /\ CountOK(Peer(e))'
  BY <1>p, <1>h, <1>w, <1>e, <1>q DEF KnownOf, CountOK, Reading
<1> QED
  BY <1>p, <1>1, <1>2, <1>3, <1>4, <1>5, <1>6, <1>7
     DEF IInv, PhaseInv, ByeInv, RoleInv, HeloInv, CountInv

LEMMA AbortKeeps ==
    ASSUME NEW e \in Ends, IInv, Abort(e)
    PROVE  IInv'
<1>p. Peer(e) \in Ends /\ Peer(e) # e /\ Peer(Peer(e)) = e /\ \A d \in Ends: d = e \/ d = Peer(e)
  BY PeerFacts
<1>r. \/ e = "client" /\ Peer(e) = "server"
      \/ e = "server" /\ Peer(e) = "client"
  BY DEF Ends, Peer
<1>a. TypeInv /\ Abort(e)
  BY DEF IInv
<1>b. BoundInv
  BY DEF IInv
<1>h. KnownOf(e) /\ KnownOf(Peer(e))
  BY <1>p, KnownFacts
<1>w. wire' = wire /\ closed' = closed /\ reset' = reset
  BY DEF Abort, netVars
<1>e. /\ state'[e] = "ABORTED"
      /\ pc'[e] = pc[e]
      /\ hand'[e] = hand[e]
      /\ sent'[e] = sent[e]
      /\ delivered'[e] = delivered[e]
  BY <1>a DEF Abort, SetState, frameVars, TypeInv
<1>q. /\ state'[Peer(e)] = state[Peer(e)]
      /\ pc'[Peer(e)] = pc[Peer(e)]
      /\ hand'[Peer(e)] = hand[Peer(e)]
      /\ sent'[Peer(e)] = sent[Peer(e)]
      /\ delivered'[Peer(e)] = delivered[Peer(e)]
      /\ sending' = sending
  BY <1>p DEF Abort, SetState, frameVars
<1>1. TypeInv'
  BY <1>a, <1>w DEF Abort, SetState, frameVars, TypeInv, At, States
<1>2. BoundInv'
  BY <1>b, <1>p, <1>e, <1>q DEF BoundInv
<1>3. PhaseOK(e)' /\ PhaseOK(Peer(e))'
  BY <1>h, <1>w, <1>e, <1>q DEF KnownOf, Abort, PhaseOK, At, In
<1>4. ByeOK(e)' /\ ByeOK(Peer(e))'
  BY <1>h, <1>w, <1>q DEF KnownOf, Abort, ByeOK, SaidBye, At, In
<1>5. RoleOK(e)' /\ RoleOK(Peer(e))'
  BY <1>p, <1>h, <1>e, <1>q DEF KnownOf, Abort, RoleOK, In
<1>6. HeloOK(e)' /\ HeloOK(Peer(e))'
  BY <1>p, <1>h, <1>w, <1>e, <1>q DEF KnownOf, HeloOK, BeforeHelo, AwaitsHelo, At
<1>7. CountOK(e)' /\ CountOK(Peer(e))'
  BY <1>p, <1>h, <1>w, <1>e, <1>q DEF KnownOf, CountOK, Reading
<1> QED
  BY <1>p, <1>1, <1>2, <1>3, <1>4, <1>5, <1>6, <1>7
     DEF IInv, PhaseInv, ByeInv, RoleInv, HeloInv, CountInv

LEMMA InitKeeps == Init => IInv
<1> SUFFICES ASSUME Init PROVE IInv
  OBVIOUS
<1>1. TypeInv
  BY DEF Init, TypeInv, At, States, Pcs
<1>2. BoundInv
  BY BoundsAssumption DEF Init, BoundInv
<1>3. ASSUME NEW e \in Ends
      PROVE  PhaseOK(e) /\ ByeOK(e) /\ RoleOK(e) /\ HeloOK(e) /\ CountOK(e)
  <2>1. /\ wire[e] = <<>> /\ wire[Peer(e)] = <<>> /\ Len(wire[Peer(e)]) = 0
        /\ hand[e] = "none" /\ hand[Peer(e)] = "none"
    BY PeerFacts DEF Init
  <2>2. pc[e] = "start" /\ pc[Peer(e)] = "start" /\ In(e, "PRE_HANDSHAKE")
    BY PeerFacts DEF Init, In
  <2>3. sent[e] = 0 /\ sent[Peer(e)] = 0 /\ delivered[e] = 0 /\ sending = {} /\ closed = {}
    BY PeerFacts DEF Init
  <2>4. PhaseOK(e)
    BY <2>2, <2>3 DEF PhaseOK, At, In
  <2>5. ByeOK(e)
    BY <2>1, EmptyWire DEF ByeOK
  <2>6. RoleOK(e)
    BY <2>2 DEF RoleOK, In
  <2>7. HeloOK(e)
    BY <2>1, <2>2, <2>3, EmptyWire DEF HeloOK, AwaitsHelo
  <2>8. CountOK(e)
    <3>1. /\ One(hand[e] = "data") = 0
          /\ One(Contains(wire[Peer(e)], "bye")) = 0
          /\ One(Contains(wire[Peer(e)], "helo")) = 0
      BY <2>1, EmptyWire DEF One
    <3> QED
      BY <2>1, <2>3, <3>1 DEF CountOK, Balanced
  <2> QED
    BY <2>4, <2>5, <2>6, <2>7, <2>8
<1> QED
  BY <1>1, <1>2, <1>3 DEF IInv, PhaseInv, ByeInv, RoleInv, HeloInv, CountInv

LEMMA StutterKeeps == IInv /\ UNCHANGED vars => IInv'
  BY DEF IInv, vars, TypeInv, BoundInv, PhaseInv, PhaseOK, ByeInv, ByeOK, SaidBye, RoleInv,
         RoleOK, HeloInv, HeloOK, BeforeHelo, AwaitsHelo, CountInv, CountOK, Reading, At, In

LEMMA NextKeeps == IInv /\ [Next]_vars => IInv'
<1> SUFFICES ASSUME IInv, [Next]_vars PROVE IInv'
  OBVIOUS
<1>1. CASE UNCHANGED vars
  BY <1>1, StutterKeeps
<1>2. CASE Next
  <2>1. PICK e \in Ends: Run(e) \/ PollFails(e) \/ Destroy(e) \/ Use(e)
    BY <1>2 DEF Next
  <2>2. CASE Run(e)
    BY <2>2, StartKeeps, SendHeloKeeps, ReceiveHeloKeeps, EstablishKeeps, LoopKeeps,
       ReceiveFrameKeeps, ReceiveNothingKeeps, ReceiveErrorKeeps, ProcessFrameKeeps,
       SendByeKeeps, ReceiveByeKeeps, WaitPeerKeeps, CloseSocketKeeps DEF Run
  <2>3. CASE Destroy(e)
    BY <2>3, DestroyKeeps
  <2>4. CASE PollFails(e)
    BY <2>4, PollFailsKeeps
  <2>5. CASE Use(e)
    BY <2>5, BeginSendKeeps, EndSendKeeps, CloseKeeps, AbortKeeps DEF Use
  <2> QED
    BY <2>1, <2>2, <2>3, <2>4, <2>5
<1> QED
  BY <1>1, <1>2

LEMMA Invariant == Spec => []IInv
<1>1. Init => IInv
  BY InitKeeps
<1>2. IInv /\ [Next]_vars => IInv'
  BY NextKeeps
<1> QED
  BY <1>1, <1>2, PTL DEF Spec

-----------------------------------------------------------------------------
(* What follows from it *)

\* Every variable keeps its type: no end has been given more frames than its peer
\* has sent, and run() has a frame in hand exactly while it processes it.
THEOREM TypesKept == Spec => []TypeOK
<1>1. IInv => TypeOK
  <2> SUFFICES ASSUME IInv PROVE TypeOK
    OBVIOUS
  <2>1. ASSUME NEW e \in Ends PROVE sent[e] \in 0..MaxFrames
    BY <2>1, BoundsAssumption DEF IInv, TypeInv, BoundInv
  <2>2. ASSUME NEW e \in Ends PROVE delivered[e] \in 0..MaxFrames
    <3>1. delivered[e] \in Nat /\ delivered[e] <= sent[Peer(e)]
      <4>1. delivered[e] \in Nat /\ sent[Peer(e)] \in Nat /\ One(hand[e] = "data") \in Nat
        BY <2>2, PeerFacts DEF IInv, TypeInv, One
      <4>2. delivered[e] + One(hand[e] = "data") <= sent[Peer(e)]
        BY <2>2 DEF IInv, CountInv, CountOK
      <4> QED
        BY <4>1, <4>2
    <3>2. sent[Peer(e)] \in 0..MaxFrames
      BY <2>1, <2>2, PeerFacts
    <3> QED
      BY <3>1, <3>2, BoundsAssumption
  <2>3. sent \in [Ends -> 0..MaxFrames]
    BY <2>1 DEF IInv, TypeInv
  <2>4. delivered \in [Ends -> 0..MaxFrames]
    BY <2>2 DEF IInv, TypeInv
  <2> QED
    BY <2>3, <2>4 DEF IInv, TypeInv, TypeOK
<1> QED
  BY <1>1, Invariant, PTL

\* A BYE is the last frame on the wire, however sendFrame(), close() and the
\* thread of run() interleave: none of them sends behind it.
THEOREM ByeStaysLast == Spec => []ByeIsLast
<1>1. IInv => ByeIsLast
  BY DEF IInv, ByeInv, ByeOK, ByeLast, ByeIsLast
<1> QED
  BY <1>1, Invariant, PTL

\* An end that is closing because its peer said BYE has given its handlers every
\* frame the peer's users sent.
THEOREM PassiveIsComplete == Spec => []PassiveGotEverything
<1>1. IInv => PassiveGotEverything
  BY DEF IInv, RoleInv, RoleOK, PassiveGotEverything, In
<1> QED
  BY <1>1, Invariant, PTL

\* Only the peer of an end that closes actively, or has closed, is passive: two
\* closes that cross leave two active ends, never two passive ones.
THEOREM RolesStayAgreed == Spec => []RolesAgree
<1>1. IInv => RolesAgree
  BY DEF IInv, RoleInv, RoleOK, RolesAgree, In
<1> QED
  BY <1>1, Invariant, PTL

-----------------------------------------------------------------------------
(* An end implements ConnectionLife *)

phases == [e \in Ends |-> Phase(e)]

\* LifeSpec without its fairness.
LifeSteps == Life!Init /\ [][Life!Next]_phases

\* How the phase of an end that takes a step may change.
PhaseMove(e) ==
    \/ Phase(e)' = Phase(e)
    \/ Phase(e) = "new" /\ Phase(e)' = "opening"
    \/ Phase(e) = "opening" /\ Phase(e)' \in {"established", "over"}
    \/ Phase(e) = "established" /\ Phase(e)' = "leaving"
    \/ Phase(e) = "leaving" /\ Phase(e)' = "over"

LEMMA RunMoves ==
    ASSUME IInv, NEW e \in Ends, Run(e)
    PROVE  PhaseMove(e)
<1>0. PhaseOK(e) /\ state \in [Ends -> States] /\ pc \in [Ends -> Pcs]
  BY DEF IInv, PhaseInv, TypeInv
<1>1. CASE Start(e)
  BY <1>0, <1>1 DEF Start, PhaseOK, PhaseMove, Phase, Ended, In, At, SetState, Goto
<1>2. CASE SendHelo(e)
  BY <1>0, <1>2 DEF SendHelo, PhaseOK, PhaseMove, Phase, Ended, In, At, Goto
<1>3. CASE ReceiveHelo(e)
  BY <1>0, <1>3 DEF ReceiveHelo, PhaseOK, PhaseMove, Phase, Ended, In, At, Goto
<1>4. CASE Establish(e)
  BY <1>0, <1>4 DEF Establish, PhaseOK, PhaseMove, Phase, Ended, In, At, SetState, Goto
<1>5. CASE Loop(e)
  BY <1>0, <1>5 DEF Loop, AfterLoop, PhaseOK, PhaseMove, Phase, Ended, In, At, Goto
<1>6. CASE ReceiveFrame(e)
  BY <1>0, <1>6 DEF ReceiveFrame, PhaseOK, PhaseMove, Phase, Ended, In, At, Goto
<1>7. CASE ReceiveNothing(e)
  BY <1>0, <1>7 DEF ReceiveNothing, PhaseOK, PhaseMove, Phase, Ended, In, At, SetState, Goto
<1>8. CASE ReceiveError(e)
  BY <1>0, <1>8 DEF ReceiveError, PhaseOK, PhaseMove, Phase, Ended, In, At, SetState, Goto
<1>9. CASE ProcessFrame(e)
  BY <1>0, <1>9 DEF ProcessFrame, PhaseOK, PhaseMove, Phase, Ended, In, At, SetState, Goto
<1>10. CASE SendBye(e)
  BY <1>0, <1>10 DEF SendBye, PhaseOK, PhaseMove, Phase, Ended, In, At, Goto
<1>11. CASE ReceiveBye(e)
  BY <1>0, <1>11 DEF ReceiveBye, PhaseOK, PhaseMove, Phase, Ended, In, At, SetState, Goto
<1>12. CASE WaitPeer(e)
  BY <1>0, <1>12 DEF WaitPeer, PhaseOK, PhaseMove, Phase, Ended, In, At, SetState, Goto
<1>13. CASE CloseSocket(e)
  BY <1>0, <1>13 DEF CloseSocket, PhaseOK, PhaseMove, Phase, Ended, In, At, Goto
<1> QED
  BY <1>1, <1>2, <1>3, <1>4, <1>5, <1>6, <1>7, <1>8, <1>9, <1>10, <1>11, <1>12, <1>13 DEF Run

LEMMA UseMoves ==
    ASSUME IInv, NEW e \in Ends, PollFails(e) \/ Destroy(e) \/ Use(e)
    PROVE  PhaseMove(e)
<1>0. PhaseOK(e) /\ state \in [Ends -> States] /\ pc \in [Ends -> Pcs]
  BY DEF IInv, PhaseInv, TypeInv
<1>1. CASE UNCHANGED <<state, pc>>
  BY <1>1 DEF PhaseMove, Phase, Ended, In
<1>2. CASE Close(e) \/ Abort(e)
  BY <1>0, <1>2 DEF Close, Abort, PhaseOK, At, PhaseMove, Phase, Ended, In, SetState
<1>3. CASE PollFails(e)
  BY <1>0, <1>3 DEF PollFails, PhaseOK, At, PhaseMove, Phase, Ended, In, Goto
<1> QED
  BY <1>1, <1>2, <1>3 DEF Destroy, Use, BeginSend, EndSend

\* A step of one end leaves the phase of the other alone.
LEMMA OtherStays ==
    ASSUME IInv, NEW e \in Ends, Run(e) \/ PollFails(e) \/ Destroy(e) \/ Use(e)
    PROVE  \A d \in Ends \ {e}: Phase(d)' = Phase(d)
<1>1. state \in [Ends -> States] /\ pc \in [Ends -> Pcs]
  BY DEF IInv, TypeInv
<1>2. \A d \in Ends \ {e}: state'[d] = state[d] /\ pc'[d] = pc[d]
  BY <1>1
     DEF Run, PollFails, Destroy, Use, Start, SendHelo, ReceiveHelo, Establish, Loop, ReceiveFrame,
         ReceiveNothing, ReceiveError, ProcessFrame, SendBye, ReceiveBye, WaitPeer, CloseSocket,
         BeginSend, EndSend, Close, Abort, SetState, Goto
<1> QED
  BY <1>2 DEF Phase, Ended, In

\* Each end is established once, ignores close() and abort() before, and never is
\* established again after it left: the steps of ConnectionLife.
THEOREM LivesAConnectionLife == Spec => LifeSteps
<1>1. Init => Life!Init
  BY DEF Init, Life!Init, Phase, Ended, In
<1>2. IInv /\ [Next]_vars => [Life!Next]_phases
  <2> SUFFICES ASSUME IInv, [Next]_vars PROVE Life!Next \/ UNCHANGED phases
    OBVIOUS
  <2>1. CASE UNCHANGED vars
    BY <2>1 DEF vars, phases, Phase, Ended, In
  <2>2. CASE Next
    <3>1. PICK e \in Ends: Run(e) \/ PollFails(e) \/ Destroy(e) \/ Use(e)
      BY <2>2 DEF Next
    <3>2. PhaseMove(e) /\ \A d \in Ends \ {e}: Phase(d)' = Phase(d)
      BY <3>1, RunMoves, UseMoves, OtherStays
    <3>3. phases' = [phases EXCEPT ![e] = Phase(e)']
      BY <3>2 DEF phases
    <3>4. CASE Phase(e)' = Phase(e)
      BY <3>2, <3>4 DEF phases
    <3>5. CASE Phase(e)' # Phase(e)
      BY <3>2, <3>3, <3>5
         DEF PhaseMove, phases, Life!Next, Life!Begin, Life!Establish, Life!Fail, Life!Leave,
             Life!Finish, Life!InPhase, Life!Become
    <3> QED
      BY <3>4, <3>5
  <2> QED
    BY <2>1, <2>2
<1> QED
  BY <1>1, <1>2, Invariant, PTL DEF Spec, LifeSteps
=============================================================================
