---------------------------- MODULE ConnectionLife ----------------------------
(***************************************************************************)
(* What the rest of RemotingNG may rely on about a TCP Connection object:  *)
(* the phases its state goes through, seen from outside.                   *)
(*                                                                         *)
(*   new          PRE_HANDSHAKE, run() has not begun                       *)
(*   opening      HANDSHAKE                                                *)
(*   established  ESTABLISHED                                              *)
(*   leaving      CLOSING_ACTIVE, CLOSING_PASSIVE, ABORTED or CLOSED, while*)
(*                run() has not returned                                   *)
(*   over         run() has returned                                       *)
(***************************************************************************)

CONSTANT Conns      \* the connections

VARIABLE life       \* the phase of each of them

Phases == {"new", "opening", "established", "leaving", "over"}

InPhase(c, p) == life[c] = p
Become(c, p) == life' = [life EXCEPT ![c] = p]

Init == life = [c \in Conns |-> "new"]

Begin(c) == InPhase(c, "new") /\ Become(c, "opening")
Establish(c) == InPhase(c, "opening") /\ Become(c, "established")
\* The handshake fails.
Fail(c) == InPhase(c, "opening") /\ Become(c, "over")
\* close(), abort(), an idle timeout, the peer's BYE or an error.
Leave(c) == InPhase(c, "established") /\ Become(c, "leaving")
Finish(c) == InPhase(c, "leaving") /\ Become(c, "over")

Next == \E c \in Conns: Begin(c) \/ Establish(c) \/ Fail(c) \/ Leave(c) \/ Finish(c)

\* A connection that leaves is over eventually.
Spec == Init /\ [][Next]_life /\ \A c \in Conns: WF_life(Finish(c))
=============================================================================
