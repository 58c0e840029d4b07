--------------------------- MODULE BundleStateChart ---------------------------
(***************************************************************************)
(* What the life of a bundle is meant to be (the state chart of            *)
(* platform/OSP/doc/00200-OSPBundles.page and of Bundle.h): which states   *)
(* follow each other, and in which of them the activator may be running.   *)
(***************************************************************************)
CONSTANT Bundles

VARIABLES
    state,      \* the state of each bundle
    running     \* the bundles whose activator has been started and not stopped

vars == <<state, running>>

Init ==
    /\ state \in [Bundles -> {"NONE", "INSTALLED"}]
    /\ running = {}

\* A bundle goes from one of the states in `from` to the state `to`.
Move(b, from, to) ==
    /\ state[b] \in from
    /\ state' = [state EXCEPT ![b] = to]
    /\ UNCHANGED running

Load(b) == Move(b, {"NONE"}, "INSTALLED")
Resolve(b) == Move(b, {"INSTALLED"}, "RESOLVED")

BeginStart(b) == Move(b, {"RESOLVED"}, "STARTING")
ActivatorStarted(b) ==
    /\ state[b] = "STARTING"
    /\ running' = running \cup {b}
    /\ UNCHANGED state
Started(b) == Move(b, {"STARTING"}, "ACTIVE")
FailStart(b) == b \notin running /\ Move(b, {"STARTING"}, "RESOLVED")

BeginStop(b) == Move(b, {"ACTIVE"}, "STOPPING")
ActivatorStopped(b) ==
    /\ state[b] = "STOPPING"
    /\ running' = running \ {b}
    /\ UNCHANGED state
Stopped(b) == b \notin running /\ Move(b, {"STOPPING"}, "RESOLVED")
FailStop(b) == Move(b, {"STOPPING"}, "ACTIVE")

Uninstall(b) == b \notin running /\ Move(b, {"INSTALLED", "RESOLVED"}, "UNINSTALLED")

Next ==
    \E b \in Bundles:
        \/ Load(b) \/ Resolve(b)
        \/ BeginStart(b) \/ ActivatorStarted(b) \/ Started(b) \/ FailStart(b)
        \/ BeginStop(b) \/ ActivatorStopped(b) \/ Stopped(b) \/ FailStop(b)
        \/ Uninstall(b)

Spec == Init /\ [][Next]_vars
=============================================================================
