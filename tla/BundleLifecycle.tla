--------------------------- MODULE BundleLifecycle ---------------------------
(***************************************************************************)
(* The life of OSP bundles: Bundle::resolve/start/stop/uninstall           *)
(* (platform/OSP/src/Bundle.cpp), the BundleLoader they call               *)
(* (platform/OSP/src/BundleLoader.cpp) and the start-up and shutdown that  *)
(* OSPSubsystem drives (platform/OSP/src/OSPSubsystem.cpp).                *)
(*                                                                         *)
(* A thread that is inside these calls is a stack of frames: resolving or  *)
(* starting a bundle calls resolve() or start() of the bundles it depends  *)
(* on.  The loader's recursive mutex is held from a loader call's entry to *)
(* its return, so a thread holds it iff one of its frames is at a program  *)
(* point inside the loader (HoldsLock).  Bundle's own reads and writes of  *)
(* its state are outside the mutex, one step each.  A C++ exception is the *)
(* flag failing[t]: Unwind takes it through the frames.                    *)
(*                                                                         *)
(* A bundle object stands for one symbolic name in one version.  A         *)
(* dependency on an unavailable name or version is a dependency on a       *)
(* bundle that is never installed.                                         *)
(***************************************************************************)
EXTENDS Naturals, Sequences, FiniteSets

CONSTANTS
    Bundles,        \* the Bundle objects
    NoBundle,       \* what a bundle that is no extension extends
    Manifests,      \* the manifests the bundles may come with (one is chosen)
    Installed,      \* bundles found in the repository at start-up
    WithActivator,  \* bundles that name an activator class
    Lazy,           \* bundles with lazyStart: not started at start-up
    Protected,      \* bundles with preventUninstall
    Sealed,         \* bundles that refuse extension bundles
    RunLevel,       \* RunLevel[b]: low run levels start first and stop last
    Main,           \* the application's main thread
    Admins,         \* threads that serve an administrator's requests
    Exclusive,      \* TRUE: one management call at a time, none during
                    \* start-up and shutdown; FALSE: requests run concurrently
    Faults          \* what may fail

Threads == {Main} \cup Admins

\* "install": copying a library to the code cache; "library": loading it;
\* "class": finding the activator class; "start", "stop": the activator's
\* methods throw; "remove": deleting the bundle's file.
FaultKinds == {"install", "library", "class", "start", "stop", "remove"}

Manifest == [requires: [Bundles -> Seq(Bundles)],
             extends: [Bundles -> Bundles \cup {NoBundle}]]

ASSUME BundleAssumption ==
    /\ IsFiniteSet(Bundles) /\ NoBundle \notin Bundles
    /\ Manifests \subseteq Manifest
    /\ Installed \subseteq Bundles
    /\ RunLevel \in [Bundles -> Nat]
    /\ Main \notin Admins
    /\ Exclusive \in BOOLEAN
    /\ Faults \subseteq FaultKinds

VARIABLES
    manifest,      \* the chosen manifests, never changed
    state,         \* Bundle::_state
    loaded,        \* the bundles in BundleLoader::_bundles
    resolvedDeps,  \* Bundle::_resolvedDependencies
    resolving,     \* BundleLoader::_resolvingBundles
    extensions,    \* Bundle::_extensionBundles
    code,          \* BundleInfo::pClassLoader, and how far it got
    activator,     \* bundles whose _pActivator is not null
    libs,          \* bundles whose libraries are in the code cache
    running,       \* bundles whose activator's start() has completed and whose
                   \* stop() has not
    stack,         \* the calls each thread is in, the innermost last
    failing,       \* threads an exception is passing through
    phase,         \* what the main thread is doing
    todo,          \* bundles resolveAllBundles/startAllBundles has still to do
    order          \* bundles stopAllBundles has still to stop

bundleVars == <<loaded, resolvedDeps, resolving, extensions>>
codeVars == <<code, activator, libs>>
mainVars == <<phase, todo, order>>
vars == <<manifest, state, bundleVars, codeVars, running, stack, failing, mainVars>>

States == {"NONE", "INSTALLED", "RESOLVED", "STARTING", "ACTIVE", "STOPPING",
           "UNINSTALLED"}
ResolvedStates == {"RESOLVED", "STARTING", "ACTIVE", "STOPPING"}

\* none: pClassLoader is null; noLibrary: its library could not be loaded;
\* noClass: the library has no such class; loaded: the activator exists.
CodeStates == {"none", "noLibrary", "noClass", "loaded"}

Phases == {"resolving", "starting", "running", "sorting", "stopping", "halted",
           "aborted"}

Ops == {"resolve", "start", "stop", "uninstall"}
Pcs == {"check", "begin", "enter", "deps", "libraries", "extend", "invoke",
        "commit", "failed", "finish"}

Frame == [op: Ops, b: Bundles, pc: Pcs, i: Nat \ {0}, old: States]
\* Mutant of NewFrame: the loop over the dependencies begins before the first.
NewFrameFromZero(op, b) ==
    [op |-> op, b |-> b, pc |-> "check", i |-> 0, old |-> "NONE"]
NewFrame(op, b) == [op |-> op, b |-> b, pc |-> "check", i |-> 1, old |-> "NONE"]

isResolved(b) == state[b] \in ResolvedStates

-----------------------------------------------------------------------------
(* The call stacks *)

Idle(t) == stack[t] = <<>>
Top(t) == stack[t][Len(stack[t])]

\* The innermost frame of t is op at program point pc, and no exception is
\* passing through it.
At(t, op, pc) ==
    /\ ~Idle(t)
    /\ t \notin failing
    /\ Top(t).op = op
    /\ Top(t).pc = pc

WithTop(t, frame) == [stack EXCEPT ![t][Len(stack[t])] = frame]

Goto(t, pc) == stack' = WithTop(t, [Top(t) EXCEPT !.pc = pc])
Return(t) == stack' = [stack EXCEPT ![t] = SubSeq(@, 1, Len(@) - 1)]
Call(t, op, b) == stack' = [stack EXCEPT ![t] = Append(@, NewFrame(op, b))]

Throw(t) == failing' = failing \cup {t} /\ UNCHANGED stack

\* Program points inside the loader, where its mutex is held.
InLoader(frame) == frame.pc \in {"deps", "libraries", "extend", "invoke"}

HoldsLock(t) ==
    \/ \E k \in DOMAIN stack[t]: InLoader(stack[t][k])
    \/ t = Main /\ phase = "resolving"
\* Mutant of LockFree: a mutex that is not recursive.
LockFreeOnce(t) == \A u \in Threads: ~HoldsLock(u)
LockFree(t) == \A u \in Threads \ {t}: ~HoldsLock(u)

Init ==
    /\ manifest \in Manifests
    /\ state = [b \in Bundles |-> IF b \in Installed THEN "INSTALLED" ELSE "NONE"]
    /\ loaded = Installed
    /\ resolvedDeps = [b \in Bundles |-> <<>>]
    /\ resolving = {}
    /\ extensions = [b \in Bundles |-> {}]
    /\ code = [b \in Bundles |-> "none"]
    /\ activator = {}
    /\ libs = {}
    /\ running = {}
    /\ stack = [t \in Threads |-> <<>>]
    /\ failing = {}
    /\ phase = "resolving"
    /\ todo = Installed
    /\ order = <<>>

-----------------------------------------------------------------------------
(* The state check every operation begins with. *)

\* Mutant of MayBegin: start() asks isResolved(), true of started bundles too.
MayBeginIfResolved(op, b) ==
    CASE op = "resolve"   -> state[b] = "INSTALLED"
      [] op = "start"     -> isResolved(b)
      [] op = "stop"      -> state[b] = "ACTIVE"
      [] op = "uninstall" -> state[b] \in {"INSTALLED", "RESOLVED"} /\ b \notin Protected

MayBegin(op, b) ==
    CASE op = "resolve"   -> state[b] = "INSTALLED"
      [] op = "start"     -> state[b] = "RESOLVED"
      [] op = "stop"      -> state[b] = "ACTIVE"
      [] op = "uninstall" -> state[b] \in {"INSTALLED", "RESOLVED"} /\ b \notin Protected

CheckState(t) ==
    /\ \E op \in Ops: At(t, op, "check")
    /\ IF MayBegin(Top(t).op, Top(t).b)
         THEN Goto(t, "begin") /\ UNCHANGED failing
         ELSE Throw(t)
    /\ UNCHANGED <<manifest, state, bundleVars, codeVars, running, mainVars>>

-----------------------------------------------------------------------------
(* Bundle::resolve() and BundleLoader::resolveBundle() *)

\* _resolvedDependencies.clear(), before the loader is called.
ClearDependencies(t) ==
    /\ At(t, "resolve", "begin")
    /\ resolvedDeps' = [resolvedDeps EXCEPT ![Top(t).b] = <<>>]
    /\ Goto(t, "enter")
    /\ UNCHANGED <<manifest, state, loaded, resolving, extensions, codeVars, running,
                   failing, mainVars>>

\* poco_assert(!isResolving(pBundle)) throws outside the try block.
EnterResolve(t) ==
    /\ At(t, "resolve", "enter")
    /\ LockFree(t)
    /\ IF Top(t).b \in resolving
         THEN Throw(t) /\ UNCHANGED resolving
         ELSE /\ resolving' = resolving \cup {Top(t).b}
              /\ Goto(t, "deps")
              /\ UNCHANGED failing
    /\ UNCHANGED <<manifest, state, loaded, resolvedDeps, extensions, codeVars, running,
                   mainVars>>

Required(t) == manifest.requires[Top(t).b]
MoreRequired(t) == Top(t).i <= Len(Required(t))

\* Mutant of Usable: a bundle that is being resolved is taken for resolved.
UsableSoon(d) == d \in loaded /\ (isResolved(d) \/ d \in resolving)
Usable(d) == d \in loaded /\ isResolved(d)

\* resolveDependency(): a bundle in the map that is not resolved yet and not
\* being resolved is resolved first; one being resolved is a circular reference.
ResolveDependency(t) ==
    /\ At(t, "resolve", "deps")
    /\ MoreRequired(t)
    /\ LET f == Top(t)
           d == Required(t)[f.i]
       IN
         \/ /\ Usable(d)
            /\ resolvedDeps' = [resolvedDeps EXCEPT ![f.b] =
                                  IF \E k \in DOMAIN @: @[k] = d THEN @ ELSE Append(@, d)]
            /\ stack' = WithTop(t, [f EXCEPT !.i = @ + 1])
            /\ UNCHANGED failing
         \/ /\ d \in loaded /\ ~isResolved(d) /\ d \notin resolving
            /\ Call(t, "resolve", d)
            /\ UNCHANGED <<resolvedDeps, failing>>
         \/ /\ d \notin loaded \/ (~isResolved(d) /\ d \in resolving)
            /\ Throw(t)
            /\ UNCHANGED resolvedDeps
    /\ UNCHANGED <<manifest, state, loaded, resolving, extensions, codeVars, running,
                   mainVars>>

EndDependencies(t) ==
    /\ At(t, "resolve", "deps")
    /\ ~MoreRequired(t)
    /\ resolving' = resolving \ {Top(t).b}
    /\ Goto(t, "libraries")
    /\ UNCHANGED <<manifest, state, loaded, resolvedDeps, extensions, codeVars, running,
                   failing, mainVars>>

\* installLibraries(): a failure here clears neither the dependencies nor
\* anything else.
InstallLibraries(t) ==
    /\ At(t, "resolve", "libraries")
    /\ \/ /\ libs' = libs \cup {Top(t).b}
          /\ Goto(t, "extend")
          /\ UNCHANGED failing
       \/ /\ "install" \in Faults
          /\ Throw(t)
          /\ UNCHANGED libs
    /\ UNCHANGED <<manifest, state, bundleVars, code, activator, running, mainVars>>

\* An extension bundle resolves the bundle it extends, when there is one, and
\* adds itself to it.  A sealed bundle refuses.
ExtendBundle(t) ==
    /\ At(t, "resolve", "extend")
    /\ LET b == Top(t).b
           x == manifest.extends[b]
       IN
         \/ /\ x \notin loaded
            /\ Goto(t, "commit")
            /\ UNCHANGED <<extensions, failing>>
         \/ /\ x \in loaded /\ ~isResolved(x)
            /\ Call(t, "resolve", x)
            /\ UNCHANGED <<extensions, failing>>
         \/ /\ x \in loaded /\ isResolved(x) /\ x \notin Sealed
            /\ extensions' = [extensions EXCEPT ![x] = @ \cup {b}]
            /\ Goto(t, "commit")
            /\ UNCHANGED failing
         \/ /\ x \in loaded /\ isResolved(x) /\ x \in Sealed
            /\ Throw(t)
            /\ UNCHANGED extensions
    /\ UNCHANGED <<manifest, state, loaded, resolvedDeps, resolving, codeVars, running,
                   mainVars>>

CommitResolve(t) ==
    /\ At(t, "resolve", "commit")
    /\ state' = [state EXCEPT ![Top(t).b] = "RESOLVED"]
    /\ Return(t)
    /\ UNCHANGED <<manifest, bundleVars, codeVars, running, failing, mainVars>>

-----------------------------------------------------------------------------
(* Bundle::start() and BundleLoader::startBundle() *)

\* StateChange saves the state it finds, whatever CheckState saw.
SetState(t, op, new) ==
    /\ At(t, op, "begin")
    /\ state' = [state EXCEPT ![Top(t).b] = new]
    /\ stack' = WithTop(t, [Top(t) EXCEPT !.pc = "enter", !.old = state[Top(t).b]])
    /\ UNCHANGED <<manifest, bundleVars, codeVars, running, failing, mainVars>>

SetStarting(t) == SetState(t, "start", "STARTING")

\* Mutant of EnterStart: the loader is entered without its mutex.
EnterStartUnlocked(t) ==
    /\ At(t, "start", "enter")
    /\ IF Top(t).b \in loaded
         THEN Goto(t, "deps") /\ UNCHANGED failing
         ELSE Throw(t)
    /\ UNCHANGED <<manifest, state, bundleVars, codeVars, running, mainVars>>

EnterStart(t) ==
    /\ At(t, "start", "enter")
    /\ LockFree(t)
    /\ IF Top(t).b \in loaded
         THEN Goto(t, "deps") /\ UNCHANGED failing
         ELSE Throw(t)
    /\ UNCHANGED <<manifest, state, bundleVars, codeVars, running, mainVars>>

MoreDependencies(t) == Top(t).i <= Len(resolvedDeps[Top(t).b])

\* Mutant of NeedsStart: lazy bundles are not started for their dependents.
NeedsEagerStart(d) == state[d] # "ACTIVE" /\ d \notin Lazy
NeedsStart(d) == state[d] # "ACTIVE"

\* startDependencies(): a dependency that is not active is started.
StartDependency(t) ==
    /\ At(t, "start", "deps")
    /\ MoreDependencies(t)
    /\ LET f == Top(t)
           d == resolvedDeps[f.b][f.i]
           next == WithTop(t, [f EXCEPT !.i = @ + 1])
       IN
         \/ /\ d \in loaded /\ ~NeedsStart(d)
            /\ stack' = next
            /\ UNCHANGED failing
         \/ /\ d \in loaded /\ NeedsStart(d)
            /\ stack' = [next EXCEPT ![t] = Append(@, NewFrame("start", d))]
            /\ UNCHANGED failing
         \/ /\ d \notin loaded
            /\ Throw(t)
    /\ UNCHANGED <<manifest, state, bundleVars, codeVars, running, mainVars>>

\* loadActivator(): the class loader is stored before anything is loaded; with
\* a class loader in place, the activator is whatever the bundle has.
LoadActivator(t) ==
    /\ At(t, "start", "deps")
    /\ ~MoreDependencies(t)
    /\ LET b == Top(t).b IN
         \/ /\ b \notin WithActivator
            /\ Goto(t, "commit")
            /\ UNCHANGED <<code, activator, failing>>
         \/ /\ b \in WithActivator /\ code[b] = "none" /\ b \in libs
            /\ code' = [code EXCEPT ![b] = "loaded"]
            /\ activator' = activator \cup {b}
            /\ Goto(t, "invoke")
            /\ UNCHANGED failing
         \/ /\ b \in WithActivator /\ code[b] = "none"
            /\ "library" \in Faults \/ b \notin libs
            /\ code' = [code EXCEPT ![b] = "noLibrary"]
            /\ Throw(t)
            /\ UNCHANGED activator
         \/ /\ b \in WithActivator /\ code[b] = "none" /\ b \in libs
            /\ "class" \in Faults
            /\ code' = [code EXCEPT ![b] = "noClass"]
            /\ Throw(t)
            /\ UNCHANGED activator
         \/ /\ b \in WithActivator /\ code[b] # "none"
            /\ Goto(t, IF b \in activator THEN "invoke" ELSE "commit")
            /\ UNCHANGED <<code, activator, failing>>
    /\ UNCHANGED <<manifest, state, bundleVars, libs, running, mainVars>>

\* BundleActivator::start().  An activator whose library is not loaded any
\* more (code[b] # "loaded") is a dangling pointer: the call does anything
\* short of starting the bundle.
InvokeStart(t) ==
    /\ At(t, "start", "invoke")
    /\ LET b == Top(t).b IN
         \/ /\ code[b] = "loaded"
            /\ running' = running \cup {b}
            /\ Goto(t, "commit")
            /\ UNCHANGED failing
         \/ /\ code[b] # "loaded"
            /\ Goto(t, "commit")
            /\ UNCHANGED <<running, failing>>
         \/ /\ "start" \in Faults \/ code[b] # "loaded"
            /\ Throw(t)
            /\ UNCHANGED running
    /\ UNCHANGED <<manifest, state, bundleVars, codeVars, mainVars>>

\* Mutant of CommitState: _oldState keeps the state found at first.
CommitStateOnly(t, op, new) ==
    /\ At(t, op, "commit")
    /\ state' = [state EXCEPT ![Top(t).b] = new]
    /\ Goto(t, "finish")
    /\ UNCHANGED <<manifest, bundleVars, codeVars, running, failing, mainVars>>

\* stateChange.commit(); the bundleStarted / bundleStopped event follows.
CommitState(t, op, new) ==
    /\ At(t, op, "commit")
    /\ state' = [state EXCEPT ![Top(t).b] = new]
    /\ stack' = WithTop(t, [Top(t) EXCEPT !.pc = "finish", !.old = new])
    /\ UNCHANGED <<manifest, bundleVars, codeVars, running, failing, mainVars>>

CommitStart(t) == CommitState(t, "start", "ACTIVE")

\* After the event, the destructor of StateChange writes the state once more.
FinishState(t) ==
    /\ \E op \in {"start", "stop"}: At(t, op, "finish")
    /\ state' = [state EXCEPT ![Top(t).b] = Top(t).old]
    /\ Return(t)
    /\ UNCHANGED <<manifest, bundleVars, codeVars, running, failing, mainVars>>

-----------------------------------------------------------------------------
(* Bundle::stop() and BundleLoader::stopBundle() *)

SetStopping(t) == SetState(t, "stop", "STOPPING")

\* stopBundle() calls nothing but the activator: one step under the mutex.
StopActivator(t) ==
    /\ At(t, "stop", "enter")
    /\ LockFree(t)
    /\ LET b == Top(t).b IN
         \/ /\ b \in loaded
            /\ running' = running \ {b}
            /\ Goto(t, "commit")
            /\ UNCHANGED failing
         \/ /\ \/ b \notin loaded
               \/ b \in activator /\ ("stop" \in Faults \/ code[b] # "loaded")
            /\ Throw(t)
            /\ UNCHANGED running
    /\ UNCHANGED <<manifest, state, bundleVars, codeVars, mainVars>>

CommitStop(t) == CommitState(t, "stop", "RESOLVED")

-----------------------------------------------------------------------------
(* Bundle::uninstall() and BundleLoader::uninstallBundle() *)

\* What uninstallBundle() has done when nothing throws: no extension any more,
\* no activator code, no libraries in the code cache, no file, not in the maps.
\* unloadLibrary() throws for a library that was never loaded; removing the
\* file fails for a bundle somebody else has uninstalled.
UninstallBundle(t) ==
    /\ At(t, "uninstall", "begin")
    /\ LockFree(t)
    /\ LET b == Top(t).b
           unloadFails == b \in loaded /\ b \in WithActivator /\ code[b] = "noLibrary"
       IN
         /\ extensions' = [x \in Bundles |-> IF x = manifest.extends[b] /\ x \in loaded
                                                THEN extensions[x] \ {b}
                                                ELSE extensions[x]]
         /\ \/ /\ unloadFails
               /\ Throw(t)
               /\ UNCHANGED <<code, libs, loaded>>
            \/ /\ ~unloadFails
               /\ code' = [code EXCEPT ![b] = "none"]
               /\ libs' = libs \ {b}
               /\ \/ /\ b \in loaded
                     /\ loaded' = loaded \ {b}
                     /\ Goto(t, "commit")
                     /\ UNCHANGED failing
                  \/ /\ b \notin loaded \/ "remove" \in Faults
                     /\ Throw(t)
                     /\ UNCHANGED loaded
    /\ UNCHANGED <<manifest, state, resolvedDeps, resolving, activator, running,
                   mainVars>>

CommitUninstall(t) ==
    /\ At(t, "uninstall", "commit")
    /\ state' = [state EXCEPT ![Top(t).b] = "UNINSTALLED"]
    /\ Return(t)
    /\ UNCHANGED <<manifest, bundleVars, codeVars, running, failing, mainVars>>

-----------------------------------------------------------------------------
(* An exception passing through the innermost frame of t. *)

\* Where StateChange is in scope, its destructor restores the state.
\* Mutant of Restores: stop() has no StateChange.
RestoresStart(f) == f.op = "start" /\ f.pc # "check"
Restores(f) == f.op \in {"start", "stop"} /\ f.pc # "check"

\* resolveBundle()'s catch clause, which covers the dependencies only.
\* Mutant of Abandon: the bundle stays marked.
AbandonMarked(b) ==
    /\ resolvedDeps' = [resolvedDeps EXCEPT ![b] = <<>>]
    /\ UNCHANGED resolving
Abandon(b) ==
    /\ resolvedDeps' = [resolvedDeps EXCEPT ![b] = <<>>]
    /\ resolving' = resolving \ {b}

\* start() leaves the loader, fires bundleFailed ("failed") and only then
\* StateChange restores the state.  The first call's caller, if it is not stopAllBundles(), catches.
Unwind(t) ==
    /\ t \in failing
    /\ LET f == Top(t)
           outermost == Len(stack[t]) = 1
       IN
         IF f.op = "start" /\ f.pc \in {"enter", "deps", "invoke"}
           THEN /\ Goto(t, "failed")
                /\ UNCHANGED <<state, resolvedDeps, resolving, failing, phase>>
           ELSE /\ Return(t)
                /\ state' = IF Restores(f) THEN [state EXCEPT ![f.b] = f.old] ELSE state
                /\ IF f.op = "resolve" /\ f.pc = "deps"
                     THEN Abandon(f.b)
                     ELSE UNCHANGED <<resolving, resolvedDeps>>
                /\ failing' = IF outermost THEN failing \ {t} ELSE failing
                /\ phase' = IF outermost /\ t = Main /\ phase = "stopping"
                              THEN "aborted" ELSE phase
    /\ UNCHANGED <<manifest, loaded, extensions, codeVars, running, todo, order>>

-----------------------------------------------------------------------------
(* The main thread: OSPSubsystem::startBundles() and uninitialize() *)

MainIdle == Idle(Main) /\ Main \notin failing

\* resolveAllBundles(), which holds the mutex throughout.
ResolveNext(b) ==
    /\ phase = "resolving" /\ MainIdle
    /\ b \in todo
    /\ todo' = todo \ {b}
    /\ IF isResolved(b) THEN UNCHANGED stack ELSE Call(Main, "resolve", b)
    /\ UNCHANGED <<manifest, state, bundleVars, codeVars, running, failing, phase, order>>

EndResolveAll ==
    /\ phase = "resolving" /\ MainIdle
    /\ todo = {}
    /\ phase' = "starting"
    /\ todo' = loaded
    /\ UNCHANGED <<manifest, state, bundleVars, codeVars, running, stack, failing, order>>

\* startAllBundles(), in the order of the run levels.
StartNext(b) ==
    /\ phase = "starting" /\ MainIdle
    /\ b \in todo
    /\ \A c \in todo: RunLevel[b] <= RunLevel[c]
    /\ todo' = todo \ {b}
    /\ IF state[b] = "RESOLVED" /\ b \notin Lazy
         THEN Call(Main, "start", b) ELSE UNCHANGED stack
    /\ UNCHANGED <<manifest, state, bundleVars, codeVars, running, failing, phase, order>>

EndStartAll ==
    /\ phase = "starting" /\ MainIdle
    /\ todo = {}
    /\ phase' = "running"
    /\ UNCHANGED <<manifest, state, bundleVars, codeVars, running, stack, failing, todo,
                   order>>

BeginShutdown ==
    /\ phase = "running"
    /\ Exclusive => \A t \in Threads: Idle(t)
    /\ phase' = "sorting"
    /\ UNCHANGED <<manifest, state, bundleVars, codeVars, running, stack, failing, todo,
                   order>>

\* sortBundles() repeats until every bundle is in the list.  It appends the
\* first bundle, lowest run level first, that is not resolved or whose resolved
\* dependencies are all in the list.
Sortable(b, sorted) ==
    isResolved(b) => \A k \in DOMAIN resolvedDeps[b]: resolvedDeps[b][k] \in sorted

SortedBundles ==
    {s \in [1..Cardinality(loaded) -> loaded]:
        \A k \in DOMAIN s:
            LET sorted == {s[j]: j \in 1..(k - 1)} IN
              /\ s[k] \notin sorted
              /\ Sortable(s[k], sorted)
              /\ \A c \in loaded \ sorted: Sortable(c, sorted) => RunLevel[s[k]] <= RunLevel[c]}

\* std::reverse(): what was sorted last is stopped first.
\* Mutant of StopOrder: the list is not reversed.
StartOrder(s) == s
StopOrder(s) == [k \in DOMAIN s |-> s[Len(s) + 1 - k]]

SortBundles ==
    /\ phase = "sorting" /\ MainIdle
    /\ \E s \in SortedBundles: order' = StopOrder(s)
    /\ phase' = "stopping"
    /\ UNCHANGED <<manifest, state, bundleVars, codeVars, running, stack, failing, todo>>

\* stopAllBundles() catches nothing.
StopNext ==
    /\ phase = "stopping" /\ MainIdle
    /\ order # <<>>
    /\ order' = Tail(order)
    /\ IF state[Head(order)] = "ACTIVE"
         THEN Call(Main, "stop", Head(order)) ELSE UNCHANGED stack
    /\ UNCHANGED <<manifest, state, bundleVars, codeVars, running, failing, phase, todo>>

EndStopAll ==
    /\ phase = "stopping" /\ MainIdle
    /\ order = <<>>
    /\ phase' = "halted"
    /\ UNCHANGED <<manifest, state, bundleVars, codeVars, running, stack, failing, todo,
                   order>>

MainStep ==
    \/ \E b \in Bundles: ResolveNext(b) \/ StartNext(b)
    \/ EndResolveAll \/ EndStartAll \/ SortBundles \/ StopNext \/ EndStopAll

-----------------------------------------------------------------------------
(* Administrators.  The bundle that serves their requests is started during *)
(* start-up and stopped during shutdown.                                    *)

MayRequest(t) ==
    /\ Idle(t)
    /\ IF Exclusive
         THEN phase = "running" /\ \A u \in Threads: Idle(u)
         ELSE phase \in {"starting", "running", "sorting", "stopping"}

Request(t, op, b) ==
    /\ MayRequest(t)
    /\ state[b] # "NONE"
    /\ Call(t, op, b)
    /\ UNCHANGED <<manifest, state, bundleVars, codeVars, running, failing, mainVars>>

\* BundleLoader::loadBundle() of a bundle that arrives while the system runs.
LoadBundle(t, b) ==
    /\ MayRequest(t)
    /\ LockFree(t)
    /\ state[b] = "NONE"
    /\ state' = [state EXCEPT ![b] = "INSTALLED"]
    /\ loaded' = loaded \cup {b}
    /\ UNCHANGED <<manifest, resolvedDeps, resolving, extensions, codeVars, running,
                   stack, failing, mainVars>>

-----------------------------------------------------------------------------

ResolveStep(t) ==
    \/ ClearDependencies(t) \/ EnterResolve(t) \/ ResolveDependency(t)
    \/ EndDependencies(t) \/ InstallLibraries(t) \/ ExtendBundle(t) \/ CommitResolve(t)
StartStep(t) ==
    \/ SetStarting(t) \/ EnterStart(t) \/ StartDependency(t) \/ LoadActivator(t)
    \/ InvokeStart(t) \/ CommitStart(t)
StopStep(t) == SetStopping(t) \/ StopActivator(t) \/ CommitStop(t)
UninstallStep(t) == UninstallBundle(t) \/ CommitUninstall(t)

\* A thread going on with the calls it is in.
Continue(t) ==
    \/ CheckState(t) \/ ResolveStep(t) \/ StartStep(t) \/ StopStep(t)
    \/ FinishState(t) \/ UninstallStep(t) \/ Unwind(t)

AdminStep(t) ==
    \E b \in Bundles: LoadBundle(t, b) \/ \E op \in Ops: Request(t, op, b)

Next ==
    \/ \E t \in Threads: Continue(t)
    \/ MainStep
    \/ BeginShutdown
    \/ \E t \in Admins: AdminStep(t)

Spec == Init /\ [][Next]_vars

\* Started threads go on with what they are in; the mutex is granted eventually.
Fairness ==
    /\ WF_vars(MainStep)
    /\ \A t \in Threads: SF_vars(Continue(t))
FairSpec == Spec /\ Fairness

-----------------------------------------------------------------------------
(* Properties *)

TypeOK ==
    /\ manifest \in Manifests
    /\ state \in [Bundles -> States]
    /\ loaded \subseteq Bundles
    /\ resolvedDeps \in [Bundles -> Seq(Bundles)]
    /\ resolving \subseteq Bundles
    /\ extensions \in [Bundles -> SUBSET Bundles]
    /\ code \in [Bundles -> CodeStates]
    /\ activator \subseteq Bundles
    /\ libs \subseteq Bundles
    /\ running \subseteq Bundles
    /\ stack \in [Threads -> Seq(Frame)]
    /\ failing \subseteq Threads
    /\ phase \in Phases
    /\ todo \subseteq Bundles
    /\ order \in Seq(Bundles)

AllIdle == \A t \in Threads: Idle(t)

Deps(x) == {resolvedDeps[x][k]: k \in DOMAIN resolvedDeps[x]}

\* The bundles resolveBundle() marks are those some thread is resolving the
\* dependencies of right now: no exception and no interleaving leaves a mark
\* behind, which would make the bundle look like a circular reference for good.
ResolvingIsOnStack ==
    \A x \in resolving: \E t \in Threads: \E k \in DOMAIN stack[t]:
        stack[t][k].op = "resolve" /\ stack[t][k].b = x /\ stack[t][k].pc = "deps"

\* Activators, and all else the loader does, run in one thread at a time.
OneThreadInLoader ==
    \A t, u \in Threads: HoldsLock(t) /\ HoldsLock(u) => t = u

\* Every call into the loader returns or throws: no thread waits for ever for
\* the loader's mutex, and the recursion through dependencies ends.
CallsComplete == \A t \in Threads: ~Idle(t) ~> Idle(t)

\* With management calls one at a time, and whatever fails in them, bundles
\* follow the documented state chart.
Chart == INSTANCE BundleStateChart
ChartSpec == Chart!Spec

\* "Once all required bundles have entered active state, the bundle's
\* activator is invoked": startDependencies() through any dependency graph.
StartsAfterDependencies ==
    [][\A x \in running' \ running: \A d \in Deps(x): state[d] = "ACTIVE"]_vars

\* stopAllBundles() stops no activator while that of a dependent runs, also
\* when bundles were stopped, started or installed in any order before.
StopsBeforeDependencies ==
    [][phase = "stopping" =>
          \A x \in running \ running': \A y \in running': x \notin Deps(y)]_vars

\* A shutdown that gets to its end leaves no activator running.
CleanShutdown == phase = "halted" => running = {}

\* Between calls, a running activator belongs to an active bundle the loader
\* still knows, so that it will be stopped, and its code is in memory.
RunningIsManaged ==
    AllIdle => \A x \in running: state[x] = "ACTIVE" /\ x \in loaded /\ code[x] = "loaded"

\* resolveDependency() refuses circular references, so sortBundles() can find
\* an order as long as no dependency has been uninstalled.
SortTerminates ==
    (AllIdle /\ \A x \in loaded: isResolved(x) => Deps(x) \subseteq loaded)
        => SortedBundles # {}

\* 00200-OSPBundles.page, "Bundle Lifecycle": a bundle enters the active state
\* once its activator has been invoked and has completed.
ActiveIsActivated ==
    AllIdle => \A x \in WithActivator: state[x] = "ACTIVE" => x \in running

\* 00200-OSPBundles.page: "At shutdown, OSP ensures that all bundles are
\* shutdown in the correct order".
ShutdownCompletes == phase = "sorting" ~> phase \in {"halted", "aborted"}

\* The same page: a shutdown in which one activator fails to stop stops the
\* others.  Not so: stopAllBundles() goes no further.
OthersAreStopped == phase \in {"halted", "aborted"} => \A x, y \in running: x = y

\* The activator of a bundle the loader knows is in memory.  Not so when
\* uninstallBundle() has unloaded its code and cannot remove the file.
NoDanglingActivator == AllIdle => \A b \in activator \cap loaded: code[b] = "loaded"
=============================================================================
