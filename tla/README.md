# TLA+ models of macchina.io

macchina.io is an application framework for IoT devices: a C++ server built on
the POCO libraries, whose functions come as *bundles* that are loaded, resolved,
started and stopped at run time by the Open Service Platform (OSP, under
`src/platform/OSP`).  Bundles find each other through a registry of services,
talk to other machines through RemotingNG and the web tunnel, and to browsers
through the OSP web server.  This directory models the parts where several
threads, failures and orders of events meet, checks them with TLC, and proves
the most important results with TLAPS.

## Inventory

| Part | State | Operations | Interacts with |
|---|---|---|---|
| Service registry (`ServiceRegistry.cpp`) | `_services`, a name -> ServiceRef map under a FastMutex | registerService, unregisterService, find | fires `serviceRegistered` / `serviceUnregistered` after the mutex is released |
| Service listener (`ServiceListener.cpp`) | `_refs` under its own mutex; its two delegates in the registry's events | init, two event handlers, destructor | the registry's events; calls its client |
| POCO events (`AbstractEvent.h`, `Delegate.h`) | the list of delegates; a mutex per event and per delegate | add, remove, notify on a snapshot, disable | all of OSP |
| Bundle (`Bundle.cpp`) | `_state`, `_resolvedDependencies`, `_extensionBundles`, `_pActivator` | resolve, start, stop, uninstall; the state is written outside any mutex | the loader; bundle events |
| Bundle loader (`BundleLoader.cpp`) | `_bundles`, `_resolvingBundles`, class loaders, the code cache; a recursive mutex | loadBundle, resolveBundle, startBundle, stopBundle, uninstallBundle, resolve / start / stop all, sortBundles | calls back into Bundle for dependencies; calls activators |
| OSP subsystem (`OSPSubsystem.cpp`) | - | initialize, startBundles, uninitialize | drives the loader from the main thread |
| Bundle administration (`BundleInfoHandler.cpp`, web UI) | - | start, stop, resolve, uninstall, install on a user's request | the bundles, from threads of the web server |
| Extension point service (`ExtensionPointService.cpp`) | `_xpMap`, `_bundleMap` | register / unregister extension points, handle the extensions of started and stopped bundles | bundle events |
| Bundle repository, installer (`BundleRepository.cpp`, `BundleInstallerServiceImpl.cpp`) | the files of the bundles; the counter of `tempBundleName()`; no mutex of its own | loadBundles at start-up, installBundle, replaceBundle, removeBundle | the loader, the file system, threads of the web server |
| RemotingNG TCP connection (`Connection.cpp`) | `_state`, written under its mutex by users and without it by run(); the socket | handshake, send / receive frames, close, abort, BYE handshake | the peer's connection over a socket; one thread per connection |
| RemotingNG connection manager (`ConnectionManager.cpp`) | `_connections` and `_pendingConnections` by address, under a mutex that is released while a connection is created | getConnection, findConnection, register / unregisterConnection, shutdown | connections; transports, listeners and server connections call it |
| RemotingNG transport and channels (`Transport.cpp`, `FrameQueue.cpp`, `Listener.cpp`) | a channel number and an authentication per transport; bounded frame queues | requests, replies, event subscriptions | the connection's frame handlers |
| Socket dispatcher (`SocketDispatcher.cpp`) | `_socketMap` with `wantRead` per socket; a queue of tasks for its main thread and one of events for its workers | add / remove / close a socket and reset, each waiting for the main thread; poll, dispatch | the handlers of the web tunnel |
| Web tunnel, device's end (`RemotePortForwarder.cpp`) | `_channelMap` under `_mutex`, the web socket under `_webSocketMutex`, `_timeoutCount` | demultiplex (open, data, half-close, close, PING), multiplex, timeouts, closeWebSocket, stop | the dispatcher's workers, the peer, local sockets |
| Web tunnel, client's end (`LocalPortForwarder.cpp`) | the same for the connections it accepts | accept, forward | another program |
| WebTunnel agent (`protocols/WebTunnel/src/BundleActivator.cpp`, `WebTunnelServiceImpl`) | `_pForwarder` (twice, one of them in the service), a timer with reconnect tasks, the event `_stopped`; no mutex | connect, disconnect, reconnect, onClose, stop | the timer's thread, the OSP thread, workers of the tunnel |
| Web server (`OSP/Web`) | sessions, a table of paths | dispatch, create / find / expire sessions | HTTP server threads |
| Web events (`OSP/WebEvent`) | subscribers, subjects; a main queue and worker queues | subscribe, notify, send, receive | web sockets |
| JavaScript (`JS`, `OSP/JS`) | isolates, timers | execute, setTimeout, cancel | V8 (vendored) |
| MQTT and other protocols, devices, services, web UI | | drivers, encoders, pages | mostly vendored, generated or pure I/O |

### What is hard in it

* **Events outside the lock.** The registry changes its map under a mutex and
  fires the event afterwards; a notification runs on a snapshot of the
  delegates.  Listeners are created and destroyed meanwhile.
* **State outside the lock.** `Bundle::_state` is read and written without any
  mutex, before and after the loader's mutex is held, and `StateChange` writes
  it once more when it is destroyed.
* **Recursion with exceptions.** Resolving and starting recurse through the
  dependencies (also through circles, also through extension bundles), and any
  step may throw: every frame on the way has to undo the right things.
* **Failure of one step of several.** A library that cannot be copied or loaded,
  an activator that throws, a file that cannot be removed.
* **A protocol between two ends.** Each end of a connection closes on its own
  initiative, on the peer's, after an idle time or an error, while other threads
  send on it.
* **A mutex that is released half-way.** The connection manager creates a
  connection without its mutex and comes back to a map that others have changed.
* **Files and a crash.** Installing a bundle is an upload, a load, a removal, a
  rename and another load; the process may end between any two, and a restart
  finds what is there.
* **A reactor's threads.** Handlers run on workers while the main thread polls;
  they hold the tunnel's mutexes while they wait for the main thread to change
  its map; a socket that is both readable and in error has two handlers at once.
* **Three threads and a pointer.** The WebTunnel agent connects, loses, closes and
  reconnects from a timer, from workers and from `stop()`, without a mutex.
* **Shutdown.** It must find an order that respects dependencies, after any
  sequence of stops, starts, uninstalls and installs, and it must end.

What makes each part correct is stated with the hazards of `PROJECT.json`, each
at its line, with the properties that cover it.

## Modules

| Module | Models | Runs |
|---|---|---|
| `ServiceRegistry` | registry, listeners, snapshot events, delegates | `registry` |
| `BundleStateChart` | the documented state chart of a bundle and when its activator may run (abstract) | refined in `bundles_sequential` |
| `BundleLifecycle` | Bundle, BundleLoader, start-up, shutdown, administrators | `bundles_*` |
| `ConnectionLife` | what others may rely on about a connection (abstract) | refined in `tcp_connection` |
| `TcpConnection` | both ends of a connection, the wire, the users | `tcp_connection` |
| `ConnectionManager` | the manager over connections that behave as `ConnectionLife` | `connection_manager` |
| `BundleRepository` | bundle files, installation, crash and restart | `repository_*` |
| `SocketDispatcher` | the reactor: main thread, workers, the two queues | in `tunnel_forwarder`, `tunnel_liveness` |
| `RemotePortForwarder` | the device's end of a tunnel, on the `SocketDispatcher` it extends | `tunnel_forwarder`, `tunnel_liveness` |
| `TunnelAgent` | the bundle that keeps a tunnel up | `tunnel_agent`, `tunnel_unheard_loss` |
| `ServiceRegistryProofs`, `BundleLifecycleProofs`, `BundleRepositoryProofs`, `ConnectionManagerProofs`, `TcpConnectionProofs`, `RemotePortForwarderProofs`, `TunnelAgentProofs` | theorems about the module they are named after | proved by TLAPS |
| `BundleSequentialProofs` | theorems about `BundleLifecycle` when management calls come one at a time; extends `BundleLifecycleProofs` | proved by TLAPS |
| `MCServiceRegistry`, `MCBundleLifecycle`, `MCBundleRepository`, `MCRemotePortForwarder` | the constants of the runs | |

### ServiceRegistry

A thread is idle or inside one of `registerService`, `unregisterService`, a
listener's constructor or its destructor; `call[t].pc` says where.  The steps are
what the code does under one mutex at a time: the change of the map
(`Register`, `Unregister`), the copy of the delegates (`FireRegistered`), one
delegate's handler under the listener's mutex (`DeliverRegistered`), the client's
callback (`CallRegistered`).  `RegDelegateFree` is the delegate's own mutex:
`Delegate::notify()` holds it during the whole callback, so `disable()`, and with
it the listener's destructor, waits.  `init()` runs in the order of `InitOrder`:
both delegates first, then the search.

Abstractions: names, references and listeners are model values; a query is the
set of names it matches (`Interest`); delegates of one event are called in any
order; callbacks do not call the registry, and throw nothing.  (In the code an
exception of one aborts `AbstractEvent::notify()` for the delegates after it, as
`AbstractEvent.h:231-233` says, and leaves `registerService()` or
`unregisterService()` with the map already changed: listeners later in the snapshot
then miss the service.  What is checked and proved is for callbacks that return.)

### BundleLifecycle

A thread is a stack of frames `[op, b, pc, i, old]`: `Bundle::start()` of a
bundle that calls `start()` of a dependency is two frames.  The loader's
recursive mutex is not a variable: a thread holds it iff one of its frames is at
a program point inside a loader call (`HoldsLock`).  `resolveAllBundles` holds it
from its first line to its last (`phase = "resolving"`).  `Bundle`'s own writes of
`_state` are single steps outside the mutex: `SetStarting` (StateChange's
constructor, which saves the state it finds, not the one that was checked),
`CommitStart`, and `FinishState` (its destructor).  An exception is the flag
`failing[t]`, and `Unwind` takes it frame by frame: through the `catch` of
`resolveBundle`, through `StateChange`, to the caller that catches, or, during
`stopAllBundles`, which catches nothing, to the end of the shutdown (`aborted`).

`code[b]` is the class loader of a bundle and how far it got: `loadActivator`
stores it before it loads anything, so a failed load leaves `noLibrary`.  The
activator pointer (`activator`) survives the unloading of its code, and a call
through a dangling pointer does anything short of starting or stopping the
bundle properly.

Abstractions: a module that is required counts as a requirement of the one
bundle that provides it; a version that does not match counts as a bundle that is
never installed; the activator's `stop()` is one step, as it runs under the
mutex and calls nothing of the loader; uninstalling is one step under the mutex.
A bundle object has one symbolic name and one life: a bundle installed again
under the same name would be another object, which the model does not have.

### TcpConnection and ConnectionLife

The two ends run the same code; `pc[e]` is where the thread of `run()` is in
`runImpl()`, `state[e]` is `_state`.  Users send in two steps (`BeginSend` takes
the mutex and checks the state, `EndSend` sends and releases it), because that
window is what the BYE must not fall into; whatever takes the mutex waits for
`MutexFree`.  `close()` and `abort()` are single steps under the mutex.  `run()`
writes the state without it (`ReceiveNothing`, `ReceiveError`), and with it for
the peer's BYE (`ProcessFrame`).  The socket is external: `wire[e]` is what `e`
has sent and its peer has not received; a socket that is closed loses what it has
not read and resets its peer, as does sending to a closed one; what was received
before a reset may be read or not.  When `run()` fails (in the
handshake, because the BYE cannot be sent, or in one of the polls after it, which no
`try` surrounds: `PollFails`) the socket is closed by `Destroy`, when the last
reference to the object goes.  `PollFails` is not a step of `Run`: no fairness forces
a fault.

`ConnectionLife` is the life of a connection seen from outside: new, opening,
established, leaving, over, and only forwards.  `TcpConnection` implements it
(`LifeSpec`), and `ConnectionManager` is built on it.

Abstractions: a frame is its type (`helo`, `data`, `bye`); a frame is sent and
received whole or not at all; whether an end has an idle timeout, whether the
peer may be late and whether a socket operation may fail are constants.

### ConnectionManager

One step is what the code does without releasing the manager's mutex.
`getConnection()` is a program point per thread: `Lookup` (which also waits while
the address is pending), `Create`, `WaitReady` or `WaitTimesOut`, `Insert`, or
`GiveUp` for its `catch`.  A server's connection is registered by
`RegisterConnection` before it runs and unregistered when it is over.  Servers'
connections and the manager's own may have the same address: a subscriber's
address is its end of a connection that the server accepted.  The connections
move by the actions of `ConnectionLife`, whenever they like.  `abandoned` and
`shut` are history: the connections whose creation timed out, and those a shutdown
found in the map.

### BundleRepository

An administrator's request is a record with a program point, and the steps are
the calls that touch a file or take the loader's mutex: the upload to the
temporary file, the first `createBundle()`, the checks of `installBundle()` and
`replaceBundle()`, `removeBundle()` (which stops a running bundle and uninstalls
it), the rename, and the second `createBundle()` with `loadBundle()`.  `files` is
the directory, `bundles` the Bundle objects of this process, `loaded` the loader's
map.  `Crash` empties everything but the files and starts `loadBundles()` again:
it looks at the files in any order, keeps the latest version of each name, and
loads what it kept.  `tempBundleName()` counts from 0 in every process.

Abstractions: a file is the name and the version in its manifest, and where it
was cut if it is not whole; a bundle changes its state at any time by the chart
that `BundleLifecycle` refines.  `inherited`, `orphans`, `given` and
`dropped` are history: the temporary files a start found, the bundles it took from
them, the names no file needs to exist for, and the bundles that went with a
replacement of their own that failed after it had removed them.

### SocketDispatcher and RemotePortForwarder

A thread of the dispatcher is the sequence of steps it has still to take,
`todo[t]`: a handler is pushed step by step, calls of the forwarder's methods
included, and a step that locks a mutex waits until it is free.  `Ask` is
`addSocket()`, `removeSocket()`, `closeSocket()` and `reset()`: a task is queued
for the main thread, and the thread waits until it is done, with whatever mutexes
it holds.  `MainPoll` clears `wantRead` and queues one event for each thing the
poll reports of a socket, `Take` gives an event to an idle worker, `Return` sets
`wantRead` again.  `SocketDispatcher` leaves the handlers to the module that
extends it, which keeps the reactor's rules in one place.

`RemotePortForwarder` models `demultiplex()` with every operation code,
`openChannel()`, `multiplex()` with its end of file and its errors, the handlers of
timeouts and exceptions, `closeWebSocket()` and `stop()`.  `channelOf[s]` is the
channel a local socket's handler was created for, which is not always the one in
the map: a channel number may be used again.  The peer is external: `peerView` is
what it believes of a channel, it opens a channel only when it does not use it,
sends anything on it, and may fall silent or go down.  It may also end the tunnel at
any time (`ReceiveFails`), by a CLOSE, by a frame that cannot be received, or by any
empty frame but a PONG.  A local socket that was shut down may still have data in its
buffer, which a worker goes on reading (`Again`, `MultiplexData`).

Abstractions: payloads are left out; a frame is sent and received in one step; a
wait for the main thread ends when the task is done (the code gives up after 30 s).
`closeWebSocket()` clears the map without `_mutex`, so that a thread in
`removeChannel()` or `openChannel()` may erase through a dangling iterator; of what
that may do the model takes that it erases nothing.

### TunnelAgent

The timer's thread, the OSP thread and, for each tunnel, the worker that finds it
closed have a program point each, one per statement of `connect()`,
`disconnect()`, `reconnect()`, `onClose()` and `stop()` that reads or writes
something shared.  A tunnel is reduced to its web socket: "open" until it is lost
or closed, then `webSocketClosed` fires once for whoever listens, which is what
`ReportedOnce` and `LossIsReported` say of `RemotePortForwarder`.  `onClose()` also
runs on the thread that closes a tunnel itself (`UpdateClosed`), and returns to
where that thread was (`resume`).  `connect()` may fail in its `try`, and schedules
another attempt, or before it, and then `reconnect()` catches the exception and no
other attempt follows (`ConnectFails`).  `_stopped` is an event that resets itself, so a
`tryWait()` consumes it.

Abstractions: the retry delay; two threads that write the pointers at the very
same moment.

## Runs

| Run | Question | Bounds |
|---|---|---|
| `registry` | Is any service missed, forgotten for ever, or reported to a dead listener? | 3 threads, 2 names, 2 references, 1 listener |
| `bundles_sequential` | With one management call at a time and any step failing, is the state chart obeyed, are orders right, does a shutdown that ends leave nothing running? | 3 bundles, 7 dependency graphs, 1 administrator, all faults |
| `bundles_concurrent` | Do concurrent calls exclude each other and return? | 2 bundles, main thread and one administrator |
| `bundles_stop_race` | Is an active bundle one whose activator was started, when a stop meets a start? (no) | 1 bundle, two threads, no faults |
| `tcp_connection` | Is a BYE the last frame, has the passive side got everything, do the ends agree on who closes, does each implement `ConnectionLife`, is a hang-up noticed? | 2 data frames per end, both ends with idle timeouts, timeouts and faults |
| `connection_manager` | One creator and one live connection per endpoint, none lost, nobody waiting for ever? | 3 threads, 1 address, 2 connections of its own, 1 of a server |
| `repository_crash` | Is a bundle lost that nobody asked to remove, other than by a failure of its own replacement, and is the latest version loaded, if any step may fail and the process crash between any two? | 2 names, 2 versions, 1 administrator, 1 installation between starts, 2 crashes; uploads, stops, removals, renames and loads fail |
| `repository_concurrent` | Do uploads of two administrators mix, and do the loader and the directory agree? | 2 names, 2 versions, 2 administrators on different bundles, 2 installations; uploads, renames, loads and removals fail |
| `tunnel_forwarder` | Is a socket read by one thread, does every socket have its channel, does the peer hear of every end, is a loss reported once? | 1 channel used again and again, 2 local sockets, 2 workers, 1 user, peer may go down |
| `tunnel_liveness` | Is every loss noticed and every open answered? | 1 channel, 1 local socket, 2 workers, peer may go down or silent |
| `tunnel_agent` | Is there ever a second tunnel, is a loss made good, does `stop()` return? | 4 tunnels |
| `tunnel_unheard_loss` | Is every closing of a tunnel reported? (no) | 2 tunnels |

Why the bounds are enough: an interleaving hazard of the registry involves one
service, one listener and a thread at each of register, unregister and
create / destroy; the second reference lets a name be registered again while the
events of the first are under way, the second name is one the listener does not
match.  The dependency graphs are those the loader treats differently: a chain,
two dependents (one naming its requirement twice), a circle, an extension of an
unrelated bundle, of a bundle that others require, of the bundle it is required
by, and of the bundle it requires.  Run levels contradict the dependencies (the
last of the chain has the lowest), so that dependencies have to win.  A
connection has a sender and a frame on its way at each end with one data frame;
the second lets one follow another.  The manager keeps addresses apart, so one is
enough; of three threads one can create while one waits and one asks, and the
second connection replaces a first one that failed, left or was abandoned.  In
the repository, two versions are an upgrade or a downgrade, two names a bundle and
the one it replaces; one crash leaves a temporary file, the second meets a process
that started from it.  In the tunnel one channel is what an old and a new user of
it compete for, and two local sockets are its old and its new connection; two
workers can handle the two events of one socket, or one the web socket and one a
local one.  Each tunnel of the agent is like the one before: three are one being
closed, one being made and one scheduled, the fourth follows them.  Workers,
local sockets and administrators' names are symmetric where the run has no
liveness property.

**Fairness.**  `ServiceRegistry` assumes that a thread inside a call goes on
(weak fairness of `Continue(t)`): the delegate mutex it may wait for is held by a
thread that goes on too; nobody is assumed to start a call.  `BundleLifecycle`
assumes weak fairness of the main thread's own loop and strong fairness of every
thread that is inside a call: the loader's mutex is released again and again, and
a waiting thread gets it eventually (a POCO mutex gives no order, but the
schedulers it runs on do not starve a waiter for ever).  Administrators never
have to make requests, and `BeginShutdown` is not forced.  `TcpConnection` assumes
strong fairness of each end's `run()`, which users keep from the mutex for one
frame at a time, and that a thread that sends goes on; nobody has to send, close,
abort or release a connection.  `ConnectionManager` assumes that the threads in
getConnection() go on (`waitReady()` has a timeout), and nothing about the
connections.  `RemotePortForwarder` assumes strong fairness of the steps of a
thread, which competes for the two mutexes with others, that idle workers take
events, that the main thread executes its tasks, and that its poll finds a web
socket that is broken or has been silent (`FindLoss`); no local socket has to
deliver anything, and the peer never has to send.  `TunnelAgent` assumes that the
timer's thread, the OSP thread and the workers go on, and that nobody connects,
loses or stops anything by necessity.

`CHECK_DEADLOCK FALSE`: in `ServiceRegistry` the references run out; in
`BundleLifecycle` the system halts; in `TcpConnection` both ends are done; in
`BundleRepository` the installations and crashes run out; in
`RemotePortForwarder` the tunnel is closed; in `TunnelAgent` the bundle is stopped
or the tunnels run out.

### What the runs found

Two disagreements between the code and what its documentation says are runs that
TLC ends with a counterexample (`findings` in `PROJECT.json`):

* `bundles_stop_race`: `ActiveIsActivated`.  A stop that falls between the commit
  of a start and the end of the start's scope is undone by `StateChange`.
* `tunnel_unheard_loss`: `CloseIsReported`.  A tunnel that is closed before the
  agent listens for it stays "connected", and nobody connects again.

Fourteen more configurations state what one could expect, and are refuted as well.
They are not runs of the project but are kept to be run by hand,
`tlc -config X.cfg M`:

| Configuration | Module | Property | What the counterexample shows |
|---|---|---|---|
| `ServiceRegistryStale.cfg` | `MCServiceRegistry` | `NoStaleService` | the events of one service overtake each other, and a listener keeps a service that is gone |
| `BundleLibraryFails.cfg` | `MCBundleLifecycle` | `ActiveIsActivated` | a second start after a library could not be loaded makes a bundle active without an activator |
| `BundleShutdownHangs.cfg` | `MCBundleLifecycle` | `ShutdownCompletes` | `sortBundles()` never ends when a dependency was stopped and uninstalled |
| `BundleShutdownAborts.cfg` | `MCBundleLifecycle` | `OthersAreStopped` | one activator whose `stop()` throws ends the shutdown, and the others keep running |
| `BundleDangling.cfg` | `MCBundleLifecycle` | `NoDanglingActivator` | when the file of a bundle cannot be removed, uninstalling it leaves a pointer to an activator that is unloaded |
| `TcpSocketStaysOpen.cfg` | `TcpConnection` | `EndedIsClosed` | when the BYE cannot be sent `run()` ends with the socket open |
| `TcpUnconfirmedClose.cfg` | `TcpConnection` | `ActiveCloseConfirmed` | a data frame under way is taken for the peer's BYE |
| `ConnectionShutdown.cfg` | `ConnectionManager` | `ShutdownCloses` | a connection in its handshake ignores `close()` |
| `RepositoryLeftover.cfg` | `MCBundleRepository` | `InstalledStaysInstalled` | a temporary file that a crash left is loaded as a bundle, and the next upload overwrites it |
| `RepositoryReplaceFails.cfg` | `MCBundleRepository` | `InstalledStaysInstalled` | a replacement whose rename fails loses the bundle it was to replace |
| `RepositorySameBundle.cfg` | `MCBundleRepository` | `DirectoryAgrees` | of two administrators who install one bundle, the second fails and removes the file that the first one's bundle was loaded from |
| `RepositoryOverwritten.cfg` | `MCBundleRepository` | `NamesSurvive` | with two administrators and a crash, the uninstallation of a bundle loaded from a leftover temporary file removes that file, which is by then the upload that replaces another bundle |
| `TunnelOutlivesStop.cfg` | `TunnelAgent` | `StopCloses` | a tunnel that `connect()` makes while `stop()` runs outlives it |
| `TunnelEventOrder.cfg` | `TunnelAgent` | `ListenersKnow` | `connected` of a tunnel is fired after its `disconnected` |

Three limits of the checked properties are worth knowing.  `NamesSurvive` excepts
bundles that a start took from a temporary file (`orphans`), and a bundle whose own
replacement fails at the rename or the second load (`dropped`): the old version was
removed first, as `BundleRepository.h` says it is, and nothing is left.
`repository_crash` has all faults, and shows that whatever fails or crashes loses no
bundle but these; `RepositoryLeftover.cfg` and `RepositoryReplaceFails.cfg` leave the
exceptions out and are refuted.  The run has one administrator: with two, a crash is
enough to lose a bundle (`RepositoryOverwritten.cfg`).
`DirectoryAgrees` is checked for
administrators who work on different bundles: for the same bundle it does not hold
(`RepositorySameBundle.cfg`).  `SocketsHaveChannels` speaks of the time before the tunnel is
closed, since `closeWebSocket()` does not take `_mutex`.

## Proofs

`ResolvingIsOnStack` and `TypeOK` of `BundleLifecycle` are checked in
`bundles_sequential` and proved for any number of threads, so that
`bundles_concurrent` does not repeat them.

`BundleLifecycleProofs` proves, for any set of bundles, manifests, threads and
faults, that `Spec` implies

* `TypeCorrect`: `[]TypeOK`;
* `MutualExclusion`: `[]OneThreadInLoader`;
* `NoMarkLeftBehind`: `[]ResolvingIsOnStack`.

Assumption: `BundleAssumption` (finitely many bundles, manifests over them, `Main`
not an administrator), which TLC evaluates in every run.

`TypeOK` is not inductive: a frame is popped by `Unwind` only if there is one.
`TypeInv` adds `ThrowersInCalls`, threads an exception passes through are in a
call.  The two others rest on `StackStep`: a step changes the stack of at most
one thread, changes no more than the program point of its innermost frame and
one frame on top, puts a frame inside the loader only if the mutex is free or the
thread's own, and marks or unmarks a bundle in the same step in which its frame
enters or leaves the dependencies.  From it, mutual exclusion and the agreement
of marks and frames follow for every action at once.

`BundleSequentialProofs` proves, for any bundles, manifests, run levels,
administrators and faults, that `Spec` implies

* `FollowsTheChart`: `ChartSpec`, the refinement of `BundleStateChart`;
* `StartsDependenciesFirst`: `StartsAfterDependencies`;
* `StopsDependentsFirst`: `StopsBeforeDependencies`;
* `SortingTerminates`: `[]SortTerminates` (which supposes that no dependency has been
  uninstalled, see `BundleShutdownHangs.cfg`);
* `ShutdownIsClean`: `[]CleanShutdown`;
* `RunningStaysManaged`: `[]RunningIsManaged`.

Assumptions: `BundleAssumption`, and `Exclusive` as a hypothesis of each theorem,
under which the run checks them too.  Without it, all but `SortTerminates` are
refuted (by TLC, with `Exclusive = FALSE` in `BundleSequential.cfg`): calls that meet
overwrite each other's states, as in `bundles_stop_race`.  Of `SortTerminates` no
counterexample without it is known.  The inductive invariant is `SeqInv`:

* `ActiveThreads`: one thread is in a call, and in what phase;
* `StackInv`: its frames are calls of one operation (`OneOp`), each made where the
  code makes it (`ChainInv`); a program point knows what its function has tested
  (`FrameInv`), because no other thread changes a state in between, and a bundle
  comes twice on the stack only where the inner call is about to return
  (`RepeatInv`, circles and extension bundles);
* `FailInv`: where an exception can come from;
* `LoadedInv`, `RunInv`: what the loader's map, the states, the code in memory and
  a running activator have to do with each other, also inside a call;
* `StartedInv`: how many dependencies each frame of a start has started;
* `ResolvedInv`, `Founded`: what a bundle is resolved against was resolved before,
  so there is no circle among resolved bundles.  `Founded` says it as
  well-foundedness, which is what makes `sortBundles()` end;
* `OrderInv`: what is still to be stopped in a shutdown is in an order that
  respects dependencies, and contains all that runs; `HaltInv` at its end.

`ServiceRegistryProofs` proves, for any threads, names, references, listeners and
queries, that `Spec` implies

* `TypeCorrect`: `[]TypeOK`;
* `NoServiceIsMissed`: `[]NoMissedService`;
* `DestroyedIsSilent`: `SilentAfterDestroy`.

Assumptions: `InterestAssumption` and `NullsAssumption`.  `NoMissedService` speaks
of moments when every call is over; the invariant says where the news of a service
is in between.  `KnownOrOffered`: a registered service that a listener follows is
in its `_refs`, or some thread is going to offer it (its event is not fired yet, or
the snapshot still holds the listener, or the constructor still has it in what it
found).  `ToldOrTelling`: what is in `_refs` has been told to the client or is being
told.  They need `DelegatesOK` (a listener that follows is attached, so every
snapshot holds it), `OneOwner` (a listener is constructed and destroyed by one
thread) and `UnregisteredIsGone` (the service an unregistration removes from
`_refs` is not a registered one).  `DelegatesOK` also says that a delegate that is
running is still attached, which makes a destroyed listener silent.

`ConnectionManagerProofs` proves, for any threads, addresses and connections, that
`Spec` implies

* `TypeCorrect`: `[]TypeOK`;
* `NoAddressLeftPending`: `[]PendingIsCreating`;
* `NoneIsLost`: `[]NoConnectionLost`;
* `ConnectionsAreShared`: `[]OneConnectionPerAddress`.

Assumption: `ConnectionsAssumption` (the manager's own connections are not a
server's; `None` is no connection and no address).  `NoConnectionLost` is not
inductive, as it says nothing of a connection before it is established: `KeptInv`
says that one which is still in its handshake is held by its creator, and
`CallInv` that a thread inserts only what has been ready.  `MapInv` is what keeps
the last write of getConnection() from losing anything: while an address is
pending, only a server's connection can have taken its place in the map.  With
it, two live connections to one address are both in the map, or both with its
only creator.

`TcpConnectionProofs` proves, for any number of frames, any idle timeouts and any
faults, that `Spec` implies

* `TypesKept`: `[]TypeOK`;
* `ByeStaysLast`: `[]ByeIsLast`;
* `PassiveIsComplete`: `[]PassiveGotEverything`;
* `RolesStayAgreed`: `[]RolesAgree`;
* `LivesAConnectionLife`: `LifeSteps`, which is `LifeSpec` without its fairness: each
  step of an end is a step of `ConnectionLife` or none.

Assumption: `BoundsAssumption`.  The invariant relates the two ends through the
wire.  `PhaseOK` says where `run()` is when `_state` is what it is.  `ByeOK`: an end
whose BYE is on the wire, or in its peer's hand, has said it and sends no more;
this is what makes a BYE the last frame, and a passive end the answer to one that
said BYE first (`RoleOK`).  `CountOK` balances the books: while an end reads, what
its peer sent is what was delivered, what is in hand and what is on the wire, with
a BYE and a HELO counted, which needs that a HELO is sent once and first
(`HeloOK`).  When the BYE is in hand the wire is empty, so the sums say that
everything has been delivered.  Each action keeps each part at the end that takes
it and at its peer.

`BundleRepositoryProofs` proves, for any bundles, versions, filter, administrators
and faults, that `Spec` implies

* `TypesKept`: `[]RepositoryTypeOK`;
* `UploadsStayIsolated`: `[]UploadIsolated`;
* `StartsLoadTheLatest`: `LatestIsLoaded`;
* `DirectoryStaysAgreed`: `[]DirectoryAgrees`, if `Disjoint`;
* `NamesStay`: `[]NamesSurvive`, if `NoneLost`.

Assumption: `RepositoryAssumption`.  The invariants:

* No two threads have one temporary file (`OwnInv`), because `tempBundleName()`'s
  counter is ahead of every file in use (`KnownInv`); a crash sets it back to 0 but
  leaves no request.  What others remove, and a rename to a final name, then never
  touches a file that is being uploaded other than by removing it.  The bundles a
  start loads are typed because `loadBundles()` runs before any request and chooses
  files whose manifest can be read (`ScanInv`).
* `FoundInv`: of the files `loadBundles()` has looked at it has kept the highest
  accepted version of each name; nothing changes the files while it looks.
* `AgreeInv`: a file under its final name is the bundle the name says (`NamedInv`), so
  that removing a bundle's file frees its name and no other; a loaded bundle has its
  file (`LoadedInv`); a temporary file was left by a crash or belongs to an
  installation (`TempInv`); and once an installation has passed its check and removed
  the old version, nothing of its name is loaded (`OrderInv`).  The last is why
  `Disjoint` is a hypothesis (`ApartInv`): an administrator who installs the same
  bundle would load one in between.
* `SurviveInv`: a bundle nobody asked to remove is on disk or is being replaced by an
  upload that is whole, readable and accepted (`KeptInv`, `RequestInv`), so that what
  a crash leaves of the replacement is a temporary file the next start loads.

`NoneLost` is `Disjoint`, and either no crash or one administrator: two administrators
with a crash between them lose a bundle (`RepositoryOverwritten.cfg`), a counterexample
that an attempt to prove the theorem without this part led to.  Faults are not
restricted: `Replaces` says that the upload of a request that has removed its own old
version is what keeps the name, and when such a request fails the name is in
`dropped`, which is the exception `NamesSurvive` states.

`RemotePortForwarderProofs` proves, for any sockets, channels and workers, that `Spec`
implies

* `LossReportedOnce`: `[]ReportedOnce`;
* `TypesCorrect`: `[]ForwarderTypeOK`;
* `ReadByOne`: `[]OneReader`;
* `ChannelsHaveSockets`: `[]SocketsHaveChannels`;
* `PeerIsTold`: `[]NoHalfOpenChannel`.

Assumption: `ForwarderAssumption`.  A thread is the sequence of steps it has still to
take, so the invariants say what such a sequence may be, layer on layer:

* `IInv`: `closeWebSocket()` tests whether the web socket is closed long before it
  closes it; `Closer` says that only the thread that holds `_webSocketMutex` is past
  the test, that what is left of `closeWebSocket()` is what it does next, and that the
  socket is not closed meanwhile.
* `BaseInv`: what may follow a step in a sequence and what it may end with
  (`StepsInv`), and that a queued task is that of a thread that waits (`TasksInv`).
* `ReaderInv`: of a socket there is one event queued or one reader, and none while it
  is polled (`ReadInv`); a socket that is about to be added is new to the dispatcher
  (`AddInv`).
* `SocketsInv`: the steps of `openChannel()` and `removeChannel()` between lock and
  unlock are those of the holder of `_mutex` (`LockInv`); whom each queued task serves
  (`TaskInv`); and that the sockets of the dispatcher differ from those of the channels
  by the one that is being added or removed at most (`SocketInv`).
* `TalkInv`: a channel that the peer holds open and that is not in the map is one of
  which a thread has still to tell it (`ToldInv`); a channel removed without a word is
  one the peer has closed itself (`PlainInv`).

`TunnelAgentProofs` proves, for any number of tunnels, stopped or not, that `Spec`
implies

* `TypesKept`: `[]AgentTypeOK`;
* `NeverTwoTunnels`: `[]OneTunnel`.

Assumption: `AgentAssumption`.  The right to connect is one token that passes from
hand to hand: the scheduled reconnect, the timer's thread that carries it out, the
tunnel that is up, the thread in `onClose()` that will schedule the next reconnect.
`Exclusive` says that no two of them have it at once, `Order` which tunnel may be up
or listened to at what point of `connect()`.

Only model-checked: what is under fairness (`EventuallyTold`, `CallsComplete`,
`HangupNoticed`, `PendingEnds`, `LossIsReported`, `OpenIsAnswered`, `LossIsMadeGood`,
`StopReturns`, and the fairness of `LifeSpec`), as TLAPS does not reach ENABLED and
fairness.  Every safety property of the passing runs
is proved, `NamesSurvive` and those of `bundles_sequential` under the hypotheses of
the runs that check them.

## Plan

1. done: `ServiceRegistry`, `BundleStateChart`, `BundleLifecycle`,
   `ConnectionLife`, `TcpConnection`, `ConnectionManager`, `BundleRepository`,
   `SocketDispatcher`, `RemotePortForwarder`, `TunnelAgent`; theorems about the
   eight that describe the code.
2. RemotingNG TCP: `Transport`, channels and `FrameQueue` (full queues, late
   replies, authentication), event subscriptions of `Listener`.
3. `ExtensionPointService` over bundle events; nested calls of a registry
   listener's callback.
4. Web events (order of messages over several workers); JavaScript timers; web
   sessions; `LocalPortForwarder`.
5. Proofs: what holds of `BundleLifecycle` without `Exclusive`, beyond mutual
   exclusion (`SortTerminates` seems to); the safety properties of the modules to come.

## Not modelled

* Vendored and generated code (V8, SQLite, Paho, the POCO foundation but for its
  events), encoders and drivers, web pages, the V8 bridge, file formats, query
  parsing: no behaviour of several actors, or not this project's code.
* OSP: `unloadBundle` / `unloadAllBundles`, which only the test suite calls;
  exceptions that are not `Poco::Exception`, which leave `startAllBundles`;
  registry calls made from a listener's callback, and
  callbacks that throw; bundles that are directories and
  several repository paths; the download of a bundle from a URI.
* RemotingNG: frames that are sent in part, the frame handlers of a connection and
  handlers of its events that throw; transports, channels and listeners.
* Web tunnel: `LocalPortForwarder`, which runs in the client's program;
  `updateProperties()`; handlers for writing, which the tunnel does not register;
  that a wait for the main thread gives up after 30 s; the retry delays.
