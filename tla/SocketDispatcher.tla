--------------------------- MODULE SocketDispatcher ---------------------------
(***************************************************************************)
(* The multi-threaded reactor of the web tunnel                            *)
(* (platform/WebTunnel/src/SocketDispatcher.cpp): a main thread that polls *)
(* the registered sockets and executes the tasks other threads have queued *)
(* for it, and workers that call the sockets' handlers.  The handlers are  *)
(* the business of the module that extends this one: this one says what    *)
(* the main thread does, how a worker takes an event and how it ends a     *)
(* handler, and how a thread has the main thread do something and waits.   *)
(*                                                                         *)
(* A thread is the sequence of steps it has still to take, todo[t].  A     *)
(* wait for the main thread ends when the task is done; that it gives up   *)
(* after TASK_WAIT_TIMEOUT (30 s) is left out: the main thread blocks in   *)
(* nothing that takes longer.                                              *)
(***************************************************************************)
EXTENDS Naturals, Sequences, FiniteSets, SequencesExt

CONSTANTS Sockets, NoSocket, Workers, Callers

Threads == Workers \cup Callers

VARIABLES
    registered,   \* the keys of _socketMap
    wantRead,     \* SocketInfo::wantRead
    shut,         \* sockets closeSocketImpl() has shut down
    closed,       \* sockets whose descriptor is closed: ~initialized()
    mainQueue,    \* _mainQueue: tasks for the main thread
    workerQueue,  \* _workerQueue: events for the workers
    waiting,      \* threads in TaskNotification::wait()
    todo          \* each thread's steps

dispatcherVars == <<registered, wantRead, shut, closed, mainQueue, workerQueue, waiting,
                    todo>>
mainVars == <<registered, shut, mainQueue, waiting>>

Task == [do: {"add", "remove", "close", "reset"}, socket: Sockets \cup {NoSocket},
         by: Threads]
Event == {"readable", "exception", "timeout"} \X Sockets

DispatcherTypeOK ==
    /\ {registered, shut, closed} \subseteq SUBSET Sockets
    /\ wantRead \in [Sockets -> BOOLEAN]
    /\ mainQueue \in Seq(Task) /\ workerQueue \in Seq(Event)
    /\ waiting \subseteq Threads
    /\ waiting = {mainQueue[i].by: i \in DOMAIN mainQueue}
    /\ Cardinality(waiting) = Len(mainQueue)

\* The constructor of SocketInfo sets wantRead; sockets registered at the start.
DispatcherInit(sockets) ==
    /\ registered = sockets
    /\ wantRead = [s \in Sockets |-> TRUE]
    /\ shut = {} /\ closed = {}
    /\ mainQueue = <<>> /\ workerQueue = <<>>
    /\ waiting = {}
    /\ todo = [t \in Threads |-> <<>>]

-----------------------------------------------------------------------------
(* The main thread, runMain() *)

Post(events) == workerQueue' = workerQueue \o events

\* Mutant of MainPoll: a socket is polled on while it is being read.
PollOn(s, events) ==
    /\ s \in registered /\ wantRead[s] /\ Len(workerQueue) < 3
    /\ Post([i \in DOMAIN events |-> <<events[i], s>>])
    /\ UNCHANGED <<mainVars, wantRead, closed, todo>>

\* poll() reports a socket: nothing more is read from it until its handler
\* has returned.  A socket may be both readable and in error; then two
\* workers may handle it at once.
MainPoll(s, events) ==
    /\ s \in registered /\ wantRead[s]
    /\ wantRead' = [wantRead EXCEPT ![s] = FALSE]
    /\ Post([i \in DOMAIN events |-> <<events[i], s>>])
    /\ UNCHANGED <<mainVars, closed, todo>>

\* A socket from which nothing came for its timeout.
MainTimeout(s) == MainPoll(s, <<"timeout">>)

\* addSocketImpl(), removeSocketImpl(), closeSocketImpl(), resetImpl(), for a
\* thread that waits until it is done (AutoSetEvent).
MainTask ==
    /\ mainQueue # <<>>
    /\ LET task == Head(mainQueue) IN
         /\ registered' = CASE task.do = "add" -> registered \cup {task.socket}
                            [] task.do \in {"remove", "close"} -> registered \ {task.socket}
                            [] task.do = "reset" -> {}
         /\ shut' = IF task.do = "close" THEN shut \cup {task.socket} ELSE shut
         /\ wantRead' = IF task.do = "add" THEN [wantRead EXCEPT ![task.socket] = TRUE]
                                           ELSE wantRead
         /\ waiting' = waiting \ {task.by}
    /\ mainQueue' = Tail(mainQueue)
    /\ UNCHANGED <<workerQueue, closed, todo>>

-----------------------------------------------------------------------------
(* Threads *)

\* Thread t, which is not waiting, is about to take the step s.
At(t, s) == t \notin waiting /\ todo[t] # <<>> /\ Head(todo[t]) = s

\* It takes it, and the steps ss come before those that follow.
Then(t, ss) == todo' = [todo EXCEPT ![t] = ss \o Tail(@)]

\* Mutant of Ask: the task is queued, but nobody waits for it.
AskAndGoOn(t, do, s) ==
    /\ mainQueue' = Append(mainQueue, [do |-> do, socket |-> s, by |-> t])
    /\ UNCHANGED waiting

\* addSocket(), removeSocket(), closeSocket(), reset(): queue a task, and wait.
Ask(t, do, s) ==
    /\ mainQueue' = Append(mainQueue, [do |-> do, socket |-> s, by |-> t])
    /\ waiting' = waiting \cup {t}

-----------------------------------------------------------------------------
(* The workers, runWorker() *)

\* readableImpl(), timeoutImpl() and exceptionImpl(): the handler's call, and
\* what follows it; after an exception nothing does.
WorkerTake(w) ==
    /\ todo[w] = <<>> /\ workerQueue # <<>>
    /\ LET event == Head(workerQueue)[1]
           s == Head(workerQueue)[2]
       IN  todo' = [todo EXCEPT ![w] =
                      IF event = "exception" THEN << <<event, s>> >>
                      ELSE << <<event, s>>, <<"finish", event, s>> >>]
    /\ workerQueue' = Tail(workerQueue)
    /\ UNCHANGED <<mainVars, wantRead, closed>>

\* The end of readableImpl() and timeoutImpl().
Finish(w) ==
    \E s \in Sockets, event \in {"readable", "timeout"}:
      /\ At(w, <<"finish", event, s>>)
      /\ wantRead' = [wantRead EXCEPT ![s] = s \notin closed]
      /\ Then(w, <<>>)
      /\ UNCHANGED <<mainVars, closed, workerQueue>>

\* There is more to read: the do loop of readableImpl().
Again(w) ==
    \E s \in Sockets \ closed:
      /\ At(w, <<"finish", "readable", s>>)
      /\ todo' = [todo EXCEPT ![w] = << <<"readable", s>> >> \o @]
      /\ UNCHANGED <<mainVars, wantRead, closed, workerQueue>>

-----------------------------------------------------------------------------
Reads(s) ==
    Cardinality({i \in DOMAIN workerQueue: workerQueue[i] \in {<<"readable", s>>, <<"timeout", s>>}})
    + Cardinality({w \in Workers: \E i \in DOMAIN todo[w]:
                     todo[w][i] \in {<<"finish", "readable", s>>, <<"finish", "timeout", s>>}})

\* A socket is read by one worker at a time, so that its data stay in order:
\* while one has it, or an event of it is queued, it is not polled (wantRead).
OneReader ==
    \A s \in Sockets: /\ Reads(s) <= 1
                      /\ s \in registered /\ wantRead[s] => Reads(s) = 0
=============================================================================
