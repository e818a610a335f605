------------------------------ MODULE Process ------------------------------
(***************************************************************************)
(* The life of a process that runs the dispatcher: Dispatcher::start and   *)
(* shutdown (service/source/dispatcher.cpp:341-377) on the Worker          *)
(* dispatch_worker, the sockets and ports of each DispatcherContext, the   *)
(* ZeroMQ context (libs/utility/zeromq.cpp), and the destructors of the    *)
(* static objects, of which the order is left to the linker.               *)
(*                                                                         *)
(* main() may be any caller: it starts, starts again, shuts down and       *)
(* returns; an exception of start() is caught.  It and the thread of the   *)
(* dispatcher have a keeper each (main.cpp:15, worker.cpp:46).  Tracked    *)
(* objects are those of the code that uses the library: both threads may   *)
(* make and delete them, main() as tests/keeper-mixin.cpp does.            *)
(***************************************************************************)
EXTENDS Keeper

CONSTANTS
    MaxStarts,      \* bound of Worker
    MaxBuilds       \* bound: contexts that start() builds

ASSUME MaxBuildsAssumption == MaxBuilds \in Nat /\ {"main", "dispatcher"} \subseteq Holder

VARIABLES
    owner, thread, joinable, has_started, working, requestedShutdown, context,
    starts,         \* those of Worker
    main,           \* where main() is in start(), or in its end
    zmq,            \* the ZeroMQ context
    sock,           \* [build -> state of the sockets of that DispatcherContext]
    endpoint,       \* the build that holds the ports, or 0
    built,          \* how many contexts were built
    served,         \* the build dispatch_worker has as its context, or 0
    first           \* the static object that is destroyed first

W == INSTANCE Worker

Build == 1 .. MaxBuilds

sockets == <<sock, endpoint, built, served>>
worker == <<owner, thread, joinable, has_started, working, requestedShutdown,
            context, starts>>
program == <<main, zmq, sockets, first>>
vars == <<worker, program, keeping>>

ProcessTypeOK ==
    /\ KeeperTypeOK
    /\ main \in {"free", "starting", "set", "waiting", "returned"}
    /\ zmq \in {"none", "open", "terminating", "closed"}
    /\ sock \in [Build -> {"unbuilt", "open", "leaked", "closed"}]
    /\ endpoint \in 0 .. built
    /\ built \in 0 .. MaxBuilds
    /\ served \in 0 .. built
    /\ first \in {"worker", "context"}

Init ==
    /\ W!Init
    /\ KeeperInit
    /\ main = "free"
    /\ zmq = "none"
    /\ sock = [k \in Build |-> "unbuilt"]
    /\ endpoint = 0 /\ built = 0 /\ served = 0
    /\ first \in {"worker", "context"}

-----------------------------------------------------------------------------
(* Dispatcher::start and shutdown.                                         *)

\* main() is in no call: it may make one.
MainIsFree == main = "free" /\ owner \in {"idle", "running", "stopped"}

NewContext ==
    /\ MainIsFree
    /\ built < MaxBuilds
    /\ built' = built + 1
    /\ zmq' = "open"

\* Mutant of BuildContext: the ports can be bound a second time.
BuildContextAnyway ==
    /\ NewContext
    /\ sock' = [sock EXCEPT ![built + 1] = "open"]
    /\ endpoint' = built + 1
    /\ main' = "starting"
    /\ UNCHANGED <<worker, served, first, keeping>>

\* The constructor opens the sockets and binds the ports.
BuildContext ==
    /\ NewContext
    /\ endpoint = 0
    /\ sock' = [sock EXCEPT ![built + 1] = "open"]
    /\ endpoint' = built + 1
    /\ main' = "starting"
    /\ UNCHANGED <<worker, served, first, keeping>>

\* bind throws, start() is left, and nobody has the pointer to the socket.
BuildFails ==
    /\ NewContext
    /\ endpoint # 0
    /\ sock' = [sock EXCEPT ![built + 1] = "leaked"]
    /\ UNCHANGED <<worker, main, endpoint, served, first, keeping>>

\* stopWork, setWork, doWork.
SetWork ==
    /\ main = "starting"
    /\ W!SetWork
    /\ served' = built
    /\ main' = "set"
    /\ UNCHANGED <<zmq, sock, endpoint, built, first, keeping>>

DoWork ==
    /\ main = "set"
    /\ W!DoWork
    /\ main' = "waiting"
    /\ UNCHANGED <<zmq, sockets, first, keeping>>

SeeStarted ==
    /\ main = "waiting"
    /\ W!SeeStarted
    /\ main' = "free"
    /\ UNCHANGED <<zmq, sockets, first, keeping>>

\* stopWork in shutdown(), in a start() or in the destructor of the Worker.
StopsWork ==
    \/ main \in {"free", "starting"}
    \/ main = "returned" /\ (first = "worker" \/ zmq = "closed")

StopWork == StopsWork /\ W!StopWork /\ UNCHANGED <<program, keeping>>

WaitForStop == (W!SeeNotWorking \/ W!Join) /\ UNCHANGED <<program, keeping>>

-----------------------------------------------------------------------------
(* The thread of the dispatcher.                                           *)

\* ScopedKeeper k, and the flags up to the work function.
ThreadStarts == W!Started /\ start("dispatcher") /\ UNCHANGED program
ThreadWorks == (W!Flag \/ W!Unflag) /\ UNCHANGED <<program, keeping>>

\* handleRequests returns when it is asked to and throws when ZeroMQ does,
\* which it also does when the context is being closed (ETERM).
Returns == W!EndOfWork /\ requestedShutdown /\ thread' = "returned"
Throws == W!EndOfWork /\ thread' = "thrown"
EndOfWork ==
    /\ Throws \/ (zmq = "open" /\ Returns)
    /\ UNCHANGED <<program, keeping>>

\* Mutant of OnShutdown: the hook does not delete the context.
OnShutdownForgets == W!OnShutdown /\ UNCHANGED <<program, keeping>>

\* ~DispatcherContext closes the sockets.  libzmq frees the ports later, here
\* both at once (FreePorts).
OnShutdown ==
    /\ W!OnShutdown
    /\ sock' = [sock EXCEPT ![served] = "closed"]
    /\ UNCHANGED <<main, zmq, endpoint, built, served, first, keeping>>

FreePorts ==
    /\ endpoint # 0 /\ sock[endpoint] = "closed"
    /\ endpoint' = 0
    /\ UNCHANGED <<worker, main, zmq, sock, built, served, first, keeping>>

\* The exception is logged; onShutdown is not called.
Catch ==
    /\ W!Catch
    /\ sock' = [sock EXCEPT ![served] = "leaked"]
    /\ UNCHANGED <<main, zmq, endpoint, built, served, first, keeping>>

ThreadEnds == W!End /\ end("dispatcher") /\ UNCHANGED program

ThreadStep == ThreadStarts \/ ThreadWorks \/ OnShutdown \/ Catch \/ ThreadEnds

-----------------------------------------------------------------------------
(* References, and the end.                                                *)

MainKeeps ==
    /\ MainIsFree
    /\ \/ start("main") \/ end("main")
       \/ \E p \in Pointer : New("main", p) \/ Delete("main", p)
    /\ UNCHANGED <<worker, program>>

ThreadKeeps ==
    /\ thread = "work"
    /\ \E p \in Pointer : New("dispatcher", p) \/ Delete("dispatcher", p)
    /\ UNCHANGED <<worker, program>>

\* main() returns and its scopes end.
Return ==
    /\ MainIsFree
    /\ main' = "returned"
    /\ end("main")
    /\ UNCHANGED <<worker, zmq, sockets, first>>

DestroyWorker ==
    /\ StopsWork /\ main = "returned"
    /\ W!Destroy
    /\ UNCHANGED <<program, keeping>>

\* ~ZeroMQWatcher calls closeContext: zmq_term waits for every socket.
CloseContext ==
    /\ main = "returned" /\ (first = "context" \/ owner = "destroyed")
    /\ \/ zmq = "none" /\ zmq' = "closed"
       \/ zmq = "open" /\ zmq' = "terminating"
       \/ /\ zmq = "terminating" /\ zmq' = "closed"
          /\ \A k \in Build : sock[k] \in {"unbuilt", "closed"}
    /\ UNCHANGED <<worker, main, sockets, first, keeping>>

MainStep ==
    \/ SetWork \/ DoWork \/ SeeStarted \/ WaitForStop
    \/ main # "free" /\ StopWork
    \/ DestroyWorker \/ CloseContext

Next ==
    \/ BuildContext \/ BuildFails \/ StopWork \/ Return \/ MainStep
    \/ ThreadStep \/ EndOfWork \/ FreePorts
    \/ MainKeeps \/ ThreadKeeps

Spec == Init /\ [][Next]_vars

\* A call of main() goes on, the thread runs, and the work function ends when
\* it is asked to or when ZeroMQ ends it.
Fairness ==
    /\ WF_vars(MainStep)
    /\ WF_vars(ThreadStep)
    /\ WF_vars((requestedShutdown \/ zmq = "terminating") /\ EndOfWork)

FairSpec == Spec /\ Fairness

-----------------------------------------------------------------------------
\* While the thread serves it has its sockets and holds the ports, whatever
\* start() was called in between: one that fails leaves the running dispatcher
\* alone.  And since start() binds before it stops, a start() that gets as far
\* as stopWork never finds anything to stop (dispatcher.cpp:345-353).
OneDispatcherServes ==
    /\ thread \in {"born", "started", "flagged", "work", "returned"} =>
           served = endpoint /\ sock[served] = "open"
    /\ main \in {"starting", "set"} => owner # "running" /\ thread \in {"none", "ended"}

\* What makes it inductive: a dispatcher that has been started and not asked
\* to stop holds the ports, also when an exception has ended it, so no context
\* can be built; and the one that has been built is the next to be served.
Serving == {"born", "started", "flagged", "work", "returned", "thrown"}

PortsAreHeld ==
    /\ thread \in Serving =>
           served # 0 /\ served = endpoint /\ sock[served] = "open"
    /\ thread = "returned" => requestedShutdown
    /\ owner \in {"starting", "running"} =>
           /\ ~requestedShutdown
           /\ served # 0 /\ served = endpoint /\ sock[served] \in {"open", "leaked"}

StartIsAlone ==
    /\ owner \in {"idle", "stopped", "destroyed"} => thread \in {"none", "ended"}
    /\ main \in {"starting", "set"} =>
           /\ owner \in {"idle", "stopped"}
           /\ built # 0 /\ built = endpoint /\ sock[built] = "open"
    /\ main = "set" => served = built /\ ~requestedShutdown
    /\ main = "waiting" => owner = "starting"

ProcessInv == ProcessTypeOK /\ KeeperInv /\ PortsAreHeld /\ StartIsAlone

\* The process ends once main() has returned, in whichever order its static
\* objects are destroyed, unless a socket was leaked: by a start() that failed
\* or by a dispatcher that was ended by an exception, which is also what
\* happens to one that still runs when the context is destroyed before the
\* Worker.  Then zmq_term waits for ever (zeromq.cpp:20-46, worker.cpp:59).
ExitReturns ==
    main = "returned" ~>
        \/ owner = "destroyed" /\ zmq = "closed"
        \/ \E k \in Build : sock[k] = "leaked"
=============================================================================
