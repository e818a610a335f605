----------------------------- MODULE WorkerGroup -----------------------------
(***************************************************************************)
(* A WorkerGroup (service/source/worker_group.cpp): the manager thread     *)
(* that procures worker threads, reads their DEAD messages from its        *)
(* control socket, watches the load and stops the group, and the loop of   *)
(* each worker thread (WorkerContext::work) with the life it loses in each *)
(* silent poll.                                                            *)
(*                                                                         *)
(* A worker's requests and heartbeats come from the dispatcher, which is   *)
(* the environment here.  The code numbers its workers and never uses a    *)
(* number twice; here the number of one of which nothing is left stands    *)
(* for the next one, so that a group may add and reap workers for ever.    *)
(***************************************************************************)
EXTENDS Integers, FiniteSets

CONSTANTS
  MaxId,        \* bound: how many workers there are at a time
  Initial,      \* addWorkers(10) of doWork
  Batch,        \* addWorkers(5) of doRegularProcess
  MaxPool,      \* no worker is added to 100 workers or more
  KillFloor,    \* no worker is killed of less than 5
  LiveDefault,  \* live_default
  Loads         \* the loads that getloadavg may report, against min and max

ASSUME GroupAssumption ==
    /\ {MaxId, Initial, Batch, MaxPool, KillFloor, LiveDefault} \subseteq Nat \ {0}
    /\ Loads \subseteq {"low", "fine", "high"}

VARIABLES
  (* the manager *)
  mpc,         \* where the manager thread is
  todo,        \* workers addWorkers still has to add
  after,       \* where the manager goes when they are added
  current,     \* the worker in its hands while it waits for its thread
  registered,  \* the keys of `workers` with a Worker
  nulls,       \* the keys of `workers` that workers[id] inserted
  groupStop,   \* requestedShutdown of the manager's own Helper
  dead,        \* DEAD messages in the control socket
  (* the worker threads *)
  phase,
  life,        \* WorkerContext::liveliness
  stopAsked,   \* requestedShutdown of the worker's Helper
  context      \* what contexts[id] points to

manager == <<mpc, todo, after, current, registered, nulls>>
threads == <<phase, life, stopAsked, context>>
vars == <<manager, groupStop, dead, threads>>

Id == 1 .. MaxId

TypeOK ==
    /\ mpc \in {"setup", "add", "ensure", "poll", "join", "regular", "refill",
                "check", "stopped"}
    /\ todo \in Nat
    /\ after \in {"poll", "refill", "check"}
    /\ current \in 0 .. MaxId
    /\ registered \subseteq Id
    /\ nulls \subseteq Id
    /\ groupStop \in BOOLEAN
    /\ dead \subseteq Id
    /\ phase \in [Id -> {"unborn", "ready", "busy", "farewell", "closing",
                         "ended"}]
    /\ life \in [Id -> 0 .. LiveDefault]
    /\ stopAsked \in [Id -> BOOLEAN]
    /\ context \in [Id -> {"none", "live", "freed"}]

Init ==
    /\ mpc = "setup"
    /\ todo = 0
    /\ after = "poll"
    /\ current = 0
    /\ registered = {}
    /\ nulls = {}
    /\ groupStop = FALSE
    /\ dead = {}
    /\ phase = [i \in Id |-> "unborn"]
    /\ life = [i \in Id |-> LiveDefault]
    /\ stopAsked = [i \in Id |-> FALSE]
    /\ context = [i \in Id |-> "none"]

-----------------------------------------------------------------------------
(* addWorkers.  Its tests of shuttingDown never find it set, because stop()*)
(* sets it after the manager's loop.                                       *)

AddWorkers(n, next) == mpc' = "add" /\ todo' = n /\ after' = next

\* The control socket is bound, the first workers are added.
Setup ==
    /\ mpc = "setup"
    /\ AddWorkers(Initial, "poll")
    /\ UNCHANGED <<current, registered, nulls, groupStop, dead, threads>>

\* worker_new_id: a number of which the group has no thread, no Worker and no
\* DEAD message.
Fresh ==
    {i \in Id \ (registered \cup dead) : phase[i] \in {"unborn", "ended"}}

\* ProcureWorker starts the thread and then waits a second in ensureReady.
ProcureWorker ==
    /\ mpc = "add"
    /\ todo > 0
    /\ \E i \in Fresh :
           /\ current' = i
           /\ phase' = [phase EXCEPT ![i] = "ready"]
           /\ life' = [life EXCEPT ![i] = LiveDefault]
           /\ stopAsked' = [stopAsked EXCEPT ![i] = FALSE]
           /\ context' = [context EXCEPT ![i] = "live"]
    /\ mpc' = "ensure"
    /\ UNCHANGED <<todo, after, registered, nulls, groupStop, dead>>

\* Mutant of Register: a worker that has died in the meantime is not kept.
RegisterIfAlive ==
    /\ mpc = "ensure"
    /\ registered' = registered \cup {i \in {current} : context[i] = "live"}
    /\ todo' = todo - 1
    /\ current' = 0
    /\ mpc' = "add"
    /\ UNCHANGED <<after, nulls, groupStop, dead, threads>>

\* workers[w->workerID()] = w
Register ==
    /\ mpc = "ensure"
    /\ registered' = registered \cup {current}
    /\ todo' = todo - 1
    /\ current' = 0
    /\ mpc' = "add"
    /\ UNCHANGED <<after, nulls, groupStop, dead, threads>>

\* A socket cannot be set up: the context is deleted, its pointer stays in
\* `contexts`, and the loop of addWorkers ends.
ProcureFails ==
    /\ mpc = "add"
    /\ todo > 0
    /\ \E i \in Fresh : context' = [context EXCEPT ![i] = "freed"]
    /\ todo' = 0
    /\ UNCHANGED <<mpc, after, current, registered, nulls, groupStop, dead,
                   phase, life, stopAsked>>

Added ==
    /\ mpc = "add"
    /\ todo = 0
    /\ mpc' = after
    /\ UNCHANGED <<todo, after, current, registered, nulls, groupStop, dead,
                   threads>>

-----------------------------------------------------------------------------
(* The loop of the manager.                                                *)

PollTimesOut ==
    /\ mpc = "poll"
    /\ dead = {}
    /\ mpc' = "regular"
    /\ UNCHANGED <<todo, after, current, registered, nulls, groupStop,
                   dead, threads>>

\* receiveMessage answers OK and stops the worker; workers[id] of an unknown
\* id inserts a null pointer.
ReceiveDead(i) ==
    /\ mpc = "poll"
    /\ i \in dead
    /\ dead' = dead \ {i}
    /\ IF i \in registered
       THEN /\ stopAsked' = [stopAsked EXCEPT ![i] = TRUE]
            /\ current' = i
            /\ mpc' = "join"
            /\ UNCHANGED nulls
       ELSE /\ nulls' = nulls \cup {i}
            /\ mpc' = "regular"
            /\ UNCHANGED <<stopAsked, current>>
    /\ UNCHANGED <<todo, after, registered, groupStop, phase, life,
                   context>>

\* Mutant of Join: the worker is erased without waiting for its thread.
JoinNotWaiting ==
    /\ mpc = "join"
    /\ registered' = registered \ {current}
    /\ current' = 0
    /\ mpc' = "regular"
    /\ UNCHANGED <<todo, after, nulls, groupStop, dead, threads>>

\* stopWork() has joined the thread; delete and erase.
Join ==
    /\ mpc = "join"
    /\ phase[current] = "ended"
    /\ registered' = registered \ {current}
    /\ current' = 0
    /\ mpc' = "regular"
    /\ UNCHANGED <<todo, after, nulls, groupStop, dead, threads>>

-----------------------------------------------------------------------------
(* doRegularProcess, when six seconds have passed.                         *)

Size == Cardinality(registered)

\* partial > 0.85, in hundredths; `amount`, the share of the active workers, is
\* only logged.
PartialIsLarge == 100 > 85 * Size

\* The load is below min.  `partial`, the share of one worker, decides.
LowLoad ==
    /\ mpc = "regular"
    /\ "low" \in Loads
    /\ Size < MaxPool
    /\ IF PartialIsLarge
       THEN AddWorkers(Batch, "refill")
       ELSE mpc' = "refill" /\ UNCHANGED <<todo, after>>
    /\ UNCHANGED <<current, registered, nulls, groupStop, dead, threads>>

\* "Adding Workers, too few!"
Refill ==
    /\ mpc = "refill"
    /\ IF Size < 2
       THEN AddWorkers(Batch, "check")
       ELSE mpc' = "check" /\ UNCHANGED <<todo, after>>
    /\ UNCHANGED <<current, registered, nulls, groupStop, dead, threads>>

\* stopWorkAsync of the first worker of the map, the oldest, whatever the random
\* number; a number does not tell the age here, so it may be any.
killRandomWorker ==
    \E i \in registered : stopAsked' = [stopAsked EXCEPT ![i] = TRUE]

HighLoad ==
    /\ mpc = "regular"
    /\ "high" \in Loads
    /\ IF Size < KillFloor THEN UNCHANGED stopAsked ELSE killRandomWorker
    /\ mpc' = "check"
    /\ UNCHANGED <<todo, after, current, registered, nulls, groupStop,
                   dead, phase, life, context>>

\* Less than six seconds have passed, or the load asks for nothing.
NothingToDo ==
    /\ mpc = "regular"
    /\ mpc' = "check"
    /\ UNCHANGED <<todo, after, current, registered, nulls, groupStop,
                   dead, threads>>

-----------------------------------------------------------------------------
(* shutdown().  A Worker is done when its thread is joined, which only     *)
(* receiveMessage does, and then it is no longer in the map.               *)

\* Mutant of Done: a worker counts as done when it was asked to stop.
DoneWhenAsked == \A i \in registered : stopAsked[i]

Done == registered = {}

Check ==
    /\ mpc = "check"
    /\ IF groupStop
       THEN /\ stopAsked' = [i \in Id |-> stopAsked[i] \/ i \in registered]
            /\ mpc' = IF Done THEN "stopped" ELSE "poll"
       ELSE mpc' = "poll" /\ UNCHANGED stopAsked
    /\ UNCHANGED <<todo, after, current, registered, nulls, groupStop,
                   dead, phase, life, context>>

\* The destructor of WorkerGroup calls stopWork of the manager's Worker.
StopGroup ==
    /\ ~groupStop
    /\ groupStop' = TRUE
    /\ UNCHANGED <<manager, dead, threads>>

ManagerStep ==
    \/ Setup \/ ProcureWorker \/ Register \/ ProcureFails \/ Added
    \/ PollTimesOut \/ (\E i \in Id : ReceiveDead(i)) \/ Join
    \/ LowLoad \/ HighLoad \/ NothingToDo \/ Refill \/ Check

-----------------------------------------------------------------------------
(* The thread of worker i: WorkerContext::work and the onShutdown hook.    *)

\* One iteration of its loop begins: liveliness-- > 0.
InLoop(i) == phase[i] = "ready" /\ ~stopAsked[i] /\ life[i] > 0

\* Mutant of SilentPoll: liveliness-- >= 0.
SilentPollOffByOne(i) ==
    /\ phase[i] = "ready" /\ ~stopAsked[i] /\ life[i] >= 0
    /\ life' = [life EXCEPT ![i] = @ - 1]
    /\ UNCHANGED <<manager, groupStop, dead, phase, stopAsked, context>>

SilentPoll(i) ==
    /\ InLoop(i)
    /\ life' = [life EXCEPT ![i] = @ - 1]
    /\ UNCHANGED <<manager, groupStop, dead, phase, stopAsked, context>>

\* A PING is answered.
HeartBeat(i) ==
    /\ InLoop(i)
    /\ life' = [life EXCEPT ![i] = LiveDefault]
    /\ UNCHANGED <<manager, groupStop, dead, phase, stopAsked, context>>

TakeRequest(i) ==
    /\ InLoop(i)
    /\ phase' = [phase EXCEPT ![i] = "busy"]
    /\ UNCHANGED <<manager, groupStop, dead, life, stopAsked, context>>

SendResponse(i) ==
    /\ phase[i] = "busy"
    /\ life' = [life EXCEPT ![i] = LiveDefault]
    /\ phase' = [phase EXCEPT ![i] = "ready"]
    /\ UNCHANGED <<manager, groupStop, dead, stopAsked, context>>

\* DEAD and the id go to the control socket.
SayDead(i) ==
    /\ dead' = dead \cup {i}
    /\ phase' = [phase EXCEPT ![i] = "farewell"]
    /\ UNCHANGED <<manager, groupStop, life, stopAsked, context>>

LeaveLoop(i) ==
    /\ phase[i] = "ready"
    /\ stopAsked[i] \/ life[i] = 0
    /\ SayDead(i)

\* Mutant of Fail: DEAD is sent inside the try block.
FailUnannounced(i) ==
    /\ phase[i] \in {"ready", "busy"}
    /\ phase' = [phase EXCEPT ![i] = "farewell"]
    /\ UNCHANGED <<manager, groupStop, dead, life, stopAsked, context>>

\* An exception while it polls or evaluates: caught, and the worker ends.
Fail(i) ==
    /\ phase[i] \in {"ready", "busy"}
    /\ SayDead(i)

\* The answer to DEAD has come, or 100 ms have passed.
EndFarewell(i) ==
    /\ phase[i] = "farewell"
    /\ phase' = [phase EXCEPT ![i] = "closing"]
    /\ UNCHANGED <<manager, groupStop, dead, life, stopAsked, context>>

\* The onShutdown hook deletes the context and its sockets.
FreeContext(i) ==
    /\ phase[i] = "closing"
    /\ phase' = [phase EXCEPT ![i] = "ended"]
    /\ context' = [context EXCEPT ![i] = "freed"]
    /\ UNCHANGED <<manager, groupStop, dead, life, stopAsked>>

\* What a worker does without the dispatcher, and with it.
ThreadStep(i) ==
    \/ SilentPoll(i) \/ SendResponse(i) \/ LeaveLoop(i)
    \/ EndFarewell(i) \/ FreeContext(i)

Next ==
    \/ ManagerStep
    \/ StopGroup
    \/ \E i \in Id : ThreadStep(i) \/ HeartBeat(i) \/ TakeRequest(i) \/ Fail(i)

Spec == Init /\ [][Next]_vars

\* The manager's polls and joins end, a worker's poll times out and its
\* handler returns; a worker that is asked to stop leaves its loop at the next
\* look at the flag, however many heartbeats it gets.  The control socket is a
\* REP socket and reads its peers in turn, so each DEAD has its turn however
\* many others come.
Fairness ==
    /\ WF_vars(ManagerStep)
    /\ \A i \in Id : SF_vars(ReceiveDead(i)) /\ WF_vars(ThreadStep(i))

FairSpec == Spec /\ Fairness

-----------------------------------------------------------------------------
\* Each DEAD message is of a worker in the map: workers[id] never inserts a
\* null pointer, which shutdown() would follow (lines 291, 308-311).
DeadIsRegistered ==
    /\ nulls = {}
    /\ mpc = "poll" => dead \subseteq registered

\* A thread that runs has its Worker in the map or in the manager's hands, so
\* that it can be stopped and joined (lines 231-233, 258, 293-295).
NoOrphanThread ==
    \A i \in Id :
        phase[i] \notin {"unborn", "ended"} =>
            i \in registered \/ (mpc = "ensure" /\ current = i)

\* When the manager's loop ends no thread and no context of the group is left,
\* and no DEAD is unread in the control socket that stop() then deletes.
StopIsComplete ==
    mpc = "stopped" =>
        /\ dead = {}
        /\ \A i \in Id : /\ phase[i] \in {"unborn", "ended"}
                         /\ context[i] # "live"

\* A worker in the map whose context is freed has its DEAD message unread or
\* is being joined: none stays in the map for ever.  (In between,
\* doRegularProcess reads `active` of the freed context, line 352.)
FreedIsAnnounced ==
    \A i \in registered :
        context[i] = "freed" => i \in dead \/ (mpc = "join" /\ current = i)

\* What makes these inductive: a worker that says DEAD is in the message or
\* being joined as long as it is in the map, and context, phase and identity
\* of a worker agree.
Leaving == {"farewell", "closing", "ended"}

HandsAreFull ==
    /\ mpc = "ensure" => current \in Id \ registered /\ todo > 0
    /\ mpc = "join" => current \in registered \ dead /\ phase[current] \in Leaving
    /\ mpc = "stopped" => registered = {}

InHand == IF mpc = "ensure" THEN {current} ELSE {}

DeadIsKnown ==
    /\ nulls = {}
    /\ dead \subseteq registered \cup InHand
    /\ \A i \in dead : phase[i] \in Leaving
    /\ \A i \in registered \cup InHand :
           /\ phase[i] # "unborn"
           /\ phase[i] \in Leaving => i \in dead \/ (mpc = "join" /\ current = i)

ContextFollowsPhase ==
    \A i \in Id :
        /\ context[i] = "live" => phase[i] \notin {"unborn", "ended"}
        /\ context[i] = "freed" => phase[i] \in {"unborn", "ended"}

GroupInv ==
    /\ TypeOK
    /\ HandsAreFull
    /\ DeadIsKnown
    /\ ContextFollowsPhase
    /\ NoOrphanThread

\* A worker that has ended leaves the map, also while others come and go without
\* end, and the destructor of the group returns (lines 231-233, 287-311), unless
\* the manager procures workers again and again: stop() sets shuttingDown when
\* the loop is over (line 422), so doRegularProcess adds workers to a group that
\* is being stopped and shutdown() waits for them too.
GroupMakesProgress ==
    /\ \A i \in Id : phase[i] = "ended" ~> i \notin registered
    /\ (groupStop ~> mpc = "stopped") \/ []<>(mpc = "ensure")

=============================================================================
