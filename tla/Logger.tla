-------------------------------- MODULE Logger --------------------------------
(***************************************************************************)
(* The life of the logger thread (libs/utility/logger.cpp).  The threads   *)
(* of the program call Logger::start, log and shutdown; the first one to   *)
(* start creates the logger thread, the last one to shut down sends it     *)
(* "end" and joins it.  threadsUp, loggerActive, logger_thread_ptr and the *)
(* mutexes loggerCalled and loggerInstance are shared, the socket and its  *)
(* count `active` belong to one thread each.                               *)
(*                                                                         *)
(* A thread sends over a pipe of its own (PUSH, inproc) and the logger     *)
(* reads the pipes in turn.  Limits, outputs and the layout of a message   *)
(* are left out.                                                           *)
(***************************************************************************)
EXTENDS Integers, FiniteSets

CONSTANTS
  Thread,      \* the threads that log, each one starts logging once
  Nobody,      \* no thread
  MaxActive,   \* bound: how deep start() is nested in one thread
  MaxLogs      \* the messages that a pipe holds

ASSUME LoggerAssumption ==
    /\ Nobody \notin Thread
    /\ IsFiniteSet(Thread)
    /\ MaxActive \in Nat \ {0}
    /\ MaxLogs \in Nat

VARIABLES
  (* shared *)
  loggerActive,
  threadsUp,
  loggerCalled,       \* the holder of the mutex, or Nobody
  loggerInstance,     \* the logger thread that holds the mutex, or 0
  logger_thread_ptr,  \* the logger thread it points to, or 0
  (* the threads that log *)
  pc,
  active,             \* starts without a shutdown
  sock,               \* the logger thread that sock is connected to, or 0
  pipe,               \* messages that wait in the pipe of a thread
  endSent,            \* ... with "end" behind them
  (* the logger threads *)
  context,            \* what getContext() gives: "none", "shown" is a pointer
                      \* to a context that is not complete, or "made"
  logger,
  lost                \* threads of which a message that was sent was not shown

shared  == <<loggerActive, threadsUp, loggerCalled, logger_thread_ptr>>
own     == <<active, sock>>
pipes   == <<pipe, endSent, lost>>
loggers == <<loggerInstance, context, logger>>
vars == <<shared, pc, own, pipes, loggers>>

\* Each thread creates one logger thread at most.
Instance == 1 .. Cardinality(Thread)

Bound == {n \in Instance : logger[n] \in {"running", "ending", "closing"}}

TypeOK ==
    /\ loggerActive \in BOOLEAN
    /\ threadsUp \in Nat
    /\ loggerCalled \in Thread \cup {Nobody}
    /\ loggerInstance \in Instance \cup {0}
    /\ logger_thread_ptr \in Instance \cup {0}
    /\ pc \in [Thread -> {"out", "check", "lock", "second", "await", "connect",
                          "count", "up", "leave", "endlock", "waiting",
                          "asleep", "join", "close", "gone", "thrown"}]
    /\ active \in [Thread -> 0 .. MaxActive]
    /\ sock \in [Thread -> Instance \cup {0}]
    /\ pipe \in [Thread -> 0 .. MaxLogs]
    /\ endSent \in [Thread -> BOOLEAN]
    /\ context \in {"none", "shown", "made"}
    /\ logger \in [Instance -> {"none", "spawned", "locked", "failed",
                                "running", "ending", "closing", "ended"}]
    /\ lost \subseteq Thread

Init ==
    /\ loggerActive = FALSE
    /\ threadsUp = 0
    /\ loggerCalled = Nobody
    /\ loggerInstance = 0
    /\ logger_thread_ptr = 0
    /\ pc = [t \in Thread |-> "out"]
    /\ active = [t \in Thread |-> 0]
    /\ sock = [t \in Thread |-> 0]
    /\ pipe = [t \in Thread |-> 0]
    /\ endSent = [t \in Thread |-> FALSE]
    /\ context = "none"
    /\ logger = [n \in Instance |-> "none"]
    /\ lost = {}

Go(t, from, to) == pc[t] = from /\ pc' = [pc EXCEPT ![t] = to]

-----------------------------------------------------------------------------
(* Logger::start                                                           *)

Start(t) ==
    /\ Go(t, "out", "check")
    /\ active' = [active EXCEPT ![t] = @ + 1]
    /\ UNCHANGED <<shared, sock, pipes, loggers>>

\* A start of a thread that has its socket only counts.
StartAgain(t) ==
    /\ pc[t] = "up"
    /\ active[t] < MaxActive
    /\ active' = [active EXCEPT ![t] = @ + 1]
    /\ UNCHANGED <<shared, pc, sock, pipes, loggers>>

CheckActive(t) ==
    /\ Go(t, "check", IF loggerActive THEN "connect" ELSE "lock")
    /\ UNCHANGED <<shared, own, pipes, loggers>>

Acquire(t, from, to) ==
    /\ Go(t, from, to)
    /\ loggerCalled = Nobody
    /\ loggerCalled' = t

LockToStart(t) ==
    /\ Acquire(t, "lock", "second")
    /\ UNCHANGED <<loggerActive, threadsUp, logger_thread_ptr, own, pipes,
                   loggers>>

\* Somebody else has started the logger.
CheckAgain(t) ==
    /\ Go(t, "second", "connect")
    /\ loggerActive
    /\ loggerCalled' = Nobody
    /\ UNCHANGED <<loggerActive, threadsUp, logger_thread_ptr, own, pipes,
                   loggers>>

\* Mutant of Spawn: the mutex is not kept while the new thread starts.
SpawnUnguarded(t) ==
    \E n \in Instance :
        /\ Go(t, "second", "await")
        /\ ~loggerActive
        /\ logger[n] = "none" /\ \A k \in 1 .. n - 1 : logger[k] # "none"
        /\ logger' = [logger EXCEPT ![n] = "spawned"]
        /\ logger_thread_ptr' = n
        /\ loggerCalled' = Nobody
        /\ UNCHANGED <<loggerActive, threadsUp, own, pipes, loggerInstance,
                       context>>

\* A thread that nobody has joined may still be in logger_thread_ptr.
Spawn(t) ==
    \E n \in Instance :
        /\ Go(t, "second", "await")
        /\ ~loggerActive
        /\ logger[n] = "none" /\ \A k \in 1 .. n - 1 : logger[k] # "none"
        /\ logger' = [logger EXCEPT ![n] = "spawned"]
        /\ logger_thread_ptr' = n
        /\ UNCHANGED <<loggerActive, threadsUp, loggerCalled, own, pipes,
                       loggerInstance, context>>

\* The end of `while(!loggerActive)` and of the guard's scope.
SeeActive(t) ==
    /\ Go(t, "await", "connect")
    /\ loggerActive
    /\ loggerCalled' = Nobody
    /\ UNCHANGED <<loggerActive, threadsUp, logger_thread_ptr, own, pipes,
                   loggers>>

\* An inproc connect needs a receiver that is bound, else start() throws.
Connect(t) ==
    \/ \E n \in Bound :
           /\ Go(t, "connect", "count")
           /\ sock' = [sock EXCEPT ![t] = n]
           /\ UNCHANGED <<shared, active, pipes, loggers>>
    \/ /\ Bound = {}
       /\ Go(t, "connect", "thrown")
       /\ UNCHANGED <<shared, own, pipes, loggers>>

\* Mutant of Count: the thread is not counted.
CountForgotten(t) ==
    /\ Go(t, "count", "up")
    /\ UNCHANGED <<shared, own, pipes, loggers>>

Count(t) ==
    /\ Go(t, "count", "up")
    /\ threadsUp' = threadsUp + 1
    /\ UNCHANGED <<loggerActive, loggerCalled, logger_thread_ptr, own, pipes,
                   loggers>>

StartStep(t) ==
    \/ CheckActive(t) \/ LockToStart(t) \/ CheckAgain(t) \/ Spawn(t)
    \/ SeeActive(t) \/ Connect(t) \/ Count(t)

-----------------------------------------------------------------------------
(* Logger::log of a message that is not below lowestLog.  The send times   *)
(* out after 35 ms when nobody is at the other end or the pipe is full,    *)
(* and nothing has changed.                                                *)

HasRoom(t) == sock[t] \in Bound /\ pipe[t] < MaxLogs

Log(t) ==
    /\ pc[t] = "up"
    /\ HasRoom(t)
    /\ pipe' = [pipe EXCEPT ![t] = @ + 1]
    /\ UNCHANGED <<shared, pc, own, endSent, lost, loggers>>

-----------------------------------------------------------------------------
(* Logger::shutdown                                                        *)

\* The outermost shutdown of the thread goes on, an inner one only counts.
Shutdown(t) ==
    /\ pc[t] = "up"
    /\ active' = [active EXCEPT ![t] = @ - 1]
    /\ pc' = [pc EXCEPT ![t] = IF active[t] = 1 THEN "leave" ELSE "up"]
    /\ UNCHANGED <<shared, sock, pipes, loggers>>

\* Mutant of Leave: if(threadsUp-- == 0)
LeaveOffByOne(t) ==
    /\ Go(t, "leave", IF threadsUp = 0 THEN "endlock" ELSE "close")
    /\ threadsUp' = threadsUp - 1
    /\ UNCHANGED <<loggerActive, loggerCalled, logger_thread_ptr, own, pipes,
                   loggers>>

\* if(--threadsUp == 0)
Leave(t) ==
    /\ Go(t, "leave", IF threadsUp = 1 THEN "endlock" ELSE "close")
    /\ threadsUp' = threadsUp - 1
    /\ UNCHANGED <<loggerActive, loggerCalled, logger_thread_ptr, own, pipes,
                   loggers>>

\* Mutant of SendEnd: the logger is not told.
SendEndForgotten(t) ==
    /\ Acquire(t, "endlock", "waiting")
    /\ UNCHANGED <<loggerActive, threadsUp, logger_thread_ptr, own, pipes,
                   loggers>>

\* The mutex is taken and "end" is sent, which fails without a word when the
\* receiver that sock was connected to has gone or the pipe stays full.
SendEnd(t) ==
    /\ Acquire(t, "endlock", "waiting")
    /\ endSent' = [endSent EXCEPT ![t] = HasRoom(t)]
    /\ UNCHANGED <<loggerActive, threadsUp, logger_thread_ptr, own, pipe, lost,
                   loggers>>

\* while(loggerActive) shutdownComplete.wait_for(guard, 50 ms)
WaitForLogger(t) ==
    /\ Go(t, "waiting", IF loggerActive THEN "asleep" ELSE "join")
    /\ loggerCalled' = IF loggerActive THEN Nobody ELSE t
    /\ UNCHANGED <<loggerActive, threadsUp, logger_thread_ptr, own, pipes,
                   loggers>>

WakeUp(t) ==
    /\ Acquire(t, "asleep", "waiting")
    /\ UNCHANGED <<loggerActive, threadsUp, logger_thread_ptr, own, pipes,
                   loggers>>

\* Another thread may have joined and deleted the logger thread already.
JoinLogger(t) ==
    /\ Go(t, "join", "close")
    /\ logger_thread_ptr # 0 => logger[logger_thread_ptr] = "ended"
    /\ logger_thread_ptr' = 0
    /\ loggerCalled' = Nobody
    /\ UNCHANGED <<loggerActive, threadsUp, own, pipes, loggers>>

CloseSocket(t) ==
    /\ Go(t, "close", "gone")
    /\ sock' = [sock EXCEPT ![t] = 0]
    /\ UNCHANGED <<shared, active, pipes, loggers>>

ShutdownStep(t) ==
    \/ Leave(t) \/ SendEnd(t) \/ WaitForLogger(t) \/ WakeUp(t)
    \/ JoinLogger(t) \/ CloseSocket(t)

-----------------------------------------------------------------------------
(* logger_thread                                                           *)

Turn(n, from, to) == logger[n] = from /\ logger' = [logger EXCEPT ![n] = to]

LockInstance(n) ==
    /\ Turn(n, "spawned", "locked")
    /\ loggerInstance = 0
    /\ loggerInstance' = n
    /\ UNCHANGED <<shared, context, pc, own, pipes>>

\* The first getContext() of the program is this one: the pointer may be seen
\* before what it points to.
MakeContext(n) ==
    /\ logger[n] = "locked"
    /\ \/ context = "none" /\ context' = "shown"
       \/ context = "shown" /\ context' = "made"
    /\ UNCHANGED <<shared, pc, own, pipes, loggerInstance, logger>>

BindReceiver(n) ==
    /\ Turn(n, "locked", "running")
    /\ context = "made"
    /\ loggerActive' = TRUE
    /\ UNCHANGED <<threadsUp, loggerCalled, logger_thread_ptr, pc, own, pipes,
                   loggerInstance, context>>

\* libzmq frees the address of an earlier receiver in the background, so the
\* bind may fail: loggerActive is shown for two milliseconds, for start() to see
\* when it looks, every millisecond or later.
BindFails(n) ==
    /\ Turn(n, "locked", "failed")
    /\ \E k \in Instance : logger[k] = "ended"
    /\ loggerActive' = TRUE
    /\ UNCHANGED <<threadsUp, loggerCalled, logger_thread_ptr, pc, own, pipes,
                   loggerInstance, context>>

\* Nobody asks whether it was seen.
GiveUp(n) ==
    /\ Turn(n, "failed", "ended")
    /\ loggerActive' = FALSE
    /\ loggerInstance' = 0
    /\ UNCHANGED <<threadsUp, loggerCalled, logger_thread_ptr, context, pc, own,
                   pipes>>

\* A message of a thread that is still there or has left.
PipesOf(n) == {t \in Thread : sock[t] \in {n, 0}}

ShowMessage(n, t) ==
    /\ logger[n] = "running"
    /\ t \in PipesOf(n)
    /\ pipe[t] > 0
    /\ pipe' = [pipe EXCEPT ![t] = @ - 1]
    /\ UNCHANGED <<shared, pc, own, endSent, lost, loggers>>

\* "end" comes behind the messages of its own pipe, not of the others.
ReceiveEnd(n, t) ==
    /\ Turn(n, "running", "ending")
    /\ t \in PipesOf(n)
    /\ pipe[t] = 0
    /\ endSent[t]
    /\ endSent' = [endSent EXCEPT ![t] = FALSE]
    /\ UNCHANGED <<shared, pc, own, pipe, lost, loggerInstance, context>>

Read(n, t) == ShowMessage(n, t) \/ ReceiveEnd(n, t)

\* Mutant of BecomeInactive: loggerInstance is released too early.
BecomeInactiveReleasing(n) ==
    /\ Turn(n, "ending", "closing")
    /\ loggerInstance' = 0
    /\ UNCHANGED <<shared, context, pc, own, pipes>>

\* loggerActive = false; notify_all
BecomeInactive(n) ==
    /\ Turn(n, "ending", "closing")
    /\ loggerActive' = FALSE
    /\ UNCHANGED <<threadsUp, loggerCalled, logger_thread_ptr, pc, own, pipes,
                   loggerInstance, context>>

\* The receiver goes with what is unread in it, then the mutex.
CloseReceiver(n) ==
    /\ Turn(n, "closing", "ended")
    /\ loggerInstance' = 0
    /\ lost' = lost \cup {t \in PipesOf(n) : pipe[t] > 0}
    /\ pipe' = [t \in Thread |-> IF t \in PipesOf(n) THEN 0 ELSE pipe[t]]
    /\ endSent' = [t \in Thread |-> endSent[t] /\ t \notin PipesOf(n)]
    /\ UNCHANGED <<shared, context, pc, own>>

LoggerStep(n) ==
    \/ LockInstance(n) \/ MakeContext(n) \/ BindReceiver(n) \/ BindFails(n)
    \/ GiveUp(n) \/ BecomeInactive(n) \/ CloseReceiver(n)

Next ==
    \/ \E t \in Thread : \/ Start(t) \/ StartAgain(t) \/ StartStep(t)
                         \/ Log(t) \/ Shutdown(t) \/ ShutdownStep(t)
    \/ \E n \in Instance : LoggerStep(n) \/ \E t \in Thread : Read(n, t)

Spec == Init /\ [][Next]_vars

\* Threads are scheduled, a mutex is had in the end by one that waits for it,
\* the outermost ScopedLogger of a thread goes out of scope, and the logger
\* reads its pipes in turn.
Fairness ==
    /\ \A t \in Thread :
           /\ SF_vars(StartStep(t) \/ ShutdownStep(t)
                         \/ (active[t] = 1 /\ Shutdown(t)))
           /\ WF_vars(Shutdown(t))
           /\ SF_vars(\E n \in Instance : Read(n, t))
    /\ WF_vars(\E n \in Instance : LoggerStep(n))

FairSpec == Spec /\ Fairness

-----------------------------------------------------------------------------
\* loggerActive is what start() and shutdown() go by: it is set exactly while
\* a logger thread runs or pretends to (lines 101, 293, 302-304), also when a
\* new logger thread is created before the old one has returned.  And a thread
\* that has waited for it calls getContext() (line 341) only when the context
\* is complete, which the double-checked lock of zeromq.cpp:10-18 would not
\* see to.
LoggerActiveTells ==
    /\ loggerActive <=>
           \E n \in Instance : logger[n] \in {"running", "ending", "failed"}
    /\ context # "made" => \A t \in Thread : pc[t] \notin {"connect", "count", "up"}

\* The join of shutdown(), which keeps loggerCalled, is only of a logger thread
\* that is about to return by itself (lines 362-376): never of one that was
\* created by another thread and waits for messages.
JoinIsShort ==
    \A t \in Thread :
        pc[t] = "join" /\ logger_thread_ptr # 0 =>
            logger[logger_thread_ptr] \in {"closing", "ended"}

(* What makes them inductive.                                              *)

\* A thread that is being started has started once at least.
StartsAreCounted ==
    \A t \in Thread :
        /\ pc[t] = "out" => active[t] = 0
        /\ pc[t] \in {"check", "lock", "second", "await", "connect", "count", "up"} =>
               active[t] >= 1

Counted == {t \in Thread : pc[t] \in {"up", "leave"}}

MutexesAreHeld ==
    /\ \A t \in Thread :
           loggerCalled = t <=> pc[t] \in {"second", "await", "waiting", "join"}
    /\ \A n \in Instance :
           loggerInstance = n <=>
               logger[n] \in {"locked", "failed", "running", "ending", "closing"}

\* Only a logger thread that has made the context lets others go on.
ContextIsMade ==
    (\E n \in Instance : logger[n] \notin {"none", "spawned", "locked"}) =>
        context = "made"

\* Who creates a logger thread keeps the mutex until it is active: there is
\* one such thread at most, and it is the last one that was created.
NewIsAwaited ==
    /\ \A n \in Instance : logger[n] \in {"spawned", "locked"} =>
           /\ n = logger_thread_ptr
           /\ ~loggerActive
           /\ \E t \in Thread : pc[t] = "await"
    /\ logger_thread_ptr # 0 => logger[logger_thread_ptr] # "none"

LoggerInv ==
    /\ TypeOK
    /\ StartsAreCounted
    /\ threadsUp = Cardinality(Counted)
    /\ MutexesAreHeld
    /\ ContextIsMade
    /\ NewIsAwaited
    /\ LoggerActiveTells
    /\ JoinIsShort

-----------------------------------------------------------------------------
\* The "end" of t went to a logger that was gone already, and its shutdown waits
\* for the end of the next one (lines 360-367); or it found the pipe full, and
\* the logger does not know that it should end (lines 342-343, 363).
Stranded(t) ==
    /\ pc[t] \in {"waiting", "asleep"}
    /\ \/ sock[t] # logger_thread_ptr /\ logger[sock[t]] = "ended"
       \/ logger[sock[t]] = "running" /\ pipe[t] = MaxLogs /\ ~endSent[t]

\* Some start() did not look during the two milliseconds of a failed logger
\* (lines 302-304, 335): it waits for ever, with loggerCalled.
StartMissed ==
    \E t \in Thread : pc[t] = "await" /\ logger[logger_thread_ptr] = "ended"

\* Each start() and, when all threads shut down in the end, each shutdown()
\* returns, by an exception or not, unless a start() missed its logger or the
\* "end" of the shutdown was lost: then nobody may be left to end the logger
\* that it waits for.  It takes three threads to send it to the wrong logger.
CallsReturn ==
    \A t \in Thread :
        /\ pc[t] = "check" ~> (pc[t] \in {"up", "thrown"} \/ StartMissed)
        /\ pc[t] = "leave" ~> (pc[t] = "gone" \/ Stranded(t) \/ StartMissed)

\* When every thread has gone the logger threads end.
LoggersEnd ==
    (\A t \in Thread : pc[t] = "gone") ~>
        (\A n \in Instance : logger[n] \in {"none", "ended"})

\* tests/logger.cpp logs a warning with the words "But I should show up!"
\* (line 28), shuts down and is joined before the last thread shuts down: no
\* message of a thread that has gone is lost.
MessagesShowUp ==
    [][\A t \in lost' \ lost : pc[t] # "gone"]_vars

=============================================================================
