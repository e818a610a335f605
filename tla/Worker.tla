-------------------------------- MODULE Worker --------------------------------
(***************************************************************************)
(* Cordite::Worker (libs/utility/worker.cpp): an object that runs a work   *)
(* function in a thread of its own.  The owner calls setWork, doWork,      *)
(* stopWork, stopWorkAsync and the destructor, one after the other; the    *)
(* thread runs WorkerInternals::worker.  The two share plain bools and     *)
(* condition variables that are only ever waited on with a timeout, so     *)
(* every wait is a loop that looks again.                                  *)
(*                                                                         *)
(* A Worker is used again after stopWork: Dispatcher::start does so.       *)
(***************************************************************************)
EXTENDS Integers

CONSTANT MaxStarts   \* bound: how often doWork is called

ASSUME MaxStartsAssumption == MaxStarts \in Nat \ {0}

VARIABLES
  owner,              \* where the owner is
  thread,             \* where WorkerInternals::worker is
  joinable,           \* t.joinable()
  has_started,
  working,
  requestedShutdown,  \* h.requestedShutdown
  context,            \* contexts h.context points to: 1 from setWork to onShutdown
  starts              \* calls of doWork

flags == <<joinable, has_started, working, requestedShutdown>>
vars == <<owner, thread, flags, context, starts>>

TypeOK ==
    /\ owner \in {"idle", "starting", "running", "stopping", "joining",
                  "stopped", "destroyed"}
    /\ thread \in {"none", "born", "started", "flagged", "work", "returned",
                   "thrown", "ending", "ended"}
    /\ joinable \in BOOLEAN
    /\ has_started \in BOOLEAN
    /\ working \in BOOLEAN
    /\ requestedShutdown \in BOOLEAN
    /\ context \in 0 .. 1
    /\ starts \in 0 .. MaxStarts

Init ==
    /\ owner = "idle"
    /\ thread = "none"
    /\ joinable = FALSE
    /\ has_started = FALSE
    /\ working = FALSE
    /\ requestedShutdown = FALSE
    /\ context = 0
    /\ starts = 0

workDone == ~working /\ ~joinable

-----------------------------------------------------------------------------
(* The owner.                                                              *)

Owner(from, to) == owner = from /\ owner' = to

\* A new Helper, with a context and its flags reset.
SetWork ==
    /\ owner \in {"idle", "stopped"}
    /\ starts < MaxStarts
    /\ context' = 1
    /\ requestedShutdown' = FALSE
    /\ UNCHANGED <<owner, thread, joinable, has_started, working, starts>>

\* std::thread's assignment terminates the program when t is joinable.
DoWork ==
    /\ owner \in {"idle", "stopped"}
    /\ context = 1
    /\ starts < MaxStarts
    /\ thread' = "born"
    /\ joinable' = TRUE
    /\ owner' = "starting"
    /\ starts' = starts + 1
    /\ UNCHANGED <<has_started, working, requestedShutdown, context>>

\* The end of doWork's loop.
SeeStarted ==
    /\ Owner("starting", "running")
    /\ has_started
    /\ UNCHANGED <<thread, flags, context, starts>>

StopWorkAsync ==
    /\ owner = "running"
    /\ ~workDone
    /\ ~requestedShutdown
    /\ requestedShutdown' = TRUE
    /\ UNCHANGED <<owner, thread, joinable, has_started, working, context,
                   starts>>

\* Mutant of StopWork: the work function is not asked to end.
StopWorkUnasked ==
    /\ Owner("running", "stopping")
    /\ ~workDone
    /\ UNCHANGED <<thread, flags, context, starts>>

\* Also the first half of the destructor of a Worker that is not done.
StopWork ==
    /\ Owner("running", "stopping")
    /\ ~workDone
    /\ requestedShutdown' = TRUE
    /\ UNCHANGED <<thread, joinable, has_started, working, context, starts>>

\* The end of stopWork's loop on `working`.
SeeNotWorking ==
    /\ Owner("stopping", "joining")
    /\ ~working
    /\ UNCHANGED <<thread, flags, context, starts>>

\* Mutant of Join: stopWork trusts `working` and detaches the thread.
JoinNotWaiting ==
    /\ Owner("joining", "stopped")
    /\ joinable' = FALSE
    /\ UNCHANGED <<thread, has_started, working, requestedShutdown, context,
                   starts>>

Join ==
    /\ Owner("joining", "stopped")
    /\ thread = "ended"
    /\ joinable' = FALSE
    /\ UNCHANGED <<thread, has_started, working, requestedShutdown, context,
                   starts>>

\* Worker::~Worker once there is nothing to stop.
Destroy ==
    /\ owner \in {"idle", "stopped"}
    /\ workDone
    /\ owner' = "destroyed"
    /\ UNCHANGED <<thread, flags, context, starts>>

OwnerWaits == SeeStarted \/ SeeNotWorking \/ Join
OwnerCalls == SetWork \/ DoWork \/ StopWorkAsync \/ StopWork \/ Destroy

-----------------------------------------------------------------------------
(* The thread.                                                             *)

Thread(from, to) == thread = from /\ thread' = to

\* Mutant of Started: has_started is not set.
StartedUnseen ==
    /\ Thread("born", "started")
    /\ UNCHANGED <<owner, flags, context, starts>>

\* WorkerScopedBool t(i->has_started)
Started ==
    /\ Thread("born", "started")
    /\ has_started' = TRUE
    /\ UNCHANGED <<owner, joinable, working, requestedShutdown, context, starts>>

\* WorkerScopedBool(i->working) is a temporary, which sets `working` ...
Flag ==
    /\ Thread("started", "flagged")
    /\ working' = TRUE
    /\ UNCHANGED <<owner, joinable, has_started, requestedShutdown, context,
                   starts>>

\* ... and resets it at once.
Unflag ==
    /\ Thread("flagged", "work")
    /\ working' = FALSE
    /\ UNCHANGED <<owner, joinable, has_started, requestedShutdown, context,
                   starts>>

\* The work function returns or throws, and does so at the latest when it sees
\* requestedShutdown.
EndOfWork ==
    /\ Thread("work", "returned") \/ Thread("work", "thrown")
    /\ UNCHANGED <<owner, flags, context, starts>>

OnShutdown ==
    /\ Thread("returned", "ending")
    /\ context' = context - 1
    /\ UNCHANGED <<owner, flags, starts>>

\* One of the catch clauses: the exception is logged.
Catch ==
    /\ Thread("thrown", "ending")
    /\ UNCHANGED <<owner, flags, context, starts>>

\* Mutant of End: has_started stays set when the thread ends.
EndStillStarted ==
    /\ Thread("ending", "ended")
    /\ working' = FALSE
    /\ UNCHANGED <<owner, joinable, has_started, requestedShutdown, context,
                   starts>>

\* Mutant of End: onShutdown is called on every way out of the thread.
EndReleasing ==
    /\ Thread("ending", "ended")
    /\ working' = FALSE
    /\ has_started' = FALSE
    /\ context' = context - 1
    /\ UNCHANGED <<owner, joinable, requestedShutdown, starts>>

\* working = false, and the scope of has_started ends.
End ==
    /\ Thread("ending", "ended")
    /\ working' = FALSE
    /\ has_started' = FALSE
    /\ UNCHANGED <<owner, joinable, requestedShutdown, context, starts>>

ThreadStep == Started \/ Flag \/ Unflag \/ OnShutdown \/ Catch \/ End

Next == OwnerWaits \/ OwnerCalls \/ ThreadStep \/ EndOfWork

Spec == Init /\ [][Next]_vars

\* Neither thread starves, and a work function heeds requestedShutdown.  The
\* owner does not have to call anything.
Fairness ==
    /\ WF_vars(OwnerWaits)
    /\ WF_vars(ThreadStep)
    /\ WF_vars(requestedShutdown /\ EndOfWork)

FairSpec == Spec /\ Fairness

-----------------------------------------------------------------------------
\* When stopWork has returned, and until doWork is called again, the thread is
\* over and nothing of it is left in the flags, so the Worker can be restarted
\* or destroyed ("Thread should already be dead!", line 93).  `working` does
\* not tell: it is FALSE while the work function runs (line 55).
QuietWhenStopped ==
    owner \in {"idle", "stopped", "destroyed"} =>
        /\ thread \in {"none", "ended"}
        /\ ~joinable /\ ~has_started /\ ~working

\* What makes it inductive: the flags follow the thread and the owner, and the
\* thread has a context to work with until onShutdown.
FlagsFollow ==
    /\ joinable <=> owner \in {"starting", "running", "stopping", "joining"}
    /\ has_started <=> thread \in {"started", "flagged", "work", "returned",
                                   "thrown", "ending"}
    /\ working <=> thread = "flagged"
    /\ thread \in {"born", "started", "flagged", "work", "returned", "thrown"}
           => context = 1

WorkerInv == TypeOK /\ QuietWhenStopped /\ FlagsFollow

\* doWork returns only for the thread that it started, not for what an earlier
\* thread of the same Worker has left in has_started (lines 51, 118).
StartIsSeenFresh ==
    [][SeeStarted => thread \notin {"none", "born", "ended"}]_vars

\* stopWork returns.
StopReturns == owner = "stopping" ~> owner = "stopped"

\* doWork returns, unless the thread is over before doWork looks at
\* has_started for the first time: the flag is reset by then and doWork looks
\* for ever (lines 51, 118-122).
StartReturnsOrMissed == owner = "starting" ~> (owner = "running" \/ thread = "ended")

=============================================================================
