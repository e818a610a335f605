----------------------------- MODULE WorkerProofs -----------------------------
(***************************************************************************)
(* Theorems about Worker for every number of restarts.                     *)
(***************************************************************************)
EXTENDS Worker, TLAPS

LEMMA WorkerInit == Init => WorkerInv
<1> SUFFICES ASSUME Init PROVE WorkerInv
  OBVIOUS
<1>1. joinable \in BOOLEAN /\ has_started \in BOOLEAN
  BY DEF Init
<1>2. working \in BOOLEAN /\ requestedShutdown \in BOOLEAN
  BY DEF Init
<1>3. TypeOK
  BY <1>1, <1>2, MaxStartsAssumption DEF Init, TypeOK
<1>4. QuietWhenStopped /\ FlagsFollow
  BY DEF Init, QuietWhenStopped, FlagsFollow
<1> QED
  BY <1>3, <1>4 DEF WorkerInv

\* The owner: it changes the state of its thread only in DoWork.
LEMMA OwnerStep == WorkerInv /\ (OwnerWaits \/ OwnerCalls) => WorkerInv'
<1> SUFFICES ASSUME WorkerInv, OwnerWaits \/ OwnerCalls PROVE WorkerInv'
  OBVIOUS
<1> USE MaxStartsAssumption
    DEF WorkerInv, TypeOK, QuietWhenStopped, FlagsFollow, flags, Owner, workDone
<1>1. CASE SetWork
  <2>1. requestedShutdown' \in BOOLEAN
    BY <1>1 DEF SetWork
  <2>2. QuietWhenStopped' /\ FlagsFollow'
    BY <1>1 DEF SetWork
  <2> QED
    BY <1>1, <2>1, <2>2 DEF SetWork
<1>2. CASE DoWork
  BY <1>2 DEF DoWork
<1>3. CASE SeeStarted
  BY <1>3 DEF SeeStarted
<1>4. CASE StopWorkAsync
  BY <1>4 DEF StopWorkAsync
<1>5. CASE StopWork
  BY <1>5 DEF StopWork
<1>6. CASE SeeNotWorking
  BY <1>6 DEF SeeNotWorking
<1>7. CASE Join
  BY <1>7 DEF Join
<1>8. CASE Destroy
  BY <1>8 DEF Destroy
<1> QED
  BY <1>1, <1>2, <1>3, <1>4, <1>5, <1>6, <1>7, <1>8 DEF OwnerWaits, OwnerCalls

LEMMA ThreadSteps == WorkerInv /\ (ThreadStep \/ EndOfWork) => WorkerInv'
<1> SUFFICES ASSUME WorkerInv, ThreadStep \/ EndOfWork PROVE WorkerInv'
  OBVIOUS
<1> USE DEF WorkerInv, TypeOK, QuietWhenStopped, FlagsFollow, flags, Thread
<1>1. CASE Started
  BY <1>1 DEF Started
<1>2. CASE Flag
  BY <1>2 DEF Flag
<1>3. CASE Unflag
  BY <1>3 DEF Unflag
<1>4. CASE EndOfWork
  BY <1>4 DEF EndOfWork
<1>5. CASE OnShutdown
  BY <1>5 DEF OnShutdown
<1>6. CASE Catch
  BY <1>6 DEF Catch
<1>7. CASE End
  BY <1>7 DEF End
<1> QED
  BY <1>1, <1>2, <1>3, <1>4, <1>5, <1>6, <1>7 DEF ThreadStep

LEMMA WorkerStep == WorkerInv /\ [Next]_vars => WorkerInv'
<1>1. WorkerInv /\ UNCHANGED vars => WorkerInv'
  BY DEF WorkerInv, TypeOK, QuietWhenStopped, FlagsFollow, vars, flags
<1> QED
  BY <1>1, OwnerStep, ThreadSteps DEF Next

\* The context is released at most once for each setWork, and every other
\* variable keeps its type.
THEOREM WorkerTypeCorrect == Spec => []TypeOK
<1>1. WorkerInv => TypeOK
  BY DEF WorkerInv
<1> QED
  BY <1>1, WorkerInit, WorkerStep, PTL DEF Spec

\* Whenever no doWork is in force the thread is over and the flags are those
\* of a new Worker, however often it was restarted and however its work ended.
THEOREM QuietCorrect == Spec => []QuietWhenStopped
<1>1. WorkerInv => QuietWhenStopped
  BY DEF WorkerInv
<1> QED
  BY <1>1, WorkerInit, WorkerStep, PTL DEF Spec

\* doWork never returns on the strength of an earlier thread's has_started.
THEOREM FreshStart == Spec => StartIsSeenFresh
<1>1. WorkerInv /\ [Next]_vars =>
          [SeeStarted => thread \notin {"none", "born", "ended"}]_vars
  BY DEF WorkerInv, FlagsFollow, SeeStarted
<1> QED
  BY <1>1, WorkerInit, WorkerStep, PTL DEF Spec, StartIsSeenFresh

=============================================================================
