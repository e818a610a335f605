----------------------------- MODULE LoggerProofs -----------------------------
(***************************************************************************)
(* Theorems about Logger for any number of threads, any depth of nested    *)
(* starts and any number of messages in a pipe.                            *)
(***************************************************************************)
EXTENDS Logger, FiniteSetTheorems, TLAPS

LEMMA NoThread == 0 \notin Instance /\ Nobody \notin Thread
BY LoggerAssumption DEF Instance

LEMMA CountedIsNat ==
    /\ IsFiniteSet(Counted) /\ Cardinality(Counted) \in Nat
    /\ \A t \in Counted : Cardinality(Counted) >= 1
<1>1. IsFiniteSet(Counted) /\ Cardinality(Counted) \in Nat
  BY LoggerAssumption, FS_Subset, FS_CardinalityType DEF Counted
<1>2. Cardinality(Counted) = 0 <=> Counted = {}
  BY <1>1, FS_EmptySet
<1> QED
  BY <1>1, <1>2

-----------------------------------------------------------------------------
(* The shared count is the number of threads between their start and their *)
(* shutdown.                                                               *)

\* What a step of thread t leaves as it was: the threads of the program.
LEMMA Moved ==
    ASSUME TypeOK, NEW t \in Thread, NEW a, NEW b, Go(t, a, b)
    PROVE  pc[t] = a /\ pc'[t] = b /\ \A s \in Thread \ {t} : pc'[s] = pc[s]
BY DEF Go, TypeOK

\* threadsUp is counted up and down with the set it counts.
LEMMA ThreadsUpStep ==
    ASSUME TypeOK, threadsUp = Cardinality(Counted), [Next]_vars
    PROVE  threadsUp' = Cardinality(Counted)' /\ threadsUp' \in Nat
<1>1. ASSUME threadsUp' = threadsUp, \A t \in Thread : t \in Counted <=> t \in Counted'
      PROVE  threadsUp' = Cardinality(Counted)' /\ threadsUp' \in Nat
  <2>1. Counted' = Counted
    BY <1>1 DEF Counted
  <2> QED
    BY <1>1, <2>1, CountedIsNat
<1>2. ASSUME NEW t \in Thread,
             \/ Start(t) \/ StartAgain(t) \/ CheckActive(t) \/ LockToStart(t)
             \/ CheckAgain(t) \/ Spawn(t) \/ SeeActive(t) \/ Connect(t) \/ Log(t)
             \/ Shutdown(t) \/ SendEnd(t) \/ WaitForLogger(t) \/ WakeUp(t)
             \/ JoinLogger(t) \/ CloseSocket(t)
      PROVE  threadsUp' = Cardinality(Counted)' /\ threadsUp' \in Nat
  <2>1. threadsUp' = threadsUp
    BY <1>2 DEF Start, StartAgain, CheckActive, LockToStart, CheckAgain, Spawn,
                SeeActive, Connect, Log, Shutdown, SendEnd, WaitForLogger, WakeUp,
                JoinLogger, CloseSocket, shared
  <2>2. \A s \in Thread : s \in Counted <=> s \in Counted'
    BY <1>2 DEF Start, StartAgain, CheckActive, LockToStart, CheckAgain, Spawn,
                SeeActive, Connect, Log, Shutdown, SendEnd, WaitForLogger, WakeUp,
                JoinLogger, CloseSocket, Go, Acquire, Counted, TypeOK
  <2> QED
    BY <1>1, <2>1, <2>2
<1>3. ASSUME NEW t \in Thread, Count(t)
      PROVE  threadsUp' = Cardinality(Counted)' /\ threadsUp' \in Nat
  <2>1. Counted' = Counted \cup {t} /\ t \notin Counted
    BY <1>3, Moved DEF Count, Counted
  <2>2. Cardinality(Counted') = Cardinality(Counted) + 1
    BY <2>1, CountedIsNat, FS_AddElement
  <2> QED
    BY <1>3, <2>2, CountedIsNat DEF Count
<1>4. ASSUME NEW t \in Thread, Leave(t)
      PROVE  threadsUp' = Cardinality(Counted)' /\ threadsUp' \in Nat
  <2>1. Counted' = Counted \ {t} /\ t \in Counted
    BY <1>4 DEF Leave, Go, Counted, TypeOK
  <2>2. Cardinality(Counted') = Cardinality(Counted) - 1
    BY <2>1, CountedIsNat, FS_RemoveElement
  <2> QED
    BY <1>4, <2>1, <2>2, CountedIsNat DEF Leave
<1>5. CASE \/ \E n \in Instance : LoggerStep(n) \/ \E t \in Thread : Read(n, t)
           \/ UNCHANGED vars
  <2>1. threadsUp' = threadsUp /\ pc' = pc
    BY <1>5 DEF LoggerStep, Read, LockInstance, MakeContext, BindReceiver, BindFails,
                GiveUp, BecomeInactive, CloseReceiver, ShowMessage, ReceiveEnd,
                shared, vars
  <2>2. \A s \in Thread : s \in Counted <=> s \in Counted'
    BY <2>1 DEF Counted
  <2> QED
    BY <1>1, <2>1, <2>2
<1> QED
  BY <1>2, <1>3, <1>4, <1>5 DEF Next, StartStep, ShutdownStep

\* A shutdown undoes a start, the outermost one makes the thread leave.
LEMMA StartsStep ==
    ASSUME TypeOK, StartsAreCounted, [Next]_vars
    PROVE  StartsAreCounted'
<1> USE NoThread DEF TypeOK, StartsAreCounted, own
<1>1. ASSUME NEW t \in Thread,
             \/ Start(t) \/ StartAgain(t) \/ CheckActive(t) \/ LockToStart(t)
             \/ CheckAgain(t) \/ Spawn(t) \/ SeeActive(t) \/ Connect(t) \/ Count(t)
             \/ Log(t) \/ Shutdown(t) \/ Leave(t) \/ SendEnd(t) \/ WaitForLogger(t)
             \/ WakeUp(t) \/ JoinLogger(t) \/ CloseSocket(t)
      PROVE  StartsAreCounted'
  BY <1>1
     DEF Start, StartAgain, CheckActive, LockToStart, CheckAgain, Spawn, SeeActive,
         Connect, Count, Log, Shutdown, Leave, SendEnd, WaitForLogger, WakeUp,
         JoinLogger, CloseSocket, Go, Acquire
<1>2. ASSUME NEW n \in Instance,
             \/ LockInstance(n) \/ MakeContext(n) \/ BindReceiver(n) \/ BindFails(n)
             \/ GiveUp(n) \/ BecomeInactive(n) \/ CloseReceiver(n)
             \/ \E t \in Thread : ShowMessage(n, t) \/ ReceiveEnd(n, t)
      PROVE  StartsAreCounted'
  BY <1>2
     DEF LockInstance, MakeContext, BindReceiver, BindFails, GiveUp, BecomeInactive,
         CloseReceiver, ShowMessage, ReceiveEnd, Turn
<1>3. CASE UNCHANGED vars
  BY <1>3 DEF vars, pipes
<1> QED
  BY <1>1, <1>2, <1>3 DEF Next, StartStep, ShutdownStep, LoggerStep, Read

\* A mutex is held exactly between the steps that take and release it.
LEMMA MutexStep ==
    ASSUME TypeOK, MutexesAreHeld, [Next]_vars
    PROVE  MutexesAreHeld'
<1> USE NoThread DEF TypeOK, MutexesAreHeld, shared, loggers
<1>1. ASSUME NEW t \in Thread,
             \/ Start(t) \/ StartAgain(t) \/ CheckActive(t) \/ LockToStart(t)
             \/ CheckAgain(t) \/ Spawn(t) \/ SeeActive(t) \/ Connect(t) \/ Count(t)
             \/ Log(t) \/ Shutdown(t) \/ Leave(t) \/ SendEnd(t) \/ WaitForLogger(t)
             \/ WakeUp(t) \/ JoinLogger(t) \/ CloseSocket(t)
      PROVE  MutexesAreHeld'
  BY <1>1
     DEF Start, StartAgain, CheckActive, LockToStart, CheckAgain, Spawn, SeeActive,
         Connect, Count, Log, Shutdown, Leave, SendEnd, WaitForLogger, WakeUp,
         JoinLogger, CloseSocket, Go, Acquire
<1>2. ASSUME NEW n \in Instance,
             \/ LockInstance(n) \/ MakeContext(n) \/ BindReceiver(n) \/ BindFails(n)
             \/ GiveUp(n) \/ BecomeInactive(n) \/ CloseReceiver(n)
             \/ \E t \in Thread : ShowMessage(n, t) \/ ReceiveEnd(n, t)
      PROVE  MutexesAreHeld'
  BY <1>2
     DEF LockInstance, MakeContext, BindReceiver, BindFails, GiveUp, BecomeInactive,
         CloseReceiver, ShowMessage, ReceiveEnd, Turn
<1>3. CASE UNCHANGED vars
  BY <1>3 DEF vars, pipes
<1> QED
  BY <1>1, <1>2, <1>3 DEF Next, StartStep, ShutdownStep, LoggerStep, Read

\* The context is never unmade.
LEMMA ContextStep ==
    ASSUME TypeOK, ContextIsMade, [Next]_vars
    PROVE  ContextIsMade'
<1> USE NoThread DEF TypeOK, ContextIsMade, loggers
<1>1. ASSUME NEW t \in Thread,
             \/ Start(t) \/ StartAgain(t) \/ CheckActive(t) \/ LockToStart(t)
             \/ CheckAgain(t) \/ Spawn(t) \/ SeeActive(t) \/ Connect(t) \/ Count(t)
             \/ Log(t) \/ Shutdown(t) \/ Leave(t) \/ SendEnd(t) \/ WaitForLogger(t)
             \/ WakeUp(t) \/ JoinLogger(t) \/ CloseSocket(t)
      PROVE  ContextIsMade'
  BY <1>1
     DEF Start, StartAgain, CheckActive, LockToStart, CheckAgain, Spawn, SeeActive,
         Connect, Count, Log, Shutdown, Leave, SendEnd, WaitForLogger, WakeUp,
         JoinLogger, CloseSocket, Go, Acquire
<1>2. ASSUME NEW n \in Instance,
             \/ LockInstance(n) \/ MakeContext(n) \/ BindReceiver(n) \/ BindFails(n)
             \/ GiveUp(n) \/ BecomeInactive(n) \/ CloseReceiver(n)
             \/ \E t \in Thread : ShowMessage(n, t) \/ ReceiveEnd(n, t)
      PROVE  ContextIsMade'
  BY <1>2
     DEF LockInstance, MakeContext, BindReceiver, BindFails, GiveUp, BecomeInactive,
         CloseReceiver, ShowMessage, ReceiveEnd, Turn
<1>3. CASE UNCHANGED vars
  BY <1>3 DEF vars, pipes
<1> QED
  BY <1>1, <1>2, <1>3 DEF Next, StartStep, ShutdownStep, LoggerStep, Read

\* A second logger thread cannot be created while one is not active yet:
\* its creator has loggerCalled.
LEMMA NewStep ==
    ASSUME TypeOK, MutexesAreHeld, NewIsAwaited, [Next]_vars
    PROVE  NewIsAwaited'
<1> USE NoThread DEF TypeOK, MutexesAreHeld, NewIsAwaited, shared, loggers
<1>1. ASSUME NEW t \in Thread,
             \/ Start(t) \/ StartAgain(t) \/ CheckActive(t) \/ LockToStart(t)
             \/ CheckAgain(t) \/ Spawn(t) \/ SeeActive(t) \/ Connect(t) \/ Count(t)
             \/ Log(t) \/ Shutdown(t) \/ Leave(t) \/ SendEnd(t) \/ WaitForLogger(t)
             \/ WakeUp(t) \/ JoinLogger(t) \/ CloseSocket(t)
      PROVE  NewIsAwaited'
  BY <1>1
     DEF Start, StartAgain, CheckActive, LockToStart, CheckAgain, Spawn, SeeActive,
         Connect, Count, Log, Shutdown, Leave, SendEnd, WaitForLogger, WakeUp,
         JoinLogger, CloseSocket, Go, Acquire
<1>2. ASSUME NEW n \in Instance,
             \/ LockInstance(n) \/ MakeContext(n) \/ BindReceiver(n) \/ BindFails(n)
             \/ GiveUp(n) \/ BecomeInactive(n) \/ CloseReceiver(n)
             \/ \E t \in Thread : ShowMessage(n, t) \/ ReceiveEnd(n, t)
      PROVE  NewIsAwaited'
  BY <1>2
     DEF LockInstance, MakeContext, BindReceiver, BindFails, GiveUp, BecomeInactive,
         CloseReceiver, ShowMessage, ReceiveEnd, Turn
<1>3. CASE UNCHANGED vars
  BY <1>3 DEF vars, pipes
<1> QED
  BY <1>1, <1>2, <1>3 DEF Next, StartStep, ShutdownStep, LoggerStep, Read

\* loggerActive is set and reset by the logger thread that has loggerInstance.
LEMMA ActiveStep ==
    ASSUME TypeOK, MutexesAreHeld, ContextIsMade, LoggerActiveTells, [Next]_vars
    PROVE  LoggerActiveTells'
<1> USE NoThread DEF TypeOK, MutexesAreHeld, ContextIsMade, LoggerActiveTells, shared, loggers
<1>1. ASSUME NEW t \in Thread,
             \/ Start(t) \/ StartAgain(t) \/ CheckActive(t) \/ LockToStart(t)
             \/ CheckAgain(t) \/ Spawn(t) \/ SeeActive(t) \/ Connect(t) \/ Count(t)
             \/ Log(t) \/ Shutdown(t) \/ Leave(t) \/ SendEnd(t) \/ WaitForLogger(t)
             \/ WakeUp(t) \/ JoinLogger(t) \/ CloseSocket(t)
      PROVE  LoggerActiveTells'
  BY <1>1
     DEF Start, StartAgain, CheckActive, LockToStart, CheckAgain, Spawn, SeeActive,
         Connect, Count, Log, Shutdown, Leave, SendEnd, WaitForLogger, WakeUp,
         JoinLogger, CloseSocket, Go, Acquire
<1>2. ASSUME NEW n \in Instance,
             \/ LockInstance(n) \/ MakeContext(n) \/ BindReceiver(n) \/ BindFails(n)
             \/ GiveUp(n) \/ BecomeInactive(n) \/ CloseReceiver(n)
             \/ \E t \in Thread : ShowMessage(n, t) \/ ReceiveEnd(n, t)
      PROVE  LoggerActiveTells'
  BY <1>2
     DEF LockInstance, MakeContext, BindReceiver, BindFails, GiveUp, BecomeInactive,
         CloseReceiver, ShowMessage, ReceiveEnd, Turn
<1>3. CASE UNCHANGED vars
  BY <1>3 DEF vars, pipes
<1> QED
  BY <1>1, <1>2, <1>3 DEF Next, StartStep, ShutdownStep, LoggerStep, Read

\* The logger thread that is joined is not a new one: its creator would have
\* loggerCalled.
LEMMA JoinStep ==
    ASSUME TypeOK, MutexesAreHeld, NewIsAwaited, LoggerActiveTells, JoinIsShort, [Next]_vars
    PROVE  JoinIsShort'
<1> USE NoThread DEF TypeOK, MutexesAreHeld, NewIsAwaited, LoggerActiveTells, JoinIsShort,
            shared, loggers
<1>1. ASSUME NEW t \in Thread,
             \/ Start(t) \/ StartAgain(t) \/ CheckActive(t) \/ LockToStart(t)
             \/ CheckAgain(t) \/ Spawn(t) \/ SeeActive(t) \/ Connect(t) \/ Count(t)
             \/ Log(t) \/ Shutdown(t) \/ Leave(t) \/ SendEnd(t) \/ WaitForLogger(t)
             \/ WakeUp(t) \/ JoinLogger(t) \/ CloseSocket(t)
      PROVE  JoinIsShort'
  BY <1>1
     DEF Start, StartAgain, CheckActive, LockToStart, CheckAgain, Spawn, SeeActive,
         Connect, Count, Log, Shutdown, Leave, SendEnd, WaitForLogger, WakeUp,
         JoinLogger, CloseSocket, Go, Acquire
<1>2. ASSUME NEW n \in Instance,
             \/ LockInstance(n) \/ MakeContext(n) \/ BindReceiver(n) \/ BindFails(n)
             \/ GiveUp(n) \/ BecomeInactive(n) \/ CloseReceiver(n)
             \/ \E t \in Thread : ShowMessage(n, t) \/ ReceiveEnd(n, t)
      PROVE  JoinIsShort'
  BY <1>2
     DEF LockInstance, MakeContext, BindReceiver, BindFails, GiveUp, BecomeInactive,
         CloseReceiver, ShowMessage, ReceiveEnd, Turn
<1>3. CASE UNCHANGED vars
  BY <1>3 DEF vars, pipes
<1> QED
  BY <1>1, <1>2, <1>3 DEF Next, StartStep, ShutdownStep, LoggerStep, Read

-----------------------------------------------------------------------------
(* The theorems.                                                           *)

LEMMA TypeStep ==
    ASSUME TypeOK, StartsAreCounted, threadsUp' \in Nat, [Next]_vars
    PROVE  TypeOK'
<1> USE NoThread, LoggerAssumption DEF TypeOK, StartsAreCounted, shared, own, pipes, loggers
<1>1. ASSUME NEW t \in Thread,
             \/ CheckActive(t) \/ LockToStart(t) \/ CheckAgain(t) \/ Spawn(t)
             \/ SeeActive(t) \/ Leave(t) \/ WaitForLogger(t) \/ WakeUp(t)
             \/ JoinLogger(t) \/ Count(t)
      PROVE  TypeOK'
  BY <1>1 DEF CheckActive, LockToStart, CheckAgain, Spawn, SeeActive, Leave,
              WaitForLogger, WakeUp, JoinLogger, Count, Go, Acquire
<1>2. ASSUME NEW t \in Thread, Start(t) \/ StartAgain(t) \/ Shutdown(t)
      PROVE  TypeOK'
  BY <1>2 DEF Start, StartAgain, Shutdown, Go
<1>3. ASSUME NEW t \in Thread, Connect(t) \/ CloseSocket(t)
      PROVE  TypeOK'
  BY <1>3 DEF Connect, CloseSocket, Go, Bound
<1>4. ASSUME NEW t \in Thread, Log(t)
      PROVE  TypeOK'
  <2>1. pipe[t] + 1 \in 0 .. MaxLogs
    BY <1>4, LoggerAssumption DEF Log, HasRoom
  <2> QED
    BY <1>4, <2>1 DEF Log
<1>5. ASSUME NEW t \in Thread, SendEnd(t)
      PROVE  TypeOK'
  <2>1. HasRoom(t) \in BOOLEAN
    BY DEF HasRoom
  <2>2. endSent' \in [Thread -> BOOLEAN]
    BY <1>5, <2>1 DEF SendEnd
  <2> QED
    BY <1>5, <2>2 DEF SendEnd, Acquire, Go
<1>6. ASSUME NEW n \in Instance,
             \/ LockInstance(n) \/ MakeContext(n) \/ BindReceiver(n)
             \/ BindFails(n) \/ GiveUp(n) \/ BecomeInactive(n)
      PROVE  TypeOK'
  BY <1>6 DEF LockInstance, MakeContext, BindReceiver, BindFails, GiveUp,
              BecomeInactive, Turn
<1>7. ASSUME NEW n \in Instance, CloseReceiver(n)
      PROVE  TypeOK'
  <2>1. endSent' \in [Thread -> BOOLEAN]
    BY <1>7 DEF CloseReceiver
  <2>2. pipe' \in [Thread -> 0 .. MaxLogs] /\ lost' \subseteq Thread
    BY <1>7 DEF CloseReceiver, PipesOf
  <2> QED
    BY <1>7, <2>1, <2>2 DEF CloseReceiver, Turn
<1>8. ASSUME NEW n \in Instance, NEW t \in Thread, ShowMessage(n, t) \/ ReceiveEnd(n, t)
      PROVE  TypeOK'
  <2>1. CASE ShowMessage(n, t)
    <3>1. pipe[t] - 1 \in 0 .. MaxLogs
      BY <2>1 DEF ShowMessage
    <3> QED
      BY <2>1, <3>1 DEF ShowMessage
  <2>2. CASE ReceiveEnd(n, t)
    BY <2>2 DEF ReceiveEnd, Turn
  <2> QED
    BY <1>8, <2>1, <2>2
<1>9. CASE UNCHANGED vars
  BY <1>9 DEF vars
<1> QED
  BY <1>1, <1>2, <1>3, <1>4, <1>5, <1>6, <1>7, <1>8, <1>9
     DEF Next, StartStep, ShutdownStep, LoggerStep, Read

LEMMA InitInv == Init => LoggerInv
<1> SUFFICES ASSUME Init PROVE LoggerInv
  OBVIOUS
<1> USE NoThread, LoggerAssumption DEF Init
<1>1. TypeOK
  <2>1. 0 \in 0 .. MaxActive /\ 0 \in 0 .. MaxLogs
    OBVIOUS
  <2>2. /\ active \in [Thread -> 0 .. MaxActive] /\ pipe \in [Thread -> 0 .. MaxLogs]
        /\ sock \in [Thread -> Instance \cup {0}] /\ endSent \in [Thread -> BOOLEAN]
    BY <2>1
  <2> QED
    BY <2>2 DEF TypeOK
<1>2. threadsUp = Cardinality(Counted)
  <2>1. Counted = {}
    BY DEF Counted
  <2> QED
    BY <2>1, FS_EmptySet
<1>3. /\ StartsAreCounted /\ MutexesAreHeld /\ ContextIsMade /\ NewIsAwaited
      /\ LoggerActiveTells /\ JoinIsShort
  BY DEF StartsAreCounted, MutexesAreHeld, ContextIsMade, NewIsAwaited,
         LoggerActiveTells, JoinIsShort
<1> QED
  BY <1>1, <1>2, <1>3 DEF LoggerInv

LEMMA InvStep == LoggerInv /\ [Next]_vars => LoggerInv'
<1> SUFFICES ASSUME LoggerInv, [Next]_vars PROVE LoggerInv'
  OBVIOUS
<1>1. threadsUp' = Cardinality(Counted)' /\ threadsUp' \in Nat
  BY ThreadsUpStep DEF LoggerInv
<1>2. TypeOK'
  BY <1>1, TypeStep DEF LoggerInv
<1>3. StartsAreCounted' /\ MutexesAreHeld' /\ ContextIsMade'
  BY StartsStep, MutexStep, ContextStep DEF LoggerInv
<1>4. NewIsAwaited' /\ LoggerActiveTells' /\ JoinIsShort'
  BY NewStep, ActiveStep, JoinStep DEF LoggerInv
<1> QED
  BY <1>1, <1>2, <1>3, <1>4 DEF LoggerInv

\* The variables keep their types; threadsUp is never counted below 0.
THEOREM LoggerTypeCorrect == Spec => []TypeOK
<1>1. LoggerInv => TypeOK
  BY DEF LoggerInv
<1> QED
  BY <1>1, InitInv, InvStep, PTL DEF Spec

\* loggerActive says whether a logger thread runs or pretends to, and a thread
\* that has waited for it finds the context complete (lines 101, 293, 302-304,
\* 341).
THEOREM LoggerActiveCorrect == Spec => []LoggerActiveTells
<1>1. LoggerInv => LoggerActiveTells
  BY DEF LoggerInv
<1> QED
  BY <1>1, InitInv, InvStep, PTL DEF Spec

\* shutdown() joins only a logger thread that is about to return by itself
\* (lines 362-376).
THEOREM JoinCorrect == Spec => []JoinIsShort
<1>1. LoggerInv => JoinIsShort
  BY DEF LoggerInv
<1> QED
  BY <1>1, InitInv, InvStep, PTL DEF Spec

===============================================================================
