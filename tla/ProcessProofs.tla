--------------------------- MODULE ProcessProofs ---------------------------
(***************************************************************************)
(* Theorems about Process for every number of starts, of contexts and of   *)
(* tracked objects, and any threads besides the two.                       *)
(***************************************************************************)
EXTENDS Process, FiniteSetTheorems, TLAPS

-----------------------------------------------------------------------------
(* What each operation of Keeper preserves, for any number of threads and  *)
(* addresses.                                                              *)

Keepers == [memEntries : SUBSET Pointer, count : 0 .. MaxCount]

\* A keeper that exists has finite sets, and is not Null.
LEMMA KeeperFacts ==
    /\ \A k \in Keepers : k # Null
    /\ \A S \in SUBSET Pointer : IsFiniteSet(S) /\ Cardinality(S) \in Nat
    /\ \A t \in Holder : IsFiniteSet(Mine(t)) /\ Cardinality(Mine(t)) \in Nat
<1>1. \A k \in Keepers : k # Null
  BY KeeperAssumption DEF Keepers
<1>2. ASSUME NEW S \in SUBSET Pointer
      PROVE  IsFiniteSet(S) /\ Cardinality(S) \in Nat
  BY FS_Subset, FS_CardinalityType, KeeperAssumption
<1>3. \A t \in Holder : Mine(t) \in SUBSET Pointer
  BY DEF Mine
<1> QED
  BY <1>1, <1>2, <1>3

LEMMA NewKeeperFacts ==
    /\ NewKeeper \in Keepers /\ NewKeeper # Null
    /\ NewKeeper.memEntries = {} /\ NewKeeper.count = 0
    /\ Cardinality({}) = 0
<1>1. NewKeeper \in Keepers
  BY KeeperAssumption DEF NewKeeper, Keepers
<1> QED
  BY <1>1, KeeperFacts, FS_EmptySet DEF NewKeeper

LEMMA KeeperInitInv == KeeperInit => KeeperInv
BY KeeperAssumption DEF KeeperInit, KeeperInv, KeeperTypeOK, KeeperTells, Mine

\* What KeeperTells says of one thread.
Tells(k, mine, touched) ==
    /\ mine \subseteq k.memEntries
    /\ Cardinality(k.memEntries) <= k.count
    /\ ~touched => k.memEntries = mine /\ k.count = Cardinality(mine)

\* A keeper that is made when it is needed tells of its thread.
LEMMA StartedTells ==
    ASSUME KeeperInv, NEW t \in Holder
    PROVE  /\ Started(t) \in Keepers /\ Started(t) # Null
           /\ Tells(Started(t), Mine(t), t \in foreign)
<1>1. CASE keeper[t] = Null
  <2>1. Mine(t) = {} /\ t \notin foreign /\ Started(t) = NewKeeper
    BY <1>1 DEF KeeperInv, Started
  <2> QED
    BY <2>1, NewKeeperFacts DEF Tells
<1>2. CASE keeper[t] # Null
  <2>1. Started(t) = keeper[t] /\ keeper[t] \in Keepers
    BY <1>2 DEF KeeperInv, KeeperTypeOK, Started, Keepers
  <2>2. Tells(keeper[t], Mine(t), t \in foreign)
    BY <1>2 DEF KeeperInv, KeeperTells, Tells
  <2> QED
    BY <1>2, <2>1, <2>2
<1> QED
  BY <1>1, <1>2

\* A step that changes the keeper of one thread keeps the invariant when the
\* new keeper tells of its thread, and every other thread loses objects only
\* when it is marked.
LEMMA OneKeeper ==
    ASSUME KeeperInv, NEW t \in Holder, NEW k \in Keepers,
           keeper' = [keeper EXCEPT ![t] = k],
           heap' \in [Pointer -> Holder \cup {"other", Null}],
           foreign' \subseteq Holder,
           Tells(k, Mine(t)', (t \in foreign)'),
           \A u \in Holder \ {t} :
               /\ Mine(u)' \subseteq Mine(u)
               /\ u \notin foreign' => u \notin foreign /\ Mine(u)' = Mine(u)
               /\ Mine(u) = {} => (u \in foreign' => u \in foreign)
    PROVE  KeeperInv'
<1>1. keeper \in [Holder -> {Null} \cup Keepers]
  BY DEF KeeperInv, KeeperTypeOK, Keepers
<1>2. KeeperTypeOK'
  BY <1>1 DEF KeeperTypeOK, Keepers
<1>3. keeper'[t] = k /\ \A u \in Holder \ {t} : keeper'[u] = keeper[u]
  BY <1>1
<1>4. KeeperTells'
  <2> SUFFICES ASSUME NEW u \in Holder, keeper'[u] # Null
               PROVE  Tells(keeper'[u], Mine(u)', (u \in foreign)')
    BY DEF KeeperTells, Tells
  <2>1. CASE u = t
    BY <2>1, <1>3
  <2>2. CASE u # t
    <3>1. Tells(keeper[u], Mine(u), u \in foreign)
      BY <2>2, <1>3 DEF KeeperInv, KeeperTells, Tells
    <3> QED
      BY <2>2, <1>3, <3>1 DEF Tells
  <2> QED
    BY <2>1, <2>2
<1>5. \A u \in Holder : keeper'[u] = Null => Mine(u)' = {} /\ u \notin foreign'
  <2> SUFFICES ASSUME NEW u \in Holder, keeper'[u] = Null
               PROVE  Mine(u)' = {} /\ u \notin foreign'
    OBVIOUS
  <2>1. u # t
    BY <1>3, KeeperFacts
  <2>2. Mine(u) = {} /\ u \notin foreign
    BY <2>1, <1>3 DEF KeeperInv
  <2> QED
    BY <2>1, <2>2
<1> QED
  BY <1>2, <1>4, <1>5 DEF KeeperInv

LEMMA StartInv ==
    ASSUME KeeperInv, NEW t \in Holder, start(t)
    PROVE  KeeperInv'
<1>1. \A u \in Holder : Mine(u)' = Mine(u)
  BY DEF start, Mine
<1>2. foreign' = foreign
  BY DEF start
<1>3. /\ heap' \in [Pointer -> Holder \cup {"other", Null}]
      /\ foreign' \subseteq Holder
  BY DEF start, KeeperInv, KeeperTypeOK
<1>4. Tells(Started(t), Mine(t)', (t \in foreign)')
  BY <1>1, <1>2, StartedTells
<1>5. keeper' = [keeper EXCEPT ![t] = Started(t)]
  BY DEF start
<1> QED
  BY <1>1, <1>2, <1>3, <1>4, <1>5, StartedTells, OneKeeper

LEMMA EndInv ==
    ASSUME KeeperInv, NEW t \in Holder, end(t)
    PROVE  KeeperInv'
<1>1. heap' \in [Pointer -> Holder \cup {"other", Null}]
  BY DEF end, KeeperInv, KeeperTypeOK
<1>2. \A p \in Pointer : heap'[p] = IF heap[p] = t THEN "other" ELSE heap[p]
  BY DEF end
<1>3. Mine(t)' = {}
  BY <1>2, KeeperAssumption DEF Mine
<1>4. \A u \in Holder \ {t} : Mine(u)' = Mine(u)
  BY <1>2, KeeperAssumption DEF Mine
<1>5. keeper' = [keeper EXCEPT ![t] = Null] /\ foreign' = foreign \ {t}
  BY DEF end
<1>6. KeeperTypeOK'
  BY <1>1, <1>5 DEF KeeperInv, KeeperTypeOK
<1>7. keeper'[t] = Null /\ \A u \in Holder \ {t} : keeper'[u] = keeper[u]
  BY <1>5 DEF KeeperInv, KeeperTypeOK
<1>8. KeeperTells'
  <2> SUFFICES ASSUME NEW u \in Holder, keeper'[u] # Null
               PROVE  Tells(keeper'[u], Mine(u)', (u \in foreign)')
    BY DEF KeeperTells, Tells
  <2>1. u # t /\ Tells(keeper[u], Mine(u), u \in foreign)
    BY <1>7 DEF KeeperInv, KeeperTells, Tells
  <2> QED
    BY <2>1, <1>4, <1>5, <1>7
<1>9. \A u \in Holder : keeper'[u] = Null => Mine(u)' = {} /\ u \notin foreign'
  BY <1>3, <1>4, <1>5, <1>7 DEF KeeperInv
<1> QED
  BY <1>6, <1>8, <1>9 DEF KeeperInv

\* An address that is given out is nobody's; it may still be in the keeper, and
\* is then counted a second time.
LEMMA NewInv ==
    ASSUME KeeperInv, NEW t \in Holder, NEW p \in Pointer, New(t, p)
    PROVE  KeeperInv'
<1> DEFINE s == Started(t)
           k == push(s, p)
<1>1. s \in Keepers /\ Tells(s, Mine(t), t \in foreign)
  BY StartedTells
<1>2. s.memEntries \in SUBSET Pointer /\ s.count \in 0 .. MaxCount
  BY <1>1 DEF Keepers
<1>3. heap[p] = Null /\ s.count < MaxCount
  BY DEF New
<1>4. k \in Keepers /\ k.memEntries = s.memEntries \cup {p} /\ k.count = s.count + 1
  BY <1>2, <1>3, KeeperAssumption DEF push, Keepers
<1>5. heap' = [heap EXCEPT ![p] = t] /\ foreign' = foreign
  BY DEF New
<1>6. /\ heap' \in [Pointer -> Holder \cup {"other", Null}]
      /\ foreign' \subseteq Holder
  BY <1>5 DEF KeeperInv, KeeperTypeOK
<1>7. Mine(t)' = Mine(t) \cup {p} /\ p \notin Mine(t)
  BY <1>3, <1>5, KeeperAssumption DEF Mine, KeeperInv, KeeperTypeOK
<1>8. \A u \in Holder \ {t} : Mine(u)' = Mine(u)
  BY <1>3, <1>5, KeeperAssumption DEF Mine, KeeperInv, KeeperTypeOK
<1>9. /\ Cardinality(s.memEntries \cup {p}) <= Cardinality(s.memEntries) + 1
      /\ Cardinality(Mine(t) \cup {p}) = Cardinality(Mine(t)) + 1
  <2>1. Cardinality(s.memEntries \cup {p})
            = IF p \in s.memEntries THEN Cardinality(s.memEntries)
              ELSE Cardinality(s.memEntries) + 1
    BY <1>2, KeeperFacts, FS_AddElement
  <2>2. Cardinality(Mine(t) \cup {p}) = Cardinality(Mine(t)) + 1
    BY <1>7, KeeperFacts, FS_AddElement
  <2> QED
    BY <1>2, <2>1, <2>2, KeeperFacts
<1>10. Cardinality(s.memEntries) \in Nat /\ Cardinality(s.memEntries \cup {p}) \in Nat
  BY <1>2, KeeperFacts
<1>11. Tells(k, Mine(t)', (t \in foreign)')
  <2>1. Mine(t)' \subseteq k.memEntries
    BY <1>1, <1>4, <1>7 DEF Tells
  <2>2. Cardinality(k.memEntries) <= k.count
    BY <1>1, <1>2, <1>4, <1>9, <1>10 DEF Tells
  <2>3. ASSUME t \notin foreign
        PROVE  k.memEntries = Mine(t)' /\ k.count = Cardinality(Mine(t)')
    BY <1>1, <1>4, <1>7, <1>9, <2>3 DEF Tells
  <2> QED
    BY <2>1, <2>2, <2>3, <1>5 DEF Tells
<1>12. keeper' = [keeper EXCEPT ![t] = k]
  BY DEF New
<1> HIDE DEF k, s
<1> QED
  BY <1>4, <1>5, <1>6, <1>8, <1>11, <1>12, OneKeeper

\* Only the thread that deletes an object crosses it out, and it counts only
\* what it finds; the thread that made it is marked.
LEMMA DeleteInv ==
    ASSUME KeeperInv, NEW t \in Holder, NEW p \in Pointer, Delete(t, p)
    PROVE  KeeperInv'
<1> DEFINE s == Started(t)
           k == pop(s, p)
<1>1. s \in Keepers /\ Tells(s, Mine(t), t \in foreign)
  BY StartedTells
<1>2. s.memEntries \in SUBSET Pointer /\ s.count \in 0 .. MaxCount
  BY <1>1 DEF Keepers
<1>3. /\ heap[p] # Null /\ heap' = [heap EXCEPT ![p] = Null]
      /\ foreign' = foreign \cup ({heap[p]} \ {t, "other"})
      /\ keeper' = [keeper EXCEPT ![t] = k]
  BY DEF Delete
<1>4. heap[p] \in Holder \cup {"other"}
  BY <1>3 DEF KeeperInv, KeeperTypeOK
<1>5. /\ heap' \in [Pointer -> Holder \cup {"other", Null}]
      /\ foreign' \subseteq Holder
  BY <1>3, <1>4 DEF KeeperInv, KeeperTypeOK
<1>6. \A u \in Holder : Mine(u)' = Mine(u) \ {p}
  BY <1>3, KeeperAssumption DEF Mine, KeeperInv, KeeperTypeOK
<1>7. t \in foreign' <=> t \in foreign
  BY <1>3
<1>8. ASSUME NEW u \in Holder \ {t}
      PROVE  /\ u \notin foreign' => u \notin foreign /\ Mine(u)' = Mine(u)
             /\ Mine(u) = {} => (u \in foreign' => u \in foreign)
  <2>1. p \in Mine(u) <=> heap[p] = u
    BY DEF Mine
  <2>2. u \in foreign' <=> u \in foreign \/ p \in Mine(u)
    BY <1>3, <2>1, KeeperAssumption
  <2> QED
    BY <1>6, <2>2
<1>9. k \in Keepers /\ Tells(k, Mine(t)', (t \in foreign)')
  <2>1. CASE p \notin s.memEntries
    <3>1. k = s /\ Mine(t)' = Mine(t)
      BY <1>1, <1>6, <2>1 DEF pop, Tells
    <3> QED
      BY <1>1, <1>7, <3>1
  <2>2. CASE p \in s.memEntries
    <3>1. Cardinality(s.memEntries \ {p}) = Cardinality(s.memEntries) - 1
      BY <1>2, <2>2, KeeperFacts, FS_RemoveElement
    <3>2. Cardinality(s.memEntries) \in Nat /\ Cardinality(s.memEntries \ {p}) \in Nat
      BY <1>2, KeeperFacts
    <3>3. s.count - 1 \in 0 .. MaxCount
      BY <1>1, <1>2, <3>1, <3>2, KeeperAssumption DEF Tells
    <3>4. /\ k \in Keepers
          /\ k.memEntries = s.memEntries \ {p} /\ k.count = s.count - 1
      BY <1>2, <2>2, <3>3 DEF pop, Keepers
    <3>5. Mine(t)' \subseteq k.memEntries
      BY <1>1, <1>6, <3>4 DEF Tells
    <3>6. Cardinality(k.memEntries) <= k.count
      BY <1>1, <1>2, <3>1, <3>2, <3>4 DEF Tells
    <3>7. ASSUME t \notin foreign
          PROVE  k.memEntries = Mine(t)' /\ k.count = Cardinality(Mine(t)')
      BY <1>1, <1>2, <1>6, <3>1, <3>2, <3>4, <3>7 DEF Tells
    <3> QED
      BY <1>7, <3>4, <3>5, <3>6, <3>7 DEF Tells
  <2> QED
    BY <2>1, <2>2
<1>10. \A u \in Holder \ {t} :
           /\ Mine(u)' \subseteq Mine(u)
           /\ u \notin foreign' => u \notin foreign /\ Mine(u)' = Mine(u)
           /\ Mine(u) = {} => (u \in foreign' => u \in foreign)
  BY <1>6, <1>8
<1>11. keeper' = [keeper EXCEPT ![t] = k]
  BY <1>3
<1> HIDE DEF k, s
<1> QED
  BY <1>5, <1>9, <1>10, <1>11, OneKeeper

LEMMA KeepingInv ==
    ASSUME KeeperInv, UNCHANGED keeping
    PROVE  KeeperInv'
BY DEF KeeperInv, KeeperTypeOK, KeeperTells, Mine, keeping

-----------------------------------------------------------------------------
(* The process.                                                            *)

\* The invariant without the part of the keepers.
ProgramInv ==
    /\ main \in {"free", "starting", "set", "waiting", "returned"}
    /\ zmq \in {"none", "open", "terminating", "closed"}
    /\ sock \in [Build -> {"unbuilt", "open", "leaked", "closed"}]
    /\ endpoint \in 0 .. built
    /\ built \in 0 .. MaxBuilds
    /\ served \in 0 .. built
    /\ first \in {"worker", "context"}
    /\ PortsAreHeld
    /\ StartIsAlone

LEMMA InvParts == ProcessInv <=> ProgramInv /\ KeeperInv
BY DEF ProcessInv, ProgramInv, ProcessTypeOK, KeeperInv

LEMMA InitInv == Init => ProcessInv
<1> SUFFICES ASSUME Init PROVE ProcessInv
  OBVIOUS
<1>1. KeeperInv
  BY KeeperInitInv DEF Init
<1>2. ProgramInv
  BY MaxBuildsAssumption
     DEF Init, W!Init, ProgramInv, PortsAreHeld, StartIsAlone, Serving, Build
<1> QED
  BY <1>1, <1>2, InvParts

-----------------------------------------------------------------------------
(* main(): start, shutdown and the end of the process.                     *)

\* A context can be built only when no dispatcher holds the ports, and then
\* none runs.
LEMMA BuildContextInv == ProgramInv /\ BuildContext => ProgramInv'
<1> SUFFICES ASSUME ProgramInv, BuildContext PROVE ProgramInv'
  OBVIOUS
<1> USE DEF ProgramInv
<1>1. built \in Nat /\ built + 1 \in Build /\ built' = built + 1
  BY MaxBuildsAssumption DEF BuildContext, NewContext, Build
<1>2. /\ main' = "starting" /\ zmq' = "open" /\ endpoint = 0 /\ endpoint' = built + 1
      /\ sock' = [sock EXCEPT ![built + 1] = "open"]
      /\ UNCHANGED <<owner, thread, requestedShutdown, served, first>>
  BY DEF BuildContext, NewContext, worker
<1>3. owner \in {"idle", "stopped"} /\ thread \notin Serving
  BY <1>2 DEF BuildContext, NewContext, MainIsFree, PortsAreHeld
<1>4. PortsAreHeld'
  BY <1>2, <1>3 DEF PortsAreHeld, Serving
<1>5. sock'[built + 1] = "open"
  BY <1>1, <1>2
<1>6. StartIsAlone'
  BY <1>1, <1>2, <1>3, <1>5 DEF StartIsAlone
<1>7. /\ sock' \in [Build -> {"unbuilt", "open", "leaked", "closed"}]
      /\ built' \in 0 .. MaxBuilds /\ endpoint' \in 0 .. built' /\ served' \in 0 .. built'
  BY <1>1, <1>2, MaxBuildsAssumption DEF Build
<1> QED
  BY <1>2, <1>4, <1>6, <1>7

\* A start() that fails leaves the socket of the running dispatcher alone.
LEMMA BuildFailsInv == ProgramInv /\ BuildFails => ProgramInv'
<1> SUFFICES ASSUME ProgramInv, BuildFails PROVE ProgramInv'
  OBVIOUS
<1> USE DEF ProgramInv
<1>1. built \in Nat /\ built + 1 \in Build /\ built' = built + 1
  BY MaxBuildsAssumption DEF BuildFails, NewContext, Build
<1>2. /\ main = "free" /\ zmq' = "open"
      /\ sock' = [sock EXCEPT ![built + 1] = "leaked"]
      /\ UNCHANGED <<main, owner, thread, requestedShutdown, endpoint, served, first>>
  BY DEF BuildFails, NewContext, MainIsFree, worker
<1>3. \A k \in Build : k <= built => sock'[k] = sock[k]
  BY <1>1, <1>2 DEF Build
<1>4. /\ sock' \in [Build -> {"unbuilt", "open", "leaked", "closed"}]
      /\ built' \in 0 .. MaxBuilds /\ endpoint' \in 0 .. built' /\ served' \in 0 .. built'
  BY <1>1, <1>2, MaxBuildsAssumption DEF Build
<1>5. served # 0 => served \in Build /\ sock'[served] = sock[served]
  BY <1>1, <1>3, MaxBuildsAssumption DEF Build
<1>6. PortsAreHeld'
  BY <1>2, <1>5 DEF PortsAreHeld, Serving
<1>7. StartIsAlone'
  BY <1>2 DEF StartIsAlone
<1> QED
  BY <1>2, <1>4, <1>6, <1>7

\* A step that leaves the sockets alone.
LEMMA CallInv ==
    ASSUME ProgramInv, SetWork \/ DoWork \/ SeeStarted \/ StopWork \/ WaitForStop
                           \/ DestroyWorker \/ Return \/ CloseContext
    PROVE  ProgramInv'
<1> USE DEF ProgramInv, PortsAreHeld, StartIsAlone, Serving, program, sockets, worker
<1>1. CASE SetWork
  BY <1>1 DEF SetWork, W!SetWork
<1>2. CASE DoWork
  BY <1>2 DEF DoWork, W!DoWork
<1>3. CASE SeeStarted
  BY <1>3 DEF SeeStarted, W!SeeStarted, W!Owner, W!flags
<1>4. CASE StopWork
  BY <1>4 DEF StopWork, W!StopWork, W!Owner
<1>5. CASE WaitForStop
  BY <1>5 DEF WaitForStop, W!SeeNotWorking, W!Join, W!Owner, W!flags
<1>6. CASE DestroyWorker
  BY <1>6 DEF DestroyWorker, W!Destroy, W!flags
<1>7. CASE Return
  BY <1>7 DEF Return, MainIsFree
<1>8. CASE CloseContext
  BY <1>8 DEF CloseContext
<1> QED
  BY <1>1, <1>2, <1>3, <1>4, <1>5, <1>6, <1>7, <1>8

-----------------------------------------------------------------------------
(* The thread of the dispatcher, and libzmq.                               *)

LEMMA RunInv ==
    ASSUME ProgramInv, ThreadStarts \/ ThreadWorks \/ ThreadEnds \/ EndOfWork
    PROVE  ProgramInv'
<1> USE DEF ProgramInv, PortsAreHeld, StartIsAlone, Serving, program, sockets,
            W!Thread, W!flags
<1>1. CASE ThreadStarts
  BY <1>1 DEF ThreadStarts, W!Started
<1>2. CASE ThreadWorks
  BY <1>2 DEF ThreadWorks, W!Flag, W!Unflag
<1>3. CASE ThreadEnds
  BY <1>3 DEF ThreadEnds, W!End
<1>4. CASE EndOfWork
  BY <1>4 DEF EndOfWork, Throws, Returns, W!EndOfWork
<1> QED
  BY <1>1, <1>2, <1>3, <1>4

\* The context is deleted only after the thread was asked to stop, and leaked
\* only with the ports held.
LEMMA CloseInv ==
    ASSUME ProgramInv, OnShutdown \/ Catch \/ FreePorts
    PROVE  ProgramInv'
<1> USE DEF ProgramInv, PortsAreHeld, StartIsAlone, Serving
<1>1. CASE OnShutdown
  <2>1. /\ thread = "returned" /\ thread' = "ending"
        /\ sock' = [sock EXCEPT ![served] = "closed"]
        /\ UNCHANGED <<owner, requestedShutdown, main, zmq, endpoint, built, served, first>>
    BY <1>1 DEF OnShutdown, W!OnShutdown, W!Thread, W!flags
  <2>2. owner \notin {"idle", "stopped", "destroyed", "starting", "running"}
    BY <2>1
  <2>3. main \notin {"starting", "set"}
    BY <2>2
  <2>4. sock' \in [Build -> {"unbuilt", "open", "leaked", "closed"}]
    BY <2>1
  <2> QED
    BY <2>1, <2>2, <2>3, <2>4
<1>2. CASE Catch
  <2>1. /\ thread = "thrown" /\ thread' = "ending"
        /\ sock' = [sock EXCEPT ![served] = "leaked"]
        /\ UNCHANGED <<owner, requestedShutdown, main, zmq, endpoint, built, served, first>>
    BY <1>2 DEF Catch, W!Catch, W!Thread, W!flags
  <2>2. owner \notin {"idle", "stopped", "destroyed"} /\ main \notin {"starting", "set"}
    BY <2>1
  <2>3. served \in Build /\ sock'[served] = "leaked"
    BY <2>1, MaxBuildsAssumption DEF Build
  <2>4. sock' \in [Build -> {"unbuilt", "open", "leaked", "closed"}]
    BY <2>1
  <2> QED
    BY <2>1, <2>2, <2>3, <2>4
<1>3. CASE FreePorts
  <2>1. /\ sock[endpoint] = "closed" /\ endpoint' = 0
        /\ UNCHANGED <<owner, thread, requestedShutdown, main, zmq, sock, built,
                       served, first>>
    BY <1>3 DEF FreePorts, worker
  <2>2. /\ thread \notin Serving
        /\ owner \notin {"starting", "running"}
        /\ main \notin {"starting", "set"}
    BY <2>1
  <2> QED
    BY <2>1, <2>2, MaxBuildsAssumption
<1> QED
  BY <1>1, <1>2, <1>3

LEMMA QuietInv ==
    ASSUME ProgramInv, UNCHANGED <<worker, program>>
    PROVE  ProgramInv'
BY DEF ProgramInv, PortsAreHeld, StartIsAlone, worker, program, sockets

-----------------------------------------------------------------------------
(* The keepers.                                                            *)

\* The steps that leave the keepers alone.
LEMMA NoKeeping ==
    BuildContext \/ BuildFails \/ SetWork \/ DoWork \/ SeeStarted \/ StopWork
        \/ WaitForStop \/ DestroyWorker \/ CloseContext \/ ThreadWorks
        \/ EndOfWork \/ OnShutdown \/ Catch \/ FreePorts
    => UNCHANGED keeping
BY DEF BuildContext, BuildFails, SetWork, DoWork, SeeStarted, StopWork,
       WaitForStop, DestroyWorker, CloseContext, ThreadWorks, EndOfWork,
       OnShutdown, Catch, FreePorts

LEMMA KeepersInv ==
    ASSUME KeeperInv, ThreadStarts \/ ThreadEnds \/ Return \/ MainKeeps \/ ThreadKeeps
    PROVE  KeeperInv'
<1> USE MaxBuildsAssumption
<1>1. CASE ThreadStarts
  BY <1>1, StartInv DEF ThreadStarts
<1>2. CASE ThreadEnds
  BY <1>2, EndInv DEF ThreadEnds
<1>3. CASE Return
  BY <1>3, EndInv DEF Return
<1>4. CASE MainKeeps
  BY <1>4, StartInv, EndInv, NewInv, DeleteInv DEF MainKeeps
<1>5. CASE ThreadKeeps
  BY <1>5, NewInv, DeleteInv DEF ThreadKeeps
<1> QED
  BY <1>1, <1>2, <1>3, <1>4, <1>5

-----------------------------------------------------------------------------
LEMMA NextInv == ProcessInv /\ [Next]_vars => ProcessInv'
<1> SUFFICES ASSUME ProcessInv, [Next]_vars PROVE ProcessInv'
  OBVIOUS
<1>1. ProgramInv /\ KeeperInv
  BY InvParts
<1>2. CASE \/ BuildContext \/ BuildFails \/ SetWork \/ DoWork \/ SeeStarted
           \/ StopWork \/ WaitForStop \/ DestroyWorker \/ CloseContext
           \/ ThreadWorks \/ EndOfWork \/ OnShutdown \/ Catch \/ FreePorts
  <2>1. KeeperInv'
    BY <1>1, <1>2, NoKeeping, KeepingInv
  <2>2. ProgramInv'
    BY <1>1, <1>2, BuildContextInv, BuildFailsInv, CallInv, RunInv, CloseInv
  <2> QED
    BY <2>1, <2>2 DEF ProcessInv, ProgramInv, ProcessTypeOK, KeeperInv
<1>3. CASE ThreadStarts \/ ThreadEnds \/ Return \/ MainKeeps \/ ThreadKeeps
  <2>1. KeeperInv'
    BY <1>1, <1>3, KeepersInv
  <2>2. ProgramInv'
    BY <1>1, <1>3, RunInv, CallInv, QuietInv DEF MainKeeps, ThreadKeeps
  <2> QED
    BY <2>1, <2>2 DEF ProcessInv, ProgramInv, ProcessTypeOK, KeeperInv
<1>4. CASE UNCHANGED vars
  <2>1. ProgramInv' /\ KeeperInv'
    BY <1>1, <1>4, KeepingInv, QuietInv DEF vars
  <2> QED
    BY <2>1 DEF ProcessInv, ProgramInv, ProcessTypeOK, KeeperInv
<1> QED
  BY <1>2, <1>3, <1>4 DEF Next, MainStep, ThreadStep

LEMMA AlwaysInv == Spec => []ProcessInv
BY InitInv, NextInv, PTL DEF Spec

\* The variables keep their types.
THEOREM ProcessTypeCorrect == Spec => []ProcessTypeOK
<1>1. ProcessInv => ProcessTypeOK
  BY DEF ProcessInv
<1> QED
  BY AlwaysInv, <1>1, PTL

\* A keeper tells of its thread, whatever the order in which the threads of
\* the process make and delete objects (keeper.cpp:53-66).
THEOREM KeeperCorrect == Spec => []KeeperTells
<1>1. ProcessInv => KeeperTells
  BY DEF ProcessInv, KeeperInv
<1> QED
  BY AlwaysInv, <1>1, PTL

\* However often start() is called, and whether it fails or not, the
\* dispatcher that runs has its sockets and its ports, and no other is stopped
\* by the start of one (dispatcher.cpp:341-377).
THEOREM ServesCorrect == Spec => []OneDispatcherServes
<1>1. ProcessInv => OneDispatcherServes
  BY DEF ProcessInv, PortsAreHeld, StartIsAlone, Serving, OneDispatcherServes
<1> QED
  BY AlwaysInv, <1>1, PTL
=============================================================================
