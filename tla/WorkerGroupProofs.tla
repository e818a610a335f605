-------------------------- MODULE WorkerGroupProofs --------------------------
(***************************************************************************)
(* Theorems about WorkerGroup for every size of the group, every limit and *)
(* every pattern of loads.                                                 *)
(***************************************************************************)
EXTENDS WorkerGroup, TLAPS

LEMMA ConstantTypes ==
    /\ MaxId \in Nat \ {0} /\ Initial \in Nat \ {0} /\ Batch \in Nat \ {0}
    /\ LiveDefault \in Nat \ {0}
BY GroupAssumption

LEMMA GroupInit == Init => GroupInv
<1> SUFFICES ASSUME Init PROVE GroupInv
  OBVIOUS
<1>1. life \in [Id -> 0 .. LiveDefault]
  BY ConstantTypes DEF Init
<1>2. stopAsked \in [Id -> BOOLEAN]
  BY DEF Init
<1>3. groupStop \in BOOLEAN
  BY DEF Init
<1>4. /\ phase \in [Id -> {"unborn", "ready", "busy", "farewell", "closing",
                         "ended"}]
      /\ context \in [Id -> {"none", "live", "freed"}]
  BY DEF Init
<1>5. TypeOK
  BY <1>1, <1>2, <1>3, <1>4, ConstantTypes DEF Init, TypeOK
<1>6. HandsAreFull /\ DeadIsKnown
  BY DEF Init, HandsAreFull, DeadIsKnown, InHand
<1>7. ContextFollowsPhase /\ NoOrphanThread
  BY DEF Init, ContextFollowsPhase, NoOrphanThread
<1> QED
  BY <1>5, <1>6, <1>7 DEF GroupInv

-----------------------------------------------------------------------------
(* The manager.                                                            *)

LEMMA ProcureStep ==
    ASSUME GroupInv, ProcureWorker \/ Register \/ ProcureFails
    PROVE  GroupInv'
<1> USE DEF GroupInv, threads
<1>1. CASE ProcureWorker
  <2> PICK i \in Fresh :
            /\ current' = i
            /\ phase' = [phase EXCEPT ![i] = "ready"]
            /\ life' = [life EXCEPT ![i] = LiveDefault]
            /\ stopAsked' = [stopAsked EXCEPT ![i] = FALSE]
            /\ context' = [context EXCEPT ![i] = "live"]
    BY <1>1 DEF ProcureWorker
  <2>0. /\ mpc = "add" /\ mpc' = "ensure" /\ todo > 0
        /\ UNCHANGED <<todo, after, registered, nulls, groupStop, dead>>
    BY <1>1 DEF ProcureWorker
  <2>1. i \in Id /\ i \notin registered /\ i \notin dead
    BY DEF Fresh
  <2>2. TypeOK'
    <3>1. life' \in [Id -> 0 .. LiveDefault]
      <4>1. LiveDefault \in 0 .. LiveDefault
        BY ConstantTypes
      <4> QED
        BY <4>1, <2>1 DEF TypeOK
    <3>2. current' \in 0 .. MaxId
      BY <2>1, ConstantTypes DEF Id
    <3>3. /\ phase' \in [Id -> {"unborn", "ready", "busy", "farewell",
                               "closing", "ended"}]
          /\ stopAsked' \in [Id -> BOOLEAN]
          /\ context' \in [Id -> {"none", "live", "freed"}]
      BY <2>1 DEF TypeOK
    <3> QED
      BY <2>0, <3>1, <3>2, <3>3 DEF TypeOK
  <2>3. HandsAreFull'
    BY <2>0, <2>1 DEF HandsAreFull
  <2>4. DeadIsKnown'
    BY <2>0, <2>1 DEF DeadIsKnown, InHand, TypeOK, Leaving
  <2>5. ContextFollowsPhase' /\ NoOrphanThread'
    BY <2>0, <2>1 DEF ContextFollowsPhase, NoOrphanThread, TypeOK
  <2> QED
    BY <2>2, <2>3, <2>4, <2>5
<1>2. CASE Register
  <2>1. current \in Id
    BY <1>2 DEF Register, HandsAreFull
  <2>2. TypeOK'
    <3>1. todo' \in Nat
      BY <1>2 DEF Register, TypeOK, HandsAreFull
    <3> QED
      BY <1>2, <2>1, <3>1, ConstantTypes DEF Register, TypeOK, Id
  <2>3. HandsAreFull' /\ DeadIsKnown'
    BY <1>2, <2>1 DEF Register, HandsAreFull, DeadIsKnown, InHand
  <2>4. ContextFollowsPhase' /\ NoOrphanThread'
    BY <1>2, <2>1 DEF Register, ContextFollowsPhase, NoOrphanThread
  <2> QED
    BY <2>2, <2>3, <2>4
<1>3. CASE ProcureFails
  <2> PICK i \in Fresh : context' = [context EXCEPT ![i] = "freed"]
    BY <1>3 DEF ProcureFails
  <2>0. /\ mpc = "add" /\ todo' = 0
        /\ UNCHANGED <<mpc, after, current, registered, nulls, groupStop, dead,
                       phase, life, stopAsked>>
    BY <1>3 DEF ProcureFails
  <2>1. i \in Id /\ phase[i] \in {"unborn", "ended"}
    BY DEF Fresh
  <2>2. TypeOK'
    BY <2>0, <2>1 DEF TypeOK
  <2>3. HandsAreFull' /\ DeadIsKnown'
    BY <2>0 DEF HandsAreFull, DeadIsKnown, InHand
  <2>4. ContextFollowsPhase' /\ NoOrphanThread'
    BY <2>0, <2>1 DEF ContextFollowsPhase, NoOrphanThread, TypeOK
  <2> QED
    BY <2>2, <2>3, <2>4
<1> QED
  BY <1>1, <1>2, <1>3

LEMMA ReapStep ==
    ASSUME GroupInv, (\E i \in Id : ReceiveDead(i)) \/ Join
    PROVE  GroupInv'
<1> USE DEF GroupInv, threads
<1>1. ASSUME NEW i \in Id, ReceiveDead(i) PROVE GroupInv'
  <2>1. i \in registered /\ phase[i] \in Leaving
    BY <1>1 DEF ReceiveDead, DeadIsKnown, InHand
  <2>2. /\ stopAsked' = [stopAsked EXCEPT ![i] = TRUE]
        /\ current' = i
        /\ mpc = "poll" /\ mpc' = "join"
        /\ dead' = dead \ {i}
        /\ UNCHANGED <<todo, after, registered, nulls, groupStop, phase, life,
                       context>>
    BY <1>1, <2>1 DEF ReceiveDead
  <2>3. stopAsked' \in [Id -> BOOLEAN]
    BY <2>2 DEF TypeOK
  <2>4. TypeOK'
    BY <2>2, <2>3, ConstantTypes DEF TypeOK, Id
  <2>5. HandsAreFull' /\ DeadIsKnown'
    BY <2>1, <2>2 DEF HandsAreFull, DeadIsKnown, InHand
  <2>6. ContextFollowsPhase' /\ NoOrphanThread'
    BY <2>2 DEF ContextFollowsPhase, NoOrphanThread
  <2> QED
    BY <2>4, <2>5, <2>6
<1>2. CASE Join
  <2>1. TypeOK'
    BY <1>2, ConstantTypes DEF Join, TypeOK
  <2>2. HandsAreFull' /\ DeadIsKnown'
    BY <1>2 DEF Join, HandsAreFull, DeadIsKnown, InHand
  <2>3. ContextFollowsPhase' /\ NoOrphanThread'
    BY <1>2 DEF Join, ContextFollowsPhase, NoOrphanThread
  <2> QED
    BY <2>1, <2>2, <2>3
<1> QED
  BY <1>1, <1>2

\* The steps that move the manager from one place to another and at most ask
\* workers to stop.
LEMMA QuietStep ==
    ASSUME GroupInv,
           mpc \notin {"ensure", "join", "stopped"},
           mpc' \in {"add", "poll", "regular", "refill", "check", "stopped"},
           mpc' = "stopped" => registered = {},
           todo' \in Nat, after' \in {"poll", "refill", "check"},
           stopAsked' \in [Id -> BOOLEAN],
           UNCHANGED <<current, registered, nulls, groupStop, dead, phase, life,
                       context>>
    PROVE  GroupInv'
<1>1. TypeOK'
  BY DEF GroupInv, TypeOK
<1>2. HandsAreFull' /\ DeadIsKnown'
  BY DEF GroupInv, HandsAreFull, DeadIsKnown, InHand
<1>3. ContextFollowsPhase' /\ NoOrphanThread'
  BY DEF GroupInv, ContextFollowsPhase, NoOrphanThread
<1> QED
  BY <1>1, <1>2, <1>3 DEF GroupInv

LEMMA LoopStep ==
    ASSUME GroupInv,
           Setup \/ Added \/ PollTimesOut \/ LowLoad \/ HighLoad \/ NothingToDo
                 \/ Refill \/ Check
    PROVE  GroupInv'
<1> USE DEF threads
<1>0. TypeOK
  BY DEF GroupInv
<1>1. CASE Setup
  BY <1>0, <1>1, QuietStep, ConstantTypes DEF Setup, AddWorkers, TypeOK
<1>2. CASE Added
  BY <1>0, <1>2, QuietStep DEF Added, TypeOK
<1>3. CASE PollTimesOut \/ NothingToDo
  BY <1>0, <1>3, QuietStep DEF PollTimesOut, NothingToDo, TypeOK
<1>4. CASE LowLoad
  BY <1>0, <1>4, QuietStep, ConstantTypes DEF LowLoad, AddWorkers, TypeOK
<1>5. CASE Refill
  BY <1>0, <1>5, QuietStep, ConstantTypes DEF Refill, AddWorkers, TypeOK
<1>6. CASE HighLoad
  <2>1. stopAsked' \in [Id -> BOOLEAN]
    <3>1. CASE UNCHANGED stopAsked
      BY <1>0, <3>1 DEF TypeOK
    <3>2. CASE killRandomWorker
      BY <1>0, <3>2 DEF TypeOK, killRandomWorker
    <3> QED
      BY <1>6, <3>1, <3>2 DEF HighLoad
  <2> QED
    BY <1>0, <1>6, <2>1, QuietStep DEF HighLoad, TypeOK
<1>7. CASE Check
  <2>1. stopAsked' \in [Id -> BOOLEAN]
    <3>1. CASE groupStop
      BY <1>7, <3>1 DEF Check
    <3>2. CASE ~groupStop
      BY <1>0, <1>7, <3>2 DEF Check, TypeOK
    <3> QED
      BY <3>1, <3>2
  <2> QED
    BY <1>0, <1>7, <2>1, QuietStep DEF Check, Done, TypeOK
<1> QED
  BY <1>1, <1>2, <1>3, <1>4, <1>5, <1>6, <1>7

-----------------------------------------------------------------------------
(* The worker threads.                                                     *)

\* A step that leaves a worker in its loop.
LEMMA WorkStep ==
    ASSUME GroupInv, NEW i \in Id,
           SilentPoll(i) \/ HeartBeat(i) \/ TakeRequest(i) \/ SendResponse(i)
    PROVE  GroupInv'
<1> USE DEF GroupInv, manager, InLoop
<1>1. /\ UNCHANGED <<manager, groupStop, dead, stopAsked, context>>
      /\ phase[i] \in {"ready", "busy"}
      /\ \/ phase' = phase
         \/ phase' = [phase EXCEPT ![i] = "busy"]
         \/ phase' = [phase EXCEPT ![i] = "ready"]
  BY DEF SilentPoll, HeartBeat, TakeRequest, SendResponse
<1>2. life' \in [Id -> 0 .. LiveDefault]
  <2>1. CASE SilentPoll(i)
    BY <2>1, ConstantTypes DEF SilentPoll, TypeOK
  <2>2. CASE HeartBeat(i) \/ TakeRequest(i) \/ SendResponse(i)
    <3>1. LiveDefault \in 0 .. LiveDefault
      BY ConstantTypes
    <3> QED
      BY <2>2, <3>1 DEF HeartBeat, TakeRequest, SendResponse, TypeOK
  <2> QED
    BY <2>1, <2>2
<1>3. TypeOK'
  BY <1>1, <1>2 DEF TypeOK
<1>4. HandsAreFull' /\ DeadIsKnown'
  BY <1>1 DEF HandsAreFull, DeadIsKnown, InHand, Leaving, TypeOK
<1>5. ContextFollowsPhase' /\ NoOrphanThread'
  BY <1>1 DEF ContextFollowsPhase, NoOrphanThread, TypeOK
<1> QED
  BY <1>3, <1>4, <1>5

LEMMA DeathStep ==
    ASSUME GroupInv, NEW i \in Id, LeaveLoop(i) \/ Fail(i)
    PROVE  GroupInv'
<1> USE DEF GroupInv, manager
<1>1. SayDead(i) /\ phase[i] \in {"ready", "busy"}
  BY DEF LeaveLoop, Fail
<1>2. i \in registered \cup InHand
  BY <1>1 DEF NoOrphanThread, InHand
<1>3. ~(mpc = "join" /\ current = i)
  BY <1>1 DEF HandsAreFull, Leaving
<1>4. TypeOK'
  BY <1>1 DEF SayDead, TypeOK
<1>5. HandsAreFull' /\ DeadIsKnown'
  BY <1>1, <1>2, <1>3 DEF SayDead, HandsAreFull, DeadIsKnown, InHand, Leaving,
                          TypeOK
<1>6. ContextFollowsPhase' /\ NoOrphanThread'
  BY <1>1 DEF SayDead, ContextFollowsPhase, NoOrphanThread, TypeOK
<1> QED
  BY <1>4, <1>5, <1>6

LEMMA EndStep ==
    ASSUME GroupInv, NEW i \in Id, EndFarewell(i) \/ FreeContext(i)
    PROVE  GroupInv'
<1> USE DEF GroupInv, manager
<1>1. CASE EndFarewell(i)
  <2>1. TypeOK'
    BY <1>1 DEF EndFarewell, TypeOK
  <2>2. HandsAreFull' /\ DeadIsKnown'
    BY <1>1 DEF EndFarewell, HandsAreFull, DeadIsKnown, InHand, Leaving, TypeOK
  <2>3. ContextFollowsPhase' /\ NoOrphanThread'
    BY <1>1 DEF EndFarewell, ContextFollowsPhase, NoOrphanThread, TypeOK
  <2> QED
    BY <2>1, <2>2, <2>3
<1>2. CASE FreeContext(i)
  <2>1. TypeOK'
    BY <1>2 DEF FreeContext, TypeOK
  <2>2. HandsAreFull' /\ DeadIsKnown'
    BY <1>2 DEF FreeContext, HandsAreFull, DeadIsKnown, InHand, Leaving, TypeOK
  <2>3. ContextFollowsPhase' /\ NoOrphanThread'
    BY <1>2 DEF FreeContext, ContextFollowsPhase, NoOrphanThread, TypeOK
  <2> QED
    BY <2>1, <2>2, <2>3
<1> QED
  BY <1>1, <1>2

LEMMA GroupStep == GroupInv /\ [Next]_vars => GroupInv'
<1> SUFFICES ASSUME GroupInv, [Next]_vars PROVE GroupInv'
  OBVIOUS
<1>1. CASE UNCHANGED vars
  BY <1>1 DEF vars, manager, threads, GroupInv, TypeOK, HandsAreFull,
              DeadIsKnown, InHand, ContextFollowsPhase, NoOrphanThread
<1>2. CASE StopGroup
  BY <1>2 DEF StopGroup, manager, threads, GroupInv, TypeOK, HandsAreFull,
              DeadIsKnown, InHand, ContextFollowsPhase, NoOrphanThread
<1>3. CASE ManagerStep
  BY <1>3, ProcureStep, ReapStep, LoopStep DEF ManagerStep
<1>4. ASSUME NEW i \in Id,
             ThreadStep(i) \/ HeartBeat(i) \/ TakeRequest(i) \/ Fail(i)
      PROVE  GroupInv'
  BY <1>4, WorkStep, DeathStep, EndStep DEF ThreadStep
<1> QED
  BY <1>1, <1>2, <1>3, <1>4 DEF Next

LEMMA GroupInvariant == Spec => []GroupInv
BY GroupInit, GroupStep, PTL DEF Spec

\* Types, and a liveliness that never falls below zero.
THEOREM GroupTypeCorrect == Spec => []TypeOK
<1>1. GroupInv => TypeOK
  BY DEF GroupInv
<1> QED
  BY <1>1, GroupInvariant, PTL

\* No message of the control socket makes workers[id] insert a null pointer.
THEOREM DeadCorrect == Spec => []DeadIsRegistered
<1>1. GroupInv => DeadIsRegistered
  BY DEF GroupInv, DeadIsKnown, InHand, DeadIsRegistered
<1> QED
  BY <1>1, GroupInvariant, PTL

\* Every thread that runs can be stopped and joined by its group.
THEOREM OrphanCorrect == Spec => []NoOrphanThread
<1>1. GroupInv => NoOrphanThread
  BY DEF GroupInv
<1> QED
  BY <1>1, GroupInvariant, PTL

\* The group stops only when its threads are over and its contexts are freed.
THEOREM StopCorrect == Spec => []StopIsComplete
<1>1. GroupInv => StopIsComplete
  <2> SUFFICES ASSUME GroupInv, mpc = "stopped"
               PROVE  /\ dead = {}
                      /\ \A i \in Id : /\ phase[i] \in {"unborn", "ended"}
                                       /\ context[i] # "live"
    BY DEF StopIsComplete
  <2>1. registered = {} /\ InHand = {}
    BY DEF GroupInv, HandsAreFull, InHand
  <2>2. dead = {}
    BY <2>1 DEF GroupInv, DeadIsKnown
  <2>3. \A i \in Id : phase[i] \in {"unborn", "ended"}
    BY <2>1 DEF GroupInv, NoOrphanThread
  <2> QED
    BY <2>2, <2>3 DEF GroupInv, ContextFollowsPhase
<1> QED
  BY <1>1, GroupInvariant, PTL

\* A worker with a freed context is always on its way out of the map.
THEOREM FreedCorrect == Spec => []FreedIsAnnounced
<1>1. GroupInv => FreedIsAnnounced
  BY DEF GroupInv, TypeOK, DeadIsKnown, InHand, ContextFollowsPhase, Leaving,
         FreedIsAnnounced
<1> QED
  BY <1>1, GroupInvariant, PTL

=============================================================================
