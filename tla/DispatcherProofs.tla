-------------------------- MODULE DispatcherProofs --------------------------
(***************************************************************************)
(* Theorems about Dispatcher for every set of requests and workers and for *)
(* every value of live_default.                                            *)
(***************************************************************************)
EXTENDS Dispatcher, FiniteSetTheorems, TLAPS

LEMMA EmptyType == \A S : << >> \in Seq(S)
OBVIOUS

LEMMA PushType ==
    ASSUME TypeOK, NEW w \in Worker, PushReady(w)
    PROVE  ready' \in Seq(Worker) /\ poll_front' \in BOOLEAN
BY DEF TypeOK, PushReady

LEMMA ParkType ==
    ASSUME TypeOK, NEW j \in Job, Park(j)
    PROVE  /\ ready' \in Seq(Worker)
           /\ poll_front' \in BOOLEAN
           /\ accidentalMessage' \in Job
           /\ toWorker' \in [Worker -> Seq(ToWorkerMsg)]
BY EmptyType DEF TypeOK, Park

LEMMA SendType ==
    ASSUME TypeOK, NEW w \in Worker, NEW m \in ToWorkerMsg
    PROVE  Send(w, m) \in Seq(ToWorkerMsg)
BY DEF TypeOK, Send

LEMMA DeliverType ==
    ASSUME TypeOK, NEW w \in Worker, NEW m \in FromWorkerMsg
    PROVE  Deliver(w, m) \in Seq(FromWorkerMsg)
BY DEF TypeOK, Deliver

LEMMA AnswerType ==
    ASSUME NEW m \in ToWorkerMsg
    PROVE  AnswerTo(m) \in FromWorkerMsg
BY DEF ToWorkerMsg, FromWorkerMsg, AnswerTo, Ping, Order, Notice, Reply

LEMMA MessageTypes ==
    /\ Ping \in ToWorkerMsg
    /\ \A j \in Job : Order(j) \in ToWorkerMsg
    /\ \A k \in {"READY", "DEATH", "PONG"} : Notice(k) \in FromWorkerMsg
BY DEF ToWorkerMsg, FromWorkerMsg

LEMMA DispatchType ==
    ASSUME TypeOK, NEW j \in Job, Dispatch(j)
    PROVE  /\ ready' \in Seq(Worker)
           /\ poll_front' \in BOOLEAN
           /\ toWorker' \in [Worker -> Seq(ToWorkerMsg)]
<1> USE DEF TypeOK
<1>1. PICK i \in Live :
          /\ ready' = SubSeq(ready, i + 1, Len(ready))
          /\ poll_front' = (poll_front /\ i < Len(ready))
          /\ toWorker' = [toWorker EXCEPT ![ready[i]] =
                              Send(ready[i], Order(j))]
  BY DEF Dispatch
<1>2. i \in 1 .. Len(ready) /\ ready[i] \in Worker
  BY DEF Live
<1>3. ready' \in Seq(Worker)
  BY <1>1, <1>2
<1>4. Send(ready[i], Order(j)) \in Seq(ToWorkerMsg)
  BY <1>2, SendType, MessageTypes
<1> QED
  BY <1>1, <1>2, <1>3, <1>4

-----------------------------------------------------------------------------
(* Type correctness.                                                       *)

LEMMA ReceiveType ==
    ASSUME TypeOK, NEW w \in Worker, NEW m \in FromWorkerMsg, Receive(w, m)
    PROVE  fromWorker' \in [Worker -> Seq(FromWorkerMsg)]
BY DEF TypeOK, Receive

LEMMA InitType == Init => TypeOK
<1> SUFFICES ASSUME Init PROVE TypeOK
  OBVIOUS
<1>1. /\ toWorker \in [Worker -> Seq(ToWorkerMsg)]
      /\ fromWorker \in [Worker -> Seq(FromWorkerMsg)]
      /\ ready \in Seq(Worker)
  BY EmptyType DEF Init
<1>2. liveliness \in [Worker -> 0 .. LiveDefault]
  BY LiveAssumption DEF Init
<1> QED
  BY <1>1, <1>2 DEF Init, TypeOK

LEMMA BackType == TypeOK /\ HandleBack => TypeOK'
<1> SUFFICES ASSUME TypeOK, HandleBack PROVE TypeOK'
  OBVIOUS
<1> USE LiveAssumption DEF registry, queues, peers
<1>1. CASE NoBackMessage
  BY <1>1 DEF TypeOK, NoBackMessage
<1>2. ASSUME NEW w \in Worker, HandleReady(w) PROVE TypeOK'
  <2>1. fromWorker' \in [Worker -> Seq(FromWorkerMsg)]
    BY <1>2, ReceiveType, MessageTypes DEF HandleReady
  <2>2. CASE w \in known
    BY <1>2, <2>1, <2>2 DEF TypeOK, HandleReady, Receive
  <2>3. CASE w \notin known
    <3>1. PushReady(w)
      BY <1>2, <2>3 DEF HandleReady
    <3>2. ready' \in Seq(Worker) /\ poll_front' \in BOOLEAN
      BY <3>1, PushType
    <3>3. accidentalMessage' = accidentalMessage
      BY <3>1 DEF PushReady
    <3>4. /\ known' \subseteq Worker
          /\ liveliness' \in [Worker -> 0 .. LiveDefault]
          /\ pendingHeartbeat' \in [Worker -> BOOLEAN]
      <4>1. /\ known' = known \cup {w}
            /\ liveliness' = [liveliness EXCEPT ![w] = LiveDefault]
            /\ pendingHeartbeat' = [pendingHeartbeat EXCEPT ![w] = FALSE]
        BY <1>2, <2>3 DEF HandleReady
      <4>2. LiveDefault \in 0 .. LiveDefault
        BY LiveAssumption
      <4> QED
        BY <4>1, <4>2 DEF TypeOK
    <3>5. accidentalMessage' \in Job \cup {NoRequest}
      BY <3>3 DEF TypeOK
    <3>6. /\ pc' = "front"
          /\ answered' = answered
          /\ UNCHANGED <<backEvent, frontEvent, requestedShutdown, front,
                         toWorker, link, submitted>>
      BY <1>2 DEF HandleReady, Receive
    <3> QED
      BY <2>1, <3>2, <3>4, <3>5, <3>6 DEF TypeOK
  <2> QED
    BY <2>2, <2>3
<1>3. ASSUME NEW w \in Worker, HandleDeath(w) PROVE TypeOK'
  <2>1. fromWorker' \in [Worker -> Seq(FromWorkerMsg)]
    BY <1>3, ReceiveType, MessageTypes DEF HandleDeath
  <2> QED
    BY <1>3, <2>1 DEF TypeOK, HandleDeath, Receive, Erase
<1>4. ASSUME NEW w \in Worker, HandlePong(w) PROVE TypeOK'
  <2>1. fromWorker' \in [Worker -> Seq(FromWorkerMsg)]
    BY <1>4, ReceiveType, MessageTypes DEF HandlePong
  <2> QED
    <3>1. /\ liveliness' \in [Worker -> 0 .. LiveDefault]
          /\ pendingHeartbeat' \in [Worker -> BOOLEAN]
      <4>1. CASE w \in known
        <5>1. /\ liveliness' = [liveliness EXCEPT ![w] = LiveDefault]
              /\ pendingHeartbeat' = [pendingHeartbeat EXCEPT ![w] = FALSE]
          BY <1>4, <4>1 DEF HandlePong, PongReceived
        <5>2. LiveDefault \in 0 .. LiveDefault
          BY LiveAssumption
        <5> QED
          BY <5>1, <5>2 DEF TypeOK
      <4>2. CASE w \notin known
        BY <1>4, <4>2 DEF TypeOK, HandlePong
      <4> QED
        BY <4>1, <4>2
    <3> QED
      BY <1>4, <2>1, <3>1 DEF TypeOK, HandlePong, Receive
<1>5. ASSUME NEW w \in Worker, NEW j \in Job, HandleReply(w, j) PROVE TypeOK'
  <2>1. fromWorker' \in [Worker -> Seq(FromWorkerMsg)]
    BY <1>5, ReceiveType DEF HandleReply, FromWorkerMsg
  <2>2. /\ ready' \in Seq(Worker)
        /\ poll_front' \in BOOLEAN
        /\ accidentalMessage' = accidentalMessage
    <3>1. CASE PushReady(w)
      BY <3>1, PushType DEF PushReady
    <3>2. CASE UNCHANGED queues
      BY <3>2 DEF TypeOK
    <3> QED
      BY <1>5, <3>1, <3>2 DEF HandleReply
  <2> QED
    BY <1>5, <2>1, <2>2 DEF TypeOK, HandleReply, Receive
<1> QED
  BY <1>1, <1>2, <1>3, <1>4, <1>5 DEF HandleBack

LEMMA FrontType == TypeOK /\ HandleFront => TypeOK'
<1> SUFFICES ASSUME TypeOK, HandleFront PROVE TypeOK'
  OBVIOUS
<1> USE DEF registry, queues, peers
<1>1. CASE SkipFront
  BY <1>1 DEF TypeOK, SkipFront
<1>2. CASE SendAccidental
  <2>1. accidentalMessage \in Job
    BY <1>2 DEF TypeOK, SendAccidental
  <2>2. CASE Dispatch(accidentalMessage) /\ accidentalMessage' = NoRequest
                 /\ pc' = "side"
    BY <1>2, <2>1, <2>2, DispatchType DEF TypeOK, SendAccidental
  <2>3. CASE Park(accidentalMessage) /\ pc' = "tick"
    BY <1>2, <2>1, <2>3, ParkType DEF TypeOK, SendAccidental
  <2> QED
    BY <1>2, <2>2, <2>3 DEF SendAccidental
<1>3. ASSUME NEW j \in Job, SendReceived(j) PROVE TypeOK'
  <2>1. front' \subseteq Request
    BY <1>3 DEF TypeOK, SendReceived, ReceiveFront
  <2>2. CASE Dispatch(j) /\ UNCHANGED accidentalMessage
    BY <1>3, <2>1, <2>2, DispatchType DEF TypeOK, SendReceived
  <2>3. CASE Park(j)
    BY <1>3, <2>1, <2>3, ParkType DEF TypeOK, SendReceived
  <2> QED
    BY <1>3, <2>2, <2>3 DEF SendReceived
<1> QED
  BY <1>1, <1>2, <1>3 DEF HandleFront, SendSide, SendNormal

LEMMA EndType == TypeOK /\ (Poll \/ Tick \/ Continue \/ Stop) => TypeOK'
<1> SUFFICES ASSUME TypeOK, Poll \/ Tick \/ Continue \/ Stop PROVE TypeOK'
  OBVIOUS
<1> USE DEF registry, queues, peers
<1>1. CASE Poll
  BY <1>1 DEF TypeOK, Poll, FrontEventAfterPoll
<1>2. CASE Tick
  <2>1. toWorker' \in [Worker -> Seq(ToWorkerMsg)]
    <3>1. \A w \in Worker : Send(w, Ping) \in Seq(ToWorkerMsg)
      BY SendType, MessageTypes
    <3> QED
      BY <1>2, <3>1 DEF TypeOK, Tick, Beat
  <2>2. liveliness' \in [Worker -> 0 .. LiveDefault]
    BY <1>2, LiveAssumption DEF TypeOK, Tick, Beat, Expired
  <2> QED
    BY <1>2, <2>1, <2>2 DEF TypeOK, Tick, Beat
<1>3. CASE Continue
  BY <1>3 DEF TypeOK, Continue
<1>4. CASE Stop
  <2>1. fromWorker' \in [Worker -> Seq(FromWorkerMsg)] /\ ready' \in Seq(Worker)
    BY <1>4, EmptyType DEF Stop
  <2>2. liveliness' \in [Worker -> 0 .. LiveDefault]
    BY <1>4, LiveAssumption DEF TypeOK, Stop, Erase
  <2>3. known' \subseteq Worker /\ pendingHeartbeat' \in [Worker -> BOOLEAN]
    BY <1>4 DEF TypeOK, Stop, Erase
  <2> QED
    BY <1>4, <2>1, <2>2, <2>3 DEF TypeOK, Stop
<1> QED
  BY <1>1, <1>2, <1>3, <1>4

LEMMA TurnType ==
    ASSUME TypeOK, NEW w \in Worker, NEW status \in {"up", "gone"},
           NEW to \in Seq(ToWorkerMsg), NEW from \in Seq(FromWorkerMsg),
           WorkerTurn(w, status, to, from)
    PROVE  TypeOK'
BY DEF TypeOK, WorkerTurn, registry, queues, peers

LEMMA EnvironmentType == TypeOK /\ Environment => TypeOK'
<1> SUFFICES ASSUME TypeOK, Environment PROVE TypeOK'
  OBVIOUS
<1>1. ASSUME NEW r \in Request, Submit(r) PROVE TypeOK'
  BY <1>1 DEF TypeOK, Submit, registry, queues
<1>2. ASSUME NEW w \in Worker, Join(w) PROVE TypeOK'
  <2>1. Append(fromWorker[w], Notice("READY")) \in Seq(FromWorkerMsg)
    BY MessageTypes DEF TypeOK
  <2>2. << >> \in Seq(ToWorkerMsg)
    OBVIOUS
  <2> QED
    BY <1>2, <2>1, <2>2, TurnType DEF Join
<1>3. ASSUME NEW w \in Worker, Answer(w) PROVE TypeOK'
  <2>1. Head(toWorker[w]) \in ToWorkerMsg /\ Tail(toWorker[w]) \in Seq(ToWorkerMsg)
    BY <1>3 DEF TypeOK, Answer
  <2>2. Deliver(w, AnswerTo(Head(toWorker[w]))) \in Seq(FromWorkerMsg)
    BY <2>1, AnswerType, DeliverType
  <2> QED
    BY <1>3, <2>1, <2>2, TurnType DEF Answer
<1>4. ASSUME NEW w \in Worker, Leave(w) PROVE TypeOK'
  <2>1. PICK n \in 0 .. Len(fromWorker[w]) :
            WorkerTurn(w, "gone", <<>>, SubSeq(fromWorker[w], 1, n))
    BY <1>4 DEF Leave
  <2>2. SubSeq(fromWorker[w], 1, n) \in Seq(FromWorkerMsg)
    BY DEF TypeOK
  <2>3. << >> \in Seq(ToWorkerMsg)
    OBVIOUS
  <2> QED
    BY <2>1, <2>2, <2>3, TurnType
<1>5. ASSUME NEW w \in Worker, Resign(w) PROVE TypeOK'
  <2>1. Deliver(w, Notice("DEATH")) \in Seq(FromWorkerMsg)
    BY MessageTypes, DeliverType
  <2>2. << >> \in Seq(ToWorkerMsg)
    OBVIOUS
  <2> QED
    BY <1>5, <2>1, <2>2, TurnType DEF Resign
<1>6. CASE RequestShutdown
  BY <1>6 DEF TypeOK, RequestShutdown, registry, queues, peers
<1> QED
  BY <1>1, <1>2, <1>3, <1>4, <1>5, <1>6 DEF Environment

LEMMA TypeStep == TypeOK /\ [Next]_vars => TypeOK'
<1>1. ASSUME TypeOK, UNCHANGED vars PROVE TypeOK'
  BY <1>1 DEF TypeOK, vars, registry, queues, peers
<1> QED
  BY <1>1, BackType, FrontType, EndType, EnvironmentType
     DEF Next, DispatcherStep

\* The variables of the dispatcher and the contents of its sockets keep their
\* types, for every number of workers and requests.
THEOREM TypeCorrect == Spec => []TypeOK
  BY InitType, TypeStep, PTL DEF Spec

-----------------------------------------------------------------------------
(* A parked request is not forgotten.                                      *)

\* The queue after the first known worker has been popped from it.
LEMMA DispatchKeepsPollFront ==
    ASSUME TypeOK, PollFrontIsReady, NEW j \in Job, Dispatch(j)
    PROVE  PollFrontIsReady'
<1>1. PICK i \in Live :
          /\ ready' = SubSeq(ready, i + 1, Len(ready))
          /\ poll_front' = (poll_front /\ i < Len(ready))
  BY DEF Dispatch
<1>2. ready \in Seq(Worker) /\ i \in 1 .. Len(ready)
  BY DEF TypeOK, Live
<1>3. ready # <<>>
  BY <1>2
<1>4. Len(ready') = Len(ready) - i
  BY <1>1, <1>2
<1>5. ready' \in Seq(Worker)
  BY DispatchType
<1>6. ready' # <<>> <=> i < Len(ready)
  BY <1>2, <1>4, <1>5
<1>7. poll_front
  BY <1>3 DEF PollFrontIsReady
<1>8. poll_front' <=> i < Len(ready)
  BY <1>1, <1>7
<1> QED
  BY <1>6, <1>8 DEF PollFrontIsReady

LEMMA WakeupInit == Init => WakeupInv
BY InitType DEF Init, WakeupInv, PollFrontIsReady, SideRequestHasEvent,
                ParkedRequestHasWakeup

LEMMA WakeupStep == WakeupInv /\ [Next]_vars => WakeupInv'
<1> SUFFICES ASSUME WakeupInv, [Next]_vars PROVE WakeupInv'
  OBVIOUS
<1>1. TypeOK /\ TypeOK'
  BY TypeStep DEF WakeupInv
<1> DEFINE Rest == PollFrontIsReady' /\ SideRequestHasEvent'
                       /\ ParkedRequestHasWakeup'
<1> SUFFICES Rest
  BY <1>1 DEF WakeupInv
<1>2. PollFrontIsReady /\ SideRequestHasEvent /\ ParkedRequestHasWakeup
  BY DEF WakeupInv
<1> USE DEF registry, queues, peers
<1>3. CASE UNCHANGED vars
  BY <1>2, <1>3 DEF vars, PollFrontIsReady, SideRequestHasEvent,
                    ParkedRequestHasWakeup
<1>4. CASE Poll
  BY <1>2, <1>4 DEF Poll, FrontEventAfterPoll, PollFrontIsReady,
                    SideRequestHasEvent, ParkedRequestHasWakeup
<1>5. CASE HandleBack
  <2>1. /\ pc' = "front"
        /\ frontEvent' = frontEvent
        /\ \/ UNCHANGED queues
           \/ \E w \in Worker : PushReady(w)
    BY <1>5 DEF HandleBack, NoBackMessage, HandleReady, HandleDeath, HandlePong,
                HandleReply, Receive
  <2>2. PollFrontIsReady'
    <3>1. CASE UNCHANGED queues
      BY <1>2, <3>1 DEF PollFrontIsReady
    <3>2. ASSUME NEW w \in Worker, PushReady(w) PROVE PollFrontIsReady'
      <4>1. ready' = Append(ready, w) /\ ready \in Seq(Worker)
        BY <1>1, <3>2 DEF PushReady, TypeOK
      <4>2. ready' # <<>>
        BY <4>1
      <4>3. poll_front'
        BY <3>2 DEF PushReady
      <4> QED
        BY <4>2, <4>3 DEF PollFrontIsReady
    <3> QED
      BY <2>1, <3>1, <3>2
  <2>3. SideRequestHasEvent' /\ ParkedRequestHasWakeup'
    BY <1>2, <2>1 DEF PushReady, SideRequestHasEvent, ParkedRequestHasWakeup
  <2> QED
    BY <2>2, <2>3
<1>6. CASE SkipFront
  BY <1>2, <1>6 DEF SkipFront, FrontIsReady, PollFrontIsReady,
                    SideRequestHasEvent, ParkedRequestHasWakeup
<1>7. CASE SendAccidental
  <2>1. accidentalMessage \in Job /\ frontEvent
    BY <1>1, <1>7 DEF TypeOK, SendAccidental, FrontIsReady
  <2>2. CASE Dispatch(accidentalMessage) /\ accidentalMessage' = NoRequest
                 /\ pc' = "side"
    <3>1. PollFrontIsReady'
      BY <1>1, <1>2, <2>1, <2>2, DispatchKeepsPollFront
    <3> QED
      BY <1>7, <2>1, <2>2, <3>1 DEF SendAccidental, SideRequestHasEvent,
                                    ParkedRequestHasWakeup
  <2>3. CASE Park(accidentalMessage) /\ pc' = "tick"
    BY <1>7, <2>1, <2>3 DEF SendAccidental, Park, PollFrontIsReady,
                            SideRequestHasEvent, ParkedRequestHasWakeup
  <2> QED
    BY <1>7, <2>2, <2>3 DEF SendAccidental
<1>8. ASSUME NEW j \in Job, SendReceived(j), frontEvent,
             accidentalMessage = NoRequest
      PROVE  Rest
  <2>1. pc' = "tick" /\ frontEvent' = frontEvent
    BY <1>8 DEF SendReceived
  <2>2. CASE Dispatch(j) /\ UNCHANGED accidentalMessage
    <3>1. PollFrontIsReady'
      BY <1>1, <1>2, <2>2, DispatchKeepsPollFront
    <3> QED
      BY <1>8, <2>1, <2>2, <3>1 DEF SideRequestHasEvent, ParkedRequestHasWakeup
  <2>3. CASE Park(j)
    BY <1>8, <2>1, <2>3 DEF Park, PollFrontIsReady, SideRequestHasEvent,
                            ParkedRequestHasWakeup
  <2> QED
    BY <1>8, <2>2, <2>3 DEF SendReceived
<1>9. CASE SendSide
  BY <1>2, <1>8, <1>9 DEF SendSide, SideRequestHasEvent
<1>10. CASE SendNormal
  BY <1>8, <1>10 DEF SendNormal, FrontIsReady
<1>11. CASE Tick \/ Continue
  BY <1>2, <1>11 DEF Tick, Continue, PollFrontIsReady, SideRequestHasEvent,
                     ParkedRequestHasWakeup
<1>12. CASE Stop
  BY <1>12 DEF Stop, PollFrontIsReady, SideRequestHasEvent,
               ParkedRequestHasWakeup
<1>13. CASE Environment
  <2>1. UNCHANGED <<queues, pc, frontEvent>>
    BY <1>13 DEF Environment, Submit, Join, Answer, Leave, Resign, WorkerTurn,
                 RequestShutdown
  <2> QED
    BY <1>2, <2>1 DEF PollFrontIsReady, SideRequestHasEvent,
                      ParkedRequestHasWakeup
<1> QED
  BY <1>3, <1>4, <1>5, <1>6, <1>7, <1>9, <1>10, <1>11, <1>12, <1>13
     DEF Next, DispatcherStep, HandleFront

\* While a request is parked the front item keeps the revents that were read
\* before it was parked, so the next worker that becomes ready wakes it up:
\* the poll loop never sleeps on a parked request and an idle worker.
THEOREM WakeupCorrect == Spec => []ParkedRequestHasWakeup
<1>1. WakeupInv => ParkedRequestHasWakeup
  BY DEF WakeupInv
<1> QED
  BY WakeupInit, WakeupStep, <1>1, PTL DEF Spec

-----------------------------------------------------------------------------
(* Life and heartbeats.                                                    *)

LEMMA LifeInit == Init => LifeLostIffPending
BY DEF Init, LifeLostIffPending

LEMMA LifeStep ==
    TypeOK /\ LifeLostIffPending /\ [Next]_vars => LifeLostIffPending'
<1> SUFFICES ASSUME TypeOK, LifeLostIffPending, [Next]_vars
             PROVE  LifeLostIffPending'
  OBVIOUS
<1> USE DEF registry
<1>1. CASE UNCHANGED registry
  BY <1>1 DEF LifeLostIffPending
<1>2. ASSUME NEW w \in Worker, HandleReady(w), w \notin known
      PROVE  LifeLostIffPending'
  <2>1. /\ known' = known \cup {w}
        /\ liveliness' = [liveliness EXCEPT ![w] = LiveDefault]
        /\ pendingHeartbeat' = [pendingHeartbeat EXCEPT ![w] = FALSE]
    BY <1>2 DEF HandleReady
  <2> QED
    BY <2>1, LiveAssumption DEF TypeOK, LifeLostIffPending
<1>3. ASSUME NEW S \in SUBSET Worker, Erase(S) PROVE LifeLostIffPending'
  BY <1>3 DEF TypeOK, LifeLostIffPending, Erase
<1>4. ASSUME NEW w \in Worker, HandlePong(w), w \in known
      PROVE  LifeLostIffPending'
  <2>1. /\ known' = known
        /\ liveliness' = [liveliness EXCEPT ![w] = LiveDefault]
        /\ pendingHeartbeat' = [pendingHeartbeat EXCEPT ![w] = FALSE]
    BY <1>4 DEF HandlePong, PongReceived
  <2> QED
    BY <2>1, LiveAssumption DEF TypeOK, LifeLostIffPending
<1>5. CASE Tick
  <2>1. /\ known' = known \ Expired
        /\ liveliness' = [w \in Worker |->
               IF w \in known \ Expired THEN liveliness[w] - 1 ELSE 0]
        /\ pendingHeartbeat' = [w \in Worker |-> w \in known \ Expired]
    BY <1>5 DEF Tick, Beat
  <2>2. ASSUME NEW w \in known'
        PROVE  /\ liveliness'[w] >= 1
               /\ pendingHeartbeat'[w]
               /\ liveliness'[w] < LiveDefault
    <3>1. w \in Worker /\ w \in known /\ w \notin Expired
      BY <2>1, <2>2 DEF TypeOK
    <3>2. liveliness[w] \in 0 .. LiveDefault /\ ~(liveliness[w] <= 1)
      BY <3>1 DEF TypeOK, Expired
    <3>3. liveliness'[w] = liveliness[w] - 1 /\ pendingHeartbeat'[w]
      BY <2>1, <3>1
    <3> QED
      BY <3>2, <3>3, LiveAssumption
  <2> QED
    BY <2>2 DEF LifeLostIffPending
<1>6. CASE HandleBack
  BY <1>1, <1>2, <1>3, <1>4, <1>6
     DEF HandleBack, NoBackMessage, HandleReady, HandleDeath, HandlePong,
         HandleReply
<1>7. CASE Stop
  BY <1>3, <1>7 DEF Stop, TypeOK
<1>8. CASE UNCHANGED vars \/ Poll \/ HandleFront \/ Continue \/ Environment
  <2>1. UNCHANGED registry
    BY <1>8 DEF vars, Poll, HandleFront, SkipFront, SendAccidental, SendSide,
                SendNormal, SendReceived, Continue, Environment, Submit, Join,
                Answer, Leave, Resign, WorkerTurn, RequestShutdown
  <2> QED
    BY <1>1, <2>1
<1> QED
  BY <1>5, <1>6, <1>7, <1>8 DEF Next, DispatcherStep

\* A worker of the map has at least one life, and has lost life exactly while
\* a heartbeat is pending: no worker is ever short of life without the PING
\* that lets it earn the life back.
THEOREM LifeCorrect == Spec => []LifeLostIffPending
  BY LifeInit, LifeStep, TypeCorrect, PTL DEF Spec

-----------------------------------------------------------------------------
(* Counting in sequences.                                                  *)

LEMMA CountedFinite ==
    ASSUME NEW S, NEW s \in Seq(S), NEW T
    PROVE  IsFiniteSet({i \in DOMAIN s : s[i] \in T})
<1>1. DOMAIN s = 1 .. Len(s) /\ Len(s) \in Nat
  OBVIOUS
<1>2. IsFiniteSet(1 .. Len(s))
  BY <1>1, FS_Interval
<1> QED
  BY <1>1, <1>2, FS_Subset

LEMMA CountType ==
    ASSUME NEW S, NEW s \in Seq(S), NEW T
    PROVE  /\ Count(s, T) \in Nat
           /\ Count(s, T) = 0 <=> \A i \in DOMAIN s : s[i] \notin T
           /\ Count(s, T) <= 1 =>
                  \A i, j \in DOMAIN s : s[i] \in T /\ s[j] \in T => i = j
<1> DEFINE D == {i \in DOMAIN s : s[i] \in T}
<1>1. IsFiniteSet(D)
  BY CountedFinite
<1>2. Cardinality(D) \in Nat /\ (Cardinality(D) = 0 <=> D = {})
  BY <1>1, FS_CardinalityType, FS_EmptySet
<1>3. Cardinality(D) <= 1 => \A i, j \in D : i = j
  <2>1. Cardinality(D) <= 1 => Cardinality(D) = 0 \/ Cardinality(D) = 1
    BY <1>2
  <2>2. Cardinality(D) = 1 => \E i : D = {i}
    BY <1>1, FS_Singleton
  <2> QED
    BY <1>2, <2>1, <2>2
<1> QED
  BY <1>2, <1>3 DEF Count

LEMMA CountEmpty == \A T : Count(<<>>, T) = 0
<1> SUFFICES ASSUME NEW T PROVE Count(<<>>, T) = 0
  OBVIOUS
<1>1. {i \in DOMAIN <<>> : <<>>[i] \in T} = {}
  OBVIOUS
<1> QED
  BY <1>1, FS_EmptySet DEF Count

LEMMA CountAppend ==
    ASSUME NEW S, NEW s \in Seq(S), NEW m \in S, NEW T
    PROVE  Count(Append(s, m), T) = Count(s, T) + IF m \in T THEN 1 ELSE 0
<1> DEFINE D == {i \in DOMAIN s : s[i] \in T}
           E == {i \in DOMAIN Append(s, m) : Append(s, m)[i] \in T}
           n == Len(s) + 1
<1>1. /\ DOMAIN s = 1 .. Len(s) /\ Len(s) \in Nat /\ DOMAIN Append(s, m) = 1 .. n
      /\ \A i \in 1 .. Len(s) : Append(s, m)[i] = s[i]
      /\ Append(s, m)[n] = m
  OBVIOUS
<1>2. IsFiniteSet(D)
  BY CountedFinite
<1>3. n \notin D /\ 1 .. n = 1 .. Len(s) \cup {n}
  BY <1>1
<1>4. E = IF m \in T THEN D \cup {n} ELSE D
  <2>1. \A i \in 1 .. Len(s) : i \in E <=> i \in D
    BY <1>1, <1>3
  <2>2. n \in E <=> m \in T
    BY <1>1, <1>3
  <2>3. E \subseteq 1 .. Len(s) \cup {n} /\ D \subseteq 1 .. Len(s)
    BY <1>1, <1>3
  <2> HIDE DEF D, E, n
  <2>4. CASE m \in T
    BY <1>3, <2>1, <2>2, <2>3, <2>4
  <2>5. CASE m \notin T
    <3>1. \A i \in E : i \in D
      BY <2>1, <2>2, <2>3, <2>5
    <3>2. \A i \in D : i \in E
      BY <2>1, <2>3
    <3> QED
      BY <2>5, <3>1, <3>2
  <2> QED
    BY <2>4, <2>5
<1> HIDE DEF D, E, n
<1>5. Cardinality(E) = Cardinality(D) + IF m \in T THEN 1 ELSE 0
  <2>1. CASE m \in T
    BY <1>2, <1>3, <1>4, <2>1, FS_AddElement
  <2>2. CASE m \notin T
    BY <1>2, <1>4, <2>2, FS_CardinalityType
  <2> QED
    BY <2>1, <2>2
<1> QED
  BY <1>5 DEF Count, D, E

\* What is behind the n-th element.  The ones up to there count for nothing or
\* for something.
LEMMA CountBehind ==
    ASSUME NEW S, NEW s \in Seq(S), NEW T, NEW n \in 1 .. Len(s)
    PROVE  /\ Count(SubSeq(s, n + 1, Len(s)), T) <= Count(s, T)
           /\ (\A i \in 1 .. n : s[i] \notin T) =>
                  Count(SubSeq(s, n + 1, Len(s)), T) = Count(s, T)
           /\ (\A i \in 1 .. n - 1 : s[i] \notin T) /\ s[n] \in T =>
                  Count(SubSeq(s, n + 1, Len(s)), T) = Count(s, T) - 1
<1> DEFINE q == SubSeq(s, n + 1, Len(s))
           D == {i \in DOMAIN s : s[i] \in T}
           E == {i \in DOMAIN q : q[i] \in T}
           F == {i \in D : i > n}
           f == [i \in E |-> i + n]
<1>1. /\ DOMAIN s = 1 .. Len(s) /\ Len(s) \in Nat /\ n \in Nat
      /\ DOMAIN q = 1 .. Len(s) - n
      /\ \A i \in 1 .. Len(s) - n : q[i] = s[i + n] /\ i + n \in 1 .. Len(s)
  OBVIOUS
<1>2. IsFiniteSet(D) /\ IsFiniteSet(F)
  <2>1. IsFiniteSet(D) /\ F \subseteq D
    BY CountedFinite
  <2> HIDE DEF D, F
  <2> QED
    BY <2>1, FS_Subset
<1>3. \A i \in F : i - n \in E /\ i - n + n = i
  <2> SUFFICES ASSUME NEW i \in F PROVE i - n \in E /\ i - n + n = i
    OBVIOUS
  <2>1. i \in 1 .. Len(s) /\ i > n /\ s[i] \in T
    BY <1>1
  <2>2. i - n \in 1 .. Len(s) - n /\ i - n + n = i
    BY <1>1, <2>1
  <2> QED
    BY <1>1, <2>1, <2>2
<1>4. \A i \in E : i \in Nat /\ i + n \in F
  BY <1>1
<1> HIDE DEF q, E, F, D
<1>5. f \in Bijection(E, F)
  <2>1. f \in [E -> F]
    BY <1>4
  <2>2. \A i, j \in E : f[i] = f[j] => i = j
    BY <1>1, <1>4
  <2>3. \A i \in F : \E j \in E : f[j] = i
    BY <1>3
  <2> HIDE DEF f
  <2> QED
    BY <2>1, <2>2, <2>3 DEF Bijection, Injection, Surjection, IsInjective
<1>6. Cardinality(E) = Cardinality(F)
  <2>1. \E g : g \in Injection(E, F) /\ g \in Surjection(E, F)
    BY <1>5 DEF Bijection
  <2> QED
    BY <1>2, <2>1, FS_Injection
<1>7. F \subseteq D /\ Cardinality(F) <= Cardinality(D)
  BY <1>2, FS_Subset DEF F
<1>8. (\A i \in 1 .. n : s[i] \notin T) => F = D
  BY <1>1 DEF F, D
<1>9. ASSUME \A i \in 1 .. n - 1 : s[i] \notin T, s[n] \in T
      PROVE  Cardinality(F) = Cardinality(D) - 1
  <2>1. n \in D /\ F = D \ {n}
    BY <1>1, <1>9 DEF F, D
  <2> QED
    BY <1>2, <2>1, FS_RemoveElement
<1> QED
  BY <1>6, <1>7, <1>8, <1>9 DEF Count, q, D, E

LEMMA CountTail ==
    ASSUME NEW S, NEW s \in Seq(S), s # <<>>, NEW T
    PROVE  Count(s, T) = Count(Tail(s), T) + IF Head(s) \in T THEN 1 ELSE 0
<1>1. /\ Tail(s) = SubSeq(s, 1 + 1, Len(s)) /\ Head(s) = s[1]
      /\ 1 \in 1 .. Len(s) /\ 1 .. 1 - 1 = {} /\ 1 .. 1 = {1}
  OBVIOUS
<1>2. Count(s, T) \in Nat /\ Count(Tail(s), T) \in Nat
  <2>1. Tail(s) \in Seq(S)
    OBVIOUS
  <2> QED
    BY <2>1, CountType
<1>3. /\ (\A i \in 1 .. 1 : s[i] \notin T) => Count(Tail(s), T) = Count(s, T)
      /\ (\A i \in 1 .. 1 - 1 : s[i] \notin T) /\ s[1] \in T =>
             Count(Tail(s), T) = Count(s, T) - 1
  <2>1. PICK n \in 1 .. Len(s) : n = 1
    BY <1>1
  <2>2. /\ Tail(s) = SubSeq(s, n + 1, Len(s)) /\ s[n] = s[1]
        /\ 1 .. n - 1 = {} /\ 1 .. n = {1}
    BY <1>1, <2>1
  <2>3. /\ (\A i \in 1 .. n : s[i] \notin T) =>
               Count(SubSeq(s, n + 1, Len(s)), T) = Count(s, T)
        /\ (\A i \in 1 .. n - 1 : s[i] \notin T) /\ s[n] \in T =>
               Count(SubSeq(s, n + 1, Len(s)), T) = Count(s, T) - 1
    BY CountBehind
  <2> QED
    BY <1>1, <2>2, <2>3
<1> QED
  BY <1>1, <1>2, <1>3

LEMMA CountPrefix ==
    ASSUME NEW S, NEW s \in Seq(S), NEW T, NEW n \in 0 .. Len(s)
    PROVE  Count(SubSeq(s, 1, n), T) <= Count(s, T)
<1> DEFINE q == SubSeq(s, 1, n)
           D == {i \in DOMAIN s : s[i] \in T}
           E == {i \in DOMAIN q : q[i] \in T}
<1>1. /\ DOMAIN s = 1 .. Len(s) /\ Len(s) \in Nat /\ n \in Nat
      /\ DOMAIN q = 1 .. n /\ \A i \in 1 .. n : q[i] = s[i] /\ i \in 1 .. Len(s)
  OBVIOUS
<1>2. IsFiniteSet(D)
  BY CountedFinite
<1>3. E \subseteq D
  BY <1>1
<1>4. Cardinality(E) <= Cardinality(D)
  BY <1>2, <1>3, FS_Subset
<1> QED
  BY <1>4 DEF Count

LEMMA CountSubset ==
    ASSUME NEW S, NEW s \in Seq(S), NEW U, NEW T \in SUBSET U
    PROVE  Count(s, T) <= Count(s, U)
<1> DEFINE D == {i \in DOMAIN s : s[i] \in T}
           E == {i \in DOMAIN s : s[i] \in U}
<1>1. IsFiniteSet(E) /\ D \subseteq E
  BY CountedFinite
<1> HIDE DEF D, E
<1>2. Cardinality(D) <= Cardinality(E)
  BY <1>1, FS_Subset
<1> QED
  BY <1>2 DEF Count, D, E

-----------------------------------------------------------------------------
(* A worker has one credit.                                                *)

Ready == {Notice("READY")}
Backs == Replies \cup {Notice("READY")}

LEMMA Messages ==
    /\ Ping \in ToWorkerMsg /\ Ping \notin Orders
    /\ \A j \in Job : /\ Order(j) \in ToWorkerMsg /\ Order(j) \in Orders /\ Order(j) # Ping
                      /\ Reply(j) \in FromWorkerMsg /\ Reply(j) \in Backs
                      /\ Reply(j) \notin Ready /\ Reply(j) # Notice("PONG")
                      /\ AnswerTo(Order(j)) = Reply(j)
    /\ \A j, k \in Job : /\ Order(j) = Order(k) => j = k
                         /\ Reply(j) = Reply(k) => j = k
    /\ \A k \in {"READY", "DEATH", "PONG"} : Notice(k) \in FromWorkerMsg
    /\ \A k \in {"DEATH", "PONG"} : Notice(k) \notin Backs /\ Notice(k) \notin Ready
    /\ Notice("DEATH") # Notice("PONG") /\ Notice("READY") # Notice("PONG")
    /\ \A k \in {"READY", "DEATH", "PONG"}, j \in Job : Notice(k) # Reply(j)
    /\ AnswerTo(Ping) = Notice("PONG")
    /\ ToWorkerMsg = {Ping} \cup Orders
    /\ Ready \subseteq Backs
BY DEF Ping, Order, Notice, Reply, Orders, Replies, Ready, Backs, ToWorkerMsg,
       FromWorkerMsg, AnswerTo

LEMMA CountsAreNat ==
    ASSUME TypeOK
    PROVE  \A w \in Worker : \A T :
               /\ Count(ready, T) \in Nat /\ Count(toWorker[w], T) \in Nat
               /\ Count(fromWorker[w], T) \in Nat
<1> SUFFICES ASSUME NEW w \in Worker, NEW T
             PROVE  /\ Count(ready, T) \in Nat /\ Count(toWorker[w], T) \in Nat
                    /\ Count(fromWorker[w], T) \in Nat
  OBVIOUS
<1>1. /\ ready \in Seq(Worker) /\ toWorker[w] \in Seq(ToWorkerMsg)
      /\ fromWorker[w] \in Seq(FromWorkerMsg)
  BY DEF TypeOK
<1> QED
  BY <1>1, CountType

\* What an action does to the counts of the sequences it changes.
LEMMA ReceiveCounts ==
    ASSUME TypeOK, NEW w \in Worker, NEW m \in FromWorkerMsg, Receive(w, m)
    PROVE  /\ \A T : Count(fromWorker[w], T) =
                         Count(fromWorker'[w], T) + IF m \in T THEN 1 ELSE 0
           /\ \A v \in Worker \ {w} : fromWorker'[v] = fromWorker[v]
           /\ UNCHANGED <<toWorker, link>> /\ pc' = "front"
<1>1. fromWorker[w] \in Seq(FromWorkerMsg) /\ fromWorker[w] # <<>>
  BY DEF TypeOK, Receive
<1>2. /\ m = Head(fromWorker[w]) /\ fromWorker'[w] = Tail(fromWorker[w])
      /\ \A v \in Worker \ {w} : fromWorker'[v] = fromWorker[v]
      /\ UNCHANGED <<toWorker, link>> /\ pc' = "front"
  BY DEF TypeOK, Receive
<1>3. \A T : Count(fromWorker[w], T) = Count(Tail(fromWorker[w]), T)
                 + IF Head(fromWorker[w]) \in T THEN 1 ELSE 0
  BY <1>1, CountTail
<1> QED
  BY <1>2, <1>3

LEMMA PushCounts ==
    ASSUME TypeOK, NEW w \in Worker, PushReady(w)
    PROVE  \A v : Count(ready', {v}) = Count(ready, {v}) + IF v = w THEN 1 ELSE 0
<1>1. ready \in Seq(Worker) /\ ready' = Append(ready, w)
  BY DEF TypeOK, PushReady
<1>2. \A v : Count(Append(ready, w), {v}) =
                 Count(ready, {v}) + IF w \in {v} THEN 1 ELSE 0
  BY <1>1, CountAppend
<1>3. \A v : w \in {v} <=> v = w
  OBVIOUS
<1> QED
  BY <1>1, <1>2, <1>3

LEMMA SendCounts ==
    ASSUME TypeOK, NEW w \in Worker, NEW m \in ToWorkerMsg
    PROVE  /\ link[w] # "up" => Send(w, m) = toWorker[w]
           /\ link[w] = "up" =>
                  \A T : Count(Send(w, m), T) =
                             Count(toWorker[w], T) + IF m \in T THEN 1 ELSE 0
<1>1. toWorker[w] \in Seq(ToWorkerMsg)
  BY DEF TypeOK
<1>2. \A T : Count(Append(toWorker[w], m), T) =
                 Count(toWorker[w], T) + IF m \in T THEN 1 ELSE 0
  BY <1>1, CountAppend
<1> QED
  BY <1>2 DEF Send

LEMMA DispatchCounts ==
    ASSUME TypeOK, NEW j \in Job, Dispatch(j)
    PROVE  \E w \in known :
               /\ \A v : Count(ready', {v}) <= Count(ready, {v})
               /\ \A v \in known \ {w} : Count(ready', {v}) = Count(ready, {v})
               /\ Count(ready', {w}) = Count(ready, {w}) - 1
               /\ toWorker'[w] = Send(w, Order(j))
               /\ \A v \in Worker \ {w} : toWorker'[v] = toWorker[v]
<1>1. PICK i \in Live :
          /\ \A k \in Live : i <= k
          /\ ready' = SubSeq(ready, i + 1, Len(ready))
          /\ toWorker' = [toWorker EXCEPT ![ready[i]] = Send(ready[i], Order(j))]
  BY DEF Dispatch
<1>2. i \in 1 .. Len(ready) /\ ready[i] \in known /\ ready \in Seq(Worker)
  BY DEF TypeOK, Live
<1>3. \A k \in 1 .. i - 1 : ready[k] \notin known
  <2> SUFFICES ASSUME NEW k \in 1 .. i - 1 PROVE ready[k] \notin known
    OBVIOUS
  <2>1. k \in 1 .. Len(ready) /\ ~(i <= k)
    BY <1>2
  <2> QED
    BY <1>1, <2>1 DEF Live
<1>4. \A v : Count(ready', {v}) <= Count(ready, {v})
  BY <1>1, <1>2, CountBehind
<1>5. ASSUME NEW v \in known \ {ready[i]} PROVE Count(ready', {v}) = Count(ready, {v})
  <2>1. \A k \in 1 .. i : k = i \/ k \in 1 .. i - 1
    BY <1>2
  <2>2. \A k \in 1 .. i : ready[k] \notin {v}
    BY <1>3, <2>1
  <2> QED
    BY <1>1, <1>2, <2>2, CountBehind
<1>6. Count(ready', {ready[i]}) = Count(ready, {ready[i]}) - 1
  <2>1. \A k \in 1 .. i - 1 : ready[k] \notin {ready[i]}
    BY <1>2, <1>3
  <2> QED
    BY <1>1, <1>2, <2>1, CountBehind
<1>7. /\ toWorker'[ready[i]] = Send(ready[i], Order(j))
      /\ \A v \in Worker \ {ready[i]} : toWorker'[v] = toWorker[v]
  BY <1>1, <1>2 DEF TypeOK
<1> QED
  BY <1>2, <1>4, <1>5, <1>6, <1>7

LEMMA ParkCounts ==
    ASSUME TypeOK, NEW j \in Job, Park(j)
    PROVE  /\ \A v : Count(ready', {v}) <= Count(ready, {v})
           /\ \A v \in known : Count(ready', {v}) = Count(ready, {v})
           /\ toWorker' = toWorker
<1>1. ready \in Seq(Worker) /\ DOMAIN ready = 1 .. Len(ready)
  BY DEF TypeOK
<1>2. Live = {} /\ ready' = <<>> /\ toWorker' = toWorker
  BY DEF Park
<1>3. \A v : Count(ready, {v}) \in Nat /\ Count(ready', {v}) = 0
  BY <1>1, <1>2, CountEmpty, CountType
<1>4. ASSUME NEW v \in known PROVE Count(ready, {v}) = 0
  <2>1. \A i \in DOMAIN ready : ready[i] \notin {v}
    BY <1>1, <1>2 DEF Live
  <2> QED
    BY <1>1, <2>1, CountType
<1>5. ASSUME NEW v PROVE Count(ready', {v}) <= Count(ready, {v})
  <2>1. Count(ready, {v}) \in Nat /\ Count(ready', {v}) = 0
    BY <1>3
  <2> QED
    BY <2>1
<1>6. \A v \in known : Count(ready', {v}) = Count(ready, {v})
  BY <1>3, <1>4
<1> QED
  BY <1>2, <1>5, <1>6

LEMMA NextCountsAreNat ==
    ASSUME TypeOK'
    PROVE  \A w \in Worker : \A T :
               /\ Count(ready', T) \in Nat /\ Count(toWorker'[w], T) \in Nat
               /\ Count(fromWorker'[w], T) \in Nat
<1> SUFFICES ASSUME NEW w \in Worker, NEW T
             PROVE  /\ Count(ready', T) \in Nat /\ Count(toWorker'[w], T) \in Nat
                    /\ Count(fromWorker'[w], T) \in Nat
  OBVIOUS
<1>1. /\ ready' \in Seq(Worker) /\ toWorker'[w] \in Seq(ToWorkerMsg)
      /\ fromWorker'[w] \in Seq(FromWorkerMsg)
  BY DEF TypeOK
<1> QED
  BY <1>1, CountType

\* CreditInv, one worker at a time.
CreditOf(w) ==
    /\ link[w] # "up" => toWorker[w] = <<>>
    /\ link[w] = "new" => w \notin known /\ Credits(w) = 0
    /\ w \in known => Count(fromWorker[w], Ready) = 0
    /\ Credits(w) <= 1
    /\ w \in known /\ link[w] = "up" => Credits(w) = 1

LEMMA CreditParts ==
    CreditInv <=> /\ TypeOK
                  /\ \A w \in Worker : CreditOf(w)
                  /\ pc = "done" => known = {}
<1>1. TypeOK => \A w \in known : w \in Worker
  BY DEF TypeOK
<1> QED
  BY <1>1 DEF CreditInv, WorkersBegin, OneCreditPerWorker, CreditOf, Ready

\* The credit of a worker that an action is not about.
LEMMA CreditKept ==
    ASSUME TypeOK, TypeOK', NEW w \in Worker, CreditOf(w),
           link'[w] = link[w], fromWorker'[w] = fromWorker[w],
           link[w] # "up" => toWorker'[w] = toWorker[w],
           Count(toWorker'[w], Orders) = Count(toWorker[w], Orders),
           Count(ready', {w}) <= Count(ready, {w}),
           w \in known' => /\ w \in known
                           /\ Count(ready', {w}) = Count(ready, {w})
    PROVE  CreditOf(w)'
<1>1. /\ Count(ready, {w}) \in Nat /\ Count(ready', {w}) \in Nat
      /\ Count(toWorker[w], Orders) \in Nat /\ Count(fromWorker[w], Backs) \in Nat
  BY CountsAreNat, NextCountsAreNat
<1>2. Credits(w)' <= Credits(w)
  BY <1>1 DEF Credits, Backs
<1>3. w \in known' => Credits(w)' = Credits(w)
  BY DEF Credits
<1>4. Credits(w) \in Nat /\ Credits(w)' \in Nat
  BY <1>1 DEF Credits, Backs
<1> QED
  BY <1>2, <1>3, <1>4 DEF CreditOf

LEMMA CreditInit == Init => CreditInv
<1> SUFFICES ASSUME Init PROVE CreditInv
  OBVIOUS
<1>1. TypeOK
  BY InitType
<1>2. ASSUME NEW w \in Worker PROVE CreditOf(w)
  <2>1. ready = <<>> /\ toWorker[w] = <<>> /\ fromWorker[w] = <<>>
    BY DEF Init
  <2>2. Credits(w) = 0
    BY <2>1, CountEmpty DEF Credits
  <2> QED
    BY <2>1, <2>2 DEF Init, CreditOf
<1> QED
  BY <1>1, <1>2, CreditParts DEF Init

LEMMA BackCredit ==
    ASSUME CreditInv, TypeOK', HandleBack
    PROVE  \A v \in Worker : CreditOf(v)'
<1>0. TypeOK /\ (\A v \in Worker : CreditOf(v)) /\ known \subseteq Worker
  BY CreditParts DEF TypeOK
<1> USE DEF registry, queues, peers
<1>1. CASE NoBackMessage
  BY <1>0, <1>1 DEF NoBackMessage, CreditOf, Credits
<1>2. ASSUME NEW w \in Worker, HandleReady(w)
      PROVE  \A v \in Worker : CreditOf(v)'
  <2>1. /\ \A T : Count(fromWorker[w], T) =
                       Count(fromWorker'[w], T)
                           + IF Notice("READY") \in T THEN 1 ELSE 0
        /\ \A v \in Worker \ {w} : fromWorker'[v] = fromWorker[v]
        /\ UNCHANGED <<toWorker, link>>
    BY <1>0, <1>2, Messages, ReceiveCounts DEF HandleReady
  <2>2. /\ Count(fromWorker[w], Ready) = Count(fromWorker'[w], Ready) + 1
        /\ Count(fromWorker[w], Backs) = Count(fromWorker'[w], Backs) + 1
        /\ Count(fromWorker'[w], Ready) \in Nat
        /\ Count(fromWorker'[w], Backs) \in Nat
    BY <1>0, <2>1, NextCountsAreNat DEF Ready, Backs
  <2>3. w \notin known
    BY <1>0, <2>2 DEF CreditOf
  <2>4. known' = known \cup {w} /\ PushReady(w)
    BY <1>2, <2>3 DEF HandleReady
  <2>5. \A v : Count(ready', {v}) = Count(ready, {v}) + IF v = w THEN 1 ELSE 0
    BY <1>0, <2>4, PushCounts
  <2>6. ASSUME NEW v \in Worker \ {w} PROVE CreditOf(v)'
    <3>1. Count(ready', {v}) = Count(ready, {v}) + 0 /\ Count(ready, {v}) \in Nat
      BY <1>0, <2>5, CountsAreNat
    <3>2. /\ Count(ready', {v}) = Count(ready, {v})
          /\ Count(ready', {v}) <= Count(ready, {v})
      BY <3>1
    <3> QED
      BY <1>0, <2>1, <2>4, <3>2, CreditKept
  <2>7. CreditOf(w)'
    <3>1. /\ Count(ready, {w}) \in Nat /\ Count(toWorker[w], Orders) \in Nat
          /\ Count(ready', {w}) = Count(ready, {w}) + 1
      BY <1>0, <2>5, CountsAreNat
    <3>2. Credits(w)' = Credits(w) /\ Credits(w) >= 1 /\ Credits(w) \in Nat
      BY <2>1, <2>2, <3>1 DEF Credits, Backs
    <3>3. Credits(w) = 1 /\ link[w] # "new"
      BY <1>0, <3>2 DEF CreditOf
    <3>4. Count(fromWorker'[w], Backs) = 0
      BY <2>2, <3>1, <3>3 DEF Credits, Backs
    <3>5. Count(fromWorker'[w], Ready) <= Count(fromWorker'[w], Backs)
      <4>1. fromWorker'[w] \in Seq(FromWorkerMsg) /\ Ready \in SUBSET Backs
        BY Messages DEF TypeOK
      <4> QED
        BY <4>1, CountSubset
    <3>6. Count(fromWorker'[w], Ready) = 0
      BY <2>2, <3>4, <3>5
    <3> QED
      BY <1>0, <2>1, <3>2, <3>3, <3>6 DEF CreditOf
  <2> QED
    BY <2>6, <2>7
<1>3. ASSUME NEW w \in Worker, NEW k \in {"DEATH", "PONG"},
             Receive(w, Notice(k)), known' \subseteq known, UNCHANGED queues
      PROVE  \A v \in Worker : CreditOf(v)'
  <2>1. /\ \A T : Count(fromWorker[w], T) =
                       Count(fromWorker'[w], T)
                           + IF Notice(k) \in T THEN 1 ELSE 0
        /\ \A v \in Worker \ {w} : fromWorker'[v] = fromWorker[v]
        /\ UNCHANGED <<toWorker, link>>
    BY <1>0, <1>3, Messages, ReceiveCounts
  <2>2. ASSUME NEW T \in {Ready, Backs}
        PROVE  Count(fromWorker'[w], T) = Count(fromWorker[w], T)
    <3>1. Count(fromWorker[w], T) = Count(fromWorker'[w], T) + 0
      BY <2>1, Messages
    <3>2. Count(fromWorker'[w], T) \in Nat
      BY NextCountsAreNat
    <3> QED
      BY <3>1, <3>2
  <2>3. \A v \in Worker : /\ Count(fromWorker'[v], Ready) = Count(fromWorker[v], Ready)
                          /\ Count(fromWorker'[v], Backs) = Count(fromWorker[v], Backs)
    BY <2>1, <2>2
  <2>4. \A v \in Worker : Credits(v)' = Credits(v)
    BY <1>3, <2>1, <2>3 DEF Credits, Backs
  <2> QED
    BY <1>0, <1>3, <2>1, <2>3, <2>4 DEF CreditOf
<1>4. ASSUME NEW w \in Worker, HandleDeath(w)
      PROVE  \A v \in Worker : CreditOf(v)'
  BY <1>3, <1>4 DEF HandleDeath, Erase
<1>5. ASSUME NEW w \in Worker, HandlePong(w)
      PROVE  \A v \in Worker : CreditOf(v)'
  BY <1>3, <1>5 DEF HandlePong
<1>6. ASSUME NEW w \in Worker, NEW j \in Job, HandleReply(w, j)
      PROVE  \A v \in Worker : CreditOf(v)'
  <2>1. /\ \A T : Count(fromWorker[w], T) =
                       Count(fromWorker'[w], T)
                           + IF Reply(j) \in T THEN 1 ELSE 0
        /\ \A v \in Worker \ {w} : fromWorker'[v] = fromWorker[v]
        /\ UNCHANGED <<toWorker, link>>
    BY <1>0, <1>6, Messages, ReceiveCounts DEF HandleReply
  <2>2. /\ Count(fromWorker[w], Ready) = Count(fromWorker'[w], Ready) + 0
        /\ Count(fromWorker[w], Backs) = Count(fromWorker'[w], Backs) + 1
    BY <2>1, Messages
  <2>3. /\ Count(fromWorker'[w], Ready) \in Nat
        /\ Count(fromWorker'[w], Backs) \in Nat
        /\ \A v \in Worker : /\ Count(ready, {v}) \in Nat
                              /\ Count(toWorker[v], Orders) \in Nat
                              /\ Count(fromWorker[v], Backs) \in Nat
    BY <1>0, CountsAreNat, NextCountsAreNat
  <2>4. known' = known
    BY <1>6 DEF HandleReply
  <2>5. CASE w \in known
    <3>1. PushReady(w)
      BY <1>6, <2>5 DEF HandleReply
    <3>2. \A v : Count(ready', {v}) = Count(ready, {v}) + IF v = w THEN 1 ELSE 0
      BY <1>0, <3>1, PushCounts
    <3>3. ASSUME NEW v \in Worker \ {w} PROVE CreditOf(v)'
      <4>1. Count(ready', {v}) = Count(ready, {v}) + 0
        BY <3>2
      <4>2. /\ Count(ready', {v}) = Count(ready, {v})
            /\ Count(ready', {v}) <= Count(ready, {v})
        BY <2>3, <4>1
      <4> QED
        BY <1>0, <2>1, <2>4, <4>2, CreditKept
    <3>4. Count(ready', {w}) = Count(ready, {w}) + 1
      BY <3>2
    <3>5. Credits(w)' = Credits(w)
      BY <2>1, <2>2, <2>3, <3>4 DEF Credits, Backs
    <3>6. CreditOf(w)'
      BY <1>0, <2>1, <2>2, <2>3, <2>4, <3>5 DEF CreditOf
    <3> QED
      BY <3>3, <3>6
  <2>6. CASE w \notin known
    <3>1. ready' = ready
      BY <1>6, <2>6 DEF HandleReply
    <3>2. ASSUME NEW v \in Worker \ {w} PROVE CreditOf(v)'
      BY <1>0, <2>1, <2>4, <3>1 DEF CreditOf, Credits
    <3>3. /\ Credits(w) = Credits(w)' + 1
          /\ Credits(w)' \in Nat
      BY <2>1, <2>2, <2>3, <3>1 DEF Credits, Backs
    <3>4. CreditOf(w)'
      BY <1>0, <2>1, <2>4, <2>6, <3>3 DEF CreditOf
    <3> QED
      BY <3>2, <3>4
  <2> QED
    BY <2>5, <2>6
<1> QED
  BY <1>1, <1>2, <1>4, <1>5, <1>6 DEF HandleBack

LEMMA SentCredit ==
    ASSUME CreditInv, TypeOK', NEW j \in Job,
           UNCHANGED <<known, link, fromWorker>>,
           Dispatch(j) \/ Park(j)
    PROVE  \A v \in Worker : CreditOf(v)'
<1>0. TypeOK /\ (\A v \in Worker : CreditOf(v)) /\ known \subseteq Worker
  BY CreditParts DEF TypeOK
<1>1. CASE Park(j)
  <2>1. /\ \A v : Count(ready', {v}) <= Count(ready, {v})
        /\ \A v \in known : Count(ready', {v}) = Count(ready, {v})
        /\ toWorker' = toWorker
    BY <1>0, <1>1, ParkCounts
  <2> QED
    BY <1>0, <2>1, CreditKept
<1>2. CASE Dispatch(j)
  <2>1. PICK w \in known :
            /\ \A v : Count(ready', {v}) <= Count(ready, {v})
            /\ \A v \in known \ {w} : Count(ready', {v}) = Count(ready, {v})
            /\ Count(ready', {w}) = Count(ready, {w}) - 1
            /\ toWorker'[w] = Send(w, Order(j))
            /\ \A v \in Worker \ {w} : toWorker'[v] = toWorker[v]
    BY <1>0, <1>2, DispatchCounts
  <2>2. ASSUME NEW v \in Worker \ {w} PROVE CreditOf(v)'
    BY <1>0, <2>1, <2>2, CreditKept
  <2>3. /\ Count(ready, {w}) \in Nat /\ Count(toWorker[w], Orders) \in Nat
        /\ Count(fromWorker[w], Backs) \in Nat /\ Count(ready', {w}) \in Nat
    BY <1>0, CountsAreNat, NextCountsAreNat
  <2>4. CASE link[w] = "up"
    <3>1. Count(toWorker'[w], Orders) = Count(toWorker[w], Orders) + 1
      BY <1>0, <2>1, <2>4, Messages, SendCounts
    <3>2. Credits(w)' = Credits(w)
      BY <2>1, <2>3, <3>1 DEF Credits, Backs
    <3> QED
      BY <1>0, <2>1, <2>2, <2>4, <3>2 DEF CreditOf
  <2>5. CASE link[w] # "up"
    <3>1. toWorker'[w] = toWorker[w]
      BY <1>0, <2>1, <2>5, Messages, SendCounts
    <3>2. Credits(w) = Credits(w)' + 1 /\ Credits(w) \in Nat /\ Credits(w)' \in Nat
      BY <2>1, <2>3, <3>1 DEF Credits, Backs
    <3>3. CreditOf(w)'
      BY <1>0, <2>1, <2>5, <3>1, <3>2 DEF CreditOf
    <3> QED
      BY <2>2, <3>3
  <2> QED
    BY <2>4, <2>5
<1> QED
  BY <1>1, <1>2

LEMMA FrontCredit ==
    ASSUME CreditInv, TypeOK', HandleFront
    PROVE  \A v \in Worker : CreditOf(v)'
<1> USE DEF registry, queues, peers
<1>1. CASE SkipFront
  BY <1>1, CreditParts DEF SkipFront, CreditOf, Credits
<1>2. CASE SendAccidental
  <2>1. accidentalMessage \in Job
    BY <1>2, CreditParts DEF TypeOK, SendAccidental
  <2> QED
    BY <1>2, <2>1, SentCredit DEF SendAccidental
<1>3. ASSUME NEW j \in Job, SendReceived(j) PROVE \A v \in Worker : CreditOf(v)'
  BY <1>3, SentCredit DEF SendReceived
<1> QED
  BY <1>1, <1>2, <1>3 DEF HandleFront, SendSide, SendNormal

LEMMA EndCredit ==
    ASSUME CreditInv, TypeOK', Poll \/ Tick \/ Continue \/ Stop
    PROVE  \A v \in Worker : CreditOf(v)'
<1>0. TypeOK /\ (\A v \in Worker : CreditOf(v)) /\ known \subseteq Worker
  BY CreditParts DEF TypeOK
<1> USE DEF registry, queues, peers
<1>1. CASE Poll \/ Continue
  BY <1>0, <1>1 DEF Poll, Continue, CreditOf, Credits
<1>2. CASE Tick
  <2> TAKE v \in Worker
  <2>1. /\ known' \subseteq known /\ ready' = ready /\ link' = link
        /\ fromWorker' = fromWorker
        /\ toWorker'[v] = Send(v, Ping) \/ toWorker'[v] = toWorker[v]
    BY <1>2 DEF Tick, Beat
  <2>2. Count(Send(v, Ping), Orders) = Count(toWorker[v], Orders)
    <3>1. CASE link[v] = "up"
      <4>1. Count(Send(v, Ping), Orders) = Count(toWorker[v], Orders) + 0
        BY <1>0, <3>1, Messages, SendCounts
      <4>2. Count(toWorker[v], Orders) \in Nat
        BY <1>0, CountsAreNat
      <4> QED
        BY <4>1, <4>2
    <3>2. CASE link[v] # "up"
      BY <1>0, <3>2, Messages, SendCounts
    <3> QED
      BY <3>1, <3>2
  <2>3. link[v] # "up" => Send(v, Ping) = toWorker[v]
    BY <1>0, Messages, SendCounts
  <2>4. Count(ready', {v}) <= Count(ready, {v})
    <3>1. Count(ready, {v}) \in Nat
      BY <1>0, CountsAreNat
    <3> QED
      BY <2>1, <3>1
  <2> QED
    BY <1>0, <2>1, <2>2, <2>3, <2>4, CreditKept
<1>3. CASE Stop
  <2> TAKE v \in Worker
  <2>1. /\ known' = {} /\ ready' = <<>> /\ link' = link /\ toWorker' = toWorker
        /\ fromWorker'[v] = <<>>
    BY <1>3 DEF Stop, Erase
  <2>2. /\ Count(ready, {v}) \in Nat /\ Count(toWorker[v], Orders) \in Nat
        /\ Count(fromWorker[v], Backs) \in Nat
    BY <1>0, CountsAreNat
  <2>3. Count(ready', {v}) = 0 /\ Count(fromWorker'[v], Backs) = 0
    BY <2>1, CountEmpty
  <2>4. Credits(v)' <= Credits(v) /\ Credits(v) \in Nat /\ Credits(v)' \in Nat
    BY <2>1, <2>2, <2>3 DEF Credits, Backs
  <2> QED
    BY <1>0, <2>1, <2>4 DEF CreditOf
<1> QED
  BY <1>1, <1>2, <1>3

\* What worker w gains or loses while the dispatcher stays as it is.
LEMMA TurnCredit ==
    ASSUME TypeOK, TypeOK', \A v \in Worker : CreditOf(v), NEW w \in Worker,
           NEW status, NEW to, NEW from, WorkerTurn(w, status, to, from)
    PROVE  /\ link'[w] = status /\ toWorker'[w] = to /\ fromWorker'[w] = from
           /\ UNCHANGED <<known, ready, pc>>
           /\ \A v \in Worker \ {w} : CreditOf(v)'
<1> USE DEF registry, queues
<1>1. /\ link'[w] = status /\ toWorker'[w] = to /\ fromWorker'[w] = from
      /\ UNCHANGED <<known, ready, pc>>
      /\ \A v \in Worker \ {w} : /\ link'[v] = link[v]
                                 /\ toWorker'[v] = toWorker[v]
                                 /\ fromWorker'[v] = fromWorker[v]
  BY DEF WorkerTurn, TypeOK
<1>2. \A v \in Worker \ {w} : CreditOf(v)'
  BY <1>1 DEF CreditOf, Credits
<1> QED
  BY <1>1, <1>2

LEMMA WorkerCounts ==
    ASSUME TypeOK, NEW w \in Worker, CreditOf(w)
    PROVE  /\ Count(ready, {w}) \in Nat /\ Count(toWorker[w], Orders) \in Nat
           /\ Count(fromWorker[w], Backs) \in Nat
           /\ Count(fromWorker[w], Ready) \in Nat
           /\ toWorker[w] \in Seq(ToWorkerMsg)
           /\ fromWorker[w] \in Seq(FromWorkerMsg)
           /\ Credits(w) \in Nat /\ Credits(w) <= 1
<1>1. /\ Count(ready, {w}) \in Nat /\ Count(toWorker[w], Orders) \in Nat
      /\ Count(fromWorker[w], Backs) \in Nat
      /\ Count(fromWorker[w], Ready) \in Nat
  BY CountsAreNat
<1>2. toWorker[w] \in Seq(ToWorkerMsg) /\ fromWorker[w] \in Seq(FromWorkerMsg)
  BY DEF TypeOK
<1>3. Credits(w) \in Nat /\ Credits(w) <= 1
  BY <1>1 DEF Credits, Backs, CreditOf
<1> QED
  BY <1>1, <1>2, <1>3

LEMMA EnvironmentCredit ==
    ASSUME CreditInv, TypeOK', Environment
    PROVE  \A v \in Worker : CreditOf(v)'
<1>0. /\ TypeOK /\ (\A v \in Worker : CreditOf(v))
      /\ pc = "done" => known = {}
  BY CreditParts
<1> USE DEF registry, queues, peers
<1>1. CASE RequestShutdown \/ \E r \in Request : Submit(r)
  BY <1>0, <1>1 DEF RequestShutdown, Submit, CreditOf, Credits
<1>2. ASSUME NEW w \in Worker, Join(w) PROVE \A v \in Worker : CreditOf(v)'
  <2>0. /\ Count(ready, {w}) \in Nat /\ Count(toWorker[w], Orders) \in Nat
        /\ Count(fromWorker[w], Backs) \in Nat
        /\ Count(fromWorker[w], Ready) \in Nat
        /\ toWorker[w] \in Seq(ToWorkerMsg)
        /\ fromWorker[w] \in Seq(FromWorkerMsg)
        /\ Credits(w) \in Nat /\ Credits(w) <= 1 /\ CreditOf(w)
    BY <1>0, WorkerCounts
  <2>1. /\ link'[w] = "up" /\ toWorker'[w] = <<>>
        /\ fromWorker'[w] = Append(fromWorker[w], Notice("READY"))
        /\ UNCHANGED <<known, ready>>
        /\ \A v \in Worker \ {w} : CreditOf(v)'
    BY <1>0, <1>2, TurnCredit DEF Join
  <2>2. w \notin known /\ Credits(w) = 0
    BY <1>0, <2>0, <1>2 DEF CreditOf, Join
  <2>3. \A T : Count(Append(fromWorker[w], Notice("READY")), T) =
                   Count(fromWorker[w], T) + IF Notice("READY") \in T THEN 1 ELSE 0
    BY <1>0, <2>0, Messages, CountAppend
  <2>4. Count(fromWorker'[w], Backs) = Count(fromWorker[w], Backs) + 1
    BY <2>1, <2>3 DEF Backs
  <2>5. Count(toWorker'[w], Orders) = 0
    BY <2>1, CountEmpty
  <2>6. Credits(w)' = 1
    BY <1>0, <2>0, <2>1, <2>2, <2>4, <2>5, SMTT(20) DEF Credits, Backs
  <2>7. CreditOf(w)'
    BY <2>1, <2>2, <2>6 DEF CreditOf
  <2> QED
    BY <2>1, <2>7
<1>3. ASSUME NEW w \in Worker, Answer(w) PROVE \A v \in Worker : CreditOf(v)'
  <2>0. /\ Count(ready, {w}) \in Nat /\ Count(toWorker[w], Orders) \in Nat
        /\ Count(fromWorker[w], Backs) \in Nat
        /\ Count(fromWorker[w], Ready) \in Nat
        /\ toWorker[w] \in Seq(ToWorkerMsg)
        /\ fromWorker[w] \in Seq(FromWorkerMsg)
        /\ Credits(w) \in Nat /\ Credits(w) <= 1 /\ CreditOf(w)
    BY <1>0, WorkerCounts
  <2> DEFINE m == Head(toWorker[w])
  <2>1. /\ link'[w] = "up" /\ toWorker'[w] = Tail(toWorker[w])
        /\ fromWorker'[w] = Deliver(w, AnswerTo(m))
        /\ UNCHANGED <<known, ready>>
        /\ \A v \in Worker \ {w} : CreditOf(v)'
    BY <1>0, <1>3, TurnCredit DEF Answer
  <2>2. link[w] = "up" /\ toWorker[w] # <<>> /\ m \in ToWorkerMsg
    BY <1>0, <2>0, <1>3 DEF Answer
  <2>3. Count(toWorker[w], Orders) =
            Count(Tail(toWorker[w]), Orders) + IF m \in Orders THEN 1 ELSE 0
    BY <1>0, <2>0, <2>2, CountTail
  <2>4. AnswerTo(m) \in FromWorkerMsg /\ AnswerTo(m) \notin Ready
            /\ (AnswerTo(m) \in Backs <=> m \in Orders)
    <3>1. CASE m = Ping
      BY <3>1, Messages
    <3>2. CASE m \in Orders
      BY <3>2, Messages DEF Orders
    <3> QED
      BY <2>2, <3>1, <3>2, Messages
  <2>5. ASSUME pc # "done" PROVE CreditOf(w)'
    <3>1. fromWorker'[w] = Append(fromWorker[w], AnswerTo(m))
      BY <2>1, <2>5 DEF Deliver
    <3>2. \A T : Count(Append(fromWorker[w], AnswerTo(m)), T) =
                     Count(fromWorker[w], T) + IF AnswerTo(m) \in T THEN 1 ELSE 0
      BY <1>0, <2>0, <2>4, CountAppend
    <3>3. Count(fromWorker'[w], Ready) = Count(fromWorker[w], Ready) + 0
      BY <2>4, <3>1, <3>2
    <3>4. Count(fromWorker'[w], Backs) =
              Count(fromWorker[w], Backs) + IF m \in Orders THEN 1 ELSE 0
      BY <2>4, <3>1, <3>2
    <3>5. Count(toWorker'[w], Orders) \in Nat
      BY NextCountsAreNat
    <3>6. Credits(w)' = Credits(w)
      <4>1. CASE m \in Orders
        BY <1>0, <2>0, <2>1, <2>3, <3>4, <3>5, <4>1 DEF Credits, Backs
      <4>2. CASE m \notin Orders
        BY <1>0, <2>0, <2>1, <2>3, <3>4, <3>5, <4>2 DEF Credits, Backs
      <4> QED
        BY <4>1, <4>2
    <3>7. CreditOf(w)
      BY <1>0, <2>0
    <3> QED
      BY <1>0, <2>0, <2>1, <2>2, <3>3, <3>6, <3>7 DEF CreditOf
  <2>6. ASSUME pc = "done" PROVE CreditOf(w)'
    <3>1. fromWorker'[w] = fromWorker[w] /\ known' = {}
      BY <1>0, <2>0, <2>1, <2>6 DEF Deliver
    <3>2. Count(toWorker'[w], Orders) \in Nat
      BY NextCountsAreNat
    <3>3. Count(toWorker'[w], Orders) <= Count(toWorker[w], Orders)
      <4>1. CASE m \in Orders
        BY <1>0, <2>0, <2>1, <2>3, <3>2, <4>1
      <4>2. CASE m \notin Orders
        BY <1>0, <2>0, <2>1, <2>3, <3>2, <4>2
      <4> QED
        BY <4>1, <4>2
    <3>4. /\ Credits(w)' <= Credits(w) /\ Credits(w)' \in Nat
          /\ Credits(w) \in Nat /\ Credits(w) <= 1
      BY <1>0, <2>0, <2>1, <3>1, <3>2, <3>3 DEF Credits, Backs, CreditOf
    <3> QED
      BY <2>1, <3>1, <3>4 DEF CreditOf
  <2> QED
    BY <2>1, <2>5, <2>6
<1>4. ASSUME NEW w \in Worker, link[w] = "up",
             NEW from \in Seq(FromWorkerMsg),
             WorkerTurn(w, "gone", <<>>, from),
             Count(from, Backs) <= Count(fromWorker[w], Backs),
             w \in known => Count(from, Ready) = 0
      PROVE  \A v \in Worker : CreditOf(v)'
  <2>0. /\ Count(ready, {w}) \in Nat /\ Count(toWorker[w], Orders) \in Nat
        /\ Count(fromWorker[w], Backs) \in Nat
        /\ Count(fromWorker[w], Ready) \in Nat
        /\ toWorker[w] \in Seq(ToWorkerMsg)
        /\ fromWorker[w] \in Seq(FromWorkerMsg)
        /\ Credits(w) \in Nat /\ Credits(w) <= 1 /\ CreditOf(w)
    BY <1>0, WorkerCounts
  <2>1. /\ link'[w] = "gone" /\ toWorker'[w] = <<>> /\ fromWorker'[w] = from
        /\ UNCHANGED <<known, ready>>
        /\ \A v \in Worker \ {w} : CreditOf(v)'
    BY <1>0, <1>4, TurnCredit
  <2>2. Count(toWorker'[w], Orders) = 0 /\ Count(from, Backs) \in Nat
    BY <2>1, <1>4, CountEmpty, CountType
  <2>3. /\ Credits(w)' <= Credits(w) /\ Credits(w)' \in Nat
        /\ Credits(w) \in Nat /\ Credits(w) <= 1
    BY <1>0, <2>0, <1>4, <2>1, <2>2 DEF Credits, Backs, CreditOf
  <2>4. CreditOf(w)'
    BY <1>4, <2>1, <2>3 DEF CreditOf
  <2> QED
    BY <2>1, <2>4
<1>5. ASSUME NEW w \in Worker, Leave(w) PROVE \A v \in Worker : CreditOf(v)'
  <2>0. /\ Count(ready, {w}) \in Nat /\ Count(toWorker[w], Orders) \in Nat
        /\ Count(fromWorker[w], Backs) \in Nat
        /\ Count(fromWorker[w], Ready) \in Nat
        /\ toWorker[w] \in Seq(ToWorkerMsg)
        /\ fromWorker[w] \in Seq(FromWorkerMsg)
        /\ Credits(w) \in Nat /\ Credits(w) <= 1 /\ CreditOf(w)
    BY <1>0, WorkerCounts
  <2>1. PICK n \in 0 .. Len(fromWorker[w]) :
            WorkerTurn(w, "gone", <<>>, SubSeq(fromWorker[w], 1, n))
    BY <1>5 DEF Leave
  <2>2. SubSeq(fromWorker[w], 1, n) \in Seq(FromWorkerMsg)
    BY <1>0, <2>0
  <2>3. \A T : Count(SubSeq(fromWorker[w], 1, n), T) <= Count(fromWorker[w], T)
    BY <1>0, <2>0, CountPrefix
  <2>4. w \in known => Count(SubSeq(fromWorker[w], 1, n), Ready) = 0
    <3>1. Count(SubSeq(fromWorker[w], 1, n), Ready) \in Nat
      BY <2>2, CountType
    <3>2. Count(SubSeq(fromWorker[w], 1, n), Ready) <= Count(fromWorker[w], Ready)
      BY <2>3
    <3> QED
      BY <1>0, <2>0, <3>1, <3>2 DEF CreditOf
  <2>5. link[w] = "up"
    BY <1>5 DEF Leave
  <2> QED
    BY <1>4, <2>1, <2>2, <2>3, <2>4, <2>5
<1>6. ASSUME NEW w \in Worker, Resign(w) PROVE \A v \in Worker : CreditOf(v)'
  <2>0. /\ Count(ready, {w}) \in Nat /\ Count(toWorker[w], Orders) \in Nat
        /\ Count(fromWorker[w], Backs) \in Nat
        /\ Count(fromWorker[w], Ready) \in Nat
        /\ toWorker[w] \in Seq(ToWorkerMsg)
        /\ fromWorker[w] \in Seq(FromWorkerMsg)
        /\ Credits(w) \in Nat /\ Credits(w) <= 1 /\ CreditOf(w)
    BY <1>0, WorkerCounts
  <2>1. \A T : Count(Append(fromWorker[w], Notice("DEATH")), T) =
                   Count(fromWorker[w], T) + IF Notice("DEATH") \in T THEN 1 ELSE 0
    BY <1>0, <2>0, Messages, CountAppend
  <2>2. /\ Count(Append(fromWorker[w], Notice("DEATH")), Backs) = Count(fromWorker[w], Backs) + 0
        /\ Count(Append(fromWorker[w], Notice("DEATH")), Ready) = Count(fromWorker[w], Ready) + 0
    BY <2>1, Messages
  <2>3. /\ Count(Deliver(w, Notice("DEATH")), Backs) = Count(fromWorker[w], Backs)
        /\ Count(Deliver(w, Notice("DEATH")), Ready) = Count(fromWorker[w], Ready)
        /\ Deliver(w, Notice("DEATH")) \in Seq(FromWorkerMsg)
    BY <1>0, <2>0, <2>2, Messages, DeliverType DEF Deliver
  <2>4. link[w] = "up" /\ WorkerTurn(w, "gone", <<>>, Deliver(w, Notice("DEATH")))
    BY <1>6 DEF Resign
  <2>5. Count(Deliver(w, Notice("DEATH")), Backs) <= Count(fromWorker[w], Backs)
    BY <1>0, <2>0, <2>3
  <2>6. w \in known => Count(Deliver(w, Notice("DEATH")), Ready) = 0
    BY <1>0, <2>0, <2>3 DEF CreditOf
  <2> QED
    BY <1>4, <2>3, <2>4, <2>5, <2>6
<1> QED
  BY <1>1, <1>2, <1>3, <1>5, <1>6 DEF Environment

LEMMA DoneIsDone ==
    ASSUME CreditInv, [Next]_vars
    PROVE  pc' = "done" => known' = {}
<1>0. pc = "done" => known = {}
  BY CreditParts
<1>1. CASE Stop
  BY <1>1 DEF Stop, Erase
<1>2. CASE UNCHANGED vars \/ Environment
  BY <1>0, <1>2 DEF vars, registry, queues, peers, Environment, Submit, Join,
                    Answer, Leave, Resign, WorkerTurn, RequestShutdown
<1>3. CASE Poll \/ HandleBack \/ HandleFront \/ Tick \/ Continue
  <2>1. pc' # "done"
    BY <1>3 DEF Poll, HandleBack, NoBackMessage, HandleReady, HandleDeath,
                HandlePong, HandleReply, Receive, HandleFront, SkipFront,
                SendAccidental, SendSide, SendNormal, SendReceived, Tick,
                Continue
  <2> QED
    BY <2>1
<1> QED
  BY <1>1, <1>2, <1>3 DEF Next, DispatcherStep

LEMMA CreditStep == CreditInv /\ [Next]_vars => CreditInv'
<1> SUFFICES ASSUME CreditInv, [Next]_vars PROVE CreditInv'
  OBVIOUS
<1>1. TypeOK'
  BY TypeStep, CreditParts
<1>2. pc' = "done" => known' = {}
  BY DoneIsDone
<1>3. \A v \in Worker : CreditOf(v)'
  <2>1. CASE UNCHANGED vars
    BY <2>1, CreditParts DEF vars, registry, queues, peers, CreditOf, Credits
  <2> QED
    BY <1>1, <2>1, BackCredit, FrontCredit, EndCredit, EnvironmentCredit
       DEF Next, DispatcherStep
<1>4. TypeOK' /\ (\A v \in Worker : CreditOf(v)') /\ (pc' = "done" => known' = {})
          => CreditInv'
  <2>1. TypeOK' => \A w \in known' : w \in Worker
    BY DEF TypeOK
  <2> QED
    BY <2>1 DEF CreditInv, WorkersBegin, OneCreditPerWorker, CreditOf, Ready
<1> QED
  BY <1>1, <1>2, <1>3, <1>4

\* At any time a worker has at most one request or one right to a request,
\* and a worker of the map that is up has exactly one: none is given two
\* requests and none is forgotten, for every number of workers and requests.
THEOREM CreditCorrect == Spec => []OneCreditPerWorker
<1>1. CreditInv => OneCreditPerWorker
  BY DEF CreditInv
<1> QED
  BY <1>1, CreditInit, CreditStep, PTL DEF Spec

-----------------------------------------------------------------------------
(* A pending heartbeat is one PING or PONG on its way.                     *)

Debt(w) == IF pendingHeartbeat[w] THEN 1 ELSE 0

\* NoHeartbeatYet and the second half of HeartbeatDebt, one worker at a time.
HeartOf(w) ==
    /\ link[w] = "new" \/ Count(fromWorker[w], Ready) > 0 => Heartbeats(w) = 0
    /\ w \in known /\ link[w] = "up" => Heartbeats(w) = Debt(w)

HeartInv ==
    /\ CreditInv
    /\ LifeLostIffPending
    /\ \A w \in Worker : HeartOf(w)

LEMMA HeartCounts ==
    ASSUME TypeOK, NEW w \in Worker
    PROVE  /\ Count(toWorker[w], {Ping}) \in Nat
           /\ Count(fromWorker[w], {Notice("PONG")}) \in Nat
           /\ Count(fromWorker[w], Ready) \in Nat
           /\ Heartbeats(w) \in Nat
<1>1. /\ Count(toWorker[w], {Ping}) \in Nat
      /\ Count(fromWorker[w], {Notice("PONG")}) \in Nat
      /\ Count(fromWorker[w], Ready) \in Nat
  BY CountsAreNat
<1>2. Heartbeats(w) \in Nat
  BY <1>1 DEF Heartbeats
<1> QED
  BY <1>1, <1>2

LEMMA NextHeartCounts ==
    ASSUME TypeOK', NEW w \in Worker
    PROVE  /\ Count(toWorker'[w], {Ping}) \in Nat
           /\ Count(fromWorker'[w], {Notice("PONG")}) \in Nat
           /\ Count(fromWorker'[w], Ready) \in Nat
           /\ Heartbeats(w)' \in Nat
<1>1. /\ Count(toWorker'[w], {Ping}) \in Nat
      /\ Count(fromWorker'[w], {Notice("PONG")}) \in Nat
      /\ Count(fromWorker'[w], Ready) \in Nat
  BY NextCountsAreNat
<1>2. Heartbeats(w)' \in Nat
  BY <1>1 DEF Heartbeats
<1> QED
  BY <1>1, <1>2

\* The heartbeat of a worker that an action is not about.
LEMMA HeartKept ==
    ASSUME TypeOK, TypeOK', NEW w \in Worker, HeartOf(w),
           link'[w] = link[w],
           Count(fromWorker'[w], Ready) <= Count(fromWorker[w], Ready),
           Heartbeats(w)' = Heartbeats(w),
           w \in known' => w \in known /\ pendingHeartbeat'[w] = pendingHeartbeat[w]
    PROVE  HeartOf(w)'
<1>1. /\ Count(fromWorker[w], Ready) \in Nat /\ Count(fromWorker'[w], Ready) \in Nat
      /\ Heartbeats(w) \in Nat
  BY HeartCounts, NextHeartCounts
<1>2. w \in known' => w \in known /\ Debt(w)' = Debt(w)
  BY DEF Debt
<1> QED
  BY <1>1, <1>2 DEF HeartOf

LEMMA HeartInit == Init => HeartInv
<1> SUFFICES ASSUME Init PROVE HeartInv
  OBVIOUS
<1>1. ASSUME NEW w \in Worker PROVE HeartOf(w)
  <2>1. toWorker[w] = <<>> /\ fromWorker[w] = <<>> /\ known = {}
    BY DEF Init
  <2>2. Heartbeats(w) = 0
    BY <2>1, CountEmpty DEF Heartbeats
  <2> QED
    BY <2>1, <2>2 DEF HeartOf
<1> QED
  BY <1>1, CreditInit, LifeInit DEF HeartInv

LEMMA BackHeart ==
    ASSUME HeartInv, TypeOK', HandleBack
    PROVE  \A v \in Worker : HeartOf(v)'
<1>0. /\ TypeOK /\ (\A v \in Worker : HeartOf(v)) /\ known \subseteq Worker
      /\ \A v \in Worker : CreditOf(v)
  BY CreditParts DEF HeartInv, TypeOK
<1> USE DEF registry, queues, peers
<1>1. CASE NoBackMessage
  BY <1>0, <1>1 DEF NoBackMessage, HeartOf, Heartbeats, Debt
\* What reading m from worker w does to it and to the others.
<1>2. ASSUME NEW w \in Worker, NEW m \in FromWorkerMsg, Receive(w, m)
      PROVE  /\ UNCHANGED link
             /\ \A v \in Worker \ {w} :
                    /\ fromWorker'[v] = fromWorker[v]
                    /\ Heartbeats(v)' = Heartbeats(v)
             /\ Count(fromWorker'[w], Ready) =
                    Count(fromWorker[w], Ready) - IF m \in Ready THEN 1 ELSE 0
             /\ Heartbeats(w)' =
                    Heartbeats(w) - IF m = Notice("PONG") THEN 1 ELSE 0
  <2>1. /\ \A T : Count(fromWorker[w], T) =
                       Count(fromWorker'[w], T) + IF m \in T THEN 1 ELSE 0
        /\ \A v \in Worker \ {w} : fromWorker'[v] = fromWorker[v]
        /\ UNCHANGED <<toWorker, link>>
    BY <1>0, <1>2, ReceiveCounts
  <2>2. /\ Count(fromWorker'[w], Ready) \in Nat
        /\ Count(fromWorker'[w], {Notice("PONG")}) \in Nat
        /\ Count(toWorker[w], {Ping}) \in Nat
    BY <1>0, HeartCounts, NextHeartCounts
  <2>3. Count(fromWorker[w], Ready) =
            Count(fromWorker'[w], Ready) + IF m \in Ready THEN 1 ELSE 0
    BY <2>1
  <2>4. Count(fromWorker[w], {Notice("PONG")}) =
            Count(fromWorker'[w], {Notice("PONG")})
                + IF m = Notice("PONG") THEN 1 ELSE 0
    <3>1. m \in {Notice("PONG")} <=> m = Notice("PONG")
      OBVIOUS
    <3> QED
      BY <2>1, <3>1
  <2>5. \A v \in Worker \ {w} : Heartbeats(v)' = Heartbeats(v)
    BY <2>1 DEF Heartbeats
  <2>6. Heartbeats(w)' = Heartbeats(w) - IF m = Notice("PONG") THEN 1 ELSE 0
    <3>1. CASE m = Notice("PONG")
      BY <2>1, <2>2, <2>4, <3>1 DEF Heartbeats
    <3>2. CASE m # Notice("PONG")
      BY <2>1, <2>2, <2>4, <3>2 DEF Heartbeats
    <3> QED
      BY <3>1, <3>2
  <2>7. Count(fromWorker'[w], Ready) =
            Count(fromWorker[w], Ready) - IF m \in Ready THEN 1 ELSE 0
    <3>1. CASE m \in Ready
      BY <2>2, <2>3, <3>1
    <3>2. CASE m \notin Ready
      BY <2>2, <2>3, <3>2
    <3> QED
      BY <3>1, <3>2
  <2> QED
    BY <2>1, <2>5, <2>6, <2>7
\* The workers that sent nothing.
<1>3. ASSUME NEW w \in Worker, NEW m \in FromWorkerMsg, Receive(w, m),
             \A v \in Worker \ {w} :
                 v \in known' => v \in known /\ pendingHeartbeat'[v] = pendingHeartbeat[v]
      PROVE  \A v \in Worker \ {w} : HeartOf(v)'
  <2> TAKE v \in Worker \ {w}
  <2>1. /\ link'[v] = link[v] /\ fromWorker'[v] = fromWorker[v]
        /\ Heartbeats(v)' = Heartbeats(v)
    BY <1>2, <1>3
  <2>2. Count(fromWorker'[v], Ready) <= Count(fromWorker[v], Ready)
    BY <1>0, <2>1, HeartCounts
  <2> QED
    BY <1>0, <1>3, <2>1, <2>2, HeartKept
<1>4. ASSUME NEW w \in Worker, HandleReady(w) PROVE \A v \in Worker : HeartOf(v)'
  <2>1. Receive(w, Notice("READY")) /\ Notice("READY") \in FromWorkerMsg
    BY <1>4, Messages DEF HandleReady
  <2>2. /\ UNCHANGED link
        /\ Count(fromWorker'[w], Ready) = Count(fromWorker[w], Ready) - 1
        /\ Heartbeats(w)' = Heartbeats(w) - 0
    BY <1>2, <2>1, Messages DEF Ready
  <2>3. /\ Count(fromWorker[w], Ready) \in Nat /\ Heartbeats(w) \in Nat
        /\ Count(fromWorker'[w], Ready) \in Nat
    BY <1>0, HeartCounts, NextHeartCounts
  <2>4. Count(fromWorker[w], Ready) > 0
    BY <2>2, <2>3
  <2>5. Heartbeats(w)' = 0 /\ w \notin known
    BY <1>0, <2>2, <2>3, <2>4 DEF HeartOf, CreditOf
  <2>6. /\ known' = known \cup {w}
        /\ pendingHeartbeat' = [pendingHeartbeat EXCEPT ![w] = FALSE]
    BY <1>4, <2>5 DEF HandleReady
  <2>7. ~pendingHeartbeat'[w]
        /\ \A v \in Worker \ {w} : pendingHeartbeat'[v] = pendingHeartbeat[v]
    BY <1>0, <2>6 DEF TypeOK
  <2>8. \A v \in Worker \ {w} : HeartOf(v)'
    BY <1>3, <2>1, <2>6, <2>7
  <2>9. HeartOf(w)'
    BY <2>5, <2>7 DEF HeartOf, Debt
  <2> QED
    BY <2>8, <2>9
<1>5. ASSUME NEW w \in Worker, HandleDeath(w) PROVE \A v \in Worker : HeartOf(v)'
  <2>1. Receive(w, Notice("DEATH")) /\ Notice("DEATH") \in FromWorkerMsg
    BY <1>5, Messages DEF HandleDeath
  <2>2. /\ UNCHANGED link
        /\ Count(fromWorker'[w], Ready) = Count(fromWorker[w], Ready) - 0
        /\ Heartbeats(w)' = Heartbeats(w) - 0
    BY <1>2, <2>1, Messages
  <2>3. Count(fromWorker[w], Ready) \in Nat /\ Heartbeats(w) \in Nat
    BY <1>0, HeartCounts
  <2>4. /\ known' = known \ {w}
        /\ pendingHeartbeat' = [v \in Worker |-> v \notin {w} /\ pendingHeartbeat[v]]
    BY <1>5 DEF HandleDeath, Erase
  <2>5. \A v \in Worker \ {w} : pendingHeartbeat'[v] = pendingHeartbeat[v]
    BY <1>0, <2>4, Zenon DEF TypeOK
  <2>6. \A v \in Worker \ {w} : HeartOf(v)'
    BY <1>3, <2>1, <2>4, <2>5
  <2>7. Count(fromWorker'[w], Ready) <= Count(fromWorker[w], Ready)
            /\ Heartbeats(w)' = Heartbeats(w)
    BY <2>2, <2>3
  <2>8. HeartOf(w)'
    BY <1>0, <2>2, <2>4, <2>7, HeartKept
  <2> QED
    BY <2>6, <2>8
<1>6. ASSUME NEW w \in Worker, HandlePong(w) PROVE \A v \in Worker : HeartOf(v)'
  <2>1. Receive(w, Notice("PONG")) /\ Notice("PONG") \in FromWorkerMsg
    BY <1>6, Messages DEF HandlePong
  <2>2. /\ UNCHANGED link
        /\ Count(fromWorker'[w], Ready) = Count(fromWorker[w], Ready) - 0
        /\ Heartbeats(w)' = Heartbeats(w) - 1
    BY <1>2, <2>1, Messages
  <2>3. /\ Count(fromWorker[w], Ready) \in Nat /\ Heartbeats(w) \in Nat
        /\ Heartbeats(w)' \in Nat
    BY <1>0, HeartCounts, NextHeartCounts
  <2>4. /\ known' = known
        /\ w \in known => PongReceived(w)
        /\ w \notin known => pendingHeartbeat' = pendingHeartbeat
    BY <1>6 DEF HandlePong
  <2>5. /\ \A v \in Worker \ {w} : pendingHeartbeat'[v] = pendingHeartbeat[v]
        /\ w \in known => ~pendingHeartbeat'[w]
    BY <1>0, <2>4 DEF TypeOK, PongReceived
  <2>6. \A v \in Worker \ {w} : HeartOf(v)'
    BY <1>3, <2>1, <2>4, <2>5
  <2>7. ~(link[w] = "new" \/ Count(fromWorker[w], Ready) > 0)
    BY <1>0, <2>2, <2>3 DEF HeartOf
  <2>8. Count(fromWorker'[w], Ready) = Count(fromWorker[w], Ready)
    BY <2>2, <2>3
  <2>9. w \in known /\ link[w] = "up" => Heartbeats(w)' = 0
    <3>1. w \in known /\ link[w] = "up" => Heartbeats(w) = 0 \/ Heartbeats(w) = 1
      BY <1>0 DEF HeartOf, Debt
    <3> QED
      BY <2>2, <2>3, <3>1
  <2>10. HeartOf(w)'
    BY <2>2, <2>4, <2>5, <2>7, <2>8, <2>9 DEF HeartOf, Debt
  <2> QED
    BY <2>6, <2>10
<1>7. ASSUME NEW w \in Worker, NEW j \in Job, HandleReply(w, j)
      PROVE  \A v \in Worker : HeartOf(v)'
  <2>1. Receive(w, Reply(j)) /\ Reply(j) \in FromWorkerMsg
    BY <1>7, Messages DEF HandleReply
  <2>2. /\ UNCHANGED link
        /\ Count(fromWorker'[w], Ready) = Count(fromWorker[w], Ready) - 0
        /\ Heartbeats(w)' = Heartbeats(w) - 0
    BY <1>2, <2>1, Messages
  <2>3. Count(fromWorker[w], Ready) \in Nat /\ Heartbeats(w) \in Nat
    BY <1>0, HeartCounts
  <2>4. known' = known /\ pendingHeartbeat' = pendingHeartbeat
    BY <1>7 DEF HandleReply
  <2>5. \A v \in Worker \ {w} : HeartOf(v)'
    BY <1>3, <2>1, <2>4
  <2>6. Count(fromWorker'[w], Ready) <= Count(fromWorker[w], Ready)
            /\ Heartbeats(w)' = Heartbeats(w)
    BY <2>2, <2>3
  <2>7. HeartOf(w)'
    BY <1>0, <2>2, <2>4, <2>6, HeartKept
  <2> QED
    BY <2>5, <2>7
<1> QED
  BY <1>1, <1>4, <1>5, <1>6, <1>7 DEF HandleBack

LEMMA SentHeart ==
    ASSUME HeartInv, TypeOK', NEW j \in Job,
           UNCHANGED <<known, pendingHeartbeat, link, fromWorker>>,
           Dispatch(j) \/ Park(j)
    PROVE  \A v \in Worker : HeartOf(v)'
<1>0. TypeOK /\ (\A v \in Worker : HeartOf(v)) /\ known \subseteq Worker
  BY CreditParts DEF HeartInv, TypeOK
<1>1. \A v \in Worker : Count(toWorker'[v], {Ping}) = Count(toWorker[v], {Ping})
  <2>1. CASE Park(j)
    BY <2>1 DEF Park
  <2>2. CASE Dispatch(j)
    <3>1. PICK w \in known : /\ toWorker'[w] = Send(w, Order(j))
                             /\ \A v \in Worker \ {w} : toWorker'[v] = toWorker[v]
      BY <1>0, <2>2, DispatchCounts
    <3>2. Count(toWorker'[w], {Ping}) = Count(toWorker[w], {Ping})
      <4>1. CASE link[w] = "up"
        <5>1. Count(toWorker'[w], {Ping}) = Count(toWorker[w], {Ping}) + 0
          BY <1>0, <3>1, <4>1, Messages, SendCounts
        <5>2. Count(toWorker[w], {Ping}) \in Nat
          BY <1>0, HeartCounts
        <5> QED
          BY <5>1, <5>2
      <4>2. CASE link[w] # "up"
        BY <1>0, <3>1, <4>2, Messages, SendCounts
      <4> QED
        BY <4>1, <4>2
    <3> QED
      BY <3>1, <3>2
  <2> QED
    BY <2>1, <2>2
<1> TAKE v \in Worker
<1>2. Heartbeats(v)' = Heartbeats(v)
  BY <1>1 DEF Heartbeats
<1>3. Count(fromWorker'[v], Ready) <= Count(fromWorker[v], Ready)
  <2>1. Count(fromWorker[v], Ready) \in Nat
    BY <1>0, HeartCounts
  <2> QED
    BY <2>1
<1> QED
  BY <1>0, <1>2, <1>3, HeartKept

LEMMA FrontHeart ==
    ASSUME HeartInv, TypeOK', HandleFront
    PROVE  \A v \in Worker : HeartOf(v)'
<1> USE DEF registry, queues, peers
<1>1. CASE SkipFront
  BY <1>1 DEF HeartInv, SkipFront, HeartOf, Heartbeats, Debt
<1>2. CASE SendAccidental
  <2>1. accidentalMessage \in Job
    BY <1>2, CreditParts DEF HeartInv, TypeOK, SendAccidental
  <2> QED
    BY <1>2, <2>1, SentHeart DEF SendAccidental
<1>3. ASSUME NEW j \in Job, SendReceived(j) PROVE \A v \in Worker : HeartOf(v)'
  BY <1>3, SentHeart DEF SendReceived
<1> QED
  BY <1>1, <1>2, <1>3 DEF HandleFront, SendSide, SendNormal

LEMMA EndHeart ==
    ASSUME HeartInv, TypeOK', Poll \/ Tick \/ Continue \/ Stop
    PROVE  \A v \in Worker : HeartOf(v)'
<1>0. /\ TypeOK /\ (\A v \in Worker : HeartOf(v)) /\ known \subseteq Worker
      /\ \A v \in Worker : CreditOf(v)
  BY CreditParts DEF HeartInv, TypeOK
<1> USE DEF registry, queues, peers
<1>1. CASE Poll \/ Continue
  BY <1>0, <1>1 DEF Poll, Continue, HeartOf, Heartbeats, Debt
<1>2. CASE Tick
  <2> TAKE v \in Worker
  <2>1. /\ known' = known \ Expired /\ link' = link /\ fromWorker' = fromWorker
        /\ v \in known' => pendingHeartbeat'[v]
        /\ v \in known /\ ~pendingHeartbeat[v] => toWorker'[v] = Send(v, Ping)
        /\ ~(v \in known /\ ~pendingHeartbeat[v]) => toWorker'[v] = toWorker[v]
    BY <1>0, <1>2 DEF Tick, Beat
  <2>2. Heartbeats(v) \in Nat /\ Count(fromWorker[v], Ready) \in Nat
    BY <1>0, HeartCounts
  <2>3. CASE v \in known /\ ~pendingHeartbeat[v] /\ link[v] = "up"
    <3>1. Count(toWorker'[v], {Ping}) = Count(toWorker[v], {Ping}) + 1
      BY <1>0, <2>1, <2>3, Messages, SendCounts
    <3>2. /\ Count(toWorker[v], {Ping}) \in Nat
          /\ Count(fromWorker[v], {Notice("PONG")}) \in Nat
      BY <1>0, HeartCounts
    <3>3. Heartbeats(v)' = Heartbeats(v) + 1
      BY <2>1, <3>1, <3>2 DEF Heartbeats
    <3>4. Heartbeats(v) = 0
      BY <1>0, <2>3 DEF HeartOf, Debt
    <3>5. ~(link[v] = "new" \/ Count(fromWorker[v], Ready) > 0)
      BY <1>0, <2>3 DEF CreditOf
    <3> QED
      BY <2>1, <3>3, <3>4, <3>5 DEF HeartOf, Debt
  <2>4. CASE ~(v \in known /\ ~pendingHeartbeat[v] /\ link[v] = "up")
    <3>1. toWorker'[v] = toWorker[v]
      BY <1>0, <2>1, <2>4, Messages, SendCounts
    <3>2. Heartbeats(v)' = Heartbeats(v)
      BY <2>1, <3>1 DEF Heartbeats
    <3>3. v \in known' /\ link[v] = "up" => v \in known /\ Debt(v)' = Debt(v)
      BY <2>1, <2>4 DEF Debt
    <3> QED
      BY <1>0, <2>1, <3>2, <3>3 DEF HeartOf
  <2> QED
    BY <2>3, <2>4
<1>3. CASE Stop
  <2> TAKE v \in Worker
  <2>1. /\ known' = {} /\ link' = link /\ toWorker' = toWorker
        /\ fromWorker'[v] = <<>>
    BY <1>3 DEF Stop, Erase
  <2>2. /\ Count(toWorker[v], {Ping}) \in Nat
        /\ Count(fromWorker[v], {Notice("PONG")}) \in Nat
    BY <1>0, HeartCounts
  <2>3. Count(fromWorker'[v], Ready) = 0 /\ Count(fromWorker'[v], {Notice("PONG")}) = 0
    BY <2>1, CountEmpty
  <2>4. Heartbeats(v) = 0 => Heartbeats(v)' = 0
    BY <2>1, <2>2, <2>3 DEF Heartbeats
  <2> QED
    BY <1>0, <2>1, <2>3, <2>4 DEF HeartOf
<1> QED
  BY <1>1, <1>2, <1>3

LEMMA TurnHeart ==
    ASSUME TypeOK, TypeOK', \A v \in Worker : HeartOf(v), NEW w \in Worker,
           NEW status, NEW to, NEW from, WorkerTurn(w, status, to, from)
    PROVE  /\ link'[w] = status /\ toWorker'[w] = to /\ fromWorker'[w] = from
           /\ UNCHANGED <<known, pendingHeartbeat, pc>>
           /\ \A v \in Worker \ {w} : HeartOf(v)'
<1> USE DEF registry, queues
<1>1. /\ link'[w] = status /\ toWorker'[w] = to /\ fromWorker'[w] = from
      /\ UNCHANGED <<known, pendingHeartbeat, pc>>
      /\ \A v \in Worker \ {w} : /\ link'[v] = link[v]
                                 /\ toWorker'[v] = toWorker[v]
                                 /\ fromWorker'[v] = fromWorker[v]
  BY DEF WorkerTurn, TypeOK
<1>2. \A v \in Worker \ {w} : HeartOf(v)'
  BY <1>1 DEF HeartOf, Heartbeats, Debt
<1> QED
  BY <1>1, <1>2

LEMMA EnvironmentHeart ==
    ASSUME HeartInv, TypeOK', Environment
    PROVE  \A v \in Worker : HeartOf(v)'
<1>0. /\ TypeOK /\ (\A v \in Worker : HeartOf(v)) /\ (\A v \in Worker : CreditOf(v))
      /\ pc = "done" => known = {}
  BY CreditParts DEF HeartInv
<1> USE DEF registry, queues, peers
<1>1. CASE RequestShutdown \/ \E r \in Request : Submit(r)
  BY <1>0, <1>1 DEF RequestShutdown, Submit, HeartOf, Heartbeats, Debt
<1>2. ASSUME NEW w \in Worker
      PROVE  /\ Count(toWorker[w], {Ping}) \in Nat
             /\ Count(fromWorker[w], {Notice("PONG")}) \in Nat
             /\ Count(fromWorker[w], Ready) \in Nat
             /\ Heartbeats(w) \in Nat
             /\ toWorker[w] \in Seq(ToWorkerMsg)
             /\ fromWorker[w] \in Seq(FromWorkerMsg)
             /\ HeartOf(w) /\ CreditOf(w)
  BY <1>0, HeartCounts, WorkerCounts
<1>3. ASSUME NEW w \in Worker, Join(w) PROVE \A v \in Worker : HeartOf(v)'
  <2>1. /\ link'[w] = "up" /\ toWorker'[w] = <<>>
        /\ fromWorker'[w] = Append(fromWorker[w], Notice("READY"))
        /\ known' = known
        /\ \A v \in Worker \ {w} : HeartOf(v)'
    BY <1>0, <1>3, TurnHeart DEF Join
  <2>2. w \notin known /\ Heartbeats(w) = 0
    BY <1>2, <1>3 DEF HeartOf, CreditOf, Join
  <2>3. \A T : Count(Append(fromWorker[w], Notice("READY")), T) =
                   Count(fromWorker[w], T) + IF Notice("READY") \in T THEN 1 ELSE 0
    BY <1>2, Messages, CountAppend
  <2>4. Count(fromWorker'[w], {Notice("PONG")}) = Count(fromWorker[w], {Notice("PONG")}) + 0
    BY <2>1, <2>3, Messages
  <2>5. Count(toWorker'[w], {Ping}) = 0
    BY <2>1, CountEmpty
  <2>6. Heartbeats(w)' = 0
    <3>1. /\ Count(fromWorker[w], {Notice("PONG")}) \in Nat
          /\ Count(toWorker[w], {Ping}) \in Nat
      BY <1>2
    <3>2. Count(fromWorker[w], {Notice("PONG")}) = 0
      BY <2>2, <3>1 DEF Heartbeats
    <3>3. Count(fromWorker'[w], {Notice("PONG")}) = 0
      BY <2>4, <3>2
    <3> QED
      BY <2>5, <3>3 DEF Heartbeats
  <2>7. HeartOf(w)'
    BY <2>1, <2>2, <2>6 DEF HeartOf
  <2> QED
    BY <2>1, <2>7
<1>4. ASSUME NEW w \in Worker, Answer(w) PROVE \A v \in Worker : HeartOf(v)'
  <2> DEFINE m == Head(toWorker[w])
  <2>0. /\ Count(toWorker[w], {Ping}) \in Nat
        /\ Count(fromWorker[w], {Notice("PONG")}) \in Nat
        /\ Count(fromWorker[w], Ready) \in Nat
        /\ toWorker[w] \in Seq(ToWorkerMsg)
        /\ fromWorker[w] \in Seq(FromWorkerMsg)
        /\ HeartOf(w)
    BY <1>2
  <2>1. /\ link'[w] = "up" /\ toWorker'[w] = Tail(toWorker[w])
        /\ fromWorker'[w] = Deliver(w, AnswerTo(m))
        /\ UNCHANGED <<known, pendingHeartbeat>>
        /\ \A v \in Worker \ {w} : HeartOf(v)'
    BY <1>0, <1>4, TurnHeart DEF Answer
  <2>2. link[w] = "up" /\ toWorker[w] # <<>> /\ m \in ToWorkerMsg
    BY <1>4, <2>0 DEF Answer
  <2>3. Count(toWorker[w], {Ping}) =
            Count(Tail(toWorker[w]), {Ping}) + IF m = Ping THEN 1 ELSE 0
    <3>1. Count(toWorker[w], {Ping}) =
              Count(Tail(toWorker[w]), {Ping}) + IF m \in {Ping} THEN 1 ELSE 0
      BY <2>0, <2>2, CountTail
    <3> QED
      BY <3>1
  <2>4. AnswerTo(m) \in FromWorkerMsg /\ AnswerTo(m) \notin Ready
            /\ (AnswerTo(m) = Notice("PONG") <=> m = Ping)
    <3>1. CASE m = Ping
      BY <3>1, Messages
    <3>2. CASE m \in Orders
      BY <3>2, Messages DEF Orders
    <3> QED
      BY <2>2, <3>1, <3>2, Messages
  <2>5. Count(toWorker'[w], {Ping}) \in Nat
    BY NextHeartCounts
  <2>6. ASSUME pc # "done" PROVE HeartOf(w)'
    <3>1. fromWorker'[w] = Append(fromWorker[w], AnswerTo(m))
      BY <2>1, <2>6 DEF Deliver
    <3>2. \A T : Count(Append(fromWorker[w], AnswerTo(m)), T) =
                     Count(fromWorker[w], T) + IF AnswerTo(m) \in T THEN 1 ELSE 0
      BY <2>0, <2>4, CountAppend
    <3>3. Count(fromWorker'[w], Ready) = Count(fromWorker[w], Ready) + 0
      BY <2>4, <3>1, <3>2
    <3>4. Count(fromWorker'[w], {Notice("PONG")}) =
              Count(fromWorker[w], {Notice("PONG")}) + IF m = Ping THEN 1 ELSE 0
      <4>1. AnswerTo(m) \in {Notice("PONG")} <=> m = Ping
        BY <2>4
      <4> QED
        BY <3>1, <3>2, <4>1
    <3>5. Heartbeats(w)' = Heartbeats(w)
      <4>1. CASE m = Ping
        BY <2>0, <2>1, <2>3, <2>5, <3>4, <4>1 DEF Heartbeats
      <4>2. CASE m # Ping
        BY <2>0, <2>1, <2>3, <2>5, <3>4, <4>2 DEF Heartbeats
      <4> QED
        BY <4>1, <4>2
    <3>6. Count(fromWorker'[w], Ready) <= Count(fromWorker[w], Ready)
      BY <2>0, <3>3
    <3> QED
      BY <1>0, <2>0, <2>1, <2>2, <3>5, <3>6, HeartKept
  <2>7. ASSUME pc = "done" PROVE HeartOf(w)'
    <3>1. fromWorker'[w] = fromWorker[w] /\ known' = {}
      BY <1>0, <2>1, <2>7 DEF Deliver
    <3>2. Heartbeats(w) = 0 => Heartbeats(w)' = 0
      <4>1. CASE m = Ping
        BY <2>0, <2>1, <2>3, <2>5, <3>1, <4>1 DEF Heartbeats
      <4>2. CASE m # Ping
        BY <2>0, <2>1, <2>3, <2>5, <3>1, <4>2 DEF Heartbeats
      <4> QED
        BY <4>1, <4>2
    <3> QED
      BY <2>0, <2>1, <2>2, <3>1, <3>2 DEF HeartOf
  <2> QED
    BY <2>1, <2>6, <2>7
<1>5. ASSUME NEW w \in Worker, NEW from \in Seq(FromWorkerMsg),
             WorkerTurn(w, "gone", <<>>, from),
             Count(from, Ready) <= Count(fromWorker[w], Ready),
             Count(from, {Notice("PONG")}) <= Count(fromWorker[w], {Notice("PONG")})
      PROVE  \A v \in Worker : HeartOf(v)'
  <2>1. /\ link'[w] = "gone" /\ toWorker'[w] = <<>> /\ fromWorker'[w] = from
        /\ \A v \in Worker \ {w} : HeartOf(v)'
    BY <1>0, <1>5, TurnHeart
  <2>2. /\ Count(toWorker'[w], {Ping}) = 0 /\ Count(from, {Notice("PONG")}) \in Nat
        /\ Count(from, Ready) \in Nat
    BY <2>1, <1>5, CountEmpty, CountType
  <2>3. /\ Count(toWorker[w], {Ping}) \in Nat
        /\ Count(fromWorker[w], {Notice("PONG")}) \in Nat
        /\ Count(fromWorker[w], Ready) \in Nat
        /\ HeartOf(w)
    BY <1>2
  <2>4. Heartbeats(w) = 0 => Heartbeats(w)' = 0
    BY <1>5, <2>1, <2>2, <2>3 DEF Heartbeats
  <2>5. HeartOf(w)'
    BY <1>5, <2>1, <2>2, <2>3, <2>4 DEF HeartOf
  <2> QED
    BY <2>1, <2>5
<1>6. ASSUME NEW w \in Worker, Leave(w) PROVE \A v \in Worker : HeartOf(v)'
  <2>1. PICK n \in 0 .. Len(fromWorker[w]) :
            WorkerTurn(w, "gone", <<>>, SubSeq(fromWorker[w], 1, n))
    BY <1>6 DEF Leave
  <2>2. fromWorker[w] \in Seq(FromWorkerMsg)
    BY <1>2
  <2>3. SubSeq(fromWorker[w], 1, n) \in Seq(FromWorkerMsg)
    BY <2>2
  <2>4. \A T : Count(SubSeq(fromWorker[w], 1, n), T) <= Count(fromWorker[w], T)
    BY <2>2, CountPrefix
  <2> QED
    BY <1>5, <2>1, <2>3, <2>4
<1>7. ASSUME NEW w \in Worker, Resign(w) PROVE \A v \in Worker : HeartOf(v)'
  <2>1. /\ fromWorker[w] \in Seq(FromWorkerMsg)
        /\ Count(fromWorker[w], {Notice("PONG")}) \in Nat
        /\ Count(fromWorker[w], Ready) \in Nat
    BY <1>2
  <2>2. \A T : Count(Append(fromWorker[w], Notice("DEATH")), T) =
                   Count(fromWorker[w], T) + IF Notice("DEATH") \in T THEN 1 ELSE 0
    BY <2>1, Messages, CountAppend
  <2>3. /\ Count(Append(fromWorker[w], Notice("DEATH")), {Notice("PONG")})
                = Count(fromWorker[w], {Notice("PONG")}) + 0
        /\ Count(Append(fromWorker[w], Notice("DEATH")), Ready)
                = Count(fromWorker[w], Ready) + 0
    BY <2>2, Messages
  <2>4. /\ Count(Deliver(w, Notice("DEATH")), {Notice("PONG")})
                = Count(fromWorker[w], {Notice("PONG")})
        /\ Count(Deliver(w, Notice("DEATH")), Ready) = Count(fromWorker[w], Ready)
        /\ Deliver(w, Notice("DEATH")) \in Seq(FromWorkerMsg)
    BY <1>0, <2>1, <2>3, Messages, DeliverType DEF Deliver
  <2>5. WorkerTurn(w, "gone", <<>>, Deliver(w, Notice("DEATH")))
    BY <1>7 DEF Resign
  <2>6. /\ Count(Deliver(w, Notice("DEATH")), Ready) <= Count(fromWorker[w], Ready)
        /\ Count(Deliver(w, Notice("DEATH")), {Notice("PONG")})
                <= Count(fromWorker[w], {Notice("PONG")})
    BY <2>1, <2>4
  <2> QED
    BY <1>5, <2>4, <2>5, <2>6
<1> QED
  BY <1>1, <1>3, <1>4, <1>6, <1>7 DEF Environment

LEMMA HeartStep == HeartInv /\ [Next]_vars => HeartInv'
<1> SUFFICES ASSUME HeartInv, [Next]_vars PROVE HeartInv'
  OBVIOUS
<1>1. CreditInv' /\ TypeOK /\ TypeOK'
  BY CreditStep, CreditParts, TypeStep DEF HeartInv
<1>2. LifeLostIffPending'
  BY <1>1, LifeStep DEF HeartInv
<1>3. \A v \in Worker : HeartOf(v)'
  <2>1. CASE UNCHANGED vars
    BY <2>1 DEF HeartInv, vars, registry, queues, peers, HeartOf, Heartbeats, Debt
  <2> QED
    BY <1>1, <2>1, BackHeart, FrontHeart, EndHeart, EnvironmentHeart
       DEF Next, DispatcherStep
<1> QED
  BY <1>1, <1>2, <1>3 DEF HeartInv

\* A pending heartbeat of a worker that is up is one PING or one PONG on its
\* way, and there is none that is not pending: a worker that is up can earn
\* back the life it has lost, and is never sent a second heartbeat before it
\* has answered the first, for every number of workers and every live_default.
THEOREM HeartbeatCorrect == Spec => []HeartbeatDebt
<1>1. HeartInv => HeartbeatDebt
  <2>1. TypeOK => \A w \in known : w \in Worker
    BY DEF TypeOK
  <2> QED
    BY <2>1, CreditParts DEF HeartInv, HeartbeatDebt, HeartOf, Debt
<1> QED
  BY <1>1, HeartInit, HeartStep, PTL DEF Spec

-----------------------------------------------------------------------------
(* A request is in one place.                                              *)

LEMMA Occurs ==
    ASSUME NEW S, NEW s \in Seq(S), NEW m
    PROVE  (\E i \in DOMAIN s : s[i] = m) <=> Count(s, {m}) # 0
<1>1. Count(s, {m}) = 0 <=> \A i \in DOMAIN s : s[i] \notin {m}
  BY CountType
<1> QED
  BY <1>1

LEMMA Holders ==
    ASSUME TypeOK, NEW w \in Worker, NEW r
    PROVE  /\ w \in Given(r) <=> Count(toWorker[w], {Order(r)}) # 0
           /\ w \in Solved(r) <=> Count(fromWorker[w], {Reply(r)}) # 0
           /\ Count(toWorker[w], {Order(r)}) \in Nat
           /\ Count(fromWorker[w], {Reply(r)}) \in Nat
<1>1. toWorker[w] \in Seq(ToWorkerMsg) /\ fromWorker[w] \in Seq(FromWorkerMsg)
  BY DEF TypeOK
<1>2. /\ w \in Given(r) <=> \E i \in DOMAIN toWorker[w] : toWorker[w][i] = Order(r)
      /\ w \in Solved(r) <=> \E i \in DOMAIN fromWorker[w] : fromWorker[w][i] = Reply(r)
  BY DEF Given, Solved
<1>3. /\ (\E i \in DOMAIN toWorker[w] : toWorker[w][i] = Order(r))
             <=> Count(toWorker[w], {Order(r)}) # 0
      /\ (\E i \in DOMAIN fromWorker[w] : fromWorker[w][i] = Reply(r))
             <=> Count(fromWorker[w], {Reply(r)}) # 0
  BY <1>1, Occurs
<1>4. /\ Count(toWorker[w], {Order(r)}) \in Nat
      /\ Count(fromWorker[w], {Reply(r)}) \in Nat
  BY CountsAreNat
<1> QED
  BY <1>2, <1>3, <1>4

LEMMA NextHolders ==
    ASSUME TypeOK', NEW w \in Worker, NEW r
    PROVE  /\ w \in Given(r)' <=> Count(toWorker'[w], {Order(r)}) # 0
           /\ w \in Solved(r)' <=> Count(fromWorker'[w], {Reply(r)}) # 0
           /\ Count(toWorker'[w], {Order(r)}) \in Nat
           /\ Count(fromWorker'[w], {Reply(r)}) \in Nat
<1>1. toWorker'[w] \in Seq(ToWorkerMsg) /\ fromWorker'[w] \in Seq(FromWorkerMsg)
  BY DEF TypeOK
<1>2. /\ w \in Given(r)' <=> \E i \in DOMAIN toWorker'[w] : toWorker'[w][i] = Order(r)
      /\ w \in Solved(r)' <=> \E i \in DOMAIN fromWorker'[w] : fromWorker'[w][i] = Reply(r)
  BY DEF Given, Solved
<1>3. /\ (\E i \in DOMAIN toWorker'[w] : toWorker'[w][i] = Order(r))
             <=> Count(toWorker'[w], {Order(r)}) # 0
      /\ (\E i \in DOMAIN fromWorker'[w] : fromWorker'[w][i] = Reply(r))
             <=> Count(fromWorker'[w], {Reply(r)}) # 0
  BY <1>1, Occurs
<1>4. /\ Count(toWorker'[w], {Order(r)}) \in Nat
      /\ Count(fromWorker'[w], {Reply(r)}) \in Nat
  BY NextCountsAreNat
<1> QED
  BY <1>2, <1>3, <1>4

LEMMA HoldersAreWorkers == \A r : Given(r) \subseteq Worker /\ Solved(r) \subseteq Worker
BY DEF Given, Solved

\* A worker that holds a request has spent its credit on it.
LEMMA HolderIsBusy ==
    ASSUME TypeOK, NEW w \in Worker, CreditOf(w), NEW r \in Job
    PROVE  /\ w \in Given(r) => /\ Count(ready, {w}) = 0
                                /\ Count(toWorker[w], Orders) = 1
                                /\ Count(fromWorker[w], Backs) = 0
           /\ w \in Solved(r) => /\ Count(ready, {w}) = 0
                                 /\ Count(toWorker[w], Orders) = 0
                                 /\ Count(fromWorker[w], Backs) = 1
<1>1. /\ Count(ready, {w}) \in Nat /\ Count(toWorker[w], Orders) \in Nat
      /\ Count(fromWorker[w], Backs) \in Nat
      /\ toWorker[w] \in Seq(ToWorkerMsg)
      /\ fromWorker[w] \in Seq(FromWorkerMsg)
      /\ Credits(w) <= 1
  BY WorkerCounts
<1>2. {Order(r)} \in SUBSET Orders /\ {Reply(r)} \in SUBSET Backs
  BY DEF Orders, Replies, Backs
<1>3. /\ Count(toWorker[w], {Order(r)}) <= Count(toWorker[w], Orders)
      /\ Count(fromWorker[w], {Reply(r)}) <= Count(fromWorker[w], Backs)
  BY <1>1, <1>2, CountSubset
<1>4. /\ w \in Given(r) <=> Count(toWorker[w], {Order(r)}) # 0
      /\ w \in Solved(r) <=> Count(fromWorker[w], {Reply(r)}) # 0
      /\ Count(toWorker[w], {Order(r)}) \in Nat
      /\ Count(fromWorker[w], {Reply(r)}) \in Nat
  BY Holders
<1>5. Count(ready, {w}) + Count(toWorker[w], Orders) + Count(fromWorker[w], Backs) <= 1
  BY <1>1 DEF Credits, Backs
<1> QED
  BY <1>1, <1>3, <1>4, <1>5

\* It holds one request, as an order or as a reply.
LEMMA HolderOfOne ==
    ASSUME TypeOK, NEW w \in Worker, CreditOf(w), NEW r \in Job, NEW q \in Job,
           w \in Given(r) \cup Solved(r), w \in Given(q) \cup Solved(q)
    PROVE  r = q /\ (w \in Given(r) <=> w \notin Solved(r))
<1>1. /\ w \in Given(r) => Count(toWorker[w], Orders) = 1
      /\ w \in Given(q) => Count(toWorker[w], Orders) = 1
      /\ w \in Solved(r) => Count(toWorker[w], Orders) = 0
                                /\ Count(fromWorker[w], Backs) = 1
      /\ w \in Solved(q) => Count(toWorker[w], Orders) = 0
                                /\ Count(fromWorker[w], Backs) = 1
  BY HolderIsBusy
<1>2. toWorker[w] \in Seq(ToWorkerMsg) /\ fromWorker[w] \in Seq(FromWorkerMsg)
  BY DEF TypeOK
<1>3. CASE w \in Given(r)
  <2>1. w \in Given(q) /\ w \notin Solved(r)
    BY <1>1, <1>3
  <2>2. PICK i, j \in DOMAIN toWorker[w] :
            toWorker[w][i] = Order(r) /\ toWorker[w][j] = Order(q)
    BY <1>3, <2>1 DEF Given
  <2>3. Count(toWorker[w], Orders) <= 1
    BY <1>1, <1>3
  <2>4. i = j
    BY <1>2, <2>2, <2>3, CountType, Messages
  <2> QED
    BY <1>3, <2>1, <2>2, <2>4, Messages
<1>4. CASE w \in Solved(r)
  <2>1. w \in Solved(q) /\ w \notin Given(r)
    BY <1>1, <1>4
  <2>2. PICK i, j \in DOMAIN fromWorker[w] :
            fromWorker[w][i] = Reply(r) /\ fromWorker[w][j] = Reply(q)
    BY <1>4, <2>1 DEF Solved
  <2>3. Count(fromWorker[w], Backs) <= 1
    BY <1>1, <1>4
  <2>4. i = j
    BY <1>2, <2>2, <2>3, CountType, Messages
  <2> QED
    BY <1>4, <2>1, <2>2, <2>4, Messages
<1> QED
  BY <1>3, <1>4

\* What an action does to the holders of a request.
LEMMA ReceiveMoves ==
    ASSUME CreditInv, TypeOK', NEW w \in Worker, NEW m \in FromWorkerMsg,
           Receive(w, m), NEW r \in Request
    PROVE  /\ Given(r)' = Given(r)
           /\ Solved(r)' = IF m = Reply(r) THEN Solved(r) \ {w} ELSE Solved(r)
           /\ m = Reply(r) => w \in Solved(r)
<1>0. TypeOK /\ (\A v \in Worker : CreditOf(v)) /\ r \in Job
  BY CreditParts DEF Job
<1>1. /\ \A T : Count(fromWorker[w], T) =
                     Count(fromWorker'[w], T) + IF m \in T THEN 1 ELSE 0
      /\ \A v \in Worker \ {w} : fromWorker'[v] = fromWorker[v]
      /\ toWorker' = toWorker
  BY <1>0, ReceiveCounts
<1>2. Given(r)' = Given(r)
  BY <1>1 DEF Given
<1>3. \A v \in Worker \ {w} : v \in Solved(r)' <=> v \in Solved(r)
  BY <1>1 DEF Solved
<1>4. /\ w \in Solved(r)' <=> Count(fromWorker'[w], {Reply(r)}) # 0
      /\ w \in Solved(r) <=> Count(fromWorker[w], {Reply(r)}) # 0
      /\ Count(fromWorker'[w], {Reply(r)}) \in Nat
      /\ Count(fromWorker[w], {Reply(r)}) \in Nat
  BY <1>0, Holders, NextHolders
<1>5. Count(fromWorker[w], {Reply(r)}) =
          Count(fromWorker'[w], {Reply(r)}) + IF m = Reply(r) THEN 1 ELSE 0
  <2>1. m \in {Reply(r)} <=> m = Reply(r)
    OBVIOUS
  <2> QED
    BY <1>1, <2>1
<1>6. CASE m # Reply(r)
  <2>1. w \in Solved(r)' <=> w \in Solved(r)
    BY <1>4, <1>5, <1>6
  <2>2. Solved(r)' \subseteq Worker /\ Solved(r) \subseteq Worker
    BY DEF Solved
  <2> QED
    BY <1>2, <1>3, <1>6, <2>1, <2>2
<1>7. CASE m = Reply(r)
  <2>1. w \in Solved(r)
    BY <1>4, <1>5, <1>7
  <2>2. Count(fromWorker[w], Backs) = 1
    BY <1>0, <2>1, HolderIsBusy
  <2>3. Count(fromWorker[w], Backs) = Count(fromWorker'[w], Backs) + 1
    BY <1>0, <1>1, <1>7, Messages
  <2>4. Count(fromWorker'[w], Backs) \in Nat /\ fromWorker'[w] \in Seq(FromWorkerMsg)
    BY NextCountsAreNat DEF TypeOK
  <2>5. Count(fromWorker'[w], {Reply(r)}) <= Count(fromWorker'[w], Backs)
    <3>1. {Reply(r)} \in SUBSET Backs
      BY <1>0 DEF Replies, Backs
    <3> QED
      BY <2>4, <3>1, CountSubset
  <2>6. w \notin Solved(r)'
    BY <1>4, <2>2, <2>3, <2>4, <2>5
  <2>7. Solved(r)' \subseteq Worker /\ Solved(r) \subseteq Worker
    BY DEF Solved
  <2> QED
    BY <1>2, <1>3, <1>7, <2>1, <2>6, <2>7
<1> QED
  BY <1>6, <1>7

\* A worker that is sent a request has held none, and holds it if it is up.
LEMMA DispatchMoves ==
    ASSUME CreditInv, TypeOK', NEW j \in Job, Dispatch(j), UNCHANGED fromWorker
    PROVE  \E w \in known :
               /\ \A q \in Request : w \notin Given(q) \cup Solved(q)
               /\ \A r \in Request :
                      /\ Given(r)' = IF r = j /\ link[w] = "up"
                                     THEN Given(r) \cup {w} ELSE Given(r)
                      /\ Solved(r)' = Solved(r)
<1>0. TypeOK /\ (\A v \in Worker : CreditOf(v)) /\ known \subseteq Worker
  BY CreditParts DEF TypeOK
<1>1. PICK w \in known : /\ Count(ready', {w}) = Count(ready, {w}) - 1
                         /\ toWorker'[w] = Send(w, Order(j))
                         /\ \A v \in Worker \ {w} : toWorker'[v] = toWorker[v]
  BY <1>0, DispatchCounts
<1>2. \A q \in Request : w \notin Given(q) \cup Solved(q)
  <2>1. Count(ready, {w}) \in Nat /\ Count(ready', {w}) \in Nat
    BY <1>0, CountsAreNat, NextCountsAreNat
  <2>2. Count(ready, {w}) # 0
    BY <1>1, <2>1
  <2> QED
    BY <1>0, <2>2, HolderIsBusy DEF Job
<1>3. ASSUME NEW r \in Request
      PROVE  /\ Given(r)' = IF r = j /\ link[w] = "up"
                            THEN Given(r) \cup {w} ELSE Given(r)
             /\ Solved(r)' = Solved(r)
  <2>0. r \in Job
    BY DEF Job
  <2>1. Solved(r)' = Solved(r)
    BY DEF Solved
  <2>2. /\ \A v \in Worker \ {w} : v \in Given(r)' <=> v \in Given(r)
        /\ Given(r)' \subseteq Worker /\ Given(r) \subseteq Worker
    BY <1>1 DEF Given
  <2>3. /\ w \in Given(r)' <=> Count(toWorker'[w], {Order(r)}) # 0
        /\ w \in Given(r) <=> Count(toWorker[w], {Order(r)}) # 0
        /\ Count(toWorker[w], {Order(r)}) \in Nat
    BY <1>0, Holders, NextHolders
  <2>4. CASE link[w] = "up"
    <3>1. \A T : Count(toWorker'[w], T) =
                     Count(toWorker[w], T) + IF Order(j) \in T THEN 1 ELSE 0
      BY <1>0, <1>1, <2>4, Messages, SendCounts
    <3>2. Order(j) \in {Order(r)} <=> r = j
      BY <2>0, Messages
    <3>3. Count(toWorker'[w], {Order(r)}) =
              Count(toWorker[w], {Order(r)}) + IF r = j THEN 1 ELSE 0
      BY <3>1, <3>2
    <3>4. w \in Given(r)' <=> r = j \/ w \in Given(r)
      BY <2>3, <3>3
    <3> QED
      BY <1>0, <2>1, <2>2, <2>4, <3>4
  <2>5. CASE link[w] # "up"
    <3>1. toWorker'[w] = toWorker[w]
      BY <1>0, <1>1, <2>5, Messages, SendCounts
    <3>2. w \in Given(r)' <=> w \in Given(r)
      BY <2>3, <3>1
    <3> QED
      BY <2>1, <2>2, <2>5, <3>2
  <2> QED
    BY <2>4, <2>5
<1> QED
  BY <1>2, <1>3

LEMMA ParkMoves ==
    ASSUME NEW j, Park(j), UNCHANGED fromWorker, NEW r
    PROVE  Given(r)' = Given(r) /\ Solved(r)' = Solved(r)
BY DEF Park, Given, Solved

LEMMA TickMoves ==
    ASSUME TypeOK, TypeOK', Tick, NEW r \in Request
    PROVE  Given(r)' = Given(r) /\ Solved(r)' = Solved(r)
<1>1. /\ fromWorker' = fromWorker
      /\ \A v \in Worker : toWorker'[v] = Send(v, Ping) \/ toWorker'[v] = toWorker[v]
  BY DEF Tick, Beat
<1>2. Solved(r)' = Solved(r)
  BY <1>1 DEF Solved
<1>3. ASSUME NEW v \in Worker PROVE v \in Given(r)' <=> v \in Given(r)
  <2>1. Ping \notin {Order(r)}
    BY Messages DEF Job
  <2>2. Count(Send(v, Ping), {Order(r)}) = Count(toWorker[v], {Order(r)})
    <3>1. CASE link[v] = "up"
      <4>1. Count(Send(v, Ping), {Order(r)}) = Count(toWorker[v], {Order(r)}) + 0
        BY <2>1, <3>1, Messages, SendCounts
      <4>2. Count(toWorker[v], {Order(r)}) \in Nat
        BY CountsAreNat
      <4> QED
        BY <4>1, <4>2
    <3>2. CASE link[v] # "up"
      BY <3>2, Messages, SendCounts
    <3> QED
      BY <3>1, <3>2
  <2> QED
    BY <1>1, <2>2, Holders, NextHolders
<1>4. Given(r) \subseteq Worker /\ Given(r)' \subseteq Worker
  BY DEF Given
<1> QED
  BY <1>2, <1>3, <1>4

\* The set is the same, up to w.
SameBut(w, S, T) ==
    /\ (w \in T <=> w \in S) => T = S
    /\ w \in T => T = S \cup {w}
    /\ w \notin T => T = S \ {w}

LEMMA SameButOne ==
    ASSUME NEW w, NEW S \in SUBSET Worker, NEW T \in SUBSET Worker,
           \A v \in Worker \ {w} : v \in T <=> v \in S
    PROVE  SameBut(w, S, T)
BY DEF SameBut

LEMMA TurnMoves ==
    ASSUME TypeOK, NEW w \in Worker, NEW status, NEW to, NEW from,
           WorkerTurn(w, status, to, from), NEW r
    PROVE  /\ link' = [link EXCEPT ![w] = status]
           /\ toWorker'[w] = to /\ fromWorker'[w] = from
           /\ SameBut(w, Given(r), Given(r)') /\ SameBut(w, Solved(r), Solved(r)')
<1>1. /\ link' = [link EXCEPT ![w] = status]
      /\ toWorker'[w] = to /\ fromWorker'[w] = from
      /\ \A v \in Worker \ {w} : /\ toWorker'[v] = toWorker[v]
                                 /\ fromWorker'[v] = fromWorker[v]
  BY DEF WorkerTurn, TypeOK
<1>2. /\ \A v \in Worker \ {w} : v \in Given(r)' <=> v \in Given(r)
      /\ Given(r) \in SUBSET Worker /\ Given(r)' \in SUBSET Worker
  BY <1>1 DEF Given
<1>3. /\ \A v \in Worker \ {w} : v \in Solved(r)' <=> v \in Solved(r)
      /\ Solved(r) \in SUBSET Worker /\ Solved(r)' \in SUBSET Worker
  BY <1>1 DEF Solved
<1>4. SameBut(w, Given(r), Given(r)') /\ SameBut(w, Solved(r), Solved(r)')
  BY <1>2, <1>3, SameButOne
<1> QED
  BY <1>1, <1>4

LEMMA JoinMoves ==
    ASSUME CreditInv, TypeOK', NEW w \in Worker, Join(w), NEW r \in Request
    PROVE  Given(r)' = Given(r) /\ Solved(r)' = Solved(r)
<1>0. TypeOK /\ CreditOf(w) /\ r \in Job
  BY CreditParts DEF Job
<1>1. /\ toWorker'[w] = <<>> /\ fromWorker'[w] = Append(fromWorker[w], Notice("READY"))
      /\ SameBut(w, Given(r), Given(r)') /\ SameBut(w, Solved(r), Solved(r)')
  BY <1>0, TurnMoves DEF Join
<1>2. w \in Given(r)' <=> w \in Given(r)
  <2>1. toWorker[w] = <<>>
    BY <1>0 DEF Join, CreditOf
  <2> QED
    BY <1>0, <1>1, <2>1, Holders, NextHolders
<1>3. w \in Solved(r)' <=> w \in Solved(r)
  <2>1. fromWorker[w] \in Seq(FromWorkerMsg) /\ Notice("READY") \in FromWorkerMsg
            /\ Notice("READY") \notin {Reply(r)}
    BY <1>0, Messages DEF TypeOK
  <2>2. Count(Append(fromWorker[w], Notice("READY")), {Reply(r)})
            = Count(fromWorker[w], {Reply(r)}) + 0
    BY <2>1, CountAppend
  <2>3. /\ w \in Solved(r)' <=> Count(fromWorker'[w], {Reply(r)}) # 0
        /\ w \in Solved(r) <=> Count(fromWorker[w], {Reply(r)}) # 0
        /\ Count(fromWorker[w], {Reply(r)}) \in Nat
    BY <1>0, Holders, NextHolders
  <2> QED
    BY <1>1, <2>2, <2>3
<1> QED
  BY <1>1, <1>2, <1>3 DEF SameBut

\* A worker that answers a request turns it into its reply.
LEMMA AnswerMoves ==
    ASSUME CreditInv, TypeOK', NEW w \in Worker, Answer(w), NEW r \in Request
    PROVE  \/ Given(r)' = Given(r) /\ Solved(r)' = Solved(r)
           \/ /\ w \in Given(r)
              /\ Given(r)' = Given(r) \ {w}
              /\ Solved(r)' = IF pc = "done" THEN Solved(r) ELSE Solved(r) \cup {w}
<1> DEFINE m == Head(toWorker[w])
<1>0. TypeOK /\ CreditOf(w) /\ r \in Job
  BY CreditParts DEF Job
<1>1. /\ toWorker'[w] = Tail(toWorker[w])
      /\ fromWorker'[w] = Deliver(w, AnswerTo(m))
      /\ SameBut(w, Given(r), Given(r)') /\ SameBut(w, Solved(r), Solved(r)')
  BY <1>0, TurnMoves DEF Answer
<1>2. /\ toWorker[w] # <<>> /\ m \in ToWorkerMsg
      /\ toWorker[w] \in Seq(ToWorkerMsg) /\ fromWorker[w] \in Seq(FromWorkerMsg)
  BY <1>0 DEF Answer, TypeOK
<1>3. AnswerTo(m) \in FromWorkerMsg /\ (AnswerTo(m) = Reply(r) <=> m = Order(r))
  <2>1. CASE m = Ping
    BY <1>0, <2>1, Messages
  <2>2. CASE m \in Orders
    BY <1>0, <2>2, Messages DEF Orders
  <2> QED
    BY <1>2, <2>1, <2>2, Messages
<1>4. /\ w \in Given(r) <=> Count(toWorker[w], {Order(r)}) # 0
      /\ w \in Solved(r) <=> Count(fromWorker[w], {Reply(r)}) # 0
      /\ w \in Given(r)' <=> Count(toWorker'[w], {Order(r)}) # 0
      /\ w \in Solved(r)' <=> Count(fromWorker'[w], {Reply(r)}) # 0
      /\ Count(toWorker[w], {Order(r)}) \in Nat
      /\ Count(toWorker'[w], {Order(r)}) \in Nat
      /\ Count(fromWorker[w], {Reply(r)}) \in Nat
  BY <1>0, Holders, NextHolders
<1>5. Count(toWorker[w], {Order(r)}) =
          Count(toWorker'[w], {Order(r)}) + IF m = Order(r) THEN 1 ELSE 0
  <2>1. Count(toWorker[w], {Order(r)}) =
            Count(Tail(toWorker[w]), {Order(r)}) + IF m \in {Order(r)} THEN 1 ELSE 0
    BY <1>2, CountTail
  <2> QED
    BY <1>1, <2>1
<1>6. pc # "done" =>
          Count(fromWorker'[w], {Reply(r)}) =
              Count(fromWorker[w], {Reply(r)}) + IF m = Order(r) THEN 1 ELSE 0
  <2>1. Count(Append(fromWorker[w], AnswerTo(m)), {Reply(r)}) =
            Count(fromWorker[w], {Reply(r)})
                + IF AnswerTo(m) \in {Reply(r)} THEN 1 ELSE 0
    BY <1>2, <1>3, CountAppend
  <2>2. AnswerTo(m) \in {Reply(r)} <=> m = Order(r)
    BY <1>3
  <2> QED
    BY <1>1, <2>1, <2>2 DEF Deliver
<1>7. pc = "done" => fromWorker'[w] = fromWorker[w]
  BY <1>1 DEF Deliver
<1>8. CASE m # Order(r)
  <2>1. w \in Given(r)' <=> w \in Given(r)
    BY <1>4, <1>5, <1>8
  <2>2. w \in Solved(r)' <=> w \in Solved(r)
    BY <1>4, <1>6, <1>7, <1>8
  <2> QED
    BY <1>1, <2>1, <2>2 DEF SameBut
<1>9. CASE m = Order(r)
  <2>1. w \in Given(r)
    BY <1>4, <1>5, <1>9
  <2>2. Count(toWorker[w], Orders) = 1
    BY <1>0, <2>1, HolderIsBusy
  <2>3. Count(toWorker[w], Orders) = Count(toWorker'[w], Orders) + 1
    BY <1>0, <1>1, <1>2, <1>9, CountTail, Messages
  <2>4. Count(toWorker'[w], {Order(r)}) <= Count(toWorker'[w], Orders)
    <3>1. {Order(r)} \in SUBSET Orders /\ toWorker'[w] \in Seq(ToWorkerMsg)
      BY <1>0 DEF Orders, TypeOK
    <3> QED
      BY <3>1, CountSubset
  <2>5. w \notin Given(r)'
    <3>1. Count(toWorker'[w], Orders) \in Nat
      BY NextCountsAreNat
    <3> QED
      BY <1>4, <2>2, <2>3, <2>4, <3>1
  <2>6. Given(r)' = Given(r) \ {w}
    BY <1>1, <2>5 DEF SameBut
  <2>7. CASE pc = "done"
    <3>1. w \in Solved(r)' <=> w \in Solved(r)
      BY <1>4, <1>7, <2>7
    <3> QED
      BY <1>1, <2>1, <2>6, <2>7, <3>1 DEF SameBut
  <2>8. CASE pc # "done"
    <3>1. w \in Solved(r)'
      BY <1>4, <1>6, <1>9, <2>8
    <3> QED
      BY <1>1, <2>1, <2>6, <2>8, <3>1 DEF SameBut
  <2> QED
    BY <2>7, <2>8
<1> QED
  BY <1>8, <1>9

\* A worker that leaves takes its request along, and perhaps its reply.
LEMMA GoneMoves ==
    ASSUME CreditInv, TypeOK', NEW w \in Worker, Leave(w) \/ Resign(w),
           NEW r \in Request
    PROVE  /\ link[w] = "up" /\ link' = [link EXCEPT ![w] = "gone"]
           /\ Given(r)' = Given(r) \ {w}
           /\ Solved(r) \ {w} \subseteq Solved(r)' /\ Solved(r)' \subseteq Solved(r)
<1>0. TypeOK /\ r \in Job /\ fromWorker[w] \in Seq(FromWorkerMsg)
  BY CreditParts DEF Job, TypeOK
<1>1. ASSUME NEW from, WorkerTurn(w, "gone", <<>>, from),
             Count(from, {Reply(r)}) <= Count(fromWorker[w], {Reply(r)})
      PROVE  /\ link' = [link EXCEPT ![w] = "gone"]
             /\ Given(r)' = Given(r) \ {w}
             /\ Solved(r) \ {w} \subseteq Solved(r)' /\ Solved(r)' \subseteq Solved(r)
  <2>1. /\ link' = [link EXCEPT ![w] = "gone"]
        /\ toWorker'[w] = <<>> /\ fromWorker'[w] = from
        /\ SameBut(w, Given(r), Given(r)') /\ SameBut(w, Solved(r), Solved(r)')
    BY <1>0, <1>1, TurnMoves
  <2>2. w \notin Given(r)'
    BY <2>1, NextHolders, CountEmpty
  <2>3. w \in Solved(r)' => w \in Solved(r)
    <3>1. /\ w \in Solved(r)' <=> Count(fromWorker'[w], {Reply(r)}) # 0
          /\ w \in Solved(r) <=> Count(fromWorker[w], {Reply(r)}) # 0
          /\ Count(fromWorker'[w], {Reply(r)}) \in Nat
          /\ Count(fromWorker[w], {Reply(r)}) \in Nat
      BY <1>0, Holders, NextHolders
    <3> QED
      BY <1>1, <2>1, <3>1
  <2>4. Given(r)' = Given(r) \ {w}
    BY <2>1, <2>2 DEF SameBut
  <2>5. Solved(r)' = Solved(r) \/ Solved(r)' = Solved(r) \ {w}
    BY <2>1, <2>3 DEF SameBut
  <2> QED
    BY <2>1, <2>4, <2>5
<1>2. CASE Leave(w)
  <2>1. PICK n \in 0 .. Len(fromWorker[w]) :
            WorkerTurn(w, "gone", <<>>, SubSeq(fromWorker[w], 1, n))
    BY <1>2 DEF Leave
  <2>2. Count(SubSeq(fromWorker[w], 1, n), {Reply(r)}) <= Count(fromWorker[w], {Reply(r)})
    BY <1>0, CountPrefix
  <2> QED
    BY <1>1, <1>2, <2>1, <2>2 DEF Leave
<1>3. CASE Resign(w)
  <2>1. Notice("DEATH") \in FromWorkerMsg /\ Notice("DEATH") \notin {Reply(r)}
    BY <1>0, Messages
  <2>2. Count(Append(fromWorker[w], Notice("DEATH")), {Reply(r)})
            = Count(fromWorker[w], {Reply(r)}) + 0
    BY <1>0, <2>1, CountAppend
  <2>3. Count(fromWorker[w], {Reply(r)}) \in Nat
    BY <1>0, CountsAreNat
  <2>4. Count(Deliver(w, Notice("DEATH")), {Reply(r)}) <= Count(fromWorker[w], {Reply(r)})
    BY <2>2, <2>3 DEF Deliver
  <2> QED
    BY <1>1, <1>3, <2>4 DEF Resign
<1> QED
  BY <1>2, <1>3

LEMMA StopMoves ==
    ASSUME Stop, NEW r
    PROVE  Given(r)' = Given(r) /\ Solved(r)' = {}
BY DEF Stop, Given, Solved

PlaceInv ==
    /\ CreditInv
    /\ \A r \in Request : OnePlace(r)

LEMMA PlaceInit == Init => PlaceInv
<1> SUFFICES ASSUME Init PROVE PlaceInv
  OBVIOUS
<1>1. ASSUME NEW r \in Request PROVE OnePlace(r)
  <2>1. Given(r) = {} /\ Solved(r) = {}
    BY DEF Init, Given, Solved
  <2>2. r # accidentalMessage /\ front = {} /\ answered = {}
    BY RequestAssumption DEF Init
  <2> QED
    BY <2>1, <2>2 DEF OnePlace
<1> QED
  BY <1>1, CreditInit DEF PlaceInv

\* A step that puts the request nowhere new.
LEMMA PlaceKept ==
    ASSUME NEW r \in Request, OnePlace(r),
           Given(r)' \subseteq Given(r), Solved(r)' \subseteq Solved(r),
           r \in front' => r \in front,
           r = accidentalMessage' => r = accidentalMessage,
           r \in answered' => r \in answered,
           submitted \subseteq submitted'
    PROVE  OnePlace(r)'
BY DEF OnePlace

LEMMA BackPlace ==
    ASSUME PlaceInv, TypeOK', HandleBack, NEW r \in Request
    PROVE  OnePlace(r)'
<1> USE DEF registry, queues, peers
<1>0. CreditInv /\ OnePlace(r)
  BY DEF PlaceInv
<1>1. CASE NoBackMessage
  BY <1>0, <1>1 DEF NoBackMessage, OnePlace, Given, Solved
<1>2. ASSUME NEW w \in Worker, NEW k \in {"READY", "DEATH", "PONG"},
             Receive(w, Notice(k)), UNCHANGED <<accidentalMessage, answered>>
      PROVE  OnePlace(r)'
  <2>1. Given(r)' = Given(r) /\ Solved(r)' = Solved(r)
    BY <1>0, <1>2, ReceiveMoves, Messages DEF Job
  <2>2. UNCHANGED <<front, submitted>>
    BY <1>2 DEF Receive
  <2> QED
    BY <1>0, <1>2, <2>1, <2>2, PlaceKept
<1>3. ASSUME NEW w \in Worker, HandleReady(w) \/ HandleDeath(w) \/ HandlePong(w)
      PROVE  OnePlace(r)'
  <2>1. UNCHANGED <<accidentalMessage, answered>>
    BY <1>3 DEF HandleReady, HandleDeath, HandlePong, PushReady
  <2> QED
    BY <1>2, <1>3, <2>1 DEF HandleReady, HandleDeath, HandlePong
<1>4. ASSUME NEW w \in Worker, NEW j \in Job, HandleReply(w, j)
      PROVE  OnePlace(r)'
  <2>1. /\ Receive(w, Reply(j)) /\ Reply(j) \in FromWorkerMsg
        /\ UNCHANGED <<front, submitted, accidentalMessage>>
        /\ answered' = answered \cup ({j} \cap Request)
    BY <1>4, Messages DEF HandleReply, Receive, PushReady
  <2>2. /\ Given(r)' = Given(r)
        /\ Solved(r)' = IF j = r THEN Solved(r) \ {w} ELSE Solved(r)
        /\ j = r => w \in Solved(r)
    BY <1>0, <2>1, ReceiveMoves, Messages DEF Job
  <2>3. CASE j = r
    BY <1>0, <2>1, <2>2, <2>3 DEF OnePlace
  <2>4. CASE j # r
    BY <1>0, <2>1, <2>2, <2>4, PlaceKept
  <2> QED
    BY <2>3, <2>4
<1> QED
  BY <1>1, <1>3, <1>4 DEF HandleBack

LEMMA FrontPlace ==
    ASSUME PlaceInv, TypeOK', HandleFront, NEW r \in Request
    PROVE  OnePlace(r)'
<1> USE DEF registry, queues, peers
<1>0. CreditInv /\ OnePlace(r) /\ TypeOK /\ r # NoRequest /\ r # Phantom
  BY CreditParts, RequestAssumption DEF PlaceInv
<1>1. CASE SkipFront
  BY <1>0, <1>1 DEF SkipFront, OnePlace, Given, Solved
\* Worker w is sent j, which is taken from where it was.
<1>2. ASSUME NEW j \in Job, Dispatch(j),
             UNCHANGED <<fromWorker, answered, submitted>>,
             r \in front' => r \in front /\ r # j,
             r = accidentalMessage' => r = accidentalMessage /\ r # j,
             r = j => r \in front \/ r = accidentalMessage
      PROVE  OnePlace(r)'
  <2>1. PICK w \in known :
            /\ Given(r)' = IF r = j /\ link[w] = "up"
                           THEN Given(r) \cup {w} ELSE Given(r)
            /\ Solved(r)' = Solved(r)
    BY <1>0, <1>2, DispatchMoves
  <2>2. CASE r = j
    <3>1. Given(r) = {} /\ Solved(r) = {} /\ r \in submitted /\ r \notin answered
      BY <1>0, <1>2, <2>2 DEF OnePlace
    <3>2. Given(r)' \subseteq {w} /\ Solved(r)' = {}
      BY <2>1, <3>1
    <3>3. r \notin front' /\ r # accidentalMessage' /\ r \notin answered' /\ r \in submitted'
      BY <1>2, <2>2, <3>1
    <3> QED
      BY <3>2, <3>3 DEF OnePlace
  <2>3. CASE r # j
    BY <1>0, <1>2, <2>1, <2>3, PlaceKept
  <2> QED
    BY <2>2, <2>3
<1>3. CASE SendAccidental
  <2>1. /\ accidentalMessage \in Job
        /\ UNCHANGED <<fromWorker, front, answered, submitted>>
    BY <1>0, <1>3 DEF TypeOK, SendAccidental
  <2>2. CASE Dispatch(accidentalMessage) /\ accidentalMessage' = NoRequest
    <3>1. r = accidentalMessage => r \notin front
      BY <1>0 DEF OnePlace
    <3> QED
      BY <1>0, <1>2, <2>1, <2>2, <3>1
  <2>3. CASE Park(accidentalMessage)
    <3>1. Given(r)' = Given(r) /\ Solved(r)' = Solved(r)
      BY <2>1, <2>3, ParkMoves
    <3> QED
      BY <1>0, <2>1, <2>3, <3>1, PlaceKept DEF Park
  <2> QED
    BY <1>3, <2>2, <2>3 DEF SendAccidental
<1>4. ASSUME NEW j \in Job, SendReceived(j) PROVE OnePlace(r)'
  <2>1. UNCHANGED <<fromWorker, answered, submitted>>
    BY <1>4 DEF SendReceived
  <2>2. /\ r \in front' => r \in front /\ r # j
        /\ r = j => r \in front
    BY <1>0, <1>4 DEF SendReceived, ReceiveFront
  <2>3. CASE Dispatch(j) /\ UNCHANGED accidentalMessage
    <3>1. r = j => r # accidentalMessage
      BY <1>0, <2>2 DEF OnePlace
    <3> QED
      BY <1>2, <2>1, <2>2, <2>3, <3>1
  <2>4. CASE Park(j)
    <3>1. Given(r)' = Given(r) /\ Solved(r)' = Solved(r) /\ accidentalMessage' = j
      BY <2>1, <2>4, ParkMoves DEF Park
    <3>2. CASE r = j
      <4>1. /\ r \notin front' /\ r \notin answered' /\ r \in submitted'
            /\ Given(r)' = {} /\ Solved(r)' = {}
        BY <1>0, <2>1, <2>2, <3>1, <3>2 DEF OnePlace
      <4> QED
        BY <4>1 DEF OnePlace
    <3>3. CASE r # j
      BY <1>0, <2>1, <2>2, <3>1, <3>3, PlaceKept
    <3> QED
      BY <3>2, <3>3
  <2> QED
    BY <1>4, <2>3, <2>4 DEF SendReceived
<1> QED
  BY <1>1, <1>3, <1>4 DEF HandleFront, SendSide, SendNormal

LEMMA EndPlace ==
    ASSUME PlaceInv, TypeOK', Poll \/ Tick \/ Continue \/ Stop, NEW r \in Request
    PROVE  OnePlace(r)'
<1> USE DEF registry, queues, peers
<1>0. OnePlace(r) /\ TypeOK /\ r # NoRequest
  BY CreditParts, RequestAssumption DEF PlaceInv
<1>1. CASE Poll \/ Continue
  BY <1>0, <1>1 DEF Poll, Continue, OnePlace, Given, Solved
<1>2. CASE Tick
  <2>1. Given(r)' = Given(r) /\ Solved(r)' = Solved(r)
    BY <1>0, <1>2, TickMoves
  <2>2. UNCHANGED <<front, accidentalMessage, answered, submitted>>
    BY <1>2 DEF Tick
  <2> QED
    BY <1>0, <2>1, <2>2, PlaceKept
<1>3. CASE Stop
  <2>1. Given(r)' = Given(r) /\ Solved(r)' = {}
    BY <1>3, StopMoves
  <2>2. /\ r \notin front' /\ r # accidentalMessage'
        /\ answered' = answered /\ submitted' = submitted
    BY <1>0, <1>3 DEF Stop
  <2> QED
    BY <1>0, <2>1, <2>2, PlaceKept
<1> QED
  BY <1>1, <1>2, <1>3

LEMMA EnvironmentPlace ==
    ASSUME PlaceInv, TypeOK', Environment, NEW r \in Request
    PROVE  OnePlace(r)'
<1> USE DEF registry, queues, peers
<1>0. CreditInv /\ OnePlace(r)
  BY DEF PlaceInv
<1>1. CASE RequestShutdown
  BY <1>0, <1>1 DEF RequestShutdown, OnePlace, Given, Solved
<1>2. ASSUME NEW q \in Request, Submit(q) PROVE OnePlace(r)'
  <2>1. Given(r)' = Given(r) /\ Solved(r)' = Solved(r)
    BY <1>2 DEF Submit, Given, Solved
  <2>2. /\ q \notin submitted /\ submitted' = submitted \cup {q}
        /\ front' = front \cup {q} /\ UNCHANGED <<accidentalMessage, answered>>
    BY <1>2 DEF Submit
  <2>3. CASE q = r
    BY <1>0, <2>1, <2>2, <2>3 DEF OnePlace
  <2>4. CASE q # r
    BY <1>0, <2>1, <2>2, <2>4, PlaceKept
  <2> QED
    BY <2>3, <2>4
<1>3. ASSUME NEW w \in Worker, Join(w) \/ Answer(w) \/ Leave(w) \/ Resign(w)
      PROVE  OnePlace(r)'
  <2>1. UNCHANGED <<front, accidentalMessage, answered, submitted>>
    BY <1>3 DEF Join, Answer, Leave, Resign, WorkerTurn
  <2>2. CASE Join(w)
    BY <1>0, <2>1, <2>2, JoinMoves, PlaceKept
  <2>3. CASE Answer(w)
    <3>1. CASE Given(r)' = Given(r) /\ Solved(r)' = Solved(r)
      BY <1>0, <2>1, <3>1, PlaceKept
    <3>2. CASE /\ w \in Given(r)
               /\ Given(r)' = Given(r) \ {w}
               /\ Solved(r)' = IF pc = "done" THEN Solved(r) ELSE Solved(r) \cup {w}
      <4>1. Given(r)' = {} /\ Solved(r)' \subseteq {w}
        BY <1>0, <3>2 DEF OnePlace
      <4>2. /\ r \notin front' /\ r # accidentalMessage' /\ r \notin answered'
            /\ r \in submitted'
        BY <1>0, <2>1, <3>2 DEF OnePlace
      <4> QED
        BY <4>1, <4>2 DEF OnePlace
    <3> QED
      BY <1>0, <2>3, <3>1, <3>2, AnswerMoves
  <2>4. CASE Leave(w) \/ Resign(w)
    <3>1. Given(r)' \subseteq Given(r) /\ Solved(r)' \subseteq Solved(r)
      BY <1>0, <2>4, GoneMoves
    <3> QED
      BY <1>0, <2>1, <3>1, PlaceKept
  <2> QED
    BY <1>3, <2>2, <2>3, <2>4
<1> QED
  BY <1>1, <1>2, <1>3 DEF Environment

LEMMA PlaceStep == PlaceInv /\ [Next]_vars => PlaceInv'
<1> SUFFICES ASSUME PlaceInv, [Next]_vars PROVE PlaceInv'
  OBVIOUS
<1>1. CreditInv' /\ TypeOK'
  BY CreditStep, CreditParts, TypeStep DEF PlaceInv
<1>2. ASSUME NEW r \in Request PROVE OnePlace(r)'
  <2>1. CASE UNCHANGED vars
    BY <2>1 DEF PlaceInv, vars, registry, queues, peers, OnePlace, Given, Solved
  <2> QED
    BY <1>1, <2>1, BackPlace, FrontPlace, EndPlace, EnvironmentPlace
       DEF Next, DispatcherStep
<1> QED
  BY <1>1, <1>2 DEF PlaceInv

LEMMA OnePlaceCounts ==
    ASSUME NEW r \in Request, OnePlace(r)
    PROVE  PlacesOf(r) <= 1
<1>1. ASSUME NEW S, \A v, w \in S : v = w
      PROVE  /\ Cardinality(S) \in {0, 1}
             /\ S # {} <=> Cardinality(S) = 1
  <2>1. CASE S = {}
    BY <2>1, FS_EmptySet
  <2>2. CASE S # {}
    <3>1. PICK w : S = {w}
      BY <1>1, <2>2
    <3> QED
      BY <3>1, FS_Singleton
  <2> QED
    BY <2>1, <2>2
<1>2. /\ \A v, w \in Given(r) : v = w
      /\ \A v, w \in Solved(r) : v = w
  BY DEF OnePlace
<1>3. /\ Cardinality(Given(r)) \in {0, 1}
      /\ Given(r) # {} <=> Cardinality(Given(r)) = 1
  BY <1>1, <1>2
<1>4. /\ Cardinality(Solved(r)) \in {0, 1}
      /\ Solved(r) # {} <=> Cardinality(Solved(r)) = 1
  BY <1>1, <1>2
<1> QED
  BY <1>3, <1>4 DEF OnePlace, PlacesOf

\* A request is to be read, or parked, or with one worker, or on its way back,
\* or answered, and never in two of these places: no request is evaluated by
\* two workers and none is answered twice, for every number of both.
THEOREM PlaceCorrect == Spec => []RequestNowhereTwice
<1>1. PlaceInv => RequestNowhereTwice
  BY OnePlaceCounts DEF PlaceInv, RequestNowhereTwice
<1> QED
  BY <1>1, PlaceInit, PlaceStep, PTL DEF Spec

-----------------------------------------------------------------------------
(* Dispatcher implements Broker.                                           *)

\* The inductive invariant of the model.
THEOREM InvariantCorrect == Spec => []RequestInv
<1>1. WakeupInv /\ HeartInv /\ PlaceInv => RequestInv
  <2> SUFFICES ASSUME WakeupInv, HeartInv, PlaceInv PROVE RequestInv
    OBVIOUS
  <2>1. \A w \in known : w \in Worker
    BY DEF WakeupInv, TypeOK
  <2>2. NoHeartbeatYet /\ HeartbeatDebt
    BY <2>1 DEF HeartInv, NoHeartbeatYet, HeartbeatDebt, HeartOf, Debt, Ready
  <2> QED
    BY <2>2 DEF RequestInv, PlaceInv
<1> QED
  BY <1>1, WakeupInit, WakeupStep, HeartInit, HeartStep, PlaceInit, PlaceStep, PTL
     DEF Spec

\* What the place of a request says about it.
PlaceIs(r) ==
    /\ PlaceOf(r) = "unsent" <=> r \notin submitted
    /\ PlaceOf(r) = "answered" <=> r \in answered
    /\ PlaceOf(r) = "queued" <=> r \in front \/ r = accidentalMessage
    /\ \A w \in Worker : PlaceOf(r) = w <=> w \in Given(r) \cup Solved(r)
    /\ PlaceOf(r) \in {"unsent", "queued", "answered", "lost"} \cup Worker

LEMMA PlaceSaid == \A r \in Request : OnePlace(r) => PlaceIs(r)
<1> SUFFICES ASSUME NEW r \in Request, OnePlace(r) PROVE PlaceIs(r)
  OBVIOUS
<1> DEFINE H == Given(r) \cup Solved(r)
<1>1. H \subseteq Worker /\ Worker \cap {"unsent", "queued", "answered", "lost"} = {}
  BY HoldersAreWorkers, WorkerAssumption
<1>2. CASE H = {}
  <2>1. PlaceOf(r) = IF r \notin submitted THEN "unsent"
                     ELSE IF r \in answered THEN "answered"
                     ELSE IF r \in front \/ r = accidentalMessage THEN "queued"
                     ELSE "lost"
    BY <1>2 DEF PlaceOf
  <2>2. /\ r \in answered => r \in submitted
        /\ r \in front \/ r = accidentalMessage => r \in submitted /\ r \notin answered
    BY DEF OnePlace
  <2> QED
    BY <1>1, <1>2, <2>1, <2>2 DEF PlaceIs
<1>3. CASE H # {}
  <2>1. PICK w \in Worker : H = {w}
    BY <1>1, <1>3 DEF OnePlace
  <2>2. /\ r \in submitted /\ r \notin answered /\ r \notin front
        /\ r # accidentalMessage
    BY <1>3 DEF OnePlace
  <2>3. PlaceOf(r) = CHOOSE x \in H : TRUE
    BY <1>3, <2>2 DEF PlaceOf
  <2>4. PlaceOf(r) = w
    BY <2>1, <2>3
  <2> QED
    BY <1>1, <2>1, <2>2, <2>4 DEF PlaceIs
<1> QED
  BY <1>2, <1>3

LEMMA NextPlaceSaid == (\A r \in Request : OnePlace(r) => PlaceIs(r))'
BY PlaceSaid, PTL

\* A step the clients do not see.
LEMMA SamePlace ==
    ASSUME NEW r, (Given(r) \cup Solved(r))' = Given(r) \cup Solved(r),
           (r \in front \/ r = accidentalMessage)'
               <=> (r \in front \/ r = accidentalMessage),
           r \in answered' <=> r \in answered,
           r \in submitted' <=> r \in submitted
    PROVE  PlaceOf(r)' = PlaceOf(r)
<1> DEFINE In(H) == CHOOSE w \in H : TRUE
<1>1. PlaceOf(r) = IF r \notin submitted THEN "unsent"
                   ELSE IF r \in answered THEN "answered"
                   ELSE IF r \in front \/ r = accidentalMessage THEN "queued"
                   ELSE IF Given(r) \cup Solved(r) # {}
                        THEN In(Given(r) \cup Solved(r))
                   ELSE "lost"
  BY DEF PlaceOf
<1>2. PlaceOf(r)' = IF r \notin submitted' THEN "unsent"
                    ELSE IF r \in answered' THEN "answered"
                    ELSE IF (r \in front \/ r = accidentalMessage)' THEN "queued"
                    ELSE IF (Given(r) \cup Solved(r))' # {}
                         THEN In((Given(r) \cup Solved(r))')
                    ELSE "lost"
  BY DEF PlaceOf
<1> HIDE DEF In
<1> QED
  BY <1>1, <1>2

LEMMA Stutter ==
    ASSUME \A r \in Request : PlaceOf(r)' = PlaceOf(r),
           \A w \in Worker : link'[w] = "gone" <=> link[w] = "gone",
           pc' = "done" <=> pc = "done"
    PROVE  UNCHANGED Abstract!vars
<1>1. [r \in Request |-> PlaceOf(r)]' = [r \in Request |-> PlaceOf(r)]
  OBVIOUS
<1>2. {w \in Worker : link[w] = "gone"}' = {w \in Worker : link[w] = "gone"}
  OBVIOUS
<1>3. (pc # "done")' = (pc # "done")
  OBVIOUS
<1> QED
  BY <1>1, <1>2, <1>3 DEF Abstract!vars

LEMMA OneMoves ==
    ASSUME NEW r \in Request, \A q \in Request \ {r} : PlaceOf(q)' = PlaceOf(q),
           NEW x, PlaceOf(r)' = x
    PROVE  [q \in Request |-> PlaceOf(q)]' =
               [[q \in Request |-> PlaceOf(q)] EXCEPT ![r] = x]
OBVIOUS

LEMMA BrokerInit == Init => Abstract!Init
<1> SUFFICES ASSUME Init PROVE Abstract!Init
  OBVIOUS
<1>1. \A r \in Request : PlaceOf(r) = "unsent"
  BY DEF Init, PlaceOf
<1>2. {w \in Worker : link[w] = "gone"} = {}
  BY DEF Init
<1>3. (pc # "done") = TRUE
  BY DEF Init
<1> QED
  BY <1>1, <1>2, <1>3 DEF Abstract!Init

LEMMA BackBroker ==
    ASSUME RequestInv, RequestInv', HandleBack
    PROVE  [Abstract!Next]_Abstract!vars
<1> USE DEF registry, queues, peers
<1>0. /\ CreditInv /\ CreditInv' /\ TypeOK'
      /\ \A q \in Request : PlaceIs(q) /\ PlaceIs(q)'
  BY CreditParts, PlaceSaid, NextPlaceSaid DEF RequestInv, CreditInv
<1>1. pc = "back" /\ pc' = "front" /\ UNCHANGED <<link, submitted, front, accidentalMessage>>
  BY DEF HandleBack, NoBackMessage, HandleReady, HandleDeath, HandlePong,
         HandleReply, Receive, PushReady
<1>2. CASE NoBackMessage
  <2>1. \A q \in Request : PlaceOf(q)' = PlaceOf(q)
    BY <1>2 DEF NoBackMessage, PlaceOf, Given, Solved
  <2> QED
    BY <1>1, <2>1, Stutter
<1>3. ASSUME NEW w \in Worker, HandleReady(w) \/ HandleDeath(w) \/ HandlePong(w)
      PROVE  UNCHANGED Abstract!vars
  <2>1. PICK k \in {"READY", "DEATH", "PONG"} : Receive(w, Notice(k))
    BY <1>3 DEF HandleReady, HandleDeath, HandlePong
  <2>2. answered' = answered
    BY <1>3 DEF HandleReady, HandleDeath, HandlePong
  <2>3. ASSUME NEW q \in Request PROVE PlaceOf(q)' = PlaceOf(q)
    <3>1. Given(q)' = Given(q) /\ Solved(q)' = Solved(q)
      BY <1>0, <2>1, ReceiveMoves, Messages DEF Job
    <3> QED
      BY <1>1, <2>2, <3>1, SamePlace
  <2> QED
    BY <1>1, <2>3, Stutter
<1>4. ASSUME NEW w \in Worker, NEW j \in Job, HandleReply(w, j)
      PROVE  [Abstract!Next]_Abstract!vars
  <2>1. /\ Receive(w, Reply(j)) /\ Reply(j) \in FromWorkerMsg
        /\ answered' = answered \cup ({j} \cap Request)
    BY <1>4, Messages DEF HandleReply
  <2>2. ASSUME NEW q \in Request
        PROVE  /\ Given(q)' = Given(q)
               /\ Solved(q)' = IF j = q THEN Solved(q) \ {w} ELSE Solved(q)
               /\ j = q => w \in Solved(q)
    BY <1>0, <2>1, ReceiveMoves, Messages DEF Job
  <2>3. ASSUME NEW q \in Request, q # j PROVE PlaceOf(q)' = PlaceOf(q)
    BY <1>1, <2>1, <2>2, <2>3, SamePlace
  <2>4. CASE j \in Request
    <3>1. PlaceOf(j) = w /\ PlaceOf(j)' = "answered"
      BY <1>0, <2>1, <2>2, <2>4 DEF PlaceIs
    <3>2. [q \in Request |-> PlaceOf(q)]' =
              [[q \in Request |-> PlaceOf(q)] EXCEPT ![j] = "answered"]
      BY <2>3, <2>4, <3>1, OneMoves
    <3>3. Abstract!Answer(j)
      BY <1>1, <2>4, <3>1, <3>2 DEF Abstract!Answer
    <3> QED
      BY <2>4, <3>3 DEF Abstract!Next
  <2>5. CASE j \notin Request
    BY <1>1, <2>3, <2>5, Stutter
  <2> QED
    BY <2>4, <2>5
<1> QED
  BY <1>2, <1>3, <1>4 DEF HandleBack

LEMMA FrontBroker ==
    ASSUME RequestInv, RequestInv', HandleFront
    PROVE  [Abstract!Next]_Abstract!vars
<1> USE DEF registry, queues, peers
<1>0. /\ CreditInv /\ CreditInv' /\ TypeOK /\ TypeOK'
      /\ (\A v \in Worker : CreditOf(v)) /\ known \subseteq Worker
      /\ \A q \in Request : PlaceIs(q) /\ PlaceIs(q)' /\ OnePlace(q)
      /\ \A q \in Request : q # NoRequest
  BY CreditParts, PlaceSaid, NextPlaceSaid, RequestAssumption
     DEF RequestInv, CreditInv, TypeOK
<1>1. pc # "done" /\ pc' # "done" /\ UNCHANGED <<link, submitted, answered, fromWorker>>
  BY DEF HandleFront, SkipFront, SendAccidental, SendSide, SendNormal, SendReceived
<1>2. CASE SkipFront
  <2>1. \A q \in Request : PlaceOf(q)' = PlaceOf(q)
    BY <1>2 DEF SkipFront, PlaceOf, Given, Solved
  <2> QED
    BY <1>1, <2>1, Stutter
\* Worker w is sent j, which was waiting.
<1>3. ASSUME NEW j \in Job, Dispatch(j),
             j \in Request => (j \in front \/ j = accidentalMessage),
             \A q \in Request :
                 (q \in front \/ q = accidentalMessage)'
                     <=> (q \in front \/ q = accidentalMessage) /\ q # j
      PROVE  [Abstract!Next]_Abstract!vars
  <2>1. PICK w \in known :
            /\ \A q \in Request : w \notin Given(q) \cup Solved(q)
            /\ \A r \in Request :
                   /\ Given(r)' = IF r = j /\ link[w] = "up"
                                  THEN Given(r) \cup {w} ELSE Given(r)
                   /\ Solved(r)' = Solved(r)
    BY <1>0, <1>1, <1>3, DispatchMoves
  <2>2. ASSUME NEW q \in Request, q # j PROVE PlaceOf(q)' = PlaceOf(q)
    <3>1. Given(q)' = Given(q) /\ Solved(q)' = Solved(q)
      BY <2>1, <2>2
    <3> QED
      BY <1>1, <1>3, <2>2, <3>1, SamePlace
  <2>3. CASE j \in Request
    <3>1. /\ PlaceOf(j) = "queued" /\ j \in submitted /\ j \notin answered
          /\ Given(j) = {} /\ Solved(j) = {}
      BY <1>0, <1>3, <2>3 DEF PlaceIs, OnePlace
    <3>2. link[w] # "up" => link[w] = "gone"
      BY <1>0 DEF TypeOK, CreditOf
    <3>3. PlaceOf(j)' = IF link[w] = "gone" THEN "lost" ELSE w
      <4>1. CASE link[w] = "up"
        <5>1. w \in (Given(j) \cup Solved(j))'
          BY <2>1, <2>3, <4>1
        <5> QED
          BY <1>0, <2>3, <4>1, <5>1 DEF PlaceIs
      <4>2. CASE link[w] # "up"
        <5>1. (Given(j) \cup Solved(j))' = {}
          BY <2>1, <2>3, <3>1, <4>2
        <5>2. ~(j \in front \/ j = accidentalMessage)' /\ j \in submitted' /\ j \notin answered'
          BY <1>1, <1>3, <2>3, <3>1
        <5> QED
          BY <3>2, <4>2, <5>1, <5>2 DEF PlaceOf
      <4> QED
        BY <4>1, <4>2
    <3>4. [q \in Request |-> PlaceOf(q)]' =
              [[q \in Request |-> PlaceOf(q)] EXCEPT
                   ![j] = IF link[w] = "gone" THEN "lost" ELSE w]
      BY <2>2, <2>3, <3>3, OneMoves
    <3>5. \A q \in Request : PlaceOf(q) # w
      BY <1>0, <2>1 DEF PlaceIs
    <3>6. w \in {v \in Worker : link[v] = "gone"} <=> link[w] = "gone"
      BY <1>0
    <3>7. Abstract!Assign(j, w)
      BY <1>1, <2>3, <3>1, <3>4, <3>5, <3>6 DEF Abstract!Assign
    <3> QED
      BY <1>0, <2>3, <3>7 DEF Abstract!Next
  <2>4. CASE j \notin Request
    BY <1>1, <2>2, <2>4, Stutter
  <2> QED
    BY <2>3, <2>4
\* j waits as before.
<1>4. ASSUME NEW j \in Job, Park(j),
             \A q \in Request :
                 (q \in front \/ q = accidentalMessage)'
                     <=> (q \in front \/ q = accidentalMessage)
      PROVE  [Abstract!Next]_Abstract!vars
  <2>1. ASSUME NEW q \in Request PROVE PlaceOf(q)' = PlaceOf(q)
    <3>1. Given(q)' = Given(q) /\ Solved(q)' = Solved(q)
      BY <1>1, <1>4, ParkMoves
    <3> QED
      BY <1>1, <1>4, <3>1, SamePlace
  <2> QED
    BY <1>1, <2>1, Stutter
<1>5. CASE SendAccidental
  <2>1. accidentalMessage \in Job /\ front' = front
    BY <1>0, <1>5 DEF TypeOK, SendAccidental
  <2>2. \A q \in Request : q = accidentalMessage => q \notin front
    BY <1>0 DEF OnePlace
  <2>3. CASE Dispatch(accidentalMessage) /\ accidentalMessage' = NoRequest
    <3>1. \A q \in Request :
              (q \in front \/ q = accidentalMessage)'
                  <=> (q \in front \/ q = accidentalMessage) /\ q # accidentalMessage
      BY <1>0, <2>1, <2>2, <2>3
    <3> QED
      BY <1>3, <2>1, <2>3, <3>1
  <2>4. CASE Park(accidentalMessage)
    <3>1. accidentalMessage' = accidentalMessage
      BY <2>4 DEF Park
    <3> QED
      BY <1>4, <2>1, <2>4, <3>1
  <2> QED
    BY <1>5, <2>3, <2>4 DEF SendAccidental
<1>6. ASSUME NEW j \in Job, SendReceived(j), accidentalMessage = NoRequest
      PROVE  [Abstract!Next]_Abstract!vars
  <2>1. /\ j \in Request => j \in front
        /\ \A q \in Request : q \in front' <=> q \in front /\ q # j
    <3>1. front \subseteq Request /\ Phantom \notin Request
      BY <1>0, RequestAssumption DEF TypeOK
    <3> QED
      BY <1>6, <3>1 DEF SendReceived, ReceiveFront
  <2>2. CASE Dispatch(j) /\ UNCHANGED accidentalMessage
    <3>1. \A q \in Request :
              (q \in front \/ q = accidentalMessage)'
                  <=> (q \in front \/ q = accidentalMessage) /\ q # j
      BY <1>0, <1>6, <2>1, <2>2
    <3> QED
      BY <1>3, <2>1, <2>2, <3>1
  <2>3. CASE Park(j)
    <3>1. accidentalMessage' = j
      BY <2>3 DEF Park
    <3>2. \A q \in Request :
              (q \in front \/ q = accidentalMessage)'
                  <=> (q \in front \/ q = accidentalMessage)
      BY <1>0, <1>6, <2>1, <3>1
    <3> QED
      BY <1>4, <2>3, <3>2
  <2> QED
    BY <1>6, <2>2, <2>3 DEF SendReceived
<1>7. SendSide \/ SendNormal => accidentalMessage = NoRequest
  BY DEF SendSide, SendNormal, RequestInv, WakeupInv, SideRequestHasEvent
<1> QED
  BY <1>2, <1>5, <1>6, <1>7 DEF HandleFront, SendSide, SendNormal

LEMMA EndBroker ==
    ASSUME RequestInv, RequestInv', Poll \/ Tick \/ Continue \/ Stop
    PROVE  [Abstract!Next]_Abstract!vars
<1> USE DEF registry, queues, peers
<1>0. /\ CreditInv /\ TypeOK /\ TypeOK' /\ (\A v \in Worker : CreditOf(v))
      /\ \A q \in Request : PlaceIs(q) /\ PlaceIs(q)' /\ OnePlace(q)
      /\ \A q \in Request : q # NoRequest
  BY CreditParts, PlaceSaid, NextPlaceSaid, RequestAssumption
     DEF RequestInv, CreditInv
<1>1. CASE Poll \/ Continue
  <2>1. \A q \in Request : PlaceOf(q)' = PlaceOf(q)
    <3>1. UNCHANGED <<front, accidentalMessage, answered, submitted, toWorker, fromWorker>>
      BY <1>1 DEF Poll, Continue
    <3> QED
      BY <3>1, SamePlace DEF Given, Solved
  <2>2. pc # "done" /\ pc' # "done" /\ link' = link
    BY <1>1 DEF Poll, Continue
  <2> QED
    BY <2>1, <2>2, Stutter
<1>2. CASE Tick
  <2>1. /\ pc # "done" /\ pc' # "done"
        /\ UNCHANGED <<link, front, accidentalMessage, answered, submitted>>
    BY <1>2 DEF Tick
  <2>2. ASSUME NEW q \in Request PROVE PlaceOf(q)' = PlaceOf(q)
    <3>1. Given(q)' = Given(q) /\ Solved(q)' = Solved(q)
      BY <1>0, <1>2, TickMoves
    <3> QED
      BY <2>1, <3>1, SamePlace
  <2> QED
    BY <2>1, <2>2, Stutter
\* The workers that are at a request go on with it.
<1>3. CASE Stop
  <2>1. /\ pc # "done" /\ pc' = "done" /\ front' = {}
        /\ accidentalMessage' = NoRequest
        /\ UNCHANGED <<link, answered, submitted>>
    BY <1>3 DEF Stop
  <2> DEFINE kept == {w \in Worker : \E q \in Request : w \in Given(q)}
  <2>2. ASSUME NEW r \in Request
        PROVE  PlaceOf(r)' = IF PlaceOf(r) \in {"queued"} \cup (Worker \ kept)
                             THEN "lost" ELSE PlaceOf(r)
    <3>1. Given(r)' = Given(r) /\ Solved(r)' = {}
      BY <1>3, StopMoves
    <3>2. ~(r \in front \/ r = accidentalMessage)'
      BY <1>0, <2>1
    <3>3. PlaceOf(r)' = IF r \notin submitted THEN "unsent"
                        ELSE IF r \in answered THEN "answered"
                        ELSE IF Given(r) # {} THEN PlaceOf(r)'
                        ELSE "lost"
      BY <2>1, <3>1, <3>2 DEF PlaceOf
    <3>4. CASE r \notin submitted \/ r \in answered
      BY <1>0, <3>3, <3>4, WorkerAssumption DEF PlaceIs
    <3>5. CASE r \in front \/ r = accidentalMessage
      BY <1>0, <3>3, <3>5 DEF PlaceIs, OnePlace
    <3>6. ASSUME NEW w \in Given(r) PROVE PlaceOf(r)' = w /\ PlaceOf(r) = w /\ w \in kept
      <4>1. w \in Worker
        BY HoldersAreWorkers
      <4> QED
        BY <1>0, <3>1, <4>1 DEF PlaceIs
    <3>7. CASE Given(r) # {}
      <4>1. PICK w \in Given(r) : TRUE
        BY <3>7
      <4>2. PlaceOf(r) = w /\ w \in Worker /\ w \in kept /\ PlaceOf(r)' = w
        BY <3>6, <4>1, HoldersAreWorkers
      <4>3. w # "queued"
        BY <4>2, WorkerAssumption
      <4> QED
        BY <4>2, <4>3
    <3>8. ASSUME NEW w \in Solved(r) PROVE PlaceOf(r) = w /\ w \in Worker \ kept
      <4>1. w \in Worker /\ PlaceOf(r) = w
        BY <1>0, HoldersAreWorkers DEF PlaceIs
      <4>2. \A q \in Request : w \notin Given(q)
        <5> SUFFICES ASSUME NEW q \in Request, w \in Given(q) PROVE FALSE
          OBVIOUS
        <5>1. /\ Count(toWorker[w], Orders) = 1
              /\ Count(toWorker[w], Orders) = 0
          BY <1>0, <4>1, HolderIsBusy DEF Job
        <5> QED
          BY <5>1
      <4> QED
        BY <4>1, <4>2
    <3>9. CASE /\ r \in submitted /\ r \notin answered
               /\ ~(r \in front \/ r = accidentalMessage) /\ Given(r) = {}
      <4>1. PlaceOf(r)' = "lost"
        BY <3>3, <3>9
      <4>2. CASE Solved(r) = {}
        <5>1. PlaceOf(r) = "lost"
          BY <3>9, <4>2 DEF PlaceOf
        <5> QED
          BY <4>1, <5>1
      <4>3. CASE Solved(r) # {}
        BY <3>8, <4>1, <4>3
      <4> QED
        BY <4>2, <4>3
    <3> QED
      BY <3>4, <3>5, <3>7, <3>9
  <2>3. kept \in SUBSET Worker
    OBVIOUS
  <2> HIDE DEF kept
  <2>4. [q \in Request |-> PlaceOf(q)]' =
            [r \in Request |->
                IF [q \in Request |-> PlaceOf(q)][r] \in {"queued"} \cup (Worker \ kept)
                THEN "lost" ELSE [q \in Request |-> PlaceOf(q)][r]]
    BY <2>2
  <2>5. Abstract!Close
    BY <2>1, <2>3, <2>4 DEF Abstract!Close
  <2> QED
    BY <2>5 DEF Abstract!Next
<1> QED
  BY <1>1, <1>2, <1>3

LEMMA EnvironmentBroker ==
    ASSUME RequestInv, RequestInv', Environment
    PROVE  [Abstract!Next]_Abstract!vars
<1> USE DEF registry, queues, peers
<1>0. /\ CreditInv /\ TypeOK /\ TypeOK' /\ (\A v \in Worker : CreditOf(v))
      /\ \A q \in Request : PlaceIs(q) /\ PlaceIs(q)' /\ OnePlace(q)
  BY CreditParts, PlaceSaid, NextPlaceSaid DEF RequestInv, CreditInv
<1>1. CASE RequestShutdown
  <2>1. \A q \in Request : PlaceOf(q)' = PlaceOf(q)
    BY <1>1 DEF RequestShutdown, PlaceOf, Given, Solved
  <2>2. pc' = pc /\ link' = link
    BY <1>1 DEF RequestShutdown
  <2> QED
    BY <2>1, <2>2, Stutter
<1>2. ASSUME NEW r \in Request, Submit(r) PROVE [Abstract!Next]_Abstract!vars
  <2>1. /\ r \notin submitted /\ submitted' = submitted \cup {r}
        /\ front' = front \cup {r} /\ pc # "done"
        /\ UNCHANGED <<link, pc, accidentalMessage, answered, toWorker, fromWorker>>
    BY <1>2 DEF Submit
  <2>2. \A q \in Request \ {r} : PlaceOf(q)' = PlaceOf(q)
    BY <2>1, SamePlace DEF Given, Solved
  <2>3. PlaceOf(r) = "unsent" /\ PlaceOf(r)' = "queued"
    BY <1>0, <2>1 DEF PlaceIs
  <2>4. [q \in Request |-> PlaceOf(q)]' =
            [[q \in Request |-> PlaceOf(q)] EXCEPT ![r] = "queued"]
    BY <2>2, <2>3, OneMoves
  <2>5. Abstract!Submit(r)
    BY <2>1, <2>3, <2>4 DEF Abstract!Submit
  <2> QED
    BY <2>5 DEF Abstract!Next
<1>3. ASSUME NEW w \in Worker, Join(w) \/ Answer(w) \/ Leave(w) \/ Resign(w)
      PROVE  UNCHANGED <<pc, front, accidentalMessage, answered, submitted>>
  BY <1>3 DEF Join, Answer, Leave, Resign, WorkerTurn
<1>4. ASSUME NEW w \in Worker, Join(w) PROVE [Abstract!Next]_Abstract!vars
  <2>1. UNCHANGED <<pc, front, accidentalMessage, answered, submitted>>
    BY <1>3, <1>4
  <2>2. ASSUME NEW q \in Request PROVE PlaceOf(q)' = PlaceOf(q)
    <3>1. Given(q)' = Given(q) /\ Solved(q)' = Solved(q)
      BY <1>0, <1>4, JoinMoves
    <3> QED
      BY <2>1, <3>1, SamePlace
  <2>3. link' = [link EXCEPT ![w] = "up"] /\ link[w] = "new"
    BY <1>4 DEF Join, WorkerTurn
  <2>4. \A v \in Worker : link'[v] = "gone" <=> link[v] = "gone"
    BY <1>0, <2>3 DEF TypeOK
  <2> QED
    BY <2>1, <2>2, <2>4, Stutter
<1>5. ASSUME NEW w \in Worker, Answer(w) PROVE [Abstract!Next]_Abstract!vars
  <2>1. UNCHANGED <<pc, front, accidentalMessage, answered, submitted>>
    BY <1>3, <1>5
  <2>2. \A v \in Worker : link'[v] = "gone" <=> link[v] = "gone"
    <3>1. link' = [link EXCEPT ![w] = "up"] /\ link[w] = "up"
      BY <1>5 DEF Answer, WorkerTurn
    <3> QED
      BY <1>0, <3>1 DEF TypeOK
  <2>3. ASSUME NEW q \in Request
        PROVE  \/ Given(q)' = Given(q) /\ Solved(q)' = Solved(q)
               \/ /\ w \in Given(q)
                  /\ Given(q)' = Given(q) \ {w}
                  /\ Solved(q)' = IF pc = "done" THEN Solved(q) ELSE Solved(q) \cup {w}
    BY <1>0, <1>5, AnswerMoves
  <2>4. CASE pc # "done"
    <3>1. ASSUME NEW q \in Request PROVE PlaceOf(q)' = PlaceOf(q)
      <4>1. (Given(q) \cup Solved(q))' = Given(q) \cup Solved(q)
        BY <2>3, <2>4
      <4> QED
        BY <2>1, <4>1, SamePlace
    <3> QED
      BY <2>1, <2>2, <3>1, Stutter
  <2>5. CASE pc = "done" /\ \A q \in Request : Given(q)' = Given(q) /\ Solved(q)' = Solved(q)
    <3>1. \A q \in Request : PlaceOf(q)' = PlaceOf(q)
      BY <2>1, <2>5, SamePlace
    <3> QED
      BY <2>1, <2>2, <3>1, Stutter
  <2>6. ASSUME pc = "done", NEW r \in Request, w \in Given(r),
               Given(r)' = Given(r) \ {w}, Solved(r)' = Solved(r)
        PROVE  Abstract!Drop(r)
    <3>1. ASSUME NEW q \in Request, q # r PROVE PlaceOf(q)' = PlaceOf(q)
      <4>1. w \notin Given(q)
        BY <1>0, <2>6, <3>1, HolderOfOne DEF Job
      <4>2. Given(q)' = Given(q) /\ Solved(q)' = Solved(q)
        BY <2>3, <4>1
      <4> QED
        BY <2>1, <4>2, SamePlace
    <3>2. PlaceOf(r) = w
      BY <1>0, <2>6 DEF PlaceIs
    <3>3. PlaceOf(r)' = "lost"
      <4>1. /\ Given(r) = {w} /\ Solved(r) = {} /\ r \in submitted
            /\ r \notin answered /\ ~(r \in front \/ r = accidentalMessage)
        BY <1>0, <2>6 DEF OnePlace
      <4>2. (Given(r) \cup Solved(r))' = {}
        BY <2>6, <4>1
      <4> QED
        BY <2>1, <4>1, <4>2 DEF PlaceOf
    <3>4. [q \in Request |-> PlaceOf(q)]' =
              [[q \in Request |-> PlaceOf(q)] EXCEPT ![r] = "lost"]
      BY <3>1, <3>3, OneMoves
    <3>5. {v \in Worker : link[v] = "gone"}' = {v \in Worker : link[v] = "gone"}
      BY <2>2
    <3> QED
      BY <2>1, <2>6, <3>2, <3>4, <3>5 DEF Abstract!Drop
  <2>7. CASE /\ pc = "done"
             /\ ~\A q \in Request : Given(q)' = Given(q) /\ Solved(q)' = Solved(q)
    <3>1. PICK r \in Request : ~(Given(r)' = Given(r) /\ Solved(r)' = Solved(r))
      BY <2>7
    <3>2. Abstract!Drop(r)
      BY <2>3, <2>6, <2>7, <3>1
    <3> QED
      BY <3>2 DEF Abstract!Next
  <2> QED
    BY <2>4, <2>5, <2>7
<1>6. ASSUME NEW w \in Worker, Leave(w) \/ Resign(w)
      PROVE  [Abstract!Next]_Abstract!vars
  <2>1. UNCHANGED <<pc, front, accidentalMessage, answered, submitted>>
    BY <1>3, <1>6
  <2>2. ASSUME NEW q \in Request
        PROVE  /\ link[w] = "up" /\ link' = [link EXCEPT ![w] = "gone"]
               /\ Given(q)' = Given(q) \ {w}
               /\ Solved(q) \ {w} \subseteq Solved(q)'
               /\ Solved(q)' \subseteq Solved(q)
    BY <1>0, <1>6, GoneMoves
  <2>3. /\ w \notin {v \in Worker : link[v] = "gone"}
        /\ {v \in Worker : link[v] = "gone"}' = {v \in Worker : link[v] = "gone"} \cup {w}
        /\ (pc # "done")' = (pc # "done")
    <3>1. link[w] = "up" /\ link' = [link EXCEPT ![w] = "gone"]
      BY <1>6 DEF Leave, Resign, WorkerTurn
    <3> QED
      BY <1>0, <2>1, <3>1 DEF TypeOK
  \* It held nothing, or the reply is still on its way.
  <2>4. ASSUME \A q \in Request :
                   (Given(q) \cup Solved(q))' = Given(q) \cup Solved(q)
        PROVE  Abstract!Leave(w)
    <3>1. \A q \in Request : PlaceOf(q)' = PlaceOf(q)
      BY <2>1, <2>4, SamePlace
    <3>2. [q \in Request |-> PlaceOf(q)]' = [q \in Request |-> PlaceOf(q)]
      BY <3>1
    <3> QED
      BY <2>3, <3>2 DEF Abstract!Leave
  <2>5. ASSUME NEW r \in Request, w \in Given(r) \cup Solved(r),
               w \notin Solved(r)'
        PROVE  Abstract!Leave(w)
    <3>1. ASSUME NEW q \in Request, q # r
          PROVE  PlaceOf(q)' = PlaceOf(q) /\ PlaceOf(q) # w
      <4>1. w \notin Given(q) \cup Solved(q)
        BY <1>0, <2>5, <3>1, HolderOfOne DEF Job
      <4>2. (Given(q) \cup Solved(q))' = Given(q) \cup Solved(q)
        BY <2>2, <4>1
      <4>3. PlaceOf(q) # w
        BY <1>0, <4>1 DEF PlaceIs
      <4> QED
        BY <2>1, <4>2, <4>3, SamePlace
    <3>2. PlaceOf(r) = w
      BY <1>0, <2>5 DEF PlaceIs
    <3>3. PlaceOf(r)' = "lost"
      <4>1. /\ Given(r) \cup Solved(r) = {w} /\ r \in submitted
            /\ r \notin answered /\ ~(r \in front \/ r = accidentalMessage)
        BY <1>0, <2>5 DEF OnePlace
      <4>2. (Given(r) \cup Solved(r))' = {}
        BY <2>2, <2>5, <4>1
      <4> QED
        BY <2>1, <4>1, <4>2 DEF PlaceOf
    <3>4. [q \in Request |-> PlaceOf(q)]' =
              [q \in Request |-> IF [p \in Request |-> PlaceOf(p)][q] = w
                                 THEN "lost" ELSE [p \in Request |-> PlaceOf(p)][q]]
      BY <3>1, <3>2, <3>3
    <3> QED
      BY <2>3, <3>4 DEF Abstract!Leave
  <2>6. (\A q \in Request : (Given(q) \cup Solved(q))' = Given(q) \cup Solved(q))
            \/ \E r \in Request : w \in Given(r) \cup Solved(r) /\ w \notin Solved(r)'
    <3> SUFFICES ASSUME \A r \in Request : w \in Given(r) \cup Solved(r) => w \in Solved(r)',
                        NEW q \in Request
                 PROVE  (Given(q) \cup Solved(q))' = Given(q) \cup Solved(q)
      OBVIOUS
    <3>1. w \in Given(q) \cup Solved(q) => w \in Solved(q)'
      OBVIOUS
    <3> QED
      BY <2>2, <3>1
  <2> QED
    BY <2>4, <2>5, <2>6 DEF Abstract!Next
<1> QED
  BY <1>1, <1>2, <1>4, <1>5, <1>6 DEF Environment

\* Every step of the dispatcher, of a client or of a worker is a step of
\* Broker or one the clients cannot see, for every number of requests and
\* workers: a request goes to one worker, is answered at most once, and is lost
\* only with its worker or with the dispatcher.
THEOREM BrokerImplemented == Spec => ImplementsBroker
<1>1. RequestInv /\ RequestInv' /\ [Next]_vars => [Abstract!Next]_Abstract!vars
  <2> SUFFICES ASSUME RequestInv, RequestInv', [Next]_vars
               PROVE  [Abstract!Next]_Abstract!vars
    OBVIOUS
  <2>1. CASE UNCHANGED vars
    <3>1. /\ \A r \in Request : PlaceOf(r)' = PlaceOf(r)
          /\ pc' = pc /\ link' = link
      BY <2>1 DEF vars, registry, queues, peers, PlaceOf, Given, Solved
    <3> QED
      BY <3>1, Stutter
  <2> QED
    BY <2>1, BackBroker, FrontBroker, EndBroker, EnvironmentBroker
       DEF Next, DispatcherStep
<1> QED
  BY <1>1, BrokerInit, InvariantCorrect, PTL
     DEF Spec, ImplementsBroker, Abstract!Spec

=============================================================================
