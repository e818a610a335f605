----------------------------- MODULE Dispatcher -----------------------------
(***************************************************************************)
(* The request dispatcher (service/source/dispatcher.cpp): one thread that *)
(* polls the worker socket `back` and the client socket `front`, keeps the *)
(* map of workers with their heartbeats and the queue of ready workers,    *)
(* and forwards requests and replies.                                      *)
(*                                                                         *)
(* One iteration of DispatcherContext::handleRequests is the sequence of   *)
(* steps poll, back, front (side), tick, so that clients and workers act   *)
(* between the zmq::poll and the code that uses its result.  The clients,  *)
(* the workers and their zmq sockets are the environment.                  *)
(*                                                                         *)
(* backInner is never bound or connected (line 55 binds `back` a second    *)
(* time), so its poll item is never ready and isInner is always FALSE:     *)
(* the branches on them are left out.                                      *)
(***************************************************************************)
EXTENDS Integers, Sequences, FiniteSets

CONSTANTS Request,     \* the requests clients submit, each one with its route
          Worker,      \* identities of worker sockets, never used twice
          LiveDefault, \* live_default: missed ticks before a worker is dropped
          Phantom,     \* the list {""} that receive() returns when it times out
          NoRequest    \* the empty list

ASSUME RequestAssumption ==
    /\ Phantom \notin Request
    /\ NoRequest \notin Request \cup {Phantom}

ASSUME LiveAssumption == LiveDefault \in Nat \ {0}

\* An identity is not one of the words Broker has for the place of a request.
ASSUME WorkerAssumption ==
    Worker \cap {"unsent", "queued", "answered", "lost"} = {}

VARIABLES
  (* DispatcherContext *)
  known,             \* the keys of `workers`
  liveliness,        \* DispatchWorker::liveliness, 0 for an unknown worker
  pendingHeartbeat,  \* DispatchWorker::pendingHeartbeat
  ready,             \* the queue of identities that wait for a request
  accidentalMessage, \* a request that was received but found no worker
  poll_front,
  (* handleRequests: where its thread is, and the revents of its poll items *)
  pc,
  backEvent,
  frontEvent,
  requestedShutdown,
  (* the sockets *)
  front,             \* requests to be read from `front`
  toWorker,          \* what `back` has sent and the worker has not yet read
  fromWorker,        \* what the worker has sent and `back` has not yet read
  (* the peers *)
  link,              \* a worker is "new", "up" or "gone"
  submitted,         \* requests that were sent by their client
  answered           \* requests whose reply was sent to their client

registry == <<known, liveliness, pendingHeartbeat>>
queues   == <<ready, accidentalMessage, poll_front>>
peers    == <<link, submitted, answered>>
vars == <<registry, queues, pc, backEvent, frontEvent, requestedShutdown,
          front, toWorker, fromWorker, peers>>

-----------------------------------------------------------------------------
Job == Request \cup {Phantom}

\* What the dispatcher sends to a worker, and what a worker sends back.  The
\* reply to a job carries the job's route, so the job names the reply.
Ping      == [kind |-> "PING", job |-> NoRequest]
Order(j)  == [kind |-> "JOB", job |-> j]
Notice(k) == [kind |-> k, job |-> NoRequest]
Reply(j)  == [kind |-> "REPLY", job |-> j]

ToWorkerMsg   == {Ping} \cup {Order(j) : j \in Job}
FromWorkerMsg == {Notice(k) : k \in {"READY", "DEATH", "PONG"}}
                     \cup {Reply(j) : j \in Job}

\* One type invariant for the variables of the dispatcher and its sockets.
TypeOK ==
    /\ known \subseteq Worker
    /\ liveliness \in [Worker -> 0 .. LiveDefault]
    /\ pendingHeartbeat \in [Worker -> BOOLEAN]
    /\ ready \in Seq(Worker)
    /\ accidentalMessage \in Job \cup {NoRequest}
    /\ poll_front \in BOOLEAN
    /\ pc \in {"poll", "back", "front", "side", "tick", "end", "done"}
    /\ backEvent \in BOOLEAN
    /\ frontEvent \in BOOLEAN
    /\ requestedShutdown \in BOOLEAN
    /\ front \subseteq Request
    /\ toWorker \in [Worker -> Seq(ToWorkerMsg)]
    /\ fromWorker \in [Worker -> Seq(FromWorkerMsg)]
    /\ link \in [Worker -> {"new", "up", "gone"}]
    /\ submitted \subseteq Request
    /\ answered \subseteq Request

Init ==
    /\ known = {}
    /\ liveliness = [w \in Worker |-> 0]
    /\ pendingHeartbeat = [w \in Worker |-> FALSE]
    /\ ready = <<>>
    /\ accidentalMessage = NoRequest
    /\ poll_front = FALSE
    /\ pc = "poll"
    /\ backEvent = FALSE
    /\ frontEvent = FALSE
    /\ requestedShutdown = FALSE
    /\ front = {}
    /\ toWorker = [w \in Worker |-> <<>>]
    /\ fromWorker = [w \in Worker |-> <<>>]
    /\ link = [w \in Worker |-> "new"]
    /\ submitted = {}
    /\ answered = {}

-----------------------------------------------------------------------------
(* zmq::poll.  It looks at the front item only when poll_front is set; the *)
(* item keeps the revents of an earlier poll when it is not looked at.     *)

\* Mutant of FrontEventAfterPoll: the item is cleared when it is not looked at.
FrontEventCleared == poll_front /\ front # {}
FrontEventAfterPoll == IF poll_front THEN front # {} ELSE frontEvent

Poll ==
    /\ pc = "poll"
    /\ backEvent' = (\E w \in Worker : fromWorker[w] # <<>>)
    /\ frontEvent' = FrontEventAfterPoll
    /\ pc' = "back"
    /\ UNCHANGED <<registry, queues, requestedShutdown, front, toWorker,
                   fromWorker, peers>>

-----------------------------------------------------------------------------
(* processMessage: one message from `back`.                                *)

NoBackMessage ==
    /\ pc = "back"
    /\ ~backEvent
    /\ pc' = "front"
    /\ UNCHANGED <<registry, queues, backEvent, frontEvent, requestedShutdown,
                   front, toWorker, fromWorker, peers>>

\* The message m at the head of what worker w has sent is read from `back`.
Receive(w, m) ==
    /\ pc = "back"
    /\ backEvent
    /\ fromWorker[w] # <<>>
    /\ m = Head(fromWorker[w])
    /\ fromWorker' = [fromWorker EXCEPT ![w] = Tail(@)]
    /\ pc' = "front"
    /\ UNCHANGED <<backEvent, frontEvent, requestedShutdown, front, toWorker,
                   link, submitted>>

\* ready.push(identity); poll_front = true
PushReady(w) ==
    /\ ready' = Append(ready, w)
    /\ poll_front' = TRUE
    /\ UNCHANGED accidentalMessage

HandleReady(w) ==
    /\ Receive(w, Notice("READY"))
    /\ IF w \in known
       THEN UNCHANGED <<registry, queues>>
       ELSE /\ known' = known \cup {w}
            /\ liveliness' = [liveliness EXCEPT ![w] = LiveDefault]
            /\ pendingHeartbeat' = [pendingHeartbeat EXCEPT ![w] = FALSE]
            /\ PushReady(w)
    /\ UNCHANGED answered

\* `delete it->second; workers.erase(it)` for every worker of S.  An erased
\* identity stays in the ready queue.
Erase(S) ==
    /\ known' = known \ S
    /\ liveliness' = [w \in Worker |-> IF w \in S THEN 0 ELSE liveliness[w]]
    /\ pendingHeartbeat' =
           [w \in Worker |-> w \notin S /\ pendingHeartbeat[w]]

HandleDeath(w) ==
    /\ Receive(w, Notice("DEATH"))
    /\ Erase({w})
    /\ UNCHANGED <<queues, answered>>

\* Mutant of PongReceived: the heartbeat stays pending.
PongStaysPending(w) ==
    /\ liveliness' = [liveliness EXCEPT ![w] = LiveDefault]
    /\ UNCHANGED pendingHeartbeat

PongReceived(w) ==
    /\ liveliness' = [liveliness EXCEPT ![w] = LiveDefault]
    /\ pendingHeartbeat' = [pendingHeartbeat EXCEPT ![w] = FALSE]

HandlePong(w) ==
    /\ Receive(w, Notice("PONG"))
    /\ IF w \in known
       THEN PongReceived(w)
       ELSE UNCHANGED <<liveliness, pendingHeartbeat>>
    /\ UNCHANGED <<known, queues, answered>>

\* A reply goes to the client its route names, the reply to a phantom has no
\* route and `front` drops it.  A worker that is no longer known gets no more
\* work.
HandleReply(w, j) ==
    /\ Receive(w, Reply(j))
    /\ answered' = answered \cup ({j} \cap Request)
    /\ IF w \in known THEN PushReady(w) ELSE UNCHANGED queues
    /\ UNCHANGED registry

HandleBack ==
    \/ NoBackMessage
    \/ \E w \in Worker :
           \/ HandleReady(w)
           \/ HandleDeath(w)
           \/ HandlePong(w)
           \/ \E j \in Job : HandleReply(w, j)

-----------------------------------------------------------------------------
(* sendRequest and the part of handleRequests that reads `front`.          *)

\* `back` silently drops what it sends to a peer that has left.
Send(w, m) == IF link[w] = "up" THEN Append(toWorker[w], m) ELSE toWorker[w]

\* The positions of the ready queue that hold a worker of the map.
Live == {i \in 1 .. Len(ready) : ready[i] \in known}

\* Mutant of Park: a request that found no worker is not kept.
ParkForgets(j) ==
    /\ Live = {}
    /\ ready' = <<>>
    /\ poll_front' = FALSE
    /\ UNCHANGED <<accidentalMessage, toWorker>>

\* No worker of the queue is known any more: the request is parked.
Park(j) ==
    /\ Live = {}
    /\ ready' = <<>>
    /\ poll_front' = FALSE
    /\ accidentalMessage' = j
    /\ UNCHANGED toWorker

\* Mutant of Dispatch: the worker that gets the request is not popped.
DispatchKeepsWorker(j) ==
    \E i \in Live :
        /\ \A k \in Live : i <= k
        /\ ready' = SubSeq(ready, i, Len(ready))
        /\ poll_front' = poll_front
        /\ toWorker' = [toWorker EXCEPT ![ready[i]] =
                            Send(ready[i], Order(j))]

\* The first known worker of the queue gets the request; the identities
\* before it are stale and are dropped.
Dispatch(j) ==
    \E i \in Live :
        /\ \A k \in Live : i <= k
        /\ ready' = SubSeq(ready, i + 1, Len(ready))
        /\ poll_front' = (poll_front /\ i < Len(ready))
        /\ toWorker' = [toWorker EXCEPT ![ready[i]] =
                            Send(ready[i], Order(j))]

\* A plain receive(*front), which does not fail when there is nothing to read.
ReceiveFront(j) ==
    \/ j \in front /\ front' = front \ {j}
    \/ front = {} /\ j = Phantom /\ UNCHANGED front

FrontIsReady == poll_front /\ ready # <<>> /\ frontEvent

SkipFront ==
    /\ pc = "front"
    /\ ~FrontIsReady
    /\ pc' = "tick"
    /\ UNCHANGED <<registry, queues, backEvent, frontEvent, requestedShutdown,
                   front, toWorker, fromWorker, peers>>

\* Mutant of SendAccidental: accidentalMessage.clear() is forgotten.
AccidentalNotCleared ==
    /\ pc = "front"
    /\ FrontIsReady
    /\ accidentalMessage # NoRequest
    /\ \/ /\ Dispatch(accidentalMessage)
          /\ UNCHANGED accidentalMessage
          /\ pc' = "side"
       \/ /\ Park(accidentalMessage)
          /\ pc' = "tick"
    /\ UNCHANGED <<registry, backEvent, frontEvent, requestedShutdown,
                   front, fromWorker, peers>>

\* There is a parked request: it goes first, and only when it finds a worker
\* is `front` read, for the "side request".
SendAccidental ==
    /\ pc = "front"
    /\ FrontIsReady
    /\ accidentalMessage # NoRequest
    /\ \/ /\ Dispatch(accidentalMessage)
          /\ accidentalMessage' = NoRequest
          /\ pc' = "side"
       \/ /\ Park(accidentalMessage)
          /\ pc' = "tick"
    /\ UNCHANGED <<registry, backEvent, frontEvent, requestedShutdown,
                   front, fromWorker, peers>>

\* receive(*front); sendRequest()
SendReceived(j) ==
    /\ ReceiveFront(j)
    /\ \/ Dispatch(j) /\ UNCHANGED accidentalMessage
       \/ Park(j)
    /\ pc' = "tick"
    /\ UNCHANGED <<registry, backEvent, frontEvent, requestedShutdown,
                   fromWorker, peers>>

SendSide ==
    /\ pc = "side"
    /\ \E j \in Job : SendReceived(j)

SendNormal ==
    /\ pc = "front"
    /\ FrontIsReady
    /\ accidentalMessage = NoRequest
    /\ \E j \in Job : SendReceived(j)

HandleFront == SkipFront \/ SendAccidental \/ SendSide \/ SendNormal

-----------------------------------------------------------------------------
(* The end of an iteration.                                                *)

\* Mutant of Expired: the life that is left is compared with the wrong number.
ExpiredAtMinusOne == {w \in known : liveliness[w] < 0}

\* One beat of doRegularProcess: a PING for each worker without one pending,
\* one life less for every worker, and the ones without a life are erased.
Expired == {w \in known : liveliness[w] <= 1}

\* Mutant of Beat: the life is taken only where a PING is sent.
BeatWithPing ==
    /\ known' = known \ (Expired \cap {w \in Worker : ~pendingHeartbeat[w]})
    /\ liveliness' = [w \in Worker |->
           IF w \in known /\ ~pendingHeartbeat[w]
           THEN liveliness[w] - 1 ELSE liveliness[w]]
    /\ pendingHeartbeat' = [w \in Worker |-> w \in known']
    /\ toWorker' = [w \in Worker |->
           IF w \in known /\ ~pendingHeartbeat[w]
           THEN Send(w, Ping) ELSE toWorker[w]]

Beat ==
    /\ known' = known \ Expired
    /\ liveliness' = [w \in Worker |->
           IF w \in known \ Expired THEN liveliness[w] - 1 ELSE 0]
    /\ pendingHeartbeat' = [w \in Worker |-> w \in known \ Expired]
    /\ toWorker' = [w \in Worker |->
           IF w \in known /\ ~pendingHeartbeat[w]
           THEN Send(w, Ping) ELSE toWorker[w]]

\* worker_poll ms have passed since the last beat.
Tick ==
    /\ pc = "tick"
    /\ Beat
    /\ pc' = "end"
    /\ UNCHANGED <<queues, backEvent, frontEvent, requestedShutdown, front,
                   fromWorker, peers>>

\* Straight from "tick" when they have not passed.
Continue ==
    /\ pc \in {"tick", "end"}
    /\ ~requestedShutdown
    /\ pc' = "poll"
    /\ UNCHANGED <<registry, queues, backEvent, frontEvent, requestedShutdown,
                   front, toWorker, fromWorker, peers>>

\* shutdown() frees the workers and leaves the loop, then Worker's onShutdown
\* deletes the context: the sockets close with everything unread in them.
Stop ==
    /\ pc \in {"tick", "end"}
    /\ requestedShutdown
    /\ Erase(known)
    /\ front' = {}
    /\ fromWorker' = [w \in Worker |-> <<>>]
    /\ ready' = <<>>
    /\ poll_front' = FALSE
    /\ accidentalMessage' = NoRequest
    /\ pc' = "done"
    /\ UNCHANGED <<backEvent, frontEvent, requestedShutdown, toWorker, peers>>

DispatcherStep == Poll \/ HandleBack \/ HandleFront \/ Tick \/ Continue \/ Stop

-----------------------------------------------------------------------------
(* The environment: clients, workers and whoever calls Dispatcher::shutdown.*)

Submit(r) ==
    /\ pc # "done"
    /\ r \notin submitted
    /\ submitted' = submitted \cup {r}
    /\ front' = front \cup {r}
    /\ UNCHANGED <<registry, queues, pc, backEvent, frontEvent,
                   requestedShutdown, toWorker, fromWorker, link, answered>>

\* The sockets of worker w change, the dispatcher and its clients do not.
WorkerTurn(w, status, to, from) ==
    /\ link' = [link EXCEPT ![w] = status]
    /\ toWorker' = [toWorker EXCEPT ![w] = to]
    /\ fromWorker' = [fromWorker EXCEPT ![w] = from]
    /\ UNCHANGED <<registry, queues, pc, backEvent, frontEvent,
                   requestedShutdown, front, submitted, answered>>

\* A worker connects and says READY, once in its life.
Join(w) ==
    /\ pc # "done"
    /\ link[w] = "new"
    /\ WorkerTurn(w, "up", <<>>, Append(fromWorker[w], Notice("READY")))

\* Nobody reads what is sent to a dispatcher that is gone.
Deliver(w, m) ==
    IF pc = "done" THEN fromWorker[w] ELSE Append(fromWorker[w], m)

\* A heartbeat is answered with PONG, anything else is evaluated and answered
\* with its route.
AnswerTo(m) == IF m = Ping THEN Notice("PONG") ELSE Reply(m.job)

Answer(w) ==
    /\ link[w] = "up"
    /\ toWorker[w] # <<>>
    /\ WorkerTurn(w, "up", Tail(toWorker[w]),
                  Deliver(w, AnswerTo(Head(toWorker[w]))))

\* The end of a worker, by its own liveliness, a crash or stopWork.  Nobody
\* tells the dispatcher.  What it had sent may be lost with its connection,
\* but a message that zmq::poll has reported is one that `back` already holds.
Leave(w) ==
    /\ link[w] = "up"
    /\ \E n \in 0 .. Len(fromWorker[w]) :
           WorkerTurn(w, "gone", <<>>, SubSeq(fromWorker[w], 1, n))
    /\ pc = "back" /\ backEvent =>
           \E v \in Worker : fromWorker'[v] # <<>>

\* A worker that answers a heartbeat with DEATH.  No worker of this repository
\* does, the dispatcher is written for one that would.
Resign(w) ==
    /\ link[w] = "up"
    /\ toWorker[w] # <<>>
    /\ Head(toWorker[w]) = Ping
    /\ WorkerTurn(w, "gone", <<>>, Deliver(w, Notice("DEATH")))

RequestShutdown ==
    /\ ~requestedShutdown
    /\ requestedShutdown' = TRUE
    /\ UNCHANGED <<registry, queues, pc, backEvent, frontEvent, front,
                   toWorker, fromWorker, peers>>

Environment ==
    \/ \E r \in Request : Submit(r)
    \/ \E w \in Worker : Join(w) \/ Answer(w) \/ Leave(w) \/ Resign(w)
    \/ RequestShutdown

Next == DispatcherStep \/ Environment

Spec == Init /\ [][Next]_vars

\* The thread never blocks (the polls and the receive have timeouts), `back`
\* is a ROUTER and reads its peers in turn, time passes, and a worker that is
\* up evaluates what it was sent.  Nobody has to submit, join or leave.
Fairness ==
    /\ WF_vars(DispatcherStep)
    /\ SF_vars(Tick)
    /\ \A w \in Worker :
           /\ WF_vars(Answer(w))
           /\ SF_vars(HandleReady(w) \/ HandleDeath(w) \/ HandlePong(w)
                         \/ \E j \in Job : HandleReply(w, j))

FairSpec == Spec /\ Fairness

-----------------------------------------------------------------------------
(* What the dispatcher keeps true at each of its steps.                    *)

\* How many elements of the sequence s are in the set T.
Count(s, T) == Cardinality({i \in DOMAIN s : s[i] \in T})

\* A parked request is sent only when poll_front is set, a worker is ready and
\* the front item has POLLIN, but while it is parked nobody polls that item.
\* What saves it is that the revents of the poll before it was parked stay
\* set (lines 270, 284-306).
ParkedRequestHasWakeup ==
    accidentalMessage # NoRequest =>
        frontEvent /\ (pc # "front" => ready = <<>>)

\* What makes it inductive: poll_front says that the ready queue is not empty
\* (lines 102-103, 154-155, 165-177), and the side request is read with the
\* front item still set and nothing parked (lines 289-299).
PollFrontIsReady == poll_front <=> ready # <<>>

SideRequestHasEvent ==
    pc = "side" => frontEvent /\ accidentalMessage = NoRequest

WakeupInv ==
    /\ TypeOK
    /\ PollFrontIsReady
    /\ SideRequestHasEvent
    /\ ParkedRequestHasWakeup

\* The right of worker w to one request is in the ready queue, in a request
\* that was sent to it, or in a READY or a reply on its way back.
Orders  == {Order(j) : j \in Job}
Replies == {Reply(j) : j \in Job}

Credits(w) ==
    Count(ready, {w}) + Count(toWorker[w], Orders)
        + Count(fromWorker[w], Replies \cup {Notice("READY")})

\* A worker never has two requests (its REQ socket could not tell them apart
\* from heartbeats it owes), and one the dispatcher knows is never forgotten:
\* it is queued, working, or about to be queued again (lines 102, 154, 172).
OneCreditPerWorker ==
    \A w \in Worker :
        /\ Credits(w) <= 1
        /\ w \in known /\ link[w] = "up" => Credits(w) = 1

\* A request is nowhere twice: to be read, parked, with one worker, on its way
\* back, or answered.  The parked one is moved out and in again by lines 289,
\* 294, 303 and 168.
Given(r)  == {w \in Worker : \E i \in DOMAIN toWorker[w] : toWorker[w][i] = Order(r)}
Solved(r) == {w \in Worker : \E i \in DOMAIN fromWorker[w] : fromWorker[w][i] = Reply(r)}

PlacesOf(r) ==
    (IF r \in front THEN 1 ELSE 0)
      + (IF r = accidentalMessage THEN 1 ELSE 0)
      + (IF r \in answered THEN 1 ELSE 0)
      + Cardinality(Given(r)) + Cardinality(Solved(r))

RequestNowhereTwice == \A r \in Request : PlacesOf(r) <= 1

\* A worker of the map has lost life exactly while a heartbeat is pending, and
\* a pending heartbeat of a worker that is up is one PING or PONG on its way:
\* a worker that is up can always earn its life back (lines 135-136, 215-235).
LifeLostIffPending ==
    \A w \in known :
        /\ liveliness[w] >= 1
        /\ pendingHeartbeat[w] <=> liveliness[w] < LiveDefault

Heartbeats(w) ==
    Count(toWorker[w], {Ping}) + Count(fromWorker[w], {Notice("PONG")})

HeartbeatDebt ==
    /\ LifeLostIffPending
    /\ \A w \in known :
           link[w] = "up" => Heartbeats(w) = IF pendingHeartbeat[w] THEN 1 ELSE 0

-----------------------------------------------------------------------------
(* What makes these three inductive.                                       *)

\* A worker has its first credit with its READY, which it sends once, and the
\* dispatcher sends nothing to one that is not there.
WorkersBegin ==
    /\ \A w \in Worker :
           /\ link[w] # "up" => toWorker[w] = <<>>
           /\ link[w] = "new" => w \notin known /\ Credits(w) = 0
    /\ \A w \in known : Count(fromWorker[w], {Notice("READY")}) = 0
    /\ pc = "done" => known = {}

CreditInv ==
    /\ TypeOK
    /\ WorkersBegin
    /\ OneCreditPerWorker

\* No heartbeat before the dispatcher has read the READY.
NoHeartbeatYet ==
    \A w \in Worker :
        link[w] = "new" \/ Count(fromWorker[w], {Notice("READY")}) > 0 =>
            Heartbeats(w) = 0

\* The places of a request exclude each other, and nothing is anywhere that
\* was not submitted.
OnePlace(r) ==
    /\ r \in front => r # accidentalMessage /\ r \notin answered
    /\ r = accidentalMessage => r \notin answered
    /\ r \in front \cup answered \cup {accidentalMessage} =>
           Given(r) = {} /\ Solved(r) = {}
    /\ \A v, w \in Given(r) \cup Solved(r) : v = w
    /\ Given(r) = {} \/ Solved(r) = {}
    /\ r \notin submitted =>
           /\ r \notin front \cup answered \cup {accidentalMessage}
           /\ Given(r) = {} /\ Solved(r) = {}

RequestInv ==
    /\ CreditInv
    /\ WakeupInv
    /\ NoHeartbeatYet
    /\ HeartbeatDebt
    /\ \A r \in Request : OnePlace(r)

\* handleRequests calls what it receives from the front "a request", a "normal
\* request" and, behind a parked one, a "side request" (lines 286, 315, 297): a
\* worker is only sent what a client has submitted.
OnlyRequestsAreDispatched ==
    \A w \in Worker : \A i \in DOMAIN toWorker[w] :
        toWorker[w][i] = Ping \/ toWorker[w][i].job \in submitted

-----------------------------------------------------------------------------
(* The dispatcher implements Broker.                                       *)

PlaceOf(r) ==
    IF r \notin submitted THEN "unsent"
    ELSE IF r \in answered THEN "answered"
    ELSE IF r \in front \/ r = accidentalMessage THEN "queued"
    ELSE IF Given(r) \cup Solved(r) # {}
         THEN CHOOSE w \in Given(r) \cup Solved(r) : TRUE
    ELSE "lost"

Abstract == INSTANCE Broker WITH
    place <- [r \in Request |-> PlaceOf(r)],
    gone <- {w \in Worker : link[w] = "gone"},
    open <- pc # "done"

\* Through polling, heartbeats, stale ready entries and the parked request a
\* request is given to one worker, answered at most once, and lost only with
\* its worker or with the dispatcher.
ImplementsBroker == Abstract!Spec

-----------------------------------------------------------------------------
(* What must happen in the end.                                            *)

\* When some worker stays in the map, every submitted request is answered in
\* the end, unless its worker took it along or the dispatcher was shut down.
\* A parked request needs the stale revents of line 284 for this.
RequestServed ==
    (\E w \in Worker : <>[](w \in known)) =>
        \A r \in Request :
            r \in submitted ~> (PlaceOf(r) \in {"answered", "lost"}
                                    \/ pc = "done")

\* A worker that has left is dropped from the map in the end and stays out of
\* it, whatever it had sent before (lines 234-254).
GoneWorkerForgotten ==
    \A w \in Worker : link[w] = "gone" ~> [](w \notin known)

=============================================================================
