# Verification of cpp-web-engine

TLA+ models of the service engine (`service/`) and of the utility library it
stands on (`libs/utility/`), TLC configurations that check them on small
instances, and TLAPS proofs of their central invariants for every size.

Paths below are relative to the repository.

## 1. Inventory

| part | source | state | operations | talks to |
|---|---|---|---|---|
| Request dispatcher | `service/source/dispatcher.cpp` | map of workers (life, pending heartbeat), queue `ready`, one `accidentalMessage`, `poll_front`, revents of the poll items | start, shutdown, one loop: poll, message of a worker (READY, DEATH, PONG, reply), request of a client, heartbeat beat | clients and workers over two ROUTER sockets; runs in a `Worker` |
| Worker group | `service/source/worker_group.cpp` | maps `workers` and `contexts`, control socket, load averages | procure, reap, kill, add, stop; each worker thread: READY, heartbeats, requests, DEAD | its worker threads over an inproc REP socket and their Helper flags; the threads talk to the dispatcher |
| Worker | `libs/utility/worker.cpp` | thread handle, `has_started`, `working`, Helper with `requestedShutdown` and a context | setWork, doWork, stopWork, stopWorkAsync, destructor, the thread function | used by both of the above |
| Logger | `libs/utility/logger.cpp` | `loggerActive`, `threadsUp`, `lowestLog`, the logger thread with its limits and outputs; per thread a socket and a count | start, log, output, remOutput, shutdown | every thread, over inproc PUSH/PULL |
| Keeper | `libs/utility/keeper.cpp` | a set of references per type and a count, one Keeper per thread | addReference, delReference, start, end; `Tracked` objects | Worker threads, `main` |
| ZeroMQ wrapper | `libs/utility/zeromq.cpp`, `libs/include/utility/networking/zeromq.hpp` | the process's context | getContext, closeContext, send, receive | everything |
| Web engine | `service/source/web_engine.cpp` | none of its own | decode a request, evaluate, encode the response | worker threads, handlers |
| Handler tree | `service/source/handler.cpp`, `handler_registrar.cpp` | handlers by type, pending registrations, tree of handlers | register (static constructors), init, resolve | web engine |
| Service proxy | `serviceproxy/start.coffee` | pool of requesters, each with a table of callbacks by tag | GET of a browser, authorization, request, reply | the dispatcher's front socket |
| Program, demo | `service/source/main.cpp`, `root.cpp`, `services/demo.cpp` | none | wiring | all |

What is hard in it, and the property that makes each part correct:

* *Dispatcher.* It uses results of an earlier `zmq::poll` (line 284), leaves
  erased workers in its queue (line 113) and moves a parked request between two
  variables. Correct: a request is never in two places and never forgotten; a
  worker never has two requests; heartbeats and lives agree; a request is
  answered when some worker stays.
* *Worker group.* Workers die by themselves while the manager starts, counts,
  kills and joins them. Correct: no thread is forgotten, no death is missed,
  the group stops only when nothing of it runs, and does so unless it goes on
  adding workers.
* *Worker.* Two threads look at plain flags. Correct: nothing of the thread is
  left when `stopWork` has returned, and a restart is a fresh one.
* *Logger.* It is created by the first and ended by the last of the threads,
  which come and go. Correct: `loggerActive` tells the truth, start and shutdown
  return or the reason is known, messages are shown, and what some output wants
  is not dropped by `log`, which knows only `lowestLog`.
* *Web engine and handler tree.* Handlers register themselves in static
  constructors of several files, in any order; every part of a request but two
  is optional. Correct: `resolve` follows the declarations whatever the order,
  what a worker reads of a message (what is behind its last empty frame) reaches
  its handler if it has the documented format and only then, and the answer finds
  its way back.
* *Service proxy.* Many GETs share a few REQ sockets and a table of callbacks.
  Correct: no answer without authorization, nobody called back twice, and
  everybody called back unless the reasons are known.
* *Process.* `Dispatcher::start` may be called again, and static objects are
  destroyed in an order that the linker chooses. Correct: one dispatcher at a
  time serves, a start that fails does no harm, and the process ends.
* *Keeper.* Objects may be deleted by another thread than the one that made
  them. Correct: no leak is missed.

`PROJECT.json` lists the hazards line by line, with the property that watches
each, and the components that are not modelled, with the reason.

## 2. Modules

| module | models | kind |
|---|---|---|
| `Broker` | what the dispatcher promises to clients | abstract specification |
| `Dispatcher` | `DispatcherContext` and its environment | detailed specification, refines `Broker` |
| `MCDispatcher` | instance of `Dispatcher` for TLC (symmetry) | MC module |
| `DispatcherProofs` | theorems about `Dispatcher` | proofs |
| `Worker`, `WorkerProofs` | `Cordite::Worker` and its thread | specification, proofs |
| `WorkerGroup`, `WorkerGroupProofs` | the manager thread and `WorkerContext::work` of every worker | specification, proofs |
| `Logger`, `LoggerProofs` | the life of the logger thread | specification, proofs |
| `LogLevels`, `LogLevelsProofs` | the outputs of the logger, their limits and `lowestLog` | specification, proofs |
| `HandlerTree` | registration of handlers, `init`, `resolve` | operators and actions that `WebEngine` extends |
| `WebEngine`, `WebEngineProofs` | envelope, `InputToRequest`, `evaluate`, `ResponseToOutput` | specification, proofs (also of `HandlerTree`) |
| `DemoService` | the handlers of the program | definitions |
| `MCWebEngine` | the tree of `DemoService` with a second root, and the requests | MC module |
| `Requester`, `RequesterProofs` | the service proxy | specification, proofs |
| `Keeper` | references of a thread | operators and actions that `Process` extends |
| `Process`, `ProcessProofs` | start, restart, shutdown and end of a process with a dispatcher; composes `Worker` (INSTANCE), `Keeper`, sockets and the ZeroMQ context | specification, proofs |

`PROJECT.json` maps every definition to its lines. Definitions whose comment
begins with "Mutant of" are not part of a specification: they are plausible
bugs, one for each property, with which the property must fail.

### Dispatcher

`pc` cuts an iteration of `handleRequests` where something can happen in
between: after `zmq::poll` ("poll"), after the message from `back` ("back"),
before the second receive of an iteration ("side") and before and after the
beat ("tick", "end"). Clients and workers act between any two of these, so a
worker may leave after the poll reported its message, or a request may come in
after the poll.

* `Poll` keeps the old `revents` of the front item when it polls only two
  items: zmq::poll does not touch the third.
* `Dispatch`/`Park` are the two outcomes of `sendRequest`: the first known
  identity of `ready` gets the request, or the queue is emptied and the request
  kept in `accidentalMessage`.
* `ReceiveFront` is `ZeroMQ::receive(*front)`: with nothing to read, the
  timeout of one millisecond gives a list with one empty string, `Phantom`.
* `Beat` is all of `doRegularProcess`.
* A worker's connection is a pair of FIFO queues. `Leave` is its end, whatever
  the reason, with any suffix of what it had sent lost. An identity is never
  used again (libzmq makes a fresh one for each connection). `Resign` is the
  DEATH message the dispatcher understands but no worker of the repository
  sends.
* `backInner` is created but never bound (line 55 binds `back` twice), so its
  poll item is never ready and `isInner` always false: those branches cannot
  run and are left out.

### Worker

One owner and one thread. The scope guards are modelled by what they do: the
one for `working` is a temporary (line 55), so `working` is TRUE for a moment
only (`Flag`, `Unflag`). All waits have a timeout, so a wait is an action that
is enabled when its condition holds. The plain bools are read and written as
one step each. `EndOfWork` is the caller's function.

### WorkerGroup

The manager's place is `mpc`. Procuring a worker takes two steps, because
`ensureReady` waits a second while the new thread may already live, fail and
say DEAD; so does reaping, because `stopWork` waits for the thread. In both the
worker is `current`. A worker's thread goes from "ready" to "busy" and back,
says DEAD ("farewell"), waits for the answer ("closing"), and frees its context
("ended"). The load average and the six seconds are free choices. The code
numbers its workers without end (`worker_new_id`); here a new one gets any
identity of which there is no thread, no Worker and no DEAD left (`Fresh`), so
workers may come and go for ever, no more than `MaxId` at a time. `active` of a
worker is written to a log line only and is left out.

### Logger

Each thread that logs runs `start`, `log` and `shutdown`, cut at each access to
a variable others use; the logger threads are numbered in order of creation,
because the last `shutdown` of one and the `start` of the next may overlap.
`BindFails` is the failure the code prepares for with its two milliseconds of
`loggerActive`: an inproc address is freed a moment after its socket is closed.
`GiveUp` takes `loggerActive` back whether or not the `start` that waits for it
has looked. A pipe holds `MaxLogs` messages; a send that finds it full, or nobody
at its end, fails after 35 ms without a word (`HasRoom`), also that of "end". A
message below `lowestLog` is not logged and not modelled. The logger thread is
the first to call `getContext()`; `context = "shown"` is the moment in which the
plain pointer of the double-checked lock is set and the context not complete.

### LogLevels

Here one logger runs and every thread has its socket. `output` tests
`lowestLog` in one step, stores in the next (`LowerLevel`) and sends its command
in a third (`SendSetting`); `processLimit` tests and computes in the step that
reads the command and stores in the next (`StoreLevel`), so each store may come
after any number of others. The pipes of the threads are separate queues, read
in any order. A command that finds its pipe full for 35 ms is dropped (`Post`),
and `processLimit` is not reached when a file cannot be opened (`FileFails`):
`lost` remembers the levels of the settings that ended in one of these ways since
`lowestLog` was last computed from all limits.
`output(LGO_NULL)` has no caller and is left out.

### HandlerTree, WebEngine, DemoService

A handler is named by its type. `Construct` is the constructor of one
`HandlerRegister`: the files are initialised in any order, the objects of one
file in theirs. `InitTree` hangs the handlers below their parents or follows
the null pointer that `handles[parent]` inserts (`program = "init"`). The two
lists of a node are the sets of the places their handlers have among its
children, in whose order `init` fills them; the first of a list is the one in
the least place. The tree is not changed afterwards, so evaluating a request is
one step. A request is a
sequence of frames with a key (the text in front of the colon) and a value, a
URI a sequence of slashes and of the texts between them;
decoding is a chain of operators on the list that is left, in the order of the
code. `past` notes that `in.front()` was called on an empty list: the outcome
is undefined, so `SendResponse` goes on as libc++ does (the end of the list
reads as an empty string) and `Crash` is enabled as well. A regular expression
is the set of parts it accepts. `Throwing` are the handlers whose methods may
throw.

### Requester

One action is one callback of node. The AUTH of a GET has a number as its tag;
the callback that sends the request itself runs as a method of the table's
entry, so its tag is NaN (`StoreCallback`). `orphan` and `faulty` are history:
the clients whose callback was replaced, the requesters that wait in vain. The
dispatcher and the service behind it are the environment: they answer with the
tag they were sent, lose the message (`Lose`), or answer without a tag, which
is what the web engine does when a handler throws (`AnswerUntagged`, checked by
`ReplyFindsItsWay` in `WebEngine`). A REQ socket has one exchange at a time, and
`link` is its state: a message that was lost stays in it, with the body "lost",
because the socket sends nothing else before it has an answer.

### Keeper, Process

`Process` uses `Worker` as it is, with the sockets and ports of each
`DispatcherContext` that was built. `endpoint` is the build that holds the
ports: they are free only some time after its sockets were closed
(`FreePorts`, libzmq). A start whose bind throws leaves a socket nobody has a
pointer to (`BuildFails`), and so does a dispatcher that ends by an exception
(`Catch`, since `onShutdown` is skipped). `first` is the static object that is
destroyed first, dispatch_worker or the ZeroMQ watcher. `main()` is any caller
of the API: that of the repository starts once and never returns. The main
thread and the dispatcher's each have a keeper and may make and delete objects,
also each other's; `foreign` remembers the threads of which another one has
deleted an object. No class of the repository's program is `Tracked` yet, only
that of `libs/utility/tests/keeper-mixin.cpp`: the objects are those of code
that uses the library.

## 3. Runs

| run | bounds | shows |
|---|---|---|
| `dispatcher_safety` | 2 workers, 2 requests, live_default 2, symmetric | `TypeOK`, `ParkedRequestHasWakeup`, `OneCreditPerWorker`, `RequestNowhereTwice`, `HeartbeatDebt`; `Dispatcher` implements `Broker` |
| `dispatcher_liveness` | 2 workers, 1 request | `RequestServed`, `GoneWorkerForgotten` |
| `dispatcher_phantom` | violation | a worker is sent what no client has submitted |
| `worker` | 3 starts | restart and stop of a Worker; both waits end |
| `group` | 3 workers at a time, any number one after another, batches of 2, kills from 2 on, live_default 1 | registration, deaths, contexts, complete stop; dead workers are reaped, the group stops unless it adds workers again and again |
| `logger` | 3 threads, nesting 2, 1 message in a pipe | `loggerActive`, joins under the mutex; start and shutdown return but for a missed start and a lost "end" (`CallsReturn`); no logger is left |
| `logger_messages` | violation | "end" overtakes a message |
| `log_levels` | 2 threads, 4 levels, 4 calls, 2 commands in a pipe, a server and a file | `lowestLog` settles low enough unless a setting as high as it was lost; open outputs have limits |
| `engine` | 6 handlers in 3 files, every order of files, 5,857 messages | `TreeFollowsDeclarations`, `AnswersAsDocumented`, `ReplyFindsItsWay`, `CrashesAreKnown` |
| `proxy` | 2 requesters, 5 GETs, lost and untagged replies, refusals | `UncalledIsKnown`, `AnswerIsAuthorized`, `CalledBack` |
| `proxy_hello` | violation; 2 requesters, 3 GETs, no faults | two GETs share the key NaN |
| `process` | 4 contexts built, 3 starts, 2 addresses, 3 references | `OneDispatcherServes`, `KeeperTells`, `ExitReturns` |

*Why these bounds.* Two workers are what it takes for a stale identity in front
of a live one and for a parked request whose worker leaves while the other
returns; two requests for the parked one and the side request. `live_default`
is 13 in the code; 2 (1 in the group) separates "has lost life" from "is lost".
In the group, three workers at a time let one die, and be replaced, at each step
of the procurement of another while a third serves; a batch of 2 (5 in the code)
lets the pool be full, and one of them fail after the other was added. That the safety properties
hold for any number of workers is proved. Three threads that log are the least that strand a shutdown: one whose
"end" was lost, one that starts the next logger, one that ends its own before it.
Two threads and two levels below LGT_WARN are what it takes for a store to undo a
lower one, LGT_ERROR lets `lowestLog` rise; four calls are two settings of each thread,
or settings, a removal and a message.
The requests of `engine` are all selections of the seven parts with five methods
and six URIs, and every selection with one part more, of any kind, at any
place, an empty frame included; and good requests behind garbage and an empty
frame. The second root and its child make the order of the files matter. Three
GETs on one requester are what it takes for one callback to be replaced and an
answer to go to the wrong client; five give one of the two requesters three and
the other two, which share nothing (that the safety properties hold for any
number of both is proved). In
`process` four contexts are a dispatcher, a start that fails beside it, one
that replaces it and one more; two addresses and three references let an address be
used again while its old entry is there.
The bounds on counters (`MaxStarts`, `MaxActive`, `MaxCalls`, `Browsers`,
`MaxBuilds`, `MaxCount`) are constants of the modules and occur in guards only.
`MaxLogs` and `MaxPipe` stand for the high-water mark of a pipe, `MaxId` for the
workers there may be at a time.

*Deadlock* is not checked: the service may be shut down, all workers may have
left, a Worker may be destroyed and all threads may have ended, which are the
regular ends of the runs.

*Fairness.* `Dispatcher`: the thread never blocks (every poll and receive has a
timeout), so a step that can be done is done; `Tick` is strongly fair because
time passes whatever the thread does; `back` is a ROUTER and reads its peers in
turn, hence strong fairness per peer; a worker that is up answers. No client
has to submit and no worker has to join or leave. `Worker`: neither thread
starves and the work function heeds `requestedShutdown`. `WorkerGroup`: the
manager's polls and joins end, its control socket is a REP socket that takes its
peers in turn (hence strong fairness per peer), a poll of a worker times out and
its handler returns; nothing is assumed of the load. `Logger`: a waiting thread gets the mutex in the end, pipes are read
in turn, the outermost `ScopedLogger` of a thread goes out of scope. `Requester`:
the socket sends, node calls the listener, the service answers what it has not
lost. `Process`: a call of `main()` goes on, the thread runs, the work function
ends when it is asked to or when ZeroMQ ends it (ETERM); `main()` itself does not
have to return and libzmq does not have to free a port.

The only property checked under symmetry that is not an invariant is
`ImplementsBroker`; it has no liveness part, and the model, the abstract
specification and the mapping treat workers and requests alike.

*Conditional liveness.* `RequestServed` assumes that some worker stays in the
map. `StartReturnsOrMissed` names the exception the code has: `doWork` looks at
`has_started` at most every 15 ms, and a thread that is over by then has reset
it. `CallsReturn` names those of the logger. A start that does not look within
the two milliseconds of a logger thread that cannot bind (`logger.cpp:302-304`,
335) waits for ever and holds `loggerCalled` (`StartMissed`), and so every first
start and last shutdown after it waits too. A shutdown whose "end" went to a logger that was gone,
while a later one is active, or was dropped because the pipe was full, has nobody
to wait for (`Stranded`). `GroupMakesProgress` excepts a manager that procures
workers again and again: `shuttingDown` is set behind its loop
(`worker_group.cpp:422`), so `doRegularProcess` may add five workers every six
seconds while the loop waits for the old ones, and only timing, which the code
does not promise, ends that. A worker that has ended is reaped in any case.
`CalledBack` excepts the clients whose callback was replaced and the requesters
that lost a reply, for which there is no timeout (`start.coffee:77`);
`UncalledIsKnown` says that there are no others. `ExitReturns` excepts a process
in which a socket was leaked: `zmq_term` then waits for ever, which is also how
a process ends whose dispatcher runs while the context is destroyed first.
`LevelsSettle` excepts a `lowestLog` that is no higher than a setting that was
lost since it was last computed, to a pipe that was full for 35 ms (`logger.cpp:343`; `output` does not
look at what `send` returns) or to a file that could not be opened (then
`processLimit` returns before the update, line 119): a level that `output` has
stored over a lower one then stays.

## 4. Disagreements met

Shown by a run that expects a violation; `PROJECT.json` quotes the lines:

* the dispatcher sends phantoms: when the last worker was given a request and is
  ready again, the old POLLIN of line 284 makes it receive a "normal request"
  where there is none (`dispatcher.cpp:315-317`): `dispatcher_phantom`. The side
  request (298) is received as blindly;
* a message can be overtaken by "end" (`logger.cpp:262`, against
  `tests/logger.cpp:28`): `logger_messages`;
* two GETs at a time on one requester, and one is never answered
  (`start.coffee:92-97`, against `README.md:43`): `proxy_hello`.

Met while modelling and part of the models as the code has them:

* `onShutdown` is skipped by an exception (`worker.cpp:59`), although
  `tests/worker.cpp:34-45` throws and expects its context to be freed there;
  `ExitReturns` shows what follows from it for the dispatcher.
* `partial`, which is 1 / size, is compared where the comment means `amount`,
  the share of active workers (`worker_group.cpp:358-361`).
* `addWorkers` asks for `shuttingDown`, which is set when its only caller has
  ended (`worker_group.cpp:244, 422`): a group that is being stopped goes on
  adding workers. `GroupMakesProgress` has it as its exception.
* A logger thread that cannot bind releases the `start` that waits for it by two
  milliseconds of `loggerActive` (`logger.cpp:301-304`); a `start` that is delayed
  misses them and waits for ever with `loggerCalled` held (335). `CallsReturn` has
  it as its exception.
* A send is given up after 35 ms (`logger.cpp:342-343`) and `output`, `remOutput`
  and `shutdown` do not look at the result: a setting, or the "end", may be
  dropped unnoticed (363, 443-458). `LevelsSettle` and `CallsReturn` have it.
* `stripRoute` takes the last empty frame of a message as the end of its envelope
  (`worker_group.cpp:85-103`), a REQ or DEALER client puts the first one there:
  what is between the two is not looked at, so garbage, an empty frame and a good
  request get 200, and a request with an empty frame in it is judged by its end.
  `AnswersAsDocumented` is about what is behind the last one.
* `start` tests `loggerActive` without the mutex and may connect to a logger
  that has just gone (`logger.cpp:324`, against the comment on 332-334); it then
  throws and keeps a pointer to the socket it has deleted (349-350). The model
  has it as `pc = "thrown"`.
* `Dispatcher::start` binds the ports of the new context before it stops the
  old one (`dispatcher.cpp:345-353`), so a restart without a shutdown always
  fails; `OneDispatcherServes` shows that it leaves the running one alone.
* Optional parts of a request are looked for at the front of a list that may be
  empty (`web_engine.cpp:139-158`), so the documented `Type`, `URI` alone has
  no defined outcome.
* A second root handler is refused with a warning, but its children follow a
  null pointer (`handler_registrar.cpp:59-68`, 91).
* An exception in a handler loses the tag of the answer (`web_engine.cpp:302`
  comes after the call).
* OPTIONS calls `get` (`web_engine.cpp:367-371`), `options()` is never called.
* The proxy writes the version in lower case ("msgpack"), the engine expects
  upper case, `_.each` hands `setHeaders` value and key the other way round, and
  a request with a session and a body has two Body parts, which the engine
  refuses (`start.coffee:36-38, 50-56`). `Requester` sends none of these.
* A Worker's thread makes its keeper before its logger and so reports leaks
  after its logger has gone (`worker.cpp:46-47`), which `tests/logger_mem.cpp:32`
  calls the wrong order; `main.cpp` has the right one.

## 5. Proofs

All theorems hold for any number of workers, requests, threads, objects and steps.

* `DispatcherProofs`: `TypeCorrect` by one step per action. `WakeupCorrect`
  proves `ParkedRequestHasWakeup` through `WakeupInv`: that the stale POLLIN is
  kept needs that `poll_front` is set exactly when `ready` is not empty, and
  that the side request is read with POLLIN set and nothing parked.
  `LifeCorrect` proves that life is lost exactly while a heartbeat is pending.
  The next three count messages in sequences. The lemmas on `Count` say what
  appending, taking the head, cutting a tail off and emptying do to it
  (`CountAppend` to `CountSubset`); each helper of the dispatcher has a lemma
  that says what it does to the counts.
  `CreditCorrect`: `CreditInv` adds to `OneCreditPerWorker` that a worker comes
  with no credit and its READY is in its queue until it is known
  (`WorkersBegin`), so that a READY cannot be a second credit.
  `HeartbeatCorrect`: a worker that is not yet known has no heartbeat under way
  (`NoHeartbeatYet`), so that READY starts a balanced account; a beat sends a
  PING only where none is pending.
  `PlaceCorrect`: `OnePlace` says which places exclude each other. That a
  worker is given one request at most rests on its one credit, and that the
  side request does not double a parked one on `WakeupInv`.
  `InvariantCorrect` is their conjunction, `RequestInv`.
  `BrokerImplemented` is the refinement, from `RequestInv` before and after a
  step: `Submit` maps to `Submit`, the reading of a reply to `Answer`, `Dispatch`
  to `Assign` (to a worker that has gone, the request is lost), `Stop` to
  `Close`, the answer of a worker to a closed dispatcher to `Drop`, `Leave` and
  `Resign` to `Leave`. All the rest, parking and unparking included, is a
  stutter. That `Assign` finds the worker free is `OneCreditPerWorker`, and that
  the place of a request is well defined is `OnePlace`.
* `WorkerProofs`: `WorkerInv` adds to `QuietWhenStopped` where each flag is set
  (`FlagsFollow`); from it `WorkerTypeCorrect`, `QuietCorrect` and the action
  property `FreshStart`.
* `WorkerGroupProofs`: `GroupInv` says who answers for a worker: the map, the
  manager's hands or a DEAD message, and that `DEAD` is said by leaving workers
  only. From it `GroupTypeCorrect`, `DeadCorrect`, `OrphanCorrect`,
  `StopCorrect`, `FreedCorrect`.
* `LogLevelsProofs`: `LevelInv` adds to the two properties that, while the
  value of `lowestLog` (or the one about to be stored) is too high, a setting at
  least as high is on its way or was lost (`RepairIsOnItsWay`, `Accounted`): reading
  it recomputes the minimum, reading a lower one stores a lower value, and sending
  one appends it to a pipe or loses it (`PostKeeps`). From it
  `LevelTypeCorrect`, `LimitsCorrect` and `SettleCorrect`.
* `RequesterProofs`: `RequesterInv` ties the messages on their way to the table.
  `MessagesAreTrue`: a message belongs to a client of its requester, and one
  whose tag is that of an entry of type AUTH is of the client of that entry.
  `EntriesWait`: every entry is of another client that waits, and unless a
  reply or a tag was lost a message that will call it is on its way.
  `OneGetEach`: while no callback was replaced there is one GET at most, that of
  the client under NaN. It is what makes an answer that goes astray the
  consequence of an earlier replacement. From it `RequesterTypeCorrect`,
  `AuthorizedCorrect` and `UncalledCorrect`.
* `LoggerProofs`: `LoggerInv` says who holds each mutex (`MutexesAreHeld`), that
  `threadsUp` counts the threads between their first start and their last
  shutdown, and that who creates a logger thread keeps the mutex until it is
  active (`NewIsAwaited`): so there is never a second one that is not yet
  active. From it `LoggerTypeCorrect`, `LoggerActiveCorrect` and `JoinCorrect`.
* `ProcessProofs`: `ProcessInv` adds to `OneDispatcherServes` that a dispatcher
  that was started and not asked to stop holds the ports, also when an exception
  has ended it (`PortsAreHeld`), so that no context can be built beside it, and
  that a start that goes on is alone (`StartIsAlone`). From it
  `ProcessTypeCorrect`, `KeeperCorrect` and `ServesCorrect`. For the keepers
  there is one lemma per operation, with `KeeperInv`: to `KeeperTells` it adds
  that a thread without a keeper has nothing to tell. An entry that was left by
  a deletion elsewhere may be counted twice but never counted off twice, because
  `pop` counts only what it finds.
* `WebEngineProofs`: `TreeInv` says that each static object is still to be
  constructed or has registered (`ObjectsRegister`), that a root in `handles` is
  `rootHandler` (`RootIsTaken`), that the children of a node are what was declared
  (`ChildrenAreDeclared`), and that `init` hangs all of them or meets a null
  pointer (`TreeIsBuilt`). With the least place in a set of
  numbers (`LeastExists`, from the well-foundedness of <) it gives `TreeCorrect`
  for every program of handlers and every order of its files. `EngineInv` adds
  what a worker has read when it goes past the end of its list: the chain of
  `Required` and `Optional` takes frames from the front of the list one after the
  other (`Reads`), so the list is found empty only when it had none of the later
  parts. From it `CrashesCorrect` and `EngineTypeCorrect`. `ReplyCorrect` follows
  the tag through the same chain (`RequiredTakes`, `TagKept`, `TagIsRead`: the
  answer has the tag of the third frame, or none), through `ResponseToOutput`
  (`ResponseValues`, `AnswerTag`) and behind the envelope (`EmptyFrames`,
  `BehindEnvelope`); an answer and its request are written by one step each and
  forgotten together, so `ReplyFindsItsWay` is inductive next to `EngineInv`.
  `AnswersCorrect` has three parts. *The format*: `Passed` says of each place K of
  the format that a request of it has not been refused, and that of one that has
  not been refused, the parts read so far are in order and in the first K places;
  each operator of the decoding moves it one place on (`BegunPassed`,
  `OptionalPassed`, `HeadersPassed`), and `BodyDecides`: the request is refused
  exactly when it is not of the format (`FormatRead`). *The path*: what `Split`
  and `Walk` do for a list of any length is what a fold does. `FoldLeft` chooses a
  function over all sets of places; `FoldExists` builds it up to any length (by a
  least counterexample, as the induction theorems of the library have an operator
  parameter), so the chosen one goes along the places one by one (`TargetIs`,
  `WalkIs`, `SplitIs`). At each place of the URI, the node reached by the parts
  that `Split` has, the open one included, is the node that the text so far means
  (`SamePath`). *The code*: with the root that `RootExists` takes from `TreeInv`,
  `AnswerCode` finds the documented code in every answer to what is behind the
  last empty frame, and `CodeStep` that no
  later step changes the tree it is measured by.

The assumptions are the named ASSUMEs of the modules: positive bounds,
model values that differ, finitely many addresses, that `None` is no message of
the proxy (`NoneIsNoMessage`), that a request is a sequence of frames
(`RequestAssumption`), that the texts of a URI are separated by slashes
(`UriAssumption`: two texts without one would be one text), that what a handler
authorizes is a number (`AuthorizeAssumption`), that some file of the program has a root handler, and
that the identity of a worker is not one of the words with which `Broker` names
the other places (`WorkerAssumption`). Every inductive invariant was checked by
TLC before it was proved.

Every invariant, action property and refinement that a passing run checks is
proved. Only model-checked: the liveness properties (`RequestServed`,
`GoneWorkerForgotten`, `StopReturns`, `StartReturnsOrMissed`,
`GroupMakesProgress`, `CallsReturn`, `LoggersEnd`, `CalledBack`,
`ExitReturns`), which rest on fairness and so on ENABLED.

## 6. Not modelled

Left out: what `Logger::setName` and the layout of a message print; session
versions, types and headers, which the engine hands through; `ZeroMQ::receive`
after an interrupted call, whose `continue` in a do-while ends the list early
(`zeromq.hpp:33`); a limit that stays when its output is removed, which costs
work only (`logger.cpp:170`); HTTP, which is restify's.

Left out for good: vendored headers, puppet and build files, message layout,
and exceptions of libzmq other than those named above (an interrupted poll ends
the dispatcher's thread the way `Worker`'s `Catch` does).
