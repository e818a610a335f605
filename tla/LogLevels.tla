------------------------------ MODULE LogLevels ------------------------------
(***************************************************************************)
(* The levels and outputs of the logger (libs/utility/logger.cpp).         *)
(*                                                                         *)
(* Each output has a limit, which only the logger thread knows.  A thread  *)
(* that logs does not ask it: it drops what is below lowestLog, an atomic  *)
(* that output() lowers and the logger thread recomputes when it reads the *)
(* command that output() has sent.  Each of the two tests lowestLog and    *)
(* then stores, without a lock.                                            *)
(*                                                                         *)
(* Logger.tla is about the life of the logger thread, here one runs and    *)
(* every thread has its socket.                                            *)
(***************************************************************************)
EXTENDS Integers, Sequences

CONSTANTS
  Thread,       \* the threads that log
  Cerr,         \* cerrLimitTag
  Server, File, \* the names of the other outputs
  Level,        \* the LogTypes in use
  Null,         \* LGT_NULL, which no caller uses
  Warn, Error,  \* LGT_WARN, LGT_ERROR
  MaxPipe,      \* the commands that a pipe holds
  MaxCalls      \* bound: calls of the threads

ASSUME LevelAssumption ==
    /\ Level \subseteq Nat
    /\ {Warn, Error} \subseteq Level
    /\ Null \notin Level

ASSUME NameAssumption ==
    /\ Cerr \notin Server \cup File
    /\ Server \cap File = {}

VARIABLES
  lowestLog,
  outputDest,   \* does it have LGO_CERR?
  (* the threads *)
  pc,
  setting,      \* the setting a thread is about to send
  pipe,         \* commands that it has sent and the logger has not read
  calls,
  (* the logger thread *)
  limits,
  outputs,      \* names in `outputs` and `outputFiles`
  storing,      \* what processLimit is about to store, or {}
  lost          \* history: levels of the settings that did not reach `limits`
                \* since lowestLog was last computed from them

atomics == <<lowestLog, outputDest>>
callers == <<pc, setting, calls>>
loggers == <<limits, outputs, storing>>
vars == <<atomics, callers, pipe, loggers, lost>>

Name == {Cerr} \cup Server \cup File

Setting(n, l) == [kind |-> "set", name |-> n, level |-> l]
Removal(n)    == [kind |-> "del", name |-> n, level |-> Error]
Message(l)    == [kind |-> "log", name |-> Cerr, level |-> l]
NoSetting     == Message(Error)

Command == [kind : {"set", "del", "log"}, name : Name, level : Level]

\* limits is a map: a name without a limit is not in its domain.
TypeOK ==
    /\ lowestLog \in Level
    /\ outputDest \in BOOLEAN
    /\ pc \in [Thread -> {"idle", "store", "send"}]
    /\ setting \in [Thread -> Command]
    /\ pipe \in [Thread -> Seq(Command)]
    /\ calls \in Nat
    /\ DOMAIN limits \subseteq Name
    /\ limits \in [DOMAIN limits -> Level]
    /\ outputs \subseteq Name
    /\ storing \subseteq Level
    /\ lost \subseteq Level

Init ==
    /\ lowestLog = Warn
    /\ outputDest = TRUE
    /\ pc = [t \in Thread |-> "idle"]
    /\ setting = [t \in Thread |-> NoSetting]
    /\ pipe = [t \in Thread |-> <<>>]
    /\ calls = 0
    /\ limits = [n \in {Cerr} |-> Warn]
    /\ outputs = {}
    /\ storing = {}
    /\ lost = {}

-----------------------------------------------------------------------------
(* What a thread calls.                                                    *)

Call(t) ==
    /\ pc[t] = "idle"
    /\ calls < MaxCalls
    /\ calls' = calls + 1

Lose(c) == lost' = lost \cup {l \in {c.level} : c.kind = "set"}

\* A pipe that is full for 35 ms (SNDTIMEO) does not take the command, and its
\* sender does not notice; a frame that comes without the first of its command
\* is no command that the logger knows.
Post(t, c) ==
    \/ /\ Len(pipe[t]) < MaxPipe
       /\ pipe' = [pipe EXCEPT ![t] = Append(@, c)]
       /\ UNCHANGED lost
    \/ /\ Len(pipe[t]) >= MaxPipe
       /\ Lose(c)
       /\ UNCHANGED pipe

\* Logger::output tests lowestLog ...
output(t, n, l) ==
    /\ Call(t)
    /\ setting' = [setting EXCEPT ![t] = Setting(n, l)]
    /\ pc' = [pc EXCEPT ![t] = IF l < lowestLog THEN "store" ELSE "send"]
    /\ UNCHANGED <<atomics, pipe, loggers, lost>>

\* ... lowers it to what it has seen to be lower ...
LowerLevel(t) ==
    /\ pc[t] = "store"
    /\ lowestLog' = setting[t].level
    /\ pc' = [pc EXCEPT ![t] = "send"]
    /\ UNCHANGED <<outputDest, setting, calls, pipe, loggers, lost>>

\* ... and sends the command.
SendSetting(t) ==
    /\ pc[t] = "send"
    /\ Post(t, setting[t])
    /\ outputDest' = (outputDest \/ setting[t].name = Cerr)
    /\ pc' = [pc EXCEPT ![t] = "idle"]
    /\ setting' = [setting EXCEPT ![t] = NoSetting]
    /\ UNCHANGED <<lowestLog, calls, loggers>>

remOutput(t, n) ==
    /\ Call(t)
    /\ IF n = Cerr
       THEN outputDest' = FALSE /\ UNCHANGED <<pipe, lost>>
       ELSE Post(t, Removal(n)) /\ UNCHANGED outputDest
    /\ UNCHANGED <<lowestLog, pc, setting, loggers>>

log(t, l) ==
    /\ Call(t)
    /\ l >= lowestLog
    /\ Post(t, Message(l))
    /\ UNCHANGED <<atomics, pc, setting, loggers>>

-----------------------------------------------------------------------------
(* What the logger thread does with a command.                             *)

Take(t, kind) ==
    /\ storing = {}
    /\ pipe[t] # <<>>
    /\ Head(pipe[t]).kind = kind
    /\ pipe' = [pipe EXCEPT ![t] = Tail(@)]

LimitOf(n, l) ==
    [k \in DOMAIN limits \cup {n} |-> IF k = n THEN l ELSE limits[k]]

\* The lowest of Error and the limits.
IsLowest(m) ==
    /\ m = Error \/ \E k \in DOMAIN limits' : m = limits'[k]
    /\ m <= Error
    /\ \A k \in DOMAIN limits' : m <= limits'[k]

\* Mutant of processLimit: no update when the new limit is not lower.
processLimitNoUpdate(n, l) ==
    /\ limits' = LimitOf(n, l)
    /\ storing' = IF l < lowestLog THEN {l} ELSE {}
    /\ UNCHANGED lost

\* Mutant of processLimit: the limit is taken for lowestLog only.
processLimitForgets(n, l) ==
    /\ storing' = {l}
    /\ UNCHANGED <<limits, lost>>

\* Mutant of processLimit: `lowest` starts from LGT_NULL.
processLimitFromNull(n, l) ==
    /\ limits' = LimitOf(n, l)
    /\ storing' = IF l < lowestLog THEN {l} ELSE {Null}
    /\ UNCHANGED lost

\* The test of lowestLog and what is to be stored in it.
processLimit(n, l) ==
    /\ limits' = LimitOf(n, l)
    /\ \/ l < lowestLog /\ storing' = {l} /\ UNCHANGED lost
       \/ /\ l >= lowestLog
          /\ \E m \in Level : IsLowest(m) /\ storing' = {m}
          /\ lost' = {}

\* cerr and addFile; a file that opens is an output.
SetLimit(t) ==
    LET c == Head(pipe[t])
    IN  /\ Take(t, "set")
        /\ c.name \in {Cerr} \cup File
        /\ processLimit(c.name, c.level)
        /\ outputs' = outputs \cup ({c.name} \cap File)
        /\ UNCHANGED <<atomics, callers>>

\* addServer; the connect may throw when the limit has been set.
AddServer(t) ==
    LET c == Head(pipe[t])
    IN  /\ Take(t, "set")
        /\ c.name \in Server
        /\ processLimit(c.name, c.level)
        /\ outputs' \in {outputs, outputs \cup {c.name}}
        /\ UNCHANGED <<atomics, callers>>

\* addFile of a file that cannot be opened: processLimit of no name.
FileFails(t) ==
    LET c == Head(pipe[t])
    IN  /\ Take(t, "set")
        /\ c.name \in File
        /\ Lose(c)
        /\ UNCHANGED <<atomics, callers, limits, outputs, storing>>

\* lowestLog = l or lowestLog = lowest
StoreLevel ==
    \E m \in storing :
        /\ lowestLog' = m
        /\ storing' = {}
        /\ UNCHANGED <<outputDest, callers, pipe, limits, outputs, lost>>

\* delServer and delFile: the limit stays.
Remove(t) ==
    LET c == Head(pipe[t])
    IN  /\ Take(t, "del")
        /\ outputs' = outputs \ {c.name}
        /\ UNCHANGED <<atomics, callers, limits, storing, lost>>

\* The message goes to the outputs whose limit it reaches; limits[name]
\* inserts a limit for a name that has none.
Show(t) ==
    /\ Take(t, "log")
    /\ limits' = [k \in DOMAIN limits \cup outputs |->
                      IF k \in DOMAIN limits THEN limits[k] ELSE Null]
    /\ UNCHANGED <<atomics, callers, outputs, storing, lost>>

LoggerStep(t) ==
    SetLimit(t) \/ AddServer(t) \/ FileFails(t) \/ Remove(t) \/ Show(t)

Next ==
    \/ \E t \in Thread :
           \/ \E n \in Name, l \in Level : output(t, n, l)
           \/ \E n \in Name : remOutput(t, n)
           \/ \E l \in Level : log(t, l)
           \/ LowerLevel(t) \/ SendSetting(t) \/ LoggerStep(t)
    \/ StoreLevel

Spec == Init /\ [][Next]_vars

-----------------------------------------------------------------------------
\* Nothing is below what an output wants: v is not above any limit.
Low(v) == \A n \in DOMAIN limits : v <= limits[n]

\* No setting is on its way or being worked on.
Settled ==
    /\ storing = {}
    /\ \A t \in Thread :
           /\ pc[t] # "send"
           /\ \A i \in DOMAIN pipe[t] : pipe[t][i].kind # "set"

\* A setting as high as v did not reach the logger, or its file could not be
\* opened.
WasLost(v) == \E l \in lost : l >= v

\* Two threads may store what they have tested long ago (lines 121-136 and
\* 434-437), and the last store wins.  Still, when no setting is on its way,
\* log() drops nothing that an output wants; unless a setting as high as
\* lowestLog has been lost, to a full pipe or to a file (lines 119, 165, 342),
\* when output() had stored it already.  That lasts until a setting is read
\* that is as high as lowestLog.
LevelsSettle == Settled => Low(lowestLog) \/ WasLost(lowestLog)

\* `limits[name]` of an open output never inserts a limit of zero (lines 235
\* and 240): with one, every later recomputation would let everything pass.
OutputsHaveLimits == outputs \subseteq DOMAIN limits

\* What makes the two inductive: while the value that lowestLog has or is
\* about to be given is too high, the setting of a thread is on its way that
\* is as high, and reading that one recomputes lowestLog; or it was lost.
UpcomingLevel == IF storing = {} THEN {lowestLog} ELSE storing

OnItsWay(v) ==
    \E t \in Thread :
        \/ pc[t] = "send" /\ setting[t].level >= v
        \/ \E i \in DOMAIN pipe[t] :
               pipe[t][i].kind = "set" /\ pipe[t][i].level >= v

RepairIsOnItsWay ==
    \A v \in Level :
        v \in UpcomingLevel => Low(v) \/ OnItsWay(v) \/ WasLost(v)

LevelInv ==
    /\ TypeOK
    /\ OutputsHaveLimits
    /\ \A t \in Thread : pc[t] # "idle" => setting[t].kind = "set"
    /\ \A v, w \in storing : v = w
    /\ RepairIsOnItsWay

=============================================================================
