--------------------------- MODULE LogLevelsProofs ---------------------------
(***************************************************************************)
(* Theorems about LogLevels for every number of threads, outputs and       *)
(* levels.                                                                 *)
(***************************************************************************)
EXTENDS LogLevels, SequenceTheorems, TLAPS

\* The parts of TypeOK and LevelInv that speak of the settings in transit.
PipeOK ==
    /\ pc \in [Thread -> {"idle", "store", "send"}]
    /\ setting \in [Thread -> Command]
    /\ pipe \in [Thread -> Seq(Command)]

\* Either a setting as high as v is on its way or one has been lost.
Accounted(v) == OnItsWay(v) \/ WasLost(v)

LEMMA LevelsAreNumbers == Level \subseteq Int /\ Warn \in Level /\ Error \in Level
  BY LevelAssumption

\* A command that is read and is not a setting as high as v leaves one that
\* is, which is as high as any m below v, too.
LEMMA TakeKeeps ==
    ASSUME PipeOK, NEW t \in Thread, NEW v \in Level, NEW m \in Level,
           m <= v, OnItsWay(v),
           pipe[t] # <<>>,
           pipe' = [pipe EXCEPT ![t] = Tail(@)],
           UNCHANGED <<pc, setting>>,
           ~(Head(pipe[t]).kind = "set" /\ Head(pipe[t]).level >= v)
    PROVE  OnItsWay(m)'
<1>1. PICK u \in Thread :
          \/ pc[u] = "send" /\ setting[u].level >= v
          \/ \E i \in DOMAIN pipe[u] :
                 pipe[u][i].kind = "set" /\ pipe[u][i].level >= v
  BY DEF OnItsWay
<1>2. \A l \in Level : l >= v => l >= m
  BY LevelsAreNumbers
<1>3. CASE pc[u] = "send" /\ setting[u].level >= v
  <2>1. setting[u].level \in Level
    BY DEF PipeOK, Command
  <2> QED
    BY <1>2, <1>3, <2>1 DEF OnItsWay
<1>4. CASE \E i \in DOMAIN pipe[u] :
               pipe[u][i].kind = "set" /\ pipe[u][i].level >= v
  <2>1. PICK i \in DOMAIN pipe[u] :
            pipe[u][i].kind = "set" /\ pipe[u][i].level >= v
    BY <1>4
  <2>2. pipe[u] \in Seq(Command)
    BY DEF PipeOK
  <2>3. pipe[u][i].level >= m
    <3>1. pipe[u][i] \in Command
      BY <2>2
    <3> QED
      BY <1>2, <2>1, <3>1 DEF Command
  <2>4. CASE u # t
    <3>1. pipe'[u] = pipe[u]
      BY <2>4 DEF PipeOK
    <3> QED
      BY <2>1, <2>3, <3>1 DEF OnItsWay
  <2>5. CASE u = t
    <3>1. pipe[t] \in Seq(Command) /\ pipe'[t] = Tail(pipe[t])
      BY DEF PipeOK
    <3>2. i \in 1 .. Len(pipe[t]) /\ i # 1
      BY <2>1, <2>5, <3>1
    <3>3. /\ Len(Tail(pipe[t])) = Len(pipe[t]) - 1
          /\ \A j \in 1 .. Len(Tail(pipe[t])) : Tail(pipe[t])[j] = pipe[t][j + 1]
      BY <3>1, HeadTailProperties
    <3>4. i - 1 \in DOMAIN Tail(pipe[t])
      BY <3>1, <3>2, <3>3
    <3>5. Tail(pipe[t])[i - 1] = pipe[t][i]
      BY <3>2, <3>3, i - 1 \in 1 .. Len(Tail(pipe[t]))
    <3> QED
      BY <2>1, <2>3, <2>5, <3>1, <3>4, <3>5 DEF OnItsWay
  <2> QED
    BY <2>4, <2>5
<1> QED
  BY <1>1, <1>3, <1>4

\* Neither does a command that is sent or dropped, and what a thread that is
\* about to send a setting sends is that setting.
LEMMA PostKeeps ==
    ASSUME PipeOK, NEW t \in Thread, NEW c \in Command,
           NEW v \in Level, Accounted(v),
           Post(t, c),
           setting' \in [Thread -> Command],
           pc' \in [Thread -> {"idle", "store", "send"}],
           \A u \in Thread \ {t} : pc'[u] = pc[u] /\ setting'[u] = setting[u],
           pc[t] = "send" => c = setting[t] /\ c.kind = "set"
    PROVE  Accounted(v)'
<1>1. CASE WasLost(v)
  <2>1. lost \subseteq lost'
    BY DEF Post, Lose
  <2> QED
    BY <1>1, <2>1 DEF WasLost, Accounted
<1>2. CASE OnItsWay(v) /\ UNCHANGED pipe /\ Lose(c)
  <2>1. PICK u \in Thread :
            \/ pc[u] = "send" /\ setting[u].level >= v
            \/ \E i \in DOMAIN pipe[u] :
                   pipe[u][i].kind = "set" /\ pipe[u][i].level >= v
    BY <1>2 DEF OnItsWay
  <2>2. CASE pc[u] = "send" /\ setting[u].level >= v /\ u # t
    BY <2>2 DEF OnItsWay, Accounted
  <2>3. CASE pc[u] = "send" /\ setting[u].level >= v /\ u = t
    <3>1. c.level \in lost' /\ c.level >= v
      BY <1>2, <2>3 DEF Lose
    <3> QED
      BY <3>1 DEF WasLost, Accounted
  <2>4. CASE \E i \in DOMAIN pipe[u] :
                 pipe[u][i].kind = "set" /\ pipe[u][i].level >= v
    BY <1>2, <2>4 DEF OnItsWay, Accounted
  <2> QED
    BY <2>1, <2>2, <2>3, <2>4
<1>3. CASE OnItsWay(v) /\ pipe' = [pipe EXCEPT ![t] = Append(@, c)]
  <2>1. PICK u \in Thread :
            \/ pc[u] = "send" /\ setting[u].level >= v
            \/ \E i \in DOMAIN pipe[u] :
                   pipe[u][i].kind = "set" /\ pipe[u][i].level >= v
    BY <1>3 DEF OnItsWay
  <2>2. /\ pipe[t] \in Seq(Command)
        /\ pipe'[t] = Append(pipe[t], c)
        /\ \A w \in Thread \ {t} : pipe'[w] = pipe[w]
    BY <1>3 DEF PipeOK
  <2>3. CASE pc[u] = "send" /\ setting[u].level >= v /\ u # t
    BY <2>3 DEF OnItsWay, Accounted
  <2>4. CASE pc[u] = "send" /\ setting[u].level >= v /\ u = t
    <3>1. Len(pipe[t]) + 1 \in DOMAIN pipe'[t]
      BY <2>2
    <3>2. pipe'[t][Len(pipe[t]) + 1] = c
      BY <2>2
    <3> QED
      BY <2>4, <3>1, <3>2 DEF OnItsWay, Accounted
  <2>5. CASE \E i \in DOMAIN pipe[u] :
                 pipe[u][i].kind = "set" /\ pipe[u][i].level >= v
    <3>1. PICK i \in DOMAIN pipe[u] :
              pipe[u][i].kind = "set" /\ pipe[u][i].level >= v
      BY <2>5
    <3>2. CASE u = t
      <4>1. i \in 1 .. Len(pipe[t])
        BY <2>2, <3>1, <3>2
      <4>2. /\ i \in 1 .. Len(Append(pipe[t], c))
            /\ Append(pipe[t], c)[i] = pipe[t][i]
        BY <2>2, <4>1, AppendProperties
      <4>3. i \in DOMAIN pipe'[u] /\ pipe'[u][i] = pipe[u][i]
        BY <2>2, <3>2, <4>2, AppendProperties
      <4> QED
        BY <3>1, <4>3 DEF OnItsWay, Accounted
    <3>3. CASE u # t
      BY <2>2, <3>1, <3>3 DEF OnItsWay, Accounted
    <3> QED
      BY <3>2, <3>3
  <2> QED
    BY <2>1, <2>3, <2>4, <2>5
<1> QED
  BY <1>1, <1>2, <1>3 DEF Accounted, Post

LEMMA PostType ==
    ASSUME TypeOK, NEW t \in Thread, NEW c \in Command, Post(t, c)
    PROVE  pipe' \in [Thread -> Seq(Command)] /\ lost' \subseteq Level
<1>1. c.level \in Level
  BY DEF Command
<1>2. CASE pipe' = [pipe EXCEPT ![t] = Append(@, c)] /\ UNCHANGED lost
  BY <1>2 DEF TypeOK
<1>3. CASE Lose(c) /\ UNCHANGED pipe
  BY <1>1, <1>3 DEF TypeOK, Lose
<1> QED
  BY <1>2, <1>3 DEF Post

LEMMA Commands ==
    ASSUME PipeOK, NEW t \in Thread, pipe[t] # <<>>
    PROVE  Head(pipe[t]) \in Command /\ Tail(pipe[t]) \in Seq(Command)
<1>1. pipe[t] \in Seq(Command)
  BY DEF PipeOK
<1> QED
  BY <1>1, HeadTailProperties

LEMMA TakeType ==
    ASSUME TypeOK, NEW t \in Thread, NEW k, Take(t, k)
    PROVE  pipe' \in [Thread -> Seq(Command)]
<1>1. Tail(pipe[t]) \in Seq(Command)
  BY Commands DEF Take, TypeOK, PipeOK
<1> QED
  BY <1>1 DEF Take, TypeOK

\* What processLimit does to the limits and to what is stored next.
LEMMA ProcessLimit ==
    ASSUME LevelInv, NEW t \in Thread, Take(t, "set"),
           processLimit(Head(pipe[t]).name, Head(pipe[t]).level),
           UNCHANGED <<lowestLog, pc, setting>>
    PROVE  /\ DOMAIN limits' = DOMAIN limits \cup {Head(pipe[t]).name}
           /\ limits' \in [DOMAIN limits' -> Level]
           /\ storing' \subseteq Level
           /\ \A v, w \in storing' : v = w
           /\ lost' \subseteq Level
           /\ RepairIsOnItsWay'
<1> DEFINE n == Head(pipe[t]).name
           l == Head(pipe[t]).level
<1>1. n \in Name /\ l \in Level /\ PipeOK /\ pipe[t] # <<>>
  BY Commands DEF LevelInv, TypeOK, PipeOK, Take, Command
<1> HIDE DEF n, l
<1>2. processLimit(n, l) /\ n = Head(pipe[t]).name /\ l = Head(pipe[t]).level
  BY DEF n, l
<1>3. limits' = LimitOf(n, l)
  BY <1>2 DEF processLimit
<1>4. DOMAIN limits' = DOMAIN limits \cup {n} /\ limits' \in [DOMAIN limits' -> Level]
  BY <1>1, <1>3 DEF LimitOf, LevelInv, TypeOK
<1>5. /\ limits'[n] = l
      /\ \A k \in DOMAIN limits : k # n => limits'[k] = limits[k]
  BY <1>1, <1>3 DEF LimitOf, LevelInv, TypeOK
<1>6. PICK m \in Level :
          /\ storing' = {m}
          /\ \/ l < lowestLog /\ m = l /\ UNCHANGED lost
             \/ IsLowest(m) /\ lost' = {}
  BY <1>1, <1>2 DEF processLimit
<1>7. Low(m)' \/ OnItsWay(m)' \/ WasLost(m)'
  <2>1. CASE IsLowest(m)
    BY <2>1 DEF IsLowest, Low
  <2>2. CASE l < lowestLog /\ m = l /\ UNCHANGED lost
    <3>1. lowestLog \in Level /\ storing = {}
      BY DEF LevelInv, TypeOK, Take
    <3>2. Low(lowestLog) \/ OnItsWay(lowestLog) \/ WasLost(lowestLog)
      BY <3>1 DEF LevelInv, RepairIsOnItsWay, UpcomingLevel
    <3>3. CASE Low(lowestLog)
      <4>1. ASSUME NEW k \in DOMAIN limits' PROVE m <= limits'[k]
        <5>1. \A x, y, z \in Level : x < y /\ y <= z => x <= z
          BY LevelsAreNumbers
        <5>2. CASE k = n
          <6>1. limits'[k] = m
            BY <1>5, <2>2, <5>2
          <6> QED
            BY <6>1, LevelsAreNumbers
        <5>3. CASE k # n
          <6>1. k \in DOMAIN limits /\ limits'[k] = limits[k] /\ lowestLog <= limits[k]
            BY <1>4, <1>5, <3>3, <5>3 DEF Low
          <6>2. limits[k] \in Level
            BY <6>1 DEF LevelInv, TypeOK
          <6> QED
            BY <1>1, <2>2, <3>1, <6>1, <6>2, <5>1
        <5> QED
          BY <5>2, <5>3
      <4> QED
        BY <4>1 DEF Low
    <3>4. CASE OnItsWay(lowestLog)
      <4>1. PICK v \in Level : v = lowestLog
        BY <3>1
      <4>2. OnItsWay(v)
        BY <3>4, <4>1
      <4>3. ~(l >= v)
        BY <1>1, <2>2, <4>1, LevelsAreNumbers
      <4>4. m <= v
        BY <1>1, <2>2, <4>1, LevelsAreNumbers
      <4> QED
        BY <1>1, <1>2, <4>2, <4>3, <4>4, TakeKeeps DEF Take
    <3>5. CASE WasLost(lowestLog)
      <4>1. PICK x \in lost : x >= lowestLog
        BY <3>5 DEF WasLost
      <4>2. x \in Level
        BY DEF LevelInv, TypeOK
      <4>3. x >= m
        BY <1>1, <2>2, <3>1, <4>1, <4>2, LevelsAreNumbers
      <4> QED
        BY <2>2, <4>3 DEF WasLost
    <3> QED
      BY <3>2, <3>3, <3>4, <3>5
  <2> QED
    BY <1>6, <2>1, <2>2
<1>8. RepairIsOnItsWay'
  BY <1>6, <1>7 DEF RepairIsOnItsWay, UpcomingLevel
<1>9. lost' \subseteq Level
  BY <1>6 DEF LevelInv, TypeOK
<1> QED
  BY <1>2, <1>4, <1>6, <1>8, <1>9

LEMMA LevelInit == Init => LevelInv
<1> SUFFICES ASSUME Init PROVE LevelInv
  OBVIOUS
<1>1. NoSetting \in Command
  BY LevelsAreNumbers DEF NoSetting, Message, Command, Name
<1>2. <<>> \in Seq(Command)
  OBVIOUS
<1>3. limits \in [{Cerr} -> Level] /\ DOMAIN limits = {Cerr}
  BY LevelsAreNumbers DEF Init
<1>4. TypeOK
  <2>1. setting \in [Thread -> Command] /\ pipe \in [Thread -> Seq(Command)]
    BY <1>1, <1>2 DEF Init
  <2>2. outputDest \in BOOLEAN /\ lost \subseteq Level
    BY DEF Init
  <2> QED
    BY <1>3, <2>1, <2>2, LevelsAreNumbers DEF Init, TypeOK, Name
<1>5. Low(lowestLog)
  BY LevelsAreNumbers DEF Init, Low
<1> QED
  BY <1>4, <1>5 DEF LevelInv, Init, OutputsHaveLimits, RepairIsOnItsWay,
     UpcomingLevel

\* What a thread calls leaves the limits and the outputs alone.
LEMMA CallerStep ==
    ASSUME LevelInv, NEW t \in Thread,
           UNCHANGED <<limits, outputs, storing>>,
           TypeOK',
           \A u \in Thread : pc'[u] # "idle" => setting'[u].kind = "set",
           \A v \in Level :
               v \in UpcomingLevel' =>
                   \/ Accounted(v)'
                   \/ v \in UpcomingLevel /\ (Accounted(v) => Accounted(v)')
    PROVE  LevelInv'
<1>1. RepairIsOnItsWay'
  BY DEF LevelInv, RepairIsOnItsWay, Low, Accounted
<1> QED
  BY <1>1 DEF LevelInv, OutputsHaveLimits

LEMMA OutputStep ==
    ASSUME LevelInv, NEW t \in Thread, NEW n \in Name, NEW l \in Level,
           output(t, n, l)
    PROVE  LevelInv'
<1> USE DEF output, Call, atomics, loggers
<1>1. Setting(n, l) \in Command
  BY DEF Setting, Command
<1>2. TypeOK'
  <2>1. calls' \in Nat
    BY DEF LevelInv, TypeOK
  <2>2. setting' \in [Thread -> Command]
    BY <1>1 DEF LevelInv, TypeOK
  <2>3. pc' \in [Thread -> {"idle", "store", "send"}]
    BY DEF LevelInv, TypeOK
  <2> QED
    BY <2>1, <2>2, <2>3 DEF LevelInv, TypeOK
<1>3. \A u \in Thread \ {t} : pc'[u] = pc[u] /\ setting'[u] = setting[u]
  BY DEF LevelInv, TypeOK
<1>4. setting'[t].kind = "set"
  BY DEF LevelInv, TypeOK, Setting
<1>5. \A u \in Thread : pc'[u] # "idle" => setting'[u].kind = "set"
  BY <1>3, <1>4 DEF LevelInv
<1>6. ASSUME NEW v \in Level, Accounted(v) PROVE Accounted(v)'
  BY <1>3, <1>6 DEF Accounted, OnItsWay, WasLost
<1>7. UpcomingLevel' = UpcomingLevel
  BY DEF UpcomingLevel
<1> QED
  BY <1>2, <1>5, <1>6, <1>7, CallerStep

\* The setting that lowestLog is lowered to is on its way.
LEMMA LowerLevelStep ==
    ASSUME LevelInv, NEW t \in Thread, LowerLevel(t)
    PROVE  LevelInv'
<1> USE DEF LowerLevel, loggers
<1>1. setting[t].level \in Level
  BY DEF LevelInv, TypeOK, Command
<1>2. TypeOK'
  <2>1. pc' \in [Thread -> {"idle", "store", "send"}]
    BY DEF LevelInv, TypeOK
  <2> QED
    BY <1>1, <2>1 DEF LevelInv, TypeOK
<1>3. /\ pc'[t] = "send"
      /\ \A u \in Thread \ {t} : pc'[u] = pc[u]
  BY DEF LevelInv, TypeOK
<1>4. \A u \in Thread : pc'[u] # "idle" => setting'[u].kind = "set"
  BY <1>3 DEF LevelInv
<1>5. ASSUME NEW v \in Level, Accounted(v) PROVE Accounted(v)'
  BY <1>3, <1>5 DEF Accounted, OnItsWay, WasLost
<1>6. ASSUME NEW v \in Level, v \in UpcomingLevel'
      PROVE  v \in UpcomingLevel \/ Accounted(v)'
  <2>1. CASE storing # {}
    BY <1>6, <2>1 DEF UpcomingLevel
  <2>2. CASE storing = {}
    <3>1. v = setting[t].level
      BY <1>6, <2>2 DEF UpcomingLevel
    <3>2. v >= v
      BY LevelsAreNumbers
    <3>3. setting'[t].level >= v
      BY <3>1, <3>2
    <3> QED
      BY <1>3, <3>3 DEF OnItsWay, Accounted
  <2> QED
    BY <2>1, <2>2
<1> QED
  BY <1>2, <1>4, <1>5, <1>6, CallerStep

\* A thread that posts c, and sends nothing else.
LEMMA PostStep ==
    ASSUME LevelInv, NEW t \in Thread, NEW c \in Command, Post(t, c),
           UNCHANGED <<lowestLog, pc, setting, loggers>>,
           pc[t] = "idle", outputDest' \in BOOLEAN, calls' \in Nat
    PROVE  LevelInv'
<1> USE DEF loggers
<1>1. TypeOK'
  BY PostType DEF LevelInv, TypeOK
<1>2. ASSUME NEW v \in Level, Accounted(v) PROVE Accounted(v)'
  BY <1>2, PostKeeps DEF LevelInv, TypeOK, PipeOK
<1>3. UpcomingLevel' = UpcomingLevel
  BY DEF UpcomingLevel
<1>4. \A u \in Thread : pc'[u] # "idle" => setting'[u].kind = "set"
  BY DEF LevelInv
<1> QED
  BY <1>1, <1>2, <1>3, <1>4, CallerStep

LEMMA SendSettingStep ==
    ASSUME LevelInv, NEW t \in Thread, SendSetting(t)
    PROVE  LevelInv'
<1> USE DEF SendSetting, loggers
<1>1. NoSetting \in Command
  BY LevelsAreNumbers DEF NoSetting, Message, Command, Name
<1>2. setting[t] \in Command /\ setting[t].kind = "set" /\ pc[t] = "send"
  BY DEF LevelInv, TypeOK
<1>3. setting' \in [Thread -> Command]
  BY <1>1 DEF LevelInv, TypeOK
<1>4. pc' \in [Thread -> {"idle", "store", "send"}]
  BY DEF LevelInv, TypeOK
<1>5. TypeOK'
  <2>1. pipe' \in [Thread -> Seq(Command)] /\ lost' \subseteq Level
    BY <1>2, PostType DEF LevelInv
  <2>2. outputDest' \in BOOLEAN
    OBVIOUS
  <2> QED
    BY <1>3, <1>4, <2>1, <2>2 DEF LevelInv, TypeOK
<1>6. /\ pc'[t] = "idle"
      /\ \A u \in Thread \ {t} : pc'[u] = pc[u] /\ setting'[u] = setting[u]
  BY DEF LevelInv, TypeOK
<1>7. ASSUME NEW v \in Level, Accounted(v) PROVE Accounted(v)'
  BY <1>2, <1>3, <1>4, <1>6, <1>7, PostKeeps DEF LevelInv, TypeOK, PipeOK
<1>8. UpcomingLevel' = UpcomingLevel
  BY DEF UpcomingLevel
<1>9. \A u \in Thread : pc'[u] # "idle" => setting'[u].kind = "set"
  BY <1>6 DEF LevelInv
<1> QED
  BY <1>5, <1>7, <1>8, <1>9, CallerStep

LEMMA RemOutputStep ==
    ASSUME LevelInv, NEW t \in Thread, NEW n \in Name, remOutput(t, n)
    PROVE  LevelInv'
<1> USE DEF remOutput, Call
<1>1. calls' \in Nat
  BY DEF LevelInv, TypeOK
<1>2. CASE n = Cerr
  <2>1. TypeOK'
    BY <1>1, <1>2 DEF LevelInv, TypeOK, loggers
  <2>2. \A v \in Level : Accounted(v) => Accounted(v)'
    BY <1>2 DEF Accounted, OnItsWay, WasLost
  <2>3. UpcomingLevel' = UpcomingLevel
    BY DEF UpcomingLevel, loggers
  <2>4. \A u \in Thread : pc'[u] # "idle" => setting'[u].kind = "set"
    BY DEF LevelInv
  <2> QED
    BY <2>1, <2>2, <2>3, <2>4, CallerStep DEF loggers
<1>3. CASE n # Cerr
  <2>1. Removal(n) \in Command
    BY LevelsAreNumbers DEF Removal, Command
  <2>2. Post(t, Removal(n)) /\ outputDest' = outputDest
    BY <1>3
  <2>3. outputDest' \in BOOLEAN
    BY <2>2 DEF LevelInv, TypeOK
  <2> QED
    BY <1>1, <2>1, <2>2, <2>3, PostStep
<1> QED
  BY <1>2, <1>3

LEMMA LogStep ==
    ASSUME LevelInv, NEW t \in Thread, NEW l \in Level, log(t, l)
    PROVE  LevelInv'
<1> USE DEF log, Call, atomics
<1>1. calls' \in Nat
  BY DEF LevelInv, TypeOK
<1>2. Message(l) \in Command
  BY DEF Message, Command, Name
<1>3. outputDest' \in BOOLEAN
  BY DEF LevelInv, TypeOK
<1> QED
  BY <1>1, <1>2, <1>3, PostStep

\* cerr, addServer and addFile: what has become an output has a limit.
LEMMA SettingTaken ==
    ASSUME LevelInv, NEW t \in Thread, Take(t, "set"),
           processLimit(Head(pipe[t]).name, Head(pipe[t]).level),
           outputs' \subseteq outputs \cup {Head(pipe[t]).name},
           UNCHANGED <<atomics, callers>>
    PROVE  LevelInv'
<1> USE DEF atomics, callers
<1>1. /\ DOMAIN limits' = DOMAIN limits \cup {Head(pipe[t]).name}
      /\ limits' \in [DOMAIN limits' -> Level]
      /\ storing' \subseteq Level
      /\ \A v, w \in storing' : v = w
      /\ lost' \subseteq Level
      /\ RepairIsOnItsWay'
  BY ProcessLimit
<1>2. Head(pipe[t]).name \in Name
  BY Commands DEF LevelInv, TypeOK, PipeOK, Take, Command
<1>3. pipe' \in [Thread -> Seq(Command)]
  BY TakeType DEF LevelInv
<1>4. TypeOK'
  BY <1>1, <1>2, <1>3 DEF LevelInv, TypeOK
<1>5. OutputsHaveLimits'
  BY <1>1 DEF LevelInv, OutputsHaveLimits
<1> QED
  BY <1>1, <1>4, <1>5 DEF LevelInv

\* Any other command: it is no setting, or its file cannot be opened.
LEMMA OtherTaken ==
    ASSUME LevelInv, NEW t \in Thread, NEW k, Take(t, k),
           \/ k # "set" /\ UNCHANGED lost
           \/ Lose(Head(pipe[t])),
           outputs' \subseteq outputs,
           UNCHANGED <<atomics, callers, limits, storing>>
    PROVE  LevelInv'
<1> USE DEF atomics, callers
<1>1. Head(pipe[t]) \in Command
  BY Commands DEF LevelInv, TypeOK, PipeOK, Take
<1>2. lost \subseteq lost' /\ lost' \subseteq Level
  BY <1>1 DEF Lose, LevelInv, TypeOK, Command
<1>3. pipe' \in [Thread -> Seq(Command)]
  BY TakeType DEF LevelInv
<1>4. TypeOK'
  BY <1>2, <1>3 DEF LevelInv, TypeOK
<1>5. ASSUME NEW v \in Level, Accounted(v) PROVE Accounted(v)'
  <2>1. CASE WasLost(v)
    BY <1>2, <2>1 DEF WasLost, Accounted
  <2>2. CASE OnItsWay(v) /\ Head(pipe[t]).kind = "set" /\ Head(pipe[t]).level >= v
    <3>1. Head(pipe[t]).level \in lost'
      BY <2>2 DEF Lose, Take
    <3> QED
      BY <2>2, <3>1 DEF WasLost, Accounted
  <2>3. CASE OnItsWay(v) /\ ~(Head(pipe[t]).kind = "set" /\ Head(pipe[t]).level >= v)
    <3>1. v <= v
      BY LevelsAreNumbers
    <3>2. OnItsWay(v)'
      BY <2>3, <3>1, TakeKeeps DEF Take, LevelInv, TypeOK, PipeOK
    <3> QED
      BY <3>2 DEF Accounted
  <2> QED
    BY <1>5, <2>1, <2>2, <2>3 DEF Accounted
<1>6. UpcomingLevel' = UpcomingLevel
  BY DEF UpcomingLevel
<1>7. RepairIsOnItsWay'
  BY <1>5, <1>6 DEF LevelInv, RepairIsOnItsWay, Low, Accounted
<1> QED
  BY <1>4, <1>7 DEF LevelInv, OutputsHaveLimits

LEMMA LoggerSteps ==
    ASSUME LevelInv, NEW t \in Thread, LoggerStep(t)
    PROVE  LevelInv'
<1>1. CASE SetLimit(t)
  BY <1>1, SettingTaken DEF SetLimit
<1>2. CASE AddServer(t)
  BY <1>2, SettingTaken DEF AddServer
<1>3. CASE FileFails(t)
  BY <1>3, OtherTaken DEF FileFails
<1>4. CASE Remove(t)
  BY <1>4, OtherTaken DEF Remove
<1>5. CASE Show(t)
  <2>1. limits' = limits
    BY <1>5 DEF Show, LevelInv, TypeOK, OutputsHaveLimits
  <2> QED
    BY <1>5, <2>1, OtherTaken DEF Show
<1> QED
  BY <1>1, <1>2, <1>3, <1>4, <1>5 DEF LoggerStep

LEMMA StoreLevelStep == LevelInv /\ StoreLevel => LevelInv'
<1> SUFFICES ASSUME LevelInv, NEW m \in storing,
                    lowestLog' = m, storing' = {},
                    UNCHANGED <<outputDest, callers, pipe, limits, outputs, lost>>
             PROVE  LevelInv'
  BY DEF StoreLevel
<1> USE DEF callers
<1>1. TypeOK'
  BY DEF LevelInv, TypeOK
<1>2. UpcomingLevel' = UpcomingLevel
  BY DEF LevelInv, UpcomingLevel
<1>3. \A v \in Level : OnItsWay(v)' = OnItsWay(v)
  BY DEF OnItsWay
<1>4. RepairIsOnItsWay'
  BY <1>2, <1>3 DEF LevelInv, RepairIsOnItsWay, Low, WasLost
<1> QED
  BY <1>1, <1>4 DEF LevelInv, OutputsHaveLimits

LEMMA LevelStep == LevelInv /\ [Next]_vars => LevelInv'
<1>1. LevelInv /\ UNCHANGED vars => LevelInv'
  BY DEF LevelInv, TypeOK, OutputsHaveLimits, RepairIsOnItsWay, UpcomingLevel,
     OnItsWay, WasLost, Low, vars, atomics, callers, loggers
<1> QED
  BY <1>1, OutputStep, RemOutputStep, LogStep, LowerLevelStep,
     SendSettingStep, LoggerSteps, StoreLevelStep DEF Next

\* Every level, limit and command is of its type: no limit is ever inserted.
THEOREM LevelTypeCorrect == Spec => []TypeOK
<1>1. LevelInv => TypeOK
  BY DEF LevelInv
<1> QED
  BY <1>1, LevelInit, LevelStep, PTL DEF Spec

\* limits[name] always finds the limit of an open output.
THEOREM LimitsCorrect == Spec => []OutputsHaveLimits
<1>1. LevelInv => OutputsHaveLimits
  BY DEF LevelInv
<1> QED
  BY <1>1, LevelInit, LevelStep, PTL DEF Spec

\* For any number of threads, with no lock around the two test-and-store of
\* lowestLog and with settings that are lost at any point: once no setting is
\* on its way log() drops nothing that an output wants, or a setting as high as
\* lowestLog was lost and none as high has been read since.
THEOREM SettleCorrect == Spec => []LevelsSettle
<1>1. ASSUME LevelInv PROVE LevelsSettle
  <2> SUFFICES ASSUME Settled PROVE Low(lowestLog) \/ WasLost(lowestLog)
    BY DEF LevelsSettle
  <2>1. lowestLog \in Level /\ lowestLog \in UpcomingLevel
    BY <1>1 DEF LevelInv, TypeOK, UpcomingLevel, Settled
  <2>2. ~OnItsWay(lowestLog)
    BY DEF OnItsWay, Settled
  <2> QED
    BY <1>1, <2>1, <2>2 DEF LevelInv, RepairIsOnItsWay
<1> QED
  BY <1>1, LevelInit, LevelStep, PTL DEF Spec

=============================================================================
