-------------------------- MODULE RequesterProofs --------------------------
(***************************************************************************)
(* Theorems about Requester for any number of requesters and of GETs, and  *)
(* whatever is lost, left without a tag or banned.                         *)
(***************************************************************************)
EXTENDS Requester, FiniteSetTheorems, TLAPS

LEMMA Keys ==
    /\ NaN # None /\ NaN \notin Nat /\ None \notin Nat /\ None \notin Message
    /\ Pool \subseteq Nat /\ None \notin Pool
BY RequesterAssumption, NoneIsNoMessage DEF Pool

\* What a queue of messages holds when one is put behind it or taken from it.
LEMMA QueueOps ==
    ASSUME NEW S, NEW q \in Seq(S)
    PROVE  /\ \A m \in S : Range(Append(q, m)) = Range(q) \cup {m}
           /\ q # <<>> => /\ Head(q) \in S
                          /\ Tail(q) \in Seq(S)
                          /\ Range(q) = {Head(q)} \cup Range(Tail(q))
           /\ Range(q) \subseteq S
<1>1. ASSUME NEW m \in S PROVE Range(Append(q, m)) = Range(q) \cup {m}
  <2>1. /\ DOMAIN Append(q, m) = 1 .. Len(q) + 1
        /\ \A j \in 1 .. Len(q) : Append(q, m)[j] = q[j]
        /\ Append(q, m)[Len(q) + 1] = m
    OBVIOUS
  <2>2. 1 .. Len(q) + 1 = (1 .. Len(q)) \cup {Len(q) + 1} /\ DOMAIN q = 1 .. Len(q)
    OBVIOUS
  <2> QED
    BY <2>1, <2>2 DEF Range
<1>2. ASSUME q # <<>>
      PROVE  /\ Head(q) \in S
             /\ Tail(q) \in Seq(S)
             /\ Range(q) = {Head(q)} \cup Range(Tail(q))
  <2>1. /\ Head(q) = q[1] /\ Head(q) \in S /\ Tail(q) \in Seq(S)
        /\ Len(q) \in Nat \ {0}
        /\ DOMAIN q = 1 .. Len(q) /\ DOMAIN Tail(q) = 1 .. Len(q) - 1
        /\ \A j \in 1 .. Len(q) - 1 : Tail(q)[j] = q[j + 1]
    BY <1>2
  <2>2. \A j \in 1 .. Len(q) : j = 1 \/ (j - 1 \in 1 .. Len(q) - 1 /\ Tail(q)[j - 1] = q[j])
    BY <2>1
  <2>3. Range(q) \subseteq {Head(q)} \cup Range(Tail(q))
    <3> SUFFICES ASSUME NEW j \in 1 .. Len(q)
                 PROVE  q[j] \in {Head(q)} \cup Range(Tail(q))
      BY <2>1 DEF Range
    <3>1. CASE j = 1
      BY <2>1, <3>1
    <3>2. CASE j - 1 \in 1 .. Len(q) - 1 /\ Tail(q)[j - 1] = q[j]
      BY <2>1, <3>2 DEF Range
    <3> QED
      BY <2>2, <3>1, <3>2
  <2>4. Head(q) \in Range(q) /\ Range(Tail(q)) \subseteq Range(q)
    BY <2>1 DEF Range
  <2> QED
    BY <2>1, <2>3, <2>4
<1>3. Range(q) \subseteq S
  BY DEF Range
<1> QED
  BY <1>1, <1>2, <1>3

LEMMA NextTag ==
    ASSUME NEW t \in Nat, NEW u, u = t + 1
    PROVE  /\ t \in 0 .. u - 1
           /\ \A v \in 0 .. t - 1 : v # t /\ v \in 0 .. u - 1
OBVIOUS

LEMMA AppendAt ==
    ASSUME NEW S, NEW q \in Seq(S), NEW m \in S
    PROVE  /\ DOMAIN q \subseteq DOMAIN Append(q, m)
           /\ \A j \in DOMAIN q : Append(q, m)[j] = q[j]
           /\ \A j \in DOMAIN Append(q, m) :
                  j \in DOMAIN q \/ (j = Len(q) + 1 /\ Append(q, m)[j] = m)
<1>1. /\ DOMAIN Append(q, m) = 1 .. Len(q) + 1 /\ DOMAIN q = 1 .. Len(q)
      /\ Len(q) \in Nat
      /\ \A j \in 1 .. Len(q) : Append(q, m)[j] = q[j]
      /\ Append(q, m)[Len(q) + 1] = m
  OBVIOUS
<1> QED
  BY <1>1

LEMMA TailAt ==
    ASSUME NEW S, NEW q \in Seq(S), q # <<>>
    PROVE  /\ 1 \in DOMAIN q /\ Head(q) = q[1]
           /\ \A j \in DOMAIN Tail(q) :
                  j \in Nat \ {0} /\ j + 1 \in DOMAIN q /\ Tail(q)[j] = q[j + 1]
<1>1. /\ Head(q) = q[1] /\ Len(q) \in Nat \ {0}
      /\ DOMAIN q = 1 .. Len(q) /\ DOMAIN Tail(q) = 1 .. Len(q) - 1
      /\ \A j \in 1 .. Len(q) - 1 : Tail(q)[j] = q[j + 1]
  OBVIOUS
<1> QED
  BY <1>1

LEMMA TableOps ==
    ASSUME NEW f, NEW k, NEW e
    PROVE  /\ DOMAIN With(f, k, e) = DOMAIN f \cup {k}
           /\ With(f, k, e)[k] = e
           /\ \A l \in DOMAIN f \ {k} : With(f, k, e)[l] = f[l]
           /\ DOMAIN Without(f, k) = DOMAIN f \ {k}
           /\ \A l \in DOMAIN f \ {k} : Without(f, k)[l] = f[l]
BY DEF With, Without, Restrict

-----------------------------------------------------------------------------
(* Type correctness.                                                       *)

LEMMA InitType == Init => TypeOK
<1> SUFFICES ASSUME Init PROVE TypeOK
  OBVIOUS
<1> USE RequesterAssumption DEF Init, TypeOK
<1>1. i \in Pool
  BY DEF Pool
<1>2. queue \in [Pool -> Seq(Message)]
  OBVIOUS
<1>3. \A r \in Pool : taggedRes[r] = <<>> /\ DOMAIN taggedRes[r] = {}
  OBVIOUS
<1> QED
  BY <1>1, <1>2, <1>3

LEMMA AskType ==
    ASSUME NEW type \in {"AUTH", "GET"}, NEW t \in Nat \cup {NaN}, NEW c \in Client
    PROVE  Ask(type, t, c) \in Message
BY DEF Ask, Message

LEMMA EnqueueType ==
    ASSUME TypeOK, NEW r \in Pool, NEW m \in Message, Enqueue(r, m)
    PROVE  /\ queue' \in [Pool -> Seq(Message)]
           /\ queue'[r] = Append(queue[r], m)
           /\ \A s \in Pool \ {r} : queue'[s] = queue[s]
BY DEF TypeOK, Enqueue

LEMMA ArriveType ==
    ASSUME TypeOK, NEW c \in Client, Arrive(c)
    PROVE  TypeOK'
<1> DEFINE r == NextRequester
<1>1. r \in Pool
  BY RequesterAssumption DEF NextRequester, Pool, TypeOK
<1>2. tag[r] \in Nat /\ tag' = [tag EXCEPT ![r] = tag[r] + 1]
  BY <1>1 DEF TypeOK, Arrive
<1>3. queue' \in [Pool -> Seq(Message)]
  BY <1>1, <1>2, AskType, EnqueueType DEF Arrive
<1>4. /\ taggedRes' = [taggedRes EXCEPT ![r] = With(taggedRes[r], tag[r], Entry("AUTH", c))]
      /\ DOMAIN taggedRes' = Pool
  BY <1>1 DEF TypeOK, Arrive
<1>5. ASSUME NEW s \in Pool
      PROVE  /\ DOMAIN taggedRes'[s] \subseteq 0 .. tag'[s] - 1 \cup {NaN}
             /\ \A k \in DOMAIN taggedRes'[s] :
                    taggedRes'[s][k] \in [type : {IF k = NaN THEN "GET" ELSE "AUTH"},
                                         fun : Client]
  <2>1. CASE s # r
    BY <1>1, <1>2, <1>4, <2>1 DEF TypeOK
  <2>2. CASE s = r
    <3>1. taggedRes'[s] = With(taggedRes[r], tag[r], Entry("AUTH", c))
      BY <1>1, <1>4, <2>2 DEF TypeOK
    <3>2. /\ DOMAIN taggedRes'[s] = DOMAIN taggedRes[r] \cup {tag[r]}
          /\ taggedRes'[s][tag[r]] = Entry("AUTH", c)
          /\ \A l \in DOMAIN taggedRes[r] \ {tag[r]} : taggedRes'[s][l] = taggedRes[r][l]
      BY <3>1 DEF With
    <3>3. tag[r] # NaN /\ Entry("AUTH", c) \in [type : {"AUTH"}, fun : Client]
      BY <1>2, Keys DEF Entry
    <3>4. tag'[s] = tag[r] + 1
      BY <1>1, <1>2, <2>2 DEF TypeOK
    <3>5. DOMAIN taggedRes'[s] \subseteq 0 .. tag'[s] - 1 \cup {NaN}
      BY <1>1, <1>2, <3>2, <3>4 DEF TypeOK
    <3>6. ASSUME NEW k \in DOMAIN taggedRes'[s]
          PROVE  taggedRes'[s][k] \in [type : {IF k = NaN THEN "GET" ELSE "AUTH"},
                                      fun : Client]
      BY <1>1, <3>2, <3>3 DEF TypeOK
    <3> QED
      BY <3>5, <3>6
  <2> QED
    BY <2>1, <2>2
<1>6. tag' \in [Pool -> Nat]
  BY <1>1, <1>2 DEF TypeOK
<1>7. /\ i' \in Pool /\ link' = link /\ given' = given
      /\ told' = [told EXCEPT ![c] = "waiting"] /\ at' = [at EXCEPT ![c] = r]
      /\ granted' = granted /\ orphan' = orphan /\ faulty' = faulty
  BY <1>1 DEF Arrive
<1> HIDE DEF r
<1> QED
  BY <1>1, <1>3, <1>4, <1>5, <1>6, <1>7 DEF TypeOK

LEMMA SocketType ==
    ASSUME TypeOK, NEW r \in Pool, Send(r) \/ Answer(r) \/ Lose(r) \/ AnswerUntagged(r)
    PROVE  TypeOK'
<1> USE DEF TypeOK
<1>1. CASE Send(r)
  <2>1. Head(queue[r]) \in Message /\ Tail(queue[r]) \in Seq(Message)
    BY <1>1, QueueOps DEF Send
  <2> QED
    BY <1>1, <2>1 DEF Send
<1>2. ASSUME link[r] # None
      PROVE  /\ \A body \in {"", "lost", "ok"} \cup Verdicts :
                     [link[r] EXCEPT !.body = body] \in Message
             /\ [link[r] EXCEPT !.body = "ok", !.tag = None] \in Message
             /\ link[r].client \in Client
  <2>1. link[r] \in Message
    BY <1>2
  <2> QED
    BY <2>1 DEF Message
<1>3. CASE Answer(r)
  <2>1. PICK body \in {"ok"} \cup Verdicts :
            /\ link' = [link EXCEPT ![r] = [link[r] EXCEPT !.body = body]]
            /\ granted' = IF body = "granted" THEN granted \cup {link[r].client} ELSE granted
    BY <1>3 DEF Answer
  <2>2. link[r] # None
    BY <1>3 DEF Answer, Unanswered
  <2>3. link' \in [Pool -> Message \cup {None}] /\ granted' \subseteq Client
    BY <1>2, <2>1, <2>2
  <2> QED
    BY <1>3, <2>3 DEF Answer
<1>4. CASE Lose(r)
  <2>1. link' \in [Pool -> Message \cup {None}]
    BY <1>2, <1>4 DEF Lose, Unanswered
  <2> QED
    BY <1>4, <2>1 DEF Lose
<1>5. CASE AnswerUntagged(r)
  <2>1. link' \in [Pool -> Message \cup {None}]
    BY <1>2, <1>5 DEF AnswerUntagged, Unanswered
  <2> QED
    BY <1>5, <2>1 DEF AnswerUntagged
<1> QED
  BY <1>1, <1>3, <1>4, <1>5

\* What the listener reads: a reply, and the entry with its tag.
LEMMA Listened ==
    ASSUME TypeOK, NEW r \in Pool, Received(r)
    PROVE  /\ link[r] \in Message /\ link[r].body \notin {"", "lost"}
           /\ link' \in [Pool -> Message \cup {None}]
           /\ link'[r] = None /\ \A s \in Pool \ {r} : link'[s] = link[s]
           /\ UNCHANGED <<i, tag, at, granted, faulty>>
           /\ Known(r) => /\ Tagged(r) = taggedRes[r][link[r].tag]
                          /\ Tagged(r).fun \in Client
                          /\ link[r].tag # NaN => Tagged(r).type = "AUTH"
                          /\ link[r].tag = NaN => Tagged(r).type = "GET"
BY ZenonT(40) DEF TypeOK, Received, Replied, Known, Tagged

LEMMA TableType ==
    ASSUME TypeOK, NEW r \in Pool, NEW f, taggedRes' = [taggedRes EXCEPT ![r] = f],
           tag' = tag, DOMAIN f \subseteq DOMAIN taggedRes[r] \cup {NaN},
           \A k \in DOMAIN f :
               f[k] \in [type : {IF k = NaN THEN "GET" ELSE "AUTH"}, fun : Client]
    PROVE  /\ DOMAIN taggedRes' = Pool
           /\ taggedRes'[r] = f /\ \A s \in Pool \ {r} : taggedRes'[s] = taggedRes[s]
           /\ \A s \in Pool :
                  /\ DOMAIN taggedRes'[s] \subseteq 0 .. tag'[s] - 1 \cup {NaN}
                  /\ \A k \in DOMAIN taggedRes'[s] :
                         taggedRes'[s][k] \in [type : {IF k = NaN THEN "GET" ELSE "AUTH"},
                                              fun : Client]
<1>1. /\ DOMAIN taggedRes' = Pool
      /\ taggedRes'[r] = f /\ \A s \in Pool \ {r} : taggedRes'[s] = taggedRes[s]
  BY DEF TypeOK
<1>2. ASSUME NEW s \in Pool
      PROVE  /\ DOMAIN taggedRes'[s] \subseteq 0 .. tag'[s] - 1 \cup {NaN}
             /\ \A k \in DOMAIN taggedRes'[s] :
                    taggedRes'[s][k] \in [type : {IF k = NaN THEN "GET" ELSE "AUTH"},
                                         fun : Client]
  <2>1. CASE s = r
    BY <1>1, <2>1 DEF TypeOK
  <2>2. CASE s # r
    BY <1>1, <2>2 DEF TypeOK
  <2> QED
    BY <2>1, <2>2
<1> QED
  BY <1>1, <1>2

\* The tables after a reply was taken from one and after a callback was stored.
LEMMA TakenTable ==
    ASSUME TypeOK, NEW r \in Pool, tag' = tag,
           taggedRes' = [taggedRes EXCEPT ![r] = Without(@, link[r].tag)]
    PROVE  /\ DOMAIN taggedRes' = Pool
           /\ \A s \in Pool \ {r} : taggedRes'[s] = taggedRes[s]
           /\ DOMAIN taggedRes'[r] = DOMAIN taggedRes[r] \ {link[r].tag}
           /\ \A k \in DOMAIN taggedRes'[r] : taggedRes'[r][k] = taggedRes[r][k]
           /\ \A s \in Pool :
                  /\ DOMAIN taggedRes'[s] \subseteq 0 .. tag'[s] - 1 \cup {NaN}
                  /\ \A k \in DOMAIN taggedRes'[s] :
                         taggedRes'[s][k] \in [type : {IF k = NaN THEN "GET" ELSE "AUTH"},
                                              fun : Client]
<1> DEFINE f == Without(taggedRes[r], link[r].tag)
<1>1. /\ DOMAIN f = DOMAIN taggedRes[r] \ {link[r].tag}
      /\ \A k \in DOMAIN f : f[k] = taggedRes[r][k]
  BY DEF Without, Restrict
<1>2. \A k \in DOMAIN f :
          f[k] \in [type : {IF k = NaN THEN "GET" ELSE "AUTH"}, fun : Client]
  BY <1>1 DEF TypeOK
<1>3. taggedRes' = [taggedRes EXCEPT ![r] = f]
  BY DEF TypeOK
<1> HIDE DEF f
<1> QED
  BY <1>1, <1>2, <1>3, TableType

LEMMA StoredTable ==
    ASSUME TypeOK, NEW r \in Pool, tag' = tag, Known(r), link[r].tag # NaN,
           StoreCallback(r)
    PROVE  /\ DOMAIN taggedRes' = Pool
           /\ \A s \in Pool \ {r} : taggedRes'[s] = taggedRes[s]
           /\ DOMAIN taggedRes'[r] = (DOMAIN taggedRes[r] \ {link[r].tag}) \cup {NaN}
           /\ taggedRes'[r][NaN].fun = Tagged(r).fun
           /\ \A k \in DOMAIN taggedRes'[r] \ {NaN} : taggedRes'[r][k] = taggedRes[r][k]
           /\ \A s \in Pool :
                  /\ DOMAIN taggedRes'[s] \subseteq 0 .. tag'[s] - 1 \cup {NaN}
                  /\ \A k \in DOMAIN taggedRes'[s] :
                         taggedRes'[s][k] \in [type : {IF k = NaN THEN "GET" ELSE "AUTH"},
                                              fun : Client]
           /\ orphan' = orphan \cup
                  (IF NaN \in DOMAIN taggedRes[r] THEN {taggedRes[r][NaN].fun} ELSE {})
<1> DEFINE e == Entry("GET", Tagged(r).fun)
           g == With(taggedRes[r], NaN, e)
           f == Without(g, link[r].tag)
<1>1. /\ DOMAIN g = DOMAIN taggedRes[r] \cup {NaN}
      /\ g[NaN] = e
      /\ \A k \in DOMAIN taggedRes[r] \ {NaN} : g[k] = taggedRes[r][k]
  BY DEF With
<1>2. DOMAIN f = DOMAIN g \ {link[r].tag} /\ \A k \in DOMAIN f : f[k] = g[k]
  BY DEF Without, Restrict
<1>3. Tagged(r).fun \in Client
  BY DEF TypeOK, Known, Tagged
<1>4. e \in [type : {"GET"}, fun : Client] /\ e.fun = Tagged(r).fun
  BY <1>3 DEF Entry
<1>5. taggedRes' = [taggedRes EXCEPT ![r] = f]
  BY DEF StoreCallback, TypeOK
<1>6. orphan' = orphan \cup
                  (IF NaN \in DOMAIN taggedRes[r] THEN {taggedRes[r][NaN].fun} ELSE {})
  BY DEF StoreCallback
<1> HIDE DEF e, f, g
<1>7. /\ DOMAIN f = (DOMAIN taggedRes[r] \ {link[r].tag}) \cup {NaN}
      /\ f[NaN] = e
      /\ \A k \in DOMAIN f \ {NaN} : f[k] = taggedRes[r][k]
  BY <1>1, <1>2
<1>8. \A k \in DOMAIN f :
          f[k] \in [type : {IF k = NaN THEN "GET" ELSE "AUTH"}, fun : Client]
  BY <1>4, <1>7 DEF TypeOK
<1> QED
  BY <1>4, <1>5, <1>6, <1>7, <1>8, TableType, ZenonT(40)

LEMMA ListenType ==
    ASSUME TypeOK, NEW r \in Pool, OnMessage(r)
    PROVE  TypeOK'
<1>1. Received(r)
  BY DEF OnMessage, DropReply, Banned, Authorized, Reply
<1>2. /\ link[r] \in Message
      /\ link' \in [Pool -> Message \cup {None}]
      /\ UNCHANGED <<i, tag, at, granted, faulty>>
      /\ Known(r) => /\ Tagged(r).fun \in Client
                     /\ link[r].tag # NaN => Tagged(r).type = "AUTH"
                     /\ link[r].tag = NaN => Tagged(r).type = "GET"
  BY <1>1, Listened
<1>3. CASE DropReply(r)
  BY <1>2, <1>3 DEF DropReply, TypeOK
<1>4. CASE Banned(r)
  <2>1. told' \in [Client -> {"idle", "waiting", "banned", "answered"}]
    BY <1>2, <1>4 DEF Banned, TypeOK
  <2> QED
    BY <1>2, <1>4, <2>1, TakenTable DEF Banned, TypeOK
<1>5. CASE Authorized(r)
  <2>1. link[r].tag # NaN /\ Known(r) /\ StoreCallback(r)
    BY <1>2, <1>5 DEF Authorized
  <2>2. queue' \in [Pool -> Seq(Message)]
    BY <1>2, <1>5, AskType, EnqueueType DEF Authorized
  <2>3. orphan' \subseteq Client
    BY <1>2, <2>1, StoredTable DEF TypeOK
  <2>4. UNCHANGED <<told, given>>
    BY <1>5 DEF Authorized
  <2> QED
    BY <1>2, <2>1, <2>2, <2>3, <2>4, StoredTable DEF TypeOK
<1>6. CASE Reply(r)
  <2>1. link[r].client \in 0 .. Browsers
    <3>1. link[r].client \in Client
      BY <1>2 DEF Message
    <3> QED
      BY <3>1, RequesterAssumption DEF Client
  <2>2. /\ told' \in [Client -> {"idle", "waiting", "banned", "answered"}]
        /\ given' \in [Client -> 0 .. Browsers]
    BY <1>2, <1>6, <2>1 DEF Reply, TypeOK
  <2> QED
    BY <1>2, <1>6, <2>2, TakenTable DEF Reply, TypeOK
<1> QED
  BY <1>3, <1>4, <1>5, <1>6 DEF OnMessage

LEMMA TypeStep == TypeOK /\ [Next]_vars => TypeOK'
<1>1. ASSUME TypeOK, UNCHANGED vars PROVE TypeOK'
  BY <1>1 DEF TypeOK, vars
<1> QED
  BY <1>1, ArriveType, SocketType, ListenType DEF Next

\* The variables keep their types; a tag that is taken is below the next one.
THEOREM RequesterTypeCorrect == Spec => []TypeOK
BY InitType, TypeStep, PTL DEF Spec

-----------------------------------------------------------------------------
(* Nobody is called back twice, and nobody is forgotten without a reason.  *)

Local(r) == MessagesAreTrue(r) /\ EntriesWait(r) /\ OneGetEach(r)

\* What is in a queue or on a link is a message.
LEMMA SentType ==
    ASSUME TypeOK, NEW r \in Pool
    PROVE  /\ Sent(r) \subseteq Message
           /\ \A m \in Sent(r) : m.client \in Client /\ m.type \in {"AUTH", "GET"}
           /\ Gets(r) \subseteq Sent(r)
<1>1. Range(queue[r]) \subseteq Message
  BY QueueOps DEF TypeOK
<1>2. Sent(r) \subseteq Message
  BY <1>1 DEF TypeOK, Sent
<1>3. \A m \in Message : m.client \in Client /\ m.type \in {"AUTH", "GET"}
  BY DEF Message
<1> QED
  BY <1>2, <1>3 DEF Gets

\* A requester of which the step changes nothing.
LEMMA OtherRequester ==
    ASSUME RequesterInv, TypeOK', NEW r \in Pool,
           taggedRes'[r] = taggedRes[r], queue'[r] = queue[r], link'[r] = link[r],
           tag'[r] = tag[r], granted \subseteq granted', faulty \subseteq faulty',
           \A c \in Client : at[c] = r =>
               at'[c] = r /\ told'[c] = told[c] /\ (c \in orphan' <=> c \in orphan),
           \A c \in Client : at'[c] = r => at[c] = r
    PROVE  Local(r)'
<1>1. Local(r) /\ TypeOK /\ \A c \in orphan : c \in Client
  BY DEF RequesterInv, Local, TypeOK
<1>2. Sent(r)' = Sent(r) /\ Gets(r)' = Gets(r)
  BY DEF Sent, Gets
<1>3. Sent(r) \subseteq Message /\ \A m \in Sent(r) : m.client \in Client
  BY <1>1, SentType
<1>4. MessagesAreTrue(r)'
  <2>1. Range(queue[r])' = Range(queue[r])
    BY DEF Range
  <2>2. \A m \in Sent(r) : at'[m.client] = r
    BY <1>1, <1>3 DEF Local, MessagesAreTrue
  <2>3. \A m \in Sent(r) :
           /\ m.tag = None => r \in faulty'
           /\ m.type = "GET" => m.tag \in {NaN, None} /\ m.client \in granted'
           /\ m.type = "AUTH" => m.tag \in 0 .. tag'[r] - 1 \cup {None}
           /\ m.type = "AUTH" /\ m.tag \in DOMAIN taggedRes'[r] =>
                  /\ taggedRes'[r][m.tag].fun = m.client
                  /\ m.body \in {"granted", "ok"} => m.client \in granted'
    BY <1>1 DEF Local, MessagesAreTrue
  <2>4. \A m \in Range(queue[r]) : m.body = "" /\ m.tag # None
    BY <1>1 DEF Local, MessagesAreTrue
  <2> QED
    BY <1>2, <2>1, <2>2, <2>3, <2>4 DEF MessagesAreTrue
<1>5. EntriesWait(r)'
  <2>1. Waiting(r)' = Waiting(r)
    <3>1. \A c \in Client : (at'[c] = r /\ told'[c] = "waiting")
                                <=> (at[c] = r /\ told[c] = "waiting")
      OBVIOUS
    <3> QED
      BY <3>1 DEF Waiting
  <2>2. Entries(r)' = Entries(r)
    BY DEF Entries
  <2>3. (Waiting(r) \ orphan)' = Waiting(r) \ orphan
    BY <2>1 DEF Waiting
  <2> QED
    BY <1>1, <1>2, <2>2, <2>3 DEF Local, EntriesWait
<1>6. OneGetEach(r)'
  <2>1. (\A c \in orphan : at[c] # r)' => \A c \in orphan : at[c] # r
    BY <1>1
  <2> QED
    BY <1>1, <1>2, <2>1 DEF Local, OneGetEach
<1> QED
  BY <1>4, <1>5, <1>6 DEF Local

\* What was answered stays as the invariant says when nobody is answered.
LEMMA AnswersStay ==
    ASSUME RequesterInv, given' = given, granted \subseteq granted', orphan \subseteq orphan',
           \A c \in Client : told'[c] = "answered" => told[c] = "answered",
           \A c \in Client : at[c] # None => at'[c] = at[c]
    PROVE  AnswerIsAuthorized'
<1> SUFFICES ASSUME NEW c \in Client, told'[c] = "answered"
             PROVE  /\ {c, given[c]} \subseteq granted'
                    /\ at'[c] = at'[given[c]]
                    /\ given[c] # c => \E d \in orphan' : at'[d] = at'[c]
  BY DEF AnswerIsAuthorized
<1>1. /\ {c, given[c]} \subseteq granted
      /\ at[c] = at[given[c]]
      /\ given[c] # c => \E d \in orphan : at[d] = at[c]
  BY DEF RequesterInv, AnswerIsAuthorized
<1>2. at[c] # None /\ granted \subseteq Client /\ orphan \subseteq Client
  BY DEF RequesterInv, ClientsAreKnown, TypeOK
<1>3. at'[c] = at[c] /\ at'[given[c]] = at[given[c]]
  BY <1>1, <1>2
<1> QED
  BY <1>1, <1>2, <1>3

LEMMA InitInv == Init => RequesterInv
<1> SUFFICES ASSUME Init PROVE RequesterInv
  OBVIOUS
<1>1. TypeOK
  BY InitType
<1>2. ClientsAreKnown /\ AnswerIsAuthorized
  BY DEF Init, ClientsAreKnown, AnswerIsAuthorized
<1>3. ASSUME NEW r \in Pool PROVE Local(r)
  <2>1. queue[r] = <<>> /\ link[r] = None /\ taggedRes[r] = <<>>
    BY <1>3 DEF Init
  <2>2. Range(queue[r]) = {} /\ DOMAIN queue[r] = {} /\ DOMAIN taggedRes[r] = {}
    BY <2>1 DEF Range
  <2>3. Sent(r) = {} /\ Gets(r) = {} /\ Entries(r) = {}
    BY <2>1, <2>2 DEF Sent, Gets, Entries
  <2>4. Waiting(r) = {}
    BY DEF Init, Waiting
  <2> QED
    BY <2>2, <2>3, <2>4 DEF Local, MessagesAreTrue, EntriesWait, OneGetEach
<1> QED
  BY <1>1, <1>2, <1>3 DEF RequesterInv, Local

LEMMA ArriveStep ==
    ASSUME RequesterInv, NEW c \in Client, Arrive(c)
    PROVE  RequesterInv'
<1>1. TypeOK /\ TypeOK'
  BY ArriveType DEF RequesterInv
<1>2. PICK r \in Pool : r = NextRequester
  BY <1>1, RequesterAssumption, SMTT(20) DEF NextRequester, Pool, TypeOK
<1> DEFINE m == Ask("AUTH", tag[r], c)
<1>3. Local(r)
  BY <1>2 DEF RequesterInv, Local
<1>4. /\ tag[r] \in Nat /\ tag[r] # NaN /\ tag[r] # None
      /\ m \in Message /\ m.type = "AUTH" /\ m.tag = tag[r] /\ m.client = c /\ m.body = ""
  <2>1. tag[r] \in Nat
    BY <1>1, <1>2 DEF TypeOK
  <2>2. m.type = "AUTH" /\ m.tag = tag[r] /\ m.client = c /\ m.body = ""
    BY DEF Ask
  <2>3. m \in Message
    BY <2>1, AskType
  <2> QED
    BY <2>1, <2>2, <2>3, Keys
<1>5. /\ queue'[r] = Append(queue[r], m)
      /\ \A s \in Pool \ {r} : queue'[s] = queue[s]
  BY <1>1, <1>2, <1>4, EnqueueType DEF Arrive
<1>6. /\ tag'[r] = tag[r] + 1
      /\ DOMAIN taggedRes'[r] = DOMAIN taggedRes[r] \cup {tag[r]}
      /\ taggedRes'[r][tag[r]].fun = c
      /\ \A k \in DOMAIN taggedRes[r] \ {tag[r]} : taggedRes'[r][k] = taggedRes[r][k]
      /\ DOMAIN taggedRes[r] \subseteq 0 .. tag[r] - 1 \cup {NaN}
      /\ \A s \in Pool \ {r} : tag'[s] = tag[s] /\ taggedRes'[s] = taggedRes[s]
  <2>1. taggedRes'[r] = With(taggedRes[r], tag[r], Entry("AUTH", c))
    BY <1>1, <1>2 DEF Arrive, TypeOK
  <2> QED
    BY <1>1, <1>2, <2>1 DEF Arrive, TypeOK, With, Entry
<1>7. /\ at'[c] = r /\ told'[c] = "waiting"
      /\ \A d \in Client \ {c} : at'[d] = at[d] /\ told'[d] = told[d]
      /\ link' = link /\ given' = given /\ granted' = granted
      /\ orphan' = orphan /\ faulty' = faulty
  BY <1>1, <1>2 DEF Arrive, TypeOK
<1>8. at[c] = None /\ told[c] = "idle" /\ c \notin orphan /\ None \notin Pool
  BY Keys DEF Arrive, RequesterInv, ClientsAreKnown
<1> HIDE DEF m
<1>9. /\ Sent(r)' = Sent(r) \cup {m} /\ Gets(r)' = Gets(r)
      /\ Range(queue'[r]) = Range(queue[r]) \cup {m}
  <2>1. Range(queue'[r]) = Range(queue[r]) \cup {m}
    <3>1. queue[r] \in Seq(Message)
      BY <1>1, <1>2 DEF TypeOK
    <3>2. \A n \in Message : Range(Append(queue[r], n)) = Range(queue[r]) \cup {n}
      BY <3>1, QueueOps
    <3> QED
      BY <1>4, <1>5, <3>2
  <2>2. Sent(r)' = Sent(r) \cup {m}
    BY <1>7, <2>1 DEF Sent
  <2> QED
    BY <1>4, <2>1, <2>2 DEF Gets
<1>10. /\ \A n \in Sent(r) : n.client \in Client \ {c}
       /\ \A k \in DOMAIN taggedRes[r] : k # tag[r] /\ taggedRes[r][k].fun # c
  <2>1. \A n \in Sent(r) : n.client \in Client /\ at[n.client] = r
    BY <1>1, <1>2, <1>3, SentType DEF Local, MessagesAreTrue
  <2>2. \A k \in DOMAIN taggedRes[r] : at[taggedRes[r][k].fun] = r
    BY <1>3 DEF Local, EntriesWait, Entries, Waiting
  <2>3. tag[r] \notin DOMAIN taggedRes[r]
    <3>1. tag[r] \notin 0 .. tag[r] - 1
      BY <1>4, NextTag
    <3> QED
      BY <1>4, <1>6, <3>1
  <2> QED
    BY <1>2, <1>8, <2>1, <2>2, <2>3
<1>11. MessagesAreTrue(r)'
  <2>1. \A n \in Range(queue'[r]) : n.body = "" /\ n.tag # None
    BY <1>3, <1>4, <1>9 DEF Local, MessagesAreTrue
  <2>2. ASSUME NEW n \in Sent(r)
        PROVE  /\ at'[n.client] = r
               /\ n.tag = None => r \in faulty'
               /\ n.type = "GET" => n.tag \in {NaN, None} /\ n.client \in granted'
               /\ n.type = "AUTH" => n.tag \in 0 .. tag'[r] - 1 \cup {None}
               /\ n.type = "AUTH" /\ n.tag \in DOMAIN taggedRes'[r] =>
                      /\ taggedRes'[r][n.tag].fun = n.client
                      /\ n.body \in {"granted", "ok"} => n.client \in granted'
    <3>1. /\ at[n.client] = r
          /\ n.tag = None => r \in faulty
          /\ n.type = "GET" => n.tag \in {NaN, None} /\ n.client \in granted
          /\ n.type = "AUTH" => n.tag \in 0 .. tag[r] - 1 \cup {None}
          /\ n.type = "AUTH" /\ n.tag \in DOMAIN taggedRes[r] =>
                 /\ taggedRes[r][n.tag].fun = n.client
                 /\ n.body \in {"granted", "ok"} => n.client \in granted
      BY <1>3 DEF Local, MessagesAreTrue
    <3>2. n.type = "AUTH" => n.tag # tag[r] /\ n.tag \in 0 .. tag'[r] - 1 \cup {None}
      <4>1. \A t \in 0 .. tag[r] - 1 : t # tag[r] /\ t \in 0 .. tag'[r] - 1
        BY <1>4, <1>6, NextTag
      <4> QED
        BY <1>4, <3>1, <4>1
    <3> QED
      BY <1>6, <1>7, <1>10, <3>1, <3>2
  <2>3. /\ at'[m.client] = r /\ m.tag # None /\ m.type # "GET"
        /\ m.tag \in 0 .. tag'[r] - 1
        /\ taggedRes'[r][m.tag].fun = m.client
        /\ m.body \notin {"granted", "ok"}
    <3>1. tag[r] \in 0 .. tag'[r] - 1
      BY <1>4, <1>6, NextTag
    <3> QED
      BY <1>4, <1>6, <1>7, <3>1
  <2> QED
    BY <1>9, <2>1, <2>2, <2>3 DEF MessagesAreTrue
<1>12. EntriesWait(r)'
  <2>1. \A k, l \in DOMAIN taggedRes'[r] :
            taggedRes'[r][k].fun = taggedRes'[r][l].fun => k = l
    BY <1>3, <1>6, <1>10 DEF Local, EntriesWait
  <2>2. Entries(r)' = Entries(r) \cup {c}
    BY <1>6, <1>10 DEF Entries
  <2>3. Waiting(r)' = Waiting(r) \cup {c}
    BY <1>7 DEF Waiting
  <2>4. Entries(r)' = (Waiting(r) \ orphan)'
    BY <1>3, <1>7, <1>8, <2>2, <2>3 DEF Local, EntriesWait
  <2>5. \A k \in DOMAIN taggedRes'[r] :
            /\ k = NaN => taggedRes'[r][k].fun \in granted'
            /\ r \notin faulty' => \E n \in Sent(r)' : n.tag = k
    <3> SUFFICES ASSUME NEW k \in DOMAIN taggedRes'[r]
                 PROVE  /\ k = NaN => taggedRes'[r][k].fun \in granted'
                        /\ r \notin faulty' => \E n \in Sent(r)' : n.tag = k
      OBVIOUS
    <3>1. CASE k = tag[r]
      BY <1>4, <1>9, <3>1
    <3>2. CASE k # tag[r]
      <4>1. k \in DOMAIN taggedRes[r] /\ taggedRes'[r][k] = taggedRes[r][k]
        BY <1>6, <3>2
      <4> QED
        BY <1>3, <1>7, <1>9, <4>1 DEF Local, EntriesWait
    <3> QED
      BY <3>1, <3>2
  <2> QED
    BY <2>1, <2>4, <2>5 DEF EntriesWait
<1>13. OneGetEach(r)'
  <2>1. \A j \in DOMAIN queue'[r] : queue'[r][j].type = "GET" =>
            j \in DOMAIN queue[r] /\ queue'[r][j] = queue[r][j]
    <3>1. queue[r] \in Seq(Message)
      BY <1>1, <1>2 DEF TypeOK
    <3>2. /\ \A j \in DOMAIN queue[r] : queue'[r][j] = queue[r][j]
          /\ \A j \in DOMAIN queue'[r] :
                 j \in DOMAIN queue[r] \/ (j = Len(queue[r]) + 1 /\ queue'[r][j] = m)
      <4>1. m \in Message /\ queue'[r] = Append(queue[r], m)
        BY <1>4, <1>5
      <4> QED
        <5>1. /\ \A j \in DOMAIN queue[r] : Append(queue[r], m)[j] = queue[r][j]
              /\ \A j \in DOMAIN Append(queue[r], m) :
                     \/ j \in DOMAIN queue[r]
                     \/ j = Len(queue[r]) + 1 /\ Append(queue[r], m)[j] = m
          BY <3>1, <4>1, AppendAt
        <5> QED
          BY <4>1, <5>1, Zenon
    <3> QED
      BY <1>4, <3>2
  <2>2. \A k \in DOMAIN taggedRes'[r] \ {NaN} : \A n \in Gets(r)' :
            n.client # taggedRes'[r][k].fun
    BY <1>3, <1>6, <1>9, <1>10 DEF Local, OneGetEach, Gets
  <2>3. ASSUME \A d \in orphan' : at'[d] # r
        PROVE  \A n \in Gets(r)' :
                   NaN \in DOMAIN taggedRes'[r] /\ taggedRes'[r][NaN].fun = n.client
    <3>1. \A d \in orphan : at[d] # r
      BY <1>1, <1>7, <1>8, <2>3 DEF TypeOK
    <3> QED
      BY <1>3, <1>6, <1>9, <1>10, <3>1 DEF Local, OneGetEach
  <2>4. \A j \in DOMAIN queue'[r] : queue'[r][j].type = "GET" =>
           /\ link'[r] # None /\ link'[r].type = "GET" =>
                  queue'[r][j].client # link'[r].client
           /\ \A h \in DOMAIN queue'[r] :
                  h # j /\ queue'[r][h].type = "GET" =>
                      queue'[r][h].client # queue'[r][j].client
    BY <1>3, <1>7, <2>1 DEF Local, OneGetEach
  <2> QED
    BY <2>2, <2>3, <2>4 DEF OneGetEach
<1>14. ASSUME NEW s \in Pool \ {r} PROVE Local(s)'
  BY <1>1, <1>2, <1>5, <1>6, <1>7, <1>8, OtherRequester
<1>15. ClientsAreKnown'
  <2>1. orphan \subseteq Client /\ ClientsAreKnown
    BY DEF RequesterInv, TypeOK
  <2> QED
    BY <1>2, <1>7, <1>8, <2>1 DEF ClientsAreKnown
<1>16. AnswerIsAuthorized'
  BY <1>7, <1>8, AnswersStay
<1> QED
  BY <1>1, <1>11, <1>12, <1>13, <1>14, <1>15, <1>16 DEF RequesterInv, Local

LEMMA SendStep ==
    ASSUME RequesterInv, NEW r \in Pool, Send(r)
    PROVE  RequesterInv'
<1>1. TypeOK /\ TypeOK' /\ Local(r)
  BY SocketType DEF RequesterInv, Local
<1>2. /\ queue[r] \in Seq(Message) /\ queue[r] # <<>>
      /\ link[r] = None /\ link'[r] = Head(queue[r])
      /\ queue'[r] = Tail(queue[r])
      /\ \A s \in Pool \ {r} : link'[s] = link[s] /\ queue'[s] = queue[s]
      /\ UNCHANGED <<i, tag, taggedRes, told, given, at, granted, orphan, faulty>>
  BY <1>1 DEF Send, TypeOK
<1>3. /\ Head(queue[r]) \in Message /\ Head(queue[r]) # None
      /\ Range(queue[r]) = {Head(queue[r])} \cup Range(Tail(queue[r]))
  BY <1>2, QueueOps, Keys
<1>4. Sent(r)' = Sent(r) /\ Range(queue'[r]) \subseteq Range(queue[r])
  BY <1>2, <1>3 DEF Sent
<1>5. Gets(r)' = Gets(r)
  BY <1>4 DEF Gets
<1>6. MessagesAreTrue(r)'
  BY <1>1, <1>2, <1>4 DEF Local, MessagesAreTrue
<1>7. EntriesWait(r)'
  <2>1. Entries(r)' = Entries(r) /\ Waiting(r)' = Waiting(r)
    BY <1>2 DEF Entries, Waiting
  <2> QED
    BY <1>1, <1>2, <1>4, <2>1 DEF Local, EntriesWait
<1>8. OneGetEach(r)'
  <2>1. /\ 1 \in DOMAIN queue[r] /\ link'[r] = queue[r][1]
        /\ \A j \in DOMAIN queue'[r] :
               /\ j \in Nat \ {0} /\ j + 1 \in DOMAIN queue[r]
               /\ queue'[r][j] = queue[r][j + 1]
    BY <1>2, TailAt
  <2>2. \A j, h \in DOMAIN queue[r] :
            h # j /\ queue[r][j].type = "GET" /\ queue[r][h].type = "GET" =>
                queue[r][h].client # queue[r][j].client
    BY <1>1 DEF Local, OneGetEach
  <2>3. \A j \in DOMAIN queue'[r] : queue'[r][j].type = "GET" =>
           /\ link'[r] # None /\ link'[r].type = "GET" =>
                  queue'[r][j].client # link'[r].client
           /\ \A h \in DOMAIN queue'[r] :
                  h # j /\ queue'[r][h].type = "GET" =>
                      queue'[r][h].client # queue'[r][j].client
    <3> SUFFICES ASSUME NEW j \in DOMAIN queue'[r], queue'[r][j].type = "GET"
                 PROVE  /\ link'[r].type = "GET" =>
                               queue'[r][j].client # link'[r].client
                        /\ \A h \in DOMAIN queue'[r] :
                               h # j /\ queue'[r][h].type = "GET" =>
                                   queue'[r][h].client # queue'[r][j].client
      OBVIOUS
    <3>1. /\ j \in Nat \ {0} /\ j + 1 \in DOMAIN queue[r] /\ j + 1 # 1
          /\ queue'[r][j] = queue[r][j + 1]
      BY <2>1
    <3>2. \A h \in DOMAIN queue'[r] : h # j =>
              /\ h + 1 \in DOMAIN queue[r] /\ h + 1 # j + 1
              /\ queue'[r][h] = queue[r][h + 1]
      BY <2>1, <3>1
    <3> QED
      BY <2>1, <2>2, <3>1, <3>2
  <2>4. /\ \A k \in DOMAIN taggedRes'[r] \ {NaN} : \A m \in Gets(r)' :
               m.client # taggedRes'[r][k].fun
        /\ (\A c \in orphan' : at'[c] # r) => \A m \in Gets(r)' :
               NaN \in DOMAIN taggedRes'[r] /\ taggedRes'[r][NaN].fun = m.client
    BY <1>1, <1>2, <1>5 DEF Local, OneGetEach
  <2> QED
    BY <2>3, <2>4 DEF OneGetEach
<1>9. ASSUME NEW s \in Pool \ {r} PROVE Local(s)'
  BY <1>1, <1>2, OtherRequester
<1>10. ClientsAreKnown' /\ AnswerIsAuthorized'
  <2>1. ClientsAreKnown'
    BY <1>2 DEF RequesterInv, ClientsAreKnown
  <2> QED
    BY <1>2, <2>1, AnswersStay
<1> QED
  BY <1>1, <1>6, <1>7, <1>8, <1>9, <1>10 DEF RequesterInv, Local

\* The message on the link becomes its reply, with its tag or without, or is
\* lost.
LEMMA LinkStep ==
    ASSUME RequesterInv, TypeOK', NEW r \in Pool, link[r] # None, link'[r] \in Message,
           link'[r].type = link[r].type, link'[r].client = link[r].client,
           link'[r].tag = link[r].tag \/ (link'[r].tag = None /\ r \in faulty'),
           /\ link[r].type = "AUTH" /\ link'[r].body \in {"granted", "ok"}
              /\ link'[r].tag # None => link[r].client \in granted',
           \A s \in Pool \ {r} : link'[s] = link[s],
           granted \subseteq granted', faulty \subseteq faulty',
           UNCHANGED <<i, tag, taggedRes, queue, told, given, at, orphan>>
    PROVE  RequesterInv'
<1>1. TypeOK /\ Local(r) /\ link'[r] # None
  BY Keys DEF RequesterInv, Local
<1>2. /\ Sent(r) = Range(queue[r]) \cup {link[r]}
      /\ Sent(r)' = Range(queue[r]) \cup {link'[r]}
  BY <1>1 DEF Sent
<1>3. DOMAIN taggedRes[r] \subseteq 0 .. tag[r] - 1 \cup {NaN}
  BY <1>1 DEF TypeOK
<1>4. None \notin DOMAIN taggedRes[r]
  BY <1>1, <1>3, Keys DEF TypeOK
<1>5. MessagesAreTrue(r)'
  <2>1. \A m \in Range(queue'[r]) : m.body = "" /\ m.tag # None
    BY <1>1 DEF Local, MessagesAreTrue
  <2>2. ASSUME NEW m \in Range(queue[r])
        PROVE  /\ at'[m.client] = r
               /\ m.tag = None => r \in faulty'
               /\ m.type = "GET" => m.tag \in {NaN, None} /\ m.client \in granted'
               /\ m.type = "AUTH" => m.tag \in 0 .. tag'[r] - 1 \cup {None}
               /\ m.type = "AUTH" /\ m.tag \in DOMAIN taggedRes'[r] =>
                      /\ taggedRes'[r][m.tag].fun = m.client
                      /\ m.body \in {"granted", "ok"} => m.client \in granted'
    BY <1>1, <1>2 DEF Local, MessagesAreTrue
  <2>3. /\ at[link[r].client] = r
        /\ link[r].tag = None => r \in faulty
        /\ link[r].type = "GET" => link[r].tag \in {NaN, None} /\ link[r].client \in granted
        /\ link[r].type = "AUTH" => link[r].tag \in 0 .. tag[r] - 1 \cup {None}
        /\ link[r].type = "AUTH" /\ link[r].tag \in DOMAIN taggedRes[r] =>
               taggedRes[r][link[r].tag].fun = link[r].client
    BY <1>1, <1>2 DEF Local, MessagesAreTrue
  <2>4. /\ at'[link'[r].client] = r
        /\ link'[r].tag = None => r \in faulty'
        /\ link'[r].type = "GET" =>
               link'[r].tag \in {NaN, None} /\ link'[r].client \in granted'
        /\ link'[r].type = "AUTH" => link'[r].tag \in 0 .. tag'[r] - 1 \cup {None}
        /\ link'[r].type = "AUTH" /\ link'[r].tag \in DOMAIN taggedRes'[r] =>
               /\ taggedRes'[r][link'[r].tag].fun = link'[r].client
               /\ link'[r].body \in {"granted", "ok"} => link'[r].client \in granted'
    BY <1>4, <2>3
  <2> QED
    BY <1>2, <2>1, <2>2, <2>4 DEF MessagesAreTrue
<1>6. EntriesWait(r)'
  <2>1. Entries(r)' = Entries(r) /\ Waiting(r)' = Waiting(r)
    BY DEF Entries, Waiting
  <2>2. \A k \in DOMAIN taggedRes'[r] :
            /\ k = NaN => taggedRes'[r][k].fun \in granted'
            /\ r \notin faulty' => \E m \in Sent(r)' : m.tag = k
    BY <1>1, <1>2 DEF Local, EntriesWait
  <2> QED
    BY <1>1, <2>1, <2>2 DEF Local, EntriesWait
<1>7. OneGetEach(r)'
  <2>1. \A m \in Gets(r)' : \E n \in Gets(r) : m.client = n.client
    BY <1>2 DEF Gets
  <2> QED
    BY <1>1, <2>1 DEF Local, OneGetEach
<1>8. ASSUME NEW s \in Pool \ {r} PROVE Local(s)'
  BY OtherRequester
<1>9. ClientsAreKnown' /\ AnswerIsAuthorized'
  <2>1. ClientsAreKnown'
    BY DEF RequesterInv, ClientsAreKnown
  <2> QED
    BY <2>1, AnswersStay
<1> QED
  BY <1>5, <1>6, <1>7, <1>8, <1>9 DEF RequesterInv, Local

LEMMA ServiceStep ==
    ASSUME RequesterInv, NEW r \in Pool, Answer(r) \/ Lose(r) \/ AnswerUntagged(r)
    PROVE  RequesterInv'
<1>1. TypeOK /\ TypeOK' /\ link \in [Pool -> Message \cup {None}] /\ Unanswered(r)
  BY SocketType DEF RequesterInv, TypeOK, Answer, Lose, AnswerUntagged
<1>2. link[r] # None /\ link[r] \in Message /\ link[r].client \in Client
  BY <1>1 DEF Unanswered, Message
<1>3. link'[r] # None => link'[r] \in Message
  BY <1>1 DEF TypeOK
<1>4. ASSUME NEW body, NEW m, m = [link[r] EXCEPT !.body = body]
      PROVE  /\ m.type = link[r].type /\ m.client = link[r].client
             /\ m.tag = link[r].tag /\ m.body = body
  BY <1>2, <1>4 DEF Message
<1>5. /\ UNCHANGED <<i, tag, taggedRes, queue, told, given, at, orphan>>
      /\ granted \subseteq granted' /\ faulty \subseteq faulty'
  BY DEF Answer, Lose, AnswerUntagged
<1>6. CASE Answer(r)
  <2>1. PICK body \in IF link[r].type = "AUTH" THEN Verdicts ELSE {"ok"} :
            /\ link' = [link EXCEPT ![r] = [link[r] EXCEPT !.body = body]]
            /\ granted' = IF body = "granted" THEN granted \cup {link[r].client} ELSE granted
    BY <1>6 DEF Answer
  <2>2. /\ link'[r] = [link[r] EXCEPT !.body = body]
        /\ \A s \in Pool \ {r} : link'[s] = link[s]
    BY <1>1, <2>1
  <2>3. /\ link'[r].type = link[r].type /\ link'[r].client = link[r].client
        /\ link'[r].tag = link[r].tag /\ link'[r].body = body
    BY <1>4, <2>2
  <2>4. link'[r] \in Message
    <3>1. body \in {"", "lost", "ok"} \cup Verdicts
      BY <2>1
    <3> QED
      BY <1>2, <2>2, <3>1 DEF Message
  <2>5. link[r].type = "AUTH" /\ body \in {"granted", "ok"} => link[r].client \in granted'
    BY <2>1, RequesterAssumption
  <2> QED
    BY <1>1, <1>2, <1>5, <2>2, <2>3, <2>4, <2>5, LinkStep
<1>7. CASE Lose(r)
  <2>1. /\ link'[r] = [link[r] EXCEPT !.body = "lost"]
        /\ \A s \in Pool \ {r} : link'[s] = link[s]
    BY <1>1, <1>7 DEF Lose
  <2>2. /\ link'[r].type = link[r].type /\ link'[r].client = link[r].client
        /\ link'[r].tag = link[r].tag /\ link'[r].body = "lost"
    BY <1>4, <2>1
  <2>3. link'[r] \in Message
    BY <1>2, <2>1 DEF Message
  <2> QED
    BY <1>1, <1>2, <1>5, <2>1, <2>2, <2>3, LinkStep
<1>8. CASE AnswerUntagged(r)
  <2>1. /\ link'[r] = [link[r] EXCEPT !.body = "ok", !.tag = None]
        /\ \A s \in Pool \ {r} : link'[s] = link[s]
        /\ r \in faulty'
    BY <1>1, <1>8 DEF AnswerUntagged
  <2>2. /\ link'[r].type = link[r].type /\ link'[r].client = link[r].client
        /\ link'[r].tag = None
    BY <1>2, <2>1 DEF Message
  <2>3. link'[r] \in Message
    BY <1>2, <2>1 DEF Message
  <2> QED
    BY <1>1, <1>2, <1>5, <2>1, <2>2, <2>3, LinkStep
<1> QED
  BY <1>6, <1>7, <1>8

\* What the listener takes from the link: the message is no other's, and if
\* its tag is known, it is the GET when the entry is one and the AUTH of the
\* entry's client when not.
LEMMA Taken ==
    ASSUME RequesterInv, NEW r \in Pool, Received(r)
    PROVE  /\ link[r] \in Message /\ link[r].client \in Client
           /\ link[r].body \notin {"", "lost"}
           /\ link'[r] = None /\ \A s \in Pool \ {r} : link'[s] = link[s]
           /\ UNCHANGED <<i, tag, at, granted, faulty>>
           /\ Sent(r) = Range(queue[r]) \cup {link[r]}
           /\ link[r] \notin Range(queue[r])
           /\ Known(r) =>
                  /\ Tagged(r) = taggedRes[r][link[r].tag]
                  /\ Tagged(r).fun \in Waiting(r) \ orphan
                  /\ Tagged(r).type = "AUTH" =>
                         /\ link[r].tag # NaN /\ link[r].type = "AUTH"
                         /\ Tagged(r).fun = link[r].client
                         /\ link[r].body # "banned" => Tagged(r).fun \in granted
                  /\ Tagged(r).type = "GET" =>
                         /\ link[r].tag = NaN /\ link[r].type = "GET"
                         /\ link[r].client \in granted /\ Tagged(r).fun \in granted
                         /\ at[link[r].client] = r
<1>1. TypeOK /\ Local(r)
  BY DEF RequesterInv, Local
<1>2. /\ link[r] \in Message /\ link[r].body \notin {"", "lost"}
      /\ link'[r] = None /\ \A s \in Pool \ {r} : link'[s] = link[s]
      /\ UNCHANGED <<i, tag, at, granted, faulty>>
      /\ Known(r) => /\ Tagged(r) = taggedRes[r][link[r].tag]
                     /\ link[r].tag # NaN => Tagged(r).type = "AUTH"
                     /\ link[r].tag = NaN => Tagged(r).type = "GET"
  BY <1>1, Listened
<1>3. /\ link[r].client \in Client /\ link[r].type \in {"AUTH", "GET"}
      /\ link[r].body \in {"granted", "banned", "ok"}
  BY <1>2, RequesterAssumption DEF Message
<1>4. Sent(r) = Range(queue[r]) \cup {link[r]}
  BY <1>2, Keys DEF Sent
<1>5. link[r] \notin Range(queue[r])
  BY <1>1, <1>2 DEF Local, MessagesAreTrue
<1>6. ASSUME Known(r)
      PROVE  /\ Tagged(r).fun \in Waiting(r) \ orphan
             /\ Tagged(r).type = "AUTH" =>
                    /\ link[r].tag # NaN /\ link[r].type = "AUTH"
                    /\ Tagged(r).fun = link[r].client
                    /\ link[r].body # "banned" => Tagged(r).fun \in granted
             /\ Tagged(r).type = "GET" =>
                    /\ link[r].tag = NaN /\ link[r].type = "GET"
                    /\ link[r].client \in granted /\ Tagged(r).fun \in granted
                    /\ at[link[r].client] = r
  <2>1. Tagged(r).fun \in Entries(r)
    BY <1>2, <1>6 DEF Known, Entries
  <2>2. /\ at[link[r].client] = r
        /\ link[r].type = "GET" => link[r].tag \in {NaN, None} /\ link[r].client \in granted
        /\ link[r].type = "AUTH" => link[r].tag \in 0 .. tag[r] - 1 \cup {None}
        /\ link[r].type = "AUTH" /\ link[r].tag \in DOMAIN taggedRes[r] =>
               /\ taggedRes[r][link[r].tag].fun = link[r].client
               /\ link[r].body \in {"granted", "ok"} => link[r].client \in granted
    BY <1>1, <1>4 DEF Local, MessagesAreTrue
  <2>3. link[r].tag \in DOMAIN taggedRes[r] /\ link[r].tag # None
    BY <1>1, <1>6, Keys DEF Known, TypeOK
  <2>4. NaN \notin 0 .. tag[r] - 1
    BY Keys
  <2>5. link[r].tag = NaN => Tagged(r).fun \in granted
    BY <1>1, <1>2, <1>6, <2>3 DEF Local, EntriesWait
  <2> QED
    BY <1>1, <1>2, <1>3, <1>6, <2>1, <2>2, <2>3, <2>4, <2>5, Keys DEF Local, EntriesWait
<1> QED
  BY <1>2, <1>3, <1>4, <1>5, <1>6

LEMMA DropStep ==
    ASSUME RequesterInv, NEW r \in Pool, DropReply(r)
    PROVE  RequesterInv'
<1>1. TypeOK /\ TypeOK' /\ Local(r)
  BY ListenType DEF RequesterInv, Local, OnMessage
<1>2. /\ link'[r] = None /\ \A s \in Pool \ {r} : link'[s] = link[s]
      /\ UNCHANGED <<i, tag, at, granted, faulty, taggedRes, queue, told, given, orphan>>
      /\ Sent(r) = Range(queue[r]) \cup {link[r]}
      /\ link[r].tag \notin DOMAIN taggedRes[r]
  BY Taken DEF DropReply, Known
<1>3. Sent(r)' = Range(queue[r])
  BY <1>2 DEF Sent
<1>4. MessagesAreTrue(r)'
  BY <1>1, <1>2, <1>3 DEF Local, MessagesAreTrue
<1>5. EntriesWait(r)'
  <2>1. Entries(r)' = Entries(r) /\ Waiting(r)' = Waiting(r)
    BY <1>2 DEF Entries, Waiting
  <2>2. \A k \in DOMAIN taggedRes'[r] :
            /\ k = NaN => taggedRes'[r][k].fun \in granted'
            /\ r \notin faulty' => \E m \in Sent(r)' : m.tag = k
    BY <1>1, <1>2, <1>3 DEF Local, EntriesWait
  <2> QED
    BY <1>1, <1>2, <2>1, <2>2 DEF Local, EntriesWait
<1>6. OneGetEach(r)'
  <2>1. Gets(r)' \subseteq Gets(r)
    BY <1>2, <1>3 DEF Gets
  <2> QED
    BY <1>1, <1>2, <2>1 DEF Local, OneGetEach
<1>7. ASSUME NEW s \in Pool \ {r} PROVE Local(s)'
  BY <1>1, <1>2, OtherRequester
<1>8. ClientsAreKnown' /\ AnswerIsAuthorized'
  <2>1. ClientsAreKnown'
    BY <1>2 DEF RequesterInv, ClientsAreKnown
  <2> QED
    BY <1>2, <2>1, AnswersStay
<1> QED
  BY <1>1, <1>4, <1>5, <1>6, <1>7, <1>8 DEF RequesterInv, Local

\* A client is called back, and its entry deleted.
LEMMA CalledStep ==
    ASSUME RequesterInv, TypeOK', NEW r \in Pool, Received(r), Known(r),
           taggedRes' = [taggedRes EXCEPT ![r] = Without(@, link[r].tag)],
           \A c \in Client \ {Tagged(r).fun} : told'[c] = told[c],
           told'[Tagged(r).fun] \in {"banned", "answered"},
           UNCHANGED <<queue, orphan>>
    PROVE  /\ ClientsAreKnown'
           /\ \A s \in Pool : Local(s)'
<1> DEFINE f == Tagged(r).fun
<1>1. TypeOK /\ Local(r) /\ ClientsAreKnown
  BY DEF RequesterInv, Local
<1>2. /\ link[r] \in Message /\ link'[r] = None
      /\ \A s \in Pool \ {r} : link'[s] = link[s]
      /\ UNCHANGED <<i, tag, at, granted, faulty>>
      /\ Sent(r) = Range(queue[r]) \cup {link[r]}
      /\ f = taggedRes[r][link[r].tag].fun /\ f \in Waiting(r) \ orphan
      /\ link[r].tag \in DOMAIN taggedRes[r]
  BY Taken DEF Known
<1>3. /\ \A s \in Pool \ {r} : taggedRes'[s] = taggedRes[s]
      /\ DOMAIN taggedRes'[r] = DOMAIN taggedRes[r] \ {link[r].tag}
      /\ \A k \in DOMAIN taggedRes'[r] : taggedRes'[r][k] = taggedRes[r][k]
  BY <1>1, <1>2, TakenTable
<1>4. f \in Client /\ at[f] = r /\ told[f] = "waiting"
  BY <1>2 DEF Waiting
<1> HIDE DEF f
<1>5. Sent(r)' = Range(queue[r]) /\ Sent(r)' \subseteq Sent(r) /\ Gets(r)' \subseteq Gets(r)
  <2>1. Sent(r)' = Range(queue[r])
    BY <1>2 DEF Sent
  <2> QED
    BY <1>2, <2>1 DEF Gets
<1>6. MessagesAreTrue(r)'
  <2>1. \A m \in Range(queue'[r]) : m.body = "" /\ m.tag # None
    BY <1>1 DEF Local, MessagesAreTrue
  <2>2. ASSUME NEW m \in Sent(r)
        PROVE  /\ at[m.client] = r
               /\ m.tag = None => r \in faulty
               /\ m.type = "GET" => m.tag \in {NaN, None} /\ m.client \in granted
               /\ m.type = "AUTH" => m.tag \in 0 .. tag[r] - 1 \cup {None}
               /\ m.type = "AUTH" /\ m.tag \in DOMAIN taggedRes'[r] =>
                      /\ taggedRes'[r][m.tag].fun = m.client
                      /\ m.body \in {"granted", "ok"} => m.client \in granted
    BY <1>1, <1>3 DEF Local, MessagesAreTrue
  <2> QED
    BY <1>2, <1>5, <2>1, <2>2 DEF MessagesAreTrue
<1>7. EntriesWait(r)'
  <2>1. \A k \in DOMAIN taggedRes[r] : k # link[r].tag <=> taggedRes[r][k].fun # f
    BY <1>1, <1>2 DEF Local, EntriesWait
  <2>2. Entries(r)' = Entries(r) \ {f}
    BY <1>3, <2>1 DEF Entries
  <2>3. Waiting(r)' = Waiting(r) \ {f}
    BY <1>2, <1>4 DEF Waiting, f
  <2>4. \A k \in DOMAIN taggedRes'[r] :
            /\ k = NaN => taggedRes'[r][k].fun \in granted'
            /\ r \notin faulty' => \E m \in Sent(r)' : m.tag = k
    <3> SUFFICES ASSUME NEW k \in DOMAIN taggedRes'[r]
                 PROVE  /\ k = NaN => taggedRes[r][k].fun \in granted
                        /\ r \notin faulty => \E m \in Range(queue[r]) : m.tag = k
      BY <1>2, <1>3, <1>5
    <3> QED
      BY <1>1, <1>2, <1>3 DEF Local, EntriesWait
  <2> QED
    BY <1>1, <1>3, <2>2, <2>3, <2>4 DEF Local, EntriesWait
<1>8. \A j \in DOMAIN queue'[r] : queue'[r][j].type = "GET" =>
         /\ link'[r] # None /\ link'[r].type = "GET" =>
                queue'[r][j].client # link'[r].client
         /\ \A h \in DOMAIN queue'[r] :
                h # j /\ queue'[r][h].type = "GET" =>
                    queue'[r][h].client # queue'[r][j].client
  BY <1>1, <1>2 DEF Local, OneGetEach
<1>9. \A k \in DOMAIN taggedRes'[r] \ {NaN} : \A m \in Gets(r)' :
         m.client # taggedRes'[r][k].fun
  BY <1>1, <1>3, <1>5 DEF Local, OneGetEach
<1>10. ASSUME \A c \in orphan' : at'[c] # r, NEW m \in Gets(r)'
       PROVE  NaN \in DOMAIN taggedRes'[r] /\ taggedRes'[r][NaN].fun = m.client
  <2>1. /\ m \in Range(queue[r]) /\ m.type = "GET" /\ m \in Gets(r)
        /\ NaN \in DOMAIN taggedRes[r] /\ taggedRes[r][NaN].fun = m.client
    BY <1>1, <1>2, <1>5, <1>10 DEF Local, OneGetEach, Gets
  <2>2. CASE link[r].tag # NaN
    BY <1>3, <2>1, <2>2
  <2>3. CASE link[r].tag = NaN
    <3>1. link[r].type = "GET" /\ link[r] \in Gets(r) /\ link[r] # None
      <4>1. Tagged(r).type = "GET"
        BY <1>1, <2>3, Listened
      <4> QED
        BY <1>2, <4>1, Taken, Keys DEF Gets
    <3>2. taggedRes[r][NaN].fun = link[r].client
      BY <1>1, <1>2, <1>10, <3>1 DEF Local, OneGetEach
    <3>3. PICK j \in DOMAIN queue[r] : queue[r][j] = m
      BY <2>1 DEF Range
    <3>4. m.client # link[r].client
      BY <1>1, <2>1, <3>1, <3>3 DEF Local, OneGetEach
    <3> QED
      BY <2>1, <3>2, <3>4
  <2> QED
    BY <2>2, <2>3
<1>11. Local(r)'
  BY <1>6, <1>7, <1>8, <1>9, <1>10 DEF Local, OneGetEach
<1>12. ASSUME NEW s \in Pool \ {r} PROVE Local(s)'
  BY <1>2, <1>3, <1>4, OtherRequester DEF f
<1>13. ClientsAreKnown'
  <2>1. orphan \subseteq Client /\ at[f] # None /\ f \notin orphan
    BY <1>1, <1>2, <1>4, Keys DEF TypeOK
  <2> QED
    BY <1>1, <1>2, <1>4, <2>1 DEF ClientsAreKnown, f
<1> QED
  BY <1>11, <1>12, <1>13

LEMMA BannedStep ==
    ASSUME RequesterInv, NEW r \in Pool, Banned(r)
    PROVE  RequesterInv'
<1>1. TypeOK /\ TypeOK' /\ Received(r) /\ Known(r)
  BY ListenType DEF RequesterInv, OnMessage, Banned
<1>2. Tagged(r).fun \in Client
  BY <1>1, Listened
<1>3. /\ told'[Tagged(r).fun] = "banned"
      /\ \A c \in Client \ {Tagged(r).fun} : told'[c] = told[c]
      /\ UNCHANGED <<queue, given, orphan, granted, at>>
      /\ taggedRes' = [taggedRes EXCEPT ![r] = Without(@, link[r].tag)]
  BY <1>1, <1>2 DEF Banned, Received, TypeOK
<1>4. ClientsAreKnown' /\ \A s \in Pool : Local(s)'
  BY <1>1, <1>3, CalledStep
<1>5. AnswerIsAuthorized'
  BY <1>3, AnswersStay
<1> QED
  BY <1>1, <1>4, <1>5 DEF RequesterInv, Local

LEMMA ReplyStep ==
    ASSUME RequesterInv, NEW r \in Pool, Reply(r)
    PROVE  RequesterInv'
<1> DEFINE f == Tagged(r).fun
           g == link[r].client
<1>1. TypeOK /\ TypeOK' /\ Local(r) /\ Received(r) /\ Known(r) /\ Tagged(r).type = "GET"
  BY ListenType DEF RequesterInv, Local, OnMessage, Reply
<1>2. /\ f \in Client /\ f \in granted /\ at[f] = r
      /\ g \in Client /\ g \in granted /\ at[g] = r
      /\ link[r].tag = NaN /\ link[r] \in Gets(r)
      /\ f = taggedRes[r][NaN].fun
  BY <1>1, Taken, ZenonT(40) DEF Waiting, Gets
<1>3. /\ told'[f] = "answered" /\ given'[f] = g
      /\ \A c \in Client \ {f} : told'[c] = told[c] /\ given'[c] = given[c]
      /\ UNCHANGED <<queue, orphan, granted, at>>
      /\ taggedRes' = [taggedRes EXCEPT ![r] = Without(@, link[r].tag)]
  BY <1>1, <1>2 DEF Reply, Received, TypeOK
<1>4. ClientsAreKnown' /\ \A s \in Pool : Local(s)'
  BY <1>1, <1>3, CalledStep
<1>5. g # f => \E d \in orphan : at[d] = r
  BY <1>1, <1>2 DEF Local, OneGetEach
<1> HIDE DEF f, g
<1>6. AnswerIsAuthorized'
  <2> SUFFICES ASSUME NEW c \in Client, told'[c] = "answered"
               PROVE  /\ {c, given'[c]} \subseteq granted
                      /\ at[c] = at[given'[c]]
                      /\ given'[c] # c => \E d \in orphan : at[d] = at[c]
    BY <1>3 DEF AnswerIsAuthorized
  <2>1. CASE c = f
    BY <1>2, <1>3, <1>5, <2>1
  <2>2. CASE c # f
    BY <1>3, <2>2 DEF RequesterInv, AnswerIsAuthorized
  <2> QED
    BY <2>1, <2>2
<1> QED
  BY <1>1, <1>4, <1>6 DEF RequesterInv, Local

LEMMA AuthorizedStep ==
    ASSUME RequesterInv, NEW r \in Pool, Authorized(r)
    PROVE  RequesterInv'
<1>1. /\ TypeOK /\ TypeOK' /\ Local(r) /\ ClientsAreKnown
      /\ Received(r) /\ Known(r) /\ Tagged(r).type = "AUTH" /\ link[r].body # "banned"
  BY ListenType DEF RequesterInv, Local, OnMessage, Authorized
<1>2. PICK f \in Client : f = Tagged(r).fun
  BY <1>1, Listened
<1>3. PICK k : k = link[r].tag
  OBVIOUS
<1> DEFINE m == Ask("GET", NaN, f)
           replaced == IF NaN \in DOMAIN taggedRes[r] THEN {taggedRes[r][NaN].fun} ELSE {}
<1>4. /\ m \in Message /\ m.type = "GET" /\ m.tag = NaN /\ m.client = f /\ m.body = ""
  BY AskType DEF Ask
<1>5. /\ link'[r] = None /\ \A s \in Pool \ {r} : link'[s] = link[s]
      /\ UNCHANGED <<i, tag, at, granted, faulty, told, given>>
      /\ Sent(r) = Range(queue[r]) \cup {link[r]}
      /\ k # NaN /\ k \in DOMAIN taggedRes[r]
      /\ link[r].type = "AUTH" /\ taggedRes[r][k].fun = f
      /\ f \in Waiting(r) \ orphan /\ f \in granted /\ at[f] = r
  BY <1>1, <1>2, <1>3, Taken DEF Known, Waiting, Authorized
<1>6. /\ DOMAIN taggedRes'[r] = (DOMAIN taggedRes[r] \ {k}) \cup {NaN}
      /\ taggedRes'[r][NaN].fun = f
      /\ \A l \in DOMAIN taggedRes'[r] \ {NaN} : taggedRes'[r][l] = taggedRes[r][l]
      /\ \A s \in Pool \ {r} : taggedRes'[s] = taggedRes[s]
      /\ orphan' = orphan \cup replaced
  BY <1>1, <1>2, <1>3, <1>5, StoredTable DEF Authorized
<1>7. /\ queue'[r] = Append(queue[r], m)
      /\ \A s \in Pool \ {r} : queue'[s] = queue[s]
  <2>1. Enqueue(r, m)
    BY <1>2 DEF Authorized
  <2> QED
    BY <1>1, <1>4, <2>1, EnqueueType
<1> HIDE DEF m
<1>8. Sent(r)' = Range(queue[r]) \cup {m} /\ Range(queue'[r]) = Range(queue[r]) \cup {m}
  <2>1. queue[r] \in Seq(Message)
    BY <1>1 DEF TypeOK
  <2>2. \A n \in Message : Range(Append(queue[r], n)) = Range(queue[r]) \cup {n}
    BY <2>1, QueueOps
  <2>3. Range(queue'[r]) = Range(queue[r]) \cup {m}
    BY <1>4, <1>7, <2>2
  <2> QED
    BY <1>5, <2>3 DEF Sent
<1>9. replaced \subseteq Waiting(r) \ {f} /\ replaced \subseteq Client
  <2>1. NaN \in DOMAIN taggedRes[r] =>
            taggedRes[r][NaN].fun \in Entries(r) /\ taggedRes[r][NaN].fun # f
    BY <1>1, <1>5 DEF Local, EntriesWait, Entries
  <2> QED
    BY <1>1, <2>1 DEF Local, EntriesWait, Waiting
<1>10. MessagesAreTrue(r)'
  <2>1. \A n \in Range(queue'[r]) : n.body = "" /\ n.tag # None
    BY <1>1, <1>4, <1>8, Keys DEF Local, MessagesAreTrue
  <2>2. ASSUME NEW n \in Sent(r)
        PROVE  /\ at[n.client] = r
               /\ n.tag = None => r \in faulty
               /\ n.type = "GET" => n.tag \in {NaN, None} /\ n.client \in granted
               /\ n.type = "AUTH" => n.tag \in 0 .. tag[r] - 1 \cup {None}
               /\ n.type = "AUTH" /\ n.tag \in DOMAIN taggedRes'[r] =>
                      /\ taggedRes'[r][n.tag].fun = n.client
                      /\ n.body \in {"granted", "ok"} => n.client \in granted
    <3>1. NaN \notin 0 .. tag[r] - 1 \cup {None}
      BY Keys
    <3> QED
      BY <1>1, <1>6, <3>1, ZenonT(40) DEF Local, MessagesAreTrue
  <2>3. at[m.client] = r /\ m.tag = NaN /\ m.type = "GET" /\ m.client \in granted
    BY <1>4, <1>5
  <2> QED
    BY <1>5, <1>8, <2>1, <2>2, <2>3, Keys DEF MessagesAreTrue
<1>11. EntriesWait(r)'
  <2>1. \A l \in DOMAIN taggedRes[r] : l # k <=> taggedRes[r][l].fun # f
    BY <1>1, <1>5 DEF Local, EntriesWait
  <2>2. \A j, l \in DOMAIN taggedRes'[r] :
            taggedRes'[r][j].fun = taggedRes'[r][l].fun => j = l
    BY <1>1, <1>6, <2>1 DEF Local, EntriesWait
  <2>3. Entries(r)' = Entries(r) \ replaced
    <3>1. \A l \in DOMAIN taggedRes[r] :
              l # NaN <=> taggedRes[r][l].fun \notin replaced
      BY <1>1 DEF Local, EntriesWait
    <3>2. \A c \in Entries(r) : c \notin replaced => c \in Entries(r)'
      BY <1>5, <1>6, <2>1, <3>1 DEF Entries
    <3>3. \A c \in Entries(r)' : c \in Entries(r) /\ c \notin replaced
      BY <1>5, <1>6, <1>9, <3>1 DEF Entries
    <3> QED
      BY <3>2, <3>3
  <2>4. Waiting(r)' = Waiting(r)
    BY <1>5 DEF Waiting
  <2>5. \A l \in DOMAIN taggedRes'[r] :
            /\ l = NaN => taggedRes'[r][l].fun \in granted'
            /\ r \notin faulty' => \E n \in Sent(r)' : n.tag = l
    <3>1. ASSUME NEW l \in DOMAIN taggedRes'[r], l # NaN, r \notin faulty
          PROVE  \E n \in Range(queue[r]) : n.tag = l
      <4>1. PICK n \in Sent(r) : n.tag = l
        BY <1>1, <1>6, <3>1 DEF Local, EntriesWait
      <4> QED
        BY <1>3, <1>5, <1>6, <3>1, <4>1
    <3>2. taggedRes'[r][NaN].fun \in granted' /\ faulty' = faulty
      BY <1>5, <1>6
    <3>3. m \in Sent(r)' /\ m.tag = NaN /\ Range(queue[r]) \subseteq Sent(r)'
      BY <1>4, <1>8
    <3> QED
      BY <3>1, <3>2, <3>3
  <2> QED
    BY <1>1, <1>6, <2>2, <2>3, <2>4, <2>5 DEF Local, EntriesWait
<1>12. OneGetEach(r)'
  <2>1. \A n \in Range(queue[r]) : n.type = "GET" => n.client # f
    BY <1>1, <1>5 DEF Local, OneGetEach, Gets
  <2>2. \A n \in Gets(r)' : n = m \/ (n \in Gets(r) /\ n \in Range(queue[r]))
    BY <1>5, <1>8 DEF Gets
  <2>3. ASSUME NEW j \in DOMAIN queue'[r], NEW h \in DOMAIN queue'[r], h # j,
               queue'[r][j].type = "GET", queue'[r][h].type = "GET"
        PROVE  queue'[r][h].client # queue'[r][j].client
    <3>1. queue[r] \in Seq(Message)
      BY <1>1 DEF TypeOK
    <3>2. m \in Message /\ queue'[r] = Append(queue[r], m)
      BY <1>4, <1>7
    <3>3. /\ \A l \in DOMAIN queue[r] : queue'[r][l] = queue[r][l]
          /\ \A l \in DOMAIN queue'[r] :
                 l \in DOMAIN queue[r] \/ (l = Len(queue[r]) + 1 /\ queue'[r][l] = m)
      <4>1. /\ \A l \in DOMAIN queue[r] : Append(queue[r], m)[l] = queue[r][l]
            /\ \A l \in DOMAIN Append(queue[r], m) :
                   \/ l \in DOMAIN queue[r]
                   \/ l = Len(queue[r]) + 1 /\ Append(queue[r], m)[l] = m
        BY <3>1, <3>2, AppendAt
      <4> QED
        BY <3>2, <4>1, Zenon
    <3>4. \A l \in DOMAIN queue[r] : queue[r][l] \in Range(queue[r])
      BY DEF Range
    <3>5. \A l, o \in DOMAIN queue[r] :
              o # l /\ queue[r][l].type = "GET" /\ queue[r][o].type = "GET" =>
                  queue[r][o].client # queue[r][l].client
      BY <1>1 DEF Local, OneGetEach
    <3>6. \A l \in DOMAIN queue[r] : queue[r][l].type = "GET" => queue[r][l].client # f
      BY <2>1, <3>4
    <3> QED
      BY <1>4, <2>3, <3>3, <3>5, <3>6
  <2>4. ASSUME NEW l \in DOMAIN taggedRes'[r] \ {NaN}, NEW n \in Gets(r)'
        PROVE  n.client # taggedRes'[r][l].fun
    <3>1. l \in DOMAIN taggedRes[r] /\ l # k /\ taggedRes'[r][l] = taggedRes[r][l]
      BY <1>6, <1>5
    <3>2. taggedRes[r][l].fun # f
      BY <1>1, <1>5, <3>1 DEF Local, EntriesWait
    <3>3. \A g \in Gets(r) : g.client # taggedRes[r][l].fun
      BY <1>1, <3>1, <2>4 DEF Local, OneGetEach
    <3> QED
      BY <1>4, <2>2, <3>1, <3>2, <3>3
  <2>5. ASSUME \A c \in orphan' : at'[c] # r, NEW n \in Gets(r)'
        PROVE  NaN \in DOMAIN taggedRes'[r] /\ taggedRes'[r][NaN].fun = n.client
    <3>1. \A c \in orphan : at[c] # r
      BY <1>5, <1>6, <2>5
    <3>2. replaced = {}
      BY <1>5, <1>6, <1>9, <2>5 DEF Waiting
    <3>3. n \notin Gets(r)
      BY <1>1, <3>1, <3>2 DEF Local, OneGetEach
    <3> QED
      BY <1>4, <1>6, <2>2, <3>3
  <2> QED
    BY <1>5, <2>3, <2>4, <2>5 DEF OneGetEach
<1>13. ASSUME NEW s \in Pool \ {r} PROVE Local(s)'
  <2>1. \A c \in Client : at[c] = s => (c \in orphan' <=> c \in orphan)
    BY <1>6, <1>9 DEF Waiting
  <2> QED
    BY <1>1, <1>5, <1>6, <1>7, <2>1, OtherRequester
<1>14. ClientsAreKnown'
  BY <1>1, <1>5, <1>6, <1>9 DEF ClientsAreKnown, Waiting
<1>15. AnswerIsAuthorized'
  BY <1>5, <1>6, AnswersStay
<1> QED
  BY <1>1, <1>10, <1>11, <1>12, <1>13, <1>14, <1>15 DEF RequesterInv, Local

LEMMA InvStep == RequesterInv /\ [Next]_vars => RequesterInv'
<1> SUFFICES ASSUME RequesterInv, [Next]_vars PROVE RequesterInv'
  OBVIOUS
<1>1. CASE UNCHANGED vars
  <2>1. TypeOK'
    BY <1>1, TypeStep DEF RequesterInv
  <2>2. ClientsAreKnown' /\ AnswerIsAuthorized'
    BY <1>1 DEF RequesterInv, vars, ClientsAreKnown, AnswerIsAuthorized
  <2>3. ASSUME NEW r \in Pool PROVE Local(r)'
    BY <1>1, <2>1, OtherRequester DEF vars
  <2> QED
    BY <2>1, <2>2, <2>3 DEF RequesterInv, Local
<1>2. CASE \E c \in Client : Arrive(c)
  BY <1>2, ArriveStep
<1>3. ASSUME NEW r \in Pool,
             Send(r) \/ Answer(r) \/ Lose(r) \/ AnswerUntagged(r) \/ OnMessage(r)
      PROVE  RequesterInv'
  BY <1>3, SendStep, ServiceStep, DropStep, BannedStep, AuthorizedStep, ReplyStep
     DEF OnMessage
<1> QED
  BY <1>1, <1>2, <1>3 DEF Next

\* A client is given an answer only when it was authorized and the answer is
\* to a client that was; and another client's only when a callback of the same
\* requester has been replaced before (start.coffee:88-97).
THEOREM AuthorizedCorrect == Spec => []AnswerIsAuthorized
<1>1. RequesterInv => AnswerIsAuthorized
  BY DEF RequesterInv
<1> QED
  BY <1>1, InitInv, InvStep, PTL DEF Spec

\* A table in which no two entries are of one client has as many clients as
\* entries.
LEMMA EntriesCounted ==
    ASSUME TypeOK, NEW r \in Pool, EntriesWait(r)
    PROVE  Cardinality(Entries(r)) = Cardinality(DOMAIN taggedRes[r])
<1> DEFINE D == DOMAIN taggedRes[r]
           f == [k \in D |-> taggedRes[r][k].fun]
<1>1. IsFiniteSet(D)
  <2>1. D \subseteq 0 .. tag[r] - 1 \cup {NaN} /\ tag[r] \in Nat
    BY DEF TypeOK
  <2>2. IsFiniteSet(0 .. tag[r] - 1)
    <3>1. 0 \in Int /\ tag[r] - 1 \in Int
      BY <2>1
    <3> QED
      BY <3>1, FS_Interval, Zenon
  <2>3. IsFiniteSet(0 .. tag[r] - 1 \cup {NaN})
    BY <2>2, FS_AddElement
  <2> QED
    BY <2>1, <2>3, FS_Subset
<1>2. f \in [D -> Entries(r)]
  BY DEF Entries
<1>3. \A k, l \in D : f[k] = f[l] => k = l
  BY DEF EntriesWait
<1>4. \A c \in Entries(r) : \E k \in D : f[k] = c
  BY DEF Entries
<1> HIDE DEF D, f
<1>5. f \in Surjection(D, Entries(r)) /\ f \in Injection(D, Entries(r))
  BY <1>2, <1>3, <1>4 DEF Surjection, Injection, IsInjective
<1>6. Cardinality(Entries(r)) = Cardinality(D)
  BY <1>1, <1>5, FS_Surjection
<1> QED
  BY <1>6 DEF D

\* A client that waits has one entry in the table of its requester or its
\* entry was replaced; when all is answered, exactly the clients that were
\* replaced still wait (start.coffee:69-104).
THEOREM UncalledCorrect == Spec => []UncalledIsKnown
<1>1. RequesterInv => UncalledIsKnown
  <2> SUFFICES ASSUME RequesterInv, NEW r \in Pool
               PROVE  /\ Cardinality(Entries(r)) = Cardinality(DOMAIN taggedRes[r])
                      /\ Entries(r) \cap orphan = {}
                      /\ Waiting(r) = Entries(r) \cup {c \in orphan : at[c] = r}
                      /\ AtRest(r) /\ r \notin faulty => Entries(r) = {}
    BY DEF UncalledIsKnown
  <2>1. TypeOK /\ EntriesWait(r) /\ Entries(r) = Waiting(r) \ orphan
    BY DEF RequesterInv, EntriesWait
  <2>2. Waiting(r) \cap orphan = {c \in orphan : at[c] = r}
    BY <2>1 DEF RequesterInv, ClientsAreKnown, Waiting, TypeOK
  <2>3. ASSUME AtRest(r), r \notin faulty PROVE Entries(r) = {}
    <3>1. Range(queue[r]) = {} /\ Sent(r) = {}
      BY <2>3 DEF AtRest, Sent, Range
    <3> QED
      BY <2>1, <2>3, <3>1 DEF EntriesWait, Entries
  <2> QED
    BY <2>1, <2>2, <2>3, EntriesCounted
<1> QED
  BY <1>1, InitInv, InvStep, PTL DEF Spec

=============================================================================
