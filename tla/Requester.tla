----------------------------- MODULE Requester -----------------------------
(***************************************************************************)
(* The HTTP front end (serviceproxy/start.coffee): a pool of requesters,   *)
(* each with a REQ socket to the dispatcher and a table of callbacks       *)
(* (taggedRes) by the tag of the message that is to be answered.           *)
(*                                                                         *)
(* A GET of a browser is two messages: AUTH, and when that is answered the *)
(* request.  AUTH has a number as its tag.  The callback that sends the    *)
(* request runs as a method of the table's entry (`tagged.fun rep`), so    *)
(* its @tag is undefined: the request goes out with "Tag:undefined", its   *)
(* callback is stored under NaN, which is also what the tag of the reply   *)
(* is read as.  node runs one callback at a time.                          *)
(***************************************************************************)
EXTENDS Naturals, Sequences, FiniteSets, Functions

CONSTANTS
    Browsers,       \* bound: GETs that browsers send
    Count,          \* requesters in the pool
    Verdicts,       \* what authorize() may say: subset of {"granted", "banned"}
    Faults,         \* subset of {"lost", "untagged"}
    NaN,            \* the key of a tag that is no number
    None            \* no reply tag, no message

ASSUME RequesterAssumption ==
    /\ Count \in Nat \ {0} /\ Browsers \in Nat
    /\ Verdicts \subseteq {"granted", "banned"} /\ Verdicts # {}
    /\ Faults \subseteq {"lost", "untagged"}
    /\ NaN \notin Nat /\ None \notin Nat \cup {NaN}

Pool == 0 .. Count - 1

\* The GETs, numbered as they arrive.
Client == 1 .. Browsers

VARIABLES
    i,          \* the requester used last
    tag,        \* [Pool -> Nat]
    taggedRes,  \* [Pool -> [keys -> [type, fun]]], fun a client
    queue,      \* [Pool -> messages the socket has still to send]
    link,       \* [Pool -> the message or the reply on its way, or None]
    told,       \* [Client -> "idle", "waiting", or how it was called back]
    given,      \* [Client -> the client whose answer it was given, or 0]
    at,         \* [Client -> the requester it was given, or None]
    granted,    \* the clients that were authorized
    orphan,     \* the clients whose entry another one has replaced
    faulty      \* the requesters that a reply or a tag failed to reach

vars == <<i, tag, taggedRes, queue, link, told, given, at, granted, orphan, faulty>>

Message == [type : {"AUTH", "GET"}, tag : Nat \cup {NaN, None}, client : Client,
            body : {"", "lost", "ok"} \cup Verdicts]

ASSUME NoneIsNoMessage == None \notin Message

TypeOK ==
    /\ i \in Pool
    /\ tag \in [Pool -> Nat]
    /\ DOMAIN taggedRes = Pool
    /\ \A r \in Pool :
           /\ DOMAIN taggedRes[r] \subseteq 0 .. tag[r] - 1 \cup {NaN}
           /\ \A k \in DOMAIN taggedRes[r] :
                  taggedRes[r][k] \in [type : {IF k = NaN THEN "GET" ELSE "AUTH"},
                                       fun : Client]
    /\ queue \in [Pool -> Seq(Message)]
    /\ link \in [Pool -> Message \cup {None}]
    /\ told \in [Client -> {"idle", "waiting", "banned", "answered"}]
    /\ given \in [Client -> 0 .. Browsers]
    /\ at \in [Client -> Pool \cup {None}]
    /\ granted \subseteq Client /\ orphan \subseteq Client /\ faulty \subseteq Pool

Init ==
    /\ i = 0
    /\ tag = [r \in Pool |-> 0]
    /\ taggedRes = [r \in Pool |-> <<>>]
    /\ queue = [r \in Pool |-> <<>>]
    /\ link = [r \in Pool |-> None]
    /\ told = [c \in Client |-> "idle"]
    /\ given = [c \in Client |-> 0]
    /\ at = [c \in Client |-> None]
    /\ granted = {} /\ orphan = {} /\ faulty = {}

-----------------------------------------------------------------------------
(* Request.makeRequest and the table.                                      *)

Ask(type, t, c) == [type |-> type, tag |-> t, client |-> c, body |-> ""]

Enqueue(r, m) == queue' = [queue EXCEPT ![r] = Append(@, m)]

With(table, k, entry) ==
    [l \in DOMAIN table \cup {k} |-> IF l = k THEN entry ELSE table[l]]

Without(table, k) == Restrict(table, DOMAIN table \ {k})

Entry(type, c) == [type |-> type, fun |-> c]

\* RequesterPool.req
NextRequester == IF i + 1 >= Count THEN 0 ELSE i + 1

\* Mutant of Arrive: the tag is not counted up.
ArriveSameTag(c) ==
    /\ told[c] = "idle" /\ \A d \in 1 .. c - 1 : told[d] # "idle"
    /\ LET r == NextRequester
       IN  /\ i' = r
           /\ taggedRes' = [taggedRes EXCEPT ![r] = With(@, tag[r], Entry("AUTH", c))]
           /\ Enqueue(r, Ask("AUTH", tag[r], c))
           /\ tag' = [tag EXCEPT ![r] = 1]
           /\ at' = [at EXCEPT ![c] = r]
    /\ told' = [told EXCEPT ![c] = "waiting"]
    /\ UNCHANGED <<link, given, granted, orphan, faulty>>

\* server.get and Requester.makeRequest
Arrive(c) ==
    /\ told[c] = "idle" /\ \A d \in 1 .. c - 1 : told[d] # "idle"
    /\ LET r == NextRequester
       IN  /\ i' = r
           /\ taggedRes' = [taggedRes EXCEPT ![r] = With(@, tag[r], Entry("AUTH", c))]
           /\ Enqueue(r, Ask("AUTH", tag[r], c))
           /\ tag' = [tag EXCEPT ![r] = @ + 1]
           /\ at' = [at EXCEPT ![c] = r]
    /\ told' = [told EXCEPT ![c] = "waiting"]
    /\ UNCHANGED <<link, given, granted, orphan, faulty>>

-----------------------------------------------------------------------------
(* The REQ socket and the service behind it.                               *)

\* A REQ socket sends the next message when the last one has been answered.
Send(r) ==
    /\ link[r] = None
    /\ queue[r] # <<>>
    /\ link' = [link EXCEPT ![r] = Head(queue[r])]
    /\ queue' = [queue EXCEPT ![r] = Tail(@)]
    /\ UNCHANGED <<i, tag, taggedRes, told, given, at, granted, orphan, faulty>>

Unanswered(r) == link[r] # None /\ link[r].body = ""

\* The engine answers with the tag it was sent.
Answer(r) ==
    /\ Unanswered(r)
    /\ \E body \in IF link[r].type = "AUTH" THEN Verdicts ELSE {"ok"} :
           /\ link' = [link EXCEPT ![r].body = body]
           /\ granted' = IF body = "granted" THEN granted \cup {link[r].client} ELSE granted
    /\ UNCHANGED <<i, tag, taggedRes, queue, told, given, at, orphan, faulty>>

\* The dispatcher or a worker has lost it: there is no timeout, the socket
\* waits for ever.
Lose(r) ==
    /\ "lost" \in Faults
    /\ Unanswered(r)
    /\ link' = [link EXCEPT ![r].body = "lost"]
    /\ faulty' = faulty \cup {r}
    /\ UNCHANGED <<i, tag, taggedRes, queue, told, given, at, granted, orphan>>

\* A handler has thrown: the engine's answer has no tag.
AnswerUntagged(r) ==
    /\ "untagged" \in Faults
    /\ Unanswered(r)
    /\ link' = [link EXCEPT ![r].body = "ok", ![r].tag = None]
    /\ faulty' = faulty \cup {r}
    /\ UNCHANGED <<i, tag, taggedRes, queue, told, given, at, granted, orphan>>

-----------------------------------------------------------------------------
(* The listener of the socket.                                             *)

Replied(r) == link[r] # None /\ link[r].body \notin {"", "lost"}

Received(r) ==
    /\ Replied(r)
    /\ link' = [link EXCEPT ![r] = None]
    /\ UNCHANGED <<i, tag, at, granted, faulty>>

Known(r) == link[r].tag \in DOMAIN taggedRes[r]
Tagged(r) == taggedRes[r][link[r].tag]

\* No tag, or nobody waits for it.
DropReply(r) ==
    /\ Received(r)
    /\ ~Known(r)
    /\ UNCHANGED <<taggedRes, queue, told, given, orphan>>

Banned(r) ==
    /\ Received(r)
    /\ Known(r) /\ Tagged(r).type = "AUTH" /\ link[r].body = "banned"
    /\ told' = [told EXCEPT ![Tagged(r).fun] = "banned"]
    /\ taggedRes' = [taggedRes EXCEPT ![r] = Without(@, link[r].tag)]
    /\ UNCHANGED <<queue, given, orphan>>

\* What `fun` and the listener do to the table: the callback is stored, the
\* entry of the AUTH deleted.
StoreCallback(r) ==
    LET replaced == IF NaN \in DOMAIN taggedRes[r] THEN {taggedRes[r][NaN].fun} ELSE {}
    IN  /\ taggedRes' = [taggedRes EXCEPT
               ![r] = Without(With(@, NaN, Entry("GET", Tagged(r).fun)), link[r].tag)]
        /\ orphan' = orphan \cup replaced

\* Mutant of Authorized: RA_BANNED is let through.
AuthorizedIfAnswered(r) ==
    /\ Received(r)
    /\ Known(r) /\ Tagged(r).type = "AUTH"
    /\ Enqueue(r, Ask("GET", NaN, Tagged(r).fun))
    /\ StoreCallback(r)
    /\ UNCHANGED <<told, given>>

\* Mutant of Authorized: the request is built and not sent.
AuthorizedUnsent(r) ==
    /\ Received(r)
    /\ Known(r) /\ Tagged(r).type = "AUTH" /\ link[r].body # "banned"
    /\ StoreCallback(r)
    /\ UNCHANGED <<queue, told, given>>

Authorized(r) ==
    /\ Received(r)
    /\ Known(r) /\ Tagged(r).type = "AUTH" /\ link[r].body # "banned"
    /\ Enqueue(r, Ask("GET", NaN, Tagged(r).fun))
    /\ StoreCallback(r)
    /\ UNCHANGED <<told, given>>

\* Mutant of Reply: the entry is not deleted.
ReplyKept(r) ==
    /\ Received(r)
    /\ Known(r) /\ Tagged(r).type = "GET"
    /\ told' = [told EXCEPT ![Tagged(r).fun] = "answered"]
    /\ given' = [given EXCEPT ![Tagged(r).fun] = link[r].client]
    /\ UNCHANGED <<taggedRes, queue, orphan>>

Reply(r) ==
    /\ Received(r)
    /\ Known(r) /\ Tagged(r).type = "GET"
    /\ told' = [told EXCEPT ![Tagged(r).fun] = "answered"]
    /\ given' = [given EXCEPT ![Tagged(r).fun] = link[r].client]
    /\ taggedRes' = [taggedRes EXCEPT ![r] = Without(@, link[r].tag)]
    /\ UNCHANGED <<queue, orphan>>

OnMessage(r) == DropReply(r) \/ Banned(r) \/ Authorized(r) \/ Reply(r)

Next ==
    \/ \E c \in Client : Arrive(c)
    \/ \E r \in Pool : Send(r) \/ Answer(r) \/ Lose(r) \/ AnswerUntagged(r) \/ OnMessage(r)

Spec == Init /\ [][Next]_vars

\* The socket sends what it may, node calls the listener, and the service
\* answers what it has not lost.
Fairness == \A r \in Pool : WF_vars(Send(r)) /\ WF_vars(Answer(r)) /\ WF_vars(OnMessage(r))

FairSpec == Spec /\ Fairness

-----------------------------------------------------------------------------
Waiting(r) == {c \in Client : at[c] = r /\ told[c] = "waiting"}
Entries(r) == {taggedRes[r][k].fun : k \in DOMAIN taggedRes[r]}
AtRest(r) == link[r] = None /\ queue[r] = <<>>

\* A client that waits has one entry in the table of its requester, and only
\* clients that wait have one, so that nobody is called back twice; or its
\* entry was replaced.  When all is answered, exactly the clients that were
\* replaced still wait: each loses one call, however many replies went to
\* somebody else before (start.coffee:69-104).
UncalledIsKnown ==
    \A r \in Pool :
        /\ Cardinality(Entries(r)) = Cardinality(DOMAIN taggedRes[r])
        /\ Entries(r) \cap orphan = {}
        /\ Waiting(r) = Entries(r) \cup {c \in orphan : at[c] = r}
        /\ AtRest(r) /\ r \notin faulty => Entries(r) = {}

\* A client is given an answer only when it was authorized and the answer is
\* to a client that was; and another client's answer only when the callback
\* of some client of the same requester has been replaced before
\* (start.coffee:88-97).
AnswerIsAuthorized ==
    \A c \in Client :
        told[c] = "answered" =>
            /\ {c, given[c]} \subseteq granted
            /\ at[c] = at[given[c]]
            /\ given[c] # c => \E d \in orphan : at[d] = at[c]

-----------------------------------------------------------------------------
(* What makes the two inductive.                                           *)

\* The messages of a requester that are to be sent, or answered, or read.
Sent(r) == Range(queue[r]) \cup ({link[r]} \ {None})

\* A message is what its tag, its client and the requester say.  What has no
\* tag was answered so, or is lost.
MessagesAreTrue(r) ==
    /\ \A m \in Range(queue[r]) : m.body = "" /\ m.tag # None
    /\ \A m \in Sent(r) :
           /\ at[m.client] = r
           /\ m.tag = None => r \in faulty
           /\ m.type = "GET" => m.tag \in {NaN, None} /\ m.client \in granted
           /\ m.type = "AUTH" => m.tag \in 0 .. tag[r] - 1 \cup {None}
           /\ m.type = "AUTH" /\ m.tag \in DOMAIN taggedRes[r] =>
                  /\ taggedRes[r][m.tag].fun = m.client
                  /\ m.body \in {"granted", "ok"} => m.client \in granted

\* The table: each entry is of another client, which waits, and of every
\* client that waits there is one, unless it was replaced; and a message that
\* will call it is on its way.
EntriesWait(r) ==
    /\ \A k, l \in DOMAIN taggedRes[r] :
           taggedRes[r][k].fun = taggedRes[r][l].fun => k = l
    /\ Entries(r) = Waiting(r) \ orphan
    /\ \A k \in DOMAIN taggedRes[r] :
           /\ k = NaN => taggedRes[r][k].fun \in granted
           /\ r \notin faulty => \E m \in Sent(r) : m.tag = k

Gets(r) == {m \in Sent(r) : m.type = "GET"}

\* A client has one request on its way at most, and none before its AUTH was
\* answered; and as long as no callback was replaced there is one request, of
\* the client that is called with its answer.
OneGetEach(r) ==
    /\ \A j \in DOMAIN queue[r] : queue[r][j].type = "GET" =>
           /\ link[r] # None /\ link[r].type = "GET" =>
                  queue[r][j].client # link[r].client
           /\ \A h \in DOMAIN queue[r] :
                  h # j /\ queue[r][h].type = "GET" =>
                      queue[r][h].client # queue[r][j].client
    /\ \A k \in DOMAIN taggedRes[r] \ {NaN} : \A m \in Gets(r) :
           m.client # taggedRes[r][k].fun
    /\ (\A c \in orphan : at[c] # r) => \A m \in Gets(r) :
           NaN \in DOMAIN taggedRes[r] /\ taggedRes[r][NaN].fun = m.client

ClientsAreKnown ==
    /\ \A c \in Client : told[c] = "idle" <=> at[c] = None
    /\ \A c \in orphan : told[c] = "waiting"

RequesterInv ==
    /\ TypeOK
    /\ ClientsAreKnown
    /\ AnswerIsAuthorized
    /\ \A r \in Pool : MessagesAreTrue(r) /\ EntriesWait(r) /\ OneGetEach(r)

-----------------------------------------------------------------------------
\* Every client is called back, but for those whose callback was replaced and
\* those of a requester that a reply or a tag did not reach.
CalledBack ==
    \A c \in Client :
        told[c] = "waiting" ~>
            told[c] # "waiting" \/ c \in orphan \/ at[c] \in faulty

\* "you should be able to go to http://localhost:8193/ and then see
\* {"hello":"world"}" (README.md): every GET is answered.
HelloIsSeen == \A c \in Client : told[c] = "waiting" ~> told[c] = "answered"
=============================================================================
