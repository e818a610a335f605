----------------------------- MODULE WebEngine -----------------------------
(***************************************************************************)
(* What a worker does with a request: stripRoute, WebEngine::evaluate,     *)
(* sendResponse (service/source/worker_group.cpp,                          *)
(* service/source/web_engine.cpp), on the tree of HandlerTree.             *)
(*                                                                         *)
(* A message is a sequence of parts, [key |-> "URI", val |-> ...]; the key *)
(* is the text in front of the colon.  Evaluating a request reads the tree *)
(* and writes nothing that others see, so it is one step.                  *)
(*                                                                         *)
(* The optional parts are looked for with in.front() of a list that may be *)
(* empty (web_engine.cpp:117-158).  The outcome of that is undefined: with *)
(* libc++ the end of the list reads as an empty string, which is not the   *)
(* part looked for; otherwise the program may end.                         *)
(*                                                                         *)
(* HandlerRequest's move constructor leaves the method unset and           *)
(* HandlerResponseMeta's drops the tag (service/include/handler.hpp:37-42, *)
(* 55-58).  Neither shows here: the only request that is returned by value *)
(* is built in its place, and the tag is set after the last move.          *)
(***************************************************************************)
EXTENDS HandlerTree

CONSTANTS
    Requests,       \* what workers are sent: sequences of frames
    Serves,         \* [Handler -> set of methods it answers with 200]
    Authorize,      \* [handler, also the null handler, -> number]: authorize()
    Throwing        \* the handlers whose methods may throw

ASSUME RequestAssumption == \A m \in Requests : m \in Seq(ToSet(m))

\* A URI is a sequence of slashes and of the texts between them.
IsURI(uri) ==
    /\ uri \in Seq(ToSet(uri))
    /\ \A i \in 1 .. Len(uri) - 1 : "/" \in {uri[i], uri[i + 1]}

ASSUME UriAssumption ==
    \A m \in Requests : \A i \in DOMAIN m : m[i].key = "URI" => IsURI(m[i].val)

\* RequestAuthorization is an unsigned number.
ASSUME AuthorizeAssumption == Authorize \in [Handler \cup {NullHandler} -> Nat]

VARIABLES request, reply

engineVars == <<tree, program, request, reply>>

Methods == {"GET", "POST", "PUT", "DELETE", "OPTIONS", "AUTH"}

\* The empty frame that ends an envelope.
Empty == [key |-> "", val |-> ""]
part(k, v) == [key |-> k, val |-> v]

-----------------------------------------------------------------------------
(* The envelope.                                                           *)

EnvelopeEnd(frames) == SelectLastInSeq(frames, LAMBDA f : f = Empty)
route(frames) == SubSeq(frames, 1, EnvelopeEnd(frames))

strip(frames) == SubSeq(frames, EnvelopeEnd(frames) + 1, Len(frames))

-----------------------------------------------------------------------------
(* InputToRequest.  `got` holds the values by key, `past` that front() was *)
(* called on an empty list, `bad` that the request is invalid.             *)

Noted(got, k, v) == [l \in DOMAIN got \cup {k} |-> IF l = k THEN v ELSE got[l]]

Optional(r, k) ==
    IF r.bad THEN r
    ELSE IF r.rest = <<>> THEN [r EXCEPT !.past = TRUE]
    ELSE IF Head(r.rest).key # k THEN r
    ELSE [r EXCEPT !.rest = Tail(@), !.got = Noted(@, k, Head(r.rest).val)]

Required(r, k) ==
    LET next == Optional(r, k)
    IN  [next EXCEPT !.bad = @ \/ k \notin DOMAIN next.got]

\* Headers end at the first part that is not one.
Headers(r) ==
    LET ends == {i \in DOMAIN r.rest : r.rest[i].key # "Header"}
        n == IF ends = {} THEN Len(r.rest) ELSE Min(ends) - 1
    IN  [r EXCEPT !.rest = SubSeq(@, n + 1, Len(@))]

\* Mutant of Body: what follows the body is not looked at.
BodyAndMore(r) ==
    IF r.bad \/ r.rest = <<>> THEN r ELSE Required(r, "Body")

\* Nothing, or one body.
Body(r) ==
    IF r.bad \/ r.rest = <<>> THEN r
    ELSE IF Len(r.rest) > 1 THEN [r EXCEPT !.bad = TRUE]
    ELSE Required(r, "Body")

Get(r, k, default) == IF k \in DOMAIN r.got THEN r.got[k] ELSE default

\* getline on "/": a slash ends a part, also an empty one; nothing follows
\* the last slash.
Split(uri) ==
    LET step(acc, c) ==
            IF c = "/" THEN [done |-> Append(acc.done, acc.open), open |-> ""]
            ELSE [acc EXCEPT !.open = c]
        end == FoldLeft(step, [done |-> <<>>, open |-> ""], uri)
    IN  IF end.open = "" THEN end.done ELSE Append(end.done, end.open)

InputToRequest(in) ==
    LET start == [rest |-> in, got |-> <<>>, past |-> FALSE, bad |-> FALSE]
        begun == Required(Required(start, "Type"), "URI")
        meta == Optional(Optional(Optional(begun, "Tag"), "Auth"), "Version")
        r == Body(Headers(meta))
        known == ~r.bad /\ r.got["Type"] \in Methods
    IN  [method |-> IF known THEN r.got["Type"] ELSE "NULL",
         tag |-> Get(r, "Tag", ""),
         URIParts |-> IF known THEN Split(r.got["URI"]) ELSE <<>>,
         past |-> r.past]

-----------------------------------------------------------------------------
(* evaluate and ResponseToOutput.                                          *)

\* match() leaves the last part a regular expression has taken.
Walk(from, uriParts) ==
    LET step(at, p) ==
            LET h == resolve(at.node, p)
            IN  [node |-> h, data |-> IF h \in Regex /\ p # "" THEN p ELSE at.data]
    IN  FoldLeft(step, [node |-> from, data |-> ""], uriParts)

ResponseToOutput(code, tag, body) ==
    <<part("Code", code)>>
    \o (IF tag = "" THEN <<>> ELSE <<part("Tag", tag)>>)
    \o <<part("Type", ""), part("Body", body)>>

\* RA_NULL and RA_BANNED are refused.
MakeAuthorizationResponse(auth) ==
    IF auth <= 1 THEN [code |-> 403, body |-> 0] ELSE [code |-> 200, body |-> auth]

\* What BaseHandler does for a handler that does not do it itself, and what
\* the null handler does.
BadMethod == [code |-> 405, body |-> ""]
NotFound == [code |-> 404, body |-> ""]

\* OPTIONS is answered by get().
Handled(at, method) ==
    LET called == IF method = "OPTIONS" THEN "GET" ELSE method
    IN  IF method = "AUTH" THEN MakeAuthorizationResponse(Authorize[at.node])
        ELSE IF at.node = NullHandler THEN NotFound
        ELSE IF called \in Serves[at.node]
             THEN [code |-> 200, body |-> <<at.node, at.data>>]
             ELSE BadMethod

\* Mutant of evaluate: the tag of the request is not copied to an answer 400.
evaluateUntagged(msg) ==
    LET r == InputToRequest(msg)
        res == Handled(Walk(rootHandler, r.URIParts), r.method)
    IN  IF msg = <<part("DEMO", "")>> THEN <<part("DEMO-HAI", "")>>
        ELSE IF r.method = "NULL"
             THEN ResponseToOutput(400, "", "Invalid request")
             ELSE ResponseToOutput(res.code, r.tag, res.body)

evaluate(msg) ==
    LET r == InputToRequest(msg)
        res == Handled(Walk(rootHandler, r.URIParts), r.method)
    IN  IF msg = <<part("DEMO", "")>> THEN <<part("DEMO-HAI", "")>>
        ELSE IF r.method = "NULL"
             THEN ResponseToOutput(400, r.tag, "Invalid request")
             ELSE ResponseToOutput(res.code, r.tag, res.body)

\* Methods of handlers are code of the service: they may throw.  The tag is
\* stored only after evaluate(req) has returned, so this answer has none.
Throws(msg) ==
    LET r == InputToRequest(msg)
    IN  r.method # "NULL" /\ Walk(rootHandler, r.URIParts).node \in Throwing

InternalError == ResponseToOutput(500, "", "internal error")

-----------------------------------------------------------------------------
Nobody == <<>>

Init == TreeInit /\ request = Nobody /\ reply = Nobody

BuildTree ==
    /\ InitTree \/ \E f \in DOMAIN File : Construct(f)
    /\ UNCHANGED <<request, reply>>

Receive(frames) ==
    /\ program = "serving"
    /\ request = Nobody
    /\ request' = frames
    /\ UNCHANGED <<tree, program, reply>>

\* The answer goes back along the envelope.
SendResponse ==
    /\ request # Nobody /\ reply = Nobody /\ program = "serving"
    /\ \/ reply' = route(request) \o evaluate(strip(request))
       \/ Throws(strip(request)) /\ reply' = route(request) \o InternalError
    /\ UNCHANGED <<tree, program, request>>

\* The front of an empty list is read.
Crash ==
    /\ request # Nobody /\ reply = Nobody /\ program = "serving"
    /\ InputToRequest(strip(request)).past
    /\ program' = "worker"
    /\ UNCHANGED <<tree, request, reply>>

Forget ==
    /\ reply # Nobody
    /\ request' = Nobody
    /\ reply' = Nobody
    /\ UNCHANGED <<tree, program>>

Next ==
    \/ BuildTree
    \/ \E frames \in Requests : Receive(frames)
    \/ SendResponse \/ Crash \/ Forget

Spec == Init /\ [][Next]_engineVars

-----------------------------------------------------------------------------
TypeOK ==
    /\ TreeTypeOK
    /\ reply # Nobody => request # Nobody

\* What a client sees of it: its envelope ends at the first empty frame.
FirstEmpty == SelectInSeq(request, LAMBDA f : f = Empty)
Envelope == SubSeq(request, 1, FirstEmpty)
Message == SubSeq(request, FirstEmpty + 1, Len(request))
Answer == SubSeq(reply, EnvelopeEnd(request) + 1, Len(reply))

\* What a worker sees of it: what is behind the last one.
Heard == strip(request)

Values(m, k) == {m[i].val : i \in {j \in DOMAIN m : m[j].key = k}}

\* The format of a request, as the comment of InputToRequest gives it: these
\* parts in this order, of which only headers repeat and of which the first
\* two are not optional (web_engine.cpp:92-111).
Place == [k \in {"Type", "URI", "Tag", "Auth", "Version", "Header", "Body"} |->
             CASE k = "Type" -> 1 [] k = "URI" -> 2 [] k = "Tag" -> 3
               [] k = "Auth" -> 4 [] k = "Version" -> 5 [] k = "Header" -> 6
               [] k = "Body" -> 7]

WellFormed(m) ==
    /\ \A i \in DOMAIN m : m[i].key \in DOMAIN Place
    /\ {"Type", "URI"} \subseteq {m[i].key : i \in DOMAIN m}
    /\ \A i, j \in DOMAIN m :
           i < j => \/ Place[m[i].key] < Place[m[j].key]
                    \/ m[i].key = "Header" /\ m[j].key = "Header"

\* The node a URI means: slashes only separate.
Follow(node, c) == IF c = "/" THEN node ELSE resolve(node, c)
Target(uri) == FoldLeft(Follow, rootHandler, uri)

\* When what stands behind the last empty frame of a message has the documented
\* format, whichever optional parts it has, it reaches the handler its URI names,
\* and what the handler answers, or the verdict of its authorize(), comes back;
\* when it has not, 400 does (web_engine.cpp:112-255, 279-386).  What stands in
\* front of that frame is not looked at: behind garbage and an empty frame a good
\* request is answered as if it came alone, and a request with an empty frame in
\* it is judged by its end (worker_group.cpp:85-103).  500 is the answer to an
\* exception.
AnswersAsDocumented ==
    reply # Nobody /\ Heard # <<part("DEMO", "")>> =>
        \A code \in Values(Answer, "Code") \ {500} :
            IF ~WellFormed(Heard) \/ Values(Heard, "Type") \cap Methods = {}
            THEN code = 400
            ELSE \A method \in Values(Heard, "Type"), uri \in Values(Heard, "URI") :
                     LET h == Target(uri)
                         get == IF method = "OPTIONS" THEN "GET" ELSE method
                     IN  code = IF method = "AUTH"
                                THEN IF Authorize[h] > 1 THEN 200 ELSE 403
                                ELSE IF h = NullHandler THEN 404
                                ELSE IF get \in Serves[h] THEN 200 ELSE 405

\* The answer goes back along the envelope of its request, also when the
\* message has an empty part, and with the tag of the request if that was in
\* its place and not empty, unless an exception was thrown; then it has none
\* (worker_group.cpp:85-125, web_engine.cpp:288-335).
ReplyFindsItsWay ==
    reply # Nobody =>
        /\ IsPrefix(Envelope, reply)
        /\ FirstEmpty = EnvelopeEnd(request) =>
               Values(Answer, "Tag") =
                   IF /\ Values(Answer, "Code") # {500}
                      /\ Len(Message) > 2
                      /\ <<"Type", "URI", "Tag">> = [i \in 1 .. 3 |-> Message[i].key]
                   THEN {Message[3].val} \ {""}
                   ELSE {}

\* The program is lost in two ways only.  init() follows a null pointer when a
\* handler with children has no static object, or is the root that came second,
\* which depends on the order of static objects; and a worker reads the front of an empty list when a request
\* ends before the place of its version, which it never does with a header or
\* a body (handler_registrar.cpp:56-93, web_engine.cpp:117-158).
CrashesAreKnown ==
    /\ program = "init" =>
           \E h \in Handler \ {rootHandler} : 
               (IsRoot(h) \/ h \notin Static) /\ toRegister[h] # <<>>
    /\ program = "worker" =>
           LET m == strip(request)
           IN  \A i \in DOMAIN m : m[i].key \in {"Type", "URI", "Tag", "Auth"}

-----------------------------------------------------------------------------
(* What makes TypeOK and CrashesAreKnown inductive.                        *)

EngineInv ==
    /\ TreeInv
    /\ request \in Requests \cup {Nobody}
    /\ reply # Nobody => request # Nobody
    /\ request # Nobody => program # "static"
    /\ program = "worker" => reply = Nobody /\ InputToRequest(strip(request)).past
=============================================================================
