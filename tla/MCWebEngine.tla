---------------------------- MODULE MCWebEngine ----------------------------
(***************************************************************************)
(* WebEngine with the handlers of DemoService and a third file that has a  *)
(* root of its own and one more expression.                                *)
(***************************************************************************)
EXTENDS WebEngine, DemoService

CONSTANTS other, digits, null, nothing

MCHandler == DemoHandlers \cup {other, digits}

MCHandle == DemoHandle @@ (other :> "") @@ (digits :> "[0-9]+")

MCAccepts == [h \in DemoRegex |-> {"demo", "json", "42"}] @@ (digits :> {"42"})

MCParents == DemoParents @@ (other :> {}) @@ (digits :> {demo})

MCFile == DemoFile @@ ("more" :> <<other, digits>>)

MCServes == DemoServes @@ (other :> {}) @@ (digits :> {})

MCAuthorize == DemoAuthorize @@ (other :> 0) @@ (digits :> 2048) @@ (null :> 4)

MCParts == {"", "demo", "json", "42"}

-----------------------------------------------------------------------------
(* Every selection of the parts of a request, and one such selection with  *)
(* any one part put anywhere; then what a worker does not look at.         *)

URIs == {<<>>, <<"/">>, <<"/", "demo">>, <<"/", "demo", "/", "json">>,
         <<"demo", "/", "/", "42", "/">>, <<"/", "json">>}

Full(method, uri) ==
    <<part("Type", method), part("URI", uri), part("Tag", "1"), part("Auth", "2048"),
      part("Version", "NULL"), part("Header", ""), part("Body", "")>>

Selections(m) ==
    {SelectSeq(m, LAMBDA p : p.key \in keys) : keys \in SUBSET {p.key : p \in ToSet(m)}}

Extra == {part("Tag", "2"), part("Tag", ""), part("URI", <<"/">>), part("Header", ""),
          part("NoColon", ""), part("Body", ""), part("DEMO", ""), Empty}

With(m, p) == {InsertAt(m, i, p) : i \in 1 .. Len(m) + 1}

Plain ==
    UNION {Selections(Full(method, uri)) :
               method \in {"GET", "OPTIONS", "POST", "AUTH", "PATCH"}, uri \in URIs}

Odd ==
    UNION {With(m, p) : m \in Selections(Full("GET", <<"/", "demo">>)), p \in Extra}

\* From a REQ socket, from a DEALER that sends no delimiter, and what the
\* dispatcher forwards when it has read nothing.
Client == part("id", "")

MCRequests ==
    {<<Client, Empty>> \o m : m \in Plain \cup Odd}
    \cup {<<Client>> \o m : m \in Selections(Full("GET", <<"/", "demo">>))}
    \cup {<<Client, Empty, part("NoColon", ""), Empty>> \o m :
              m \in Selections(Full("GET", <<"/", "demo">>))}
    \cup {<<Empty>>}
=============================================================================
