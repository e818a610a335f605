------------------------------- MODULE Broker -------------------------------
(***************************************************************************)
(* What the dispatcher promises to the clients of the service, without its *)
(* poll loop, its heartbeats or its ready queue: a request that was        *)
(* submitted is queued until one worker takes it, a worker has at most one *)
(* request at a time, a request is answered at most once, and it is lost   *)
(* only with the worker that held it or when the broker is closed.         *)
(*                                                                         *)
(* Dispatcher.tla implements this module.                                  *)
(***************************************************************************)
CONSTANTS Request,   \* the requests clients may submit
          Worker     \* the workers that may take them

VARIABLES place,     \* where each request is
          gone,      \* the workers that have left
          open       \* FALSE once the broker has been shut down

vars == <<place, gone, open>>

\* A request that is with worker w has w itself as its place.
Place == {"unsent", "queued", "answered", "lost"} \cup Worker

TypeOK ==
    /\ place \in [Request -> Place]
    /\ gone \subseteq Worker
    /\ open \in BOOLEAN

Init ==
    /\ place = [r \in Request |-> "unsent"]
    /\ gone = {}
    /\ open = TRUE

-----------------------------------------------------------------------------
Submit(r) ==
    /\ open
    /\ place[r] = "unsent"
    /\ place' = [place EXCEPT ![r] = "queued"]
    /\ UNCHANGED <<gone, open>>

\* Nobody tells the broker that a worker has left, so it may still choose
\* one that has: that request is lost.
Assign(r, w) ==
    /\ open
    /\ place[r] = "queued"
    /\ \A q \in Request : place[q] # w
    /\ place' = [place EXCEPT ![r] = IF w \in gone THEN "lost" ELSE w]
    /\ UNCHANGED <<gone, open>>

Answer(r) ==
    /\ open
    /\ place[r] \in Worker
    /\ place' = [place EXCEPT ![r] = "answered"]
    /\ UNCHANGED <<gone, open>>

\* The worker's request may still be answered if the reply is on its way.
Leave(w) ==
    /\ w \notin gone
    /\ gone' = gone \cup {w}
    /\ \/ UNCHANGED place
       \/ place' = [r \in Request |-> IF place[r] = w THEN "lost" ELSE place[r]]
    /\ UNCHANGED open

Close ==
    /\ open
    /\ open' = FALSE
    /\ \E kept \in SUBSET Worker :
           place' = [r \in Request |->
                        IF place[r] \in {"queued"} \cup (Worker \ kept)
                        THEN "lost" ELSE place[r]]
    /\ UNCHANGED gone

\* A worker that finishes a request of a closed broker has nobody to tell.
Drop(r) ==
    /\ ~open
    /\ place[r] \in Worker
    /\ place' = [place EXCEPT ![r] = "lost"]
    /\ UNCHANGED <<gone, open>>

Next ==
    \/ \E r \in Request : Submit(r) \/ Answer(r) \/ Drop(r)
    \/ \E r \in Request, w \in Worker : Assign(r, w)
    \/ \E w \in Worker : Leave(w)
    \/ Close

Spec == Init /\ [][Next]_vars

=============================================================================
