---------------------------- MODULE HandlerTree ----------------------------
(***************************************************************************)
(* The tree of handlers: HandlerRegister and HandlerRegistrar, which build *)
(* it, and Handler::resolve, which walks it                                *)
(* (service/include/handler_register.hpp, service/source/                  *)
(* handler_registrar.cpp, service/source/handler.cpp).                     *)
(*                                                                         *)
(* Handlers are static objects.  Each registers itself when its            *)
(* constructor runs; the constructors of one source file run in its order, *)
(* those of different files in any.  main() then calls init(), which hangs *)
(* each handler below its parents.  The tree is not changed afterwards.    *)
(* A handler is named by its type, which is also the key of `handles`.     *)
(***************************************************************************)
EXTENDS Naturals, Sequences, SequencesExt

CONSTANTS
    Handler,        \* the types of handlers
    NullHandler,    \* the handler of unknown paths (handler.cpp:85)
    Handle,         \* [Handler -> name]: handle()
    Regex,          \* the handlers of which isRegex() holds
    Accepts,        \* [Regex -> set of parts]: what regex_match accepts
    Parents,        \* [Handler -> set of handlers]: the types it registers to
    File,           \* [file -> sequence of handlers]: its static objects
    Parts,          \* the parts a URI may have
    Nothing         \* no handler

ASSUME TreeAssumption ==
    /\ NullHandler \notin Handler /\ Nothing \notin Handler \cup {NullHandler}
    /\ Regex \subseteq Handler
    /\ Parents \in [Handler -> SUBSET Handler]
    /\ File \in [DOMAIN File -> Seq(Handler)]
    /\ \E f \in DOMAIN File, h \in Handler : Contains(File[f], h) /\ Handle[h] = ""

VARIABLES
    left,           \* the static objects each file has still to construct
    handles,        \* the handlers registerHandle has taken
    rootHandler,    \* a handler, or Nothing
    toRegister,     \* [Handler -> its children in the order of registerTo]
    hard_handles,   \* [Handler -> the places in toRegister of these children]
    regex_handles,  \* [Handler -> the places in toRegister of these children]
    program         \* "static", "serving", or what ended it: "init", "worker"

tree == <<left, handles, rootHandler, toRegister, hard_handles, regex_handles>>

\* The handlers of which some file has a static object.
Static == {h \in Handler : \E f \in DOMAIN File : Contains(File[f], h)}

TreeTypeOK ==
    /\ left \in [DOMAIN File -> Seq(Handler)]
    /\ handles \subseteq Handler
    /\ rootHandler \in handles \cup {Nothing}
    /\ toRegister \in [Handler -> Seq(Handler)]
    /\ hard_handles \in [Handler -> SUBSET Nat]
    /\ regex_handles \in [Handler -> SUBSET Nat]
    /\ \A n \in Handler : hard_handles[n] \cup regex_handles[n] \subseteq DOMAIN toRegister[n]
    /\ program \in {"static", "serving", "init", "worker"}

TreeInit ==
    /\ left = File
    /\ handles = {}
    /\ rootHandler = Nothing
    /\ toRegister = [h \in Handler |-> <<>>]
    /\ hard_handles = [n \in Handler |-> {}]
    /\ regex_handles = [n \in Handler |-> {}]
    /\ program = "static"

\* A handler with an empty name wants to be the root; the second is refused.
IsRoot(h) == Handle[h] = ""
Refused(h) == IsRoot(h) /\ rootHandler # Nothing

\* Mutant of registerHandle: a refused root is the root all the same.
registerHandleRefused(h) ==
    /\ handles' = IF Refused(h) THEN handles ELSE handles \cup {h}
    /\ rootHandler' = IF IsRoot(h) THEN h ELSE rootHandler

\* Mutant of registerHandle: only the root gets into the map.
registerHandleOfRoot(h) ==
    IF IsRoot(h) /\ ~Refused(h)
    THEN handles' = handles \cup {h} /\ rootHandler' = h
    ELSE UNCHANGED <<handles, rootHandler>>

registerHandle(h) ==
    /\ handles' = IF Refused(h) THEN handles ELSE handles \cup {h}
    /\ rootHandler' = IF IsRoot(h) /\ ~Refused(h) THEN h ELSE rootHandler

registerTo(h) ==
    toRegister' = [p \in Handler |->
                      IF p \in Parents[h] THEN Append(toRegister[p], h)
                      ELSE toRegister[p]]

\* The constructor of HandlerRegister: a refused handler still registers to
\* its parents.
Construct(f) ==
    /\ program = "static"
    /\ left[f] # <<>>
    /\ left' = [left EXCEPT ![f] = Tail(@)]
    /\ registerHandle(Head(left[f]))
    /\ registerTo(Head(left[f]))
    /\ UNCHANGED <<hard_handles, regex_handles, program>>

\* What init() hangs below each node: the children of one kind, which it
\* takes in the order of toRegister.  A list of them is the set of their
\* places there; the first of the list is the one in the least place.
addHandlers(kind) ==
    [n \in Handler |-> {i \in DOMAIN toRegister[n] : toRegister[n][i] \in kind}]

\* handles[parent] inserts a null pointer for a parent that is not registered
\* and addHandler is called on it.
InitTree ==
    /\ program = "static"
    /\ \A f \in DOMAIN File : left[f] = <<>>
    /\ IF \E n \in Handler \ handles : toRegister[n] # <<>>
       THEN program' = "init" /\ UNCHANGED <<hard_handles, regex_handles>>
       ELSE /\ program' = "serving"
            /\ hard_handles' = addHandlers(Handler \ Regex)
            /\ regex_handles' = addHandlers(Regex)
    /\ UNCHANGED <<left, handles, rootHandler, toRegister>>

\* Where the children of a node are that a part may mean.
Hard(n, part) == {i \in hard_handles[n] : Handle[toRegister[n][i]] = part}
Matching(n, part) == {i \in regex_handles[n] : part \in Accepts[toRegister[n][i]]}

FirstOf(n, places) == toRegister[n][Min(places)]

\* Mutant of resolve: regular expressions first.
resolveRegexFirst(n, part) ==
    IF part = "" THEN n
    ELSE IF n = NullHandler THEN NullHandler
    ELSE IF Matching(n, part) # {} THEN FirstOf(n, Matching(n, part))
    ELSE IF Hard(n, part) # {} THEN FirstOf(n, Hard(n, part))
    ELSE NullHandler

\* Nothing hangs below the null handler.
resolve(n, part) ==
    IF part = "" THEN n
    ELSE IF n = NullHandler THEN NullHandler
    ELSE IF Hard(n, part) # {} THEN FirstOf(n, Hard(n, part))
    ELSE IF Matching(n, part) # {} THEN FirstOf(n, Matching(n, part))
    ELSE NullHandler

-----------------------------------------------------------------------------
\* Whatever the order in which the files of the program were initialised,
\* resolve finds what the declarations say: the child of that name, else a
\* child whose expression accepts the part, else the null handler
\* (handler_registrar.cpp:86-93, handler.cpp:89-112).
TreeFollowsDeclarations ==
    program = "serving" =>
        \A n \in handles, part \in Parts \ {""} :
            LET child == {h \in Static : n \in Parents[h]}
                named == {h \in child \ Regex : Handle[h] = part}
                accepting == {h \in child \cap Regex : part \in Accepts[h]}
            IN  resolve(n, part) \in
                    IF named # {} THEN named
                    ELSE IF accepting # {} THEN accepting
                    ELSE {NullHandler}

-----------------------------------------------------------------------------
(* What makes it inductive.                                                *)

\* What h's constructor has done: it is in `handles`, unless it is a root that
\* came second, and below each of its parents.
Registered(h) ==
    /\ h \in handles \/ (IsRoot(h) /\ rootHandler \notin {h, Nothing})
    /\ \A p \in Parents[h] : Contains(toRegister[p], h)

\* Each static object is to be constructed or has registered.
ObjectsRegister ==
    \A f \in DOMAIN File :
        /\ \A h \in Handler : Contains(File[f], h) => Contains(left[f], h) \/ Registered(h)
        /\ \A h \in Handler : Contains(left[f], h) => Contains(File[f], h)

ChildrenAreDeclared ==
    \A n \in Handler : \A i \in DOMAIN toRegister[n] :
        toRegister[n][i] \in Static /\ n \in Parents[toRegister[n][i]]

\* init() has left no child out, or met a null pointer.
TreeIsBuilt ==
    program # "static" =>
        /\ \A f \in DOMAIN File : left[f] = <<>>
        /\ IF program = "init"
           THEN \E n \in Handler \ handles : toRegister[n] # <<>>
           ELSE /\ hard_handles = addHandlers(Handler \ Regex)
                /\ regex_handles = addHandlers(Regex)

\* A root that was taken is the root.
RootIsTaken == \A h \in handles : IsRoot(h) => rootHandler = h

TreeInv ==
    TreeTypeOK /\ ObjectsRegister /\ RootIsTaken /\ ChildrenAreDeclared /\ TreeIsBuilt
=============================================================================
