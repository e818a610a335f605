---------------------------- MODULE DemoService ----------------------------
(***************************************************************************)
(* What the handlers of the program declare (service/source/root.cpp,      *)
(* service/source/services/demo.cpp): RootHandler, DemoHandler,            *)
(* DemoHandler2, which takes any part, and DemoHandler3, which answers     *)
(* {"hello":"world"}.                                                      *)
(***************************************************************************)
EXTENDS TLC

CONSTANTS root, demo, any, json

DemoHandlers == {root, demo, any, json}

\* handle()
DemoHandle == (root :> "") @@ (demo :> "demo") @@ (any :> ".*") @@ (json :> "json")

\* isRegex()
DemoRegex == {any}

\* The other arguments of each HandlerRegister.
DemoParents == (root :> {}) @@ (demo :> {root}) @@ (any :> {demo}) @@ (json :> {demo})

\* The HandlerRegister objects of each file.
DemoFile == [root |-> <<root>>, demo |-> <<demo, any, json>>]

\* The methods that are overridden: get() only, which says RSC_OK.
DemoServes == [h \in DemoHandlers |-> IF h = root THEN {} ELSE {"GET"}]

\* authorize(): RA_NULL or RA_SELF.
DemoAuthorize == [h \in DemoHandlers |-> IF h = root THEN 0 ELSE 2048]
=============================================================================
