---------------------------- MODULE MCDispatcher ----------------------------
(***************************************************************************)
(* Dispatcher for TLC: model values for the peers and the requests come    *)
(* from the configurations, which differ in size and in what they check.   *)
(***************************************************************************)
EXTENDS Dispatcher, TLC

Peers == Permutations(Worker) \cup Permutations(Request)

=============================================================================
