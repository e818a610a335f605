------------------------------- MODULE Keeper -------------------------------
(***************************************************************************)
(* The bookkeeping of references: ThreadKeeper, Keeper and Tracked         *)
(* (libs/utility/keeper.cpp, libs/include/utility/memory/keeper.hpp).      *)
(*                                                                         *)
(* Each thread has a Keeper of its own, made when it is first needed.  It  *)
(* keeps a set of pointers and, apart from that, a count.  A Tracked       *)
(* object is noted by the thread that makes it and crossed out by the      *)
(* thread that deletes it, which may be another; its address may then be   *)
(* used again.  One class of objects is modelled.                          *)
(***************************************************************************)
EXTENDS Integers, FiniteSets

CONSTANTS
    Holder,     \* the threads that hold a keeper
    Pointer,    \* addresses of Tracked objects
    MaxCount,   \* bound: references a keeper counts
    Null        \* no keeper, no object

ASSUME KeeperAssumption ==
    /\ IsFiniteSet(Pointer)
    /\ MaxCount \in Nat
    /\ Holder \cap {Null, "other"} = {}
    /\ Null \notin [memEntries : SUBSET Pointer, count : Nat]

VARIABLES
    keeper,     \* [Holder -> [memEntries, count] or Null]
    heap,       \* [Pointer -> who has allocated it under its present keeper,
                \*             "other" if that keeper is gone, or Null]
    foreign     \* the threads of which another one has deleted an object

keeping == <<keeper, heap, foreign>>

NewKeeper == [memEntries |-> {}, count |-> 0]

KeeperTypeOK ==
    /\ keeper \in [Holder ->
           {Null} \cup [memEntries : SUBSET Pointer, count : 0 .. MaxCount]]
    /\ heap \in [Pointer -> Holder \cup {"other", Null}]
    /\ foreign \subseteq Holder

KeeperInit ==
    /\ keeper = [t \in Holder |-> Null]
    /\ heap = [p \in Pointer |-> Null]
    /\ foreign = {}

Started(t) == IF keeper[t] = Null THEN NewKeeper ELSE keeper[t]

\* ThreadKeeper::start, ScopedKeeper
start(t) ==
    /\ keeper' = [keeper EXCEPT ![t] = Started(t)]
    /\ UNCHANGED <<heap, foreign>>

\* ThreadKeeper::end, ~ScopedKeeper: what is left is reported, and forgotten.
end(t) ==
    /\ keeper' = [keeper EXCEPT ![t] = Null]
    /\ heap' = [p \in Pointer |-> IF heap[p] = t THEN "other" ELSE heap[p]]
    /\ foreign' = foreign \ {t}

LeakDetected(t) == keeper[t] # Null /\ keeper[t].count # 0

push(k, p) == [memEntries |-> k.memEntries \cup {p}, count |-> k.count + 1]

\* Mutant of pop: what is not found is counted off.
popUnchecked(k, p) == [memEntries |-> k.memEntries \ {p}, count |-> k.count - 1]

\* Mutant of pop: the count is left.
popUncounted(k, p) == [k EXCEPT !.memEntries = @ \ {p}]

pop(k, p) ==
    IF p \in k.memEntries
    THEN [memEntries |-> k.memEntries \ {p}, count |-> k.count - 1]
    ELSE k

\* Tracked::operator new
New(t, p) ==
    /\ heap[p] = Null
    /\ Started(t).count < MaxCount
    /\ keeper' = [keeper EXCEPT ![t] = push(Started(t), p)]
    /\ heap' = [heap EXCEPT ![p] = t]
    /\ UNCHANGED foreign

\* Tracked::operator delete
Delete(t, p) ==
    /\ heap[p] # Null
    /\ keeper' = [keeper EXCEPT ![t] = pop(Started(t), p)]
    /\ heap' = [heap EXCEPT ![p] = Null]
    /\ foreign' = foreign \cup ({heap[p]} \ {t, "other"})

-----------------------------------------------------------------------------
\* What thread t has made and nobody has deleted.
Mine(t) == {p \in Pointer : heap[p] = t}

\* A keeper has every object its thread has made and nobody has deleted, so no
\* leak is missed; and unless another thread has deleted one of them, it has
\* no other, and the count says how many there are, so LEAK DETECTED is true.
\* A deletion elsewhere leaves an entry, and when its address is used again
\* one entry is counted twice (keeper.cpp:53-66).
KeeperTells ==
    \A t \in Holder :
        LET k == keeper[t]
        IN  k # Null =>
                /\ Mine(t) \subseteq k.memEntries
                /\ Cardinality(k.memEntries) <= k.count
                /\ t \notin foreign =>
                       k.memEntries = Mine(t) /\ k.count = Cardinality(Mine(t))

\* What makes it inductive: a thread without a keeper has nothing to tell.
KeeperInv ==
    /\ KeeperTypeOK
    /\ KeeperTells
    /\ \A t \in Holder : keeper[t] = Null => Mine(t) = {} /\ t \notin foreign
=============================================================================
