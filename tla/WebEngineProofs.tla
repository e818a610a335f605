-------------------------- MODULE WebEngineProofs --------------------------
(***************************************************************************)
(* Theorems about HandlerTree and WebEngine for every program of handlers, *)
(* every order of its files and every request.                             *)
(***************************************************************************)
EXTENDS WebEngine, WellFoundedInduction, TLAPS

-----------------------------------------------------------------------------
(* The least place.                                                        *)

LEMMA LeastExists ==
    ASSUME NEW S, S \subseteq Nat, S # {}
    PROVE  \E x \in S : \A y \in S : x <= y
<1> DEFINE R == OpToRel(<, Nat)
<1>1. IsWellFoundedOn(R, Nat)
  BY NatLessThanWellFounded
<1>2. \A x, y \in Nat : y < x => <<y, x>> \in R
  BY DEF OpToRel
<1> HIDE DEF R
<1>3. PICK x \in S : \A y \in S : ~ (<<y, x>> \in R)
  BY <1>1, WFMin, Zenon
<1>4. \A y \in S : ~ (y < x)
  BY <1>2, <1>3
<1> QED
  BY <1>4

LEMMA MinIsLeast ==
    ASSUME NEW S, S \subseteq Nat, S # {}
    PROVE  Min(S) \in S /\ \A y \in S : Min(S) <= y
BY LeastExists DEF Min

LEMMA MaxIsGreatest ==
    ASSUME NEW n \in Nat, NEW S, S \subseteq 0 .. n, S # {}
    PROVE  Max(S) \in S /\ \A y \in S : Max(S) >= y
<1> DEFINE T == {n - x : x \in S}
<1>1. T \subseteq Nat /\ T # {}
  <2>1. \A x \in S : n - x \in Nat
    OBVIOUS
  <2> QED
    BY <2>1
<1>2. \E t \in T : \A u \in T : t <= u
  <2> HIDE DEF T
  <2> QED BY <1>1, LeastExists
<1>3. PICK x \in S : \A y \in S : n - x <= n - y
  BY <1>2
<1>4. \A y \in S : x >= y
  <2>1. \A y \in S : y \in Nat /\ y <= n
    OBVIOUS
  <2> QED
    BY <1>3, <2>1
<1> QED
  BY <1>4 DEF Max

-----------------------------------------------------------------------------
(* Sequences of static objects and of children.                            *)

LEMMA HeadOrTail ==
    ASSUME NEW S, NEW s \in Seq(S), s # <<>>
    PROVE  /\ Head(s) \in S /\ Tail(s) \in Seq(S) /\ Contains(s, Head(s))
           /\ \A e : Contains(s, e) => e = Head(s) \/ Contains(Tail(s), e)
           /\ \A e : Contains(Tail(s), e) => Contains(s, e)
<1>1. Len(s) \in Nat /\ Len(s) # 0 /\ Head(s) = s[1] /\ Tail(s) \in Seq(S)
  OBVIOUS
<1>2. Len(Tail(s)) = Len(s) - 1 /\ \A i \in 1 .. Len(s) - 1 : Tail(s)[i] = s[i + 1]
  OBVIOUS
<1>3. ASSUME NEW e, Contains(s, e)
      PROVE  e = Head(s) \/ Contains(Tail(s), e)
  <2>1. PICK i \in 1 .. Len(s) : s[i] = e
    BY <1>3 DEF Contains
  <2>2. CASE i = 1
    BY <2>1, <2>2, <1>1
  <2>3. CASE i # 1
    <3>1. i - 1 \in 1 .. Len(Tail(s)) /\ Tail(s)[i - 1] = e
      BY <1>1, <1>2, <2>1, <2>3
    <3> QED
      BY <3>1 DEF Contains
  <2> QED
    BY <2>2, <2>3
<1>4. ASSUME NEW e, Contains(Tail(s), e)
      PROVE  Contains(s, e)
  <2>1. PICK i \in 1 .. Len(Tail(s)) : Tail(s)[i] = e
    BY <1>4 DEF Contains
  <2>2. i + 1 \in 1 .. Len(s) /\ s[i + 1] = e
    BY <1>1, <1>2, <2>1
  <2> QED
    BY <2>2 DEF Contains
<1> QED
  BY <1>1, <1>3, <1>4 DEF Contains

LEMMA EmptyContains == \A e : ~ Contains(<<>>, e)
BY DEF Contains

LEMMA AppendContains ==
    ASSUME NEW S, NEW s \in Seq(S), NEW e \in S
    PROVE  /\ Append(s, e) \in Seq(S)
           /\ Contains(Append(s, e), e)
           /\ \A d : Contains(s, d) => Contains(Append(s, e), d)
           /\ DOMAIN s \subseteq DOMAIN Append(s, e)
           /\ \A i \in DOMAIN Append(s, e) :
                  Append(s, e)[i] = e \/ (i \in DOMAIN s /\ Append(s, e)[i] = s[i])
<1>1. /\ Len(s) \in Nat /\ Append(s, e) \in Seq(S) /\ Len(Append(s, e)) = Len(s) + 1
      /\ DOMAIN s = 1 .. Len(s) /\ DOMAIN Append(s, e) = 1 .. Len(s) + 1
  OBVIOUS
<1>2. /\ Append(s, e)[Len(s) + 1] = e
      /\ \A i \in 1 .. Len(s) : Append(s, e)[i] = s[i]
  OBVIOUS
<1>3. \A d : Contains(s, d) => Contains(Append(s, e), d)
  BY <1>1, <1>2 DEF Contains
<1>4. Contains(Append(s, e), e)
  BY <1>1, <1>2 DEF Contains
<1> QED
  BY <1>1, <1>2, <1>3, <1>4

-----------------------------------------------------------------------------
(* The tree.                                                               *)

LEMMA TreeInitInv == TreeInit => TreeInv
<1> SUFFICES ASSUME TreeInit
             PROVE  TreeInv
  OBVIOUS
<1>1. TreeTypeOK
  <2>1. toRegister \in [Handler -> Seq(Handler)]
    BY DEF TreeInit
  <2>2. left \in [DOMAIN File -> Seq(Handler)]
    BY TreeAssumption DEF TreeInit
  <2> QED
    BY <2>1, <2>2 DEF TreeInit, TreeTypeOK
<1>2. ObjectsRegister
  BY DEF TreeInit, ObjectsRegister
<1>3. ChildrenAreDeclared
  BY DEF TreeInit, ChildrenAreDeclared
<1>4. TreeIsBuilt
  BY DEF TreeInit, TreeIsBuilt
<1>5. RootIsTaken
  BY DEF TreeInit, RootIsTaken
<1> QED
  BY <1>1, <1>2, <1>3, <1>4, <1>5 DEF TreeInv

\* The object that is constructed registers, and those that have stay so.
LEMMA ConstructRegisters ==
    ASSUME TreeTypeOK, NEW f \in DOMAIN File, Construct(f),
           NEW o \in Handler, o = Head(left[f])
    PROVE  /\ Registered(o)'
           /\ \A h \in Handler : Registered(h) => Registered(h)'
<1>2. /\ handles' = IF Refused(o) THEN handles ELSE handles \cup {o}
      /\ rootHandler' = IF IsRoot(o) /\ ~Refused(o) THEN o ELSE rootHandler
      /\ toRegister' = [p \in Handler |->
                           IF p \in Parents[o] THEN Append(toRegister[p], o)
                           ELSE toRegister[p]]
  BY DEF Construct, registerHandle, registerTo
<1>3. \A h \in Handler : Parents[h] \subseteq Handler
  BY TreeAssumption
<1>4. \A p \in Handler : toRegister[p] \in Seq(Handler)
  BY DEF TreeTypeOK
<1>5. \A p \in Handler, h \in Handler :
          /\ Contains(toRegister[p], h) => Contains(toRegister'[p], h)
          /\ p \in Parents[o] => Contains(toRegister'[p], o)
  <2> SUFFICES ASSUME NEW p \in Handler, NEW h \in Handler
               PROVE  /\ Contains(toRegister[p], h) => Contains(toRegister'[p], h)
                      /\ p \in Parents[o] => Contains(toRegister'[p], o)
    OBVIOUS
  <2>1. toRegister'[p] = IF p \in Parents[o] THEN Append(toRegister[p], o)
                         ELSE toRegister[p]
    BY <1>2
  <2>2. /\ Contains(Append(toRegister[p], o), o)
        /\ Contains(toRegister[p], h) => Contains(Append(toRegister[p], o), h)
    BY <1>4, AppendContains
  <2> QED
    BY <2>1, <2>2
<1>6. Nothing \notin Handler
  BY TreeAssumption
<1>7. Registered(o)'
  <2>1. o \in handles' \/ (IsRoot(o) /\ rootHandler' \notin {o, Nothing})
        \/ rootHandler = o
    BY <1>2 DEF Refused
  <2>2. rootHandler = o => o \in handles'
    BY <1>2, <1>6 DEF TreeTypeOK
  <2>3. \A p \in Parents[o] : Contains(toRegister'[p], o)
    BY <1>3, <1>5
  <2>4. o \in handles' \/ (IsRoot(o) /\ rootHandler' \notin {o, Nothing})
    BY <2>1, <2>2
  <2> QED
    BY <2>3, <2>4 DEF Registered, IsRoot
<1>8. ASSUME NEW h \in Handler, Registered(h)
      PROVE  Registered(h)'
  <2>1. h \in handles' \/ (IsRoot(h) /\ rootHandler' \notin {h, Nothing})
    BY <1>2, <1>8 DEF Registered, Refused
  <2>2. \A p \in Parents[h] : Contains(toRegister'[p], h)
    BY <1>3, <1>5, <1>8 DEF Registered
  <2> QED
    BY <2>1, <2>2 DEF Registered, IsRoot
<1> QED
  BY <1>7, <1>8

LEMMA ConstructStep ==
    ASSUME TreeInv, NEW f \in DOMAIN File, Construct(f)
    PROVE  TreeInv'
<1>0. TreeTypeOK
  BY DEF TreeInv
<1> PICK o \in Handler : o = Head(left[f])
  BY <1>0, HeadOrTail DEF Construct, TreeTypeOK
<1>1. /\ Registered(o)'
      /\ \A h \in Handler : Registered(h) => Registered(h)'
  BY <1>0, ConstructRegisters
<1>2. /\ handles' \in {handles, handles \cup {o}}
      /\ rootHandler' \in {rootHandler, o}
      /\ rootHandler' = o => o \in handles' \/ rootHandler = o
      /\ toRegister' = [p \in Handler |->
                           IF p \in Parents[o] THEN Append(toRegister[p], o)
                           ELSE toRegister[p]]
      /\ left' = [left EXCEPT ![f] = Tail(@)]
      /\ program = "static" /\ program' = program
      /\ hard_handles' = hard_handles /\ regex_handles' = regex_handles
  BY DEF Construct, registerHandle, registerTo, Refused
<1>3. /\ left[f] \in Seq(Handler) /\ left[f] # <<>>
      /\ left \in [DOMAIN File -> Seq(Handler)]
  BY <1>0 DEF Construct, TreeTypeOK
<1>4. /\ Tail(left[f]) \in Seq(Handler) /\ Contains(left[f], o)
      /\ \A h : Contains(left[f], h) => h = o \/ Contains(Tail(left[f]), h)
      /\ \A h : Contains(Tail(left[f]), h) => Contains(left[f], h)
  BY <1>3, HeadOrTail
<1>5. ASSUME NEW p \in Handler
      PROVE  /\ toRegister[p] \in Seq(Handler) /\ toRegister'[p] \in Seq(Handler)
             /\ DOMAIN toRegister[p] \subseteq DOMAIN toRegister'[p]
             /\ \A i \in DOMAIN toRegister'[p] :
                    \/ toRegister'[p][i] = o /\ p \in Parents[o]
                    \/ i \in DOMAIN toRegister[p] /\ toRegister'[p][i] = toRegister[p][i]
  <2>1. toRegister[p] \in Seq(Handler)
    BY <1>0 DEF TreeTypeOK
  <2>2. CASE p \in Parents[o]
    <3>1. toRegister'[p] = Append(toRegister[p], o)
      BY <1>2, <2>2
    <3> QED
      BY <1>1, <2>1, <2>2, <3>1, AppendContains
  <2>3. CASE p \notin Parents[o]
    <3>1. toRegister'[p] = toRegister[p]
      BY <1>2, <2>3
    <3> QED
      BY <2>1, <3>1
  <2> QED
    BY <2>2, <2>3
<1>6. TreeTypeOK'
  <2>1. left' \in [DOMAIN File -> Seq(Handler)]
    BY <1>2, <1>3, <1>4
  <2>2. handles' \subseteq Handler /\ rootHandler' \in handles' \cup {Nothing}
    BY <1>0, <1>1, <1>2 DEF TreeTypeOK
  <2>3. toRegister' \in [Handler -> Seq(Handler)]
    BY <1>2, <1>5
  <2>4. \A n \in Handler :
            hard_handles'[n] \cup regex_handles'[n] \subseteq DOMAIN toRegister'[n]
    BY <1>0, <1>2, <1>5 DEF TreeTypeOK
  <2> QED
    BY <1>0, <1>2, <2>1, <2>2, <2>3, <2>4 DEF TreeTypeOK
<1>7. ObjectsRegister'
  <2> SUFFICES ASSUME NEW g \in DOMAIN File, NEW h \in Handler
               PROVE  /\ Contains(File[g], h) => Contains(left'[g], h) \/ Registered(h)'
                      /\ Contains(left'[g], h) => Contains(File[g], h)
    BY DEF ObjectsRegister
  <2>1. /\ Contains(File[g], h) => Contains(left[g], h) \/ Registered(h)
        /\ Contains(left[g], h) => Contains(File[g], h)
    BY DEF TreeInv, ObjectsRegister
  <2>2. left'[g] = IF g = f THEN Tail(left[f]) ELSE left[g]
    BY <1>2, <1>3
  <2>3. CASE g = f
    <3>1. left'[g] = Tail(left[f]) /\ left[g] = left[f]
      BY <2>2, <2>3
    <3> QED
      BY <1>1, <1>4, <2>1, <3>1
  <2>4. CASE g # f
    BY <1>1, <2>1, <2>2, <2>4
  <2> QED
    BY <2>3, <2>4
<1>8. ChildrenAreDeclared'
  <2> SUFFICES ASSUME NEW n \in Handler, NEW i \in DOMAIN toRegister'[n]
               PROVE  toRegister'[n][i] \in Static /\ n \in Parents[toRegister'[n][i]]
    BY DEF ChildrenAreDeclared, Static
  <2>1. o \in Static
    BY <1>1, <1>4 DEF TreeInv, ObjectsRegister, Static
  <2>2. CASE toRegister'[n][i] = o /\ n \in Parents[o]
    BY <2>1, <2>2
  <2>3. CASE i \in DOMAIN toRegister[n] /\ toRegister'[n][i] = toRegister[n][i]
    BY <2>3 DEF TreeInv, ChildrenAreDeclared
  <2> QED
    BY <1>5, <2>2, <2>3
<1>9. TreeIsBuilt'
  BY <1>2 DEF TreeIsBuilt
<1>10. RootIsTaken'
  <2>1. RootIsTaken /\ Nothing \notin Handler /\ handles \subseteq Handler
    BY <1>0, TreeAssumption DEF TreeInv, TreeTypeOK
  <2>2. CASE Refused(o)
    <3>1. handles' = handles /\ rootHandler' = rootHandler
      BY <2>2 DEF Construct, registerHandle
    <3> QED
      BY <2>1, <3>1 DEF RootIsTaken, IsRoot
  <2>3. CASE ~Refused(o) /\ IsRoot(o)
    <3>1. handles' = handles \cup {o} /\ rootHandler' = o /\ rootHandler = Nothing
      BY <2>3 DEF Construct, registerHandle, Refused
    <3> QED
      BY <2>1, <3>1 DEF RootIsTaken, IsRoot
  <2>4. CASE ~IsRoot(o)
    <3>1. handles' = handles \cup {o} /\ rootHandler' = rootHandler
      BY <2>4 DEF Construct, registerHandle, Refused
    <3> QED
      BY <2>1, <2>4, <3>1 DEF RootIsTaken, IsRoot
  <2> QED
    BY <2>2, <2>3, <2>4
<1> QED
  BY <1>6, <1>7, <1>8, <1>9, <1>10 DEF TreeInv

LEMMA InitTreeStep ==
    ASSUME TreeInv, InitTree
    PROVE  TreeInv'
<1>1. /\ UNCHANGED <<left, handles, rootHandler, toRegister>>
      /\ \A f \in DOMAIN File : left[f] = <<>>
      /\ program' \in {"init", "serving"}
  BY DEF InitTree
<1>2. ObjectsRegister' /\ ChildrenAreDeclared'
  BY <1>1 DEF TreeInv, ObjectsRegister, ChildrenAreDeclared, Registered, IsRoot, Static
<1>5. RootIsTaken'
  BY <1>1 DEF TreeInv, RootIsTaken, IsRoot
<1>3. TreeIsBuilt'
  <2>1. CASE program' = "init"
    BY <1>1, <2>1 DEF InitTree, TreeIsBuilt
  <2>2. CASE program' = "serving"
    BY <1>1, <2>2 DEF InitTree, TreeIsBuilt, addHandlers
  <2> QED
    BY <1>1, <2>1, <2>2
<1>4. TreeTypeOK'
  <2>1. TreeTypeOK
    BY DEF TreeInv
  <2>2. CASE UNCHANGED <<hard_handles, regex_handles>>
    BY <1>1, <2>1, <2>2 DEF TreeTypeOK
  <2>3. CASE /\ hard_handles' = addHandlers(Handler \ Regex)
             /\ regex_handles' = addHandlers(Regex)
    <3>1. \A n \in Handler : DOMAIN toRegister[n] \subseteq Nat
      BY <2>1 DEF TreeTypeOK
    <3>2. /\ hard_handles' \in [Handler -> SUBSET Nat]
          /\ regex_handles' \in [Handler -> SUBSET Nat]
          /\ \A n \in Handler :
                 hard_handles'[n] \cup regex_handles'[n] \subseteq DOMAIN toRegister[n]
      BY <2>3, <3>1 DEF addHandlers
    <3> QED
      BY <1>1, <2>1, <3>2 DEF TreeTypeOK
  <2> QED
    BY <2>2, <2>3 DEF InitTree
<1> QED
  BY <1>2, <1>3, <1>4, <1>5 DEF TreeInv

\* What does not touch the tree.
LEMMA TreeKept ==
    ASSUME TreeInv, UNCHANGED tree,
           program' = program \/ (program = "serving" /\ program' = "worker")
    PROVE  TreeInv'
<1>1. TreeTypeOK'
  BY DEF tree, TreeInv, TreeTypeOK
<1>2. ObjectsRegister' /\ ChildrenAreDeclared'
  BY DEF tree, TreeInv, ObjectsRegister, ChildrenAreDeclared, Registered, IsRoot, Static
<1>3. TreeIsBuilt'
  BY DEF tree, TreeInv, TreeIsBuilt, addHandlers
<1>4. RootIsTaken'
  BY DEF tree, TreeInv, RootIsTaken, IsRoot
<1> QED
  BY <1>1, <1>2, <1>3, <1>4 DEF TreeInv

\* The children of n that are of a kind, by their places.
Child(n) == {h \in Static : n \in Parents[h]}
PlacesOf(n, kind) == {i \in DOMAIN toRegister[n] : toRegister[n][i] \in kind}

\* When the tree is built, the first place of a kind holds a child of that
\* kind, if there is one.
LEMMA PlacesHoldChildren ==
    ASSUME TreeInv, program = "serving", NEW n \in Handler, NEW kind
    PROVE  IF Child(n) \cap kind = {}
           THEN PlacesOf(n, kind) = {}
           ELSE /\ PlacesOf(n, kind) # {}
                /\ FirstOf(n, PlacesOf(n, kind)) \in Child(n) \cap kind
<1>1. \A i \in DOMAIN toRegister[n] : toRegister[n][i] \in Child(n)
  BY DEF TreeInv, ChildrenAreDeclared, Child
<1>2. DOMAIN toRegister[n] = 1 .. Len(toRegister[n]) /\ DOMAIN toRegister[n] \subseteq Nat
  BY DEF TreeInv, TreeTypeOK
<1>3. CASE Child(n) \cap kind = {}
  BY <1>1, <1>3 DEF PlacesOf
<1>4. CASE Child(n) \cap kind # {}
  <2>1. PICK h \in Child(n) : h \in kind
    BY <1>4
  <2>2. PICK f \in DOMAIN File : Contains(File[f], h)
    BY DEF Child, Static
  <2>3. h \in Handler /\ n \in Parents[h]
    BY DEF Child, Static
  <2>4. left[f] = <<>>
    BY DEF TreeInv, TreeIsBuilt
  <2>5. Registered(h)
    BY <2>2, <2>3, <2>4, EmptyContains DEF TreeInv, ObjectsRegister
  <2>6. Contains(toRegister[n], h)
    BY <2>3, <2>5 DEF Registered
  <2>7. PICK i \in DOMAIN toRegister[n] : toRegister[n][i] = h
    BY <1>2, <2>6 DEF Contains
  <2>8. PlacesOf(n, kind) # {} /\ PlacesOf(n, kind) \subseteq Nat
    BY <1>2, <2>1, <2>7 DEF PlacesOf
  <2>9. Min(PlacesOf(n, kind)) \in PlacesOf(n, kind)
    BY <2>8, MinIsLeast
  <2> QED
    BY <1>1, <1>4, <2>8, <2>9 DEF PlacesOf, FirstOf
<1> QED
  BY <1>3, <1>4

\* What resolve returns, once the tree is built.
LEMMA ResolveFollows ==
    ASSUME TreeInv, program = "serving", NEW n \in Handler, NEW p, p # ""
    PROVE  LET named == {h \in Child(n) \ Regex : Handle[h] = p}
               accepting == {h \in Child(n) \cap Regex : p \in Accepts[h]}
           IN  resolve(n, p) \in IF named # {} THEN named
                                 ELSE IF accepting # {} THEN accepting
                                 ELSE {NullHandler}
<1> DEFINE names == {h \in Handler \ Regex : Handle[h] = p}
           accepts == {h \in Regex : p \in Accepts[h]}
<1>1. /\ hard_handles = addHandlers(Handler \ Regex)
      /\ regex_handles = addHandlers(Regex)
  BY DEF TreeInv, TreeIsBuilt
<1>2. /\ Hard(n, p) = {i \in PlacesOf(n, Handler \ Regex) : Handle[toRegister[n][i]] = p}
      /\ Matching(n, p) = {i \in PlacesOf(n, Regex) : p \in Accepts[toRegister[n][i]]}
  BY <1>1 DEF Hard, Matching, addHandlers, PlacesOf
<1>3. Hard(n, p) = PlacesOf(n, names) /\ Matching(n, p) = PlacesOf(n, accepts)
  BY <1>2 DEF PlacesOf
<1>4. /\ Child(n) \cap names = {h \in Child(n) \ Regex : Handle[h] = p}
      /\ Child(n) \cap accepts = {h \in Child(n) \cap Regex : p \in Accepts[h]}
  BY DEF Child, Static
<1>5. n # NullHandler
  BY TreeAssumption
<1> HIDE DEF names, accepts
<1>6. /\ IF Child(n) \cap names = {} THEN PlacesOf(n, names) = {}
         ELSE /\ PlacesOf(n, names) # {}
              /\ FirstOf(n, PlacesOf(n, names)) \in Child(n) \cap names
      /\ IF Child(n) \cap accepts = {} THEN PlacesOf(n, accepts) = {}
         ELSE /\ PlacesOf(n, accepts) # {}
              /\ FirstOf(n, PlacesOf(n, accepts)) \in Child(n) \cap accepts
  BY PlacesHoldChildren
<1>7. resolve(n, p) = IF PlacesOf(n, names) # {} THEN FirstOf(n, PlacesOf(n, names))
                      ELSE IF PlacesOf(n, accepts) # {} THEN FirstOf(n, PlacesOf(n, accepts))
                      ELSE NullHandler
  BY <1>3, <1>5 DEF resolve
<1> QED
  BY <1>4, <1>6, <1>7

LEMMA TreeFollows == TreeInv => TreeFollowsDeclarations
<1> SUFFICES ASSUME TreeInv, program = "serving",
                    NEW n \in handles, NEW p \in Parts \ {""}
             PROVE  LET child == {h \in Static : n \in Parents[h]}
                        named == {h \in child \ Regex : Handle[h] = p}
                        accepting == {h \in child \cap Regex : p \in Accepts[h]}
                    IN  resolve(n, p) \in IF named # {} THEN named
                                          ELSE IF accepting # {} THEN accepting
                                          ELSE {NullHandler}
  BY DEF TreeFollowsDeclarations
<1>1. n \in Handler
  BY DEF TreeInv, TreeTypeOK
<1> QED
  BY <1>1, ResolveFollows DEF Child

\* A null pointer is that of a root that came second, or of a handler without
\* an object.
LEMMA NullIsKnown ==
    ASSUME TreeInv, program = "init"
    PROVE  \E h \in Handler \ {rootHandler} :
               (IsRoot(h) \/ h \notin Static) /\ toRegister[h] # <<>>
<1>1. PICK n \in Handler \ handles : toRegister[n] # <<>>
  BY DEF TreeInv, TreeIsBuilt
<1>2. n # rootHandler
  BY <1>1, TreeAssumption DEF TreeInv, TreeTypeOK
<1>3. ASSUME n \in Static PROVE IsRoot(n)
  <2>1. PICK f \in DOMAIN File : Contains(File[f], n)
    BY <1>3 DEF Static
  <2>2. left[f] = <<>>
    BY DEF TreeInv, TreeIsBuilt
  <2>3. Registered(n)
    BY <2>1, <2>2, EmptyContains DEF TreeInv, ObjectsRegister
  <2> QED
    BY <1>1, <2>3 DEF Registered
<1> QED
  BY <1>1, <1>2, <1>3

-----------------------------------------------------------------------------
(* Reading a request.                                                      *)

\* The keys that may have been taken when a list is found empty.
Short == {"Type", "URI", "Tag", "Auth"}

\* r has taken frames with keys of K, one after the other, from the front of
\* m, and has read beyond its end only if m has nothing but short keys.
Reads(r, m, K) ==
    /\ r = [rest |-> r.rest, got |-> r.got, past |-> r.past, bad |-> r.bad]
    /\ \E j \in 0 .. Len(m) :
           /\ r.rest = SubSeq(m, j + 1, Len(m))
           /\ \A i \in 1 .. j : m[i].key \in K
    /\ r.past => \A i \in DOMAIN m : m[i].key \in Short

LEMMA SameSequence ==
    ASSUME NEW S, NEW p \in Seq(S), NEW q \in Seq(S), NEW n \in Nat,
           Len(p) = n, Len(q) = n, \A i \in 1 .. n : p[i] = q[i]
    PROVE  p = q
OBVIOUS

LEMMA SuffixFacts ==
    ASSUME NEW S, NEW m \in Seq(S), NEW j \in 0 .. Len(m)
    PROVE  LET s == SubSeq(m, j + 1, Len(m))
           IN  /\ s \in Seq(S) /\ Len(s) = Len(m) - j
               /\ s = <<>> => j = Len(m)
               /\ s # <<>> => /\ j < Len(m)
                              /\ Head(s) = m[j + 1]
                              /\ Tail(s) = SubSeq(m, j + 2, Len(m))
<1> DEFINE s == SubSeq(m, j + 1, Len(m))
<1>1. Len(m) \in Nat /\ j \in Nat /\ j <= Len(m)
  OBVIOUS
<1>2. s \in Seq(S) /\ Len(s) = Len(m) - j
  BY <1>1
<1>3. \A i \in 1 .. Len(m) - j : s[i] = m[j + i]
  BY <1>1
<1> HIDE DEF s
<1>4. ASSUME s = <<>> PROVE j = Len(m)
  <2>1. Len(<<>>) = 0
    OBVIOUS
  <2> QED
    BY <1>1, <1>2, <1>4, <2>1
<1>5. ASSUME s # <<>>
      PROVE  j < Len(m) /\ Head(s) = m[j + 1] /\ Tail(s) = SubSeq(m, j + 2, Len(m))
  <2>1. j < Len(m) /\ j + 1 \in 0 .. Len(m)
    BY <1>1, <1>2, <1>5
  <2>2. Head(s) = m[j + 1]
    BY <1>2, <1>3, <2>1
  <2>3. /\ Tail(s) \in Seq(S) /\ Len(Tail(s)) = Len(m) - j - 1
        /\ \A i \in 1 .. Len(m) - j - 1 : Tail(s)[i] = m[j + 1 + i]
    BY <1>1, <1>2, <1>3, <1>5, <2>1
  <2>4. /\ SubSeq(m, j + 2, Len(m)) \in Seq(S)
        /\ Len(SubSeq(m, j + 2, Len(m))) = Len(m) - j - 1
        /\ \A i \in 1 .. Len(m) - j - 1 : SubSeq(m, j + 2, Len(m))[i] = m[j + 1 + i]
    BY <1>1, <2>1
  <2>5. Tail(s) = SubSeq(m, j + 2, Len(m))
    <3>1. Len(m) - j - 1 \in Nat
      BY <1>1, <2>1
    <3> QED
      BY <2>3, <2>4, <3>1, SameSequence
  <2> QED
    BY <2>1, <2>2, <2>5
<1> QED
  BY <1>2, <1>4, <1>5 DEF s

LEMMA OptionalReads ==
    ASSUME NEW S, NEW m \in Seq(S), NEW K, NEW k, NEW r, Reads(r, m, K), K \subseteq Short
    PROVE  Reads(Optional(r, k), m, K \cup {k})
<1>1. PICK j \in 0 .. Len(m) :
          r.rest = SubSeq(m, j + 1, Len(m)) /\ \A i \in 1 .. j : m[i].key \in K
  BY DEF Reads
<1>2. Len(m) \in Nat /\ DOMAIN m = 1 .. Len(m)
  OBVIOUS
<1>3. CASE r.bad \/ (r.rest # <<>> /\ Head(r.rest).key # k)
  <2>1. Optional(r, k) = r
    BY <1>3 DEF Optional
  <2> QED
    BY <1>1, <2>1 DEF Reads
<1>4. CASE ~r.bad /\ r.rest = <<>>
  <2>1. Optional(r, k) = [rest |-> r.rest, got |-> r.got, past |-> TRUE, bad |-> r.bad]
    BY <1>4 DEF Optional, Reads
  <2>2. \A i \in DOMAIN m : m[i].key \in Short
    BY <1>1, <1>2, <1>4, SuffixFacts
  <2>3. \A i \in 1 .. j : m[i].key \in K \cup {k}
    BY <1>1
  <2> DEFINE q == Optional(r, k)
  <2>4. /\ q = [rest |-> q.rest, got |-> q.got, past |-> q.past, bad |-> q.bad]
        /\ q.rest = SubSeq(m, j + 1, Len(m))
    BY <1>1, <2>1
  <2> HIDE DEF q
  <2>5. Reads(q, m, K \cup {k})
    BY <2>2, <2>3, <2>4 DEF Reads
  <2> QED
    BY <2>5 DEF q
<1>5. CASE ~r.bad /\ r.rest # <<>> /\ Head(r.rest).key = k
  <2>1. Optional(r, k) = [rest |-> Tail(r.rest), got |-> Noted(r.got, k, Head(r.rest).val),
                          past |-> r.past, bad |-> r.bad]
    BY <1>5 DEF Optional, Reads
  <2>2. /\ j + 1 \in 0 .. Len(m) /\ Tail(r.rest) = SubSeq(m, (j + 1) + 1, Len(m))
        /\ m[j + 1].key = k
    <3>1. /\ j < Len(m) /\ Head(r.rest) = m[j + 1]
          /\ Tail(r.rest) = SubSeq(m, j + 2, Len(m))
      BY <1>1, <1>5, SuffixFacts
    <3>2. (j + 1) + 1 = j + 2 /\ j + 1 \in 0 .. Len(m)
      BY <1>2, <3>1
    <3> QED
      BY <1>5, <3>1, <3>2
  <2>3. \A i \in 1 .. j + 1 : m[i].key \in K \cup {k}
    BY <1>1, <2>2
  <2>4. r.past => \A i \in DOMAIN m : m[i].key \in Short
    BY DEF Reads
  <2> DEFINE q == Optional(r, k)
  <2>5. /\ q = [rest |-> q.rest, got |-> q.got, past |-> q.past, bad |-> q.bad]
        /\ q.rest = SubSeq(m, (j + 1) + 1, Len(m)) /\ q.past = r.past
    BY <2>1, <2>2, SMTT(20)
  <2> HIDE DEF q
  <2>6. Reads(q, m, K \cup {k})
    BY <2>2, <2>3, <2>4, <2>5 DEF Reads
  <2> QED
    BY <2>6 DEF q
<1> QED
  BY <1>3, <1>4, <1>5

LEMMA RequiredReads ==
    ASSUME NEW S, NEW m \in Seq(S), NEW K, NEW k, NEW r, Reads(r, m, K), K \subseteq Short
    PROVE  Reads(Required(r, k), m, K \cup {k})
<1> DEFINE next == Optional(r, k)
<1>1. Reads(next, m, K \cup {k})
  BY OptionalReads
<1> HIDE DEF next
<1>2. Required(r, k) = [next EXCEPT !.bad = @ \/ k \notin DOMAIN next.got]
  BY DEF Required, next
<1>3. Required(r, k) = [rest |-> next.rest, got |-> next.got, past |-> next.past,
                        bad |-> next.bad \/ k \notin DOMAIN next.got]
  BY <1>1, <1>2 DEF Reads
<1> QED
  BY <1>1, <1>3, SMTT(20) DEF Reads

\* The headers and the body do not read beyond the end.
LEMMA RestReads ==
    ASSUME NEW r, r = [rest |-> r.rest, got |-> r.got, past |-> r.past, bad |-> r.bad]
    PROVE  Body(Headers(r)).past = r.past
<1> DEFINE h == Headers(r)
<1>1. /\ h = [rest |-> h.rest, got |-> h.got, past |-> h.past, bad |-> h.bad]
      /\ h.past = r.past
  <2>1. PICK x : h = [r EXCEPT !.rest = x]
    BY Zenon DEF Headers
  <2>2. h = [rest |-> x, got |-> r.got, past |-> r.past, bad |-> r.bad]
    BY <2>1
  <2> QED
    BY <2>2
<1> HIDE DEF h
<1>2. CASE h.bad \/ h.rest = <<>>
  BY <1>1, <1>2 DEF Body, h
<1>3. CASE ~h.bad /\ h.rest # <<>>
  <2>1. Optional(h, "Body").past = h.past
    BY <1>1, <1>3 DEF Optional
  <2>2. Optional(h, "Body") = [rest |-> Optional(h, "Body").rest, got |-> Optional(h, "Body").got,
             past |-> Optional(h, "Body").past, bad |-> Optional(h, "Body").bad]
    BY <1>1, <1>3 DEF Optional
  <2>3. Required(h, "Body").past = h.past
    BY <2>1, <2>2 DEF Required
  <2>4. Body(h).past = h.past
    BY <1>1, <1>3, <2>3 DEF Body
  <2> QED
    BY <1>1, <2>4 DEF h
<1> QED
  BY <1>2, <1>3

\* A worker reads the front of an empty list only when the request has none
\* of the later parts.
LEMMA PastIsShort ==
    ASSUME NEW S, NEW m \in Seq(S), InputToRequest(m).past
    PROVE  \A i \in DOMAIN m : m[i].key \in Short
<1> DEFINE start == [rest |-> m, got |-> <<>>, past |-> FALSE, bad |-> FALSE]
           begun == Required(Required(start, "Type"), "URI")
           meta == Optional(Optional(Optional(begun, "Tag"), "Auth"), "Version")
<1>1. Reads(start, m, {})
  <2>1. Len(m) \in Nat /\ m = SubSeq(m, 0 + 1, Len(m))
    OBVIOUS
  <2> QED
    BY <2>1 DEF Reads
<1> HIDE DEF start
<1>2. Reads(begun, m, {"Type", "URI"})
  <2>1. Reads(Required(start, "Type"), m, {} \cup {"Type"})
    BY <1>1, RequiredReads
  <2>2. Reads(begun, m, {} \cup {"Type"} \cup {"URI"})
    BY <2>1, RequiredReads DEF Short
  <2>3. {} \cup {"Type"} \cup {"URI"} = {"Type", "URI"}
    OBVIOUS
  <2> QED
    BY <2>2, <2>3
<1> HIDE DEF begun
<1>3. \E K : Reads(meta, m, K)
  <2>1. Reads(Optional(begun, "Tag"), m, {"Type", "URI"} \cup {"Tag"})
    BY <1>2, OptionalReads DEF Short
  <2>2. Reads(Optional(Optional(begun, "Tag"), "Auth"), m, {"Type", "URI"} \cup {"Tag"} \cup {"Auth"})
    BY <2>1, OptionalReads DEF Short
  <2>3. Reads(meta, m, {"Type", "URI"} \cup {"Tag"} \cup {"Auth"} \cup {"Version"})
    BY <2>2, OptionalReads DEF Short
  <2> QED
    BY <2>3
<1> HIDE DEF meta
<1>4. InputToRequest(m).past = Body(Headers(meta)).past
  BY DEF InputToRequest, meta, begun, start
<1>5. Body(Headers(meta)).past = meta.past
  BY <1>3, RestReads DEF Reads
<1> QED
  BY <1>3, <1>4, <1>5 DEF Reads

-----------------------------------------------------------------------------
(* The engine.                                                             *)

LEMMA StripType ==
    ASSUME NEW S, NEW m \in Seq(S)
    PROVE  strip(m) \in Seq(S)
<1> DEFINE I == {i \in 1 .. Len(m) : m[i] = Empty}
<1>2. EnvelopeEnd(m) = IF I # {} THEN Max(I) ELSE 0
  BY DEF EnvelopeEnd, SelectLastInSeq
<1>3. EnvelopeEnd(m) \in Nat
  <2>1. I \subseteq 0 .. Len(m) /\ Len(m) \in Nat
    OBVIOUS
  <2>2. I # {} => Max(I) \in I
    BY <2>1, MaxIsGreatest
  <2> QED
    BY <1>2, <2>1, <2>2
<1> QED
  BY <1>3 DEF strip

LEMMA EngineInit == Init => EngineInv
BY TreeInitInv DEF Init, EngineInv, TreeInit

LEMMA EngineStep == EngineInv /\ [Next]_engineVars => EngineInv'
<1> SUFFICES ASSUME EngineInv, [Next]_engineVars
             PROVE  EngineInv'
  OBVIOUS
<1>1. CASE BuildTree
  <2>1. TreeInv'
    BY <1>1, ConstructStep, InitTreeStep DEF BuildTree, EngineInv
  <2>2. /\ program = "static" /\ program' # "worker"
        /\ UNCHANGED <<request, reply>>
    BY <1>1 DEF BuildTree, InitTree, Construct
  <2> QED
    BY <2>1, <2>2 DEF EngineInv
<1>2. ASSUME NEW frames \in Requests, Receive(frames)
      PROVE  EngineInv'
  <2>1. TreeInv'
    BY <1>2, TreeKept DEF Receive, EngineInv
  <2> QED
    BY <1>2, <2>1 DEF Receive, EngineInv
<1>3. CASE SendResponse
  <2>1. TreeInv'
    BY <1>3, TreeKept DEF SendResponse, EngineInv
  <2> QED
    BY <1>3, <2>1 DEF SendResponse, EngineInv
<1>4. CASE Crash
  <2>1. TreeInv'
    BY <1>4, TreeKept DEF Crash, EngineInv
  <2> QED
    BY <1>4, <2>1 DEF Crash, EngineInv
<1>5. CASE Forget
  <2>1. TreeInv'
    BY <1>5, TreeKept DEF Forget, EngineInv
  <2> QED
    BY <1>5, <2>1 DEF Forget, EngineInv
<1>6. CASE UNCHANGED engineVars
  <2>1. TreeInv'
    BY <1>6, TreeKept DEF engineVars, EngineInv
  <2> QED
    BY <1>6, <2>1 DEF engineVars, EngineInv
<1> QED
  BY <1>1, <1>2, <1>3, <1>4, <1>5, <1>6 DEF Next

\* The tree and the engine keep their types.
THEOREM EngineTypeCorrect == Spec => []TypeOK
<1>1. EngineInv => TypeOK
  BY DEF EngineInv, TreeInv, TypeOK
<1> QED
  BY <1>1, EngineInit, EngineStep, PTL DEF Spec

\* resolve follows the declarations of every program, in whatever order its
\* files are initialised.
THEOREM TreeCorrect == Spec => []TreeFollowsDeclarations
<1>1. EngineInv => TreeFollowsDeclarations
  BY TreeFollows DEF EngineInv
<1> QED
  BY <1>1, EngineInit, EngineStep, PTL DEF Spec

\* The program is lost in the two known ways only.
THEOREM CrashesCorrect == Spec => []CrashesAreKnown
<1>1. EngineInv => CrashesAreKnown
  <2> SUFFICES ASSUME EngineInv
               PROVE  CrashesAreKnown
    OBVIOUS
  <2>1. ASSUME program = "worker"
        PROVE  \A i \in DOMAIN strip(request) : strip(request)[i].key \in Short
    <3>1. request \in Requests \cup {Nobody} /\ InputToRequest(strip(request)).past
      BY <2>1 DEF EngineInv
    <3>2. PICK S : request \in Seq(S)
      <4>1. Nobody \in Seq({})
        BY DEF Nobody
      <4> QED
        BY <3>1, <4>1, RequestAssumption
    <3> QED
      BY <3>1, <3>2, StripType, PastIsShort
  <2> QED
    BY <2>1, NullIsKnown DEF CrashesAreKnown, EngineInv, Short
<1> QED
  BY <1>1, EngineInit, EngineStep, PTL DEF Spec

-----------------------------------------------------------------------------
(* The tag of a request.                                                   *)

IsReading(r) == r = [rest |-> r.rest, got |-> r.got, past |-> r.past, bad |-> r.bad]

Takes(r, k) == ~r.bad /\ r.rest # <<>> /\ Head(r.rest).key = k

TagOf(r) == Get(r, "Tag", "")

\* One optional part: it is taken from the front, or nothing is.
LEMMA OptionalIs ==
    ASSUME NEW r, IsReading(r), NEW k
    PROVE  /\ IsReading(Optional(r, k)) /\ Optional(r, k).bad = r.bad
           /\ IF Takes(r, k)
              THEN /\ Optional(r, k).rest = Tail(r.rest)
                   /\ Optional(r, k).got = Noted(r.got, k, Head(r.rest).val)
              ELSE Optional(r, k).rest = r.rest /\ Optional(r, k).got = r.got
<1> DEFINE q == Optional(r, k)
<1>1. CASE Takes(r, k)
  <2>1. q = [rest |-> Tail(r.rest), got |-> Noted(r.got, k, Head(r.rest).val),
             past |-> r.past, bad |-> r.bad]
    BY <1>1 DEF Optional, Takes, IsReading
  <2> HIDE DEF q
  <2>2. IsReading(q) /\ q.bad = r.bad /\ q.rest = Tail(r.rest)
        /\ q.got = Noted(r.got, k, Head(r.rest).val)
    BY <2>1 DEF IsReading
  <2> QED
    BY <1>1, <2>2 DEF q
<1>2. CASE ~Takes(r, k)
  <2>1. q = r \/ q = [rest |-> r.rest, got |-> r.got, past |-> TRUE, bad |-> r.bad]
    BY <1>2 DEF Optional, Takes, IsReading
  <2> HIDE DEF q
  <2>2. IsReading(q) /\ q.bad = r.bad /\ q.rest = r.rest /\ q.got = r.got
    BY <2>1 DEF IsReading
  <2> QED
    BY <1>2, <2>2 DEF q
<1> QED
  BY <1>1, <1>2

LEMMA RequiredIs ==
    ASSUME NEW r, IsReading(r), NEW k
    PROVE  /\ IsReading(Required(r, k))
           /\ Required(r, k).bad = (r.bad \/ k \notin DOMAIN Required(r, k).got)
           /\ Required(r, k).rest = Optional(r, k).rest
           /\ Required(r, k).got = Optional(r, k).got
<1> DEFINE next == Optional(r, k)
<1>1. IsReading(next) /\ next.bad = r.bad
  BY OptionalIs
<1> HIDE DEF next
<1> DEFINE b == next.bad \/ k \notin DOMAIN next.got
<1>2. Required(r, k) = [rest |-> next.rest, got |-> next.got, past |-> next.past, bad |-> b]
  BY <1>1 DEF Required, next, IsReading
<1> DEFINE q == Required(r, k)
<1> HIDE DEF q, b
<1>3. IsReading(q) /\ q.bad = b /\ q.rest = next.rest /\ q.got = next.got
  BY <1>2 DEF IsReading, q
<1>4. b = (r.bad \/ k \notin DOMAIN q.got)
  BY <1>1, <1>3 DEF b
<1> QED
  BY <1>3, <1>4 DEF q, next

\* Only the tag is stored as the tag.
LEMMA TagKept ==
    ASSUME NEW r, IsReading(r), NEW k, k # "Tag"
    PROVE  /\ TagOf(Optional(r, k)) = TagOf(r)
           /\ TagOf(Required(r, k)) = TagOf(r)
<1> DEFINE q == Optional(r, k)
<1>1. CASE Takes(r, k)
  <2>1. q.got = Noted(r.got, k, Head(r.rest).val)
    BY <1>1, OptionalIs
  <2> HIDE DEF q
  <2>2. TagOf(q) = TagOf(r)
    BY <2>1 DEF TagOf, Get, Noted
  <2> QED
    BY <2>2, RequiredIs DEF TagOf, Get, q
<1>2. CASE ~Takes(r, k)
  <2>1. Optional(r, k).got = r.got
    BY <1>2, OptionalIs
  <2> QED
    BY <2>1, RequiredIs DEF TagOf, Get
<1> QED
  BY <1>1, <1>2

LEMMA HeadersAre ==
    ASSUME NEW r, IsReading(r)
    PROVE  /\ IsReading(Headers(r)) /\ Headers(r).got = r.got
           /\ Headers(r).past = r.past /\ Headers(r).bad = r.bad
<1> DEFINE h == Headers(r)
<1>1. PICK x : h = [r EXCEPT !.rest = x]
  BY Zenon DEF Headers
<1>2. h = [rest |-> x, got |-> r.got, past |-> r.past, bad |-> r.bad]
  BY <1>1 DEF IsReading
<1> HIDE DEF h
<1>3. IsReading(h) /\ h.got = r.got /\ h.past = r.past /\ h.bad = r.bad
  BY <1>2 DEF IsReading
<1> QED
  BY <1>3 DEF h

LEMMA BodyKeepsTag ==
    ASSUME NEW r, IsReading(r)
    PROVE  TagOf(Body(r)) = TagOf(r)
<1>1. CASE Body(r) = r
  BY <1>1
<1>2. CASE Body(r) = [r EXCEPT !.bad = TRUE]
  <2>1. Body(r).got = r.got
    BY <1>2 DEF IsReading
  <2> QED
    BY <2>1 DEF TagOf, Get
<1>3. CASE Body(r) = Required(r, "Body")
  BY <1>3, TagKept
<1> QED
  BY <1>1, <1>2, <1>3 DEF Body

\* The first required part: the reading goes on only when it is there.
LEMMA RequiredTakes ==
    ASSUME NEW r, IsReading(r), NEW k, ~r.bad, k \notin DOMAIN r.got
    PROVE  /\ IsReading(Required(r, k))
           /\ Required(r, k).bad = ~Takes(r, k)
           /\ Required(r, k).got = IF Takes(r, k) THEN Noted(r.got, k, Head(r.rest).val)
                                   ELSE r.got
           /\ Takes(r, k) => Required(r, k).rest = Tail(r.rest)
<1> DEFINE q == Required(r, k)
<1>1. IsReading(q) /\ q.bad = (r.bad \/ k \notin DOMAIN q.got)
  BY RequiredIs
<1>2. CASE Takes(r, k)
  <2>1. q.got = Noted(r.got, k, Head(r.rest).val) /\ q.rest = Tail(r.rest)
    BY <1>2, OptionalIs, RequiredIs
  <2> HIDE DEF q
  <2>2. k \in DOMAIN q.got
    BY <2>1 DEF Noted
  <2>3. q.bad = FALSE
    BY <1>1, <2>2
  <2> QED
    BY <1>1, <1>2, <2>1, <2>3 DEF q
<1>3. CASE ~Takes(r, k)
  <2>1. q.got = r.got
    BY <1>3, OptionalIs, RequiredIs
  <2> HIDE DEF q
  <2>2. q.bad = TRUE
    BY <1>1, <2>1
  <2> QED
    BY <1>1, <1>3, <2>1, <2>2 DEF q
<1> QED
  BY <1>2, <1>3

\* Once the request is bad, nothing is taken.
LEMMA BadTakesNothing ==
    ASSUME NEW r, IsReading(r), NEW k, r.bad
    PROVE  /\ IsReading(Required(r, k)) /\ Required(r, k).bad
           /\ Required(r, k).got = r.got
<1>1. ~Takes(r, k)
  BY DEF Takes
<1>2. Required(r, k).got = r.got
  BY <1>1, OptionalIs, RequiredIs
<1>3. Required(r, k).bad = TRUE
  BY RequiredIs
<1> QED
  BY <1>2, <1>3, RequiredIs

TagInPlace(m) ==
    Len(m) > 2 /\ <<"Type", "URI", "Tag">> = [i \in 1 .. 3 |-> m[i].key]

LEMMA FirstThree ==
    ASSUME NEW S, NEW m \in Seq(S)
    PROVE  TagInPlace(m) <=>
               /\ m # <<>> /\ Head(m).key = "Type"
               /\ Tail(m) # <<>> /\ Head(Tail(m)).key = "URI"
               /\ Tail(Tail(m)) # <<>> /\ Head(Tail(Tail(m))).key = "Tag"
<1>1. TagInPlace(m) <=> /\ Len(m) > 2
                        /\ m[1].key = "Type" /\ m[2].key = "URI" /\ m[3].key = "Tag"
  BY DEF TagInPlace
<1> DEFINE u == Tail(m)
           w == Tail(u)
<1>2. CASE Len(m) > 2
  <2>1. m # <<>> /\ Head(m) = m[1] /\ u \in Seq(S) /\ Len(u) = Len(m) - 1
    BY <1>2
  <2>2. u[1] = m[2] /\ u[2] = m[3]
    BY <1>2
  <2> HIDE DEF u
  <2>3. u # <<>> /\ Head(u) = u[1] /\ w \in Seq(S) /\ Len(w) = Len(u) - 1
    BY <1>2, <2>1
  <2>4. w[1] = u[2]
    BY <1>2, <2>1
  <2> HIDE DEF w
  <2>5. w # <<>> /\ Head(w) = w[1]
    BY <1>2, <2>1, <2>3
  <2> QED
    BY <1>1, <1>2, <2>1, <2>2, <2>3, <2>4, <2>5 DEF u, w
<1>3. CASE ~(Len(m) > 2)
  <2>1. m # <<>> /\ Tail(m) # <<>> => Tail(Tail(m)) = <<>>
    BY <1>3
  <2> QED
    BY <1>1, <1>3, <2>1
<1> QED
  BY <1>2, <1>3

\* The tag that is answered with is that of the third frame, and there is none
\* when the first three are not type, URI and tag.
LEMMA TagIsRead ==
    ASSUME NEW S, NEW m \in Seq(S)
    PROVE  InputToRequest(m).tag = IF TagInPlace(m) THEN m[3].val ELSE ""
<1> DEFINE r0 == [rest |-> m, got |-> <<>>, past |-> FALSE, bad |-> FALSE]
           r1 == Required(r0, "Type")
           r2 == Required(r1, "URI")
           r3 == Optional(r2, "Tag")
           r4 == Optional(r3, "Auth")
           r5 == Optional(r4, "Version")
<1>0. InputToRequest(m).tag = TagOf(Body(Headers(r5)))
  BY DEF InputToRequest, TagOf
<1>1. IsReading(r0) /\ r0.rest = m /\ r0.bad = FALSE /\ r0.got = <<>>
  BY DEF IsReading
<1> HIDE DEF r0
<1>2. /\ IsReading(r1) /\ r1.bad = ~Takes(r0, "Type")
      /\ "URI" \notin DOMAIN r1.got /\ "Tag" \notin DOMAIN r1.got
      /\ ~r1.bad => r1.rest = Tail(m)
  <2>1. DOMAIN r0.got = {}
    BY <1>1
  <2>2. "Type" \notin DOMAIN r0.got /\ ~r0.bad
    BY <1>1, <2>1
  <2>3. IsReading(r1) /\ r1.bad = ~Takes(r0, "Type") /\ (Takes(r0, "Type") => r1.rest = Tail(m))
    BY <1>1, <2>2, RequiredTakes
  <2>4. r1.got = IF Takes(r0, "Type") THEN Noted(r0.got, "Type", Head(r0.rest).val) ELSE r0.got
    BY <1>1, <2>2, RequiredTakes
  <2> HIDE DEF r1
  <2>5. "URI" \notin DOMAIN r1.got /\ "Tag" \notin DOMAIN r1.got
    BY <2>1, <2>4 DEF Noted
  <2> QED
    BY <2>3, <2>5
<1> HIDE DEF r1
<1>3. /\ IsReading(r2) /\ "Tag" \notin DOMAIN r2.got
      /\ ~r2.bad <=> ~r1.bad /\ Takes(r1, "URI")
      /\ ~r2.bad => r2.rest = Tail(Tail(m))
  <2>1. CASE r1.bad
    BY <1>2, <2>1, BadTakesNothing
  <2>2. CASE ~r1.bad
    <3>1. /\ IsReading(r2) /\ r2.bad = ~Takes(r1, "URI")
          /\ Takes(r1, "URI") => r2.rest = Tail(Tail(m))
      BY <1>2, <2>2, RequiredTakes
    <3>2. r2.got = IF Takes(r1, "URI") THEN Noted(r1.got, "URI", Head(r1.rest).val)
                   ELSE r1.got
      BY <1>2, <2>2, RequiredTakes
    <3> HIDE DEF r2
    <3>3. "Tag" \notin DOMAIN r2.got
      BY <1>2, <3>2 DEF Noted
    <3> QED
      BY <2>2, <3>1, <3>3
  <2> QED
    BY <2>1, <2>2
<1> HIDE DEF r2
<1>4. IsReading(r3) /\ TagOf(r3) = IF Takes(r2, "Tag") THEN Head(r2.rest).val ELSE ""
  <2>1. IsReading(r3)
    BY <1>3, OptionalIs
  <2>2. CASE Takes(r2, "Tag")
    <3>1. r3.got = Noted(r2.got, "Tag", Head(r2.rest).val)
      BY <1>3, <2>2, OptionalIs
    <3> HIDE DEF r3
    <3> QED
      BY <2>1, <2>2, <3>1 DEF TagOf, Get, Noted
  <2>3. CASE ~Takes(r2, "Tag")
    <3>1. r3.got = r2.got
      BY <1>3, <2>3, OptionalIs
    <3> HIDE DEF r3
    <3> QED
      BY <1>3, <2>1, <2>3, <3>1 DEF TagOf, Get
  <2> QED
    BY <2>2, <2>3
<1> HIDE DEF r3
<1>5. IsReading(r4) /\ TagOf(r4) = TagOf(r3)
  BY <1>4, OptionalIs, TagKept
<1> HIDE DEF r4
<1>6. IsReading(r5) /\ TagOf(r5) = TagOf(r4)
  BY <1>5, OptionalIs, TagKept
<1> HIDE DEF r5
<1>7. TagOf(Body(Headers(r5))) = TagOf(r5)
  <2>1. IsReading(Headers(r5)) /\ TagOf(Headers(r5)) = TagOf(r5)
    BY <1>6, HeadersAre DEF TagOf, Get
  <2> QED
    BY <2>1, BodyKeepsTag
<1>8. Takes(r0, "Type") <=> m # <<>> /\ Head(m).key = "Type"
  BY <1>1 DEF Takes
<1>9. ~r2.bad <=> /\ m # <<>> /\ Head(m).key = "Type"
                  /\ Tail(m) # <<>> /\ Head(Tail(m)).key = "URI"
  BY <1>2, <1>3, <1>8 DEF Takes
<1>10. Takes(r2, "Tag") <=> TagInPlace(m)
  BY <1>3, <1>9, FirstThree DEF Takes
<1>11. Takes(r2, "Tag") => Head(r2.rest) = m[3]
  <2> SUFFICES ASSUME Takes(r2, "Tag")
               PROVE  Head(r2.rest) = m[3]
    OBVIOUS
  <2>1. m # <<>> /\ Len(m) > 2
    BY <1>9, <1>10 DEF Takes, TagInPlace
  <2>2. r2.rest = Tail(Tail(m))
    BY <1>3 DEF Takes
  <2>3. Head(Tail(Tail(m))) = m[3]
    BY <2>1
  <2> QED
    BY <2>2, <2>3
<1> QED
  BY <1>0, <1>4, <1>5, <1>6, <1>7, <1>10, <1>11

-----------------------------------------------------------------------------
(* The answer.                                                             *)

IsSequence(a) == \E S : a \in Seq(S)

\* The values of the codes and of the tags of an answer.
Just(code) == {code}
Filled(tag) == {tag} \ {""}

\* The code of the answer to an exception.
Exception == 500

\* The tags of an answer to m with these codes.
TagsFor(m, codes) ==
    IF codes # Just(Exception) /\ TagInPlace(m) THEN Filled(m[3].val) ELSE {}

\* The parts of an answer: its code, its tag unless that is empty, and two more.
LEMMA ResponseValues ==
    ASSUME NEW code, NEW tag, NEW body
    PROVE  /\ IsSequence(ResponseToOutput(code, tag, body))
           /\ Values(ResponseToOutput(code, tag, body), "Code") = Just(code)
           /\ Values(ResponseToOutput(code, tag, body), "Tag") = Filled(tag)
<1> DEFINE a == ResponseToOutput(code, tag, body)
           p == part("Code", code)
           q == part("Type", "")
           s == part("Body", body)
           t == part("Tag", tag)
           S == {p, q, s, t}
<1>0. /\ p.key = "Code" /\ p.val = code /\ q.key = "Type" /\ s.key = "Body"
      /\ t.key = "Tag" /\ t.val = tag
  BY DEF part
<1>1. CASE tag = ""
  <2>1. a = <<p>> \o <<>> \o <<q, s>>
    BY <1>1 DEF ResponseToOutput
  <2> HIDE DEF a, p, q, s, t
  <2>2. a \in Seq(S) /\ Len(a) = 3 /\ a[1] = p /\ a[2] = q /\ a[3] = s
    BY <2>1
  <2> HIDE DEF S
  <2>3. /\ DOMAIN a = 1 .. 3
        /\ \A i \in 1 .. 3 : i = 1 \/ i = 2 \/ i = 3
    BY <2>2
  <2>4. Values(a, "Code") = {code} /\ Values(a, "Tag") = {}
    BY <1>0, <2>2, <2>3 DEF Values
  <2> QED
    BY <1>1, <2>2, <2>4 DEF a, IsSequence, Just, Filled
<1>2. CASE tag # ""
  <2>1. a = <<p>> \o <<t>> \o <<q, s>>
    BY <1>2 DEF ResponseToOutput
  <2> HIDE DEF a, p, q, s, t
  <2>2. a \in Seq(S) /\ Len(a) = 4 /\ a[1] = p /\ a[2] = t /\ a[3] = q /\ a[4] = s
    BY <2>1
  <2> HIDE DEF S
  <2>3. /\ DOMAIN a = 1 .. 4
        /\ \A i \in 1 .. 4 : i = 1 \/ i = 2 \/ i = 3 \/ i = 4
    BY <2>2
  <2>4. Values(a, "Code") = {code} /\ Values(a, "Tag") = {tag}
    BY <1>0, <2>2, <2>3 DEF Values
  <2> QED
    BY <1>2, <2>2, <2>4 DEF a, IsSequence, Just, Filled
<1> QED
  BY <1>1, <1>2

\* The answer has the tag of its request, whatever its code, unless it is the
\* answer to an exception.
LEMMA AnswerTag ==
    ASSUME NEW S, NEW m \in Seq(S), NEW a, a = evaluate(m) \/ a = InternalError
    PROVE  /\ IsSequence(a)
           /\ Values(a, "Tag") = TagsFor(m, Values(a, "Code"))
<1> DEFINE r == InputToRequest(m)
           res == Handled(Walk(rootHandler, r.URIParts), r.method)
           demo == part("DEMO", "")
           hai == part("DEMO-HAI", "")
           tags == IF TagInPlace(m) THEN Filled(m[3].val) ELSE {}
<1>1. Filled(r.tag) = tags /\ Filled("") = {}
  <2>1. r.tag = IF TagInPlace(m) THEN m[3].val ELSE ""
    BY TagIsRead
  <2> HIDE DEF r
  <2> QED
    BY <2>1 DEF Filled
<1> DEFINE bad == 400
<1>2. res.code # Exception /\ bad # Exception
  BY DEF Handled, MakeAuthorizationResponse, NotFound, BadMethod, Exception
<1>3. \/ a = <<hai>> /\ m = <<demo>>
      \/ a = ResponseToOutput(bad, r.tag, "Invalid request")
      \/ a = ResponseToOutput(res.code, r.tag, res.body)
      \/ a = ResponseToOutput(Exception, "", "internal error")
  BY DEF evaluate, InternalError, Exception
<1>4. hai.key = "DEMO-HAI"
  BY DEF part
<1> HIDE DEF r, res, bad, demo, hai
<1>5. \A c : Just(c) = Just(Exception) => c = Exception
  BY DEF Just
<1>6. CASE a = <<hai>> /\ m = <<demo>>
  <2>1. Len(m) = 1 /\ a \in Seq({hai}) /\ Len(a) = 1 /\ a[1] = hai
    BY <1>6
  <2>2. DOMAIN a = {1}
    BY <2>1
  <2>3. Values(a, "Tag") = {}
    BY <1>4, <2>1, <2>2 DEF Values
  <2>4. ~TagInPlace(m)
    BY <2>1 DEF TagInPlace
  <2> QED
    BY <2>1, <2>3, <2>4 DEF IsSequence, TagsFor
<1> HIDE DEF tags
<1>7. ASSUME NEW code, NEW body, code # Exception, a = ResponseToOutput(code, r.tag, body)
      PROVE  IsSequence(a) /\ Values(a, "Tag") = TagsFor(m, Values(a, "Code"))
  <2>1. /\ IsSequence(a)
        /\ Values(a, "Code") = Just(code) /\ Values(a, "Tag") = Filled(r.tag)
    BY <1>7, ResponseValues
  <2>2. Values(a, "Code") # Just(Exception)
    BY <1>5, <1>7, <2>1
  <2>3. TagsFor(m, Values(a, "Code")) = tags
    BY <2>2 DEF TagsFor, tags
  <2> QED
    BY <1>1, <2>1, <2>3
<1>8. CASE a = ResponseToOutput(Exception, "", "internal error")
  <2>1. /\ IsSequence(a)
        /\ Values(a, "Code") = Just(Exception) /\ Values(a, "Tag") = Filled("")
    BY <1>8, ResponseValues
  <2>2. TagsFor(m, Just(Exception)) = {}
    BY DEF TagsFor
  <2> QED
    BY <1>1, <2>1, <2>2
<1> QED
  BY <1>2, <1>3, <1>6, <1>7, <1>8

\* The first empty frame is none after the last.
LEMMA EmptyFrames ==
    ASSUME request \in Seq(ToSet(request))
    PROVE  /\ EnvelopeEnd(request) \in 0 .. Len(request)
           /\ FirstEmpty \in 0 .. EnvelopeEnd(request)
<1> DEFINE I == {i \in 1 .. Len(request) : request[i] = Empty}
<1>1. /\ EnvelopeEnd(request) = IF I # {} THEN Max(I) ELSE 0
      /\ FirstEmpty = IF I # {} THEN Min(I) ELSE 0
  BY DEF EnvelopeEnd, FirstEmpty, SelectInSeq, SelectLastInSeq
<1>2. Len(request) \in Nat /\ I \subseteq 0 .. Len(request) /\ I \subseteq Nat
  OBVIOUS
<1>3. CASE I = {}
  BY <1>1, <1>2, <1>3
<1>4. CASE I # {}
  <2>1. Max(I) \in I /\ Min(I) \in I /\ Min(I) <= Max(I)
    BY <1>2, <1>4, MinIsLeast, MaxIsGreatest
  <2>2. EnvelopeEnd(request) = Max(I) /\ FirstEmpty = Min(I)
    BY <1>1, <1>4
  <2> HIDE DEF I
  <2>3. Max(I) \in 0 .. Len(request) /\ Min(I) \in Nat
    BY <1>2, <2>1
  <2> QED
    BY <1>2, <2>1, <2>2, <2>3
<1> QED
  BY <1>3, <1>4

\* An answer behind the first e frames of a message.
Behind(m, e, a) == SubSeq(m, 1, e) \o a

LEMMA BehindEnvelope ==
    ASSUME NEW S, NEW m \in Seq(S), NEW a \in Seq(S),
           NEW e \in 0 .. Len(m), NEW f \in 0 .. e,
           NEW p, p = Behind(m, e, a)
    PROVE  IsPrefix(SubSeq(m, 1, f), p) /\ SubSeq(p, e + 1, Len(p)) = a
<1> DEFINE v == SubSeq(m, 1, e)
           w == SubSeq(m, 1, f)
<1>1. /\ v \in Seq(S) /\ Len(v) = e /\ \A i \in 1 .. e : v[i] = m[i]
      /\ w \in Seq(S) /\ Len(w) = f /\ \A i \in 1 .. f : w[i] = m[i]
      /\ Len(a) \in Nat
  OBVIOUS
<1>2. p = v \o a
  BY DEF Behind
<1> HIDE DEF v, w
<1>3. p \in Seq(S) /\ Len(p) = e + Len(a)
  <2>1. v \o a \in Seq(S)
    BY <1>1
  <2>2. Len(v \o a) = Len(v) + Len(a)
    BY <1>1
  <2> QED
    BY <1>1, <1>2, <2>1, <2>2
<1>4. \A i \in 1 .. e : p[i] = v[i]
  BY <1>1, <1>2
<1>5. \A i \in 1 .. Len(a) : p[e + i] = a[i]
  BY <1>1, <1>2
<1>6. IsPrefix(w, p)
  <2>1. /\ SubSeq(p, 1, f) \in Seq(S) /\ Len(SubSeq(p, 1, f)) = f
        /\ \A i \in 1 .. f : SubSeq(p, 1, f)[i] = p[i]
    BY <1>1, <1>3
  <2>2. /\ SubSeq(w, 1, f) \in Seq(S) /\ Len(SubSeq(w, 1, f)) = f
        /\ \A i \in 1 .. f : SubSeq(w, 1, f)[i] = w[i]
    BY <1>1
  <2>3. \A i \in 1 .. f : SubSeq(w, 1, f)[i] = SubSeq(p, 1, f)[i]
    BY <1>1, <1>4, <2>1, <2>2
  <2>4. SubSeq(w, 1, f) = SubSeq(p, 1, f)
    BY <2>1, <2>2, <2>3, SameSequence
  <2> QED
    BY <1>1, <1>3, <2>4 DEF IsPrefix
<1>7. SubSeq(p, e + 1, Len(p)) = a
  <2> DEFINE s == SubSeq(p, e + 1, Len(p))
  <2>1. /\ s \in Seq(S) /\ Len(s) = Len(a)
        /\ \A i \in 1 .. Len(a) : s[i] = p[e + i]
    BY <1>1, <1>3
  <2> HIDE DEF s
  <2>2. \A i \in 1 .. Len(a) : s[i] = a[i]
    BY <1>5, <2>1
  <2>3. s = a
    BY <1>1, <2>1, <2>2, SameSequence
  <2> QED
    BY <2>3 DEF s
<1> QED
  BY <1>6, <1>7 DEF w

LEMMA SendStep ==
    ASSUME EngineInv, SendResponse
    PROVE  ReplyFindsItsWay'
<1> DEFINE e == EnvelopeEnd(request)
           m == strip(request)
           Q == ToSet(request)
<1>1. request \in Seq(Q) /\ request' = request
  BY RequestAssumption DEF EngineInv, SendResponse
<1>2. PICK a : reply' = Behind(request, e, a) /\ (a = evaluate(m) \/ a = InternalError)
  BY DEF SendResponse, route, Behind
<1>3. e \in 0 .. Len(request) /\ FirstEmpty \in 0 .. e
  BY <1>1, EmptyFrames
<1>4. m \in Seq(Q) /\ m = SubSeq(request, e + 1, Len(request))
  BY <1>1, StripType DEF strip
<1> HIDE DEF m, Q
<1>5. PICK T : a \in Seq(T)
  BY <1>2, <1>4, AnswerTag DEF IsSequence
<1>6. Values(a, "Tag") = TagsFor(m, Values(a, "Code"))
  BY <1>2, <1>4, AnswerTag
<1> DEFINE U == Q \cup T
<1>7. request \in Seq(U) /\ a \in Seq(U)
  BY <1>1, <1>5
<1> HIDE DEF e, U
<1>8. /\ IsPrefix(SubSeq(request, 1, FirstEmpty), reply')
      /\ SubSeq(reply', e + 1, Len(reply')) = a
  BY <1>2, <1>3, <1>7, BehindEnvelope
<1>9. FirstEmpty' = FirstEmpty /\ EnvelopeEnd(request') = e
  BY <1>1 DEF FirstEmpty, SelectInSeq, e
<1>10. /\ Envelope' = SubSeq(request, 1, FirstEmpty)
       /\ Answer' = a
       /\ FirstEmpty = e => Message' = m
  BY <1>1, <1>4, <1>8, <1>9 DEF Envelope, Answer, Message
<1>11. IsPrefix(Envelope', reply')
  BY <1>8, <1>10
<1>12. FirstEmpty' = EnvelopeEnd(request') =>
           Values(Answer', "Tag") = TagsFor(Message', Values(Answer', "Code"))
  BY <1>6, <1>9, <1>10
<1> QED
  BY <1>11, <1>12 DEF ReplyFindsItsWay, TagsFor, Filled, Just, Exception, TagInPlace

LEMMA ReplyStep ==
    ASSUME EngineInv, ReplyFindsItsWay, [Next]_engineVars
    PROVE  ReplyFindsItsWay'
<1>1. CASE UNCHANGED <<request, reply>>
  <2>1. FirstEmpty' = FirstEmpty
    BY <1>1 DEF FirstEmpty, SelectInSeq
  <2>2. Envelope' = Envelope /\ Answer' = Answer /\ Message' = Message
    BY <1>1, <2>1 DEF Envelope, Answer, Message
  <2>3. reply # Nobody =>
            /\ IsPrefix(Envelope, reply)
            /\ FirstEmpty = EnvelopeEnd(request) =>
                   Values(Answer, "Tag") = TagsFor(Message, Values(Answer, "Code"))
    BY DEF ReplyFindsItsWay, TagsFor, Filled, Just, Exception, TagInPlace
  <2>4. reply' # Nobody =>
            /\ IsPrefix(Envelope', reply')
            /\ FirstEmpty' = EnvelopeEnd(request') =>
                   Values(Answer', "Tag") = TagsFor(Message', Values(Answer', "Code"))
    BY <1>1, <2>1, <2>2, <2>3
  <2> QED
    BY <2>4 DEF ReplyFindsItsWay, TagsFor, Filled, Just, Exception, TagInPlace
<1>2. ASSUME NEW frames \in Requests, Receive(frames)
      PROVE  reply' = Nobody
  BY <1>2 DEF Receive, EngineInv
<1>3. CASE SendResponse
  BY <1>3, SendStep
<1>4. CASE Forget
  BY <1>4 DEF Forget, ReplyFindsItsWay
<1>5. CASE Crash \/ BuildTree
  BY <1>1, <1>5 DEF Crash, BuildTree
<1> QED
  BY <1>1, <1>2, <1>3, <1>4, <1>5 DEF Next, engineVars, ReplyFindsItsWay

\* An answer goes back along the envelope of its request and with its tag, for
\* every tree, every request and every answer of the handlers.
THEOREM ReplyCorrect == Spec => []ReplyFindsItsWay
<1>1. Init => ReplyFindsItsWay
  BY DEF Init, ReplyFindsItsWay
<1> QED
  BY <1>1, EngineInit, EngineStep, ReplyStep, PTL DEF Spec

-----------------------------------------------------------------------------
(* Folds over a sequence.  FoldLeft chooses a function over all sets of    *)
(* places.  That there is one is shown for every length, so that the chosen *)
(* one is known to go along the places one by one.                         *)

\* Induction up to n, over a set.
LEMMA UpTo ==
    ASSUME NEW n \in Nat, NEW S, 0 \in S, \A i \in 1 .. n : i - 1 \in S => i \in S
    PROVE  0 .. n \subseteq S
<1> SUFFICES ASSUME NEW k \in 0 .. n, k \notin S
             PROVE  FALSE
  OBVIOUS
<1> DEFINE T == {i \in 0 .. n : i \notin S}
<1>1. T \subseteq Nat /\ T # {}
  OBVIOUS
<1>2. PICK m \in T : \A i \in T : m <= i
  <2> HIDE DEF T
  <2> QED
    BY <1>1, LeastExists
<1>3. m # 0 /\ m \in 1 .. n /\ m - 1 \in 0 .. n
  BY <1>2
<1>4. m - 1 \in S
  <2>1. m - 1 \notin T
    <3> HIDE DEF T
    <3> QED
      BY <1>1, <1>2, <1>3
  <2> QED
    BY <1>3, <2>1
<1> QED
  BY <1>2, <1>3, <1>4

\* The greatest place of those up to k.
LEMMA MaxOfRange ==
    ASSUME NEW k \in Nat, NEW s, s \subseteq 1 .. k, k \in s
    PROVE  Max(s) = k
<1>1. s \subseteq 0 .. k /\ s # {}
  OBVIOUS
<1>2. Max(s) \in s /\ Max(s) >= k
  BY <1>1, MaxIsGreatest
<1>3. Max(s) \in 1 .. k
  BY <1>2
<1> QED
  BY <1>2, <1>3

\* What the folds of the community modules ask of the function over the sets of
\* places they choose.
IsFold(g, n, base, Op) ==
    \A s \in SUBSET (1 .. n) :
        g[s] = IF s = {} THEN base ELSE Op[<<g[s \ {Max(s)}], Max(s)>>]

\* There is such a function.
LEMMA FoldExists ==
    ASSUME NEW A, NEW base \in A, NEW n \in Nat, NEW Op \in [A \X (1 .. n) -> A]
    PROVE  \E g \in [SUBSET (1 .. n) -> A] : IsFold(g, n, base, Op)
<1> DEFINE Good(k) == \E g \in [SUBSET (1 .. k) -> A] : IsFold(g, k, base, Op)
           S == {k \in 0 .. n : Good(k)}
<1>1. Good(0)
  <2> DEFINE g == [s \in SUBSET (1 .. 0) |-> base]
  <2>1. g \in [SUBSET (1 .. 0) -> A]
    OBVIOUS
  <2>2. \A s \in SUBSET (1 .. 0) : s = {} /\ g[s] = base
    OBVIOUS
  <2> HIDE DEF g
  <2>3. IsFold(g, 0, base, Op)
    BY <2>2 DEF IsFold
  <2> QED
    BY <2>1, <2>3
<1>2. ASSUME NEW k \in 1 .. n, Good(k - 1)
      PROVE  Good(k)
  <2>1. PICK g \in [SUBSET (1 .. k - 1) -> A] : IsFold(g, k - 1, base, Op)
    BY <1>2
  <2> DEFINE h == [s \in SUBSET (1 .. k) |->
                      IF k \in s THEN Op[<<g[s \ {k}], k>>] ELSE g[s]]
  <2>2. ASSUME NEW s \in SUBSET (1 .. k)
        PROVE  /\ h[s] \in A
               /\ h[s] = IF s = {} THEN base ELSE Op[<<h[s \ {Max(s)}], Max(s)>>]
    <3>1. s \ {k} \in SUBSET (1 .. k - 1) /\ g[s \ {k}] \in A
      OBVIOUS
    <3>2. CASE k \in s
      <4>1. h[s] = Op[<<g[s \ {k}], k>>] /\ s # {}
        BY <3>2
      <4>2. h[s \ {k}] = g[s \ {k}]
        OBVIOUS
      <4>3. Max(s) = k
        <5>1. k \in Nat /\ s \subseteq 1 .. k
          OBVIOUS
        <5> QED
          BY <3>2, <5>1, MaxOfRange
      <4>4. h[s] \in A
        BY <3>1, <4>1
      <4> HIDE DEF h
      <4> QED
        BY <4>1, <4>2, <4>3, <4>4
    <3>3. CASE k \notin s
      <4>1. s \in SUBSET (1 .. k - 1) /\ h[s] = g[s] /\ h[s] \in A
        BY <3>1, <3>3
      <4>2. g[s] = IF s = {} THEN base ELSE Op[<<g[s \ {Max(s)}], Max(s)>>]
        BY <2>1, <4>1 DEF IsFold
      <4>3. h[s \ {Max(s)}] = g[s \ {Max(s)}]
        BY <3>3
      <4> HIDE DEF h
      <4> QED
        BY <4>1, <4>2, <4>3
    <3> QED
      BY <3>2, <3>3
  <2>3. h \in [SUBSET (1 .. k) -> A]
    BY <2>2
  <2> HIDE DEF h
  <2>4. IsFold(h, k, base, Op)
    BY <2>2 DEF IsFold
  <2> QED
    BY <2>3, <2>4
<1> HIDE DEF Good
<1>3. 0 \in S /\ \A i \in 1 .. n : i - 1 \in S => i \in S
  BY <1>1, <1>2
<1> HIDE DEF S
<1>4. n \in S
  BY <1>3, UpTo
<1> QED
  BY <1>4 DEF S, Good

-----------------------------------------------------------------------------
(* The folds of Split, Walk and Target.  Each is shown to be the last of as *)
(* many values as the sequence has places, each made of the one before it; *)
(* the argument is the same three times, as no prover takes an operator for *)
(* a parameter.                                                            *)

\* Where Split begins, what it does at each place, and what it ends with.
Start == [done |-> <<>>, open |-> ""]
Ended(end) == IF end.open = "" THEN end.done ELSE Append(end.done, end.open)
SplitStep(acc, c) ==
    IF c = "/" THEN [done |-> Append(acc.done, acc.open), open |-> ""]
    ELSE [acc EXCEPT !.open = c]

\* Where Walk begins and what it does at each place.
WalkStart(from) == [node |-> from, data |-> ""]
WalkStep(at, p) ==
    LET h == resolve(at.node, p)
    IN  [node |-> h, data |-> IF h \in Regex /\ p # "" THEN p ELSE at.data]

\* What each of the three folds asks.
FollowFold(g, u) ==
    g = [s \in SUBSET (DOMAIN u) |->
            IF s = {} THEN rootHandler ELSE Follow(g[s \ {Max(s)}], u[Max(s)])]
SplitFold(g, u) ==
    g = [s \in SUBSET (DOMAIN u) |->
            IF s = {} THEN Start ELSE SplitStep(g[s \ {Max(s)}], u[Max(s)])]
WalkFold(g, from, u) ==
    g = [s \in SUBSET (DOMAIN u) |->
            IF s = {} THEN WalkStart(from)
            ELSE WalkStep(g[s \ {Max(s)}], u[Max(s)])]

\* Each fold is chosen to do what is asked of it.
LEMMA TargetChooses == \A u : Target(u) = (CHOOSE g : FollowFold(g, u))[DOMAIN u]
BY DEF Target, FoldLeft, MapThenFoldSet, FollowFold

LEMMA WalkChooses ==
    \A from, u : Walk(from, u) = (CHOOSE g : WalkFold(g, from, u))[DOMAIN u]
BY DEF Walk, FoldLeft, MapThenFoldSet, WalkFold, WalkStart, WalkStep

LEMMA SplitChooses ==
    \A u : Split(u) = Ended((CHOOSE g : SplitFold(g, u))[DOMAIN u])
BY Zenon DEF Split, FoldLeft, MapThenFoldSet, SplitFold, SplitStep, Start, Ended

\* The places of a sequence up to one of them.
LEMMA Ranges ==
    ASSUME NEW S, NEW u \in Seq(S)
    PROVE  /\ Len(u) \in Nat /\ DOMAIN u = 1 .. Len(u) /\ 1 .. 0 = {}
           /\ \A i \in 1 .. Len(u) :
                  /\ 1 .. i \in SUBSET DOMAIN u /\ 1 .. i # {} /\ Max(1 .. i) = i
                  /\ (1 .. i) \ {i} = 1 .. i - 1
<1>1. Len(u) \in Nat /\ DOMAIN u = 1 .. Len(u) /\ 1 .. 0 = {}
  OBVIOUS
<1>2. ASSUME NEW i \in 1 .. Len(u)
      PROVE  /\ 1 .. i \in SUBSET DOMAIN u /\ 1 .. i # {} /\ Max(1 .. i) = i
             /\ (1 .. i) \ {i} = 1 .. i - 1
  <2>1. Max(1 .. i) = i
    BY <1>1, MaxOfRange
  <2>2. (1 .. i) \ {i} = 1 .. i - 1
    BY <1>1
  <2> QED
    BY <1>1, <2>1, <2>2
<1> QED
  BY <1>1, <1>2

\* The nodes on the way to the target of a URI.
LEMMA TargetIs ==
    ASSUME NEW N, NEW S, NEW u \in Seq(S), rootHandler \in N,
           \A m \in N, c \in S : Follow(m, c) \in N
    PROVE  \E F : /\ F[0] = rootHandler
                  /\ \A i \in 1 .. Len(u) : F[i] = Follow(F[i - 1], u[i])
                  /\ F[Len(u)] = Target(u)
<1> DEFINE n == Len(u)
           Op == [x \in N \X (1 .. n) |-> Follow(x[1], u[x[2]])]
<1>1. n \in Nat /\ DOMAIN u = 1 .. n /\ 1 .. 0 = {}
  BY Ranges
<1>2. Op \in [N \X (1 .. n) -> N]
  <2>1. ASSUME NEW x \in N \X (1 .. n)
        PROVE  Follow(x[1], u[x[2]]) \in N
    <3>1. x[1] \in N /\ u[x[2]] \in S
      OBVIOUS
    <3> QED
      BY <3>1
  <2> QED
    BY <2>1
<1>3. PICK w \in [SUBSET (1 .. n) -> N] : IsFold(w, n, rootHandler, Op)
  <2> HIDE DEF Op, n
  <2> QED
    BY <1>1, <1>2, FoldExists
<1>4. FollowFold(w, u)
  <2>1. ASSUME NEW s \in SUBSET (1 .. n)
        PROVE  w[s] = IF s = {} THEN rootHandler ELSE Follow(w[s \ {Max(s)}], u[Max(s)])
    <3>1. w[s] = IF s = {} THEN rootHandler ELSE Op[<<w[s \ {Max(s)}], Max(s)>>]
      BY <1>3 DEF IsFold
    <3>2. w[s \ {Max(s)}] \in N
      BY <1>3
    <3>3. s # {} => Max(s) \in 1 .. n
      <4>1. s \subseteq 0 .. n
        BY <1>1
      <4>2. s # {} => Max(s) \in s
        BY <1>1, <4>1, MaxIsGreatest
      <4> QED
        BY <4>2
    <3> QED
      BY <3>1, <3>2, <3>3
  <2> QED
    BY <1>1, <1>3, <2>1 DEF FollowFold
<1> DEFINE g == CHOOSE h : FollowFold(h, u)
           F == [i \in 0 .. n |-> g[1 .. i]]
<1>5. FollowFold(g, u)
  BY <1>4
<1> HIDE DEF g
<1>6. \A s \in SUBSET (1 .. n) :
          g[s] = IF s = {} THEN rootHandler ELSE Follow(g[s \ {Max(s)}], u[Max(s)])
  BY <1>1, <1>5 DEF FollowFold
<1>7. g[1 .. 0] = rootHandler
  BY <1>1, <1>6
<1>8. ASSUME NEW i \in 1 .. n
      PROVE  g[1 .. i] = Follow(g[1 .. i - 1], u[i])
  <2>1. /\ 1 .. i \in SUBSET (1 .. n) /\ 1 .. i # {} /\ Max(1 .. i) = i
        /\ (1 .. i) \ {i} = 1 .. i - 1
    BY <1>1, Ranges
  <2> HIDE DEF n
  <2> QED
    BY <1>6, <2>1
<1>9. g[1 .. n] = Target(u)
  BY <1>1, TargetChooses DEF g
<1> QED
  <2>1. F[0] = rootHandler /\ F[n] = Target(u)
    BY <1>1, <1>7, <1>9
  <2>2. \A i \in 1 .. n : F[i] = Follow(F[i - 1], u[i])
    BY <1>1, <1>8
  <2> QED
    BY <2>1, <2>2

\* The nodes on a walk.
LEMMA WalkIs ==
    ASSUME NEW from, NEW N, NEW S, NEW u \in Seq(S), WalkStart(from) \in N,
           \A m \in N, c \in S : WalkStep(m, c) \in N
    PROVE  \E F : /\ F[0] = WalkStart(from)
                  /\ \A i \in 1 .. Len(u) : F[i] = WalkStep(F[i - 1], u[i])
                  /\ F[Len(u)] = Walk(from, u)
<1> DEFINE n == Len(u)
           Op == [x \in N \X (1 .. n) |-> WalkStep(x[1], u[x[2]])]
<1>1. n \in Nat /\ DOMAIN u = 1 .. n /\ 1 .. 0 = {}
  BY Ranges
<1>2. Op \in [N \X (1 .. n) -> N]
  <2>1. ASSUME NEW x \in N \X (1 .. n)
        PROVE  WalkStep(x[1], u[x[2]]) \in N
    <3>1. x[1] \in N /\ u[x[2]] \in S
      OBVIOUS
    <3> QED
      BY <3>1
  <2> QED
    BY <2>1
<1>3. PICK w \in [SUBSET (1 .. n) -> N] : IsFold(w, n, WalkStart(from), Op)
  <2> HIDE DEF Op, n
  <2> QED
    BY <1>1, <1>2, FoldExists
<1>4. WalkFold(w, from, u)
  <2>1. ASSUME NEW s \in SUBSET (1 .. n)
        PROVE  w[s] = IF s = {} THEN WalkStart(from) ELSE WalkStep(w[s \ {Max(s)}], u[Max(s)])
    <3>1. w[s] = IF s = {} THEN WalkStart(from) ELSE Op[<<w[s \ {Max(s)}], Max(s)>>]
      BY <1>3 DEF IsFold
    <3>2. w[s \ {Max(s)}] \in N
      BY <1>3
    <3>3. s # {} => Max(s) \in 1 .. n
      <4>1. s \subseteq 0 .. n
        BY <1>1
      <4>2. s # {} => Max(s) \in s
        BY <1>1, <4>1, MaxIsGreatest
      <4> QED
        BY <4>2
    <3> QED
      BY <3>1, <3>2, <3>3
  <2> QED
    BY <1>1, <1>3, <2>1 DEF WalkFold
<1> DEFINE g == CHOOSE h : WalkFold(h, from, u)
           F == [i \in 0 .. n |-> g[1 .. i]]
<1>5. WalkFold(g, from, u)
  BY <1>4
<1> HIDE DEF g
<1>6. \A s \in SUBSET (1 .. n) :
          g[s] = IF s = {} THEN WalkStart(from) ELSE WalkStep(g[s \ {Max(s)}], u[Max(s)])
  BY <1>1, <1>5 DEF WalkFold
<1>7. g[1 .. 0] = WalkStart(from)
  BY <1>1, <1>6
<1>8. ASSUME NEW i \in 1 .. n
      PROVE  g[1 .. i] = WalkStep(g[1 .. i - 1], u[i])
  <2>1. /\ 1 .. i \in SUBSET (1 .. n) /\ 1 .. i # {} /\ Max(1 .. i) = i
        /\ (1 .. i) \ {i} = 1 .. i - 1
    BY <1>1, Ranges
  <2> HIDE DEF n
  <2> QED
    BY <1>6, <2>1
<1>9. g[1 .. n] = Walk(from, u)
  BY <1>1, WalkChooses DEF g
<1> QED
  <2>1. F[0] = WalkStart(from) /\ F[n] = Walk(from, u)
    BY <1>1, <1>7, <1>9
  <2>2. \A i \in 1 .. n : F[i] = WalkStep(F[i - 1], u[i])
    BY <1>1, <1>8
  <2> QED
    BY <2>1, <2>2

\* What Split has at each place of a URI.
LEMMA SplitIs ==
    ASSUME NEW N, NEW S, NEW u \in Seq(S), Start \in N,
           \A m \in N, c \in S : SplitStep(m, c) \in N
    PROVE  \E F : /\ F[0] = Start
                  /\ \A i \in 1 .. Len(u) : F[i] = SplitStep(F[i - 1], u[i])
                  /\ Split(u) = Ended(F[Len(u)])
<1> DEFINE n == Len(u)
           Op == [x \in N \X (1 .. n) |-> SplitStep(x[1], u[x[2]])]
<1>1. n \in Nat /\ DOMAIN u = 1 .. n /\ 1 .. 0 = {}
  BY Ranges
<1>2. Op \in [N \X (1 .. n) -> N]
  <2>1. ASSUME NEW x \in N \X (1 .. n)
        PROVE  SplitStep(x[1], u[x[2]]) \in N
    <3>1. x[1] \in N /\ u[x[2]] \in S
      OBVIOUS
    <3> QED
      BY <3>1
  <2> QED
    BY <2>1
<1>3. PICK w \in [SUBSET (1 .. n) -> N] : IsFold(w, n, Start, Op)
  <2> HIDE DEF Op, n
  <2> QED
    BY <1>1, <1>2, FoldExists
<1>4. SplitFold(w, u)
  <2>1. ASSUME NEW s \in SUBSET (1 .. n)
        PROVE  w[s] = IF s = {} THEN Start ELSE SplitStep(w[s \ {Max(s)}], u[Max(s)])
    <3>1. w[s] = IF s = {} THEN Start ELSE Op[<<w[s \ {Max(s)}], Max(s)>>]
      BY <1>3 DEF IsFold
    <3>2. w[s \ {Max(s)}] \in N
      BY <1>3
    <3>3. s # {} => Max(s) \in 1 .. n
      <4>1. s \subseteq 0 .. n
        BY <1>1
      <4>2. s # {} => Max(s) \in s
        BY <1>1, <4>1, MaxIsGreatest
      <4> QED
        BY <4>2
    <3> QED
      BY <3>1, <3>2, <3>3
  <2> QED
    BY <1>1, <1>3, <2>1 DEF SplitFold
<1> DEFINE g == CHOOSE h : SplitFold(h, u)
           F == [i \in 0 .. n |-> g[1 .. i]]
<1>5. SplitFold(g, u)
  BY <1>4
<1> HIDE DEF g
<1>6. \A s \in SUBSET (1 .. n) :
          g[s] = IF s = {} THEN Start ELSE SplitStep(g[s \ {Max(s)}], u[Max(s)])
  BY <1>1, <1>5 DEF SplitFold
<1>7. g[1 .. 0] = Start
  BY <1>1, <1>6
<1>8. ASSUME NEW i \in 1 .. n
      PROVE  g[1 .. i] = SplitStep(g[1 .. i - 1], u[i])
  <2>1. /\ 1 .. i \in SUBSET (1 .. n) /\ 1 .. i # {} /\ Max(1 .. i) = i
        /\ (1 .. i) \ {i} = 1 .. i - 1
    BY <1>1, Ranges
  <2> HIDE DEF n
  <2> QED
    BY <1>6, <2>1
<1>9. Split(u) = Ended(g[1 .. n])
  BY <1>1, SplitChooses DEF g
<1> QED
  <2>1. F[0] = Start /\ Split(u) = Ended(F[n])
    BY <1>1, <1>7, <1>9
  <2>2. \A i \in 1 .. n : F[i] = SplitStep(F[i - 1], u[i])
    BY <1>1, <1>8
  <2> QED
    BY <2>1, <2>2

-----------------------------------------------------------------------------
(* The path of a URI.                                                      *)

Node == Handler \cup {NullHandler}

\* resolve does not leave the tree.
LEMMA ResolveType ==
    ASSUME TreeTypeOK, NEW n \in Node, NEW p
    PROVE  resolve(n, p) \in Node
<1> SUFFICES ASSUME n \in Handler, NEW K, K \subseteq DOMAIN toRegister[n], K # {}
             PROVE  FirstOf(n, K) \in Handler
  <2>1. n \in Handler => /\ Hard(n, p) \subseteq DOMAIN toRegister[n]
                         /\ Matching(n, p) \subseteq DOMAIN toRegister[n]
    BY DEF TreeTypeOK, Hard, Matching
  <2>2. CASE n = NullHandler
    BY <2>2 DEF resolve, Node
  <2>3. CASE n \in Handler
    BY <2>1, <2>3 DEF resolve, Node
  <2> QED
    BY <2>2, <2>3 DEF Node
<1>1. toRegister[n] \in Seq(Handler)
  BY DEF TreeTypeOK
<1>2. K \subseteq Nat
  BY <1>1
<1>3. Min(K) \in K
  BY <1>2, MinIsLeast
<1> QED
  BY <1>1, <1>3 DEF FirstOf

\* Where a list of parts leads.
Reached(q) == Walk(rootHandler, q).node

\* The node of a walk does not depend on its data.
LEMMA WalkStepIs ==
    ASSUME NEW at, NEW p
    PROVE  WalkStep(at, p).node = resolve(at.node, p)
<1> DEFINE h == resolve(at.node, p)
           r == WalkStep(at, p)
<1>1. PICK d : r = [node |-> h, data |-> d]
  BY DEF WalkStep
<1> HIDE DEF h, r
<1>2. r.node = h
  BY <1>1
<1> QED
  BY <1>2 DEF h, r

\* One more part is one more step.
LEMMA WalkAppend ==
    ASSUME TreeTypeOK, rootHandler \in Node, NEW P, NEW q \in Seq(P), NEW c \in P
    PROVE  /\ Reached(<<>>) = rootHandler
           /\ Reached(Append(q, c)) = resolve(Reached(q), c)
<1> DEFINE N == [node : Node, data : P \cup {""}]
           n == Len(q)
           r == Append(q, c)
<1>1. WalkStart(rootHandler) \in N /\ \A at \in N, p \in P : WalkStep(at, p) \in N
  <2>1. WalkStart(rootHandler) \in N
    BY DEF WalkStart
  <2>2. ASSUME NEW at \in N, NEW p \in P
        PROVE  WalkStep(at, p) \in N
    <3>1. at.node \in Node /\ at.data \in P \cup {""}
      OBVIOUS
    <3>2. resolve(at.node, p) \in Node
      BY <3>1, ResolveType
    <3> QED
      BY <3>1, <3>2 DEF WalkStep
  <2> QED
    BY <2>1, <2>2
<1>2. /\ n \in Nat /\ r \in Seq(P) /\ Len(r) = n + 1 /\ r[n + 1] = c
      /\ \A i \in 1 .. n : r[i] = q[i]
  OBVIOUS
<1> HIDE DEF N, r
<1>3. PICK F : /\ F[0] = WalkStart(rootHandler)
               /\ \A i \in 1 .. n : F[i] = WalkStep(F[i - 1], q[i])
               /\ F[n] = Walk(rootHandler, q)
  BY <1>1, WalkIs
<1>4. PICK G : /\ G[0] = WalkStart(rootHandler)
               /\ \A i \in 1 .. n + 1 : G[i] = WalkStep(G[i - 1], r[i])
               /\ G[n + 1] = Walk(rootHandler, r)
  <2>1. \E G : /\ G[0] = WalkStart(rootHandler)
               /\ \A i \in 1 .. Len(r) : G[i] = WalkStep(G[i - 1], r[i])
               /\ G[Len(r)] = Walk(rootHandler, r)
    BY <1>1, <1>2, WalkIs
  <2> QED
    BY <1>2, <2>1
<1>5. F[n] = G[n]
  <2> DEFINE S == {i \in 0 .. n : F[i] = G[i]}
  <2>1. 0 \in S
    BY <1>2, <1>3, <1>4
  <2>2. \A i \in 1 .. n : i - 1 \in S => i \in S
    BY <1>2, <1>3, <1>4
  <2>3. 0 .. n \subseteq S
    <3> HIDE DEF S
    <3> QED
      BY <1>2, <2>1, <2>2, UpTo
  <2> QED
    BY <1>2, <2>3
<1>6. Walk(rootHandler, r) = WalkStep(Walk(rootHandler, q), c)
  <2>1. n + 1 \in 1 .. n + 1 /\ (n + 1) - 1 = n
    BY <1>2
  <2>2. G[n + 1] = WalkStep(G[(n + 1) - 1], r[n + 1])
    BY <1>4, <2>1
  <2>3. G[n + 1] = WalkStep(G[n], c)
    BY <1>2, <2>1, <2>2
  <2> QED
    BY <1>3, <1>4, <1>5, <2>3
<1>7. Reached(<<>>) = rootHandler
  <2> DEFINE e == <<>>
             s == WalkStart(rootHandler)
  <2>1. e \in Seq(P) /\ Len(e) = 0
    OBVIOUS
  <2>2. s.node = rootHandler
    BY DEF WalkStart
  <2> HIDE DEF e, s
  <2>3. PICK E : E[0] = WalkStart(rootHandler) /\ E[Len(e)] = Walk(rootHandler, e)
    BY <1>1, <2>1, WalkIs
  <2>4. Walk(rootHandler, e) = s
    BY <2>1, <2>3 DEF s
  <2> QED
    BY <2>2, <2>4, Zenon DEF Reached, e
<1>8. Reached(r) = resolve(Reached(q), c)
  BY <1>6, WalkStepIs DEF Reached
<1> QED
  BY <1>7, <1>8 DEF r

\* Split begins with no part, and a slash ends the part it is at.
LEMMA SplitStarts == Start.done = <<>> /\ Start.open = ""
BY DEF Start

LEMMA SlashEnds ==
    ASSUME NEW acc
    PROVE  /\ SplitStep(acc, "/").done = Append(acc.done, acc.open)
           /\ SplitStep(acc, "/").open = ""
<1> DEFINE d == Append(acc.done, acc.open)
           r == SplitStep(acc, "/")
<1>1. r = [done |-> d, open |-> ""]
  BY DEF SplitStep
<1> HIDE DEF d, r
<1>2. r.done = d /\ r.open = ""
  BY <1>1
<1> QED
  BY <1>2 DEF d, r

\* A URI leads to the node it means: what Split makes of it are the texts
\* between its slashes and empty parts, which lead nowhere else.
LEMMA SamePath ==
    ASSUME TreeTypeOK, rootHandler \in Node, NEW u, IsURI(u)
    PROVE  Reached(Split(u)) = Target(u) /\ Target(u) \in Node
<1> DEFINE C == ToSet(u)
           P == C \cup {""}
           N == [done : Seq(P), open : P]
           n == Len(u)
<1>1. /\ u \in Seq(C) /\ n \in Nat /\ \A i \in 1 .. n : u[i] \in C
      /\ \A i \in 1 .. n - 1 : u[i] = "/" \/ u[i + 1] = "/"
  BY DEF IsURI
<1>2. Start \in N /\ \A acc \in N, c \in C : SplitStep(acc, c) \in N
  <2>1. Start \in N
    BY DEF Start
  <2>2. ASSUME NEW acc \in N, NEW c \in C
        PROVE  SplitStep(acc, c) \in N
    <3> DEFINE d == Append(acc.done, acc.open)
    <3>1. acc.done \in Seq(P) /\ acc.open \in P /\ c \in P /\ "" \in P
      OBVIOUS
    <3>2. d \in Seq(P)
      <4> HIDE DEF P
      <4> QED
        BY <3>1, AppendContains
    <3>3. CASE c = "/"
      <4>1. SplitStep(acc, c) = [done |-> d, open |-> ""]
        BY <3>3 DEF SplitStep
      <4>2. [done |-> d, open |-> ""] \in N
        <5> HIDE DEF d, P
        <5> QED
          BY <3>1, <3>2
      <4> QED
        BY <4>1, <4>2
    <3>4. CASE c # "/"
      <4>1. SplitStep(acc, c) = [acc EXCEPT !.open = c]
        BY <3>4 DEF SplitStep
      <4> QED
        BY <3>1, <4>1
    <3> QED
      BY <3>3, <3>4
  <2> QED
    BY <2>1, <2>2
<1>3. \A m \in Node, c \in C : Follow(m, c) \in Node
  BY ResolveType DEF Follow
<1> HIDE DEF C, N
<1>4. PICK F : /\ F[0] = Start
               /\ \A i \in 1 .. n : F[i] = SplitStep(F[i - 1], u[i])
               /\ Split(u) = Ended(F[n])
  BY <1>1, <1>2, SplitIs
<1>5. PICK T : /\ T[0] = rootHandler
               /\ \A i \in 1 .. n : T[i] = Follow(T[i - 1], u[i])
               /\ T[n] = Target(u)
  BY <1>1, <1>3, TargetIs
<1>6. ASSUME NEW i \in 1 .. n
      PROVE  u[i] # "/" => F[i - 1].open = ""
  <2>1. CASE i = 1
    <3>1. F[i - 1] = Start
      BY <1>4, <2>1
    <3> QED
      BY <3>1, SplitStarts
  <2>2. CASE i # 1
    <3>1. i - 1 \in 1 .. n - 1 /\ i - 1 \in 1 .. n
      BY <1>1, <2>2
    <3>2. u[i] # "/" => u[i - 1] = "/"
      BY <1>1, <3>1
    <3>3. F[i - 1] = SplitStep(F[i - 2], u[i - 1])
      BY <1>1, <1>4, <3>1
    <3>4. u[i] # "/" => F[i - 1] = SplitStep(F[i - 2], "/")
      BY <3>2, <3>3
    <3> QED
      BY <3>4, SlashEnds
  <2> QED
    BY <2>1, <2>2
<1> DEFINE Same(i) == T[i] = resolve(Reached(F[i].done), F[i].open)
           S == {i \in 0 .. n : F[i] \in N /\ T[i] \in Node /\ Same(i)}
<1>7. 0 \in S
  <2>1. F[0].done = <<>> /\ F[0].open = ""
    BY <1>4, SplitStarts
  <2>2. Reached(<<>>) = rootHandler
    <3>1. <<>> \in Seq({0}) /\ 0 \in {0}
      OBVIOUS
    <3> QED
      BY <3>1, WalkAppend
  <2> QED
    <3>1. resolve(Reached(F[0].done), F[0].open) = rootHandler
      BY <2>1, <2>2 DEF resolve
    <3> QED
      BY <1>1, <1>2, <1>4, <1>5, <3>1
<1>8. ASSUME NEW i \in 1 .. n, i - 1 \in S
      PROVE  i \in S
  <2>1. F[i - 1] \in N /\ T[i - 1] \in Node /\ Same(i - 1)
    BY <1>8
  <2>2. /\ F[i] = SplitStep(F[i - 1], u[i]) /\ u[i] \in C
        /\ T[i] = Follow(T[i - 1], u[i])
    BY <1>1, <1>4, <1>5
  <2>3. F[i] \in N /\ T[i] \in Node
    BY <1>2, <1>3, <2>1, <2>2
  <2>4. F[i - 1].done \in Seq(P) /\ F[i - 1].open \in P
    BY <2>1 DEF N
  <2>5. CASE u[i] = "/"
    <3>1. F[i].done = Append(F[i - 1].done, F[i - 1].open) /\ F[i].open = ""
      <4>1. F[i] = SplitStep(F[i - 1], "/")
        BY <2>2, <2>5
      <4> QED
        BY <4>1, SlashEnds
    <3>2. T[i] = T[i - 1]
      BY <2>2, <2>5 DEF Follow
    <3>3. Reached(F[i].done) = resolve(Reached(F[i - 1].done), F[i - 1].open)
      BY <2>4, <3>1, WalkAppend
    <3>4. Same(i)
      BY <2>1, <3>1, <3>2, <3>3 DEF resolve
    <3> QED
      BY <2>3, <3>4
  <2>6. CASE u[i] # "/"
    <3>1. F[i].done = F[i - 1].done /\ F[i].open = u[i]
      BY <2>1, <2>2, <2>6 DEF SplitStep, N
    <3>2. T[i] = resolve(T[i - 1], u[i])
      BY <2>2, <2>6 DEF Follow
    <3>3. T[i - 1] = Reached(F[i - 1].done)
      BY <1>6, <2>1, <2>6 DEF resolve
    <3>4. Same(i)
      BY <3>1, <3>2, <3>3
    <3> QED
      BY <2>3, <3>4
  <2> QED
    BY <2>5, <2>6
<1>9. F[n] \in N /\ T[n] \in Node /\ Same(n)
  <2>1. 0 .. n \subseteq S
    <3> HIDE DEF S
    <3> QED
      BY <1>1, <1>7, <1>8, UpTo
  <2> QED
    BY <1>1, <2>1
<1>10. Reached(Split(u)) = resolve(Reached(F[n].done), F[n].open)
  <2>1. F[n].done \in Seq(P) /\ F[n].open \in P
    BY <1>9 DEF N
  <2>2. CASE F[n].open = ""
    BY <1>4, <2>2 DEF Ended, resolve
  <2>3. CASE F[n].open # ""
    BY <1>4, <2>1, <2>3, WalkAppend DEF Ended
  <2> QED
    BY <2>2, <2>3
<1> QED
  BY <1>5, <1>9, <1>10

-----------------------------------------------------------------------------
(* The format of a request.                                                *)

PartKeys == {"Type", "URI", "Tag", "Auth", "Version", "Header", "Body"}

\* Each part has a place of its own.
LEMMA PlaceIs ==
    /\ DOMAIN Place = PartKeys
    /\ Place["Type"] = 1 /\ Place["URI"] = 2 /\ Place["Tag"] = 3 /\ Place["Auth"] = 4
    /\ Place["Version"] = 5 /\ Place["Header"] = 6 /\ Place["Body"] = 7
    /\ \A k \in PartKeys : Place[k] \in 1 .. 7
    /\ \A k, l \in PartKeys : Place[k] = Place[l] => k = l
<1>1. /\ DOMAIN Place = PartKeys
      /\ Place["Type"] = 1 /\ Place["URI"] = 2 /\ Place["Tag"] = 3 /\ Place["Auth"] = 4
      /\ Place["Version"] = 5 /\ Place["Header"] = 6 /\ Place["Body"] = 7
  BY DEF Place, PartKeys
<1> QED
  BY <1>1 DEF PartKeys

\* The first j parts of m are in order.
Ordered(m, j) ==
    /\ \A i \in 1 .. j : m[i].key \in PartKeys
    /\ \A h, i \in 1 .. j :
           h < i => \/ Place[m[h].key] < Place[m[i].key]
                    \/ m[h].key = "Header" /\ m[i].key = "Header"

\* The two parts a request begins with.
Begins(m) == Len(m) > 1 /\ m[1].key = "Type" /\ m[2].key = "URI"

\* The documented format, as an order of all parts behind the first two.
LEMMA FormatIs ==
    ASSUME NEW S, NEW m \in Seq(S)
    PROVE  WellFormed(m) <=> Begins(m) /\ Ordered(m, Len(m))
<1>1. DOMAIN m = 1 .. Len(m) /\ Len(m) \in Nat
  OBVIOUS
<1>2. WellFormed(m) => Ordered(m, Len(m))
  BY <1>1, PlaceIs DEF WellFormed, Ordered
<1>3. Begins(m) /\ Ordered(m, Len(m)) => WellFormed(m)
  <2> SUFFICES ASSUME Begins(m), Ordered(m, Len(m))
               PROVE  WellFormed(m)
    OBVIOUS
  <2>1. {"Type", "URI"} \subseteq {m[i].key : i \in DOMAIN m}
    <3>1. 1 \in DOMAIN m /\ 2 \in DOMAIN m /\ m[1].key = "Type" /\ m[2].key = "URI"
      BY <1>1 DEF Begins
    <3> QED
      BY <3>1
  <2> QED
    BY <1>1, <2>1, PlaceIs DEF WellFormed, Ordered
<1>4. ASSUME WellFormed(m)
      PROVE  Begins(m)
  <2>1. PICK t \in 1 .. Len(m) : m[t].key = "Type"
    BY <1>1, <1>4 DEF WellFormed
  <2>2. PICK u \in 1 .. Len(m) : m[u].key = "URI"
    BY <1>1, <1>4 DEF WellFormed
  <2>3. Ordered(m, Len(m))
    BY <1>2, <1>4
  <2>4. t = 1
    <3>1. 1 \in 1 .. Len(m) /\ (t # 1 => 1 < t)
      BY <1>1
    <3>2. m[1].key \in PartKeys /\ (t # 1 => Place[m[1].key] < 1)
      BY <2>1, <2>3, <3>1, PlaceIs DEF Ordered
    <3> QED
      BY <3>2, PlaceIs
  <2>5. u > 1 /\ 2 \in 1 .. Len(m)
    BY <1>1, <2>1, <2>2, <2>4
  <2>6. u = 2
    <3> SUFFICES ASSUME u # 2
                 PROVE  FALSE
      OBVIOUS
    <3>1. 1 < 2 /\ 2 < u
      BY <2>5
    <3>2. m[2].key \in PartKeys /\ Place[m[2].key] < 2
      BY <2>2, <2>3, <2>5, <3>1, PlaceIs DEF Ordered
    <3>3. 1 < Place[m[2].key]
      <4>1. 1 \in 1 .. Len(m) /\ m[1].key = "Type" /\ Place["Type"] = 1
        BY <2>1, <2>4, PlaceIs
      <4>2. Place[m[1].key] < Place[m[2].key] \/ m[1].key = "Header"
        BY <2>3, <2>5, <4>1 DEF Ordered
      <4> QED
        BY <4>1, <4>2
    <3> QED
      BY <3>2, <3>3, PlaceIs
  <2> QED
    BY <1>1, <2>1, <2>2, <2>4, <2>5, <2>6 DEF Begins
<1> QED
  BY <1>2, <1>3, <1>4

\* In a request of the format every part has a place, and a later one unless
\* both are headers.
LEMMA FormatKeys ==
    ASSUME NEW S, NEW m \in Seq(S), WellFormed(m), NEW i \in 1 .. Len(m)
    PROVE  m[i].key \in PartKeys /\ Place[m[i].key] \in 1 .. 7
<1>1. m[i].key \in PartKeys
  BY FormatIs DEF Ordered
<1> QED
  BY <1>1, PlaceIs

LEMMA InOrder ==
    ASSUME NEW S, NEW m \in Seq(S), WellFormed(m),
           NEW h \in 1 .. Len(m), NEW i \in 1 .. Len(m), h < i
    PROVE  \/ Place[m[h].key] < Place[m[i].key]
           \/ m[h].key = "Header" /\ m[i].key = "Header"
BY FormatIs DEF Ordered

LEMMA LaterPlace ==
    ASSUME NEW S, NEW m \in Seq(S), WellFormed(m),
           NEW h \in 1 .. Len(m), NEW i \in 1 .. Len(m), h < i, m[i].key # "Header"
    PROVE  Place[m[h].key] < Place[m[i].key]
BY InOrder

\* InputToRequest has read j parts of m and has gone through K places.
ReadTo(r, m, K, j) ==
    /\ r.rest = SubSeq(m, j + 1, Len(m))
    /\ Ordered(m, j)
    /\ \A i \in 1 .. j : Place[m[i].key] <= K
    /\ WellFormed(m) => \A i \in j + 1 .. Len(m) : K < Place[m[i].key]

\* It has stored the first two, and no body yet.
Stores(r, m) ==
    /\ "Body" \notin DOMAIN r.got
    /\ {"Type", "URI"} \subseteq DOMAIN r.got
    /\ r.got["Type"] = m[1].val /\ r.got["URI"] = m[2].val

\* It has gone through K places: it has not refused a request of the format,
\* and what it has not refused has been in order so far.
Passed(r, m, K) ==
    /\ IsReading(r)
    /\ WellFormed(m) => ~r.bad
    /\ ~r.bad => Begins(m) /\ Stores(r, m) /\ \E j \in 0 .. Len(m) : ReadTo(r, m, K, j)

\* One more part in its place, or any number of headers.
LEMMA OrderedMore ==
    ASSUME NEW m, NEW j \in Nat, NEW n \in Nat, NEW K \in Nat, NEW k \in PartKeys,
           Ordered(m, j), \A i \in 1 .. j : Place[m[i].key] <= K,
           \A i \in j + 1 .. j + n : m[i].key = k,
           K < Place[k], n <= 1 \/ k = "Header"
    PROVE  Ordered(m, j + n) /\ \A i \in 1 .. j + n : Place[m[i].key] <= Place[k]
<1>1. \A i \in 1 .. j + n : i \in j + 1 .. j + n \/ i \in 1 .. j
  OBVIOUS
<1>2. \A i \in 1 .. j + n : m[i].key \in PartKeys
  BY <1>1 DEF Ordered
<1>3. \A i \in 1 .. j + n : Place[m[i].key] <= Place[k]
  BY <1>1, <1>2, PlaceIs
<1>4. ASSUME NEW h \in 1 .. j + n, NEW i \in 1 .. j + n, h < i
      PROVE  \/ Place[m[h].key] < Place[m[i].key]
             \/ m[h].key = "Header" /\ m[i].key = "Header"
  <2>1. CASE i \in 1 .. j
    BY <1>4, <2>1 DEF Ordered
  <2>2. CASE i \in j + 1 .. j + n /\ h \in 1 .. j
    <3>1. Place[m[h].key] <= K /\ Place[m[h].key] \in 1 .. 7
      BY <1>2, <2>2, PlaceIs
    <3> QED
      BY <2>2, <3>1, PlaceIs
  <2>3. CASE i \in j + 1 .. j + n /\ h \in j + 1 .. j + n
    BY <1>4, <2>3
  <2> QED
    BY <1>1, <2>1, <2>2, <2>3
<1> QED
  BY <1>2, <1>3, <1>4 DEF Ordered

\* What is stored under another key stays.
LEMMA OthersKept ==
    ASSUME NEW r, IsReading(r), NEW k, NEW l, k # l
    PROVE  /\ l \in DOMAIN Optional(r, k).got <=> l \in DOMAIN r.got
           /\ l \in DOMAIN r.got => Optional(r, k).got[l] = r.got[l]
<1> DEFINE q == Optional(r, k)
<1>1. CASE Takes(r, k)
  <2>1. q.got = Noted(r.got, k, Head(r.rest).val)
    BY <1>1, OptionalIs
  <2> HIDE DEF q
  <2>2. /\ l \in DOMAIN q.got <=> l \in DOMAIN r.got
        /\ l \in DOMAIN r.got => q.got[l] = r.got[l]
    BY <2>1 DEF Noted
  <2> QED
    BY <2>2 DEF q
<1>2. CASE ~Takes(r, k)
  BY <1>2, OptionalIs
<1> QED
  BY <1>1, <1>2

\* The type and the URI stay.
LEMMA StoresKept ==
    ASSUME NEW r, IsReading(r), NEW m, Stores(r, m), NEW k, k \notin {"Type", "URI", "Body"}
    PROVE  Stores(Optional(r, k), m)
<1>1. \A l \in {"Type", "URI", "Body"} :
          /\ l \in DOMAIN Optional(r, k).got <=> l \in DOMAIN r.got
          /\ l \in DOMAIN r.got => Optional(r, k).got[l] = r.got[l]
  BY OthersKept
<1> QED
  BY <1>1 DEF Stores

\* An optional part is taken when it is there.
LEMMA OptionalPassed ==
    ASSUME NEW S, NEW m \in Seq(S), NEW K \in Nat, NEW r, Passed(r, m, K),
           NEW k \in PartKeys, Place[k] = K + 1, k \notin {"Type", "URI", "Header", "Body"}
    PROVE  Passed(Optional(r, k), m, K + 1)
<1> DEFINE q == Optional(r, k)
           L == Len(m)
<1>1. IsReading(r) /\ IsReading(q) /\ q.bad = r.bad /\ L \in Nat
  BY OptionalIs DEF Passed
<1>2. ASSUME ~r.bad
      PROVE  Begins(m) /\ Stores(q, m) /\ \E j \in 0 .. L : ReadTo(q, m, K + 1, j)
  <2>1. PICK j \in 0 .. L : ReadTo(r, m, K, j)
    BY <1>2 DEF Passed
  <2>2. Begins(m) /\ Stores(q, m)
    BY <1>1, <1>2, StoresKept DEF Passed
  <2>3. /\ r.rest = SubSeq(m, j + 1, L) /\ Ordered(m, j)
        /\ \A i \in 1 .. j : Place[m[i].key] <= K
        /\ WellFormed(m) => \A i \in j + 1 .. L : K < Place[m[i].key]
    BY <2>1 DEF ReadTo
  <2>4. CASE Takes(r, k)
    <3>1. q.rest = Tail(r.rest) /\ r.rest # <<>> /\ Head(r.rest).key = k
      BY <1>1, <2>4, OptionalIs DEF Takes
    <3>2. /\ j < L /\ Head(r.rest) = m[j + 1]
          /\ Tail(r.rest) = SubSeq(m, j + 2, L)
      BY <2>3, <3>1, SuffixFacts
    <3> HIDE DEF q
    <3>3. j + 1 \in 0 .. L /\ q.rest = SubSeq(m, (j + 1) + 1, L)
      BY <1>1, <3>1, <3>2
    <3>4. Ordered(m, j + 1) /\ \A i \in 1 .. j + 1 : Place[m[i].key] <= K + 1
      <4> DEFINE n == 1
      <4>1. \A i \in j + 1 .. j + n : m[i].key = k
        BY <3>1, <3>2
      <4>2. j \in Nat /\ n \in Nat /\ n <= 1 /\ K < Place[k]
        OBVIOUS
      <4> HIDE DEF n
      <4>3. Ordered(m, j + n) /\ \A i \in 1 .. j + n : Place[m[i].key] <= Place[k]
        BY <2>3, <4>1, <4>2, OrderedMore
      <4> QED
        BY <4>3 DEF n
    <3>5. WellFormed(m) => \A i \in (j + 1) + 1 .. L : K + 1 < Place[m[i].key]
      <4> SUFFICES ASSUME WellFormed(m), NEW i \in (j + 1) + 1 .. L
                   PROVE  K + 1 < Place[m[i].key]
        OBVIOUS
      <4>1. j + 1 \in 1 .. L /\ i \in 1 .. L /\ j + 1 < i /\ m[j + 1].key = k
        BY <1>1, <3>1, <3>2
      <4>2. \/ Place[m[j + 1].key] < Place[m[i].key]
            \/ m[j + 1].key = "Header"
        BY <4>1, FormatIs DEF Ordered
      <4> QED
        BY <4>1, <4>2
    <3> QED
      BY <2>2, <3>3, <3>4, <3>5 DEF ReadTo
  <2>5. CASE ~Takes(r, k)
    <3>1. q.rest = r.rest
      BY <1>1, <2>5, OptionalIs
    <3> HIDE DEF q
    <3>2. ASSUME NEW i \in 1 .. j
          PROVE  Place[m[i].key] <= K + 1
      <4>1. m[i].key \in PartKeys /\ Place[m[i].key] <= K
        BY <2>3 DEF Ordered
      <4>2. Place[m[i].key] \in 1 .. 7
        BY <4>1, PlaceIs
      <4> QED
        BY <4>1, <4>2
    <3>3. WellFormed(m) => \A i \in j + 1 .. L : K + 1 < Place[m[i].key]
      <4> SUFFICES ASSUME WellFormed(m), NEW i \in j + 1 .. L
                   PROVE  K + 1 < Place[m[i].key]
        OBVIOUS
      <4>1. /\ i \in 1 .. L /\ m[i].key \in PartKeys /\ Place[m[i].key] \in 1 .. 7
            /\ K < Place[m[i].key]
        <5>1. i \in 1 .. L
          BY <1>1
        <5> QED
          BY <2>3, <5>1, FormatKeys
      <4>2. r.rest # <<>> /\ Head(r.rest) = m[j + 1] /\ m[j + 1].key # k
        BY <1>1, <1>2, <2>3, <2>5, SuffixFacts DEF Takes
      <4>3. m[i].key # k
        <5> SUFFICES ASSUME m[i].key = k
                     PROVE  FALSE
          OBVIOUS
        <5>1. j + 1 \in 1 .. L /\ j + 1 < i
          BY <1>1, <4>2
        <5>2. Place[m[j + 1].key] < K + 1 /\ Place[m[j + 1].key] \in 1 .. 7
          BY <4>1, <5>1, LaterPlace, FormatKeys
        <5>3. K < Place[m[j + 1].key]
          BY <2>3, <5>1
        <5> QED
          BY <5>2, <5>3
      <4> QED
        BY <4>1, <4>3, PlaceIs
    <3> QED
      BY <2>2, <2>3, <3>1, <3>2, <3>3 DEF ReadTo
  <2> QED
    BY <2>4, <2>5
<1> HIDE DEF q
<1> QED
  BY <1>1, <1>2 DEF Passed, q

\* What follows the first j parts.
LEMMA SuffixIs ==
    ASSUME NEW S, NEW m \in Seq(S), NEW j \in 0 .. Len(m)
    PROVE  /\ SubSeq(m, j + 1, Len(m)) \in Seq(S)
           /\ Len(SubSeq(m, j + 1, Len(m))) = Len(m) - j
           /\ \A i \in 1 .. Len(m) - j : SubSeq(m, j + 1, Len(m))[i] = m[j + i]
<1>1. Len(m) \in Nat /\ j \in Nat /\ j <= Len(m)
  OBVIOUS
<1> QED
  BY <1>1

\* Headers are skipped up to the first part that is none.
LEMMA HeadersSkip ==
    ASSUME NEW S, NEW r, IsReading(r), r.rest \in Seq(S)
    PROVE  \E n \in 0 .. Len(r.rest) :
               /\ Headers(r).rest = SubSeq(r.rest, n + 1, Len(r.rest))
               /\ \A i \in 1 .. n : r.rest[i].key = "Header"
               /\ n < Len(r.rest) => r.rest[n + 1].key # "Header"
<1> DEFINE s == r.rest
           ends == {i \in DOMAIN s : s[i].key # "Header"}
           n == IF ends = {} THEN Len(s) ELSE Min(ends) - 1
           h == Headers(r)
<1>1. h = [r EXCEPT !.rest = SubSeq(@, n + 1, Len(@))]
  BY DEF Headers
<1>2. Len(s) \in Nat /\ DOMAIN s = 1 .. Len(s) /\ ends \subseteq 1 .. Len(s) /\ ends \subseteq Nat
  OBVIOUS
<1>3. /\ n \in 0 .. Len(s)
      /\ \A i \in 1 .. n : s[i].key = "Header"
      /\ n < Len(s) => s[n + 1].key # "Header"
  <2>1. CASE ends = {}
    BY <1>2, <2>1
  <2>2. CASE ends # {}
    <3> DEFINE M == Min(ends)
    <3>1. M \in ends /\ \A i \in ends : M <= i
      BY <1>2, <2>2, MinIsLeast
    <3>2. n = M - 1
      BY <2>2
    <3>3. M \in 1 .. Len(s) /\ s[M].key # "Header"
      BY <1>2, <3>1
    <3> HIDE DEF n, M
    <3>4. ASSUME NEW i \in 1 .. n
          PROVE  s[i].key = "Header"
      <4>1. i < M /\ i \in DOMAIN s
        BY <1>2, <3>2, <3>3
      <4>2. i \notin ends
        <5> HIDE DEF ends
        <5> QED
          BY <1>2, <3>1, <3>3, <4>1
      <4> QED
        BY <4>1, <4>2
    <3>5. n + 1 = M /\ n \in 0 .. Len(s)
      BY <1>2, <3>2, <3>3
    <3> HIDE DEF ends
    <3> QED
      BY <3>3, <3>4, <3>5
  <2> QED
    BY <2>1, <2>2
<1> HIDE DEF n
<1> DEFINE t == SubSeq(s, n + 1, Len(s))
<1>4. h.rest = t
  <2>1. h = [rest |-> t, got |-> r.got, past |-> r.past, bad |-> r.bad]
    BY <1>1 DEF IsReading
  <2> HIDE DEF h, t
  <2> QED
    BY <2>1
<1> QED
  BY <1>3, <1>4

\* The place of the headers.
LEMMA HeadersPassed ==
    ASSUME NEW S, NEW m \in Seq(S), NEW r, Passed(r, m, 5)
    PROVE  Passed(Headers(r), m, 6)
<1> DEFINE q == Headers(r)
           L == Len(m)
           K == 5
<1>1. /\ IsReading(r) /\ IsReading(q) /\ q.bad = r.bad /\ q.got = r.got
      /\ L \in Nat /\ K \in Nat /\ K < Place["Header"] /\ Place["Header"] = 6
  BY HeadersAre, PlaceIs DEF Passed
<1>2. ASSUME ~r.bad
      PROVE  Begins(m) /\ Stores(q, m) /\ \E j \in 0 .. L : ReadTo(q, m, 6, j)
  <2>1. PICK j \in 0 .. L : ReadTo(r, m, K, j)
    BY <1>2 DEF Passed
  <2>2. Begins(m) /\ Stores(q, m)
    BY <1>1, <1>2 DEF Passed, Stores
  <2> DEFINE s == SubSeq(m, j + 1, L)
  <2>3. /\ r.rest = s /\ Ordered(m, j) /\ j \in Nat
        /\ \A i \in 1 .. j : Place[m[i].key] <= K
        /\ WellFormed(m) => \A i \in j + 1 .. L : K < Place[m[i].key]
    BY <2>1 DEF ReadTo
  <2>4. s \in Seq(S) /\ Len(s) = L - j /\ \A i \in 1 .. L - j : s[i] = m[j + i]
    BY <1>1
  <2> HIDE DEF s, q, K
  <2>5. PICK n \in 0 .. L - j :
            /\ q.rest = SubSeq(s, n + 1, L - j)
            /\ \A i \in 1 .. n : s[i].key = "Header"
            /\ n < L - j => s[n + 1].key # "Header"
    <3>1. r.rest \in Seq(S) /\ Len(r.rest) = L - j
      BY <2>3, <2>4
    <3> QED
      BY <1>1, <2>3, <3>1, HeadersSkip DEF q
  <2>6. j + n \in 0 .. L /\ n \in Nat
    BY <1>1, <2>3, <2>5
  <2>7. q.rest = SubSeq(m, (j + n) + 1, L)
    <3> DEFINE a == SubSeq(s, n + 1, L - j)
               b == SubSeq(m, (j + n) + 1, L)
               d == L - j - n
    <3>1. d \in Nat
      BY <1>1, <2>3, <2>5
    <3>2. a \in Seq(S) /\ Len(a) = d /\ \A i \in 1 .. d : a[i] = s[n + i]
      <4>1. L - j \in Nat /\ L - j - n = d /\ n \in 0 .. L - j
        BY <1>1, <2>3, <2>5, <3>1
      <4> DEFINE e == L - j
      <4> HIDE DEF d, e
      <4> SUFFICES /\ SubSeq(s, n + 1, e) \in Seq(S) /\ Len(SubSeq(s, n + 1, e)) = e - n
                   /\ \A i \in 1 .. e - n : SubSeq(s, n + 1, e)[i] = s[n + i]
        BY <4>1 DEF e
      <4>2. Len(s) = e /\ e \in Nat /\ n \in 0 .. e
        BY <2>4, <4>1 DEF e
      <4> QED
        BY <2>4, <4>2, SuffixIs
    <3>3. b \in Seq(S) /\ Len(b) = d /\ \A i \in 1 .. d : b[i] = m[j + n + i]
      BY <1>1, <2>6, <3>1
    <3>4. \A i \in 1 .. d : s[n + i] = m[j + n + i]
      <4> TAKE i \in 1 .. d
      <4>1. n + i \in 1 .. L - j /\ j + (n + i) = j + n + i
        BY <1>1, <2>3, <2>5, <2>6, <3>1
      <4> QED
        BY <2>4, <4>1
    <3> HIDE DEF a, b, d
    <3>5. a = b
      <4>1. \A i \in 1 .. d : a[i] = b[i]
        BY <3>2, <3>3, <3>4
      <4> QED
        BY <3>1, <3>2, <3>3, <4>1, SameSequence
    <3> QED
      BY <2>5, <3>5 DEF a, b
  <2>8. Ordered(m, j + n) /\ \A i \in 1 .. j + n : Place[m[i].key] <= 6
    <3> DEFINE k == "Header"
    <3>1. ASSUME NEW i \in j + 1 .. j + n
          PROVE  m[i].key = k
      <4>1. i - j \in 1 .. n /\ i - j \in 1 .. L - j /\ j + (i - j) = i
        BY <1>1, <2>3, <2>5, <2>6
      <4> QED
        BY <2>4, <2>5, <4>1
    <3>2. k \in PartKeys /\ K < Place[k] /\ Place[k] = 6 /\ (n <= 1 \/ k = "Header") /\ K \in Nat
      BY <1>1, PlaceIs DEF PartKeys
    <3> HIDE DEF k
    <3>3. Ordered(m, j + n) /\ \A i \in 1 .. j + n : Place[m[i].key] <= Place[k]
      BY <2>3, <2>6, <3>1, <3>2, OrderedMore
    <3> QED
      BY <3>2, <3>3
  <2>9. WellFormed(m) => \A i \in (j + n) + 1 .. L : 6 < Place[m[i].key]
    <3> SUFFICES ASSUME WellFormed(m), NEW i \in (j + n) + 1 .. L
                 PROVE  6 < Place[m[i].key]
      OBVIOUS
    <3>1. i \in 1 .. L /\ i \in j + 1 .. L /\ n < L - j /\ n + 1 \in 1 .. L - j
      BY <1>1, <2>3, <2>5, <2>6
    <3>2. /\ j + (n + 1) = (j + n) + 1 /\ j + (n + 1) \in j + 1 .. L
          /\ j + (n + 1) \in 1 .. L
      BY <1>1, <2>3, <2>6, <3>1
    <3>3. m[j + (n + 1)].key # "Header"
      BY <2>4, <2>5, <3>1
    <3> DEFINE h == j + (n + 1)
    <3>4. /\ m[i].key \in PartKeys /\ Place[m[i].key] \in 1 .. 7 /\ 5 < Place[m[i].key]
          /\ m[h].key \in PartKeys /\ Place[m[h].key] \in 1 .. 7 /\ 5 < Place[m[h].key]
          /\ h \in 1 .. Len(m) /\ m[h].key # "Header"
      <4> HIDE DEF h
      <4>1. h \in j + 1 .. L /\ h \in 1 .. L /\ m[h].key # "Header"
        BY <3>2, <3>3 DEF h
      <4>2. K < Place[m[i].key] /\ K < Place[m[h].key]
        BY <2>3, <3>1, <4>1
      <4> QED
        BY <3>1, <4>1, <4>2, FormatKeys DEF K
    <3>5. m[i].key # "Header"
      <4> SUFFICES ASSUME m[i].key = "Header"
                   PROVE  FALSE
        OBVIOUS
      <4>1. h < i
        BY <1>1, <2>3, <2>6, <3>4
      <4> HIDE DEF h
      <4>2. Place[m[h].key] < Place[m[i].key]
        BY <3>1, <3>4, <4>1, InOrder
      <4> QED
        BY <1>1, <3>4, <4>2
    <3>6. Place[m[i].key] # 6
      BY <1>1, <3>4, <3>5, PlaceIs DEF PartKeys
    <3> QED
      BY <3>4, <3>6
  <2> QED
    BY <2>2, <2>6, <2>7, <2>8, <2>9 DEF ReadTo
<1> HIDE DEF q
<1> QED
  BY <1>1, <1>2 DEF Passed, q

\* What is left is nothing or one body, and then the request is well formed.
LEMMA BodyDecides ==
    ASSUME NEW S, NEW m \in Seq(S), NEW r, Passed(r, m, 6)
    PROVE  /\ Body(r).bad <=> ~WellFormed(m)
           /\ ~Body(r).bad => Begins(m) /\ Body(r).got["Type"] = m[1].val
                              /\ Body(r).got["URI"] = m[2].val
<1> DEFINE L == Len(m)
           q == Required(r, "Body")
<1>0. IsReading(r) /\ L \in Nat
  BY DEF Passed
<1>1. CASE r.bad
  BY <1>1 DEF Body, Passed
<1>2. CASE ~r.bad
  <2>1. PICK j \in 0 .. L : ReadTo(r, m, 6, j)
    BY <1>2 DEF Passed
  <2>2. Begins(m) /\ Stores(r, m)
    BY <1>2 DEF Passed
  <2> DEFINE s == SubSeq(m, j + 1, L)
  <2>3. /\ r.rest = s /\ Ordered(m, j) /\ j \in Nat /\ j <= L
        /\ \A i \in 1 .. j : Place[m[i].key] <= 6
        /\ WellFormed(m) => \A i \in j + 1 .. L : 6 < Place[m[i].key]
    BY <1>0, <2>1 DEF ReadTo
  <2>4. s \in Seq(S) /\ Len(s) = L - j
    BY <1>0, SuffixFacts
  <2>5. WellFormed(m) => \A i \in j + 1 .. L : m[i].key = "Body"
    <3> SUFFICES ASSUME WellFormed(m), NEW i \in j + 1 .. L
                 PROVE  m[i].key = "Body"
      OBVIOUS
    <3>1. i \in 1 .. L /\ m[i].key \in PartKeys /\ 6 < Place[m[i].key]
      BY <1>0, <2>3, FormatIs DEF Ordered
    <3>2. Place[m[i].key] = 7
      BY <3>1, PlaceIs
    <3> QED
      BY <3>1, <3>2, PlaceIs DEF PartKeys
  <2>6. CASE r.rest = <<>>
    <3>1. Body(r) = r
      BY <2>6 DEF Body
    <3>2. j = L
      BY <1>0, <2>3, <2>6, SuffixFacts
    <3>3. WellFormed(m)
      BY <2>2, <2>3, <3>2, FormatIs
    <3> QED
      BY <1>2, <2>2, <3>1, <3>3 DEF Stores
  <2>7. CASE r.rest # <<>> /\ Len(r.rest) > 1
    <3>1. Body(r) = [r EXCEPT !.bad = TRUE]
      BY <1>2, <2>7 DEF Body
    <3>2. Body(r).bad = TRUE
      BY <1>0, <3>1 DEF IsReading
    <3>3. ASSUME WellFormed(m)
          PROVE  FALSE
      <4>1. /\ j + 1 \in 1 .. L /\ j + 2 \in 1 .. L /\ j + 1 < j + 2
            /\ j + 1 \in j + 1 .. L /\ j + 2 \in j + 1 .. L
        BY <1>0, <2>3, <2>4, <2>7
      <4>2. m[j + 1].key = "Body" /\ m[j + 2].key = "Body"
        BY <2>5, <3>3, <4>1
      <4>3. Place[m[j + 1].key] < Place[m[j + 2].key]
        BY <3>3, <4>1, <4>2, LaterPlace
      <4> QED
        BY <4>2, <4>3, PlaceIs
    <3> QED
      BY <3>2, <3>3
  <2>8. CASE r.rest # <<>> /\ ~(Len(r.rest) > 1)
    <3>1. Body(r) = q
      BY <1>2, <2>8 DEF Body
    <3>2. j + 1 = L /\ Head(r.rest) = m[j + 1]
      BY <1>0, <2>3, <2>4, <2>8, SuffixFacts
    <3>3. q.bad = ~Takes(r, "Body")
      BY <1>0, <1>2, <2>2, RequiredTakes DEF Stores
    <3>4. q.got["Type"] = m[1].val /\ q.got["URI"] = m[2].val
      <4>1. q.got = Optional(r, "Body").got
        BY <1>0, RequiredIs
      <4> QED
        BY <1>0, <2>2, <4>1, OthersKept DEF Stores
    <3>5. Takes(r, "Body") <=> m[L].key = "Body"
      BY <1>2, <2>8, <3>2 DEF Takes
    <3>6. WellFormed(m) => m[L].key = "Body"
      BY <1>0, <2>5, <3>2
    <3>7. m[L].key = "Body" => WellFormed(m)
      <4> SUFFICES ASSUME m[L].key = "Body"
                   PROVE  Ordered(m, L)
        BY <2>2, FormatIs
      <4> DEFINE n == 1
                 K == 6
                 k == "Body"
      <4>1. /\ j \in Nat /\ n \in Nat /\ n <= 1 /\ K \in Nat /\ k \in PartKeys
            /\ K < Place[k] /\ \A i \in 1 .. j : Place[m[i].key] <= K
        BY <2>3, PlaceIs DEF PartKeys
      <4>2. \A i \in j + 1 .. j + n : m[i].key = k
        BY <1>0, <2>3, <3>2
      <4>3. j + n = L
        BY <3>2
      <4> HIDE DEF n, K, k
      <4>4. Ordered(m, j + n)
        BY <2>3, <4>1, <4>2, OrderedMore
      <4> QED
        BY <4>3, <4>4
    <3> HIDE DEF q
    <3> QED
      BY <2>2, <3>1, <3>3, <3>4, <3>5, <3>6, <3>7
  <2> QED
    BY <2>6, <2>7, <2>8
<1> QED
  BY <1>1, <1>2

\* A sequence without its first element.
LEMMA TailIs ==
    ASSUME NEW S, NEW m \in Seq(S), m # <<>>
    PROVE  /\ Len(m) \in Nat /\ Len(m) > 0 /\ Head(m) = m[1]
           /\ Tail(m) \in Seq(S) /\ Len(Tail(m)) = Len(m) - 1
           /\ \A i \in 1 .. Len(m) - 1 : Tail(m)[i] = m[i + 1]
<1>1. Len(m) \in Nat /\ Len(m) > 0
  OBVIOUS
<1> QED
  BY <1>1

\* The two parts every request begins with.
LEMMA BegunPassed ==
    ASSUME NEW S, NEW m \in Seq(S),
           NEW r0, r0 = [rest |-> m, got |-> <<>>, past |-> FALSE, bad |-> FALSE]
    PROVE  Passed(Required(Required(r0, "Type"), "URI"), m, 2)
<1> DEFINE r1 == Required(r0, "Type")
           r2 == Required(r1, "URI")
           L == Len(m)
<1>1. /\ IsReading(r0) /\ r0.rest = m /\ r0.bad = FALSE /\ DOMAIN r0.got = {}
      /\ L \in Nat
  BY DEF IsReading
<1>2. /\ IsReading(r1) /\ r1.bad = ~Takes(r0, "Type")
      /\ ~r1.bad => r1.rest = Tail(m) /\ r1.got = Noted(r0.got, "Type", m[1].val)
  <2>1. "Type" \notin DOMAIN r0.got /\ ~r0.bad
    BY <1>1
  <2>2. Takes(r0, "Type") => Head(r0.rest) = m[1]
    BY <1>1 DEF Takes
  <2> QED
    BY <1>1, <2>1, <2>2, RequiredTakes
<1>3. r1.bad => r2.bad /\ IsReading(r2)
  BY <1>2, BadTakesNothing
<1>4. r1.bad => ~Begins(m)
  <2>1. L > 1 => m # <<>> /\ Head(m) = m[1]
    BY <1>1
  <2> QED
    BY <1>1, <1>2, <2>1 DEF Takes, Begins
<1> HIDE DEF r1
<1>5. ASSUME ~r1.bad
      PROVE  /\ IsReading(r2) /\ r2.bad = ~Takes(r1, "URI")
             /\ Takes(r1, "URI") <=> Begins(m)
             /\ ~r2.bad => /\ r2.rest = Tail(Tail(m))
                           /\ r2.got = Noted(r1.got, "URI", m[2].val)
  <2>1. /\ r1.got = Noted(r0.got, "Type", m[1].val) /\ r1.rest = Tail(m)
        /\ m # <<>> /\ Head(m).key = "Type"
    BY <1>1, <1>2, <1>5 DEF Takes
  <2>2. "URI" \notin DOMAIN r1.got
    BY <1>1, <2>1 DEF Noted
  <2>3. /\ Tail(m) \in Seq(S) /\ Len(Tail(m)) = L - 1 /\ Head(m) = m[1]
        /\ Tail(m) # <<>> => L > 1 /\ Head(Tail(m)) = m[2]
        /\ L > 1 => Tail(m) # <<>>
    <3> DEFINE t == Tail(m)
    <3>1. /\ t \in Seq(S) /\ Len(t) = L - 1 /\ Head(m) = m[1]
          /\ \A i \in 1 .. L - 1 : t[i] = m[i + 1]
      BY <2>1, TailIs
    <3> HIDE DEF t
    <3>2. t # <<>> => Len(t) > 0 /\ Head(t) = t[1] /\ 1 \in 1 .. L - 1
      BY <1>1, <3>1
    <3>3. t = <<>> => ~(L > 1)
      <4>1. Len(<<>>) = 0
        OBVIOUS
      <4>2. t = <<>> => Len(t) = 0
        BY <4>1, Zenon
      <4>3. L > 1 => ~(Len(t) = 0)
        BY <1>1, <3>1
      <4> QED
        BY <4>2, <4>3, Zenon
    <3>4. t # <<>> => L > 1 /\ t[1] = m[2]
      BY <1>1, <3>1, <3>2
    <3> QED
      BY <3>1, <3>2, <3>3, <3>4 DEF t
  <2>4. Takes(r1, "URI") <=> Begins(m)
    BY <1>5, <2>1, <2>3 DEF Takes, Begins
  <2>5. /\ IsReading(r2) /\ r2.bad = ~Takes(r1, "URI")
        /\ r2.got = IF Takes(r1, "URI") THEN Noted(r1.got, "URI", Head(r1.rest).val)
                    ELSE r1.got
        /\ Takes(r1, "URI") => r2.rest = Tail(r1.rest)
    BY <1>2, <1>5, <2>2, RequiredTakes
  <2>6. Takes(r1, "URI") => Head(r1.rest) = m[2]
    BY <2>1, <2>3 DEF Takes
  <2> HIDE DEF r2
  <2> QED
    BY <2>1, <2>4, <2>5, <2>6
<1> HIDE DEF r2
<1>6. IsReading(r2) /\ (r2.bad <=> ~Begins(m))
  BY <1>3, <1>4, <1>5
<1>7. WellFormed(m) => ~r2.bad
  BY <1>6, FormatIs
<1>8. ASSUME ~r2.bad
      PROVE  Stores(r2, m) /\ ReadTo(r2, m, 2, 2) /\ L > 1
  <2>1. /\ ~r1.bad /\ Begins(m)
        /\ r1.got = Noted(r0.got, "Type", m[1].val)
        /\ r2.got = Noted(r1.got, "URI", m[2].val)
        /\ r2.rest = Tail(Tail(m))
    BY <1>2, <1>3, <1>5, <1>6, <1>8
  <2>2. Stores(r2, m)
    <3>1. DOMAIN r1.got = {"Type"} /\ r1.got["Type"] = m[1].val
      BY <1>1, <2>1 DEF Noted
    <3>2. DOMAIN r2.got = {"Type", "URI"} /\ r2.got["URI"] = m[2].val
          /\ r2.got["Type"] = r1.got["Type"]
      BY <2>1, <3>1 DEF Noted
    <3> QED
      BY <3>1, <3>2 DEF Stores
  <2>3. L > 1 /\ m[1].key = "Type" /\ m[2].key = "URI"
    BY <2>1 DEF Begins
  <2>4. r2.rest = SubSeq(m, 2 + 1, L)
    <3>2. Tail(Tail(m)) \in Seq(S) /\ Len(Tail(Tail(m))) = L - 2
          /\ \A i \in 1 .. L - 2 : Tail(Tail(m))[i] = m[2 + i]
      <4> DEFINE t == Tail(m)
      <4>1. m # <<>>
        BY <2>3
      <4>2. /\ t \in Seq(S) /\ Len(t) = L - 1
            /\ \A i \in 1 .. L - 1 : t[i] = m[i + 1]
        BY <4>1, TailIs
      <4> HIDE DEF t
      <4>3. t # <<>>
        BY <2>3, <4>2
      <4>4. /\ Tail(t) \in Seq(S) /\ Len(Tail(t)) = Len(t) - 1
            /\ \A i \in 1 .. Len(t) - 1 : Tail(t)[i] = t[i + 1]
        BY <4>2, <4>3, TailIs
      <4>5. Len(Tail(t)) = L - 2 /\ Len(t) - 1 = L - 2
        BY <1>1, <4>2, <4>4
      <4>6. ASSUME NEW i \in 1 .. L - 2
            PROVE  Tail(t)[i] = m[2 + i]
        <5>1. i \in 1 .. Len(t) - 1 /\ i + 1 \in 1 .. L - 1 /\ (i + 1) + 1 = 2 + i
          BY <1>1, <4>5
        <5> QED
          BY <4>2, <4>4, <5>1
      <4> QED
        BY <4>4, <4>5, <4>6 DEF t
    <3>3. 2 \in 0 .. L /\ L - 2 \in Nat
      BY <1>1, <2>3
    <3>4. /\ SubSeq(m, 2 + 1, L) \in Seq(S) /\ Len(SubSeq(m, 2 + 1, L)) = L - 2
          /\ \A i \in 1 .. L - 2 : SubSeq(m, 2 + 1, L)[i] = m[2 + i]
      BY <3>3, SuffixIs
    <3> QED
      BY <2>1, <3>2, <3>3, <3>4, SameSequence
  <2>5. \A i \in 1 .. 2 : i = 1 \/ i = 2
    OBVIOUS
  <2>6. Ordered(m, 2) /\ \A i \in 1 .. 2 : Place[m[i].key] <= 2
    BY <2>3, <2>5, PlaceIs DEF Ordered, PartKeys
  <2>7. WellFormed(m) => \A i \in 2 + 1 .. L : 2 < Place[m[i].key]
    <3> SUFFICES ASSUME WellFormed(m), NEW i \in 2 + 1 .. L
                 PROVE  2 < Place[m[i].key]
      OBVIOUS
    <3>1. 2 \in 1 .. L /\ i \in 1 .. L /\ 2 < i
      BY <1>1, <2>3
    <3>2. \/ Place[m[2].key] < Place[m[i].key]
          \/ m[2].key = "Header"
      BY <3>1, FormatIs DEF Ordered
    <3> QED
      BY <2>3, <3>2, PlaceIs
  <2> QED
    BY <2>2, <2>3, <2>4, <2>6, <2>7 DEF ReadTo
<1>9. ~r2.bad => 2 \in 0 .. L
  BY <1>1, <1>8
<1>10. Passed(r2, m, 2)
  BY <1>6, <1>7, <1>8, <1>9 DEF Passed
<1> QED
  BY <1>10 DEF r2, r1

\* What the documented format calls a request.
Known(m) == WellFormed(m) /\ m[1].val \in Methods

\* InputToRequest accepts just the documented format.
LEMMA FormatRead ==
    ASSUME NEW S, NEW m \in Seq(S)
    PROVE  /\ ~Known(m) => InputToRequest(m).method = "NULL"
           /\ Known(m) => /\ InputToRequest(m).method = m[1].val
                          /\ InputToRequest(m).URIParts = Split(m[2].val)
<1> DEFINE r0 == [rest |-> m, got |-> <<>>, past |-> FALSE, bad |-> FALSE]
           r2 == Required(Required(r0, "Type"), "URI")
           r3 == Optional(r2, "Tag")
           r4 == Optional(r3, "Auth")
           r5 == Optional(r4, "Version")
           r == Body(Headers(r5))
           known == ~r.bad /\ r.got["Type"] \in Methods
           q == InputToRequest(m)
<1>1. q = [method |-> IF known THEN r.got["Type"] ELSE "NULL",
           tag |-> Get(r, "Tag", ""),
           URIParts |-> IF known THEN Split(r.got["URI"]) ELSE <<>>,
           past |-> r.past]
  BY DEF InputToRequest
<1>2. Passed(r2, m, 2)
  <2> HIDE DEF r0
  <2>1. r0 = [rest |-> m, got |-> <<>>, past |-> FALSE, bad |-> FALSE]
    BY DEF r0
  <2> QED
    BY <2>1, BegunPassed
<1> HIDE DEF r2
<1>3. Passed(r5, m, 5)
  <2> DEFINE two == 2
             three == 3
             four == 4
             tag == "Tag"
             auth == "Auth"
             version == "Version"
  <2>1. /\ tag \in PartKeys /\ auth \in PartKeys /\ version \in PartKeys
        /\ tag \notin {"Type", "URI", "Header", "Body"}
        /\ auth \notin {"Type", "URI", "Header", "Body"}
        /\ version \notin {"Type", "URI", "Header", "Body"}
        /\ Place[tag] = two + 1 /\ Place[auth] = three + 1 /\ Place[version] = four + 1
        /\ two \in Nat /\ three \in Nat /\ four \in Nat
        /\ two + 1 = three /\ three + 1 = four /\ four + 1 = 5
    BY PlaceIs DEF PartKeys
  <2>2. Passed(r2, m, two)
    BY <1>2
  <2> HIDE DEF two, three, four
  <2>3. Passed(r3, m, three)
    BY <2>1, <2>2, OptionalPassed
  <2>4. Passed(r4, m, four)
    BY <2>1, <2>3, OptionalPassed
  <2>5. Passed(r5, m, four + 1)
    BY <2>1, <2>4, OptionalPassed
  <2> QED
    BY <2>1, <2>5
<1> HIDE DEF r5
<1>4. Passed(Headers(r5), m, 6)
  BY <1>3, HeadersPassed
<1>5. /\ r.bad <=> ~WellFormed(m)
      /\ ~r.bad => r.got["Type"] = m[1].val /\ r.got["URI"] = m[2].val
  BY <1>4, BodyDecides
<1> HIDE DEF r
<1>6. q.method = (IF known THEN r.got["Type"] ELSE "NULL")
      /\ q.URIParts = (IF known THEN Split(r.got["URI"]) ELSE <<>>)
  <2> HIDE DEF q, known
  <2> QED
    BY <1>1
<1>7. known <=> Known(m)
  BY <1>5 DEF Known
<1> HIDE DEF known, q
<1>8. Known(m) => r.got["Type"] = m[1].val /\ r.got["URI"] = m[2].val
  BY <1>5 DEF Known
<1>9. /\ ~Known(m) => q.method = "NULL"
      /\ Known(m) => q.method = m[1].val /\ q.URIParts = Split(m[2].val)
  BY <1>6, <1>7, <1>8
<1> QED
  BY <1>9 DEF q

\* Such a request has one type and one URI.
LEMMA TypeAndURI ==
    ASSUME NEW S, NEW m \in Seq(S), WellFormed(m)
    PROVE  /\ 2 \in DOMAIN m /\ m[2].key = "URI"
           /\ Values(m, "Type") = Just(m[1].val) /\ Values(m, "URI") = Just(m[2].val)
<1>1. /\ DOMAIN m = 1 .. Len(m) /\ Len(m) \in Nat
      /\ Len(m) > 1 /\ m[1].key = "Type" /\ m[2].key = "URI" /\ Ordered(m, Len(m))
  BY FormatIs DEF Begins
<1>2. ASSUME NEW h \in DOMAIN m, NEW i \in DOMAIN m, h < i
      PROVE  m[h].key = m[i].key => m[h].key = "Header"
  <2>1. m[h].key \in PartKeys /\ Place[m[h].key] \in 1 .. 7
    BY <1>1, PlaceIs DEF Ordered
  <2> QED
    BY <1>1, <1>2, <2>1 DEF Ordered
<1>3. ASSUME NEW i \in DOMAIN m
      PROVE  (m[i].key = "Type" => i = 1) /\ (m[i].key = "URI" => i = 2)
  <2>1. 1 \in DOMAIN m /\ 2 \in DOMAIN m /\ i \in Nat
    BY <1>1
  <2>2. m[i].key = "Type" => i = 1
    <3>1. i = 1 \/ 1 < i
      BY <1>1, <2>1
    <3> QED
      BY <1>1, <1>2, <2>1, <3>1
  <2>3. m[i].key = "URI" => i = 2
    <3>1. i = 2 \/ 2 < i \/ i < 2
      BY <2>1
    <3> QED
      BY <1>1, <1>2, <2>1, <3>1
  <2> QED
    BY <2>2, <2>3
<1>4. 1 \in DOMAIN m /\ 2 \in DOMAIN m
  BY <1>1
<1> QED
  BY <1>1, <1>3, <1>4 DEF Values, Just

-----------------------------------------------------------------------------
(* The code of an answer.                                                  *)

\* The code a handler answers with.
CodeAt(h, method) ==
    LET get == IF method = "OPTIONS" THEN "GET" ELSE method
    IN  IF method = "AUTH"
        THEN IF Authorize[h] > 1 THEN 200 ELSE 403
        ELSE IF h = NullHandler THEN 404
        ELSE IF get \in Serves[h] THEN 200 ELSE 405

\* The code the answer to m may have.
Documented(m, code) ==
    IF ~WellFormed(m) \/ Values(m, "Type") \cap Methods = {}
    THEN code = 400
    ELSE \A method \in Values(m, "Type"), uri \in Values(m, "URI") :
             code = CodeAt(Target(uri), method)

\* The property in these words.
LEMMA AnswersAre ==
    AnswersAsDocumented <=>
        (reply # Nobody /\ Heard # <<part("DEMO", "")>> =>
             \A code \in Values(Answer, "Code") \ Just(Exception) : Documented(Heard, code))
BY ZenonT(60) DEF AnswersAsDocumented, Documented, CodeAt, Just, Exception

\* A URI means the same node in the next state, if the tree is the same.
LEMMA TargetKept ==
    ASSUME UNCHANGED tree, NEW uri
    PROVE  Target(uri)' = Target(uri)
BY DEF tree, Target, Follow, resolve, Hard, Matching, FirstOf, FoldLeft, MapThenFoldSet

\* The property in the next state.
LEMMA AnswersNext ==
    ASSUME UNCHANGED tree
    PROVE  AnswersAsDocumented' <=>
               (reply' # Nobody /\ Heard' # <<part("DEMO", "")>> =>
                    \A code \in Values(Answer', "Code") \ Just(Exception) :
                        Documented(Heard', code))
<1>1. AnswersAsDocumented' <=>
          (reply' # Nobody /\ Heard' # <<part("DEMO", "")>> =>
               \A code \in Values(Answer', "Code") \ Just(Exception) :
                   IF ~WellFormed(Heard') \/ Values(Heard', "Type") \cap Methods = {}
                   THEN code = 400
                   ELSE \A method \in Values(Heard', "Type"), uri \in Values(Heard', "URI") :
                            code = CodeAt(Target(uri)', method))
  BY ZenonT(60) DEF AnswersAsDocumented, CodeAt, Just, Exception
<1>2. \A uri : Target(uri)' = Target(uri)
  BY TargetKept
<1>3. ASSUME NEW code
      PROVE  (IF ~WellFormed(Heard') \/ Values(Heard', "Type") \cap Methods = {}
              THEN code = 400
              ELSE \A method \in Values(Heard', "Type"), uri \in Values(Heard', "URI") :
                       code = CodeAt(Target(uri)', method))
             <=> Documented(Heard', code)
  BY <1>2 DEF Documented
<1> QED
  BY <1>1, <1>3, ZenonT(60)

\* Every handler, and the null handler, answers with this code.
LEMMA HandledCode ==
    ASSUME NEW at, at.node \in Node, NEW method
    PROVE  Handled(at, method).code = CodeAt(at.node, method)
<1>1. Authorize[at.node] \in Nat
  BY AuthorizeAssumption DEF Node
<1>2. \A auth \in Nat :
          MakeAuthorizationResponse(auth).code = IF auth > 1 THEN 200 ELSE 403
  BY DEF MakeAuthorizationResponse
<1>3. CASE method = "AUTH"
  <2>1. Handled(at, method) = MakeAuthorizationResponse(Authorize[at.node])
    BY <1>3 DEF Handled
  <2> QED
    BY <1>1, <1>2, <1>3, <2>1 DEF CodeAt
<1>4. CASE method # "AUTH"
  BY <1>4 DEF Handled, CodeAt, NotFound, BadMethod
<1> QED
  BY <1>3, <1>4

\* init() has found a root.
LEMMA RootExists ==
    ASSUME TreeInv, program # "static"
    PROVE  rootHandler \in Node
<1>1. PICK f \in DOMAIN File, h \in Handler : Contains(File[f], h) /\ IsRoot(h)
  BY TreeAssumption DEF IsRoot
<1>2. left[f] = <<>>
  BY DEF TreeInv, TreeIsBuilt
<1>3. Registered(h)
  BY <1>1, <1>2, EmptyContains DEF TreeInv, ObjectsRegister
<1>4. CASE h \in handles
  BY <1>1, <1>4 DEF TreeInv, RootIsTaken, Node
<1>5. CASE rootHandler # Nothing
  BY <1>5 DEF TreeInv, TreeTypeOK, Node
<1> QED
  BY <1>3, <1>4, <1>5 DEF Registered

\* The code of every answer to m is the documented one.
LEMMA AnswerCode ==
    ASSUME TreeTypeOK, rootHandler \in Node,
           NEW S, NEW m \in Seq(S), m # <<part("DEMO", "")>>,
           \A i \in DOMAIN m : m[i].key = "URI" => IsURI(m[i].val),
           NEW a, a = evaluate(m) \/ a = InternalError
    PROVE  \A code \in Values(a, "Code") \ Just(Exception) : Documented(m, code)
<1> DEFINE r == InputToRequest(m)
           at == Walk(rootHandler, r.URIParts)
           res == Handled(at, r.method)
           bad == 400
<1>1. \/ a = ResponseToOutput(bad, r.tag, "Invalid request") /\ r.method = "NULL"
      \/ a = ResponseToOutput(res.code, r.tag, res.body) /\ r.method # "NULL"
      \/ a = ResponseToOutput(Exception, "", "internal error")
  BY DEF evaluate, InternalError, Exception
<1>2. WellFormed(m) => /\ 2 \in DOMAIN m /\ m[2].key = "URI"
                       /\ Values(m, "Type") = Just(m[1].val)
                       /\ Values(m, "URI") = Just(m[2].val)
  BY TypeAndURI
<1>3. "NULL" \notin Methods
  BY DEF Methods
<1>4. /\ ~Known(m) => r.method = "NULL"
      /\ Known(m) => r.method = m[1].val /\ r.URIParts = Split(m[2].val)
  BY FormatRead
<1> HIDE DEF r
<1>5. Known(m) <=> r.method # "NULL"
  BY <1>3, <1>4 DEF Known
<1>6. Known(m) => res.code = CodeAt(Target(m[2].val), m[1].val)
  <2> SUFFICES ASSUME Known(m)
               PROVE  res.code = CodeAt(Target(m[2].val), m[1].val)
    OBVIOUS
  <2>1. IsURI(m[2].val)
    <3>1. 2 \in DOMAIN m /\ m[2].key = "URI"
      BY <1>2 DEF Known
    <3> QED
      BY <3>1
  <2>2. Reached(Split(m[2].val)) = Target(m[2].val) /\ Target(m[2].val) \in Node
    BY <2>1, SamePath
  <2>3. at.node = Target(m[2].val) /\ at.node \in Node
    BY <1>4, <2>2 DEF Reached
  <2> HIDE DEF at
  <2>4. res.code = CodeAt(at.node, r.method)
    BY <2>3, HandledCode
  <2> QED
    BY <1>4, <2>3, <2>4
<1> HIDE DEF res, bad, at
<1>7. Known(m) => Documented(m, res.code)
  BY <1>2, <1>6 DEF Known, Documented, Just
<1>8. ~Known(m) => Documented(m, bad)
  <2>1. CASE ~WellFormed(m)
    BY <2>1 DEF Documented, bad
  <2>2. CASE WellFormed(m) /\ m[1].val \notin Methods
    <3>1. Values(m, "Type") \cap Methods = {}
      BY <1>2, <2>2 DEF Just
    <3> QED
      BY <3>1 DEF Documented, bad
  <2> QED
    BY <2>1, <2>2 DEF Known
<1>9. CASE a = ResponseToOutput(Exception, "", "internal error")
  BY <1>9, ResponseValues
<1>10. CASE a = ResponseToOutput(bad, r.tag, "Invalid request") /\ ~Known(m)
  <2>1. Values(a, "Code") = Just(bad)
    BY <1>10, ResponseValues
  <2> QED
    BY <1>8, <1>10, <2>1 DEF Just
<1>11. CASE a = ResponseToOutput(res.code, r.tag, res.body) /\ Known(m)
  <2>1. Values(a, "Code") = Just(res.code)
    BY <1>11, ResponseValues
  <2> QED
    BY <1>7, <1>11, <2>1 DEF Just
<1> QED
  BY <1>1, <1>5, <1>9, <1>10, <1>11

\* The frames behind an envelope are frames of the message.
LEMMA StripKeeps ==
    ASSUME NEW S, NEW m \in Seq(S), EnvelopeEnd(m) \in 0 .. Len(m)
    PROVE  \A i \in DOMAIN strip(m) : \E j \in DOMAIN m : strip(m)[i] = m[j]
<1> DEFINE e == EnvelopeEnd(m)
<1>1. /\ strip(m) \in Seq(S) /\ Len(strip(m)) = Len(m) - e
      /\ \A i \in 1 .. Len(m) - e : strip(m)[i] = m[e + i]
  BY SuffixIs DEF strip
<1>2. Len(m) \in Nat /\ DOMAIN m = 1 .. Len(m) /\ DOMAIN strip(m) = 1 .. Len(m) - e
  BY <1>1
<1> HIDE DEF e
<1>3. ASSUME NEW i \in DOMAIN strip(m)
      PROVE  \E j \in DOMAIN m : strip(m)[i] = m[j]
  <2>1. e + i \in DOMAIN m
    BY <1>2 DEF e
  <2> QED
    BY <1>1, <1>2, <2>1
<1> QED
  BY <1>3

\* What SendResponse answers.
LEMMA SendCode ==
    ASSUME EngineInv, SendResponse
    PROVE  AnswersAsDocumented'
<1> DEFINE e == EnvelopeEnd(request)
           m == strip(request)
           Q == ToSet(request)
<1>1. /\ request \in Requests /\ request \in Seq(Q) /\ request' = request
      /\ UNCHANGED <<tree, program>> /\ program = "serving"
  BY RequestAssumption DEF EngineInv, SendResponse
<1>2. PICK a : reply' = Behind(request, e, a) /\ (a = evaluate(m) \/ a = InternalError)
  BY DEF SendResponse, route, Behind
<1>3. e \in 0 .. Len(request)
  BY <1>1, EmptyFrames
<1>4. m \in Seq(Q) /\ m = SubSeq(request, e + 1, Len(request))
  BY <1>1, StripType DEF strip
<1>5. \A i \in DOMAIN m : m[i].key = "URI" => IsURI(m[i].val)
  BY <1>1, <1>3, StripKeeps, UriAssumption
<1> HIDE DEF m, Q
<1>6. TreeTypeOK /\ rootHandler \in Node
  BY <1>1, RootExists DEF EngineInv, TreeInv
<1>7. PICK T : a \in Seq(T)
  BY <1>2, <1>4, AnswerTag DEF IsSequence
<1>8. m # <<part("DEMO", "")>> =>
          \A code \in Values(a, "Code") \ Just(Exception) : Documented(m, code)
  BY <1>2, <1>4, <1>5, <1>6, AnswerCode
<1> DEFINE U == Q \cup T
<1>9. request \in Seq(U) /\ a \in Seq(U)
  BY <1>1, <1>7
<1> HIDE DEF e, U
<1>10. SubSeq(reply', e + 1, Len(reply')) = a
  BY <1>2, <1>3, <1>9, BehindEnvelope
<1>11. EnvelopeEnd(request') = e
  BY <1>1 DEF e
<1>12. Answer' = a /\ Heard' = m
  BY <1>1, <1>10, <1>11 DEF Answer, Heard, m
<1>13. UNCHANGED tree
  BY <1>1
<1> QED
  BY <1>8, <1>12, <1>13, AnswersNext

\* No step makes an answer another one, or a tree after the answer.
LEMMA CodeStep ==
    ASSUME EngineInv, AnswersAsDocumented, [Next]_engineVars
    PROVE  AnswersAsDocumented'
<1>1. CASE UNCHANGED <<request, reply, tree>>
  <2>1. Answer' = Answer /\ Heard' = Heard
    BY <1>1 DEF Answer, Heard
  <2>2. UNCHANGED tree
    BY <1>1
  <2> QED
    BY <1>1, <2>1, <2>2, AnswersAre, AnswersNext
<1>2. ASSUME NEW frames \in Requests, Receive(frames)
      PROVE  reply' = Nobody
  BY <1>2 DEF Receive, EngineInv
<1>3. CASE SendResponse
  BY <1>3, SendCode
<1>4. CASE Forget \/ (BuildTree /\ reply = Nobody)
  BY <1>4 DEF Forget, BuildTree, AnswersAsDocumented
<1>5. CASE Crash \/ UNCHANGED engineVars
  <2>1. UNCHANGED <<request, reply, tree>>
    BY <1>5 DEF Crash, engineVars
  <2> QED
    BY <1>1, <2>1
<1>6. BuildTree => reply = Nobody
  BY DEF BuildTree, InitTree, Construct, EngineInv
<1> QED
  BY <1>2, <1>3, <1>4, <1>5, <1>6 DEF Next, AnswersAsDocumented

\* When what stands behind the last empty frame of a message is a request of the
\* documented format it gets the answer of the handler its URI names, and when it
\* is not it gets 400, for every tree, every message and every handler; what
\* stands in front of that frame is not looked at.
THEOREM AnswersCorrect == Spec => []AnswersAsDocumented
<1>1. Init => AnswersAsDocumented
  BY DEF Init, AnswersAsDocumented
<1> QED
  BY <1>1, EngineInit, EngineStep, CodeStep, PTL DEF Spec
=============================================================================
