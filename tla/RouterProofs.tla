---------------------------- MODULE RouterProofs ----------------------------
(***************************************************************************)
(* The routing tree is well formed and holds the registered routes, and    *)
(* the search in it finds the best route and captures its segments, for    *)
(* every set of routes, registered in any order, and every path.           *)
(***************************************************************************)
EXTENDS Router, SequenceTheorems, WellFoundedInduction, FiniteSetTheorems, TLAPS

(* The edges that occur. *)
Edges == {ParamEdge} \cup UNION {{r.segs[i] : i \in 1..Len(r.segs)} : r \in Routes}

Typed ==
    /\ registered \in Seq(Routes)
    /\ nodes \subseteq Seq(Edges)
    /\ DOMAIN handlers = nodes /\ \A n \in nodes : handlers[n] \in Seq(Routes)

WellFormed == Typed /\ TypeOK

LEMMA DepthType ==
    ASSUME NEW r \in Routes
    PROVE  Depth(r) \in Nat /\ Depth(r) <= Len(r.segs)
<1>1. Len(r.segs) \in Nat
  BY RoutesAssumption
<1>2. IsCatchAll(r) => Len(r.segs) # 0
  BY <1>1, RoutesAssumption DEF IsCatchAll
<1> QED
  BY <1>1, <1>2 DEF Depth

LEMMA PlaceType ==
    ASSUME NEW r \in Routes
    PROVE  /\ Place(r) \in Seq(Edges) /\ Len(Place(r)) = Depth(r)
           /\ \A i \in 1..Depth(r) : Place(r)[i] = EdgeOf(r.segs[i])
<1>1. \A i \in 1..Depth(r) : EdgeOf(r.segs[i]) \in Edges
  BY DepthType, RoutesAssumption DEF Edges, EdgeOf
<1>2. Place(r) \in [1..Depth(r) -> Edges]
  BY <1>1 DEF Place
<1> QED
  BY <1>2, DepthType DEF Place

(* The nodes of a branch are the prefixes of its place. *)
LEMMA BranchPrefix ==
    ASSUME NEW r \in Routes, NEW k \in 0..Depth(r)
    PROVE  /\ Upto(Place(r), k) \in Seq(Edges) /\ Len(Upto(Place(r), k)) = k
           /\ \A i \in 1..k : Upto(Place(r), k)[i] = Place(r)[i]
<1>1. \A i \in 1..k : Place(r)[i] \in Edges
  BY PlaceType, DepthType, ElementOfSeq
<1>2. k \in Int
  BY DepthType
<1>3. /\ SubSeq(Place(r), 1, k) \in Seq(Edges)
      /\ Len(SubSeq(Place(r), 1, k)) = IF 1 <= k THEN k - 1 + 1 ELSE 0
      /\ \A i \in 1..(k - 1 + 1) : SubSeq(Place(r), 1, k)[i] = Place(r)[1 + i - 1]
  BY <1>1, <1>2, SubSeqProperties
<1> QED
  BY <1>2, <1>3, DepthType DEF Upto

LEMMA PlaceInBranch ==
    ASSUME NEW r \in Routes
    PROVE  Place(r) \in Branch(r) /\ Root \in Branch(r)
<1>1. Upto(Place(r), Depth(r)) = Place(r)
  BY PlaceType, SubSeqFull DEF Upto
<1>2. Upto(Place(r), 0) = Root
  BY SubSeqEmpty DEF Upto, Root
<1> QED
  BY <1>1, <1>2, DepthType DEF Branch

(* A branch is closed under leaving out the last edge. *)
LEMMA BranchClosed ==
    ASSUME NEW r \in Routes, NEW n \in Branch(r), n # Root
    PROVE  Len(n) \in 1..Depth(r) /\ Upto(n, Len(n) - 1) \in Branch(r)
<1>1. PICK k \in 0..Depth(r) : n = Upto(Place(r), k)
  BY DEF Branch
<1>2. n \in Seq(Edges) /\ Len(n) = k /\ \A i \in 1..k : n[i] = Place(r)[i]
  BY <1>1, BranchPrefix
<1>3. k # 0
  BY <1>2, EmptySeq DEF Root
<1>4. k - 1 \in 0..Depth(r)
  BY <1>3, DepthType
<1>5. \A i \in 1..(k - 1) : n[i] \in Edges
  BY <1>2, ElementOfSeq, DepthType
<1>6. /\ Upto(n, k - 1) \in Seq(Edges) /\ Len(Upto(n, k - 1)) = k - 1
      /\ \A i \in 1..(k - 1) : Upto(n, k - 1)[i] = n[i]
  <2>1. k - 1 \in Int
    BY <1>4, DepthType
  <2>2. /\ SubSeq(n, 1, k - 1) \in Seq(Edges)
        /\ Len(SubSeq(n, 1, k - 1)) = IF 1 <= k - 1 THEN k - 1 - 1 + 1 ELSE 0
        /\ \A i \in 1..(k - 1 - 1 + 1) : SubSeq(n, 1, k - 1)[i] = n[1 + i - 1]
    BY <2>1, <1>5, SubSeqProperties
  <2> QED
    BY <2>1, <2>2, <1>4, DepthType DEF Upto
<1>7. Upto(n, k - 1) = Upto(Place(r), k - 1)
  <2>1. /\ Upto(Place(r), k - 1) \in Seq(Edges) /\ Len(Upto(Place(r), k - 1)) = k - 1
        /\ \A i \in 1..(k - 1) : Upto(Place(r), k - 1)[i] = Place(r)[i]
    BY <1>4, BranchPrefix
  <2>2. \A i \in 1..(k - 1) : i \in 1..k
    BY <1>4, DepthType
  <2> QED
    BY <1>2, <1>6, <2>1, <2>2, SeqEqual
<1> QED
  BY <1>2, <1>3, <1>4, <1>7, DepthType DEF Branch

(* Leaving out the last edge undoes an Append. *)
LEMMA UptoAppend ==
    ASSUME NEW n \in Seq(Edges), NEW e \in Edges
    PROVE  Append(n, e) # Root /\ Upto(Append(n, e), Len(Append(n, e)) - 1) = n
<1> DEFINE c == Append(n, e)
<1>1. c # <<>> /\ Len(c) = Len(n) + 1 /\ \A i \in 1..Len(n) : c[i] = n[i]
  BY AppendProperties
<1>2. Len(n) \in Nat /\ Len(n) \in Int /\ \A i \in 1..Len(n) : n[i] \in Edges
  BY LenProperties, ElementOfSeq
<1>3. \A i \in 1..Len(n) : c[i] \in Edges
  BY <1>1, <1>2
<1>4. /\ SubSeq(c, 1, Len(n)) \in Seq(Edges)
      /\ Len(SubSeq(c, 1, Len(n))) = IF 1 <= Len(n) THEN Len(n) - 1 + 1 ELSE 0
      /\ \A i \in 1..(Len(n) - 1 + 1) : SubSeq(c, 1, Len(n))[i] = c[1 + i - 1]
  BY <1>2, <1>3, SubSeqProperties
<1>5. Len(SubSeq(c, 1, Len(n))) = Len(n) /\ \A i \in 1..Len(n) : SubSeq(c, 1, Len(n))[i] = n[i]
  BY <1>1, <1>2, <1>4
<1>6. SubSeq(c, 1, Len(n)) = n
  BY <1>4, <1>5, SeqEqual
<1>7. Len(c) - 1 = Len(n)
  BY <1>1, <1>2
<1> QED
  BY <1>1, <1>6, <1>7 DEF Upto, Root

LEMMA ParamEdgeOnly ==
    ASSUME NEW seg, EdgeOf(seg) = ParamEdge
    PROVE  seg.k = "param"
BY DEF EdgeOf, ParamEdge

(* When the node behind a parameter edge lies on a branch. *)
LEMMA ParamOnBranch ==
    ASSUME NEW r \in Routes, NEW n \in Seq(Edges)
    PROVE  Append(n, ParamEdge) \in Branch(r) <=>
              n \in Branch(r) /\ Len(n) + 1 <= Depth(r) /\ r.segs[Len(n) + 1].k = "param"
<1> DEFINE c == Append(n, ParamEdge)
           d == Len(n) + 1
<1>1. /\ c \in Seq(Edges) /\ Len(c) = d /\ c[d] = ParamEdge
      /\ \A i \in 1..Len(n) : c[i] = n[i]
  BY AppendProperties DEF Edges
<1>2. Len(n) \in Nat
  BY LenProperties
<1>3. ASSUME c \in Branch(r)
      PROVE  n \in Branch(r) /\ d <= Depth(r) /\ r.segs[d].k = "param"
  <2>1. PICK k \in 0..Depth(r) : c = Upto(Place(r), k)
    BY <1>3 DEF Branch
  <2>2. k = d /\ \A i \in 1..k : c[i] = Place(r)[i]
    BY <2>1, <1>1, BranchPrefix
  <2>3. EdgeOf(r.segs[d]) = ParamEdge /\ d <= Depth(r)
    BY <2>2, <1>1, <1>2, PlaceType, DepthType
  <2>4. Len(n) \in 0..Depth(r)
    BY <2>3, <1>2, DepthType
  <2>5. n = Upto(Place(r), Len(n))
    BY <2>2, <2>4, <1>1, <1>2, BranchPrefix, SeqEqual, DepthType
  <2> QED
    BY <2>3, <2>4, <2>5, ParamEdgeOnly DEF Branch
<1>4. ASSUME n \in Branch(r), d <= Depth(r), r.segs[d].k = "param"
      PROVE  c \in Branch(r)
  <2>1. PICK k \in 0..Depth(r) : n = Upto(Place(r), k)
    BY <1>4 DEF Branch
  <2>2. k = Len(n) /\ \A i \in 1..Len(n) : n[i] = Place(r)[i]
    BY <2>1, BranchPrefix
  <2>3. d \in 0..Depth(r) /\ d \in 1..Depth(r)
    BY <1>2, <1>4, DepthType
  <2>4. Place(r)[d] = ParamEdge
    BY <2>3, <1>4, PlaceType DEF EdgeOf
  <2>5. \A i \in 1..d : c[i] = Upto(Place(r), d)[i]
    BY <2>2, <2>3, <2>4, <1>1, <1>2, BranchPrefix
  <2>6. c = Upto(Place(r), d)
    BY <2>3, <2>5, <1>1, BranchPrefix, SeqEqual
  <2> QED
    BY <2>3, <2>6 DEF Branch
<1> QED
  BY <1>3, <1>4

-----------------------------------------------------------------------------
LEMMA InitWellFormed == Init => WellFormed
<1> SUFFICES ASSUME Init PROVE WellFormed
  OBVIOUS
<1>1. Typed
  BY DEF Init, Typed, Root
<1>2. ASSUME NEW n \in nodes
      PROVE  Append(n, ParamEdge) \notin nodes
  <2>1. n = <<>> /\ n \in Seq(Edges)
    BY <1>2, EmptySeq DEF Init, Root
  <2>2. Len(Append(n, ParamEdge)) = Len(n) + 1 /\ Len(n) = 0
    BY <2>1, AppendProperties, EmptySeq DEF Edges
  <2>3. Append(n, ParamEdge) # <<>>
    BY <2>2
  <2> QED
    BY <2>3 DEF Init, Root
<1>3. TypeOK
  BY <1>2 DEF Init, Root, TypeOK
<1> QED
  BY <1>1, <1>3 DEF WellFormed

(* What a node held before a route was inserted. *)
Earlier(n) == IF n \in nodes THEN handlers[n] ELSE <<>>

LEMMA InsertTyped ==
    ASSUME WellFormed, NEW r \in Routes, Insert(r)
    PROVE  /\ Typed'
           /\ \A n \in nodes' : /\ Earlier(n) \in Seq(Routes)
                                /\ handlers'[n] = IF n = Place(r) /\ ~IsCatchAll(r) THEN Append(Earlier(n), r)
                                                  ELSE Earlier(n)
<1> USE DEF WellFormed, Typed, Insert
<1>1. registered' \in Seq(Routes)
  BY AppendProperties
<1>2. Branch(r) \subseteq Seq(Edges)
  BY BranchPrefix DEF Branch
<1>3. nodes' \subseteq Seq(Edges)
  BY <1>2
<1>4. ASSUME NEW n \in nodes'
      PROVE  /\ Earlier(n) \in Seq(Routes)
             /\ handlers'[n] = IF n = Place(r) /\ ~IsCatchAll(r) THEN Append(Earlier(n), r) ELSE Earlier(n)
             /\ handlers'[n] \in Seq(Routes)
  <2>1. Earlier(n) \in Seq(Routes)
    BY EmptySeq DEF Earlier
  <2>2. Append(Earlier(n), r) \in Seq(Routes)
    BY <2>1, AppendProperties
  <2> QED
    BY <1>4, <2>1, <2>2 DEF Earlier
<1> QED
  BY <1>1, <1>3, <1>4

LEMMA InsertWellFormed ==
    ASSUME WellFormed, NEW r \in Routes, Insert(r)
    PROVE  WellFormed'
<1> USE DEF WellFormed
<1>1. Typed'
  BY InsertTyped
<1>2. nodes' = nodes \cup Branch(r)
  BY DEF Insert
<1>3. DOMAIN handlers' = nodes' /\ DOMAIN paramName' = nodes' /\ DOMAIN catchAll' = nodes'
  BY DEF Insert
<1>4. ASSUME NEW n \in nodes'
      PROVE  n = Root \/ Upto(n, Len(n) - 1) \in nodes'
  BY <1>2, <1>4, BranchClosed DEF TypeOK
<1>5. ASSUME NEW n \in nodes'
      PROVE  \A i \in 1..Len(handlers'[n]) : handlers'[n][i] \in Routes
  BY <1>1, <1>5, ElementOfSeq DEF Typed
<1>6. ASSUME NEW n \in nodes'
      PROVE  catchAll'[n] = {} \/ \E s \in Routes : catchAll'[n] = {s}
  <2>1. CASE n = Place(r) /\ IsCatchAll(r)
    BY <2>1 DEF Insert
  <2>2. CASE ~(n = Place(r) /\ IsCatchAll(r))
    BY <2>2 DEF Insert, TypeOK
  <2> QED
    BY <2>1, <2>2
<1>7. ASSUME NEW n \in nodes'
      PROVE  IF Append(n, ParamEdge) \in nodes' THEN \E s \in paramName'[n] : paramName'[n] = {s}
             ELSE paramName'[n] = {}
  <2> DEFINE c == Append(n, ParamEdge)
  <2>1. paramName'[n] = NamesAfter(r, n)
    BY DEF Insert
  <2>2. n \in Seq(Edges)
    BY <1>1 DEF Typed
  <2>3. c \in Branch(r) <=> n \in Branch(r) /\ Len(n) + 1 <= Depth(r) /\ r.segs[Len(n) + 1].k = "param"
    BY <2>2, ParamOnBranch
  <2>4. c \in nodes => n \in nodes
    <3>1. c # Root /\ Upto(c, Len(c) - 1) = n
      BY <2>2, UptoAppend DEF Edges
    <3> QED
      BY <3>1 DEF TypeOK
  <2>5. CASE c \in Branch(r) /\ c \notin nodes
    BY <1>2, <2>1, <2>3, <2>5 DEF NamesAfter
  <2>6. CASE c \in nodes
    <3>1. paramName'[n] = paramName[n]
      BY <2>1, <2>4, <2>6 DEF NamesAfter
    <3> QED
      BY <1>2, <2>4, <2>6, <3>1 DEF TypeOK
  <2>7. CASE c \notin Branch(r) /\ c \notin nodes
    <3>1. NamesAfter(r, n) = IF n \in nodes THEN paramName[n] ELSE {}
      BY <2>3, <2>7 DEF NamesAfter
    <3> QED
      BY <1>2, <2>1, <2>7, <3>1 DEF TypeOK
  <2> QED
    BY <2>5, <2>6, <2>7
<1>8. TypeOK'
  BY <1>3, <1>4, <1>5, <1>6, <1>7 DEF TypeOK
<1> QED
  BY <1>1, <1>8

(* The tree is well formed, for any set of routes: every node hangs from another, and where  *)
(* a parameter edge leaves a node it has exactly one name (Node::insert).                    *)
THEOREM TypeCorrect == Spec => []TypeOK
<1>1. WellFormed /\ UNCHANGED vars => WellFormed'
  BY DEF WellFormed, Typed, TypeOK, vars
<1>2. WellFormed /\ [Next]_vars => WellFormed'
  BY <1>1, InsertWellFormed DEF Next
<1>3. WellFormed => TypeOK
  BY DEF WellFormed
<1> QED
  BY InitWellFormed, <1>2, <1>3, PTL DEF Spec

-----------------------------------------------------------------------------
IInv == WellFormed /\ TreeHoldsTheRoutes

LEMMA InitInv == Init => IInv
<1> SUFFICES ASSUME Init PROVE IInv
  OBVIOUS
<1>1. Len(registered) = 0 /\ \A n \in nodes : Len(handlers[n]) = 0 /\ catchAll[n] = {}
  BY EmptySeq DEF Init
<1> QED
  BY <1>1, InitWellFormed DEF IInv, TreeHoldsTheRoutes, ElementsOf

(* What Append does to the members of a sequence. *)
LEMMA AppendMembers ==
    ASSUME NEW s \in Seq(Routes), NEW r \in Routes
    PROVE  ElementsOf(Append(s, r)) = ElementsOf(s) \cup {r}
<1>1. /\ Len(s) \in Nat /\ Len(Append(s, r)) = Len(s) + 1
      /\ \A i \in 1..Len(s) : Append(s, r)[i] = s[i]
      /\ Append(s, r)[Len(s) + 1] = r
  BY AppendProperties, LenProperties
<1>2. \A i \in 1..(Len(s) + 1) : i \in 1..Len(s) \/ i = Len(s) + 1
  BY <1>1
<1>3. Len(s) + 1 \in 1..(Len(s) + 1) /\ \A i \in 1..Len(s) : i \in 1..(Len(s) + 1)
  BY <1>1
<1> QED
  BY <1>1, <1>2, <1>3 DEF ElementsOf

LEMMA InsertInv ==
    ASSUME IInv, NEW r \in Routes, Insert(r)
    PROVE  IInv'
<1> DEFINE last == Len(registered) + 1
<1>1. WellFormed'
  BY InsertWellFormed DEF IInv
<1>2. /\ Len(registered) \in Nat /\ Len(registered') = last /\ registered'[last] = r
      /\ \A k \in 1..Len(registered) : registered'[k] = registered[k] /\ registered[k] \in Routes
  BY AppendProperties, LenProperties, ElementOfSeq DEF IInv, WellFormed, Typed, Insert
<1>3. last \in 1..last /\ \A k \in 1..Len(registered) : k \in 1..last
  BY <1>2
<1>4. \A k \in 1..last : k \in 1..Len(registered) \/ k = last
  BY <1>2
<1>5. nodes' = nodes \cup Branch(r) /\ Place(r) \in nodes'
  BY PlaceInBranch DEF Insert
<1>6. ASSUME NEW n \in nodes'
      PROVE  ElementsOf(handlers'[n]) = (IF n \in nodes THEN ElementsOf(handlers[n]) ELSE {})
                           \cup (IF n = Place(r) /\ ~IsCatchAll(r) THEN {r} ELSE {})
  <2>1. /\ Earlier(n) \in Seq(Routes)
        /\ handlers'[n] = IF n = Place(r) /\ ~IsCatchAll(r) THEN Append(Earlier(n), r) ELSE Earlier(n)
    BY <1>6, InsertTyped DEF IInv
  <2>2. ElementsOf(Earlier(n)) = IF n \in nodes THEN ElementsOf(handlers[n]) ELSE {}
    BY EmptySeq DEF Earlier, ElementsOf
  <2>3. CASE n = Place(r) /\ ~IsCatchAll(r)
    BY <2>1, <2>2, <2>3, AppendMembers
  <2>4. CASE ~(n = Place(r) /\ ~IsCatchAll(r))
    BY <2>1, <2>2, <2>4
  <2> QED
    BY <2>3, <2>4
<1>7. ASSUME NEW n \in nodes'
      PROVE  catchAll'[n] = IF n = Place(r) /\ IsCatchAll(r) THEN {r}
                            ELSE IF n \in nodes THEN catchAll[n] ELSE {}
  BY <1>7 DEF Insert
<1>8. ASSUME NEW k \in 1..Len(registered)
      PROVE  /\ Place(registered[k]) \in nodes'
             /\ IF IsCatchAll(registered[k])
                THEN Overwritten(k)' \/ catchAll'[Place(registered[k])] = {registered[k]}
                ELSE registered[k] \in ElementsOf(handlers'[Place(registered[k])])
  <2>1. /\ Place(registered[k]) \in nodes
        /\ IF IsCatchAll(registered[k])
           THEN Overwritten(k) \/ catchAll[Place(registered[k])] = {registered[k]}
           ELSE registered[k] \in ElementsOf(handlers[Place(registered[k])])
    BY <1>8 DEF IInv, TreeHoldsTheRoutes
  <2>2. Place(registered[k]) \in nodes'
    BY <2>1, <1>5
  <2>3. CASE ~IsCatchAll(registered[k])
    BY <2>1, <2>2, <2>3, <1>6
  <2>4. CASE IsCatchAll(registered[k]) /\ Overwritten(k)
    <3>1. PICK l \in (k + 1)..Len(registered) :
             IsCatchAll(registered[l]) /\ Place(registered[l]) = Place(registered[k])
      BY <2>4 DEF Overwritten
    <3>2. l \in (k + 1)..last /\ l \in 1..Len(registered)
      BY <1>2, <1>8
    <3>3. registered'[l] = registered[l] /\ registered'[k] = registered[k]
      BY <1>2, <1>8, <3>2
    <3>4. IsCatchAll(registered'[l]) /\ Place(registered'[l]) = Place(registered'[k])
      BY <3>1, <3>3
    <3>5. Overwritten(k)'
      BY <1>2, <2>4, <3>2, <3>3, <3>4 DEF Overwritten
    <3> QED
      BY <2>2, <2>4, <3>5
  <2>5. CASE IsCatchAll(registered[k]) /\ Place(r) = Place(registered[k]) /\ IsCatchAll(r)
    <3>1. last \in (k + 1)..last
      BY <1>2, <1>8
    <3>2. Overwritten(k)'
      BY <1>2, <1>8, <2>5, <3>1 DEF Overwritten
    <3> QED
      BY <2>2, <2>5, <3>2
  <2>6. CASE ~Overwritten(k) /\ IsCatchAll(registered[k]) /\ ~(Place(r) = Place(registered[k]) /\ IsCatchAll(r))
    BY <2>1, <2>2, <2>6, <1>7
  <2> QED
    BY <2>3, <2>4, <2>5, <2>6
<1>9. IF IsCatchAll(r) THEN catchAll'[Place(r)] = {r} ELSE r \in ElementsOf(handlers'[Place(r)])
  BY <1>5, <1>6, <1>7
<1>10. ASSUME NEW k \in 1..Len(registered')
       PROVE  /\ Place(registered'[k]) \in nodes'
              /\ IF IsCatchAll(registered'[k])
                 THEN Overwritten(k)' \/ catchAll'[Place(registered'[k])] = {registered'[k]}
                 ELSE registered'[k] \in ElementsOf(handlers'[Place(registered'[k])])
  <2>1. CASE k \in 1..Len(registered)
    BY <2>1, <1>2, <1>8
  <2>2. CASE k = last
    BY <2>2, <1>2, <1>5, <1>9
  <2> QED
    BY <1>2, <1>4, <2>1, <2>2
<1>11. ASSUME NEW n \in nodes', NEW s \in ElementsOf(handlers'[n]) \cup catchAll'[n]
       PROVE  Place(s) = n /\ \E k \in 1..Len(registered') : registered'[k] = s
  <2>1. CASE s = r /\ n = Place(r)
    BY <2>1, <1>2, <1>3
  <2>2. CASE ~(s = r /\ n = Place(r))
    <3>1. n \in nodes /\ s \in ElementsOf(handlers[n]) \cup catchAll[n]
      BY <2>2, <1>6, <1>7, <1>11
    <3>2. Place(s) = n /\ \E k \in 1..Len(registered) : registered[k] = s
      BY <3>1 DEF IInv, TreeHoldsTheRoutes
    <3> QED
      BY <3>2, <1>2, <1>3
  <2> QED
    BY <2>1, <2>2
<1>12. TreeHoldsTheRoutes'
  BY <1>10, <1>11 DEF TreeHoldsTheRoutes
<1> QED
  BY <1>1, <1>12 DEF IInv

(* Building the router loses no route and invents none, whatever is registered and in which  *)
(* order, but for a catch-all that a later one of the same place replaces (Router::build).   *)
THEOREM RoutesKept == Spec => []TreeHoldsTheRoutes
<1>1. IInv /\ UNCHANGED vars => IInv'
  BY DEF IInv, WellFormed, Typed, TypeOK, TreeHoldsTheRoutes, Overwritten, vars
<1>2. IInv /\ [Next]_vars => IInv'
  BY <1>1, InsertInv DEF Next
<1>3. IInv => TreeHoldsTheRoutes
  BY DEF IInv
<1> QED
  BY InitInv, <1>2, <1>3, PTL DEF Spec

-----------------------------------------------------------------------------
(* Induction over the naturals, with the predicate as the set where it holds. *)
LEMMA SetInduction ==
    ASSUME NEW S, 0 \in S, \A k \in Nat : k \in S => k + 1 \in S
    PROVE  \A k \in Nat : k \in S
<1> SUFFICES ASSUME NEW k \in Nat, k \notin S
             PROVE  FALSE
  OBVIOUS
<1> DEFINE bad == {l \in Nat : l \notin S}
<1>1. PICK x \in bad : \A y \in bad : <<y, x>> \notin OpToRel(<, Nat)
  <2>1. bad \in SUBSET Nat /\ bad # {}
    OBVIOUS
  <2> QED
    BY <2>1, NatLessThanWellFounded, WFMin
<1>2. \A y \in bad : ~(y < x)
  BY <1>1, Zenon DEF OpToRel
<1>3. x # 0 /\ x \in Nat
  BY <1>1
<1>4. x - 1 \in Nat /\ x - 1 \notin bad
  BY <1>2, <1>3
<1>5. x \in S
  <2>1. x - 1 \in S
    BY <1>4
  <2>2. (x - 1) + 1 \in S
    BY <1>4, <2>1
  <2> QED
    BY <1>3, <2>2
<1> QED
  BY <1>1, <1>5

-----------------------------------------------------------------------------
(* What the search finds at each node for the path from segment i on. *)
Level(search, i, m, p) ==
    [n \in nodes |-> IF i > Len(p) THEN AtEnd(n, m) ELSE Visit(n, i, search[i + 1], m, p)]

Unfolds(search, m, p) == search = [i \in 1..(Len(p) + 1) |-> Level(search, i, m, p)]

(* The search that is right for the last segments of the path. *)
Partly(search, k, m, p) ==
    /\ search = [i \in 1..(Len(p) + 1) |-> search[i]]
    /\ \A i \in 1..(Len(p) + 1) : i + k > Len(p) => search[i] = Level(search, i, m, p)

(* There is a function as the recursive definition of Find asks for: it looks one segment ahead. *)
LEMMA SearchExists ==
    ASSUME NEW m, NEW p \in Paths
    PROVE  \E search : Unfolds(search, m, p)
<1> DEFINE S == {k \in Nat : \E search : Partly(search, k, m, p)}
           d == 1..(Len(p) + 1)
<1>1. Len(p) \in Nat
  BY PathsAssumption
<1>2. 0 \in S
  <2> DEFINE s == [i \in d |-> [n \in nodes |-> AtEnd(n, m)]]
  <2>1. s = [i \in d |-> s[i]]
    OBVIOUS
  <2>2. ASSUME NEW i \in d, i + 0 > Len(p)
        PROVE  s[i] = Level(s, i, m, p)
    BY <1>1, <2>2 DEF Level
  <2>3. Partly(s, 0, m, p)
    BY <2>1, <2>2 DEF Partly
  <2> QED
    BY <2>3
<1>3. ASSUME NEW k \in Nat, k \in S
      PROVE  k + 1 \in S
  <2>1. PICK s : Partly(s, k, m, p)
    BY <1>3
  <2> DEFINE t == [i \in d |-> IF i + k > Len(p) THEN s[i] ELSE Level(s, i, m, p)]
  <2>2. t = [i \in d |-> t[i]]
    OBVIOUS
  <2>3. ASSUME NEW i \in d, i + (k + 1) > Len(p)
        PROVE  t[i] = Level(t, i, m, p)
    <3>1. t[i] = Level(s, i, m, p)
      BY <2>1 DEF Partly
    <3>2. i <= Len(p) => t[i + 1] = s[i + 1]
      <4>1. ASSUME i <= Len(p) PROVE i + 1 \in d /\ (i + 1) + k > Len(p)
        BY <1>1, <2>3, <4>1
      <4> QED
        BY <4>1
    <3>3. Level(s, i, m, p) = Level(t, i, m, p)
      <4> HIDE DEF t
      <4>1. CASE i > Len(p)
        BY <4>1 DEF Level
      <4>2. CASE i <= Len(p)
        <5>1. t[i + 1] = s[i + 1]
          BY <4>2, <3>2
        <5> QED
          BY <5>1, Zenon DEF Level
      <4> QED
        BY <1>1, <4>1, <4>2
    <3> QED
      BY <3>1, <3>3
  <2> HIDE DEF t
  <2>4. Partly(t, k + 1, m, p)
    BY <2>2, <2>3 DEF Partly
  <2> QED
    BY <2>4
<1>4. Len(p) \in S
  BY <1>1, <1>2, <1>3, SetInduction
<1>5. PICK s : Partly(s, Len(p), m, p)
  BY <1>4
<1>6. \A i \in d : s[i] = Level(s, i, m, p)
  BY <1>1, <1>5 DEF Partly
<1>7. s = [i \in d |-> s[i]]
  BY <1>5 DEF Partly
<1>8. s = [i \in d |-> Level(s, i, m, p)]
  BY <1>6, <1>7, Zenon
<1> QED
  BY <1>8 DEF Unfolds

LEMMA FindUnfolds ==
    ASSUME NEW m, NEW p \in Paths
    PROVE  \E search :
              /\ \A i \in 1..(Len(p) + 1) : search[i] = Level(search, i, m, p)
              /\ Find(m, p) = search[1][Root]
<1> DEFINE s == CHOOSE search : Unfolds(search, m, p)
<1>1. Unfolds(s, m, p)
  BY SearchExists, Zenon
<1>2. Find(m, p) = s[1][Root]
  BY Zenon DEF Find, Unfolds, Level
<1> HIDE DEF s
<1>3. \A i \in 1..(Len(p) + 1) : s[i] = Level(s, i, m, p)
  BY <1>1, Zenon DEF Unfolds
<1> QED
  BY <1>2, <1>3

-----------------------------------------------------------------------------
(* The root is in the tree, and the whole branch of a registered route. *)
BranchesKept == Root \in nodes /\ \A k \in 1..Len(registered) : Branch(registered[k]) \subseteq nodes

(* The route is a handler of the node. *)
EndsAt(r, n) == Place(r) = n /\ ~IsCatchAll(r)

(* The handlers of a node are in the order of registration. *)
InOrder ==
    \A n \in nodes : \E number \in [1..Len(handlers[n]) -> 1..Len(registered)] :
        /\ \A i \in 1..Len(handlers[n]) : handlers[n][i] = registered[number[i]] /\ EndsAt(registered[number[i]], n)
        /\ \A i, j \in 1..Len(handlers[n]) : i < j => number[i] < number[j]
        /\ \A k \in 1..Len(registered) : EndsAt(registered[k], n) => \E i \in 1..Len(handlers[n]) : number[i] = k

(* A parameter edge has the name that one of the routes through it gives the segment. *)
NamesEdge(r, n, names) == Append(n, ParamEdge) \in Branch(r) /\ names = {r.segs[Len(n) + 1].s}

NamesKept ==
    \A n \in nodes : Append(n, ParamEdge) \in nodes => \E k \in 1..Len(registered) : NamesEdge(registered[k], n, paramName[n])

(* The catch-all of a node is one that none has overwritten. *)
CatchAllsLast ==
    \A n \in nodes : \A r \in catchAll[n] :
        IsCatchAll(r) /\ \E k \in 1..Len(registered) : registered[k] = r /\ ~Overwritten(k)

SearchInv == IInv /\ BranchesKept /\ InOrder /\ NamesKept /\ CatchAllsLast

LEMMA InitSearchInv == Init => SearchInv
<1> SUFFICES ASSUME Init PROVE SearchInv
  OBVIOUS
<1>1. Len(registered) = 0 /\ \A n \in nodes : Len(handlers[n]) = 0
  BY EmptySeq DEF Init
<1>2. IInv
  BY InitInv
<1>3. BranchesKept
  BY <1>1 DEF BranchesKept, Init
<1>4. InOrder
  <2> SUFFICES ASSUME NEW n \in nodes
               PROVE  \E number \in [1..0 -> 1..0] : TRUE
    BY <1>1 DEF InOrder
  <2>1. [i \in 1..0 |-> i] \in [1..0 -> 1..0]
    OBVIOUS
  <2> QED
    BY <2>1
<1>6. CatchAllsLast
  BY DEF Init, CatchAllsLast
<1>5. NamesKept
  <2> SUFFICES ASSUME NEW n \in nodes, Append(n, ParamEdge) \in nodes
               PROVE  FALSE
    BY DEF NamesKept
  <2>1. n = <<>> /\ n \in Seq(Edges)
    BY EmptySeq DEF Init, Root
  <2>2. Append(n, ParamEdge) # <<>>
    BY <2>1, AppendProperties DEF Edges
  <2> QED
    BY <2>2 DEF Init, Root
<1> QED
  BY <1>2, <1>3, <1>4, <1>5, <1>6 DEF SearchInv

LEMMA InsertSearchInv ==
    ASSUME SearchInv, NEW r \in Routes, Insert(r)
    PROVE  SearchInv'
<1> DEFINE last == Len(registered) + 1
<1>1. IInv'
  BY InsertInv DEF SearchInv
<1>2. /\ Len(registered) \in Nat /\ Len(registered') = last /\ registered'[last] = r
      /\ \A k \in 1..Len(registered) : registered'[k] = registered[k] /\ registered[k] \in Routes
  BY AppendProperties, LenProperties, ElementOfSeq DEF SearchInv, IInv, WellFormed, Typed, Insert
<1>3. last \in 1..last /\ \A k \in 1..Len(registered) : k \in 1..last /\ k < last
  BY <1>2
<1>4. \A k \in 1..last : k \in 1..Len(registered) \/ k = last
  BY <1>2
<1>5. nodes' = nodes \cup Branch(r)
  BY DEF Insert
<1>6. BranchesKept'
  <2> SUFFICES ASSUME NEW k \in 1..Len(registered')
               PROVE  Branch(registered'[k]) \subseteq nodes'
    BY <1>5 DEF BranchesKept, SearchInv
  <2>1. CASE k \in 1..Len(registered)
    BY <2>1, <1>2, <1>5 DEF SearchInv, BranchesKept
  <2>2. CASE k = last
    BY <2>2, <1>2, <1>5
  <2> QED
    BY <1>2, <1>4, <2>1, <2>2
<1>7. ASSUME NEW n \in nodes'
      PROVE  \E number \in [1..Len(handlers'[n]) -> 1..Len(registered')] :
                /\ \A i \in 1..Len(handlers'[n]) : handlers'[n][i] = registered'[number[i]] /\ EndsAt(registered'[number[i]], n)
                /\ \A i, j \in 1..Len(handlers'[n]) : i < j => number[i] < number[j]
                /\ \A k \in 1..Len(registered') : EndsAt(registered'[k], n) => \E i \in 1..Len(handlers'[n]) : number[i] = k
  <2> DEFINE old == Earlier(n)
             adds == n = Place(r) /\ ~IsCatchAll(r)
  <2>1. old \in Seq(Routes) /\ handlers'[n] = IF adds THEN Append(old, r) ELSE old
    BY <1>7, InsertTyped DEF SearchInv, IInv
  <2>2. Len(old) \in Nat
    BY <2>1, LenProperties
  <2>3. PICK number \in [1..Len(old) -> 1..Len(registered)] :
           /\ \A i \in 1..Len(old) : old[i] = registered[number[i]] /\ EndsAt(registered[number[i]], n)
           /\ \A i, j \in 1..Len(old) : i < j => number[i] < number[j]
           /\ \A k \in 1..Len(registered) : EndsAt(registered[k], n) => \E i \in 1..Len(old) : number[i] = k
    <3>1. CASE n \in nodes
      BY <3>1 DEF SearchInv, InOrder, Earlier
    <3>2. CASE n \notin nodes
      <4>1. old = <<>> /\ Len(old) = 0
        BY <3>2, EmptySeq DEF Earlier
      <4>2. ASSUME NEW k \in 1..Len(registered)
            PROVE  ~EndsAt(registered[k], n)
        <5>1. registered[k] \in Routes
          BY <1>2
        <5>2. Place(registered[k]) \in Branch(registered[k])
          BY <5>1, PlaceInBranch
        <5> QED
          BY <5>2, <3>2 DEF SearchInv, BranchesKept, EndsAt
      <4> DEFINE none == [i \in 1..Len(old) |-> i]
      <4>3. \A i \in 1..Len(old) : FALSE
        BY <4>1
      <4>4. none \in [1..Len(old) -> 1..Len(registered)]
        BY <4>3
      <4> HIDE DEF none, old
      <4> QED
        BY <4>2, <4>3, <4>4
    <3> QED
      BY <3>1, <3>2
  <2>4. \A k \in 1..Len(registered) : EndsAt(registered'[k], n) <=> EndsAt(registered[k], n)
    BY <1>2 DEF EndsAt
  <2>5. EndsAt(registered'[last], n) <=> adds
    BY <1>2 DEF EndsAt
  <2> HIDE DEF old
  <2>6. CASE ~adds
    <3>1. handlers'[n] = old
      BY <2>1, <2>6
    <3>2. number \in [1..Len(old) -> 1..Len(registered')]
      BY <1>2, <1>3
    <3>3. \A i \in 1..Len(old) : old[i] = registered'[number[i]] /\ EndsAt(registered'[number[i]], n)
      BY <1>2, <2>3, <2>4
    <3>4. \A k \in 1..Len(registered') : EndsAt(registered'[k], n) => \E i \in 1..Len(old) : number[i] = k
      BY <1>2, <1>4, <2>3, <2>4, <2>5, <2>6
    <3> QED
      BY <2>3, <3>1, <3>2, <3>3, <3>4
  <2>7. CASE adds
    <3> DEFINE next == Len(old) + 1
               more == [i \in 1..next |-> IF i = next THEN last ELSE number[i]]
    <3>1. /\ handlers'[n] = Append(old, r) /\ Len(Append(old, r)) = next /\ Append(old, r)[next] = r
          /\ \A i \in 1..Len(old) : Append(old, r)[i] = old[i]
      BY <2>1, <2>7, AppendProperties
    <3>2. \A i \in 1..next : (i \in 1..Len(old) /\ i # next) \/ i = next
      BY <2>2
    <3>3. next \in 1..next /\ \A i \in 1..Len(old) : i \in 1..next /\ i # next
      BY <2>2
    <3>4. more[next] = last /\ \A i \in 1..Len(old) : more[i] = number[i] /\ number[i] \in 1..Len(registered)
      BY <3>3
    <3>5. more \in [1..next -> 1..last]
      BY <1>3, <3>2, <3>4
    <3> HIDE DEF more
    <3>6. \A i \in 1..next : handlers'[n][i] = registered'[more[i]] /\ EndsAt(registered'[more[i]], n)
      <4> SUFFICES ASSUME NEW i \in 1..next
                   PROVE  handlers'[n][i] = registered'[more[i]] /\ EndsAt(registered'[more[i]], n)
        OBVIOUS
      <4>1. CASE i = next
        BY <4>1, <1>2, <2>5, <2>7, <3>1, <3>4
      <4>2. CASE i \in 1..Len(old)
        BY <4>2, <1>2, <2>3, <2>4, <3>1, <3>4
      <4> QED
        BY <3>2, <4>1, <4>2
    <3>7. \A i, j \in 1..next : i < j => more[i] < more[j]
      <4> SUFFICES ASSUME NEW i \in 1..next, NEW j \in 1..next, i < j
                   PROVE  more[i] < more[j]
        OBVIOUS
      <4>1. i \in 1..Len(old)
        BY <2>2
      <4>2. CASE j = next
        BY <4>1, <4>2, <1>3, <3>4
      <4>3. CASE j \in 1..Len(old)
        BY <4>1, <4>3, <2>3, <3>4
      <4> QED
        BY <3>2, <4>2, <4>3
    <3>8. ASSUME NEW k \in 1..Len(registered'), EndsAt(registered'[k], n)
          PROVE  \E i \in 1..next : more[i] = k
      <4>1. CASE k = last
        BY <4>1, <3>3, <3>4
      <4>2. CASE k \in 1..Len(registered)
        <5>1. PICK i \in 1..Len(old) : number[i] = k
          BY <3>8, <4>2, <2>3, <2>4
        <5> QED
          BY <5>1, <3>3, <3>4
      <4> QED
        BY <1>2, <1>4, <4>1, <4>2
    <3>9. Len(handlers'[n]) = next /\ Len(registered') = last
      BY <1>2, <3>1
    <3> HIDE DEF next, last
    <3> QED
      BY <3>5, <3>6, <3>7, <3>8, <3>9
  <2> QED
    BY <2>6, <2>7
<1>8. InOrder'
  BY <1>7 DEF InOrder
<1>9. ASSUME NEW n \in nodes', Append(n, ParamEdge) \in nodes'
      PROVE  \E k \in 1..Len(registered') : NamesEdge(registered'[k], n, paramName'[n])
  <2> DEFINE c == Append(n, ParamEdge)
  <2>1. paramName'[n] = NamesAfter(r, n)
    BY <1>9 DEF Insert
  <2>2. n \in Seq(Edges)
    BY <1>1, <1>9 DEF IInv, WellFormed, Typed
  <2>3. c \in Branch(r) <=> n \in Branch(r) /\ Len(n) + 1 <= Depth(r) /\ r.segs[Len(n) + 1].k = "param"
    BY <2>2, ParamOnBranch
  <2>4. CASE c \in nodes
    <3>1. n \in nodes
      <4>1. c # Root /\ Upto(c, Len(c) - 1) = n
        BY <2>2, UptoAppend DEF Edges
      <4> QED
        BY <4>1, <2>4 DEF SearchInv, IInv, WellFormed, TypeOK
    <3>2. paramName'[n] = paramName[n]
      BY <2>1, <2>4, <3>1 DEF NamesAfter
    <3>3. PICK k \in 1..Len(registered) : NamesEdge(registered[k], n, paramName[n])
      BY <2>4, <3>1 DEF SearchInv, NamesKept
    <3>4. registered'[k] = registered[k] /\ k \in 1..Len(registered')
      BY <1>2, <1>3
    <3> QED
      BY <3>2, <3>3, <3>4 DEF NamesEdge
  <2>5. CASE c \notin nodes
    <3>1. c \in Branch(r)
      BY <1>5, <1>9, <2>5
    <3>2. paramName'[n] = {r.segs[Len(n) + 1].s}
      BY <2>1, <2>3, <2>5, <3>1 DEF NamesAfter
    <3>3. NamesEdge(registered'[last], n, paramName'[n])
      BY <1>2, <3>1, <3>2 DEF NamesEdge
    <3> QED
      BY <1>2, <1>3, <3>3
  <2> QED
    BY <2>4, <2>5
<1>10. NamesKept'
  BY <1>9 DEF NamesKept
<1>11. ASSUME NEW n \in nodes', NEW s \in catchAll'[n]
       PROVE  IsCatchAll(s) /\ \E k \in 1..Len(registered') : registered'[k] = s /\ ~Overwritten(k)'
  <2>1. catchAll'[n] = IF n = Place(r) /\ IsCatchAll(r) THEN {r} ELSE IF n \in nodes THEN catchAll[n] ELSE {}
    BY <1>11 DEF Insert
  <2>2. CASE n = Place(r) /\ IsCatchAll(r)
    <3>1. PICK k \in 1..Len(registered') : k = last
      BY <1>2, <1>3
    <3>2. ~Overwritten(k)'
      BY <1>2, <3>1 DEF Overwritten
    <3> QED
      BY <1>2, <2>1, <2>2, <3>1, <3>2
  <2>3. CASE ~(n = Place(r) /\ IsCatchAll(r))
    <3>1. n \in nodes /\ s \in catchAll[n]
      BY <1>11, <2>1, <2>3
    <3>2. PICK k \in 1..Len(registered) : registered[k] = s /\ ~Overwritten(k)
      BY <3>1 DEF SearchInv, CatchAllsLast
    <3>3. IsCatchAll(s) /\ Place(s) = n
      BY <3>1 DEF SearchInv, CatchAllsLast, IInv, TreeHoldsTheRoutes
    <3>4. k \in 1..Len(registered') /\ registered'[k] = s
      BY <1>2, <1>3, <3>2
    <3>5. ASSUME Overwritten(k)'
          PROVE  FALSE
      <4>1. PICK l \in (k + 1)..last : IsCatchAll(registered'[l]) /\ Place(registered'[l]) = Place(registered'[k])
        BY <1>2, <3>5 DEF Overwritten
      <4>2. CASE l = last
        BY <1>2, <2>3, <3>3, <3>4, <4>1, <4>2
      <4>3. CASE l # last
        <5>1. l \in (k + 1)..Len(registered) /\ l \in 1..Len(registered)
          BY <1>2, <4>1, <4>3
        <5>2. registered'[l] = registered[l]
          BY <1>2, <5>1
        <5> QED
          BY <3>2, <3>3, <3>4, <4>1, <5>1, <5>2 DEF Overwritten
      <4> QED
        BY <4>2, <4>3
    <3> QED
      BY <3>3, <3>4, <3>5
  <2> QED
    BY <2>2, <2>3
<1>12. CatchAllsLast'
  BY <1>11 DEF CatchAllsLast
<1> QED
  BY <1>1, <1>6, <1>8, <1>10, <1>12 DEF SearchInv

LEMMA SearchInvariance == Spec => []SearchInv
<1>1. SearchInv /\ UNCHANGED vars => SearchInv'
  <2> SUFFICES ASSUME SearchInv, UNCHANGED vars
               PROVE  SearchInv'
    OBVIOUS
  <2>1. IInv'
    BY DEF SearchInv, IInv, WellFormed, Typed, TypeOK, TreeHoldsTheRoutes, Overwritten, vars
  <2>2. BranchesKept' /\ NamesKept'
    BY DEF SearchInv, BranchesKept, NamesKept, vars
  <2>3. InOrder'
    BY DEF SearchInv, InOrder, vars
  <2>4. CatchAllsLast'
    BY DEF SearchInv, CatchAllsLast, Overwritten, vars
  <2> QED
    BY <2>1, <2>2, <2>3, <2>4 DEF SearchInv
<1>2. SearchInv /\ [Next]_vars => SearchInv'
  BY <1>1, InsertSearchInv DEF Next
<1> QED
  BY InitSearchInv, <1>2, PTL DEF Spec

-----------------------------------------------------------------------------
(* Before its catch-all a pattern has literals and parameters only. *)
LEMMA SegmentKinds ==
    ASSUME NEW r \in Routes, NEW i \in 1..Depth(r)
    PROVE  \/ r.segs[i].k = "static" /\ Place(r)[i] = StaticEdge(r.segs[i].s)
           \/ r.segs[i].k = "param" /\ Place(r)[i] = ParamEdge
<1>1. /\ Len(r.segs) \in Nat /\ i \in 1..Len(r.segs) /\ Place(r)[i] = EdgeOf(r.segs[i])
      /\ IsCatchAll(r) => i < Len(r.segs)
  BY RoutesAssumption, DepthType, PlaceType DEF Depth
<1>2. r.segs[i].k # "all"
  <2> SUFFICES ASSUME r.segs[i].k = "all" PROVE FALSE
    OBVIOUS
  <2>1. i = Len(r.segs)
    BY <1>1, RoutesAssumption
  <2>2. r.segs # <<>>
    BY <1>1
  <2> QED
    BY <1>1, <2>1, <2>2 DEF IsCatchAll
<1> QED
  BY <1>1, <1>2, RoutesAssumption DEF EdgeOf

LEMMA GradeType ==
    ASSUME NEW r \in Routes, NEW i \in Nat \ {0}
    PROVE  /\ Grade(r, i) \in 0..2
           /\ i > Len(r.segs) => Grade(r, i) = 0
           /\ i \in 1..Len(r.segs) => Grade(r, i) = IF r.segs[i].k = "static" THEN 0
                                                    ELSE IF r.segs[i].k = "param" THEN 1 ELSE 2
<1>1. Len(r.segs) \in Nat
  BY RoutesAssumption
<1>2. CASE i > Len(r.segs)
  BY <1>1, <1>2 DEF Grade
<1>3. CASE i <= Len(r.segs)
  <2>1. r.segs[i].k \in {"static", "param", "all"}
    BY <1>1, <1>3, RoutesAssumption
  <2> QED
    BY <1>1, <1>3, <2>1 DEF Grade
<1> QED
  BY <1>1, <1>2, <1>3

(* What a pattern is graded behind its place. *)
LEMMA GradeAtEnd ==
    ASSUME NEW r \in Routes
    PROVE  Grade(r, Depth(r) + 1) = IF IsCatchAll(r) THEN 2 ELSE 0
<1>1. Len(r.segs) \in Nat /\ Depth(r) \in Nat /\ Depth(r) + 1 \in Nat \ {0}
  BY RoutesAssumption, DepthType
<1>2. CASE IsCatchAll(r)
  <2>1. Depth(r) + 1 = Len(r.segs) /\ Depth(r) + 1 \in 1..Len(r.segs)
    BY <1>1, <1>2 DEF Depth
  <2>2. r.segs[Depth(r) + 1].k = "all"
    BY <1>2, <2>1 DEF IsCatchAll
  <2> QED
    BY <1>1, <1>2, <2>1, <2>2, GradeType
<1>3. CASE ~IsCatchAll(r)
  BY <1>1, <1>3, GradeType DEF Depth
<1> QED
  BY <1>2, <1>3

(* The place of the route is the node or below it. *)
Under(r, n) == Len(n) <= Depth(r) /\ \A j \in 1..Len(n) : Place(r)[j] = n[j]

LEMMA SameEdge ==
    ASSUME NEW r \in Routes, NEW s \in Routes, NEW i \in 1..Depth(r), i <= Depth(s), Place(r)[i] = Place(s)[i]
    PROVE  Grade(r, i) = Grade(s, i)
<1>1. i \in 1..Depth(s) /\ i \in 1..Len(r.segs) /\ i \in 1..Len(s.segs) /\ i \in Nat \ {0}
  BY DepthType, RoutesAssumption
<1>2. r.segs[i].k = s.segs[i].k
  <2>1. ParamEdge.k = "param" /\ \A x : StaticEdge(x).k = "static"
    BY DEF ParamEdge, StaticEdge
  <2>2. Place(r)[i].k = r.segs[i].k
    BY <2>1, SegmentKinds
  <2>3. Place(s)[i].k = s.segs[i].k
    BY <1>1, <2>1, SegmentKinds
  <2> QED
    BY <2>2, <2>3
<1>3. Grade(r, i) = IF r.segs[i].k = "static" THEN 0 ELSE IF r.segs[i].k = "param" THEN 1 ELSE 2
  BY <1>1, GradeType
<1>4. Grade(s, i) = IF s.segs[i].k = "static" THEN 0 ELSE IF s.segs[i].k = "param" THEN 1 ELSE 2
  BY <1>1, GradeType
<1> QED
  BY <1>2, <1>3, <1>4

(* Of two routes below a node the segment behind it decides. *)
LEMMA NextDecides ==
    ASSUME NEW r \in Routes, NEW s \in Routes, NEW n \in Seq(Edges), Under(r, n), Under(s, n),
           Grade(r, Len(n) + 1) < Grade(s, Len(n) + 1)
    PROVE  MoreSpecific(r, s)
<1> DEFINE d == Len(n) + 1
<1>1. Len(n) \in Nat /\ d \in Nat \ {0}
  BY LenProperties
<1>2. Len(r.segs) \in Nat /\ Len(s.segs) \in Nat /\ Depth(r) \in Nat /\ Depth(s) \in Nat
  BY RoutesAssumption, DepthType
<1>3. \A j \in 1..(d - 1) : Grade(r, j) = Grade(s, j)
  <2> SUFFICES ASSUME NEW j \in 1..Len(n)
               PROVE  Grade(r, j) = Grade(s, j)
    BY <1>1
  <2>1. j \in 1..Depth(r) /\ j <= Depth(s) /\ Place(r)[j] = Place(s)[j]
    BY <1>1, <1>2 DEF Under
  <2> QED
    BY <2>1, SameEdge
<1>4. Grade(r, d) \in 0..2 /\ (d > Len(s.segs) => Grade(s, d) = 0)
  BY <1>1, GradeType
<1>5. d <= Len(s.segs)
  BY <1>1, <1>2, <1>4
<1>6. d \in 1..Longest(r, s)
  BY <1>1, <1>2, <1>5 DEF Longest
<1> QED
  BY <1>3, <1>6 DEF MoreSpecific

LEMMA Asymmetric ==
    ASSUME NEW r \in Routes, NEW s \in Routes, MoreSpecific(r, s), MoreSpecific(s, r)
    PROVE  FALSE
<1>1. PICK i \in 1..Longest(r, s) : Grade(r, i) < Grade(s, i) /\ \A j \in 1..(i - 1) : Grade(r, j) = Grade(s, j)
  BY DEF MoreSpecific
<1>2. PICK l \in 1..Longest(s, r) : Grade(s, l) < Grade(r, l) /\ \A j \in 1..(l - 1) : Grade(s, j) = Grade(r, j)
  BY DEF MoreSpecific
<1>3. i \in Nat \ {0} /\ l \in Nat \ {0}
  BY <1>1, <1>2
<1>4. Grade(r, i) \in 0..2 /\ Grade(s, i) \in 0..2 /\ Grade(r, l) \in 0..2 /\ Grade(s, l) \in 0..2
  BY <1>3, GradeType
<1>5. CASE i = l
  BY <1>1, <1>2, <1>4, <1>5
<1>6. CASE i < l
  BY <1>1, <1>2, <1>3, <1>4, <1>6
<1>7. CASE l < i
  BY <1>1, <1>2, <1>3, <1>4, <1>7
<1> QED
  BY <1>3, <1>5, <1>6, <1>7

(* Routes that end at one node are equally special. *)
LEMMA SamePlaceEqual ==
    ASSUME NEW r \in Routes, NEW s \in Routes, ~IsCatchAll(r), ~IsCatchAll(s), Place(r) = Place(s)
    PROVE  ~MoreSpecific(r, s)
<1>1. Len(r.segs) \in Nat /\ Depth(r) = Len(r.segs) /\ Depth(s) = Len(s.segs)
  BY RoutesAssumption DEF Depth
<1>2. Depth(r) = Depth(s)
  BY PlaceType
<1>3. Longest(r, s) = Depth(r)
  BY <1>1, <1>2 DEF Longest
<1>4. ASSUME NEW i \in 1..Depth(r)
      PROVE  Grade(r, i) = Grade(s, i) /\ Grade(r, i) \in 0..2
  <2>1. i \in Nat \ {0} /\ i <= Depth(s)
    BY <1>1, <1>2
  <2> QED
    BY <2>1, SameEdge, GradeType
<1> QED
  BY <1>3, <1>4 DEF MoreSpecific

-----------------------------------------------------------------------------
LEMMA Appended ==
    ASSUME NEW n \in Seq(Edges), NEW e
    PROVE  /\ Len(n) \in Nat /\ Len(Append(n, e)) = Len(n) + 1 /\ Append(n, e)[Len(n) + 1] = e
           /\ \A j \in 1..Len(n) : Append(n, e)[j] = n[j]
<1>1. n \in Seq(Edges \cup {e})
  BY SeqMonotonic
<1> QED
  BY <1>1, AppendProperties, LenProperties

LEMMA UnderChild ==
    ASSUME NEW r \in Routes, NEW n \in Seq(Edges), NEW e
    PROVE  Under(r, Append(n, e)) <=> Under(r, n) /\ Len(n) + 1 <= Depth(r) /\ Place(r)[Len(n) + 1] = e
<1> DEFINE c == Append(n, e)
           d == Len(n) + 1
<1>1. Len(n) \in Nat /\ Len(c) = d /\ c[d] = e /\ \A j \in 1..Len(n) : c[j] = n[j]
  BY Appended
<1>2. \A j \in 1..d : j \in 1..Len(n) \/ j = d
  BY <1>1
<1>3. d \in 1..d /\ Depth(r) \in Nat /\ \A j \in 1..Len(n) : j \in 1..d
  BY <1>1, DepthType
<1> HIDE DEF c
<1>4. ASSUME Under(r, c)
      PROVE  Under(r, n) /\ d <= Depth(r) /\ Place(r)[d] = e
  BY <1>1, <1>3, <1>4 DEF Under
<1>5. ASSUME Under(r, n), d <= Depth(r), Place(r)[d] = e
      PROVE  Under(r, c)
  BY <1>1, <1>2, <1>3, <1>5 DEF Under
<1> QED
  BY <1>4, <1>5 DEF c

(* The next node on the way to the place of a route is on its branch. *)
LEMMA NextOnBranch ==
    ASSUME NEW r \in Routes, NEW n \in Seq(Edges), NEW e, Under(r, Append(n, e))
    PROVE  Append(n, e) \in Branch(r)
<1> DEFINE c == Append(n, e)
           d == Len(n) + 1
<1>1. d <= Depth(r) /\ Place(r)[d] = e
  BY UnderChild
<1>2. Len(n) \in Nat /\ Depth(r) \in Nat /\ Len(c) = d
  BY Appended, DepthType
<1>3. d \in 0..Depth(r) /\ d \in 1..Len(Place(r))
  BY <1>1, <1>2, PlaceType
<1>4. e \in Edges
  BY <1>1, <1>3, PlaceType, ElementOfSeq
<1>5. c \in Seq(Edges)
  BY <1>4, AppendProperties
<1>6. /\ Upto(Place(r), d) \in Seq(Edges) /\ Len(Upto(Place(r), d)) = d
      /\ \A j \in 1..d : Upto(Place(r), d)[j] = Place(r)[j]
  BY <1>3, BranchPrefix
<1>7. \A j \in 1..d : c[j] = Upto(Place(r), d)[j]
  BY <1>2, <1>6 DEF Under
<1>8. c = Upto(Place(r), d)
  BY <1>2, <1>5, <1>6, <1>7, SeqEqual
<1> QED
  BY <1>3, <1>8 DEF Branch

(* A place is the node where it is as long. *)
LEMMA PlaceIsNode ==
    ASSUME NEW r \in Routes, NEW n \in Seq(Edges)
    PROVE  Place(r) = n <=> Under(r, n) /\ Depth(r) = Len(n)
<1>1. Place(r) \in Seq(Edges) /\ Len(Place(r)) = Depth(r) /\ Depth(r) \in Nat
  BY PlaceType, DepthType
<1>2. ASSUME Under(r, n), Depth(r) = Len(n)
      PROVE  Place(r) = n
  BY <1>1, <1>2, SeqEqual DEF Under
<1> QED
  BY <1>1, <1>2 DEF Under

LEMMA Registered ==
    ASSUME SearchInv
    PROVE  Len(registered) \in Nat /\ \A k \in 1..Len(registered) : registered[k] \in Routes
BY LenProperties, ElementOfSeq DEF SearchInv, IInv, WellFormed, Typed

LEMMA NodesTyped == SearchInv => nodes \subseteq Seq(Edges)
BY DEF SearchInv, IInv, WellFormed, Typed

-----------------------------------------------------------------------------
(* The search is at the node after i - 1 segments of the path. *)
Reached(n, i, p) ==
    /\ n \in nodes /\ Len(n) = i - 1
    /\ \A j \in 1..(i - 1) : n[j] = ParamEdge \/ n[j] = StaticEdge(p[j])

(* The candidates at or below a node, and the catch-alls of the node among them. *)
Below(n, m, p) == {k \in Candidates(m, p) : Under(registered[k], n)}
Tails(n, m, p) == {k \in Candidates(m, p) : IsCatchAll(registered[k]) /\ Place(registered[k]) = n}

LEMMA CandidateFacts ==
    ASSUME SearchInv, NEW m, NEW p \in Paths, NEW k \in Candidates(m, p)
    PROVE  /\ k \in 1..Len(registered) /\ registered[k] \in Routes /\ registered[k].method = m
           /\ Len(p) \in Nat /\ Depth(registered[k]) \in Nat /\ Depth(registered[k]) <= Len(p)
           /\ ~IsCatchAll(registered[k]) => Depth(registered[k]) = Len(p)
           /\ \A i \in 1..Depth(registered[k]) :
                 Place(registered[k])[i] = ParamEdge \/ Place(registered[k])[i] = StaticEdge(p[i])
<1> DEFINE r == registered[k]
<1>1. k \in 1..Len(registered) /\ r \in Routes /\ r.method = m /\ Matches(r, p)
  BY Registered DEF Candidates
<1>2. Len(p) \in Nat /\ Depth(r) \in Nat
  BY <1>1, PathsAssumption, DepthType
<1>3. Depth(r) <= Len(p) /\ (~IsCatchAll(r) => Depth(r) = Len(p))
  BY <1>1, <1>2 DEF Matches
<1>4. ASSUME NEW i \in 1..Depth(r)
      PROVE  Place(r)[i] = ParamEdge \/ Place(r)[i] = StaticEdge(p[i])
  <2>1. SegmentMatches(r.segs[i], p[i])
    BY <1>1 DEF Matches
  <2>2. CASE r.segs[i].k = "static" /\ Place(r)[i] = StaticEdge(r.segs[i].s)
    BY <2>1, <2>2 DEF SegmentMatches
  <2>3. CASE r.segs[i].k = "param" /\ Place(r)[i] = ParamEdge
    BY <2>3
  <2> QED
    BY <1>1, <2>2, <2>3, SegmentKinds
<1> QED
  BY <1>1, <1>2, <1>3, <1>4

(* Where the candidates below a node are: behind its literal child, behind its parameter *)
(* child, or catch-alls of the node itself.                                              *)
LEMMA Partition ==
    ASSUME SearchInv, NEW m, NEW p \in Paths, NEW i \in 1..Len(p), NEW n, Reached(n, i, p)
    PROVE  /\ \A k \in Below(n, m, p) :
                 \/ k \in Below(Append(n, StaticEdge(p[i])), m, p) /\ Append(n, StaticEdge(p[i])) \in nodes
                 \/ k \in Below(Append(n, ParamEdge), m, p) /\ Append(n, ParamEdge) \in nodes
                 \/ k \in Tails(n, m, p)
           /\ Below(Append(n, StaticEdge(p[i])), m, p) \subseteq Below(n, m, p)
           /\ Below(Append(n, ParamEdge), m, p) \subseteq Below(n, m, p)
           /\ Tails(n, m, p) \subseteq Below(n, m, p)
<1> DEFINE literal == Append(n, StaticEdge(p[i]))
           child == Append(n, ParamEdge)
<1>1. n \in Seq(Edges) /\ Len(n) + 1 = i /\ i \in Nat /\ Len(n) \in Nat
  BY NodesTyped, LenProperties, PathsAssumption DEF Reached
<1>2. ASSUME NEW k \in Below(n, m, p)
      PROVE  \/ k \in Below(literal, m, p) /\ literal \in nodes
             \/ k \in Below(child, m, p) /\ child \in nodes
             \/ k \in Tails(n, m, p)
  <2> DEFINE r == registered[k]
  <2>1. /\ k \in Candidates(m, p) /\ k \in 1..Len(registered) /\ r \in Routes /\ Under(r, n) /\ Depth(r) \in Nat
        /\ Len(p) \in Nat /\ (~IsCatchAll(r) => Depth(r) = Len(p))
        /\ \A j \in 1..Depth(r) : Place(r)[j] = ParamEdge \/ Place(r)[j] = StaticEdge(p[j])
    BY CandidateFacts DEF Below
  <2>2. CASE Depth(r) = Len(n)
    <3>1. IsCatchAll(r)
      BY <1>1, <2>1, <2>2
    <3>2. Place(r) = n
      BY <1>1, <2>1, <2>2, PlaceIsNode
    <3> QED
      BY <2>1, <3>1, <3>2 DEF Tails
  <2>3. CASE Depth(r) # Len(n)
    <3>1. i <= Depth(r) /\ i \in 1..Depth(r)
      BY <1>1, <2>1, <2>3 DEF Under
    <3>2. CASE Place(r)[i] = StaticEdge(p[i])
      <4>1. Under(r, literal)
        BY <1>1, <2>1, <3>1, <3>2, UnderChild
      <4>2. literal \in Branch(r)
        BY <1>1, <2>1, <4>1, NextOnBranch
      <4> QED
        BY <2>1, <4>1, <4>2 DEF Below, SearchInv, BranchesKept
    <3>3. CASE Place(r)[i] = ParamEdge
      <4>1. Under(r, child)
        BY <1>1, <2>1, <3>1, <3>3, UnderChild
      <4>2. child \in Branch(r)
        BY <1>1, <2>1, <4>1, NextOnBranch
      <4> QED
        BY <2>1, <4>1, <4>2 DEF Below, SearchInv, BranchesKept
    <3> QED
      BY <2>1, <3>1, <3>2, <3>3
  <2> QED
    BY <2>2, <2>3
<1>3. ASSUME NEW e
      PROVE  Below(Append(n, e), m, p) \subseteq Below(n, m, p)
  <2> SUFFICES ASSUME NEW k \in Candidates(m, p), Under(registered[k], Append(n, e))
               PROVE  Under(registered[k], n)
    BY DEF Below
  <2> QED
    BY <1>1, CandidateFacts, UnderChild
<1>4. Tails(n, m, p) \subseteq Below(n, m, p)
  <2> SUFFICES ASSUME NEW k \in Candidates(m, p), Place(registered[k]) = n
               PROVE  Under(registered[k], n)
    BY DEF Below, Tails
  <2> QED
    BY <1>1, CandidateFacts, PlaceIsNode
<1> QED
  BY <1>2, <1>3, <1>4

(* How special the three kinds are at the segment behind the node. *)
LEMMA ChildFacts ==
    ASSUME SearchInv, NEW m, NEW p \in Paths, NEW n \in nodes, NEW e, NEW k \in Below(Append(n, e), m, p)
    PROVE  /\ registered[k] \in Routes /\ Len(n) + 1 \in 1..Depth(registered[k])
           /\ Len(n) + 1 \in 1..Len(registered[k].segs) /\ Len(n) + 1 \in Nat \ {0}
           /\ Place(registered[k])[Len(n) + 1] = e
<1> DEFINE r == registered[k]
<1>1. n \in Seq(Edges) /\ Len(n) \in Nat
  BY NodesTyped, LenProperties
<1>2. r \in Routes /\ Under(r, Append(n, e))
  BY CandidateFacts DEF Below
<1>3. Len(n) + 1 <= Depth(r) /\ Place(r)[Len(n) + 1] = e
  BY <1>1, <1>2, UnderChild
<1>4. Depth(r) \in Nat /\ Depth(r) <= Len(r.segs) /\ Len(r.segs) \in Nat
  BY <1>2, DepthType, RoutesAssumption
<1> QED
  BY <1>1, <1>2, <1>3, <1>4

LEMMA LiteralGraded ==
    ASSUME SearchInv, NEW m, NEW p \in Paths, NEW n \in nodes, NEW x, NEW k \in Below(Append(n, StaticEdge(x)), m, p)
    PROVE  registered[k].segs[Len(n) + 1].k = "static" /\ Grade(registered[k], Len(n) + 1) = 0
<1> DEFINE r == registered[k]
           d == Len(n) + 1
<1>1. r \in Routes /\ d \in 1..Depth(r) /\ d \in 1..Len(r.segs) /\ d \in Nat \ {0} /\ Place(r)[d] = StaticEdge(x)
  BY ChildFacts
<1>2. ParamEdge.k = "param" /\ StaticEdge(x).k = "static"
  BY DEF ParamEdge, StaticEdge
<1>3. r.segs[d].k = "static"
  BY <1>1, <1>2, SegmentKinds
<1> QED
  BY <1>1, <1>3, GradeType

LEMMA ParamGraded ==
    ASSUME SearchInv, NEW m, NEW p \in Paths, NEW n \in nodes, NEW k \in Below(Append(n, ParamEdge), m, p)
    PROVE  registered[k].segs[Len(n) + 1].k = "param" /\ Grade(registered[k], Len(n) + 1) = 1
<1> DEFINE r == registered[k]
           d == Len(n) + 1
<1>1. r \in Routes /\ d \in 1..Depth(r) /\ d \in 1..Len(r.segs) /\ d \in Nat \ {0} /\ Place(r)[d] = ParamEdge
  BY ChildFacts
<1>2. ParamEdge.k = "param" /\ \A x : StaticEdge(x).k = "static"
  BY DEF ParamEdge, StaticEdge
<1>3. r.segs[d].k = "param"
  BY <1>1, <1>2, SegmentKinds
<1> QED
  BY <1>1, <1>3, GradeType

LEMMA TailsGraded ==
    ASSUME SearchInv, NEW m, NEW p \in Paths, NEW n \in nodes, NEW k \in Tails(n, m, p)
    PROVE  Depth(registered[k]) = Len(n) /\ Grade(registered[k], Len(n) + 1) = 2
<1>1. registered[k] \in Routes /\ IsCatchAll(registered[k]) /\ Place(registered[k]) = n
  BY CandidateFacts DEF Tails
<1>2. Depth(registered[k]) = Len(n)
  BY <1>1, PlaceType
<1> QED
  BY <1>1, <1>2, GradeAtEnd

-----------------------------------------------------------------------------
(* There is one candidate among the catch-alls of a node if the node's catch-all has the *)
(* method, and none otherwise.                                                           *)
LEMMA TailsFound ==
    ASSUME SearchInv, NEW m, NEW p \in Paths, NEW n \in nodes, NEW i \in 1..(Len(p) + 1), Reached(n, i, p)
    PROVE  \/ Tails(n, m, p) = {} /\ CatchAllOf(n, m) = {}
           \/ \E k : Tails(n, m, p) = {k} /\ CatchAllOf(n, m) = {registered[k]}
<1>1. /\ Len(p) \in Nat /\ n \in Seq(Edges) /\ Len(n) = i - 1 /\ Len(n) \in Nat /\ i \in Nat
      /\ \A j \in 1..Len(n) : n[j] = ParamEdge \/ n[j] = StaticEdge(p[j])
  BY PathsAssumption, NodesTyped, LenProperties DEF Reached
<1>2. ASSUME NEW k \in Tails(n, m, p)
      PROVE  catchAll[n] = {registered[k]} /\ CatchAllOf(n, m) = {registered[k]}
  <2>1. /\ k \in 1..Len(registered) /\ ~Overwritten(k) /\ IsCatchAll(registered[k])
        /\ Place(registered[k]) = n /\ registered[k].method = m
    BY DEF Tails, Candidates
  <2>2. catchAll[n] = {registered[k]}
    BY <2>1 DEF SearchInv, IInv, TreeHoldsTheRoutes
  <2> QED
    BY <2>1, <2>2 DEF CatchAllOf
<1>3. ASSUME NEW k \in Tails(n, m, p), NEW l \in Tails(n, m, p), k < l
      PROVE  FALSE
  <2>1. /\ k \in 1..Len(registered) /\ l \in 1..Len(registered) /\ ~Overwritten(k)
        /\ IsCatchAll(registered[k]) /\ IsCatchAll(registered[l]) /\ Place(registered[l]) = Place(registered[k])
    BY DEF Tails, Candidates
  <2>2. l \in (k + 1)..Len(registered)
    BY <1>3, <2>1, Registered
  <2> QED
    BY <2>1, <2>2 DEF Overwritten
<1>4. \A k \in Tails(n, m, p) : k \in Nat
  BY Registered DEF Tails, Candidates
<1>5. \A k, l \in Tails(n, m, p) : k = l
  BY <1>3, <1>4
<1>6. ASSUME NEW r \in CatchAllOf(n, m)
      PROVE  Tails(n, m, p) # {}
  <2>1. r \in catchAll[n] /\ r.method = m
    BY DEF CatchAllOf
  <2>2. IsCatchAll(r) /\ Place(r) = n /\ \E k \in 1..Len(registered) : registered[k] = r /\ ~Overwritten(k)
    BY <2>1 DEF SearchInv, CatchAllsLast, IInv, TreeHoldsTheRoutes
  <2>3. PICK k \in 1..Len(registered) : registered[k] = r /\ ~Overwritten(k)
    BY <2>2
  <2>4. r \in Routes /\ Depth(r) = Len(n)
    BY <2>2, <2>3, Registered, PlaceType
  <2>5. ASSUME NEW j \in 1..Depth(r)
        PROVE  SegmentMatches(r.segs[j], p[j])
    <3>1. Place(r)[j] = n[j] /\ (n[j] = ParamEdge \/ n[j] = StaticEdge(p[j]))
      BY <1>1, <2>2, <2>4
    <3>2. ParamEdge.k = "param" /\ \A x : StaticEdge(x).k = "static" /\ StaticEdge(x).s = x
      BY DEF ParamEdge, StaticEdge
    <3>3. CASE r.segs[j].k = "static" /\ Place(r)[j] = StaticEdge(r.segs[j].s)
      BY <3>1, <3>2, <3>3 DEF SegmentMatches
    <3>4. CASE r.segs[j].k = "param"
      BY <3>4 DEF SegmentMatches
    <3> QED
      BY <2>4, <3>3, <3>4, SegmentKinds
  <2>6. Len(p) >= Depth(r)
    BY <1>1, <2>4
  <2>7. Matches(r, p)
    BY <2>2, <2>5, <2>6 DEF Matches
  <2>8. k \in Tails(n, m, p)
    BY <2>1, <2>2, <2>3, <2>7 DEF Tails, Candidates
  <2> QED
    BY <2>8
<1>7. CASE Tails(n, m, p) = {}
  BY <1>6, <1>7
<1>8. CASE Tails(n, m, p) # {}
  <2>1. PICK k : k \in Tails(n, m, p)
    BY <1>8
  <2>2. Tails(n, m, p) = {k}
    BY <1>5, <2>1
  <2> QED
    BY <1>2, <2>1, <2>2
<1> QED
  BY <1>7, <1>8

(* At the end of the path the candidates are the handlers of the node and its catch-all; *)
(* the handler that is found is the one registered first.                                 *)
Ended(n, m, p) == {k \in Candidates(m, p) : EndsAt(registered[k], n)}

LEMMA EndPartition ==
    ASSUME SearchInv, NEW m, NEW p \in Paths, NEW n \in nodes, Reached(n, Len(p) + 1, p)
    PROVE  Below(n, m, p) = Ended(n, m, p) \cup Tails(n, m, p)
<1>1. Len(p) \in Nat /\ n \in Seq(Edges) /\ Len(n) = Len(p)
  BY PathsAssumption, NodesTyped DEF Reached
<1>2. ASSUME NEW k \in Candidates(m, p)
      PROVE  Under(registered[k], n) <=> Place(registered[k]) = n
  <2>1. registered[k] \in Routes /\ Depth(registered[k]) \in Nat /\ Depth(registered[k]) <= Len(n)
    BY <1>1, CandidateFacts
  <2>2. Under(registered[k], n) => Depth(registered[k]) = Len(n)
    BY <1>1, <2>1 DEF Under
  <2> QED
    BY <1>1, <2>1, <2>2, PlaceIsNode
<1> QED
  BY <1>2 DEF Below, Ended, Tails, EndsAt

LEMMA FirstFound ==
    ASSUME SearchInv, NEW m, NEW p \in Paths, NEW n \in nodes, Reached(n, Len(p) + 1, p)
    PROVE  LET mine == {j \in 1..Len(handlers[n]) : handlers[n][j].method = m}
               first == CHOOSE j \in mine : \A l \in mine : j <= l
           IN  /\ mine = {} <=> Ended(n, m, p) = {}
               /\ mine # {} => \E k \in Ended(n, m, p) :
                     handlers[n][first] = registered[k] /\ \A l \in Ended(n, m, p) : k <= l
<1> DEFINE mine == {j \in 1..Len(handlers[n]) : handlers[n][j].method = m}
           first == CHOOSE j \in mine : \A l \in mine : j <= l
<1>1. /\ Len(p) \in Nat /\ n \in Seq(Edges) /\ Len(n) = Len(p)
      /\ \A j \in 1..Len(n) : n[j] = ParamEdge \/ n[j] = StaticEdge(p[j])
  BY PathsAssumption, NodesTyped DEF Reached
<1>2. PICK number \in [1..Len(handlers[n]) -> 1..Len(registered)] :
         /\ \A i \in 1..Len(handlers[n]) : handlers[n][i] = registered[number[i]] /\ EndsAt(registered[number[i]], n)
         /\ \A i, j \in 1..Len(handlers[n]) : i < j => number[i] < number[j]
         /\ \A k \in 1..Len(registered) : EndsAt(registered[k], n) => \E i \in 1..Len(handlers[n]) : number[i] = k
  BY DEF SearchInv, InOrder
<1>3. Len(registered) \in Nat /\ \A i \in 1..Len(handlers[n]) : number[i] \in Nat
  BY <1>2, Registered
<1>4. ASSUME NEW j \in mine
      PROVE  number[j] \in Ended(n, m, p)
  <2> DEFINE r == registered[number[j]]
  <2>1. number[j] \in 1..Len(registered) /\ EndsAt(r, n) /\ r.method = m /\ r \in Routes
    BY <1>2, Registered
  <2>2. Place(r) = n /\ ~IsCatchAll(r) /\ Depth(r) = Len(p)
    BY <1>1, <2>1, PlaceType DEF EndsAt
  <2>3. ASSUME NEW i \in 1..Depth(r)
        PROVE  SegmentMatches(r.segs[i], p[i])
    <3>1. Place(r)[i] = ParamEdge \/ Place(r)[i] = StaticEdge(p[i])
      BY <1>1, <2>2
    <3>2. ParamEdge.k = "param" /\ \A x : StaticEdge(x).k = "static" /\ StaticEdge(x).s = x
      BY DEF ParamEdge, StaticEdge
    <3>3. CASE r.segs[i].k = "static" /\ Place(r)[i] = StaticEdge(r.segs[i].s)
      BY <3>1, <3>2, <3>3 DEF SegmentMatches
    <3>4. CASE r.segs[i].k = "param"
      BY <3>4 DEF SegmentMatches
    <3> QED
      BY <2>1, <3>3, <3>4, SegmentKinds
  <2>4. Matches(r, p)
    BY <2>2, <2>3 DEF Matches
  <2>5. ~Overwritten(number[j])
    BY <2>2 DEF Overwritten
  <2> QED
    BY <2>1, <2>4, <2>5 DEF Ended, Candidates
<1>5. ASSUME NEW k \in Ended(n, m, p)
      PROVE  \E j \in mine : number[j] = k
  <2>1. k \in 1..Len(registered) /\ EndsAt(registered[k], n) /\ registered[k].method = m
    BY DEF Ended, Candidates
  <2>2. PICK j \in 1..Len(handlers[n]) : number[j] = k
    BY <1>2, <2>1
  <2>3. handlers[n][j] = registered[k]
    BY <1>2, <2>2
  <2> QED
    BY <2>1, <2>2, <2>3
<1>6. mine = {} <=> Ended(n, m, p) = {}
  BY <1>4, <1>5
<1>7. ASSUME mine # {}
      PROVE  \E k \in Ended(n, m, p) : handlers[n][first] = registered[k] /\ \A l \in Ended(n, m, p) : k <= l
  <2>1. mine \in SUBSET Nat
    BY DEF mine
  <2>2. PICK x \in mine : \A y \in mine : <<y, x>> \notin OpToRel(<, Nat)
    BY <1>7, <2>1, NatLessThanWellFounded, WFMin
  <2>3. \A y \in mine : ~(y < x)
    BY <2>1, <2>2, Zenon DEF OpToRel
  <2> HIDE DEF mine
  <2>4. ASSUME NEW y \in mine
        PROVE  x <= y
    <3>1. x \in Nat /\ y \in Nat /\ ~(y < x)
      BY <2>1, <2>2, <2>3
    <3> QED
      BY <3>1
  <2>5. first \in mine /\ \A l \in mine : first <= l
    BY <2>2, <2>4
  <2> HIDE DEF first
  <2>6. first \in 1..Len(handlers[n]) /\ \A l \in mine : l \in 1..Len(handlers[n])
    BY <2>5 DEF mine
  <2>7. number[first] \in Ended(n, m, p) /\ handlers[n][first] = registered[number[first]]
    BY <1>2, <1>4, <2>5, <2>6
  <2>8. ASSUME NEW l \in Ended(n, m, p)
        PROVE  number[first] <= l
    <3>1. PICK j \in mine : number[j] = l
      BY <1>5
    <3>2. first <= j /\ first \in Nat /\ j \in Nat
      BY <2>1, <2>5, <3>1
    <3>3. first = j \/ first < j
      BY <3>2
    <3> QED
      BY <1>2, <1>3, <2>6, <3>1, <3>3
  <2> QED
    BY <2>7, <2>8
<1> QED
  BY <1>6, <1>7

-----------------------------------------------------------------------------
(* The variable segments from position i on, and the number of one among them. *)
From(r, i) == {j \in Capturing(r) : j >= i}
NumberOf(r, i, q) == Cardinality({j \in From(r, i) : j <= q})

(* The name that the tree gives a variable segment. *)
NameAt(r, q) == IF r.segs[q].k = "all" THEN "__path__" ELSE CHOOSE s \in paramName[Upto(Place(r), q - 1)] : TRUE

(* What is captured from position i on is what the route has variable there. *)
Captures(params, r, i, p) ==
    /\ \E S : params \in Seq(S)
    /\ Len(params) = Cardinality(From(r, i))
    /\ \A q \in From(r, i) :
          params[NumberOf(r, i, q)].value = Captured(r, q, p) /\ params[NumberOf(r, i, q)].name = NameAt(r, q)

LEMMA FromFinite ==
    ASSUME NEW r \in Routes, NEW i \in Nat
    PROVE  /\ IsFiniteSet(From(r, i)) /\ Cardinality(From(r, i)) \in Nat
           /\ \A q \in From(r, i) : /\ IsFiniteSet({j \in From(r, i) : j <= q})
                                    /\ NumberOf(r, i, q) \in 1..Cardinality(From(r, i))
                                    /\ q \in Nat /\ q >= i /\ q \in Capturing(r)
<1>1. Len(r.segs) \in Nat /\ IsFiniteSet(1..Len(r.segs)) /\ \A q \in 1..Len(r.segs) : q \in Nat
  BY RoutesAssumption, FS_Interval
<1>2. From(r, i) \subseteq 1..Len(r.segs)
  BY DEF From, Capturing
<1>3. IsFiniteSet(From(r, i))
  BY <1>1, <1>2, FS_Subset
<1>4. Cardinality(From(r, i)) \in Nat
  BY <1>3, FS_CardinalityType
<1>5. ASSUME NEW q \in From(r, i)
      PROVE  /\ IsFiniteSet({j \in From(r, i) : j <= q}) /\ NumberOf(r, i, q) \in 1..Cardinality(From(r, i))
             /\ q \in Nat /\ q >= i /\ q \in Capturing(r)
  <2> DEFINE T == {j \in From(r, i) : j <= q}
  <2>1. q \in Nat /\ q >= i /\ q \in Capturing(r)
    BY <1>1, <1>2 DEF From
  <2>2. q \in T
    BY <2>1
  <2>3. IsFiniteSet(T) /\ Cardinality(T) <= Cardinality(From(r, i))
    BY <1>3, FS_Subset
  <2>4. Cardinality(T) \in Nat /\ Cardinality(T) # 0
    BY <2>2, <2>3, FS_CardinalityType, FS_EmptySet
  <2> QED
    BY <1>4, <2>1, <2>3, <2>4 DEF NumberOf
<1> QED
  BY <1>3, <1>4, <1>5

(* A literal captures nothing. *)
LEMMA LiteralCaptures ==
    ASSUME NEW r \in Routes, NEW i \in Nat, NEW p, NEW params, r.segs[i].k = "static", Captures(params, r, i + 1, p)
    PROVE  Captures(params, r, i, p)
<1>1. \A j \in Capturing(r) : j \in Nat
  BY RoutesAssumption DEF Capturing
<1>2. i \notin Capturing(r)
  BY DEF Capturing
<1>3. From(r, i) = From(r, i + 1)
  BY <1>1, <1>2 DEF From
<1> QED
  BY <1>3 DEF Captures, NumberOf

(* Prepending a parameter. *)
LEMMA Prepended ==
    ASSUME NEW e, NEW S, NEW s \in Seq(S)
    PROVE  /\ <<e>> \o s \in Seq(S \cup {e}) /\ Len(<<e>> \o s) = Len(s) + 1 /\ Len(s) \in Nat
           /\ (<<e>> \o s)[1] = e /\ \A k \in 1..Len(s) : (<<e>> \o s)[k + 1] = s[k]
<1> DEFINE T == S \cup {e}
<1>1. s \in Seq(T)
  BY SeqMonotonic
<1>2. <<e>> \in Seq(T) /\ Len(<<e>>) = 1 /\ <<e>>[1] = e
  OBVIOUS
<1>3. Len(s) \in Nat
  BY LenProperties
<1> HIDE DEF T
<1>4. /\ <<e>> \o s \in Seq(T) /\ Len(<<e>> \o s) = 1 + Len(s)
      /\ \A k \in 1..(1 + Len(s)) : (<<e>> \o s)[k] = IF k <= 1 THEN <<e>>[k] ELSE s[k - 1]
  BY <1>1, <1>2, ConcatProperties
<1>5. (<<e>> \o s)[1] = e
  BY <1>2, <1>3, <1>4
<1>6. ASSUME NEW k \in 1..Len(s)
      PROVE  (<<e>> \o s)[k + 1] = s[k]
  <2>1. k + 1 \in 1..(1 + Len(s)) /\ ~(k + 1 <= 1) /\ (k + 1) - 1 = k
    BY <1>3
  <2> QED
    BY <1>4, <2>1
<1> QED
  BY <1>3, <1>4, <1>5, <1>6 DEF T

(* A variable segment captures what is put in front. *)
LEMMA VariableCaptures ==
    ASSUME NEW r \in Routes, NEW i \in Nat, NEW p, NEW params, NEW e, i \in Capturing(r), Captures(params, r, i + 1, p),
           e.value = Captured(r, i, p), e.name = NameAt(r, i)
    PROVE  Captures(<<e>> \o params, r, i, p)
<1> DEFINE all == <<e>> \o params
           rest == From(r, i + 1)
<1>1. PICK S : params \in Seq(S)
  BY DEF Captures
<1>2. /\ all \in Seq(S \cup {e}) /\ Len(all) = Len(params) + 1 /\ Len(params) \in Nat
      /\ all[1] = e /\ \A k \in 1..Len(params) : all[k + 1] = params[k]
  BY <1>1, Prepended
<1>3. \A j \in Capturing(r) : j \in Nat
  BY RoutesAssumption DEF Capturing
<1>4. From(r, i) = rest \cup {i} /\ i \notin rest
  <2>1. \A j \in Capturing(r) : j >= i <=> j >= i + 1 \/ j = i
    BY <1>3
  <2>2. ~(i >= i + 1)
    OBVIOUS
  <2>3. rest = {j \in Capturing(r) : j >= i + 1} /\ From(r, i) = {j \in Capturing(r) : j >= i}
    BY DEF From
  <2> HIDE DEF rest
  <2> QED
    BY <2>1, <2>2, <2>3
<1>5. /\ IsFiniteSet(rest) /\ Cardinality(rest) \in Nat
      /\ \A q \in rest : /\ IsFiniteSet({j \in rest : j <= q}) /\ NumberOf(r, i + 1, q) \in 1..Cardinality(rest)
                         /\ q \in Nat /\ q >= i + 1
  <2>1. i + 1 \in Nat
    OBVIOUS
  <2> QED
    BY <2>1, FromFinite
<1>6. Cardinality(From(r, i)) = Cardinality(rest) + 1
  BY <1>4, <1>5, FS_AddElement
<1>7. Len(params) = Cardinality(rest)
  BY DEF Captures
<1> HIDE DEF all
<1>8. ASSUME NEW q \in rest
      PROVE  all[NumberOf(r, i, q)].value = Captured(r, q, p) /\ all[NumberOf(r, i, q)].name = NameAt(r, q)
  <2> DEFINE T == {j \in rest : j <= q}
  <2>1. {j \in From(r, i) : j <= q} = T \cup {i} /\ i \notin T
    <3>1. i <= q
      <4>1. q \in Nat /\ q >= i + 1
        BY <1>5
      <4> QED
        BY <4>1
    <3> HIDE DEF rest
    <3> QED
      BY <1>4, <3>1
  <2>2. Cardinality(T \cup {i}) = Cardinality(T) + 1
    BY <1>5, <2>1, FS_AddElement
  <2>3. NumberOf(r, i, q) = NumberOf(r, i + 1, q) + 1
    BY <2>1, <2>2 DEF NumberOf
  <2>4. all[NumberOf(r, i, q)] = params[NumberOf(r, i + 1, q)]
    BY <1>2, <1>5, <1>7, <2>3
  <2> QED
    BY <2>4 DEF Captures
<1>9. all[NumberOf(r, i, i)].value = Captured(r, i, p) /\ all[NumberOf(r, i, i)].name = NameAt(r, i)
  <2>1. {j \in From(r, i) : j <= i} = {i}
    <3>1. ASSUME NEW q \in rest
          PROVE  ~(q <= i)
      <4>1. q \in Nat /\ q >= i + 1
        BY <1>5
      <4> QED
        BY <4>1
    <3> HIDE DEF rest
    <3> QED
      BY <1>4, <3>1
  <2>2. NumberOf(r, i, i) = 1
    BY <2>1, FS_Singleton DEF NumberOf
  <2> QED
    BY <1>2, <2>2
<1> HIDE DEF rest
<1>10. \A q \in From(r, i) : all[NumberOf(r, i, q)].value = Captured(r, q, p) /\ all[NumberOf(r, i, q)].name = NameAt(r, q)
  BY <1>4, <1>8, <1>9
<1>11. Captures(all, r, i, p)
  BY <1>2, <1>6, <1>7, <1>10 DEF Captures
<1> QED
  BY <1>11 DEF all

(* Behind the last segment nothing is captured. *)
LEMMA NoneCaptured ==
    ASSUME NEW r \in Routes, NEW i \in Nat, i > Len(r.segs), NEW p
    PROVE  Captures(<<>>, r, i, p)
<1>1. Len(r.segs) \in Nat
  BY RoutesAssumption
<1>2. From(r, i) = {}
  BY <1>1 DEF From, Capturing
<1>3. <<>> \in Seq({}) /\ Len(<<>>) = 0
  BY EmptySeq
<1> QED
  BY <1>2, <1>3, FS_EmptySet DEF Captures

(* A catch-all captures the rest of the path. *)
LEMMA TailCaptures ==
    ASSUME NEW r \in Routes, IsCatchAll(r), NEW p \in Paths
    PROVE  Captures(<<[name |-> "__path__", value |-> SubSeq(p, Depth(r) + 1, Len(p))]>>, r, Depth(r) + 1, p)
<1> DEFINE e == [name |-> "__path__", value |-> SubSeq(p, Depth(r) + 1, Len(p))]
           i == Depth(r) + 1
<1>1. Len(r.segs) \in Nat /\ i = Len(r.segs) /\ i \in Nat /\ i \in 1..Len(r.segs)
  <2>1. Len(r.segs) \in Nat /\ i = Len(r.segs) /\ Depth(r) \in Nat
    BY RoutesAssumption, DepthType DEF Depth
  <2> QED
    BY <2>1
<1>2. r.segs[i].k = "all"
  BY <1>1 DEF IsCatchAll
<1>3. i \in Capturing(r)
  BY <1>1, <1>2 DEF Capturing
<1>4. Captures(<<>>, r, i + 1, p)
  BY <1>1, NoneCaptured
<1>5. e.value = Captured(r, i, p) /\ e.name = NameAt(r, i)
  BY <1>2 DEF Captured, NameAt
<1> HIDE DEF e, i
<1>6. Captures(<<e>> \o <<>>, r, i, p)
  BY <1>1, <1>3, <1>4, <1>5, VariableCaptures
<1>7. <<e>> \o <<>> = <<e>>
  <2>1. <<e>> \in Seq({e})
    OBVIOUS
  <2> QED
    BY <2>1, ConcatEmptySeq
<1>8. Captures(<<e>>, r, i, p)
  BY <1>6, <1>7
<1> QED
  BY <1>8 DEF e, i

-----------------------------------------------------------------------------
(* Of two candidates the one that Best prefers, and the one it prefers to all others. *)
Prefers(k, l) ==
    \/ MoreSpecific(registered[k], registered[l])
    \/ ~MoreSpecific(registered[l], registered[k]) /\ k < l

Winner(k, S) == k \in S /\ \A l \in S \ {k} : Prefers(k, l)

(* The result of a search for the best of some candidates, from segment i on. *)
RightOf(found, S, i, p) ==
    \/ S = {} /\ found = Nothing
    \/ \E k : Winner(k, S) /\ found.route = {registered[k]} /\ Captures(found.params, registered[k], i, p)

Right(found, n, m, p) == RightOf(found, Below(n, m, p), Len(n) + 1, p)

LEMMA NextPrefers ==
    ASSUME SearchInv, NEW m, NEW p \in Paths, NEW n \in nodes, NEW k \in Below(n, m, p), NEW l \in Below(n, m, p),
           Grade(registered[k], Len(n) + 1) < Grade(registered[l], Len(n) + 1)
    PROVE  Prefers(k, l)
<1>1. n \in Seq(Edges)
  BY NodesTyped
<1>2. /\ registered[k] \in Routes /\ Under(registered[k], n)
      /\ registered[l] \in Routes /\ Under(registered[l], n)
  BY CandidateFacts DEF Below
<1>3. MoreSpecific(registered[k], registered[l])
  BY <1>1, <1>2, NextDecides
<1> QED
  BY <1>3 DEF Prefers

(* What the catch-all of a node gives, with the rest of the path. *)
LEMMA TakeRight ==
    ASSUME SearchInv, NEW m, NEW p \in Paths, NEW n \in nodes, NEW i \in 1..(Len(p) + 1), Reached(n, i, p)
    PROVE  RightOf(TakeCatchAll(n, m, SubSeq(p, i, Len(p))), Tails(n, m, p), i, p)
<1> DEFINE take == TakeCatchAll(n, m, SubSeq(p, i, Len(p)))
<1>1. Len(n) + 1 = i
  <2>1. Len(p) \in Nat /\ Len(n) = i - 1
    BY PathsAssumption DEF Reached
  <2> QED
    BY <2>1
<1>2. CASE Tails(n, m, p) = {} /\ CatchAllOf(n, m) = {}
  BY <1>2 DEF TakeCatchAll, RightOf
<1>3. CASE \E k : Tails(n, m, p) = {k} /\ CatchAllOf(n, m) = {registered[k]}
  <2>1. PICK k : Tails(n, m, p) = {k} /\ CatchAllOf(n, m) = {registered[k]}
    BY <1>3
  <2>2. registered[k] \in Routes /\ IsCatchAll(registered[k])
    BY <2>1, CandidateFacts DEF Tails
  <2>3. Depth(registered[k]) + 1 = i
    <3>1. Depth(registered[k]) = Len(n)
      BY <2>1, TailsGraded
    <3> QED
      BY <1>1, <3>1
  <2>4. take = [route |-> {registered[k]}, params |-> <<[name |-> "__path__", value |-> SubSeq(p, i, Len(p))]>>]
    BY <2>1 DEF TakeCatchAll
  <2>5. Captures(<<[name |-> "__path__", value |-> SubSeq(p, i, Len(p))]>>, registered[k], i, p)
    BY <2>2, <2>3, TailCaptures
  <2>6. Winner(k, {k})
    BY DEF Winner
  <2> HIDE DEF take
  <2>7. take.route = {registered[k]} /\ take.params = <<[name |-> "__path__", value |-> SubSeq(p, i, Len(p))]>>
    BY <2>4
  <2>8. RightOf(take, Tails(n, m, p), i, p)
    BY <2>1, <2>5, <2>6, <2>7 DEF RightOf
  <2> QED
    BY <2>8 DEF take
<1> QED
  BY <1>2, <1>3, TailsFound

(* At the end of the path the search is right. *)
LEMMA EndRight ==
    ASSUME SearchInv, NEW m, NEW p \in Paths, NEW n, Reached(n, Len(p) + 1, p)
    PROVE  Right(AtEnd(n, m), n, m, p)
<1> DEFINE mine == {j \in 1..Len(handlers[n]) : handlers[n][j].method = m}
           first == CHOOSE j \in mine : \A l \in mine : j <= l
<1>1. /\ n \in nodes /\ Len(p) \in Nat /\ Len(n) = Len(p) /\ Len(p) + 1 \in 1..(Len(p) + 1)
      /\ n \in Seq(Edges)
  <2>1. n \in nodes /\ Len(p) \in Nat /\ Len(n) = (Len(p) + 1) - 1
    BY PathsAssumption DEF Reached
  <2> QED
    BY <2>1, NodesTyped
<1>2. Below(n, m, p) = Ended(n, m, p) \cup Tails(n, m, p)
  BY <1>1, EndPartition
<1>3. /\ mine = {} <=> Ended(n, m, p) = {}
      /\ mine # {} => \E k \in Ended(n, m, p) : handlers[n][first] = registered[k] /\ \A l \in Ended(n, m, p) : k <= l
  BY <1>1, FirstFound
<1>4. AtEnd(n, m) = IF mine # {} THEN [route |-> {handlers[n][first]}, params |-> <<>>] ELSE TakeCatchAll(n, m, <<>>)
  BY DEF AtEnd
<1> HIDE DEF mine, first
<1>5. CASE mine # {}
  <2>1. PICK k \in Ended(n, m, p) : handlers[n][first] = registered[k] /\ \A l \in Ended(n, m, p) : k <= l
    BY <1>3, <1>5
  <2>2. \A l \in Ended(n, m, p) : /\ registered[l] \in Routes /\ ~IsCatchAll(registered[l])
                                  /\ Place(registered[l]) = n /\ l \in Nat /\ l \in Below(n, m, p)
    BY <1>2, CandidateFacts DEF Ended, EndsAt
  <2>3. Depth(registered[k]) = Len(n) /\ Len(registered[k].segs) = Len(n)
    BY <2>2, PlaceType DEF Depth
  <2>4. Grade(registered[k], Len(n) + 1) = 0
    BY <2>2, <2>3, GradeAtEnd
  <2>5. ASSUME NEW l \in Ended(n, m, p), l # k
        PROVE  Prefers(k, l)
    <3>1. k < l
      BY <2>1, <2>2, <2>5
    <3>2. ~MoreSpecific(registered[l], registered[k])
      BY <2>2, SamePlaceEqual
    <3> QED
      BY <3>1, <3>2 DEF Prefers
  <2>6. ASSUME NEW l \in Tails(n, m, p)
        PROVE  Prefers(k, l)
    <3>1. Grade(registered[l], Len(n) + 1) = 2 /\ l \in Below(n, m, p)
      BY <1>1, <1>2, TailsGraded
    <3>2. Grade(registered[k], Len(n) + 1) < Grade(registered[l], Len(n) + 1)
      BY <2>4, <3>1
    <3> QED
      BY <1>1, <2>2, <3>1, <3>2, NextPrefers
  <2>7. Winner(k, Below(n, m, p))
    BY <1>2, <2>5, <2>6 DEF Winner
  <2>8. Captures(<<>>, registered[k], Len(n) + 1, p)
    <3>1. Len(n) + 1 \in Nat /\ Len(n) + 1 > Len(registered[k].segs)
      BY <1>1, <2>3
    <3> QED
      BY <2>2, <3>1, NoneCaptured
  <2>9. AtEnd(n, m).route = {registered[k]} /\ AtEnd(n, m).params = <<>>
    BY <1>4, <1>5, <2>1
  <2> QED
    BY <2>7, <2>8, <2>9 DEF Right, RightOf
<1>6. CASE mine = {}
  <2>1. SubSeq(p, Len(p) + 1, Len(p)) = <<>>
    BY <1>1, SubSeqEmpty
  <2>2. AtEnd(n, m) = TakeCatchAll(n, m, SubSeq(p, Len(p) + 1, Len(p)))
    BY <1>4, <1>6, <2>1
  <2>3. Below(n, m, p) = Tails(n, m, p)
    BY <1>2, <1>3, <1>6
  <2>4. RightOf(TakeCatchAll(n, m, SubSeq(p, Len(p) + 1, Len(p))), Tails(n, m, p), Len(p) + 1, p)
    BY <1>1, TakeRight
  <2> QED
    BY <1>1, <2>2, <2>3, <2>4 DEF Right
<1> QED
  BY <1>5, <1>6

LEMMA ReachedChild ==
    ASSUME SearchInv, NEW p \in Paths, NEW i \in 1..Len(p), NEW n, Reached(n, i, p),
           NEW e \in {StaticEdge(p[i]), ParamEdge}, Append(n, e) \in nodes
    PROVE  Reached(Append(n, e), i + 1, p) /\ Len(Append(n, e)) + 1 = i + 1
<1>1. n \in Seq(Edges) /\ Len(n) = i - 1 /\ i \in Nat
  BY NodesTyped, PathsAssumption DEF Reached
<1>2. /\ Len(Append(n, e)) = Len(n) + 1 /\ Append(n, e)[Len(n) + 1] = e
      /\ \A j \in 1..Len(n) : Append(n, e)[j] = n[j]
  BY <1>1, Appended
<1>3. \A j \in 1..Len(n) : n[j] = ParamEdge \/ n[j] = StaticEdge(p[j])
  BY <1>1 DEF Reached
<1>4. Len(Append(n, e)) = i /\ Append(n, e)[i] = e
  BY <1>1, <1>2
<1>5. ASSUME NEW j \in 1..i
      PROVE  Append(n, e)[j] = ParamEdge \/ Append(n, e)[j] = StaticEdge(p[j])
  <2>1. CASE j = i
    BY <1>4, <2>1
  <2>2. CASE j # i
    <3>1. j \in 1..Len(n)
      BY <1>1, <2>2
    <3> QED
      BY <1>2, <1>3, <3>1
  <2> QED
    BY <2>1, <2>2
<1>6. i + 1 - 1 = i
  BY <1>1
<1> QED
  BY <1>1, <1>4, <1>5, <1>6 DEF Reached

LEMMA UptoUnder ==
    ASSUME NEW r \in Routes, NEW n \in Seq(Edges), Under(r, n)
    PROVE  Upto(Place(r), Len(n)) = n
<1>1. Len(n) \in 0..Depth(r)
  BY LenProperties, DepthType DEF Under
<1>2. /\ Upto(Place(r), Len(n)) \in Seq(Edges) /\ Len(Upto(Place(r), Len(n))) = Len(n)
      /\ \A j \in 1..Len(n) : Upto(Place(r), Len(n))[j] = Place(r)[j]
  BY <1>1, BranchPrefix
<1> QED
  BY <1>2, SeqEqual DEF Under

(* The literal child of a node, and its parameter child. *)
LEMMA ByNameRight ==
    ASSUME SearchInv, NEW m, NEW p \in Paths, NEW i \in 1..Len(p), NEW n, Reached(n, i, p), NEW found,
           Right(found, Append(n, StaticEdge(p[i])), m, p), Append(n, StaticEdge(p[i])) \in nodes
    PROVE  RightOf(found, Below(Append(n, StaticEdge(p[i])), m, p), i, p)
<1> DEFINE c == Append(n, StaticEdge(p[i]))
           S == Below(c, m, p)
<1>1. n \in nodes /\ Len(n) + 1 = i /\ i \in Nat
  BY PathsAssumption DEF Reached
<1>2. Len(c) + 1 = i + 1
  BY ReachedChild
<1>3. CASE S = {} /\ found = Nothing
  BY <1>3 DEF RightOf
<1>4. CASE \E k : Winner(k, S) /\ found.route = {registered[k]} /\ Captures(found.params, registered[k], i + 1, p)
  <2>1. PICK k : Winner(k, S) /\ found.route = {registered[k]} /\ Captures(found.params, registered[k], i + 1, p)
    BY <1>4
  <2>2. k \in S
    BY <2>1 DEF Winner
  <2>3. registered[k].segs[i].k = "static" /\ registered[k] \in Routes
    BY <1>1, <2>2, LiteralGraded, ChildFacts
  <2>4. Captures(found.params, registered[k], i, p)
    BY <1>1, <2>1, <2>3, LiteralCaptures
  <2> QED
    BY <2>1, <2>4 DEF RightOf
<1> QED
  BY <1>2, <1>3, <1>4 DEF Right, RightOf

LEMMA ByParamRight ==
    ASSUME SearchInv, NEW m, NEW p \in Paths, NEW i \in 1..Len(p), NEW n, Reached(n, i, p), NEW found,
           Right(found, Append(n, ParamEdge), m, p), Append(n, ParamEdge) \in nodes
    PROVE  RightOf(Backtrack(found, CHOOSE s \in paramName[n] : TRUE, p[i]), Below(Append(n, ParamEdge), m, p), i, p)
<1> DEFINE c == Append(n, ParamEdge)
           S == Below(c, m, p)
           name == CHOOSE s \in paramName[n] : TRUE
           e == [name |-> name, value |-> <<p[i]>>]
           back == Backtrack(found, name, p[i])
<1>1. n \in nodes /\ Len(n) + 1 = i /\ Len(n) = i - 1 /\ i \in Nat /\ n \in Seq(Edges)
  BY PathsAssumption, NodesTyped DEF Reached
<1>2. Len(c) + 1 = i + 1
  BY ReachedChild
<1>3. CASE S = {} /\ found = Nothing
  <2>1. back = Nothing
    BY <1>3 DEF Backtrack, Nothing
  <2> QED
    BY <1>3, <2>1 DEF RightOf
<1>4. CASE \E k : Winner(k, S) /\ found.route = {registered[k]} /\ Captures(found.params, registered[k], i + 1, p)
  <2>1. PICK k : Winner(k, S) /\ found.route = {registered[k]} /\ Captures(found.params, registered[k], i + 1, p)
    BY <1>4
  <2> DEFINE r == registered[k]
  <2>2. k \in S
    BY <2>1 DEF Winner
  <2>3. r.segs[i].k = "param"
    BY <1>1, <2>2, ParamGraded
  <2>4. r \in Routes /\ i \in 1..Len(r.segs)
    BY <1>1, <2>2, ChildFacts
  <2>5. i \in Capturing(r) /\ Captured(r, i, p) = <<p[i]>>
    BY <2>3, <2>4 DEF Capturing, Captured
  <2>6. Under(r, n)
    BY <1>1, <2>2, <2>4, UnderChild DEF Below
  <2>7. NameAt(r, i) = name
    <3>1. Upto(Place(r), i - 1) = n
      BY <1>1, <2>4, <2>6, UptoUnder
    <3> QED
      BY <2>3, <3>1 DEF NameAt
  <2>8. e.value = Captured(r, i, p) /\ e.name = NameAt(r, i)
    BY <2>5, <2>7
  <2>9. back.route = {r} /\ back.params = <<e>> \o found.params
    BY <2>1 DEF Backtrack
  <2> HIDE DEF e, name, back
  <2>10. Captures(<<e>> \o found.params, r, i, p)
    BY <1>1, <2>1, <2>4, <2>5, <2>8, VariableCaptures
  <2>11. RightOf(back, S, i, p)
    BY <2>1, <2>9, <2>10 DEF RightOf
  <2> QED
    BY <2>11 DEF back, name
<1> QED
  BY <1>2, <1>3, <1>4 DEF Right, RightOf

(* Before a segment the search is right if it is right behind the children. *)
LEMMA VisitRight ==
    ASSUME SearchInv, NEW m, NEW p \in Paths, NEW i \in 1..Len(p), NEW n, Reached(n, i, p), NEW deeper,
           \A c \in nodes : Reached(c, i + 1, p) => Right(deeper[c], c, m, p)
    PROVE  Right(Visit(n, i, deeper, m, p), n, m, p)
<1> DEFINE literal == Append(n, StaticEdge(p[i]))
           child == Append(n, ParamEdge)
           byName == IF literal \in nodes THEN deeper[literal] ELSE Nothing
           byParam == IF child \in nodes
                      THEN Backtrack(deeper[child], CHOOSE s \in paramName[n] : TRUE, p[i])
                      ELSE Nothing
           take == TakeCatchAll(n, m, SubSeq(p, i, Len(p)))
           S == Below(n, m, p)
           N == IF literal \in nodes THEN Below(literal, m, p) ELSE {}
           P == IF child \in nodes THEN Below(child, m, p) ELSE {}
           T == Tails(n, m, p)
           visit == Visit(n, i, deeper, m, p)
<1>1. n \in nodes /\ Len(n) + 1 = i /\ i \in Nat /\ i \in 1..(Len(p) + 1)
  <2>1. n \in nodes /\ Len(p) \in Nat /\ Len(n) = i - 1
    BY PathsAssumption DEF Reached
  <2> QED
    BY <2>1
<1>2. S = N \cup P \cup T
  BY Partition
<1>3. RightOf(byName, N, i, p)
  <2>1. CASE literal \in nodes
    <3>1. Right(deeper[literal], literal, m, p)
      BY <2>1, ReachedChild
    <3> QED
      BY <2>1, <3>1, ByNameRight
  <2>2. CASE literal \notin nodes
    BY <2>2 DEF RightOf
  <2> QED
    BY <2>1, <2>2
<1>4. RightOf(byParam, P, i, p)
  <2>1. CASE child \in nodes
    <3>1. Right(deeper[child], child, m, p)
      BY <2>1, ReachedChild
    <3> QED
      BY <2>1, <3>1, ByParamRight
  <2>2. CASE child \notin nodes
    BY <2>2 DEF RightOf
  <2> QED
    BY <2>1, <2>2
<1>5. RightOf(take, T, i, p)
  BY <1>1, TakeRight
<1>6. \A k \in N : Grade(registered[k], i) = 0
  BY <1>1, LiteralGraded
<1>7. \A k \in P : Grade(registered[k], i) = 1
  BY <1>1, ParamGraded
<1>8. \A k \in T : Grade(registered[k], i) = 2
  BY <1>1, TailsGraded
<1>9. \A k, l \in S : Grade(registered[k], i) < Grade(registered[l], i) => Prefers(k, l)
  BY <1>1, NextPrefers
<1>10. visit = IF byName.route # {} THEN byName
               ELSE IF byParam.route # {} THEN After(byName, byParam)
               ELSE After(After(byName, byParam), take)
  BY DEF Visit, Settled
<1>11. Nothing.route = {} /\ Nothing.params = <<>>
  BY DEF Nothing
<1> HIDE DEF byName, byParam, take, S, N, P, T, visit, literal, child
<1>12. ASSUME N # {}
       PROVE  RightOf(visit, S, i, p)
  <2>1. PICK k : Winner(k, N) /\ byName.route = {registered[k]} /\ Captures(byName.params, registered[k], i, p)
    BY <1>3, <1>12 DEF RightOf
  <2>2. visit = byName
    BY <1>10, <2>1
  <2>3. k \in N
    BY <2>1 DEF Winner
  <2>4. ASSUME NEW l \in S \ {k}
        PROVE  Prefers(k, l)
    <3>1. CASE l \in N
      BY <2>1, <2>4, <3>1 DEF Winner
    <3>2. CASE l \in P
      BY <1>2, <1>6, <1>7, <1>9, <2>3, <3>2
    <3>3. CASE l \in T
      BY <1>2, <1>6, <1>8, <1>9, <2>3, <3>3
    <3> QED
      BY <1>2, <2>4, <3>1, <3>2, <3>3
  <2>5. Winner(k, S)
    BY <1>2, <2>3, <2>4 DEF Winner
  <2> QED
    BY <2>1, <2>2, <2>5 DEF RightOf
<1>13. ASSUME N = {}, P # {}
       PROVE  RightOf(visit, S, i, p)
  <2>1. byName = Nothing
    BY <1>3, <1>13 DEF RightOf, Winner
  <2>2. PICK k : Winner(k, P) /\ byParam.route = {registered[k]} /\ Captures(byParam.params, registered[k], i, p)
    BY <1>4, <1>13 DEF RightOf
  <2>3. visit = After(byName, byParam)
    BY <1>10, <1>11, <2>1, <2>2
  <2>4. PICK Q : byParam.params \in Seq(Q)
    BY <2>2 DEF Captures
  <2>5. visit.route = byParam.route /\ visit.params = byParam.params
    <3>1. <<>> \o byParam.params = byParam.params
      BY <2>4, ConcatEmptySeq
    <3> QED
      BY <1>11, <2>1, <2>3, <3>1 DEF After
  <2>6. k \in P
    BY <2>2 DEF Winner
  <2>7. ASSUME NEW l \in S \ {k}
        PROVE  Prefers(k, l)
    <3>1. CASE l \in P
      BY <2>2, <2>7, <3>1 DEF Winner
    <3>2. CASE l \in T
      BY <1>2, <1>7, <1>8, <1>9, <2>6, <3>2
    <3> QED
      BY <1>2, <1>13, <2>7, <3>1, <3>2
  <2>8. Winner(k, S)
    BY <1>2, <2>6, <2>7 DEF Winner
  <2> QED
    BY <2>2, <2>5, <2>8 DEF RightOf
<1>14. ASSUME N = {}, P = {}
       PROVE  RightOf(visit, S, i, p)
  <2>1. byName = Nothing /\ byParam = Nothing
    BY <1>3, <1>4, <1>14 DEF RightOf, Winner
  <2>2. visit = After(After(Nothing, Nothing), take)
    BY <1>10, <1>11, <2>1
  <2>3. S = T
    BY <1>2, <1>14
  <2>4. \E Q : take.params \in Seq(Q)
    <3>1. CASE take = Nothing
      BY <1>11, <3>1, EmptySeq
    <3>2. CASE take # Nothing
      BY <1>5, <3>2 DEF RightOf, Captures
    <3> QED
      BY <3>1, <3>2
  <2>5. PICK Q : take.params \in Seq(Q)
    BY <2>4
  <2>6. After(Nothing, Nothing) = Nothing
    <3>1. <<>> \o <<>> = <<>>
      BY EmptySeq, ConcatEmptySeq
    <3> QED
      BY <3>1 DEF After, Nothing
  <2>7. visit = [route |-> take.route, params |-> take.params]
    <3>1. <<>> \o take.params = take.params
      BY <2>5, ConcatEmptySeq
    <3> QED
      BY <1>11, <2>2, <2>6, <3>1 DEF After
  <2>8. visit.route = take.route /\ visit.params = take.params
    BY <2>7
  <2>9. CASE T = {} /\ take = Nothing
    <3>1. visit = Nothing
      BY <1>11, <2>7, <2>9 DEF Nothing
    <3> QED
      BY <2>3, <2>9, <3>1 DEF RightOf
  <2>10. CASE \E k : Winner(k, T) /\ take.route = {registered[k]} /\ Captures(take.params, registered[k], i, p)
    BY <2>3, <2>8, <2>10 DEF RightOf
  <2> QED
    BY <1>5, <2>9, <2>10 DEF RightOf
<1>15. RightOf(visit, S, i, p)
  BY <1>12, <1>13, <1>14
<1> QED
  BY <1>1, <1>15 DEF Right, S, visit

(* The search is right, for every method and path. *)
LEMMA FindRight ==
    ASSUME SearchInv, NEW m, NEW p \in Paths
    PROVE  RightOf(Find(m, p), Candidates(m, p), 1, p)
<1>1. PICK search : /\ \A i \in 1..(Len(p) + 1) : search[i] = Level(search, i, m, p)
                    /\ Find(m, p) = search[1][Root]
  BY FindUnfolds
<1>2. Len(p) \in Nat
  BY PathsAssumption
<1> DEFINE Fine(i) == \A n \in nodes : Reached(n, i, p) => Right(search[i][n], n, m, p)
           S == {k \in Nat : k <= Len(p) => Fine(Len(p) + 1 - k)}
<1>3. 0 \in S
  <2> SUFFICES ASSUME NEW n \in nodes, Reached(n, Len(p) + 1, p)
               PROVE  Right(search[Len(p) + 1][n], n, m, p)
    BY <1>2
  <2>1. search[Len(p) + 1] = Level(search, Len(p) + 1, m, p)
    BY <1>1, <1>2
  <2>2. search[Len(p) + 1][n] = AtEnd(n, m)
    BY <1>2, <2>1 DEF Level
  <2> QED
    BY <2>2, EndRight
<1>4. ASSUME NEW k \in Nat, k \in S
      PROVE  k + 1 \in S
  <2> DEFINE i == Len(p) + 1 - (k + 1)
  <2> SUFFICES ASSUME k + 1 <= Len(p)
               PROVE  Fine(i)
    BY <1>2
  <2>1. i \in 1..Len(p) /\ i + 1 = Len(p) + 1 - k /\ k <= Len(p) /\ i \in 1..(Len(p) + 1) /\ ~(i > Len(p))
    BY <1>2
  <2>2. Fine(i + 1)
    BY <1>4, <2>1
  <2>3. search[i] = Level(search, i, m, p)
    BY <1>1, <2>1
  <2> HIDE DEF i
  <2>4. ASSUME NEW n \in nodes, Reached(n, i, p)
        PROVE  Right(search[i][n], n, m, p)
    <3>1. search[i][n] = Visit(n, i, search[i + 1], m, p)
      BY <2>1, <2>3 DEF Level
    <3> QED
      BY <2>1, <2>2, <2>4, <3>1, VisitRight
  <2> QED
    BY <2>4
<1>5. Len(p) \in S
  <2> HIDE DEF S
  <2> QED
    BY <1>2, <1>3, <1>4, SetInduction
<1>6. Fine(1)
  BY <1>2, <1>5
<1>7. Root \in nodes /\ Root \in Seq(Edges) /\ Len(Root) = 0
  BY EmptySeq DEF SearchInv, BranchesKept, Root
<1>8. Reached(Root, 1, p)
  BY <1>7 DEF Reached
<1>9. RightOf(Find(m, p), Below(Root, m, p), 1, p)
  <2>1. Right(search[1][Root], Root, m, p)
    BY <1>6, <1>7, <1>8
  <2> QED
    BY <1>1, <1>7, <2>1 DEF Right
<1>10. Below(Root, m, p) = Candidates(m, p)
  <2>1. \A k \in Candidates(m, p) : Under(registered[k], Root)
    BY <1>7, CandidateFacts DEF Under
  <2> QED
    BY <2>1 DEF Below
<1> QED
  BY <1>9, <1>10

-----------------------------------------------------------------------------
(* The winner is the only route that Best leaves. *)
LEMMA BestFound == SearchInv => FindsTheBest
<1> SUFFICES ASSUME SearchInv, NEW m \in Methods, NEW p \in Paths
             PROVE  Find(m, p).route = Best(m, p)
  BY DEF FindsTheBest
<1> DEFINE C == Candidates(m, p)
           Preferred == {k \in C : \A l \in C \ {k} :
                           \/ MoreSpecific(registered[k], registered[l])
                           \/ ~MoreSpecific(registered[l], registered[k]) /\ k < l}
<1>1. Best(m, p) = {registered[k] : k \in Preferred}
  BY DEF Best
<1>2. RightOf(Find(m, p), C, 1, p)
  BY FindRight
<1>3. Preferred = {k \in C : Winner(k, C)}
  BY DEF Winner, Prefers
<1>4. \A k \in C : k \in Nat /\ registered[k] \in Routes
  BY CandidateFacts, Registered
<1> HIDE DEF C, Preferred
<1>5. CASE C = {} /\ Find(m, p) = Nothing
  BY <1>1, <1>3, <1>5 DEF Nothing
<1>6. CASE \E k : Winner(k, C) /\ Find(m, p).route = {registered[k]}
  <2>1. PICK k : Winner(k, C) /\ Find(m, p).route = {registered[k]}
    BY <1>6
  <2>2. k \in C
    BY <2>1 DEF Winner
  <2>3. ASSUME NEW l \in C, Winner(l, C), l # k
        PROVE  FALSE
    <3>1. Prefers(k, l) /\ Prefers(l, k)
      BY <2>1, <2>2, <2>3 DEF Winner
    <3>2. ~(MoreSpecific(registered[k], registered[l]) /\ MoreSpecific(registered[l], registered[k]))
      BY <1>4, <2>2, Asymmetric
    <3>3. k < l /\ l < k
      BY <3>1, <3>2 DEF Prefers
    <3> QED
      BY <1>4, <2>2, <3>3
  <2>4. Preferred = {k}
    BY <1>3, <2>1, <2>2, <2>3
  <2> QED
    BY <1>1, <2>1, <2>4
<1> QED
  BY <1>2, <1>5, <1>6 DEF RightOf

(* Whatever routes are registered, in whichever order: for every method and path the search  *)
(* of Node::find returns the most specific matching route, the first registered among equals, *)
(* and nothing only if none matches but for overwritten catch-alls.                           *)
THEOREM SearchIsRight == Spec => []FindsTheBest
BY SearchInvariance, BestFound, PTL

(* Where the routes agree on their names, the tree's name is the route's own. *)
LEMMA NamesAreOwn ==
    ASSUME SearchInv, NamesAgree, NEW k \in 1..Len(registered), NEW q \in Capturing(registered[k])
    PROVE  NameAt(registered[k], q) = NameOf(registered[k].segs[q])
<1> DEFINE r == registered[k]
           n == Upto(Place(r), q - 1)
           c == Upto(Place(r), q)
<1>1. r \in Routes /\ Len(r.segs) \in Nat /\ q \in 1..Len(r.segs) /\ r.segs[q].k # "static"
  BY Registered, RoutesAssumption DEF Capturing
<1>2. CASE r.segs[q].k = "all"
  BY <1>2 DEF NameAt, NameOf
<1>3. CASE r.segs[q].k # "all"
  <2>1. r.segs[q].k = "param"
    BY <1>1, <1>3, RoutesAssumption
  <2>2. q \in 1..Depth(r) /\ Depth(r) \in Nat
    <3>1. Depth(r) \in Nat
      BY <1>1, DepthType
    <3>2. IsCatchAll(r) => q # Len(r.segs)
      BY <2>1 DEF IsCatchAll
    <3> QED
      BY <1>1, <3>1, <3>2 DEF Depth
  <2>3. Place(r)[q] = ParamEdge
    BY <1>1, <2>1, <2>2, SegmentKinds
  <2>4. q - 1 \in 0..Depth(r) /\ q \in 0..Depth(r)
    BY <2>2
  <2>5. /\ n \in Seq(Edges) /\ Len(n) = q - 1 /\ n \in Branch(r)
        /\ \A j \in 1..(q - 1) : n[j] = Place(r)[j]
    BY <1>1, <2>4, BranchPrefix DEF Branch
  <2>6. c \in Seq(Edges) /\ Len(c) = q /\ \A j \in 1..q : c[j] = Place(r)[j]
    BY <1>1, <2>4, BranchPrefix
  <2> HIDE DEF n, c
  <2>7. Under(r, n) /\ Len(n) + 1 = q
    BY <2>2, <2>5 DEF Under
  <2>8. Under(r, Append(n, ParamEdge))
    BY <1>1, <2>2, <2>3, <2>5, <2>7, UnderChild
  <2>9. Append(n, ParamEdge) \in Branch(r)
    BY <1>1, <2>5, <2>8, NextOnBranch
  <2>10. n \in nodes /\ Append(n, ParamEdge) \in nodes
    BY <2>5, <2>9 DEF SearchInv, BranchesKept
  <2>11. PICK l \in 1..Len(registered) : NamesEdge(registered[l], n, paramName[n])
    BY <2>10 DEF SearchInv, NamesKept
  <2> DEFINE s == registered[l]
  <2>12. s \in Routes /\ Append(n, ParamEdge) \in Branch(s) /\ paramName[n] = {s.segs[q].s}
    BY <2>7, <2>11, Registered DEF NamesEdge
  <2>13. Upto(Place(s), q) = c /\ q <= Depth(s)
    <3>1. PICK d \in 0..Depth(s) : Append(n, ParamEdge) = Upto(Place(s), d)
      BY <2>12 DEF Branch
    <3>2. Len(Append(n, ParamEdge)) = q
      BY <2>5, <2>7, Appended
    <3>3. d = q
      BY <2>12, <3>1, <3>2, BranchPrefix
    <3>4. PICK b \in 0..Depth(r) : Append(n, ParamEdge) = Upto(Place(r), b)
      BY <2>9 DEF Branch
    <3>5. b = q
      BY <1>1, <3>2, <3>4, BranchPrefix
    <3> QED
      BY <2>12, <3>1, <3>3, <3>4, <3>5, DepthType DEF c
  <2>14. r.segs[q] = s.segs[q]
    BY <2>2, <2>13 DEF NamesAgree, c
  <2>15. NameAt(r, q) = s.segs[q].s
    BY <2>1, <2>12 DEF NameAt, n
  <2> QED
    BY <2>1, <2>14, <2>15 DEF NameOf
<1> QED
  BY <1>2, <1>3

LEMMA CapturesRight == SearchInv => CapturesTheRoute
<1> SUFFICES ASSUME SearchInv, NEW m \in Methods, NEW p \in Paths, NEW r \in Find(m, p).route
             PROVE  LET found == Find(m, p) IN
                    /\ Len(found.params) = Cardinality(Capturing(r))
                    /\ \A i \in Capturing(r) :
                          LET param == found.params[Cardinality({j \in Capturing(r) : j <= i})] IN
                          /\ param.value = Captured(r, i, p)
                          /\ NamesAgree => param.name = NameOf(r.segs[i])
  BY DEF CapturesTheRoute
<1>1. RightOf(Find(m, p), Candidates(m, p), 1, p)
  BY FindRight
<1>2. Find(m, p) # Nothing
  BY DEF Nothing
<1>3. PICK k : Winner(k, Candidates(m, p)) /\ Find(m, p).route = {registered[k]} /\ Captures(Find(m, p).params, registered[k], 1, p)
  BY <1>1, <1>2 DEF RightOf
<1>4. r = registered[k] /\ k \in 1..Len(registered) /\ r \in Routes
  BY <1>3, CandidateFacts DEF Winner
<1>5. From(r, 1) = Capturing(r)
  BY <1>4, RoutesAssumption DEF From, Capturing
<1>6. /\ Len(Find(m, p).params) = Cardinality(Capturing(r))
      /\ \A i \in Capturing(r) :
            /\ Find(m, p).params[Cardinality({j \in Capturing(r) : j <= i})].value = Captured(r, i, p)
            /\ Find(m, p).params[Cardinality({j \in Capturing(r) : j <= i})].name = NameAt(r, i)
  BY <1>3, <1>4, <1>5 DEF Captures, NumberOf
<1>7. NamesAgree => \A i \in Capturing(r) : NameAt(r, i) = NameOf(r.segs[i])
  BY <1>4, NamesAreOwn
<1> QED
  BY <1>6, <1>7

(* Each variable segment of the route that is found captures its own segments of the path,   *)
(* no parameter of a branch that was given up is left over, and where the registered routes  *)
(* agree on the names each is captured under the name of the route's pattern (Node::find).   *)
THEOREM CapturesKept == Spec => []CapturesTheRoute
BY SearchInvariance, CapturesRight, PTL
=============================================================================
