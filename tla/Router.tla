------------------------------- MODULE Router -------------------------------
(***************************************************************************)
(* The routing tree of router.rs, built by inserting the registered routes *)
(* one by one, and the search that a request makes in it, compared with a  *)
(* definition of the best matching route that knows of no tree.            *)
(*                                                                         *)
(* A node is named by the path of edges that leads to it: an edge is a     *)
(* literal segment or the one parameter edge of its node.  A segment of a  *)
(* pattern is [k |-> "static", s |-> text], [k |-> "param", s |-> name] or *)
(* [k |-> "all"]; a request path is the sequence of its non-empty segments.*)
(***************************************************************************)
EXTENDS Integers, Sequences, FiniteSets

CONSTANTS Routes,      \* the routes that may be registered: [method, segs]
          Methods,     \* request methods
          Paths,       \* request paths
          MaxRoutes    \* bound: how many routes are registered

ParamEdge == [k |-> "param"]
StaticEdge(s) == [k |-> "static", s |-> s]

(* Patterns as RouteDefinition::new lets them pass: a catch-all is the last segment. *)
ASSUME RoutesAssumption ==
    \A r \in Routes :
        /\ Len(r.segs) \in Nat /\ r.segs \in [1..Len(r.segs) -> {r.segs[i] : i \in 1..Len(r.segs)}]
        /\ \A i \in 1..Len(r.segs) :
              \/ r.segs[i].k = "static" /\ r.segs[i] = StaticEdge(r.segs[i].s)
              \/ r.segs[i].k = "param"
              \/ r.segs[i].k = "all" /\ i = Len(r.segs)
ASSUME PathsAssumption == \A p \in Paths : Len(p) \in Nat
ASSUME MaxRoutesAssumption == MaxRoutes \in Nat

VARIABLES
    registered,  \* the routes, in the order of registration
    nodes,       \* the nodes of the tree
    handlers,    \* for each node the routes that end there, in order
    paramName,   \* for each node the name its parameter edge was created with
    catchAll     \* for each node its catch-all: none or one route

vars == <<registered, nodes, handlers, paramName, catchAll>>

EdgeOf(seg) == IF seg.k = "param" THEN ParamEdge ELSE seg

IsCatchAll(r) == r.segs # <<>> /\ r.segs[Len(r.segs)].k = "all"

(* The edges a pattern takes: all its segments but a catch-all. *)
Depth(r) == IF IsCatchAll(r) THEN Len(r.segs) - 1 ELSE Len(r.segs)
Place(r) == [i \in 1..Depth(r) |-> EdgeOf(r.segs[i])]

Upto(s, n) == SubSeq(s, 1, n)
Root == <<>>

Init ==
    /\ registered = <<>>
    /\ nodes = {Root}
    /\ handlers = [n \in nodes |-> <<>>]
    /\ paramName = [n \in nodes |-> {}]
    /\ catchAll = [n \in nodes |-> {}]

(* Mutant: only the last node of a new branch is created. *)
Branch_LastOnly(r) == {Place(r)}

(* The nodes on the way to the place of a route. *)
Branch(r) == {Upto(Place(r), n) : n \in 0..Depth(r)}

(* The parameter edge of a node keeps the name of the first route that needed it. *)
NamesAfter(r, n) ==
    LET d == Len(n) + 1 IN
    IF n \in Branch(r) /\ d <= Depth(r) /\ r.segs[d].k = "param" /\ Append(n, ParamEdge) \notin nodes
    THEN {r.segs[d].s}
    ELSE IF n \in nodes THEN paramName[n] ELSE {}

(* Node::insert, for one route of Router::build. *)
Insert(r) ==
    /\ Len(registered) < MaxRoutes
    /\ registered' = Append(registered, r)
    /\ nodes' = nodes \cup Branch(r)
    /\ paramName' = [n \in nodes' |-> NamesAfter(r, n)]
    /\ handlers' = [n \in nodes' |->
            LET old == IF n \in nodes THEN handlers[n] ELSE <<>> IN
            IF n = Place(r) /\ ~IsCatchAll(r) THEN Append(old, r) ELSE old]
    /\ catchAll' = [n \in nodes' |->
            IF n = Place(r) /\ IsCatchAll(r) THEN {r} ELSE IF n \in nodes THEN catchAll[n] ELSE {}]

Next == (\E r \in Routes : Insert(r)) \/ (Len(registered) = MaxRoutes /\ UNCHANGED vars)

Spec == Init /\ [][Next]_vars

-----------------------------------------------------------------------------
(* The result of a search: at most one route, and what was pushed on params. *)
Nothing == [route |-> {}, params |-> <<>>]
After(first, then) == [route |-> then.route, params |-> first.params \o then.params]

CatchAllOf(n, method) == {r \in catchAll[n] : r.method = method}

(* Take the catch-all, with what remains of the path as its value. *)
TakeCatchAll(n, method, tail) ==
    IF CatchAllOf(n, method) = {} THEN Nothing
    ELSE [route |-> CatchAllOf(n, method), params |-> <<[name |-> "__path__", value |-> tail]>>]

(* At the end of the path: a handler of the method, or the catch-all with an empty tail. *)
AtEnd(n, method) ==
    LET mine == {i \in 1..Len(handlers[n]) : handlers[n][i].method = method}
        first == CHOOSE i \in mine : \A j \in mine : i <= j
    IN  IF mine # {} THEN [route |-> {handlers[n][first]}, params |-> <<>>] ELSE TakeCatchAll(n, method, <<>>)

(* Mutant: what a parameter captured stays when its branch did not match. *)
Backtrack_KeepsParams(found, name, segment) ==
    [route |-> found.route, params |-> <<[name |-> name, value |-> <<segment>>]>> \o found.params]

(* A parameter branch that did not match is undone. *)
Backtrack(found, name, segment) ==
    IF found.route = {} THEN Nothing
    ELSE [route |-> found.route, params |-> <<[name |-> name, value |-> <<segment>>]>> \o found.params]

(* Mutant: a literal child is taken for good, whether or not its branch matches. *)
Settled_AtFirstChild(found, tried) == tried

(* The search goes on unless a branch has matched. *)
Settled(found, tried) == found.route # {}

(* Node::find before a segment: literal child, parameter child, catch-all, in this order. *)
(* What the children find is given, and what is found of the path from segment i on.      *)
Visit(n, i, deeper, method, path) ==
    LET literal == Append(n, StaticEdge(path[i]))
        child == Append(n, ParamEdge)
        byName == IF literal \in nodes THEN deeper[literal] ELSE Nothing
        byParam == IF child \in nodes
                   THEN Backtrack(deeper[child], CHOOSE s \in paramName[n] : TRUE, path[i])
                   ELSE Nothing
        undone == After(byName, byParam)
    IN  IF Settled(byName, literal \in nodes) THEN byName
        ELSE IF byParam.route # {} THEN undone
        ELSE After(undone, TakeCatchAll(n, method, SubSeq(path, i, Len(path))))

(* The search from each node, for the path from each of its segments on. *)
Find(method, path) ==
    LET search[i \in 1..(Len(path) + 1)] ==
          [n \in nodes |-> IF i > Len(path) THEN AtEnd(n, method)
                          ELSE Visit(n, i, search[i + 1], method, path)]
    IN  search[1][Root]

-----------------------------------------------------------------------------
(* The reference: which registered routes match, and which of them is the best. *)
SegmentMatches(seg, segment) == seg.k = "param" \/ (seg.k = "static" /\ seg.s = segment)

Matches(r, path) ==
    /\ IF IsCatchAll(r) THEN Len(path) >= Depth(r) ELSE Len(path) = Depth(r)
    /\ \A i \in 1..Depth(r) : SegmentMatches(r.segs[i], path[i])

(* A node has one catch-all, whatever its method: the last registered. *)
Overwritten(k) ==
    /\ IsCatchAll(registered[k])
    /\ \E l \in (k + 1)..Len(registered) :
          IsCatchAll(registered[l]) /\ Place(registered[l]) = Place(registered[k])

Candidates(method, path) ==
    {k \in 1..Len(registered) :
        registered[k].method = method /\ Matches(registered[k], path) /\ ~Overwritten(k)}

(* How special a pattern is at a segment; behind its end it is more so than a catch-all. *)
Grade(r, i) ==
    IF i > Len(r.segs) THEN 0
    ELSE CASE r.segs[i].k = "static" -> 0 [] r.segs[i].k = "param" -> 1 [] r.segs[i].k = "all" -> 2

Longest(r, s) == IF Len(r.segs) > Len(s.segs) THEN Len(r.segs) ELSE Len(s.segs)

(* Compared from the left, literal before parameter before catch-all. *)
MoreSpecific(r, s) ==
    \E i \in 1..Longest(r, s) :
        /\ Grade(r, i) < Grade(s, i)
        /\ \A j \in 1..(i - 1) : Grade(r, j) = Grade(s, j)

(* The most specific candidates; among equals the first registered. *)
Best(method, path) ==
    {registered[k] : k \in {k \in Candidates(method, path) :
        \A l \in Candidates(method, path) \ {k} :
            \/ MoreSpecific(registered[k], registered[l])
            \/ ~MoreSpecific(registered[l], registered[k]) /\ k < l}}

-----------------------------------------------------------------------------
ElementsOf(s) == {s[i] : i \in 1..Len(s)}

(* The tree holds what was registered and nothing else, each route at its place: a route is *)
(* lost only as a catch-all that a later one of the same node has overwritten.              *)
TreeHoldsTheRoutes ==
    /\ \A k \in 1..Len(registered) :
          LET r == registered[k] IN
          /\ Place(r) \in nodes
          /\ IF IsCatchAll(r) THEN Overwritten(k) \/ catchAll[Place(r)] = {r} ELSE r \in ElementsOf(handlers[Place(r)])
    /\ \A n \in nodes : \A r \in ElementsOf(handlers[n]) \cup catchAll[n] :
          Place(r) = n /\ \E k \in 1..Len(registered) : registered[k] = r

(* The tree is well formed: every node but the root hangs from another, a parameter *)
(* edge has one name, and a node has at most one catch-all.                         *)
TypeOK ==
    /\ \A n \in nodes : n = Root \/ Upto(n, Len(n) - 1) \in nodes
    /\ DOMAIN handlers = nodes /\ DOMAIN paramName = nodes /\ DOMAIN catchAll = nodes
    /\ \A n \in nodes :
          /\ \A i \in 1..Len(handlers[n]) : handlers[n][i] \in Routes
          /\ catchAll[n] = {} \/ \E r \in Routes : catchAll[n] = {r}
          /\ IF Append(n, ParamEdge) \in nodes THEN \E s \in paramName[n] : paramName[n] = {s}
                                               ELSE paramName[n] = {}

(* The search finds the most specific of the routes that match, and none only when  *)
(* none matches: backtracking out of literal and parameter branches loses nothing.  *)
(* Not counted are catch-alls overwritten by a later one of the same node, which a  *)
(* request of their method no longer reaches.                                       *)
FindsTheBest == \A m \in Methods, p \in Paths : Find(m, p).route = Best(m, p)

(* What the variable segment of a route at position i captures of a path. *)
Captured(r, i, path) == IF r.segs[i].k = "all" THEN SubSeq(path, i, Len(path)) ELSE <<path[i]>>

Capturing(r) == {i \in 1..Len(r.segs) : r.segs[i].k # "static"}

(* No two registered routes give the parameter at the same place different names. *)
NamesAgree ==
    \A k, l \in 1..Len(registered) :
        LET r == registered[k] s == registered[l] IN
        \A i \in 1..Depth(r) :
            (i <= Depth(s) /\ Upto(Place(r), i) = Upto(Place(s), i)) => r.segs[i] = s.segs[i]

NameOf(seg) == IF seg.k = "all" THEN "__path__" ELSE seg.s

(* The k-th parameter captures the k-th variable segment of the route that was found, *)
(* and nothing is left over from branches that were tried and given up; its name is   *)
(* that of the route's own pattern, unless routes disagree on the name at a place.    *)
CapturesTheRoute ==
    \A m \in Methods, p \in Paths :
        LET found == Find(m, p) IN
        \A r \in found.route :
            /\ Len(found.params) = Cardinality(Capturing(r))
            /\ \A i \in Capturing(r) :
                  LET param == found.params[Cardinality({j \in Capturing(r) : j <= i})] IN
                  /\ param.value = Captured(r, i, p)
                  /\ NamesAgree => param.name = NameOf(r.segs[i])
=============================================================================
