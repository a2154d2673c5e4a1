------------------------------ MODULE MCRouter ------------------------------
(***************************************************************************)
(* Routes for Router, made from pattern texts as the application makes     *)
(* them: RouteDefinition::new lets a text pass (RoutePattern) and          *)
(* Router::parse_segments takes it apart.  The texts are all those of up   *)
(* to three segments over one literal, two parameters and the catch-all,   *)
(* and one whose parameter shares its segment with a literal.  A text with *)
(* a catch-all in the middle is offered, and does not pass.                *)
(***************************************************************************)
EXTENDS Router, RoutePattern

SegmentTexts == {<<"a">>, <<"{", "x", "}">>, <<"{", "y", "}">>, CatchAll}

Texts ==
    {FlattenSeq([i \in DOMAIN segs |-> <<"/">> \o segs[i]]) : segs \in UNION {[1..n -> SegmentTexts] : n \in 0..3}}
        \cup {<<"/">>, <<"/", "a", "{", "x", "}">>}

Short(segs) == Len(segs) <= 2 \/ (Len(segs) = 3 /\ segs[3].k = "all")

Accepted == {segs \in {SegmentsOf(p) : p \in {t \in Texts : RuntimeAccepts(t)}} : Short(segs)}

MCRoutes ==
    {[method |-> "GET", segs |-> s] : s \in Accepted}
        \cup {[method |-> "POST", segs |-> s] : s \in {t \in Accepted : Len(t) <= 1}}

(* Literals that some pattern has, one that none has, and the text of the shared segment. *)
MCPaths ==
    UNION {[1..n -> {<<"a">>, <<"b">>}] : n \in 0..3} \cup {<<<<"a", "{", "x", "}">>>>}
=============================================================================
