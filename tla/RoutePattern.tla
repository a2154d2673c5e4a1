---------------------------- MODULE RoutePattern ----------------------------
(***************************************************************************)
(* The three readings of a route pattern: the macros accept it when the    *)
(* application is compiled (macros/src/lib.rs), RouteDefinition::new when  *)
(* it starts (route_definition.rs), and Router takes it apart (router.rs). *)
(*                                                                         *)
(* A pattern is a sequence of tokens: "/", "{", "}" and words.  Words in a *)
(* row are one word.                                                       *)
(***************************************************************************)
EXTENDS Tokens

Slash == "/"
OpenBrace == "{"
CloseBrace == "}"
PathName == "__path__"

CONSTANTS Idents,    \* words that are identifiers
          Wrapped,   \* those of them that begin and end with "__"
          Inner      \* other words that may follow in an identifier

ASSUME WrappedAssumption == Wrapped \subseteq Idents /\ PathName \in Wrapped
ASSUME WordsAssumption == {Slash, OpenBrace, CloseBrace} \cap (Idents \cup Inner) = {}

CatchAll == <<OpenBrace, PathName, CloseBrace>>

(* is_valid_param_name *)
ValidName(name) ==
    name # <<>> /\ name[1] \in Idents /\ \A k \in 2..Len(name) : name[k] \in Idents \cup Inner

StartsWithSlash(p) == p # <<>> /\ p[1] = Slash

(* Both validations start outside a parameter, and go from left to right. *)
Outside == [ok |-> TRUE, inParam |-> FALSE, name |-> <<>>]

-----------------------------------------------------------------------------
(* RouteDefinition::validate_route: one pass over the characters. *)
Scan(s, token) ==
    CASE token = OpenBrace -> [ok |-> s.ok /\ ~s.inParam, inParam |-> TRUE, name |-> <<>>]
      [] token = CloseBrace -> [s EXCEPT !.ok = @ /\ s.inParam /\ ValidName(s.name), !.inParam = FALSE]
      [] OTHER -> [s EXCEPT !.name = IF s.inParam THEN Append(@, token) ELSE @]

Scanned(p) ==
    LET state[n \in 0..Len(p)] == IF n = 0 THEN Outside ELSE Scan(state[n - 1], p[n])
    IN  state[Len(p)]

(* Mutant: the catch-all may stand anywhere. *)
CatchAllAtEnd_Anywhere(p) == TRUE

(* The first catch-all is followed by nothing, or by one slash. *)
CatchAllAtEnd(p) ==
    LET at == FirstAt(CatchAll, p, 1) IN
    at # 0 => SubSeq(p, at + Len(CatchAll), Len(p)) \in {<<>>, <<Slash>>}

RuntimeAccepts(p) ==
    StartsWithSlash(p) /\ Scanned(p).ok /\ ~Scanned(p).inParam /\ CatchAllAtEnd(p)

-----------------------------------------------------------------------------
Reserved(name) == name[1] \in Wrapped /\ name[Len(name)] \in Wrapped

(* validate_route_literal of #[route]: every "{" takes what follows up to the next "}" *)
(* for its name, a "{" too; a "}" outside is refused.                                  *)
MacroScan(s, token) ==
    CASE s.inParam /\ token = CloseBrace ->
            [s EXCEPT !.ok = @ /\ ValidName(s.name) /\ ~Reserved(s.name), !.inParam = FALSE]
      [] s.inParam /\ token # CloseBrace -> [s EXCEPT !.name = Append(@, token)]
      [] ~s.inParam /\ token = OpenBrace -> [s EXCEPT !.inParam = TRUE, !.name = <<>>]
      [] OTHER -> [s EXCEPT !.ok = @ /\ token # CloseBrace]

MacroScanned(p) ==
    LET state[n \in 0..Len(p)] == IF n = 0 THEN Outside ELSE MacroScan(state[n - 1], p[n])
    IN  state[Len(p)]

MacroAccepts(p) == StartsWithSlash(p) /\ MacroScanned(p).ok /\ ~MacroScanned(p).inParam

(* #[static_files] refuses braces only, and appends the catch-all. *)
StaticAccepts(p) == \A i \in DOMAIN p : p[i] \notin {OpenBrace, CloseBrace}

StaticRoute(p) ==
    IF p # <<>> /\ p[Len(p)] = Slash THEN p \o CatchAll ELSE p \o <<Slash>> \o CatchAll

-----------------------------------------------------------------------------
(* Segment::from_str *)
SegmentOf(s) ==
    IF s = CatchAll THEN [k |-> "all"]
    ELSE IF Len(s) > 1 /\ s[1] = OpenBrace /\ s[Len(s)] = CloseBrace
         THEN [k |-> "param", s |-> SubSeq(s, 2, Len(s) - 1)]
    ELSE [k |-> "static", s |-> s]

(* Router::parse_segments: what lies between slashes and is not empty. *)
SegmentsOf(p) ==
    LET parts == Split(p, Slash) IN
    FlattenSeq([i \in DOMAIN parts |-> IF parts[i] = <<>> THEN <<>> ELSE <<SegmentOf(parts[i])>>])
=============================================================================
