------------------------------ MODULE MCTexts ------------------------------
(***************************************************************************)
(* Small texts for Texts: all patterns of up to five tokens and all routes *)
(* of up to three segments, forms of up to two parts cut at every token,   *)
(* jars of up to three cookies, every day up to March 2100.                *)
(***************************************************************************)
EXTENDS Texts

Upto(set, n) == UNION {[1..k -> set] : k \in 0..n}

RawPatterns == Upto({"/", "{", "}", "id", "__path__", "9"}, 5)

SegmentTexts ==
    {<<>>, <<"id">>, <<"{", "id", "}">>, <<"{", "__x__", "}">>, <<"{", "__path__", "}">>, <<"{", "id", "9", "}">>,
     <<"id", "{", "id", "}">>, <<"{", "id", "}", "id">>, <<"{", "id", "}", "{", "id", "}">>}

Routes == {FlattenSeq([i \in DOMAIN segs |-> <<"/">> \o segs[i]]) : segs \in Upto(SegmentTexts, 3)}

MCPatterns == RawPatterns \cup Routes

-----------------------------------------------------------------------------
Part(name, file, type, content) == [name |-> name, file |-> file, type |-> type, content |-> content]

(* All that a client may put between delimiters: no delimiter in it. *)
Contents == {c \in Upto({"x", "CRLF", "--B", "--"}, 2) : c # <<"CRLF", "--B">>}

PartsAlone ==
    {Part(name, file, type, content) : name \in {<<"a">>, <<" ", "a", " ", ";", "b">>}, file \in BOOLEAN,
        type \in {<<>>, <<"text/plain">>}, content \in Contents}

PartsTogether ==
    {Part(name, file, type, content) : name \in {<<"a">>, <<"b">>}, file \in BOOLEAN,
        type \in {<<>>}, content \in {<<>>, <<"x">>, <<"CRLF">>, <<"--B", "CRLF">>}}

FormTexts == {<<>>} \cup {<<p>> : p \in PartsAlone} \cup {<<p, q>> : p \in PartsTogether, q \in PartsTogether}

MCForms ==
    UNION {{[form |-> f, cut |-> n, style |-> "bare"] : n \in 0..Len(Encode(f))} : f \in FormTexts}
        \cup {[form |-> f, cut |-> Len(Encode(f)), style |-> "quoted"] : f \in FormTexts}
        \cup {[form |-> f, cut |-> Len(Encode(f)), style |-> "missing"] :
                  f \in {g \in FormTexts : \A k \in DOMAIN g : \A i \in DOMAIN g[k].content : g[k].content[i] # "--"}}

-----------------------------------------------------------------------------
Pairs ==
    {[name |-> n, value |-> v] : n \in {<<>>, <<"a">>, <<"b">>}, v \in {<<>>, <<"x">>, <<"=", "y">>, <<"x", "=">>}}

MCJars ==
    {[pairs |-> p, split |-> 0, style |-> s] : p \in Upto(Pairs, 3), s \in {"tidy", "spaced", "short"}}
        \cup {[pairs |-> p, split |-> k, style |-> "tidy"] : p \in [1..3 -> Pairs], k \in 1..2}

Calls ==
    {[op |-> "add", name |-> n, value |-> v] : n \in {<<"a">>, <<"a", " ">>, <<"b">>}, v \in {"x", "y"}}
        \cup {[op |-> "remove", name |-> n, value |-> "-"] : n \in {<<"a">>, <<"a", " ">>, <<"b">>}}

MCCallLists == Upto(Calls, 3)

(* Around each value whose product leaves the word, and around the present. *)
MCLifetimes ==
    UNION {LET most == WordSize \div UnitSeconds[u] IN
           {[unit |-> u, n |-> n] : n \in (0..2) \cup (((most - 1)..(most + 1)) \cap (0..(WordSize - 1)))} : u \in DOMAIN UnitSeconds}
        \cup {[unit |-> "seconds", n |-> n] : n \in (WordSize - Now - 2)..(WordSize - Now + 1)}
        \cup {[unit |-> "at", n |-> n] : n \in {0, Now - 1, Now, Now + 1, WordSize - 1}}

MCDays == 0..47600

-----------------------------------------------------------------------------
MCNumeral == ("0" :> 0) @@ ("1" :> 1) @@ ("2" :> 2) @@ ("+2" :> 2) @@ ("9" :> 9)

MCDigits == {"0", "1", "2", "9"}

Line(name, value) == [name |-> name, value |-> value]

Lines ==
    {Line("content-length", v) : v \in {<<"0">>, <<"1">>, <<"2">>, <<"2", "2">>, <<"+2">>, <<"x">>, <<"">>}}
        \cup {Line("transfer-encoding", v) : v \in {<<"chunked">>, <<"Chunked">>, <<"gzip", "chunked">>, <<"gzip">>}}
        \cup {Line("connection", v) : v \in {<<"close">>, <<"keep-alive">>, <<"keep-alive", "close">>}}
        \cup {Line("", <<"close">>), Line("expect", <<"100-continue">>)}

MCHeads == {[method |-> "POST", words |-> w, lines |-> l] : w \in {2, 3}, l \in Upto(Lines, 3)}
=============================================================================
