------------------------------ MODULE Response ------------------------------
(***************************************************************************)
(* One response as its reader sees it: the fields                          *)
(* and the body a handler, serve_static, a CORS preflight or the refusal   *)
(* of an unknown route puts together (response.rs, field_lines.rs,         *)
(* compress.rs, static_files.rs, cors.rs), what write_response makes of    *)
(* them (connection.rs), and a client that finds the end of each response  *)
(* by the rules of HTTP/1.1.                                               *)
(*                                                                         *)
(* A field name stands for all its spellings, a value for the sequence of  *)
(* its elements (", " between them; <<"">> is the empty value).  A body is a number of bytes; what is *)
(* on the wire after the head is a sequence of "byte", "chunk" and "last", *)
(* the last chunk.  When responses are flushed, and whether the connection *)
(* is kept, is Connection's subject; cookies do not bear on framing.       *)
(***************************************************************************)
EXTENDS Integers, Sequences, SequencesExt

CONSTANTS Configs,   \* the CORS configurations a server may be built with
          Requests,  \* the requests that may arrive
          Sizes,     \* lengths of bodies and files
          Types,     \* content types
          UserLines, \* the fields handlers add: [name, value]
          MaxEdits   \* bound: calls of a handler on one response besides its body

ASSUME SizesAssumption == Sizes \subseteq Nat
ASSUME TypesAssumption == Types \subseteq STRING
ASSUME MaxEditsAssumption == MaxEdits \in Nat
ASSUME ConfigsAssumption ==
    \A c \in Configs :
        c.origins \in {"any", "only"} /\ {c.credentials, c.exposed, c.maxAge} \subseteq BOOLEAN /\ c.methods \in Seq(STRING)

(* Of origins it matters whether there is one and whether a configuration lists it; of the *)
(* ranges a request asks for, one is served at most.                                       *)
ASSUME RequestsAssumption ==
    \A r \in Requests :
        /\ r.origin \in {"none", "listed", "other"} /\ r.asks \in Seq(STRING)
        /\ r.range = {} \/ \E range \in r.range : r.range = {range}
        /\ \A range \in r.range : {range.start, range.end} \subseteq {-1} \cup Nat

ASSUME UserLinesAssumption == UserLines \subseteq [name : STRING, value : Seq(STRING) \ {<<>>}]

VARIABLES
    cors,    \* the configuration: none or one
    pc,      \* "request", "dispatch", "init" and "ready" (HttpResponseInit, -Ready),
             \* "sending", "sent"
    req,     \* the request being answered
    resp,    \* its response
    edits,   \* calls made on it
    client   \* has the client found the end of every response: "instep" or "lost"

vars == <<cors, pc, req, resp, edits, client>>

-----------------------------------------------------------------------------
(* FieldLines: one line for each name. *)
Position(lines, name) == SelectInSeq(lines, LAMBDA l : l.name = name)
Has(lines, name) == Position(lines, name) > 0
Get(lines, name) == IF Has(lines, name) THEN lines[Position(lines, name)].value ELSE <<>>

(* Mutant: a line is added whether or not its name is there. *)
SetLine_Appends(lines, name, value) == Append(lines, [name |-> name, value |-> value])

(* A name that is there gets the new value after its old one. *)
SetLine(lines, name, value) ==
    IF Has(lines, name) THEN [lines EXCEPT ![Position(lines, name)].value = @ \o value]
                        ELSE Append(lines, [name |-> name, value |-> value])

RemoveLine(lines, name) == IF Has(lines, name) THEN RemoveAt(lines, Position(lines, name)) ELSE lines

-----------------------------------------------------------------------------
NoBody == [kind |-> "none"]
BytesBody(n) == [kind |-> "bytes", len |-> n]

(* A reader that yields n bytes and then ends, or fails; the length announced for it. *)
StreamBody(declared, n, fails) == [kind |-> "stream", declared |-> declared, len |-> n, fails |-> fails]

(* HttpResponse::new. *)
Fresh == [status |-> "Ok", lines |-> <<[name |-> "x-request-id", value |-> <<"id">>]>>,
          body |-> NoBody, suppress |-> FALSE]

(* HttpCall::response: for HEAD requests the body will not be written. *)
NewResponse == [Fresh EXCEPT !.suppress = (req.method = "HEAD")]

Reserved == {"content-type", "content-length", "x-request-id", "access-control-allow-origin",
    "access-control-allow-credentials", "access-control-allow-methods",
    "access-control-request-headers", "access-control-max-age", "access-control-expose-headers",
    "cookie", "set-cookie", "accept-encoding", "date", "connection", "keep-alive",
    "content-range", "accept-ranges"}

With(r, name, value) == [r EXCEPT !.lines = SetLine(@, name, value)]

(* add_header and remove_header leave the server's own fields alone. *)
AddHeader(r, name, value) == IF name \in Reserved THEN r ELSE With(r, name, value)
RemoveHeader(r, name) == IF name \in Reserved THEN r ELSE [r EXCEPT !.lines = RemoveLine(@, name)]

(* json and bytes. *)
WithBytes(r, n, type) ==
    [With(With(r, "content-type", <<type>>), "content-length", <<n>>) EXCEPT !.body = BytesBody(n)]

(* stream: a reader of unknown length (0) is sent in chunks; a length is announced *)
(* all the same, once for the unknown length, else twice.                          *)
WithStream(r, body, type) ==
    LET typed == With(r, "content-type", <<type>>)
        once == IF body.declared = 0 THEN With(typed, "transfer-encoding", <<"chunked">>)
                                     ELSE With(typed, "content-length", <<body.declared>>)
    IN [With(once, "content-length", <<body.declared>>) EXCEPT !.body = body]

-----------------------------------------------------------------------------
(* compress looks for accept-encoding among the fields of the response. *)
Encodings(r) == Get(r.lines, "accept-encoding")

Compressible(r) == Get(r.lines, "content-type") # <<>> /\ Head(Get(r.lines, "content-type")) = "text"

(* compress, where the encoder makes n bytes of the body; no body is below its threshold of 1 KiB. *)
Compressed(r, n) ==
    IF r.body = NoBody \/ ~Compressible(r) \/ Encodings(r) = <<>> THEN r
    ELSE LET encoded(s) == With(With(s, "content-encoding", <<Head(Encodings(r))>>), "vary", <<"Accept-Encoding">>) IN
         IF r.body.kind = "stream"
         THEN [encoded(With([r EXCEPT !.lines = RemoveLine(@, "content-length")], "transfer-encoding", <<"chunked">>))
                 EXCEPT !.body = StreamBody(0, n, r.body.fails)]
         ELSE IF n >= r.body.len THEN r
         ELSE [encoded(With(r, "content-length", <<n>>)) EXCEPT !.body = BytesBody(n)]

-----------------------------------------------------------------------------
(* Mutant: an origin that was given by name is not said to make a difference. *)
VaryOrigin_Never(c) == <<>>

(* Answers differ by origin with credentials, and where only some origins are allowed. *)
VaryOrigin(c) == IF c.credentials \/ c.origins = "only" THEN <<"Origin">> ELSE <<>>

(* What access-control-allow-origin says: nothing, "*" or the origin of the request. *)
AllowOrigin(c) ==
    IF c.origins = "any" THEN {IF c.credentials /\ req.origin # "none" THEN req.origin ELSE "*"}
    ELSE IF req.origin = "listed" THEN {req.origin} ELSE {}

WithIf(condition, r, name, value) == IF condition THEN With(r, name, value) ELSE r

(* The fields preflights and other responses have in common. *)
Granted(c, r, origin) ==
    LET named == With(r, "access-control-allow-origin", <<origin>>)
        trusted == WithIf(c.credentials, named, "access-control-allow-credentials", <<"true">>)
    IN With(trusted, "access-control-allow-methods", c.methods)

WithVary(r, names) == WithIf(names # <<>>, r, "vary", names)
WithExposed(c, r) == WithIf(c.exposed, r, "access-control-expose-headers", <<"x-exposed">>)

(* add_cors_headers. *)
CorsHeaders(c, r) ==
    IF AllowOrigin(c) = {} THEN r
    ELSE LET origin == CHOOSE o \in AllowOrigin(c) : TRUE
         IN WithVary(WithExposed(c, Granted(c, r, origin)), VaryOrigin(c))

(* The fields a preflight may use: all it asked for, or those of a list. *)
AllowHeaders(c) == IF c.headers \in {"none", "star"} THEN req.asks ELSE <<"x-listed">>

(* Is access-control-request-method there, a method, and an allowed one? *)
MethodAllowed(c) == req.wants \in Range(c.methods)

(* apply_cors with is_preflight: 204 in any case. *)
PreflightResponse(c) ==
    LET none == [NewResponse EXCEPT !.status = "NoContent"] IN
    IF AllowOrigin(c) = {} \/ ~MethodAllowed(c) THEN none
    ELSE LET granted == Granted(c, none, CHOOSE o \in AllowOrigin(c) : TRUE)
             asked == AllowHeaders(c) # <<>>
             headers == WithIf(asked, granted, "access-control-allow-headers", AllowHeaders(c))
             aged == WithIf(c.maxAge, headers, "access-control-max-age", <<"age">>)
             vary == VaryOrigin(c) \o (IF asked THEN <<"Access-Control-Request-Headers">> ELSE <<>>)
         IN WithExposed(c, WithVary(aged, vary))

-----------------------------------------------------------------------------
(* serve_static: a bound of the range that is missing or does not parse is Unparsed. *)
Unparsed == -1
First(range) == IF range.start = Unparsed THEN 0 ELSE range.start
Final(range, len) == IF range.end # Unparsed THEN range.end ELSE IF len = 0 THEN 0 ELSE len - 1

Satisfiable(range, len) == First(range) <= Final(range, len) /\ Final(range, len) < len

(* Mutant: the whole rest of the file is sent. *)
Partial_Untaken(range, len, now, fails, type) ==
    LET a == First(range)
        n == Final(range, len) - a + 1
        ranged == With([NewResponse EXCEPT !.status = "PartialContent"], "content-range", <<a, Final(range, len), len>>)
    IN WithStream(With(ranged, "accept-ranges", <<"bytes">>),
                  StreamBody(n, IF now <= a THEN 0 ELSE now - a, fails), type)

(* 206: take() lets no more than the range through, however long the file has become. *)
Partial(range, len, now, fails, type) ==
    LET a == First(range)
        n == Final(range, len) - a + 1
        left == IF now <= a THEN 0 ELSE now - a
        ranged == With([NewResponse EXCEPT !.status = "PartialContent"], "content-range", <<a, Final(range, len), len>>)
    IN WithStream(With(ranged, "accept-ranges", <<"bytes">>),
                  StreamBody(n, IF left < n THEN left ELSE n, fails), type)

(* The whole file, as long as it is by now.  It was to say that ranges are accepted, but *)
(* add_header drops the reserved accept-ranges.                                          *)
Whole(len, now, fails, type) ==
    WithStream(AddHeader(NewResponse, "accept-ranges", <<"bytes">>), StreamBody(len, now, fails), type)

-----------------------------------------------------------------------------
Forbids(r) == r.status \in {"NoContent", "NotModified"}

(* A response without a body says so, unless its status does. *)
Injected(r) ==
    IF ~Forbids(r) /\ r.body = NoBody /\ ~Has(r.lines, "content-length")
    THEN {[name |-> "content-length", value |-> <<0>>]} ELSE {}

(* The lines of the head that do not stem from the connection; their order means nothing. *)
HeadLines(r) ==
    Injected(r) \cup {l \in Range(r.lines) : l.name \notin {"date", "connection", "keep-alive"}}

HeadField(r, name) ==
    LET found == {l \in HeadLines(r) : l.name = name} IN
    IF found = {} THEN <<>> ELSE (CHOOSE l \in found : TRUE).value

Copies(token, n) == [i \in 1..n |-> token]

(* write_chunk: a chunk without data is what ends the body. *)
Chunk(n) == IF n = 0 THEN <<"last">> ELSE <<"chunk">>

(* Bytes are one chunk; a reader is read chunk by chunk, to its end or its failure. *)
Chunked(body) ==
    IF body.kind = "bytes" THEN Chunk(body.len) \o <<"last">>
    ELSE Copies("chunk", body.len) \o (IF body.fails THEN <<>> ELSE <<"last">>)

(* The elements in which the text "chunked" is found: itself and, for all the others, one. *)
Chunking == {"chunked", "x-chunked"}

(* Does write_body find it anywhere in the value? *)
WritesChunks(r) == Range(Get(r.lines, "transfer-encoding")) \cap Chunking # {}

(* Mutant: the body is written whatever the status. *)
Wire_AnyStatus(r) ==
    IF r.suppress \/ r.body = NoBody THEN <<>>
    ELSE IF WritesChunks(r) THEN Chunked(r.body)
    ELSE Copies("byte", r.body.len)

(* What write_response puts on the wire after the head. *)
Wire(r) ==
    IF r.suppress \/ Forbids(r) \/ r.body = NoBody THEN <<>>
    ELSE IF WritesChunks(r) THEN Chunked(r.body)
    ELSE Copies("byte", r.body.len)

(* A client takes any spelling of chunked for it; what it has to be is the only one, and *)
(* the last coding there is.                                                             *)
EndsInChunked(coding) ==
    \E i \in 1..Len(coding) : \A j \in 1..Len(coding) :
        /\ coding[j] \in {"chunked", "Chunked"} <=> j = i
        /\ j > i => coding[j] = ""

(* The client: HEAD and some statuses mean no body, then a coding counts, of which it has *)
(* to be chunked (else only closing would end the body), then a length, which may be      *)
(* there more than once if it is the same one; is that what is on the wire?               *)
FindsEnd(r) ==
    LET coding == HeadField(r, "transfer-encoding")
        length == HeadField(r, "content-length")
        wire == Wire(r)
    IN IF req.method = "HEAD" \/ Forbids(r) THEN wire = <<>>
       ELSE IF coding # <<>>
       THEN /\ EndsInChunked(coding)
            /\ wire # <<>>
            /\ \A i \in 1..Len(wire) : wire[i] = IF i = Len(wire) THEN "last" ELSE "chunk"
       ELSE /\ Cardinality(Range(length)) = 1
            /\ wire = Copies("byte", length[1])

-----------------------------------------------------------------------------
Empty == [Fresh EXCEPT !.lines = <<>>]

Init ==
    /\ cors \in {{}} \cup {{c} : c \in Configs}
    /\ pc = "request"
    /\ req \in Requests
    /\ resp = Empty
    /\ edits = 0
    /\ client = "instep"

Building(to, r) == pc' = to /\ resp' = r /\ UNCHANGED <<cors, req, edits, client>>

(* A preflight is answered before any route is looked for. *)
Preflight ==
    /\ pc = "request"
    /\ req.method = "OPTIONS"
    /\ \E c \in cors : Building("sending", PreflightResponse(c))

Dispatch ==
    /\ pc = "request"
    /\ req.method = "OPTIONS" => cors = {}
    /\ Building("dispatch", resp)

(* No route, or none for the method: the one place where other responses get CORS fields. *)
Refuse ==
    /\ pc = "dispatch"
    /\ LET base == IF cors = {} THEN Fresh ELSE CorsHeaders(CHOOSE c \in cors : TRUE, Fresh)
       IN \/ Building("sending", [base EXCEPT !.status = "NotFound"])
          \/ Building("sending", AddHeader([base EXCEPT !.status = "MethodNotAllowed"], "allow", <<"GET", "HEAD">>))

(* serve_static finds no file, may not show it, or finds one and its length. *)
ServeNothing ==
    /\ pc = "dispatch"
    /\ \E status \in {"NotFound", "Forbidden", "InternalServerError"} :
         Building("sending", [NewResponse EXCEPT !.status = status])

ServeRange ==
    /\ pc = "dispatch"
    /\ \E len \in Sizes, now \in Sizes, fails \in BOOLEAN, type \in Types, range \in req.range :
         /\ Satisfiable(range, len)
         /\ Building("sending", Partial(range, len, now, fails, type))

(* No range, one that does not fit, or a file that cannot seek. *)
ServeWhole ==
    /\ pc = "dispatch"
    /\ \E len \in Sizes, now \in Sizes, fails \in BOOLEAN, type \in Types :
         Building("sending", Whole(len, now, fails, type))

(* A handler or a middleware starts a response with call.response(). *)
Respond == pc = "dispatch" /\ Building("init", NewResponse)

Editing(r) ==
    /\ edits < MaxEdits
    /\ edits' = edits + 1
    /\ resp' = r
    /\ UNCHANGED <<cors, pc, req, client>>

Status == pc \in {"init", "ready"} /\ \E s \in {"Ok", "NoContent"} : Editing([resp EXCEPT !.status = s])

Header == pc \in {"init", "ready"} /\ \E l \in UserLines : Editing(AddHeader(resp, l.name, l.value))

Unheader == pc = "init" /\ \E l \in UserLines : Editing(RemoveHeader(resp, l.name))

Bytes == pc = "init" /\ \E n \in Sizes, type \in Types : Building("ready", WithBytes(resp, n, type))

Stream ==
    /\ pc = "init"
    /\ \E declared \in Sizes, n \in Sizes, fails \in BOOLEAN, type \in Types :
         Building("ready", WithStream(resp, StreamBody(declared, n, fails), type))

NoContents == pc = "init" /\ Building("ready", resp)

Compress == pc = "ready" /\ \E n \in Sizes : Editing(Compressed(resp, n))

(* send: what fails on the way is ignored, and the connection goes on. *)
Send ==
    /\ pc \in {"ready", "sending"}
    /\ pc' = "sent"
    /\ client' = IF FindsEnd(resp) THEN "instep" ELSE "lost"
    /\ UNCHANGED <<cors, req, resp, edits>>

Done == pc = "sent" /\ UNCHANGED vars

Next ==
    \/ Preflight \/ Dispatch \/ Refuse
    \/ ServeNothing \/ ServeRange \/ ServeWhole
    \/ Respond \/ Status \/ Header \/ Unheader \/ Bytes \/ Stream \/ NoContents \/ Compress
    \/ Send \/ Done

Spec == Init /\ [][Next]_vars

-----------------------------------------------------------------------------
(* The types of the variables, and what FieldLines promises: whatever is set, set  *)
(* again and removed, each name has one line (get and remove look for the first).  *)
TypeOK ==
    /\ cors \in {{}} \cup {{c} : c \in Configs}
    /\ pc \in {"request", "dispatch", "init", "ready", "sending", "sent"}
    /\ req \in Requests
    /\ resp.suppress => req.method = "HEAD"
    /\ edits \in 0..MaxEdits
    /\ client \in {"instep", "lost"}
    /\ \A i, j \in 1..Len(resp.lines) : resp.lines[i].name = resp.lines[j].name => i = j

(* What a handler or a file can do that upsets the framing of a response with a    *)
(* body.  It can set transfer-encoding: to what is not chunked, or is that twice   *)
(* or in a spelling write_body does not know, or where there is nothing to send.   *)
(* It can bring a reader that fails in chunks, or that yields more or less than    *)
(* was announced (a file that changes while it is served).                         *)
Upset ==
    LET coding == Get(resp.lines, "transfer-encoding")
        stream == resp.body.kind = "stream"
    IN /\ req.method # "HEAD" /\ ~Forbids(resp)
       /\ \/ /\ coding # <<>>
             /\ \/ ~EndsInChunked(coding) \/ ~WritesChunks(resp)
                \/ resp.body \in {NoBody, BytesBody(0)} \/ (stream /\ resp.body.fails)
          \/ coding = <<>> /\ stream /\ resp.body.declared \notin {0, resp.body.len}

(* The client finds the end of every response, so that the next one on the         *)
(* connection is not taken for its body nor its body for the next one: whatever    *)
(* the method, status, fields, body, order of calls, except in the cases of Upset; *)
(* and in those it does not, although send ignores it and the connection is kept.  *)
InStep == pc = "sent" => (client = "lost" <=> Upset)

(* A 206 names bytes of the file, the ones asked for if both ends were given; it   *)
(* announces as many as it names and never sends more, also when the file grows.   *)
RangeIsHonest ==
    (pc = "sending" /\ resp.status = "PartialContent") =>
        LET range == Get(resp.lines, "content-range")
            n == range[2] - range[1] + 1
        IN /\ 0 <= range[1] /\ range[1] <= range[2] /\ range[2] < range[3]
           /\ Range(Get(resp.lines, "content-length")) = {n}
           /\ resp.body.len <= n
           /\ \A r \in req.range :
                (Unparsed \notin {r.start, r.end}) => (r.start = range[1] /\ r.end = range[2])

(* An origin is granted only what the configuration grants; a cache is told when   *)
(* the answer names the origin; "*" goes with credentials only where no origin     *)
(* asks (browsers refuse the pair); a preflight that grants had an allowed method. *)
(* What handlers and files send never carries a grant.                             *)
GrantsAsConfigured ==
    LET granted == Range(Get(resp.lines, "access-control-allow-origin")) IN
    /\ granted # {} => \E c \in cors :
         /\ granted = {"*"} => (c.origins = "any" /\ (c.credentials => req.origin = "none"))
         /\ granted # {"*"} =>
              /\ granted = {req.origin}
              /\ c.origins = "only" => req.origin = "listed"
              /\ Contains(Get(resp.lines, "vary"), "Origin")
         /\ req.method = "OPTIONS" => req.wants \in Range(c.methods)
    /\ (granted # {} /\ req.method # "OPTIONS") => resp.status \in {"NotFound", "MethodNotAllowed"}
=============================================================================
