---------------------------- MODULE MCConnection ----------------------------
(***************************************************************************)
(* Clients for Connection: short byte streams that pipeline two or three   *)
(* requests with every framing of the body.  The heads are header blocks   *)
(* as RequestHead understands them.                                        *)
(***************************************************************************)
EXTENDS Connection, RequestHead

MCNumeral == ("0" :> 0) @@ ("1" :> 1) @@ ("2" :> 2) @@ ("+2" :> 2) @@ ("9" :> 9)

Field(name, value) == [name |-> name, value |-> value]
Length(n) == Field("content-length", <<n>>)
Codings(codings) == Field("transfer-encoding", codings)
Close == Field("connection", <<"close">>)
Expect == Field("expect", <<"100-continue">>)

Sends(frame, len, trailers) == [frame |-> frame, len |-> len, trailers |-> trailers]
Plain(n) == Sends("length", n, FALSE)
InChunks == Sends("chunked", 0, FALSE)
WithTrailers == Sends("chunked", 0, TRUE)

Block(method, words, lines, sends) ==
    [t |-> "head", sends |-> sends] @@ Understood([method |-> method, words |-> words, lines |-> lines])

Tok(t) == [t |-> t]
Body(n) == [i \in 1..n |-> Tok("data")]

Get == <<Block("GET", 3, <<>>, Plain(0))>>
SlowGet == <<Tok("open")>> \o Get
LongGet == <<Tok("open"), Tok("open"), Tok("open")>> \o Get
LastGet == <<Block("GET", 3, <<Close>>, Plain(0))>>
Options == <<Block("OPTIONS", 3, <<>>, Plain(0))>>
TwoWords == <<Block("GET", 2, <<>>, Plain(0))>>
TooLarge == <<Block("POST", 3, <<Length("9")>>, Plain(9))>>
Post == <<Block("POST", 3, <<Length("2")>>, Plain(2))>> \o Body(2)
Put == <<Block("PUT", 3, <<Length("1"), Expect>>, Plain(1))>> \o Body(1)
LastPut == <<Block("PUT", 3, <<Expect, Close, Length("1")>>, Plain(1))>> \o Body(1)
Chunked == <<Block("POST", 3, <<Codings(<<"gzip", "chunked">>)>>, InChunks), Tok("data"), Tok("last")>>
BadChunk == <<Block("POST", 3, <<Codings(<<"chunked">>)>>, InChunks), Tok("bad"), Tok("data"), Tok("last")>>

(* The content-length twice: the server takes it for none. *)
TwiceLength == <<Block("POST", 3, <<Length("1"), Field("", <<"x">>), Length("1")>>, Plain(1))>> \o Body(1)
(* A transfer coding in capitals, likewise; a method the server does not know. *)
Capitals == <<Block("BREW", 3, <<Codings(<<"Chunked">>)>>, InChunks), Tok("last")>>
(* One trailer, and two of them. *)
Trailer == <<Block("POST", 3, <<Codings(<<"chunked">>)>>, WithTrailers), Tok("last"), Tok("blank")>>
Trailers == <<Block("POST", 3, <<Codings(<<"chunked">>)>>, WithTrailers), Tok("last"), Tok("trail")>>

(* Well-formed pipelines, requests the parser refuses, and bodies it misreads. *)
MCStreams ==
    {Get \o Post \o SlowGet, Post \o Chunked \o Get, Put \o Post, Chunked \o LastGet \o Get,
     SlowGet \o Options \o Get, Post \o TwoWords \o Get, Get \o LongGet, LastPut \o Post,
     Get \o TooLarge, BadChunk \o Get, TwiceLength \o Options, Capitals \o Post,
     Trailer \o Get, Trailers \o Get}

GetThenPost == {Get \o Post}
=============================================================================
