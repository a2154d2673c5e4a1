----------------------------- MODULE Connection -----------------------------
(***************************************************************************)
(* One client connection: the client's byte stream, the reader buffer, the *)
(* BufWriter with its deferred flush, and the server task that parses,     *)
(* serves and answers pipelined requests (connection.rs, body.rs, and      *)
(* HttpCall, handle_connection, handle_single_request, finish of           *)
(* server.rs).                                                             *)
(*                                                                         *)
(* The client's bytes are a sequence of tokens.  A request is one or more  *)
(* "open" tokens (part of a header block), a "head" (the bytes that        *)
(* complete it) and its body: "data" tokens, for chunked bodies followed   *)
(* by "last", the final chunk and the line behind it, which is empty       *)
(* unless there are trailers; then "blank" (the empty line) or "trail"     *)
(* (further trailers and the empty line) follows.  "bad" is a chunk that   *)
(* read_chunked refuses.  Positions in the stream stand for the buffers:   *)
(* the reader holds the tokens rd+1..buf, the kernel buf+1..sent.          *)
(*                                                                         *)
(* A head says what HttpRequest::parse finds there (module RequestHead)    *)
(* and, as "sends", the framing of the body that the client really sends.  *)
(***************************************************************************)
EXTENDS Integers, Sequences

CONSTANTS Streams,      \* the byte streams a client may send
          Middlewares,  \* number of middlewares of the route
          MaxReader,    \* how many tokens of unfinished headers are 64 KiB
          MayAbandon    \* do handlers drop the future of body() (a timeout of theirs)

ASSUME MiddlewaresAssumption == Middlewares \in Nat
ASSUME MaxReaderAssumption == MaxReader \in Nat
ASSUME MayAbandonAssumption == MayAbandon \in BOOLEAN

VARIABLES
    stream, sent, eof, reset,  \* client: its bytes, how many are sent, how it left
    buf, rd,                   \* received and consumed prefixes of the stream
    out, delivered,            \* responses in the BufWriter, and given to the socket
    pc,                        \* where the connection's task is
    cur,                       \* requests parsed so far
    head,                      \* the current request's head token
    bstate,                    \* BodyState: "unread", "reading", "read"
    want,                      \* body tokens still to be discarded
    turn, answered,            \* middleware or handler at work, and has it responded
    written,                   \* has_written_response
    keep                       \* keep_alive

client == <<stream, sent, eof, reset>>
reader == <<buf, rd>>
writer == <<out, delivered, written>>
request == <<cur, head, bstate, want, keep>>
vars == <<client, reader, writer, pc, request, turn, answered>>

Frames == {"length", "chunked"}

(* Heads as they stand in a stream. *)
HeadTokens ==
    [t : {"head"}, valid : BOOLEAN, frame : Frames, len : Nat, close : BOOLEAN, expect : BOOLEAN, preflight : BOOLEAN,
     sends : [frame : Frames, len : Nat, trailers : BOOLEAN]]

(* The server takes the body for something else than what the client sends. *)
Misreads(h) == h.frame # h.sends.frame \/ (h.frame = "length" /\ h.len # h.sends.len)

(* Behind the first q tokens of the stream begins a request, or further lines of trailers. *)
Boundary(s, q) == q = Len(s) \/ s[q + 1].t \in {"open", "head"}
MoreLines(s, q) == q < Len(s) /\ s[q + 1].t \in {"blank", "trail"}

(* The body that the client sends behind the first q tokens, up to its last token. *)
BodyFollows(s, q, body) ==
    \/ /\ body.frame = "length" /\ ~body.trailers
       /\ q + body.len <= Len(s) /\ Boundary(s, q + body.len)
       /\ \A i \in (q + 1)..(q + body.len) : s[i].t = "data"
    \/ /\ body.frame = "chunked"
       /\ \E z \in (q + 1)..Len(s) :
             /\ s[z].t = "last" /\ IF body.trailers THEN MoreLines(s, z) ELSE Boundary(s, z)
             /\ \A i \in (q + 1)..(z - 1) : s[i].t \in {"data", "bad"}

(* What parsing makes of a body's fields: it understands them, or misses them all *)
(* (HeadsUnderstood of module Texts: a length given twice, a coding not in lower  *)
(* case).  A client gives a length or a coding, never both: HTTP forbids it.      *)
MayBeRead(h) == Misreads(h) => h.frame = "length" /\ h.len = 0

ASSUME StreamsAssumption ==
    \A s \in Streams :
        /\ Len(s) \in Nat /\ Boundary(s, 0)
        /\ \A q \in 1..Len(s) :
              /\ s[q].t = "head" =>
                    s[q] \in HeadTokens /\ (s[q].valid => MayBeRead(s[q]) /\ BodyFollows(s, q, s[q].sends))
              /\ s[q].t = "last" => Boundary(s, q) \/ MoreLines(s, q)
              /\ s[q].t \in {"blank", "trail"} => Boundary(s, q)

(* What parsing finds in a block that has no header fields. *)
NoHead == [frame |-> "length", len |-> 0, expect |-> FALSE, preflight |-> FALSE,
           sends |-> [frame |-> "length", len |-> 0, trailers |-> FALSE]]
States == {"next", "idle", "parse", "headers", "error", "preflight", "work", "body", "bodyread",
           "finish", "discard", "drain", "closed"}

(* Where the task waits for bytes of the client. *)
Waiting == {"idle", "headers", "bodyread", "drain"}

Init ==
    /\ stream \in Streams
    /\ sent = 0 /\ eof = FALSE /\ reset = FALSE
    /\ buf = 0 /\ rd = 0
    /\ out = <<>> /\ delivered = <<>>
    /\ pc = "next"
    /\ cur = 0 /\ head = NoHead /\ bstate = "read" /\ want = 0
    /\ turn = 0 /\ answered = FALSE
    /\ written = FALSE
    /\ keep = TRUE

-----------------------------------------------------------------------------
(* The client sends its bytes at its own pace, and may leave at any time. *)
Send ==
    /\ ~eof /\ ~reset
    /\ sent < Len(stream)
    /\ sent' = sent + 1
    /\ UNCHANGED <<stream, eof, reset, reader, writer, pc, request, turn, answered>>

Leave ==
    /\ ~eof /\ ~reset
    /\ \/ eof' = TRUE /\ UNCHANGED reset
       \/ reset' = TRUE /\ UNCHANGED eof
    /\ UNCHANGED <<stream, sent, reader, writer, pc, request, turn, answered>>

-----------------------------------------------------------------------------
ReaderEmpty == rd = buf

(* writer.flush(): everything buffered goes to the socket, unless it is broken. *)
FlushOf(pending) ==
    IF reset THEN out' = pending /\ UNCHANGED delivered
             ELSE out' = <<>> /\ delivered' = delivered \o pending

Flush == FlushOf(out)

(* write_response: buffered, and flushed only if no pipelined byte is waiting. *)
Write(response) ==
    /\ written' = TRUE
    /\ IF ReaderEmpty THEN FlushOf(Append(out, response))
                      ELSE out' = Append(out, response) /\ UNCHANGED delivered

Final == [req |-> cur, kind |-> "final", ka |-> keep]

(* A read of the socket that has something to return. *)
Receive(back) ==
    /\ ~reset
    /\ buf < sent
    /\ buf' \in (buf + 1)..sent
    /\ pc' = back
    /\ UNCHANGED <<client, rd, writer, request, turn, answered>>

(* A read that returns no byte, and one that fails. *)
ReadEnds == reset \/ (eof /\ buf = sent)

(* Nothing to read: a timeout around the read may elapse. *)
Quiet == ~reset /\ ~eof /\ buf = sent

Goto(next) == pc' = next /\ UNCHANGED <<client, reader, writer, request, turn, answered>>

-----------------------------------------------------------------------------
(* Mutant: the socket is read although the reader holds a pipelined request. *)
NextRequest_AlwaysReads ==
    /\ pc = "next"
    /\ written' = FALSE
    /\ Flush
    /\ pc' = "idle"
    /\ UNCHANGED <<client, reader, request, turn, answered>>

(* read_request, stage 1: with an empty reader, flush and wait under the keep-alive timeout. *)
NextRequest ==
    /\ pc = "next"
    /\ written' = FALSE
    /\ IF ReaderEmpty THEN Flush /\ pc' = "idle"
                      ELSE UNCHANGED <<out, delivered>> /\ pc' = "parse"
    /\ UNCHANGED <<client, reader, request, turn, answered>>

(* An idle connection: EOF or timeout ends it with no response, an I/O error is reported. *)
IdleReceive == pc = "idle" /\ Receive("parse")
IdleEnds == pc = "idle" /\ ~reset /\ (ReadEnds \/ Quiet) /\ Goto("closed")
IdleFails == pc = "idle" /\ reset /\ Goto("error")

(* Does the reader, up to p, end in an empty line?  A last chunk ends in one if there are *)
(* no trailers, and the one behind them counts if there is a line before it.              *)
EndsBlock(p) ==
    \/ stream[p].t \in {"head", "trail"}
    \/ stream[p].t = "last" /\ ~MoreLines(stream, p)
    \/ stream[p].t = "blank" /\ p > rd + 1

(* Where the first complete header block of the reader ends. *)
HeadAt(p) ==
    /\ p \in (rd + 1)..buf
    /\ EndsBlock(p)
    /\ \A q \in (rd + 1)..(p - 1) : ~EndsBlock(q)

HeadInReader == \E p \in (rd + 1)..buf : HeadAt(p)

(* The block is a header block of the client, from its beginning. *)
Intact(p) == stream[p].t = "head" /\ \A q \in (rd + 1)..(p - 1) : stream[q].t = "open"

(* Remains of a body before the block, or a block of them.  Any line with two spaces *)
(* is a request line, and an unknown method is GET: it may parse all the same.       *)
MayPass(p) == ~Intact(p) /\ stream[rd + 1].t # "blank" /\ (stream[p].t = "head" => stream[p].valid)

Parses(p) == (Intact(p) /\ stream[p].valid) \/ MayPass(p)

(* What parsing finds: the fields of a head survive what is left in front of it, but *)
(* not its method; other remains have none.                                          *)
HeadOf(p) ==
    IF Intact(p) THEN stream[p]
    ELSE IF stream[p].t = "head" THEN [stream[p] EXCEPT !.preflight = FALSE]
    ELSE NoHead

(* HttpRequest::parse, and what handle_single_request sets from its result. *)
ParseRequest ==
    /\ pc = "parse"
    /\ \E p \in (rd + 1)..buf :
          /\ HeadAt(p) /\ Parses(p)
          /\ rd' = p
          /\ head' = HeadOf(p)
          /\ keep' = (stream[p].t = "head" => ~stream[p].close)
    /\ pc' = IF head'.preflight THEN "preflight" ELSE "work"
    /\ cur' = cur + 1
    /\ bstate' = "unread"
    /\ turn' = 0 /\ answered' = FALSE
    /\ UNCHANGED <<client, buf, writer, want>>

ParseFails ==
    /\ pc = "parse"
    /\ \E p \in (rd + 1)..buf :
          /\ HeadAt(p)
          /\ ~(Intact(p) /\ stream[p].valid)
          /\ rd' = p
    /\ pc' = "error"
    /\ UNCHANGED <<client, buf, writer, request, turn, answered>>

HeadersTooLarge == pc = "parse" /\ ~HeadInReader /\ buf - rd > MaxReader /\ Goto("error")

(* Mutant: the flush before the blocking read is left out. *)
AwaitHeaders_NoFlush ==
    /\ pc = "parse" /\ ~HeadInReader /\ buf - rd <= MaxReader
    /\ pc' = "headers"
    /\ UNCHANGED <<client, reader, writer, request, turn, answered>>

(* Stage 2: about to block, flush first. *)
AwaitHeaders ==
    /\ pc = "parse" /\ ~HeadInReader /\ buf - rd <= MaxReader
    /\ Flush
    /\ pc' = "headers"
    /\ UNCHANGED <<client, reader, written, request, turn, answered>>

HeadersReceive == pc = "headers" /\ Receive("parse")
HeadersEnd == pc = "headers" /\ (ReadEnds \/ Quiet) /\ Goto("error")

(* handle_single_request, parse error: an error response, shutdown (a flush), the end. *)
RefuseRequest ==
    /\ pc = "error"
    /\ written' = TRUE
    /\ keep' = FALSE
    /\ FlushOf(Append(out, [req |-> cur + 1, kind |-> "error", ka |-> FALSE]))
    /\ pc' = "closed"
    /\ UNCHANGED <<client, reader, cur, head, bstate, want, turn, answered>>

-----------------------------------------------------------------------------
(* CORS preflight and unmatched routes are answered by the server itself. *)
AnswerPreflight ==
    /\ pc = "preflight"
    /\ Write(Final)
    /\ pc' = "finish"
    /\ UNCHANGED <<client, reader, request, turn, answered>>

AnswerNoRoute ==
    /\ pc = "work" /\ turn = 0 /\ ~answered /\ bstate = "unread"
    /\ Write(Final)
    /\ pc' = "finish"
    /\ UNCHANGED <<client, reader, request, turn, answered>>

(* A middleware or the handler sends its response: at most one each. *)
Respond ==
    /\ pc = "work" /\ ~answered
    /\ Write(Final)
    /\ answered' = TRUE
    /\ UNCHANGED <<client, reader, request, pc, turn>>

(* Mutant: the middleware loop does not stop at a response. *)
EndMiddleware_GoesOn ==
    /\ pc = "work" /\ turn < Middlewares
    /\ turn' = turn + 1 /\ answered' = FALSE /\ UNCHANGED pc
    /\ UNCHANGED <<client, reader, writer, request>>

(* After a middleware: response_sent() ends the request, otherwise the next one. *)
EndMiddleware ==
    /\ pc = "work" /\ turn < Middlewares
    /\ IF written THEN pc' = "finish" /\ UNCHANGED <<turn, answered>>
                  ELSE turn' = turn + 1 /\ answered' = FALSE /\ UNCHANGED pc
    /\ UNCHANGED <<client, reader, writer, request>>

(* The handler returns; handlers are taken to answer every request they get. *)
EndHandler == pc = "work" /\ turn = Middlewares /\ answered /\ Goto("finish")

(* HttpCall::body on an unread body: 100 Continue, flushed, then the read. *)
CallBody ==
    /\ pc = "work" /\ bstate = "unread"
    /\ bstate' = "reading"
    /\ IF head.expect THEN FlushOf(Append(out, [req |-> cur, kind |-> "interim", ka |-> TRUE]))
                      ELSE UNCHANGED <<out, delivered>>
    /\ want' = head.len
    /\ pc' = "body"
    /\ UNCHANGED <<client, reader, written, cur, head, keep, turn, answered>>

(* read_exact takes the whole body or nothing. *)
ReadExact ==
    /\ pc = "body" /\ head.frame = "length" /\ buf - rd >= want
    /\ rd' = rd + want
    /\ bstate' = "read" /\ want' = 0
    /\ pc' = "work"
    /\ UNCHANGED <<client, buf, writer, cur, head, keep, turn, answered>>

(* read_chunked takes chunk after chunk, up to the last. *)
ReadChunk ==
    /\ pc = "body" /\ head.frame = "chunked" /\ ~ReaderEmpty
    /\ rd' = rd + 1
    /\ \/ stream[rd + 1].t = "data" /\ UNCHANGED <<pc, bstate>>
       \/ stream[rd + 1].t = "last" /\ pc' = "work" /\ bstate' = "read"
       \/ stream[rd + 1].t \notin {"data", "last"} /\ pc' = "work" /\ UNCHANGED bstate
    /\ UNCHANGED <<client, buf, writer, cur, head, want, keep, turn, answered>>

(* Both block on the socket without a flush, and without a timeout. *)
AwaitBody ==
    /\ pc = "body"
    /\ \/ head.frame = "length" /\ buf - rd < want
       \/ head.frame = "chunked" /\ ReaderEmpty
    /\ Goto("bodyread")

BodyReceive == pc = "bodyread" /\ Receive("body")

(* Mutant: a read of no bytes is not taken for the end of the stream. *)
BodyFails_IgnoresEof == pc = "bodyread" /\ reset /\ Goto("work")

(* body() fails: the state stays Reading. *)
BodyFails == pc = "bodyread" /\ ReadEnds /\ Goto("work")

(* A handler drops the future of body(), after a timeout of its own: likewise. *)
AbandonBody == pc = "bodyread" /\ MayAbandon /\ Goto("work")

-----------------------------------------------------------------------------
(* Mutant: an unread chunked body is taken for an empty one. *)
Drained_ChunkedIgnored == bstate # "unread" \/ head.frame = "chunked" \/ head.len = 0

(* discard_unread_body has nothing to do. *)
Drained == bstate # "unread" \/ (head.frame # "chunked" /\ head.len = 0)

(* Mutant: the request's "connection: close" is forgotten. *)
FinishKeeps_Always == pc = "finish" /\ Drained /\ Goto("next")

(* finish: keep the connection, close it, or discard the body first. *)
FinishKeeps == pc = "finish" /\ keep /\ Drained /\ Goto("next")

Discards == keep /\ ~Drained /\ head.frame = "length"

FinishDiscards ==
    /\ pc = "finish" /\ Discards
    /\ want' = head.len /\ bstate' = "reading"
    /\ pc' = "discard"
    /\ UNCHANGED <<client, reader, writer, cur, head, keep, turn, answered>>

(* connection.shutdown(): flush and close. *)
Shutdown ==
    /\ Flush
    /\ pc' = "closed"
    /\ UNCHANGED <<client, reader, written, request, turn, answered>>

FinishCloses == pc = "finish" /\ ~(keep /\ Drained) /\ ~Discards /\ Shutdown

(* Mutant: the discard drops all that the reader holds. *)
Take_Everything == buf - rd

(* How much of the reader the discard drops. *)
Take == IF want < buf - rd THEN want ELSE buf - rd

(* discard_unread_body, one turn of its loop: drop what the reader has of the *)
(* body; then flush and wait under the 5-second timeout.                      *)
Discard ==
    /\ pc = "discard"
    /\ rd' = rd + Take
    /\ want' = want - Take
    /\ IF want' <= 0 THEN pc' = "next" /\ UNCHANGED <<out, delivered>>
                     ELSE pc' = "drain" /\ Flush
    /\ UNCHANGED <<client, buf, written, cur, head, bstate, keep, turn, answered>>

DrainReceive == pc = "drain" /\ Receive("discard")
DrainEnds == pc = "drain" /\ (ReadEnds \/ Quiet) /\ Shutdown

-----------------------------------------------------------------------------
ReadRequest ==
    \/ NextRequest \/ IdleReceive \/ IdleEnds \/ IdleFails
    \/ ParseRequest \/ ParseFails \/ HeadersTooLarge \/ AwaitHeaders
    \/ HeadersReceive \/ HeadersEnd \/ RefuseRequest

Serve ==
    \/ AnswerPreflight \/ AnswerNoRoute \/ Respond \/ EndMiddleware \/ EndHandler
    \/ CallBody \/ ReadExact \/ ReadChunk \/ AwaitBody \/ BodyReceive \/ BodyFails

Finish ==
    FinishKeeps \/ FinishDiscards \/ FinishCloses \/ Discard \/ DrainReceive \/ DrainEnds

Task == ReadRequest \/ Serve \/ Finish

Next == Send \/ Leave \/ Task \/ AbandonBody \/ (pc = "closed" /\ UNCHANGED vars)

(* The task is polled whenever it can go on; the client owes nothing, and no handler *)
(* has to give up on a body.                                                         *)
Safety == Init /\ [][Next]_vars
Spec == Safety /\ WF_vars(Task)

-----------------------------------------------------------------------------
(* All that the client has been, or is still to be, sent. *)
Sequel == delivered \o out
IsAnswer(k) == Sequel[k].kind # "interim"
AnsweredUpTo(n) == \A r \in 1..n : \E k \in 1..Len(Sequel) : IsAnswer(k) /\ Sequel[k].req = r

Between == {"next", "idle", "parse", "headers", "error"}
InRequest == {"preflight", "work", "body", "bodyread", "finish", "discard", "drain"}

(* How many requests have been answered. *)
Done == IF pc \in InRequest /\ ~written THEN cur - 1 ELSE cur

(* Every variable has its type; the buffers are consecutive parts of the stream. *)
TypeOK ==
    /\ stream \in Streams
    /\ rd \in 0..buf /\ buf \in 0..sent /\ sent \in 0..Len(stream)
    /\ eof \in BOOLEAN /\ reset \in BOOLEAN
    /\ pc \in States
    /\ cur \in Nat
    /\ bstate \in {"unread", "reading", "read"}
    /\ want \in Nat
    /\ turn \in 0..Middlewares
    /\ answered \in BOOLEAN /\ written \in BOOLEAN /\ keep \in BOOLEAN

(* Pipelined responses leave in the order of their requests, one for each request  *)
(* parsed, whoever answers: the server itself, a middleware or the handler.        *)
OneAnswerEach ==
    /\ \A k, l \in 1..Len(Sequel) :
          (k < l /\ IsAnswer(k) /\ IsAnswer(l)) => Sequel[k].req < Sequel[l].req
    /\ pc # "closed" =>
          /\ AnsweredUpTo(Done)
          /\ \A k \in 1..Len(Sequel) : IsAnswer(k) => Sequel[k].req \in 1..Done

(* After a response that announces "connection: close" no other request is answered; *)
(* all that can follow is the "100 Continue" of a handler that answers first and     *)
(* reads the body of the same request afterwards.                                    *)
CloseIsLast ==
    \A k, l \in 1..Len(Sequel) :
        (k < l /\ ~Sequel[k].ka) => ~IsAnswer(l) /\ Sequel[l].req = Sequel[k].req

(* The server waits for the client's next header block, or for the rest of a body it *)
(* discards, only with every response flushed: the client may be waiting for them.   *)
(* Nor does it close the connection with responses still in the BufWriter.           *)
NothingHeldBack == (pc \in (Waiting \ {"bodyread"}) \cup {"closed"} /\ ~reset) => out = <<>>

(* "We MUST ensure any partially completed responses are flushed to the client before *)
(* we block waiting for them": at no read of the socket, that of a request's body      *)
(* included, is the response to an earlier request still in the BufWriter.             *)
EarlierAnswersFlushed ==
    (pc \in Waiting /\ ~reset) => \A k \in 1..Len(out) : out[k].req >= cur

(* What is parsed next is the start of a request. *)
OnBoundary == Boundary(stream, rd)

(* The framing of the body was misread. *)
Misread == Misreads(head)

(* The read of the body failed, or was given up, before its end. *)
Unfinished == bstate = "reading" /\ (head.frame = "chunked" \/ want > 0)

(* Trailers: read_chunked takes one line behind the last chunk and leaves the others. *)
TrailersLeft == head.sends.trailers

(* The connection is kept only at a request boundary, whether the last body was read,  *)
(* discarded or absent, except in exactly these cases: its framing was misread, it had *)
(* trailers, or body() failed or was dropped.  In each of them the remains are parsed  *)
(* as a request.                                                                       *)
AtBoundary ==
    pc \in {"next", "idle"} =>
        (OnBoundary <=> ~(Misread \/ Unfinished \/ TrailersLeft))

(* A client that has sent all its requests in time, the connection still open, and    *)
(* stays gets a response to each of them, flushed; fewer only if one of them made the *)
(* server close the connection.                                                       *)
Requests == {p \in 1..Len(stream) : stream[p].t = "head"}
AllAnswered == out = <<>> /\ AnsweredUpTo(cur) /\ \A p \in Requests : rd >= p
ClosedByRequest == pc = "closed" /\ out = <<>> /\ (~keep \/ (head.frame = "chunked" /\ bstate = "unread"))

Answered == (sent = Len(stream) /\ pc # "closed") ~> (eof \/ reset \/ AllAnswered \/ ClosedByRequest)

(* When the client leaves, the connection's task ends: it holds its guard no longer, *)
(* and graceful shutdown need not wait for it.                                       *)
LeavingEndsTask == (eof \/ reset) ~> (pc = "closed")
=============================================================================
