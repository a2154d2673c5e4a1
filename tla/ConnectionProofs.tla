-------------------------- MODULE ConnectionProofs --------------------------
(***************************************************************************)
(* Safety of a connection, for all streams of any length, any number of    *)
(* middlewares and every handler: types, one answer for each request in    *)
(* order, nothing answered after a close, nothing held back.               *)
(*                                                                         *)
(* The writer is seen through Sequel, all that was and will be sent.  A    *)
(* step either leaves it alone, whether or not it flushes, or appends one  *)
(* response.                                                               *)
(***************************************************************************)
EXTENDS Connection, SequenceTheorems, TLAPS

Responses == [req : Nat, kind : {"final", "interim", "error"}, ka : BOOLEAN]

WriterOK == out \in Seq(Responses) /\ delivered \in Seq(Responses)

HeadOK == head.len \in Nat   (* the content-length that parsing found *)

(* Where the current request has an answer, and where it has none. *)
Phases ==
    /\ pc \in {"idle", "parse", "headers", "error", "preflight"} => ~written
    /\ pc \in {"work", "body", "bodyread"} => (written <=> answered)
    /\ pc \in {"finish", "discard", "drain"} => written
    /\ pc \in {"discard", "drain"} => keep

(* The first request has the number 1. *)
CurrentIsNumbered == pc \in InRequest => cur # 0

(* The response that announces a close is the current request's, and it is kept in mind. *)
CloseAnnounced ==
    \A k \in 1..Len(Sequel) :
        ~Sequel[k].ka => pc = "closed" \/ (pc \in InRequest /\ written /\ ~keep /\ Sequel[k].req = cur)

IInv ==
    /\ TypeOK /\ WriterOK /\ HeadOK /\ Phases /\ CurrentIsNumbered
    /\ OneAnswerEach /\ CloseIsLast /\ CloseAnnounced
    /\ NothingHeldBack

-----------------------------------------------------------------------------
(* Sequences of responses. *)
LEMMA AppendedSeq ==
    ASSUME NEW s \in Seq(Responses), NEW r \in Responses
    PROVE  /\ Append(s, r) \in Seq(Responses)
           /\ Len(Append(s, r)) = Len(s) + 1
           /\ Append(s, r)[Len(s) + 1] = r
           /\ \A k \in 1..Len(s) : Append(s, r)[k] = s[k]
OBVIOUS

(* A flush changes where the responses are, not which there are. *)
LEMMA FlushKeeps ==
    ASSUME WriterOK, FlushOf(out)
    PROVE  WriterOK' /\ Sequel' = Sequel /\ (~reset => out' = <<>>)
<1> USE DEF WriterOK, FlushOf, Sequel
<1>1. CASE reset
  BY <1>1
<1>2. CASE ~reset
  <2>1. delivered' = delivered \o out /\ out' = <<>>
    BY <1>2
  <2>2. delivered \o out \in Seq(Responses)
    BY ConcatProperties
  <2>3. (delivered \o out) \o <<>> = delivered \o out
    BY <2>2, ConcatEmptySeq
  <2> QED
    BY <2>1, <2>2, <2>3
<1> QED
  BY <1>1, <1>2

(* A response enters the sequel at its end, flushed or not. *)
LEMMA AppendGrows ==
    ASSUME WriterOK, NEW r \in Responses,
           FlushOf(Append(out, r)) \/ (out' = Append(out, r) /\ UNCHANGED delivered)
    PROVE  WriterOK' /\ Sequel' = Append(Sequel, r)
<1> USE DEF WriterOK, FlushOf, Sequel
<1>1. Append(out, r) \in Seq(Responses) /\ Append(out, r) = out \o <<r>> /\ <<r>> \in Seq(Responses)
  OBVIOUS
<1>2. delivered \o Append(out, r) = (delivered \o out) \o <<r>>
  BY <1>1, ConcatAssociative
<1>3. delivered \o out \in Seq(Responses)
  BY ConcatProperties
<1>4. (delivered \o out) \o <<r>> = Append(delivered \o out, r)
  BY <1>3
<1>5. delivered \o Append(out, r) \in Seq(Responses)
  BY <1>1, ConcatProperties
<1>6. (delivered \o Append(out, r)) \o <<>> = delivered \o Append(out, r)
  BY <1>5, ConcatEmptySeq
<1>7. CASE out' = Append(out, r) /\ UNCHANGED delivered
  BY <1>1, <1>2, <1>4, <1>7
<1>8. CASE out' = <<>> /\ delivered' = delivered \o Append(out, r)
  BY <1>2, <1>4, <1>5, <1>6, <1>8
<1> QED
  BY <1>7, <1>8

LEMMA WriteGrows ==
    ASSUME WriterOK, NEW r \in Responses, Write(r)
    PROVE  WriterOK' /\ Sequel' = Append(Sequel, r) /\ written'
BY AppendGrows DEF Write

LEMMA FinalIsResponse == TypeOK => Final \in Responses
BY DEF TypeOK, Final, Responses

LEMMA SequelType == WriterOK => Sequel \in Seq(Responses)
BY ConcatProperties DEF WriterOK, Sequel

-----------------------------------------------------------------------------
(* What a step that sends nothing, one that answers the next request, and one that *)
(* says "100 Continue" mean for the answers.                                       *)
LEMMA NothingSent ==
    ASSUME OneAnswerEach, CloseIsLast, Sequel' = Sequel,
           pc' # "closed" => pc # "closed" /\ Done' = Done
    PROVE  OneAnswerEach' /\ CloseIsLast'
BY DEF OneAnswerEach, CloseIsLast, IsAnswer, AnsweredUpTo

LEMMA AnswerSent ==
    ASSUME WriterOK, OneAnswerEach, pc # "closed", Done \in Nat,
           NEW r \in Responses, Sequel' = Append(Sequel, r),
           r.kind # "interim", r.req = Done + 1,
           pc' # "closed" => Done' = Done + 1
    PROVE  OneAnswerEach'
<1> DEFINE n == Len(Sequel)
<1>1. /\ Sequel \in Seq(Responses) /\ n \in Nat
      /\ Len(Sequel') = n + 1 /\ Sequel'[n + 1] = r
      /\ \A k \in 1..n : Sequel'[k] = Sequel[k] /\ Sequel[k] \in Responses
  BY SequelType, AppendedSeq
<1> HIDE DEF n
<1>2. \A k \in 1..n : IsAnswer(k) => Sequel[k].req \in 1..Done
  BY DEF OneAnswerEach, n
<1>3. \A k \in 1..Len(Sequel') : k = n + 1 \/ k \in 1..n
  BY <1>1
<1>4. ASSUME NEW k \in 1..Len(Sequel'), NEW l \in 1..Len(Sequel'), k < l, IsAnswer(k)', IsAnswer(l)'
      PROVE  Sequel'[k].req < Sequel'[l].req
  <2>1. k \in 1..n
    BY <1>1, <1>4
  <2>2. CASE l \in 1..n
    BY <1>1, <1>4, <2>1, <2>2 DEF OneAnswerEach, IsAnswer, n
  <2>3. CASE l = n + 1
    <3>1. Sequel[k].req \in 1..Done
      BY <1>1, <1>2, <1>4, <2>1 DEF IsAnswer
    <3> QED
      BY <1>1, <2>1, <2>3, <3>1
  <2> QED
    BY <1>3, <2>2, <2>3
<1>5. ASSUME pc' # "closed", NEW k \in 1..Len(Sequel'), IsAnswer(k)'
      PROVE  Sequel'[k].req \in 1..Done'
  <2>1. CASE k \in 1..n
    <3>1. Sequel[k].req \in 1..Done
      BY <1>1, <1>2, <1>5, <2>1 DEF IsAnswer
    <3> QED
      BY <1>1, <1>5, <2>1, <3>1
  <2>2. CASE k = n + 1
    BY <1>1, <1>5, <2>2
  <2> QED
    BY <1>3, <2>1, <2>2
<1>6. ASSUME pc' # "closed", NEW q \in 1..Done'
      PROVE  \E k \in 1..Len(Sequel') : IsAnswer(k)' /\ Sequel'[k].req = q
  <2>1. CASE q = Done + 1
    <3>1. n + 1 \in 1..Len(Sequel')
      BY <1>1
    <3> QED
      BY <1>1, <2>1, <3>1 DEF IsAnswer
  <2>2. CASE q \in 1..Done
    <3>1. PICK k \in 1..n : IsAnswer(k) /\ Sequel[k].req = q
      BY <2>2 DEF OneAnswerEach, AnsweredUpTo, n
    <3>2. k \in 1..Len(Sequel')
      BY <1>1
    <3> QED
      BY <1>1, <3>1, <3>2 DEF IsAnswer
  <2> QED
    BY <1>6, <2>1, <2>2
<1> QED
  BY <1>4, <1>5, <1>6 DEF OneAnswerEach, AnsweredUpTo

LEMMA InterimSent ==
    ASSUME WriterOK, OneAnswerEach, pc # "closed", pc' # "closed",
           NEW r \in Responses, Sequel' = Append(Sequel, r),
           r.kind = "interim", Done' = Done
    PROVE  OneAnswerEach'
<1> DEFINE n == Len(Sequel)
<1>1. /\ Sequel \in Seq(Responses) /\ n \in Nat
      /\ Len(Sequel') = n + 1 /\ Sequel'[n + 1] = r
      /\ \A k \in 1..n : Sequel'[k] = Sequel[k]
  BY SequelType, AppendedSeq
<1> HIDE DEF n
<1>2. \A k \in 1..Len(Sequel') : IsAnswer(k)' => k \in 1..n /\ IsAnswer(k) /\ Sequel'[k] = Sequel[k]
  BY <1>1 DEF IsAnswer
<1>3. \A k \in 1..n : k \in 1..Len(Sequel') /\ (IsAnswer(k) => IsAnswer(k)')
  BY <1>1 DEF IsAnswer
<1> QED
  BY <1>1, <1>2, <1>3 DEF OneAnswerEach, AnsweredUpTo, n

(* What may follow a response that announced a close. *)
LEMMA SentAfterClose ==
    ASSUME WriterOK, CloseIsLast, NEW r \in Responses, Sequel' = Append(Sequel, r),
           \A k \in 1..Len(Sequel) : ~Sequel[k].ka => r.kind = "interim" /\ r.req = Sequel[k].req
    PROVE  CloseIsLast'
<1> DEFINE n == Len(Sequel)
<1>1. /\ Sequel \in Seq(Responses) /\ n \in Nat
      /\ Len(Sequel') = n + 1 /\ Sequel'[n + 1] = r
      /\ \A k \in 1..n : Sequel'[k] = Sequel[k]
  BY SequelType, AppendedSeq
<1> HIDE DEF n
<1> SUFFICES ASSUME NEW k \in 1..Len(Sequel'), NEW l \in 1..Len(Sequel'), k < l, ~Sequel'[k].ka
             PROVE  ~IsAnswer(l)' /\ Sequel'[l].req = Sequel'[k].req
  BY DEF CloseIsLast
<1>2. k \in 1..n /\ ~Sequel[k].ka
  BY <1>1
<1>3. CASE l \in 1..n
  BY <1>1, <1>2, <1>3 DEF CloseIsLast, IsAnswer, n
<1>4. CASE l = n + 1
  BY <1>1, <1>2, <1>4 DEF IsAnswer, n
<1> QED
  BY <1>1, <1>3, <1>4

-----------------------------------------------------------------------------
(* A step that sends nothing, and does not lose sight of an announced close. *)
Calm ==
    /\ UNCHANGED <<out, delivered>> \/ FlushOf(out)
    /\ pc = "closed" => pc' = "closed"
    /\ pc' # "closed" => Done' = Done
    /\ (pc \in InRequest /\ written /\ ~keep) =>
            pc' = "closed" \/ (pc' \in InRequest /\ written' /\ ~keep' /\ cur' = cur)

Sent == WriterOK /\ OneAnswerEach /\ CloseIsLast /\ CloseAnnounced

LEMMA CalmStep ==
    ASSUME IInv, Calm
    PROVE  Sent'
<1> USE DEF IInv, Calm
<1>1. WriterOK' /\ Sequel' = Sequel
  BY FlushKeeps DEF WriterOK, Sequel
<1>2. OneAnswerEach' /\ CloseIsLast'
  BY <1>1, NothingSent
<1>3. CloseAnnounced'
  BY <1>1 DEF CloseAnnounced
<1> QED
  BY <1>1, <1>2, <1>3 DEF Sent

(* What a control step keeps, besides what was sent. *)
Waits == Phases /\ NothingHeldBack

LEMMA ClientSteps ==
    ASSUME IInv, Send \/ Leave \/ UNCHANGED vars
    PROVE  Calm /\ Waits'
BY DEF IInv, Send, Leave, vars, client, reader, writer, request, Calm, Waits, Phases, NothingHeldBack,
       Done, Waiting

LEMMA ReadingSteps ==
    ASSUME IInv,
           \/ NextRequest \/ IdleReceive \/ IdleEnds \/ IdleFails
           \/ ParseFails \/ HeadersTooLarge \/ AwaitHeaders \/ HeadersReceive \/ HeadersEnd
    PROVE  Calm /\ Waits'
<1> USE DEF IInv, client, reader, writer, request, Goto, Receive, Flush, Calm, Done, Waits, Phases,
            NothingHeldBack, InRequest, Waiting
<1>1. CASE NextRequest
  BY <1>1 DEF NextRequest, FlushOf
<1>2. CASE IdleReceive \/ IdleEnds \/ IdleFails
  BY <1>2 DEF IdleReceive, IdleEnds, IdleFails
<1>3. CASE ParseFails \/ HeadersTooLarge
  BY <1>3 DEF ParseFails, HeadersTooLarge
<1>4. CASE AwaitHeaders
  BY <1>4 DEF AwaitHeaders, FlushOf
<1>5. CASE HeadersReceive \/ HeadersEnd
  BY <1>5 DEF HeadersReceive, HeadersEnd
<1> QED
  BY <1>1, <1>2, <1>3, <1>4, <1>5

(* A new request: no close was announced, and nothing is written for it yet. *)
LEMMA ParseStep ==
    ASSUME IInv, ParseRequest
    PROVE  Calm /\ Waits'
<1> USE DEF IInv, TypeOK, ParseRequest
<1>1. pc = "parse" /\ pc' \in {"preflight", "work"} /\ cur' = cur + 1 /\ answered' = FALSE
      /\ UNCHANGED <<client, writer>>
  OBVIOUS
<1> QED
  BY <1>1 DEF client, writer, Calm, Done, Waits, Phases, NothingHeldBack, InRequest, Waiting

LEMMA ServingSteps ==
    ASSUME IInv,
           \/ EndMiddleware \/ EndHandler \/ (CallBody /\ ~head.expect)
           \/ ReadExact \/ ReadChunk \/ AwaitBody \/ BodyReceive \/ BodyFails \/ AbandonBody
    PROVE  Calm /\ Waits'
<1> USE DEF IInv, client, reader, writer, request, Goto, Receive, Calm, Done, Waits, Phases,
            NothingHeldBack, InRequest, Waiting
<1>1. CASE EndMiddleware
  BY <1>1 DEF EndMiddleware
<1>2. CASE EndHandler
  BY <1>2 DEF EndHandler
<1>3. CASE CallBody /\ ~head.expect
  BY <1>3 DEF CallBody
<1>4. CASE ReadExact
  BY <1>4 DEF ReadExact
<1>5. CASE ReadChunk
  <2>1. pc = "body" /\ pc' \in {"body", "work"} /\ UNCHANGED <<out, delivered, written, reset, cur, keep, answered>>
    BY <1>5 DEF ReadChunk
  <2> QED
    BY <2>1
<1>6. CASE AwaitBody \/ BodyReceive \/ BodyFails \/ AbandonBody
  BY <1>6 DEF AwaitBody, BodyReceive, BodyFails, AbandonBody
<1> QED
  BY <1>1, <1>2, <1>3, <1>4, <1>5, <1>6

LEMMA FinishingSteps ==
    ASSUME IInv, Finish
    PROVE  Calm /\ Waits'
<1> USE DEF IInv, client, reader, writer, request, Goto, Receive, Flush, Calm, Done, Waits, Phases,
            NothingHeldBack, InRequest, Waiting
<1>1. CASE FinishKeeps
  BY <1>1 DEF FinishKeeps
<1>2. CASE FinishDiscards
  BY <1>2 DEF FinishDiscards, Discards
<1>3. CASE FinishCloses \/ DrainEnds
  BY <1>3 DEF FinishCloses, DrainEnds, Shutdown, FlushOf
<1>4. CASE Discard
  <2>1. pc = "discard" /\ UNCHANGED <<client, written, cur, keep, answered>>
        /\ \/ pc' = "next" /\ UNCHANGED <<out, delivered>>
           \/ pc' = "drain" /\ FlushOf(out)
    BY <1>4 DEF Discard
  <2> QED
    BY <2>1 DEF FlushOf
<1>5. CASE DrainReceive
  BY <1>5 DEF DrainReceive
<1> QED
  BY <1>1, <1>2, <1>3, <1>4, <1>5 DEF Finish

(* The server, a middleware or the handler answers: it is the first answer, so no *)
(* close was announced before.                                                    *)
LEMMA AnswerSteps ==
    ASSUME IInv, AnswerPreflight \/ AnswerNoRoute \/ Respond
    PROVE  Sent' /\ Waits'
<1> USE DEF IInv
<1>1. /\ pc \in {"preflight", "work"} /\ pc' \in {"finish", "work"} /\ ~written
      /\ Write(Final) /\ cur' = cur /\ keep' = keep /\ UNCHANGED client
      /\ pc' = "work" => answered'
  <2>1. CASE AnswerPreflight
    BY <2>1 DEF AnswerPreflight, request, Phases
  <2>2. CASE AnswerNoRoute
    BY <2>2 DEF AnswerNoRoute, request, Phases
  <2>3. CASE Respond
    BY <2>3 DEF Respond, request, Phases
  <2> QED
    BY <2>1, <2>2, <2>3
<1>2. WriterOK' /\ Sequel' = Append(Sequel, Final) /\ written'
  BY <1>1, FinalIsResponse, WriteGrows
<1>3. Done = cur - 1 /\ Done' = cur /\ cur \in Nat
  BY <1>1, <1>2 DEF Done, InRequest, TypeOK
<1>4. \A k \in 1..Len(Sequel) : Sequel[k].ka
  BY <1>1 DEF CloseAnnounced
<1>5. cur # 0
  BY <1>1 DEF CurrentIsNumbered, InRequest
<1>6. OneAnswerEach'
  <2>1. Final.req = Done + 1 /\ Done \in Nat /\ Final.kind # "interim"
    BY <1>3, <1>5 DEF Final
  <2> QED
    BY <1>1, <1>2, <1>3, <2>1, FinalIsResponse, AnswerSent
<1>7. CloseIsLast'
  BY <1>2, <1>4, FinalIsResponse, SentAfterClose
<1>8. CloseAnnounced'
  <2> SUFFICES ASSUME NEW k \in 1..Len(Sequel'), ~Sequel'[k].ka
               PROVE  pc' \in InRequest /\ written' /\ ~keep' /\ Sequel'[k].req = cur'
    BY DEF CloseAnnounced, InRequest
  <2>1. Sequel'[k] = Final
    BY <1>2, <1>4, FinalIsResponse, SequelType, AppendedSeq
  <2> QED
    BY <1>1, <1>2, <2>1 DEF Final, InRequest
<1>9. Waits'
  BY <1>1, <1>2 DEF Waits, Phases, NothingHeldBack, Waiting
<1> QED
  BY <1>2, <1>6, <1>7, <1>8, <1>9 DEF Sent

(* "100 Continue", which may follow the answer of its own request. *)
LEMMA ContinueStep ==
    ASSUME IInv, CallBody, head.expect
    PROVE  Sent' /\ Waits'
<1> USE DEF IInv
<1> DEFINE r == [req |-> cur, kind |-> "interim", ka |-> TRUE]
<1>1. /\ pc = "work" /\ pc' = "body" /\ FlushOf(Append(out, r))
      /\ UNCHANGED <<client, written, cur, keep, answered>>
  BY DEF CallBody
<1>2. r \in Responses /\ r.kind = "interim" /\ r.ka /\ r.req = cur
  BY DEF TypeOK, Responses
<1> HIDE DEF r
<1>3. WriterOK' /\ Sequel' = Append(Sequel, r)
  BY <1>1, <1>2, AppendGrows
<1>4. Done' = Done
  BY <1>1 DEF Done, InRequest
<1>5. OneAnswerEach'
  BY <1>1, <1>2, <1>3, <1>4, InterimSent
<1>6. CloseIsLast'
  <2>1. \A k \in 1..Len(Sequel) : ~Sequel[k].ka => Sequel[k].req = cur
    BY <1>1 DEF CloseAnnounced
  <2> QED
    BY <1>2, <1>3, <2>1, SentAfterClose
<1>7. CloseAnnounced'
  <2> SUFFICES ASSUME NEW k \in 1..Len(Sequel'), ~Sequel'[k].ka
               PROVE  pc' \in InRequest /\ written' /\ ~keep' /\ Sequel'[k].req = cur'
    BY DEF CloseAnnounced, InRequest
  <2>1. k \in 1..Len(Sequel) /\ Sequel'[k] = Sequel[k]
    BY <1>2, <1>3, SequelType, AppendedSeq
  <2> QED
    BY <1>1, <2>1 DEF CloseAnnounced, InRequest
<1>8. Waits'
  BY <1>1 DEF Waits, Phases, NothingHeldBack, Waiting
<1> QED
  BY <1>3, <1>5, <1>6, <1>7, <1>8 DEF Sent

(* The refusal of a request that could not be read: the last response, flushed. *)
LEMMA RefuseStep ==
    ASSUME IInv, RefuseRequest
    PROVE  Sent' /\ Waits'
<1> USE DEF IInv
<1> DEFINE r == [req |-> cur + 1, kind |-> "error", ka |-> FALSE]
<1>1. /\ pc = "error" /\ pc' = "closed" /\ FlushOf(Append(out, r)) /\ UNCHANGED client
  BY DEF RefuseRequest
<1>2. r \in Responses /\ r.kind # "interim" /\ r.req = cur + 1
  BY DEF TypeOK, Responses
<1>3. Done = cur /\ cur \in Nat
  BY <1>1 DEF Done, InRequest, TypeOK
<1>4. ~reset' => out' = <<>>
  BY <1>1 DEF FlushOf, client
<1> HIDE DEF r
<1>5. WriterOK' /\ Sequel' = Append(Sequel, r)
  BY <1>1, <1>2, AppendGrows
<1>6. OneAnswerEach'
  BY <1>1, <1>2, <1>3, <1>5, AnswerSent
<1>7. \A k \in 1..Len(Sequel) : Sequel[k].ka
  BY <1>1 DEF CloseAnnounced, InRequest
<1>8. CloseIsLast'
  BY <1>2, <1>5, <1>7, SentAfterClose
<1>9. CloseAnnounced' /\ Waits'
  BY <1>1, <1>4 DEF CloseAnnounced, Waits, Phases, NothingHeldBack, Waiting
<1> QED
  BY <1>5, <1>6, <1>8, <1>9 DEF Sent

-----------------------------------------------------------------------------
(* Types: the buffers stay consecutive parts of the stream. *)
Typed == TypeOK /\ HeadOK /\ CurrentIsNumbered

LEMMA LengthOfStream == TypeOK => Len(stream) \in Nat
BY StreamsAssumption DEF TypeOK

LEMMA ReceiveTyped ==
    ASSUME IInv, NEW back \in States \ {"next"}, Receive(back), back \in InRequest => pc \in InRequest
    PROVE  Typed'
BY LengthOfStream DEF IInv, Typed, TypeOK, HeadOK, CurrentIsNumbered, Receive, client, writer, request

LEMMA GotoTyped ==
    ASSUME IInv, NEW next \in States, Goto(next), next \in InRequest => pc \in InRequest
    PROVE  Typed'
BY DEF IInv, Typed, TypeOK, HeadOK, CurrentIsNumbered, Goto, client, reader, writer, request

LEMMA ClientTyped ==
    ASSUME IInv, Send \/ Leave \/ UNCHANGED vars
    PROVE  Typed'
<1> USE LengthOfStream DEF IInv, Typed, TypeOK, HeadOK, CurrentIsNumbered, client, reader, writer, request
<1>1. CASE Send
  BY <1>1 DEF Send
<1>2. CASE Leave
  BY <1>2 DEF Leave
<1>3. CASE UNCHANGED vars
  BY <1>3 DEF vars
<1> QED
  BY <1>1, <1>2, <1>3

LEMMA HeadTyped ==
    ASSUME IInv, NEW p \in (rd + 1)..buf, HeadAt(p)
    PROVE  HeadOf(p).len \in Nat
<1> USE DEF IInv, TypeOK
<1>1. Len(stream) \in Nat /\ p \in 1..Len(stream)
  BY LengthOfStream
<1>2. stream[p].t = "head" => stream[p] \in HeadTokens
  BY <1>1, StreamsAssumption
<1>3. CASE Intact(p)
  BY <1>2, <1>3 DEF Intact, HeadOf, HeadTokens
<1>4. CASE ~Intact(p) /\ stream[p].t = "head"
  BY <1>2, <1>4 DEF HeadOf, HeadTokens
<1>5. CASE ~Intact(p) /\ stream[p].t # "head"
  BY <1>5 DEF HeadOf, NoHead
<1> QED
  BY <1>3, <1>4, <1>5

LEMMA ReadRequestTyped ==
    ASSUME IInv, ReadRequest
    PROVE  Typed'
<1> USE DEF IInv, client, reader, writer, request
<1>1. CASE NextRequest
  BY <1>1 DEF NextRequest, Typed, TypeOK, HeadOK, CurrentIsNumbered, States, InRequest
<1>2. CASE IdleReceive \/ HeadersReceive
  BY <1>2, ReceiveTyped DEF IdleReceive, HeadersReceive, States, InRequest
<1>3. CASE IdleEnds \/ IdleFails \/ HeadersTooLarge \/ HeadersEnd
  BY <1>3, GotoTyped DEF IdleEnds, IdleFails, HeadersTooLarge, HeadersEnd, States, InRequest
<1>4. CASE ParseRequest
  <2>1. PICK p \in (rd + 1)..buf :
            HeadAt(p) /\ rd' = p /\ head' = HeadOf(p) /\ keep' = (stream[p].t = "head" => ~stream[p].close)
    BY <1>4 DEF ParseRequest
  <2>2. head'.len \in Nat
    BY <2>1, HeadTyped
  <2>3. keep' \in BOOLEAN
    BY <2>1
  <2>4. rd' \in 0..buf
    BY <2>1 DEF TypeOK
  <2>5. pc' \in {"preflight", "work"} /\ cur' = cur + 1 /\ bstate' = "unread" /\ turn' = 0 /\ answered' = FALSE
        /\ UNCHANGED <<stream, sent, eof, reset, buf, written, want>>
    BY <1>4 DEF ParseRequest
  <2>6. turn' \in 0..Middlewares /\ cur' \in Nat /\ cur' # 0
    BY <2>5, MiddlewaresAssumption DEF TypeOK
  <2> QED
    BY <2>2, <2>3, <2>4, <2>5, <2>6 DEF Typed, TypeOK, HeadOK, CurrentIsNumbered, States
<1>5. CASE ParseFails
  <2>1. rd' \in 0..buf
    BY <1>5 DEF ParseFails, TypeOK
  <2> QED
    BY <1>5, <2>1 DEF ParseFails, Typed, TypeOK, HeadOK, CurrentIsNumbered, States, InRequest
<1>6. CASE AwaitHeaders
  BY <1>6 DEF AwaitHeaders, Typed, TypeOK, HeadOK, CurrentIsNumbered, States, InRequest
<1>7. CASE RefuseRequest
  BY <1>7 DEF RefuseRequest, Typed, TypeOK, HeadOK, CurrentIsNumbered, States, InRequest
<1> QED
  BY <1>1, <1>2, <1>3, <1>4, <1>5, <1>6, <1>7 DEF ReadRequest

LEMMA ServeTyped ==
    ASSUME IInv, Serve \/ AbandonBody
    PROVE  Typed'
<1> USE DEF IInv, client, reader, writer, request
<1>1. CASE AnswerPreflight \/ AnswerNoRoute \/ Respond
  BY <1>1 DEF AnswerPreflight, AnswerNoRoute, Respond, Write, Typed, TypeOK, HeadOK, CurrentIsNumbered, States, InRequest
<1>2. CASE EndMiddleware
  <2>1. turn' \in {turn, turn + 1} /\ turn < Middlewares /\ (answered' = answered \/ answered' = FALSE)
    BY <1>2 DEF EndMiddleware
  <2>2. turn' \in 0..Middlewares
    BY <2>1, MiddlewaresAssumption DEF TypeOK
  <2>3. pc = "work" /\ pc' \in {"work", "finish"} /\ UNCHANGED <<client, reader, writer, request>>
    BY <1>2 DEF EndMiddleware
  <2> QED
    BY <2>1, <2>2, <2>3 DEF Typed, TypeOK, HeadOK, CurrentIsNumbered, States, InRequest
<1>3. CASE EndHandler \/ AwaitBody \/ BodyFails \/ AbandonBody
  BY <1>3, GotoTyped DEF EndHandler, AwaitBody, BodyFails, AbandonBody, States, InRequest
<1>4. CASE CallBody
  BY <1>4 DEF CallBody, Typed, TypeOK, HeadOK, CurrentIsNumbered, States, InRequest
<1>5. CASE ReadExact
  <2>1. rd' \in 0..buf
    BY <1>5 DEF ReadExact, TypeOK
  <2> QED
    BY <1>5, <2>1 DEF ReadExact, Typed, TypeOK, HeadOK, CurrentIsNumbered, States, InRequest
<1>6. CASE ReadChunk
  <2>1. /\ rd' \in 0..buf
        /\ pc' \in {"body", "work"} /\ bstate' \in {"read", bstate}
        /\ UNCHANGED <<client, buf, writer, cur, head, want, keep, turn, answered>>
        /\ pc = "body"
    BY <1>6 DEF ReadChunk, ReaderEmpty, TypeOK
  <2> QED
    BY <2>1 DEF Typed, TypeOK, HeadOK, CurrentIsNumbered, States, InRequest
<1>7. CASE BodyReceive
  BY <1>7, ReceiveTyped DEF BodyReceive, States, InRequest
<1> QED
  BY <1>1, <1>2, <1>3, <1>4, <1>5, <1>6, <1>7 DEF Serve

LEMMA FinishTyped ==
    ASSUME IInv, Finish
    PROVE  Typed'
<1> USE DEF IInv, client, reader, writer, request
<1>1. CASE FinishKeeps
  BY <1>1, GotoTyped DEF FinishKeeps, States, InRequest
<1>2. CASE FinishDiscards
  BY <1>2 DEF FinishDiscards, Typed, TypeOK, HeadOK, CurrentIsNumbered, States, InRequest
<1>3. CASE FinishCloses \/ DrainEnds
  BY <1>3 DEF FinishCloses, DrainEnds, Shutdown, Typed, TypeOK, HeadOK, CurrentIsNumbered, States, InRequest
<1>4. CASE Discard
  <2>1. Take \in 0..want /\ Take <= buf - rd
    BY DEF Take, TypeOK
  <2>2. rd' \in 0..buf /\ want' \in Nat
    BY <1>4, <2>1 DEF Discard, TypeOK
  <2>3. /\ pc = "discard" /\ pc' \in {"next", "drain"}
        /\ UNCHANGED <<client, buf, written, cur, head, bstate, keep, turn, answered>>
    BY <1>4 DEF Discard
  <2> QED
    BY <2>2, <2>3 DEF Typed, TypeOK, HeadOK, CurrentIsNumbered, States, InRequest
<1>5. CASE DrainReceive
  BY <1>5, ReceiveTyped DEF DrainReceive, States, InRequest
<1> QED
  BY <1>1, <1>2, <1>3, <1>4, <1>5 DEF Finish

-----------------------------------------------------------------------------
LEMMA InitInv == Init => IInv
<1> SUFFICES ASSUME Init PROVE IInv
  OBVIOUS
<1> USE DEF Init
<1>1. Sequel = <<>> /\ Len(Sequel) = 0
  BY DEF Sequel
<1>2. HeadOK
  BY DEF HeadOK, NoHead
<1>3. TypeOK
  <2>1. rd \in 0..buf /\ buf \in 0..sent /\ sent \in 0..Len(stream) /\ turn \in 0..Middlewares
    BY StreamsAssumption, MiddlewaresAssumption
  <2>2. cur \in Nat /\ want \in Nat
    OBVIOUS
  <2>3. pc \in States /\ bstate \in {"unread", "reading", "read"}
    BY DEF States
  <2>4. eof \in BOOLEAN /\ reset \in BOOLEAN /\ answered \in BOOLEAN /\ written \in BOOLEAN /\ keep \in BOOLEAN
    OBVIOUS
  <2> QED
    BY <2>1, <2>2, <2>3, <2>4 DEF TypeOK
<1>4. WriterOK
  BY DEF WriterOK
<1>5. Phases /\ CurrentIsNumbered /\ NothingHeldBack
  BY DEF Phases, CurrentIsNumbered, NothingHeldBack, InRequest
<1>6. Done = 0
  BY DEF Done, InRequest
<1>7. OneAnswerEach /\ CloseIsLast /\ CloseAnnounced
  BY <1>1, <1>6 DEF OneAnswerEach, AnsweredUpTo, CloseIsLast, CloseAnnounced
<1> QED
  BY <1>2, <1>3, <1>4, <1>5, <1>7 DEF IInv

LEMMA NextInv == IInv /\ [Next]_vars => IInv'
<1> SUFFICES ASSUME IInv, [Next]_vars PROVE IInv'
  OBVIOUS
<1>1. Typed'
  BY ClientTyped, ReadRequestTyped, ServeTyped, FinishTyped DEF Next, Task
<1>2. Sent' /\ Waits'
  <2>1. CASE Send \/ Leave \/ UNCHANGED vars
    BY <2>1, ClientSteps, CalmStep
  <2>2. CASE ReadRequest
    BY <2>2, ReadingSteps, ParseStep, RefuseStep, CalmStep DEF ReadRequest
  <2>3. CASE Serve \/ AbandonBody
    BY <2>3, ServingSteps, AnswerSteps, ContinueStep, CalmStep DEF Serve
  <2>4. CASE Finish
    BY <2>4, FinishingSteps, CalmStep
  <2> QED
    BY <2>1, <2>2, <2>3, <2>4 DEF Next, Task
<1> QED
  BY <1>1, <1>2 DEF IInv, Typed, Sent, Waits

(* The invariant that carries the four below. *)
THEOREM Invariance == Safety => []IInv
BY InitInv, NextInv, PTL DEF Safety

(* The reader's buffer and the kernel's are consecutive parts of the stream, whatever *)
(* is read, discarded or refused.                                                     *)
THEOREM TypeCorrect == Safety => []TypeOK
<1>1. IInv => TypeOK
  BY DEF IInv
<1> QED
  BY <1>1, Invariance, PTL

(* Every request has one answer, in the order of the requests. *)
THEOREM AnswersInOrder == Safety => []OneAnswerEach
<1>1. IInv => OneAnswerEach
  BY DEF IInv
<1> QED
  BY <1>1, Invariance, PTL

(* No other request is answered after an announced close. *)
THEOREM CloseIsFinal == Safety => []CloseIsLast
<1>1. IInv => CloseIsLast
  BY DEF IInv
<1> QED
  BY <1>1, Invariance, PTL

(* No wait for a header block or a discarded body, and no close, with responses unsent. *)
THEOREM FlushedBeforeWaiting == Safety => []NothingHeldBack
<1>1. IInv => NothingHeldBack
  BY DEF IInv
<1> QED
  BY <1>1, Invariance, PTL

-----------------------------------------------------------------------------
(* Where the position in the stream is that of the current request, or behind it. *)
Known == pc \notin {"parse", "headers", "error", "closed"}

(* What is still to be read of a body with a length. *)
Owed == IF bstate = "unread" THEN head.len ELSE IF bstate = "reading" THEN want ELSE 0

(* Behind the first q tokens the stream goes on with n tokens of a body, then with *)
(* lines of trailers or with a request.                                            *)
BodyAhead(s, q, n, trailers) ==
    /\ q + n <= Len(s)
    /\ \A i \in (q + 1)..(q + n) : s[i].t = "data"
    /\ Boundary(s, q + n) <=> ~trailers

(* The same with chunks, up to the last one. *)
ChunksAhead(s, q, trailers) ==
    \E z \in (q + 1)..Len(s) :
        /\ s[z].t = "last"
        /\ \A i \in (q + 1)..(z - 1) : s[i].t \in {"data", "bad"}
        /\ Boundary(s, z) <=> ~trailers

(* How far the server is in the body, whether it understands its framing or not. *)
InStep ==
    Known =>
        /\ head.frame \in Frames
        /\ Misread => head.frame = "length" /\ Owed = 0 /\ ~OnBoundary
        /\ ~Misread /\ head.frame = "length" => BodyAhead(stream, rd, Owed, TrailersLeft)
        /\ ~Misread /\ head.frame = "chunked" =>
              IF bstate = "read" THEN OnBoundary <=> ~TrailersLeft ELSE ChunksAhead(stream, rd, TrailersLeft)

(* The connection is not kept with a body that nobody has looked at. *)
Paid == pc \in {"next", "idle"} => bstate # "unread" \/ (head.frame = "length" /\ head.len = 0)

(* A body is being read, or discarded, only after it was asked for. *)
AskedFor ==
    /\ pc \in {"body", "bodyread"} => bstate = "reading"
    /\ pc \in {"discard", "drain"} => bstate = "reading" /\ head.frame = "length"

BInv == IInv /\ InStep /\ Paid /\ AskedFor

(* A token of a body is no boundary. *)
LEMMA WithinBody ==
    ASSUME NEW s, NEW q \in Nat, Len(s) \in Nat, q < Len(s), s[q + 1].t \notin {"open", "head"}
    PROVE  ~Boundary(s, q)
BY DEF Boundary

LEMMA Advances ==
    ASSUME NEW s, NEW q \in Nat, NEW n \in Nat, NEW k \in 0..n, NEW trailers, Len(s) \in Nat,
           BodyAhead(s, q, n, trailers)
    PROVE  BodyAhead(s, q + k, n - k, trailers)
<1>1. (q + k) + (n - k) = q + n
  OBVIOUS
<1>2. \A i \in ((q + k) + 1)..((q + k) + (n - k)) : i \in (q + 1)..(q + n)
  OBVIOUS
<1> QED
  BY <1>1, <1>2 DEF BodyAhead

(* A chunk is taken: it was the last, or the last is still to come. *)
LEMMA ChunkTaken ==
    ASSUME NEW s, NEW q \in Nat, NEW trailers, Len(s) \in Nat, ChunksAhead(s, q, trailers)
    PROVE  /\ q < Len(s) /\ s[q + 1].t \in {"data", "bad", "last"}
           /\ s[q + 1].t # "last" => ChunksAhead(s, q + 1, trailers)
           /\ s[q + 1].t = "last" => (Boundary(s, q + 1) <=> ~trailers)
<1>1. PICK z \in (q + 1)..Len(s) :
          /\ s[z].t = "last"
          /\ \A i \in (q + 1)..(z - 1) : s[i].t \in {"data", "bad"}
          /\ Boundary(s, z) <=> ~trailers
  BY DEF ChunksAhead
<1>2. CASE z = q + 1
  BY <1>1, <1>2
<1>3. CASE z # q + 1
  <2>1. q + 1 \in (q + 1)..(z - 1)
    BY <1>3
  <2>2. s[q + 1].t \in {"data", "bad"}
    BY <1>1, <2>1
  <2>3. z \in ((q + 1) + 1)..Len(s) /\ \A i \in ((q + 1) + 1)..(z - 1) : i \in (q + 1)..(z - 1)
    BY <1>3
  <2>4. ChunksAhead(s, q + 1, trailers)
    BY <1>1, <2>3 DEF ChunksAhead
  <2> QED
    BY <2>2, <2>4
<1> QED
  BY <1>2, <1>3

(* The body that a head announces lies behind it. *)
LEMMA BodyBehindHead ==
    ASSUME NEW s \in Streams, NEW q \in 1..Len(s), s[q].t = "head", s[q].valid
    PROVE  /\ s[q] \in HeadTokens
           /\ Misreads(s[q]) => s[q].frame = "length" /\ s[q].len = 0 /\ ~Boundary(s, q)
           /\ ~Misreads(s[q]) /\ s[q].frame = "length" => BodyAhead(s, q, s[q].len, s[q].sends.trailers)
           /\ ~Misreads(s[q]) /\ s[q].frame = "chunked" => ChunksAhead(s, q, s[q].sends.trailers)
<1> DEFINE h == s[q]
           b == s[q].sends
<1>1. h \in HeadTokens /\ MayBeRead(h) /\ BodyFollows(s, q, b) /\ Len(s) \in Nat /\ q \in Nat
  BY StreamsAssumption
<1>2. b.len \in Nat /\ b.frame \in Frames /\ b.trailers \in BOOLEAN /\ h.len \in Nat /\ h.frame \in Frames
  BY <1>1 DEF HeadTokens
<1> HIDE DEF h, b
<1>3. CASE b.frame = "length"
  <2>1. /\ ~b.trailers /\ q + b.len <= Len(s) /\ Boundary(s, q + b.len)
        /\ \A i \in (q + 1)..(q + b.len) : s[i].t = "data"
    BY <1>1, <1>3 DEF BodyFollows
  <2>2. BodyAhead(s, q, b.len, b.trailers)
    BY <2>1 DEF BodyAhead
  <2>3. ASSUME b.len # 0 PROVE ~Boundary(s, q)
    <3>1. q + 1 \in (q + 1)..(q + b.len) /\ q < Len(s)
      BY <1>1, <1>2, <2>1, <2>3
    <3> QED
      BY <1>1, <2>1, <3>1, WithinBody
  <2>4. ~Misreads(h) => h.frame = "length" /\ h.len = b.len
    BY <1>3 DEF Misreads, h, b
  <2>5. Misreads(h) => h.frame = "length" /\ h.len = 0 /\ b.len # 0
    BY <1>1, <1>3 DEF Misreads, MayBeRead, h, b
  <2> QED
    BY <1>1, <2>2, <2>3, <2>4, <2>5 DEF h, b
<1>4. CASE b.frame = "chunked"
  <2>1. PICK z \in (q + 1)..Len(s) :
            /\ s[z].t = "last" /\ IF b.trailers THEN MoreLines(s, z) ELSE Boundary(s, z)
            /\ \A i \in (q + 1)..(z - 1) : s[i].t \in {"data", "bad"}
    BY <1>1, <1>4 DEF BodyFollows
  <2>2. MoreLines(s, z) => ~Boundary(s, z)
    BY <1>1 DEF MoreLines, Boundary
  <2>3. ChunksAhead(s, q, b.trailers)
    BY <2>1, <2>2 DEF ChunksAhead
  <2>4. ~Boundary(s, q)
    BY <1>1, <2>3, ChunkTaken, WithinBody
  <2>5. ~Misreads(h) => h.frame = "chunked"
    BY <1>4 DEF Misreads, h, b
  <2>6. Misreads(h) => h.frame = "length" /\ h.len = 0
    BY <1>1 DEF MayBeRead
  <2> QED
    BY <1>1, <2>3, <2>4, <2>5, <2>6 DEF h, b
<1> QED
  BY <1>2, <1>3, <1>4 DEF Frames

-----------------------------------------------------------------------------
(* A step that takes no byte of the body: it goes on, or now asks for the body. *)
Still ==
    /\ UNCHANGED <<stream, rd, head>>
    /\ \/ UNCHANGED <<bstate, want>>
       \/ bstate = "unread" /\ bstate' = "reading" /\ want' = head.len
    /\ Known' => Known

LEMMA StillInStep ==
    ASSUME InStep, Still
    PROVE  InStep'
<1>1. Owed' = Owed /\ (bstate' = "read" <=> bstate = "read")
  BY DEF Still, Owed
<1>2. (Misread' <=> Misread) /\ (OnBoundary' <=> OnBoundary) /\ (TrailersLeft' <=> TrailersLeft)
  BY DEF Still, Misread, OnBoundary, TrailersLeft
<1>3. UNCHANGED <<stream, rd, head>> /\ (Known' => Known)
  BY DEF Still
<1>4. BodyAhead(stream, rd, Owed, TrailersLeft)' <=> BodyAhead(stream, rd, Owed, TrailersLeft)
  BY <1>1, <1>3 DEF BodyAhead, TrailersLeft
<1>5. ChunksAhead(stream, rd, TrailersLeft)' <=> ChunksAhead(stream, rd, TrailersLeft)
  BY <1>3 DEF ChunksAhead, TrailersLeft
<1> QED
  BY <1>1, <1>2, <1>3, <1>4, <1>5 DEF InStep

(* What parsing finds is followed by the body it says, or misreads; remains of a body *)
(* by nothing more of it.                                                             *)
LEMMA Parsed ==
    ASSUME IInv, NEW p \in (rd + 1)..buf, HeadAt(p), Parses(p)
    PROVE  /\ HeadOf(p).frame \in Frames
           /\ Misreads(HeadOf(p)) => HeadOf(p).frame = "length" /\ HeadOf(p).len = 0 /\ ~Boundary(stream, p)
           /\ ~Misreads(HeadOf(p)) /\ HeadOf(p).frame = "length" =>
                  BodyAhead(stream, p, HeadOf(p).len, HeadOf(p).sends.trailers)
           /\ ~Misreads(HeadOf(p)) /\ HeadOf(p).frame = "chunked" =>
                  ChunksAhead(stream, p, HeadOf(p).sends.trailers)
<1>1. stream \in Streams /\ Len(stream) \in Nat /\ p \in 1..Len(stream)
  BY LengthOfStream DEF IInv, TypeOK
<1>2. CASE stream[p].t = "head"
  <2>1. stream[p].valid
    BY <1>2 DEF Parses, MayPass
  <2>2. stream[p] \in HeadTokens
    BY <1>1, <1>2, <2>1, BodyBehindHead
  <2>3. /\ HeadOf(p).frame = stream[p].frame
        /\ HeadOf(p).len = stream[p].len
        /\ HeadOf(p).sends = stream[p].sends
    BY <1>2, <2>2 DEF HeadOf, HeadTokens
  <2>4. Misreads(HeadOf(p)) <=> Misreads(stream[p])
    BY <2>3 DEF Misreads
  <2>5. HeadOf(p).frame \in Frames
    BY <2>2, <2>3 DEF HeadTokens
  <2> QED
    BY <1>1, <1>2, <2>1, <2>3, <2>4, <2>5, BodyBehindHead
<1>3. CASE stream[p].t # "head"
  <2>1. /\ HeadOf(p).frame = "length" /\ HeadOf(p).len = 0
        /\ HeadOf(p).sends.frame = "length" /\ HeadOf(p).sends.len = 0
        /\ HeadOf(p).sends.trailers = FALSE
    BY <1>3 DEF HeadOf, Intact, NoHead
  <2>2. ~Misreads(HeadOf(p))
    BY <2>1 DEF Misreads
  <2>3. stream[p].t \in {"blank", "trail"} \/ (stream[p].t = "last" /\ ~MoreLines(stream, p))
    BY <1>3 DEF HeadAt, EndsBlock
  <2>4. Boundary(stream, p)
    BY <1>1, <2>3, StreamsAssumption
  <2>5. BodyAhead(stream, p, 0, FALSE)
    BY <1>1, <2>4 DEF BodyAhead
  <2> QED
    BY <2>1, <2>2, <2>5 DEF Frames
<1> QED
  BY <1>2, <1>3

LEMMA ParseInStep ==
    ASSUME IInv, ParseRequest
    PROVE  InStep'
<1>1. PICK p \in (rd + 1)..buf : HeadAt(p) /\ Parses(p) /\ rd' = p /\ head' = HeadOf(p)
  BY DEF ParseRequest
<1>2. stream' = stream /\ bstate' = "unread"
  BY DEF ParseRequest, client
<1>3. Owed' = HeadOf(p).len
  BY <1>1, <1>2 DEF Owed
<1>4. /\ Misread' <=> Misreads(HeadOf(p))
      /\ OnBoundary' <=> Boundary(stream, p)
      /\ TrailersLeft' <=> HeadOf(p).sends.trailers
  BY <1>1, <1>2 DEF Misread, Misreads, OnBoundary, Boundary, TrailersLeft
<1>5. BodyAhead(stream, rd, Owed, TrailersLeft)' <=> BodyAhead(stream, p, HeadOf(p).len, HeadOf(p).sends.trailers)
  BY <1>1, <1>2, <1>3 DEF BodyAhead, TrailersLeft
<1>6. ChunksAhead(stream, rd, TrailersLeft)' <=> ChunksAhead(stream, p, HeadOf(p).sends.trailers)
  BY <1>1, <1>2 DEF ChunksAhead, TrailersLeft
<1> QED
  BY <1>1, <1>2, <1>3, <1>4, <1>5, <1>6, Parsed DEF InStep

(* Bytes of a body with a length are taken, no more than are owed. *)
LEMMA TakenInStep ==
    ASSUME IInv, InStep, Known, head.frame = "length", NEW k \in 0..Owed,
           UNCHANGED <<stream, head>>, rd' = rd + k, Owed' = Owed - k
    PROVE  InStep'
<1>1. rd \in Nat /\ Owed \in Nat /\ Len(stream) \in Nat
  BY LengthOfStream DEF IInv, TypeOK, HeadOK, Owed
<1>2. (Misread' <=> Misread) /\ (TrailersLeft' <=> TrailersLeft)
  BY DEF Misread, Misreads, TrailersLeft
<1>3. CASE Misread
  <2>1. Owed = 0 /\ ~OnBoundary
    BY <1>3 DEF InStep
  <2>2. k = 0 /\ rd' = rd
    BY <1>1, <2>1
  <2>3. (OnBoundary' <=> OnBoundary) /\ Owed' = 0
    BY <2>1, <2>2 DEF OnBoundary, Boundary
  <2> QED
    BY <1>2, <1>3, <2>1, <2>3 DEF InStep, Frames
<1>4. CASE ~Misread
  <2>1. BodyAhead(stream, rd, Owed, TrailersLeft)
    BY <1>4 DEF InStep
  <2>2. BodyAhead(stream, rd + k, Owed - k, TrailersLeft)
    BY <1>1, <2>1, Advances
  <2>3. BodyAhead(stream, rd, Owed, TrailersLeft)'
    BY <1>2, <2>2 DEF BodyAhead, TrailersLeft
  <2> QED
    BY <1>2, <1>4, <2>3 DEF InStep, Frames
<1> QED
  BY <1>3, <1>4

LEMMA ExactInStep ==
    ASSUME IInv, InStep, ReadExact, bstate = "reading"
    PROVE  InStep'
<1>1. rd \in Nat /\ want \in Nat /\ Known
  BY DEF IInv, TypeOK, ReadExact, Known
<1>2. Owed = want /\ Owed' = 0 /\ rd' = rd + want /\ UNCHANGED <<stream, head>> /\ head.frame = "length"
  BY DEF ReadExact, Owed, client
<1>3. want \in 0..Owed /\ Owed' = Owed - want
  BY <1>1, <1>2
<1> QED
  BY <1>1, <1>2, <1>3, TakenInStep

LEMMA DiscardInStep ==
    ASSUME IInv, InStep, Discard, bstate = "reading", head.frame = "length"
    PROVE  InStep'
<1>1. rd \in Nat /\ want \in Nat /\ Known /\ buf - rd \in Nat
  BY DEF IInv, TypeOK, Discard, Known
<1>2. Take \in 0..want
  BY <1>1 DEF Take
<1>3. Owed = want /\ Owed' = want - Take /\ rd' = rd + Take /\ UNCHANGED <<stream, head>>
  BY DEF Discard, Owed, client
<1> QED
  BY <1>1, <1>2, <1>3, TakenInStep

LEMMA ChunkInStep ==
    ASSUME IInv, InStep, ReadChunk, bstate = "reading"
    PROVE  InStep'
<1>1. /\ Known /\ head.frame = "chunked" /\ UNCHANGED <<stream, head>> /\ rd' = rd + 1
      /\ bstate' = IF stream[rd + 1].t = "last" THEN "read" ELSE "reading"
  BY DEF ReadChunk, Known, client
<1>2. rd \in Nat /\ Len(stream) \in Nat
  BY LengthOfStream DEF IInv, TypeOK
<1>3. ~Misread /\ ChunksAhead(stream, rd, TrailersLeft)
  BY <1>1 DEF InStep
<1>4. (Misread' <=> Misread) /\ (TrailersLeft' <=> TrailersLeft)
  BY <1>1 DEF Misread, Misreads, TrailersLeft
<1>5. CASE stream[rd + 1].t = "last"
  <2>1. Boundary(stream, rd + 1) <=> ~TrailersLeft
    BY <1>2, <1>3, <1>5, ChunkTaken
  <2>2. OnBoundary' <=> Boundary(stream, rd + 1)
    BY <1>1 DEF OnBoundary, Boundary
  <2> QED
    BY <1>1, <1>3, <1>4, <1>5, <2>1, <2>2 DEF InStep, Frames
<1>6. CASE stream[rd + 1].t # "last"
  <2>1. ChunksAhead(stream, rd + 1, TrailersLeft)
    BY <1>2, <1>3, <1>6, ChunkTaken
  <2>2. ChunksAhead(stream, rd, TrailersLeft)'
    BY <1>1, <2>1 DEF ChunksAhead, TrailersLeft
  <2> QED
    BY <1>1, <1>3, <1>4, <1>6, <2>2 DEF InStep, Frames
<1> QED
  BY <1>5, <1>6

LEMMA ClientKeeps ==
    ASSUME BInv, Send \/ Leave \/ UNCHANGED vars
    PROVE  InStep' /\ Paid' /\ AskedFor'
<1>1. UNCHANGED <<stream, rd, head, bstate, want, pc>>
  BY DEF Send, Leave, vars, client, reader, request
<1>2. Still /\ Paid' /\ AskedFor'
  BY <1>1 DEF BInv, Still, Known, Paid, AskedFor
<1> QED
  BY <1>2, StillInStep DEF BInv

LEMMA ReadingKeeps ==
    ASSUME BInv, ReadRequest
    PROVE  InStep' /\ Paid' /\ AskedFor'
<1> USE DEF BInv, Known, Paid, AskedFor, client, reader, writer, request, Goto, Receive
<1>1. CASE NextRequest
  <2>1. Still /\ Paid' /\ AskedFor'
    BY <1>1 DEF NextRequest, Still
  <2> QED
    BY <2>1, StillInStep
<1>2. CASE ParseRequest
  <2>1. pc' \in {"preflight", "work"}
    BY <1>2 DEF ParseRequest
  <2> QED
    BY <1>2, <2>1, ParseInStep
<1>3. CASE \/ IdleReceive \/ IdleEnds \/ IdleFails \/ ParseFails \/ HeadersTooLarge \/ AwaitHeaders
           \/ HeadersReceive \/ HeadersEnd \/ RefuseRequest
  <2>1. pc' \in {"parse", "headers", "error", "closed"}
    BY <1>3 DEF IdleReceive, IdleEnds, IdleFails, ParseFails, HeadersTooLarge, AwaitHeaders,
                HeadersReceive, HeadersEnd, RefuseRequest
  <2> QED
    BY <2>1 DEF InStep
<1> QED
  BY <1>1, <1>2, <1>3 DEF ReadRequest

LEMMA ServingKeeps ==
    ASSUME BInv, Serve \/ AbandonBody
    PROVE  InStep' /\ Paid' /\ AskedFor'
<1> USE DEF BInv, Known, Paid, AskedFor, client, reader, writer, request, Goto, Receive
<1>1. CASE AnswerPreflight \/ AnswerNoRoute \/ Respond \/ EndMiddleware \/ EndHandler
  <2>1. Still /\ Paid' /\ AskedFor'
    BY <1>1 DEF AnswerPreflight, AnswerNoRoute, Respond, EndMiddleware, EndHandler, Still
  <2> QED
    BY <2>1, StillInStep
<1>2. CASE CallBody \/ AwaitBody \/ BodyReceive \/ BodyFails \/ AbandonBody
  <2>1. Still /\ Paid' /\ AskedFor'
    BY <1>2 DEF CallBody, AwaitBody, BodyReceive, BodyFails, AbandonBody, Still
  <2> QED
    BY <2>1, StillInStep
<1>3. CASE ReadExact
  <2>1. pc = "body" /\ pc' = "work"
    BY <1>3 DEF ReadExact
  <2> QED
    BY <1>3, <2>1, ExactInStep
<1>4. CASE ReadChunk
  <2>1. pc = "body" /\ pc' \in {"body", "work"} /\ (pc' = "body" => bstate' = bstate)
    BY <1>4 DEF ReadChunk
  <2> QED
    BY <1>4, <2>1, ChunkInStep
<1> QED
  BY <1>1, <1>2, <1>3, <1>4 DEF Serve

LEMMA FinishingKeeps ==
    ASSUME BInv, Finish
    PROVE  InStep' /\ Paid' /\ AskedFor'
<1> USE DEF BInv, Known, Paid, AskedFor, client, reader, writer, request, Goto, Receive
<1>1. CASE FinishKeeps
  <2>1. pc = "finish" /\ pc' = "next" /\ Drained /\ UNCHANGED <<stream, rd, head, bstate, want>>
    BY <1>1 DEF FinishKeeps
  <2>2. Still /\ AskedFor'
    BY <2>1 DEF Still
  <2>3. InStep'
    BY <2>2, StillInStep
  <2>4. head.frame \in Frames
    BY <2>1 DEF InStep
  <2>5. Paid'
    BY <2>1, <2>4 DEF Drained, Frames
  <2> QED
    BY <2>2, <2>3, <2>5
<1>2. CASE FinishDiscards \/ DrainReceive
  <2>1. Still /\ Paid' /\ AskedFor'
    BY <1>2 DEF FinishDiscards, Discards, Drained, DrainReceive, Still
  <2> QED
    BY <2>1, StillInStep
<1>3. CASE FinishCloses \/ DrainEnds
  <2>1. pc' = "closed"
    BY <1>3 DEF FinishCloses, DrainEnds, Shutdown
  <2> QED
    BY <2>1 DEF InStep
<1>4. CASE Discard
  <2>1. pc = "discard" /\ pc' \in {"next", "drain"} /\ UNCHANGED <<head, bstate>>
    BY <1>4 DEF Discard
  <2> QED
    BY <1>4, <2>1, DiscardInStep
<1> QED
  BY <1>1, <1>2, <1>3, <1>4 DEF Finish

LEMMA InitStep == Init => BInv
<1> SUFFICES ASSUME Init PROVE BInv
  OBVIOUS
<1>1. IInv
  BY InitInv
<1>2. /\ pc = "next" /\ rd = 0 /\ bstate = "read" /\ stream \in Streams
      /\ head.frame = "length" /\ head.len = 0 /\ head.sends.frame = "length" /\ head.sends.len = 0
      /\ ~head.sends.trailers
  BY DEF Init, NoHead
<1>3. Len(stream) \in Nat /\ Boundary(stream, 0)
  BY <1>2, StreamsAssumption
<1>4. Owed = 0 /\ ~Misread /\ ~TrailersLeft
  BY <1>2 DEF Owed, Misread, Misreads, TrailersLeft
<1>5. BodyAhead(stream, rd, 0, TrailersLeft)
  BY <1>2, <1>3, <1>4 DEF BodyAhead
<1>6. InStep
  BY <1>2, <1>4, <1>5 DEF InStep, Frames
<1> QED
  BY <1>1, <1>2, <1>6 DEF BInv, Paid, AskedFor

LEMMA NextStep == BInv /\ [Next]_vars => BInv'
<1> SUFFICES ASSUME BInv, [Next]_vars PROVE BInv'
  OBVIOUS
<1>1. IInv'
  BY NextInv DEF BInv
<1>2. InStep' /\ Paid' /\ AskedFor'
  BY ClientKeeps, ReadingKeeps, ServingKeeps, FinishingKeeps DEF BInv, Next, Task
<1> QED
  BY <1>1, <1>2 DEF BInv

(* A connection that is kept stands where a request begins, for every stream of        *)
(* requests, every handler and every moment at which bytes arrive; it does not if and  *)
(* only if the body was misread, has trailers, or was given up.                        *)
THEOREM KeptAtBoundary == Safety => []AtBoundary
<1>1. BInv => AtBoundary
  <2> SUFFICES ASSUME BInv, pc \in {"next", "idle"}
               PROVE  OnBoundary <=> ~(Misread \/ Unfinished \/ TrailersLeft)
    BY DEF AtBoundary
  <2>1. rd \in Nat /\ want \in Nat /\ Len(stream) \in Nat /\ bstate \in {"unread", "reading", "read"}
    BY LengthOfStream DEF BInv, IInv, TypeOK
  <2>2. Known /\ InStep /\ (bstate = "unread" => head.frame = "length" /\ head.len = 0)
    BY DEF BInv, Known, Paid
  <2>3. CASE Misread
    BY <2>2, <2>3 DEF InStep
  <2>4. CASE ~Misread /\ head.frame = "length"
    <3>1. BodyAhead(stream, rd, Owed, TrailersLeft)
      BY <2>2, <2>4 DEF InStep
    <3>2. CASE Unfinished
      <4>1. Owed = want /\ want > 0
        BY <2>4, <3>2 DEF Unfinished, Owed
      <4>2. rd + 1 \in (rd + 1)..(rd + Owed) /\ rd < Len(stream)
        BY <2>1, <3>1, <4>1 DEF BodyAhead
      <4>3. ~Boundary(stream, rd)
        BY <2>1, <3>1, <4>2, WithinBody DEF BodyAhead
      <4> QED
        BY <3>2, <4>3 DEF OnBoundary
    <3>3. CASE ~Unfinished
      <4>1. Owed = 0
        BY <2>1, <2>2, <3>3 DEF Unfinished, Owed
      <4>2. rd + 0 = rd
        BY <2>1
      <4> QED
        BY <2>4, <3>1, <3>3, <4>1, <4>2 DEF BodyAhead, OnBoundary
    <3> QED
      BY <3>2, <3>3
  <2>5. CASE ~Misread /\ head.frame = "chunked"
    <3>1. CASE bstate = "read"
      BY <2>2, <2>5, <3>1 DEF InStep, Unfinished
    <3>2. CASE bstate # "read"
      <4>1. Unfinished
        BY <2>1, <2>2, <2>5, <3>2 DEF Unfinished
      <4>2. ChunksAhead(stream, rd, TrailersLeft)
        BY <2>2, <2>5, <3>2 DEF InStep
      <4>3. ~Boundary(stream, rd)
        BY <2>1, <4>2, ChunkTaken, WithinBody
      <4> QED
        BY <4>1, <4>3 DEF OnBoundary
    <3> QED
      BY <3>1, <3>2
  <2> QED
    BY <2>2, <2>3, <2>4, <2>5 DEF InStep, Frames
<1> QED
  BY <1>1, InitStep, NextStep, PTL DEF Safety
=============================================================================
