----------------------------- MODULE Multipart -----------------------------
(***************************************************************************)
(* Multipart::parse (body.rs), and the forms that clients encode.          *)
(*                                                                         *)
(* A body is a sequence of tokens: Delimiter is two hyphens and the        *)
(* boundary, CrLf the end of a line, Hyphens are two hyphens; the others   *)
(* are words and punctuation of header lines and contents.  The boundary   *)
(* that the server takes from the content type may differ from the         *)
(* client's: it is never unquoted.                                         *)
(***************************************************************************)
EXTENDS Tokens

Delimiter == "--B"
Hyphens == "--"
CrLf == "CRLF"
Quote == "QUOTE"
Disposition == "Content-Disposition:"
ContentType == "Content-Type:"
NameKey == "name="
FileKey == "filename="
FormData == "form-data"
FileName == "f"

Failed == [ok |-> FALSE, fields |-> <<>>]

(* unquote: quotes at both ends *)
Unquote(text) ==
    LET s == Trim(text) IN
    IF Len(s) >= 2 /\ s[1] = Quote /\ s[Len(s)] = Quote THEN SubSeq(s, 2, Len(s) - 1) ELSE s

(* What the last parameter with this key gives, if there is one. *)
Given(params, key) ==
    LET places == {i \in DOMAIN params : params[i] # <<>> /\ params[i][1] = key} IN
    IF places = {} THEN {} ELSE {Unquote(Tail(params[Max(places)]))}

Latest(old, new) == IF new = {} THEN old ELSE new

(* parse_header_line: what one line adds to the name, filename and type found so far. *)
HeaderLine(found, line) ==
    LET value == IF line = <<>> THEN <<>> ELSE Trim(Tail(line))
        params == LET parts == Split(value, Semicolon) IN [i \in DOMAIN parts |-> Trim(parts[i])]
    IN  IF line # <<>> /\ line[1] = ContentType THEN
            [found EXCEPT !.type = IF value = <<>> THEN @ ELSE {value}]
        ELSE IF line # <<>> /\ line[1] = Disposition THEN
            [found EXCEPT !.name = Latest(@, Given(params, NameKey)), !.file = Latest(@, Given(params, FileKey))]
        ELSE found

NoHeaders == [name |-> {}, file |-> {}, type |-> {}]

(* parse_headers: a part needs a name; a file without a type is a stream of octets. *)
Headers(block) ==
    LET lines == Split(block, CrLf)
        found[n \in 0..Len(lines)] == IF n = 0 THEN NoHeaders ELSE HeaderLine(found[n - 1], lines[n])
        all == found[Len(lines)]
    IN  IF all.type = {} /\ all.file # {} THEN [all EXCEPT !.type = {<<"application/octet-stream">>}] ELSE all

(* Mutant: the rest of the body need not be a delimiter line. *)
EndOfLine_Unchecked(body, at) == TRUE

(* A delimiter that is not the last is followed by the end of its line. *)
EndOfLine(body, at) == at <= Len(body) /\ body[at] = CrLf

NoFields == [name \in {} |-> <<>>]

(* The fields by name: a later part replaces an earlier one. *)
Insert(fields, names, field) ==
    [name \in DOMAIN fields \cup names |-> IF name \in names THEN field ELSE fields[name]]

(* One round of the loop of Multipart::parse, for the part at s.pos; none when it has ended. *)
ReadPart(body, boundary, s) ==
    LET headEnd == FirstAt(<<CrLf, CrLf>>, body, s.pos)
        head == Headers(SubSeq(body, s.pos, headEnd - 1))
        from == headEnd + 2
        mid == FirstAt(<<CrLf, boundary>>, body, from)
        after == mid + 2
        field == [type |-> head.type, content |-> SubSeq(body, from, mid - 1)]
        last == after <= Len(body) /\ body[after] = Hyphens
    IN  IF s.state # "reading" THEN s
        ELSE IF headEnd = 0 \/ head.name = {} \/ mid = 0 \/ (~last /\ ~EndOfLine(body, after))
        THEN [s EXCEPT !.state = "failed"]
        ELSE [pos |-> after + 1, fields |-> Insert(s.fields, head.name, field),
              state |-> IF last \/ after + 1 > Len(body) THEN "done" ELSE "reading"]

(* Multipart::parse: every round takes at least one token. *)
ParseForm(body, boundary) ==
    LET open == FirstAt(<<boundary, CrLf>>, body, 1)
        round[n \in 0..Len(body)] ==
            IF n = 0 THEN [pos |-> open + 2, fields |-> NoFields, state |-> "reading"]
            ELSE ReadPart(body, boundary, round[n - 1])
        end == round[Len(body)]
    IN  IF open # 0 /\ end.state = "done" THEN [ok |-> TRUE, fields |-> end.fields] ELSE Failed

(* Body::as_multipart: the boundary is what follows "boundary=", quotes and all. *)
BoundaryOf(style) ==
    IF style = "bare" THEN Delimiter ELSE IF style = "quoted" THEN "--QUOTE B QUOTE" ELSE Hyphens

AsMultipart(style, body) == ParseForm(body, BoundaryOf(style))

-----------------------------------------------------------------------------
(* What a client sends for a form: a sequence of [name, file, type, content]. *)
Quoted(text) == <<Quote>> \o text \o <<Quote>>

EncodeHead(part) ==
    <<Disposition, Space, FormData, Semicolon, Space, NameKey>> \o Quoted(part.name)
        \o (IF part.file THEN <<Semicolon, Space, FileKey>> \o Quoted(<<FileName>>) ELSE <<>>)
        \o (IF part.type = <<>> THEN <<>> ELSE <<CrLf, ContentType, Space>> \o part.type)

EncodePart(part) == <<Delimiter, CrLf>> \o EncodeHead(part) \o <<CrLf, CrLf>> \o part.content \o <<CrLf>>

Encode(form) == FlattenSeq([k \in DOMAIN form |-> EncodePart(form[k])]) \o <<Delimiter, Hyphens, CrLf>>
=============================================================================
