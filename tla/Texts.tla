-------------------------------- MODULE Texts --------------------------------
(***************************************************************************)
(* What applications and clients write, and what the parsers make of it:   *)
(* route patterns, multipart forms, cookies and their lifetimes, request   *)
(* heads.  Each action is one call of a parser; the properties compare its *)
(* result with what the text was written to say, which is defined without  *)
(* the parser.                                                             *)
(***************************************************************************)
EXTENDS RoutePattern, Multipart, Cookies, RequestHead

CONSTANTS
    Patterns,   \* texts of route patterns
    Forms,      \* [form, cut, style]: parts, the tokens that arrive, how the boundary is given
    Jars,       \* [pairs, split, style]: a client's cookies, where they are cut in two fields, how they are written
    CallLists,  \* sequences of calls on a response's cookies
    Lifetimes,  \* expirations: [unit, n]
    Days,       \* days since 1 January 1970
    Heads,      \* header blocks
    Digits      \* the numerals that HTTP allows

ASSUME DigitsAssumption ==
    Digits \subseteq DOMAIN Numeral \ {"chunked"} /\ "0" \in Digits /\ Numeral["0"] = 0

ASSUME PatternsAssumption == Patterns \subseteq Seq(STRING)

(* A client puts neither quotes nor line ends into a name, nor its delimiter into a content. *)
(* If it fails to tell the server its delimiter, the one that the server looks for instead   *)
(* is not in the form by chance.                                                              *)
MayBeSent(part, delimiter) ==
    /\ \A k \in 1..Len(part.name) : part.name[k] \notin {CrLf, Quote, NameKey, FileKey}
    /\ \A k \in 1..Len(part.type) : part.type[k] # CrLf
    /\ part.type # <<>> => part.type[1] # Space /\ part.type[Len(part.type)] # Space
    /\ \A k \in 1..(Len(part.content) - 1) : part.content[k] = CrLf => part.content[k + 1] # Delimiter
    /\ delimiter # Delimiter =>
          \A text \in {part.name, part.type, part.content} : \A k \in 1..Len(text) : text[k] # delimiter

ASSUME FormsAssumption ==
    \A f \in Forms :
        /\ f.form \in Seq([name : Seq(STRING), file : BOOLEAN, type : Seq(STRING), content : Seq(STRING)])
        /\ f.cut \in 0..Len(Encode(f.form)) /\ f.style \in {"bare", "quoted", "missing"}
        /\ \A k \in 1..Len(f.form) : MayBeSent(f.form[k], BoundaryOf(f.style))

(* A client's cookies have names without separators, and values that are not padded; the *)
(* one that sends them in two fields writes them without more spaces than it must.        *)
ASSUME JarsAssumption ==
    \A jar \in Jars :
        /\ jar.pairs \in Seq([name : Seq(STRING), value : Seq(STRING)])
        /\ jar.style \in {"tidy", "spaced", "short"}
        /\ jar.split = 0 \/ (jar.split \in 1..(Len(jar.pairs) - 1) /\ jar.style = "tidy")
        /\ \A i \in 1..Len(jar.pairs) :
              /\ \A k \in 1..Len(jar.pairs[i].name) : jar.pairs[i].name[k] \notin {Semicolon, Equals, Space}
              /\ \A k \in 1..Len(jar.pairs[i].value) : jar.pairs[i].value[k] # Semicolon
              /\ jar.pairs[i].value # <<>> =>
                     jar.pairs[i].value[1] # Space /\ jar.pairs[i].value[Len(jar.pairs[i].value)] # Space
ASSUME CallListsAssumption ==
    \A calls \in CallLists : calls \in Seq([op : {"add", "remove"}, name : Seq(STRING), value : STRING])
ASSUME LifetimesAssumption ==
    \A e \in Lifetimes : e.n \in 0..(WordSize - 1) /\ e.unit \in DOMAIN UnitSeconds \cup {"at"}
ASSUME DaysAssumption == Days \subseteq Nat
ASSUME HeadsAssumption ==
    \A block \in Heads :
        /\ block.lines \in Seq([name : STRING, value : Seq(STRING)])
        /\ \A i \in 1..Len(block.lines) : block.lines[i].value # <<>>

VARIABLE read   \* the text that was read, and what was made of it

Init == read = [of |-> "nothing"]

Idle == read.of = "nothing"

Reads(of, text, result) == read' = [of |-> of, text |-> text, result |-> result]

(* RouteDefinition::new, and Router::build of what it accepts *)
ReadPattern ==
    Idle /\ \E p \in Patterns : Reads("pattern", p, [accepted |-> RuntimeAccepts(p), segments |-> SegmentsOf(p)])

(* Body::as_multipart *)
ReadForm ==
    Idle /\ \E f \in Forms : Reads("form", f, AsMultipart(f.style, SubSeq(Encode(f.form), 1, f.cut)))

-----------------------------------------------------------------------------
(* How a client writes a cookie, and the lines of its "cookie" field. *)
WritePair(pair, style) ==
    CASE style = "tidy" -> pair.name \o <<Equals>> \o pair.value
      [] style = "spaced" -> pair.name \o <<Space, Equals, Space>> \o pair.value
      [] style = "short" -> IF pair.value = <<>> THEN pair.name ELSE pair.name \o <<Equals>> \o pair.value

Between(style) == IF style = "spaced" THEN <<Space, Semicolon, Space>> ELSE IF style = "short" THEN <<Semicolon>> ELSE <<Semicolon, Space>>

WriteJar(pairs, style) ==
    FlattenSeq([i \in DOMAIN pairs |->
        (IF i = 1 THEN <<>> ELSE Between(style)) \o WritePair(pairs[i], style)])

(* HttpRequest::parse: the cookies of the "cookie" field, whose lines are joined by FieldLines. *)
CookieField(jar) ==
    IF jar.split = 0 THEN WriteJar(jar.pairs, jar.style)
    ELSE WriteJar(SubSeq(jar.pairs, 1, jar.split), jar.style) \o <<Comma, Space>>
            \o WriteJar(SubSeq(jar.pairs, jar.split + 1, Len(jar.pairs)), jar.style)

ReadJar == Idle /\ \E jar \in Jars : Reads("jar", jar, ReadCookies(CookieField(jar)))

(* HttpResponse::add_cookie and remove_cookie *)
FillStore == Idle /\ \E calls \in CallLists : Reads("calls", calls, AfterCalls(calls))

(* CookieStore::to_bytes: Expires and Max-Age *)
WriteLifetime ==
    Idle /\ \E e \in Lifetimes : Reads("lifetime", e, [age |-> Seconds(e), at |-> Timestamp(e)])

(* format_http_date, for a day and the next one *)
WriteDate == Idle /\ \E d \in Days : Reads("date", d, [today |-> DateOf(d), tomorrow |-> DateOf(d + 1)])

(* HttpRequest::parse *)
ReadHead == Idle /\ \E block \in Heads : Reads("head", block, Understood(block))

(* The caller goes on to its next text. *)
Return == ~Idle /\ read' = [of |-> "nothing"]

Next ==
    \/ ReadPattern \/ ReadForm
    \/ ReadJar \/ FillStore \/ WriteLifetime \/ WriteDate
    \/ ReadHead
    \/ Return

Spec == Init /\ [][Next]_read

-----------------------------------------------------------------------------
(* The names between braces, in order. *)
NamesIn(p) ==
    LET after == Tail(Split(p, OpenBrace)) IN
    [k \in DOMAIN after |-> Split(after[k], CloseBrace)[1]]

(* Every parameter is a segment by itself. *)
Whole(p) ==
    \A i \in DOMAIN p :
        /\ p[i] = OpenBrace => i > 1 /\ p[i - 1] = Slash
        /\ p[i] = CloseBrace => i = Len(p) \/ p[i + 1] = Slash

(* The names of the parameters that the router will capture. *)
Captured(segments) ==
    LET name(s) == IF s.k = "all" THEN <<PathName>> ELSE s.s IN
    FlattenSeq([i \in DOMAIN segments |-> IF segments[i].k = "static" THEN <<>> ELSE <<name(segments[i])>>])

(* The three readers of a pattern agree.  What #[route] lets through when the application is *)
(* compiled does not fail when it starts, and what #[static_files] makes of its path fails   *)
(* then only if that path is not empty and has no leading slash.  In an accepted pattern the *)
(* catch-all is the last segment, and the router captures the validated names, in order,     *)
(* unless a parameter shares its segment with other text.                                    *)
PatternsAgree ==
    read.of = "pattern" =>
        LET p == read.text
            segments == read.result.segments
        IN  /\ MacroAccepts(p) => read.result.accepted
            /\ StaticAccepts(p) => (RuntimeAccepts(StaticRoute(p)) <=> p = <<>> \/ StartsWithSlash(p))
            /\ read.result.accepted =>
                 /\ \A i \in DOMAIN segments : segments[i].k = "all" => i = Len(segments)
                 /\ Captured(segments) = NamesIn(p) <=> Whole(p)

-----------------------------------------------------------------------------
(* Where the delimiter behind the k-th part ends. *)
EndOfDelimiter(form, k) == Len(FlattenSeq([i \in 1..k |-> EncodePart(form[i])])) + 2

(* How many parts have arrived, when the text ends right behind a delimiter or is complete; *)
(* 0 when it ends anywhere else.                                                            *)
Arrived(f) ==
    LET n == Len(f.form)
        ends == {k \in 1..n : f.cut = EndOfDelimiter(f.form, k) \/ (k = n /\ f.cut = Len(Encode(f.form)))}
    IN  IF ends = {} THEN 0 ELSE Max(ends)

(* A quoted name is cut at a ";", and then keeps its first quote. *)
NameRead(name) ==
    LET semi == FirstAt(<<Semicolon>>, name, 1) IN
    IF semi = 0 THEN name ELSE Trim(<<Quote>> \o SubSeq(name, 1, semi - 1))

TypeRead(part) ==
    IF part.type # <<>> THEN {part.type} ELSE IF part.file THEN {<<"application/octet-stream">>} ELSE {}

(* The last of the parts with a name is the field of that name. *)
FormRead(parts) ==
    [name \in {NameRead(parts[i].name) : i \in DOMAIN parts} |->
        LET last == parts[Max({i \in DOMAIN parts : NameRead(parts[i].name) = name})] IN
        [type |-> TypeRead(last), content |-> last.content]]

(* A form reads back as it was written: every content byte for byte, delimiters and blank   *)
(* lines inside it included, the last part of a name winning.  It is refused when the        *)
(* boundary is quoted or missing, when it has no parts, and when it was cut off anywhere but *)
(* right behind a delimiter: there, the parts so far pass for the whole form.                *)
FormsReadBack ==
    read.of = "form" =>
        LET n == Arrived(read.text) IN
        read.result = IF n = 0 \/ read.text.style # "bare" THEN Failed
                      ELSE [ok |-> TRUE, fields |-> FormRead(SubSeq(read.text.form, 1, n))]

-----------------------------------------------------------------------------
(* Two "cookie" fields are joined by a comma, which does not separate cookies: the first of  *)
(* the second field becomes part of the last value of the first.                             *)
Fused(jar) ==
    IF jar.split = 0 THEN jar.pairs
    ELSE LET k == jar.split
             value == jar.pairs[k].value \o <<Comma, Space>> \o WritePair(jar.pairs[k + 1], jar.style)
         IN  [i \in 1..(Len(jar.pairs) - 1) |->
                IF i = k THEN [jar.pairs[k] EXCEPT !.value = value]
                ELSE jar.pairs[IF i < k THEN i ELSE i + 1]]

JarRead(pairs) ==
    [name \in {pairs[i].name : i \in DOMAIN pairs} \ {<<>>} |->
        pairs[Max({i \in DOMAIN pairs : pairs[i].name = name})].value]

(* What calls leave: the last value added, unless it was removed by that very name later. *)
StoreKept(calls) ==
    LET adds(name) == {i \in DOMAIN calls : calls[i].op = "add" /\ Trim(calls[i].name) = name}
        removes(name) == {i \in DOMAIN calls : calls[i].op = "remove" /\ calls[i].name = name}
        kept(name) == \E i \in adds(name) : \A j \in removes(name) : j < i
    IN  [name \in {n \in {Trim(calls[i].name) : i \in DOMAIN calls} : kept(n)} |-> calls[Max(adds(name))].value]

CookiesReadBack ==
    /\ read.of = "jar" => read.result = JarRead(Fused(read.text))
    /\ read.of = "calls" => read.result = StoreKept(read.text)

(* Max-Age is the time that was asked for and Expires lies that much ahead, unless product   *)
(* or sum do not fit the word; a time that is over has the age 0.                            *)
LifetimesKept ==
    read.of = "lifetime" =>
        LET e == read.text
            asked == e.n * UnitSeconds[e.unit]
        IN  IF e.unit = "at" THEN read.result.at = e.n /\ read.result.age \in 0..e.n
                                  /\ (read.result.age = 0 \/ Now + read.result.age = e.n)
            ELSE /\ read.result.age = asked <=> asked < WordSize
                 /\ asked < WordSize =>
                        (read.result.at = Now + asked <=> Now + asked < WordSize)

IsLeap(year) == year % 4 = 0 /\ (year % 100 # 0 \/ year % 400 = 0)

DaysIn(month, year) ==
    IF month = 2 THEN IF IsLeap(year) THEN 29 ELSE 28 ELSE IF month \in {4, 6, 9, 11} THEN 30 ELSE 31

WeekdayAfter == [Mon |-> "Tue", Tue |-> "Wed", Wed |-> "Thu", Thu |-> "Fri", Fri |-> "Sat", Sat |-> "Sun", Sun |-> "Mon"]

DayAfter(date) ==
    LET newMonth == date.day = DaysIn(date.month, date.year)
        newYear == newMonth /\ date.month = 12
    IN  [weekday |-> WeekdayAfter[date.weekday],
         day |-> IF newMonth THEN 1 ELSE date.day + 1,
         month |-> IF newYear THEN 1 ELSE IF newMonth THEN date.month + 1 ELSE date.month,
         year |-> IF newYear THEN date.year + 1 ELSE date.year]

(* The dates written in Expires are those of the calendar, day after day. *)
DatesFollow ==
    read.of = "date" =>
        /\ read.text = 0 => read.result.today = [weekday |-> "Thu", day |-> 1, month |-> 1, year |-> 1970]
        /\ read.result.tomorrow = DayAfter(read.result.today)

(* Cookies mean what they were written to mean: a jar reads back however it is spaced, the   *)
(* last of a name winning, a response keeps the cookies that were added and not removed, and *)
(* lifetimes and dates are those asked for, unless the 64 bits of a lifetime overflow.       *)
CookiesKeepTheirWord == CookiesReadBack /\ LifetimesKept /\ DatesFollow

-----------------------------------------------------------------------------
(* HTTP's own reading of a head (RFC 9110, 9112): the members of all lines of a name. *)
Members(block, name) ==
    FlattenSeq([i \in DOMAIN block.lines |-> IF block.lines[i].name = name THEN block.lines[i].value ELSE <<>>])

Lower(coding) == IF coding = "Chunked" THEN "chunked" ELSE coding

(* The framing that a head declares: "chunked", a length, or none that HTTP allows. *)
Framing(block) ==
    LET codings == Members(block, "transfer-encoding")
        lengths == Members(block, "content-length")
    IN  IF codings # <<>> THEN {"chunked"} \cap {Lower(Last(codings))}
        ELSE IF lengths = <<>> THEN {"0"}
        ELSE {n \in Digits : \A i \in DOMAIN lengths : lengths[i] = n}

SameFraming(result, framing) ==
    IF framing = "chunked" THEN result.frame = "chunked"
    ELSE result.frame = "length" /\ result.len = Numeral[framing]

(* The heads that the server frames in another way: a length repeated, a coding in capitals. *)
Differs(block, framing) ==
    IF framing = "chunked" THEN {"chunked", "x-chunked"} \cap ToSet(Members(block, "transfer-encoding")) = {}
    ELSE Len(Members(block, "content-length")) > 1 /\ Numeral[framing] # 0

(* However the lines of a head are ordered, repeated or broken, the server takes its body for *)
(* framed as HTTP says, except in exactly two cases: a length that is repeated counts as 0,   *)
(* and a coding that is not in lower case is not seen.  It closes only when it was asked to.  *)
HeadsUnderstood ==
    read.of = "head" =>
        /\ \A framing \in Framing(read.text) :
              SameFraming(read.result, framing) <=> ~Differs(read.text, framing)
        /\ read.result.close =>
              \E i \in DOMAIN Members(read.text, "connection") : Members(read.text, "connection")[i] = "close"

=============================================================================
