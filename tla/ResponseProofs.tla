--------------------------- MODULE ResponseProofs ---------------------------
(***************************************************************************)
(* Field lines, the framing of responses, ranges and grants, for every     *)
(* configuration, request and body.                                        *)
(***************************************************************************)
EXTENDS Response, SequenceTheorems, WellFoundedInduction, FiniteSetTheorems, TLAPS

(* Names and elements of values: strings and numbers.  The provers do not know that a *)
(* literal is a string, so that the literals that occur are named.                    *)
Names == STRING \cup {"x-request-id", "content-type", "content-length", "content-range", "accept-ranges",
    "accept-encoding", "transfer-encoding", "vary", "allow", "access-control-allow-origin",
    "access-control-allow-credentials", "access-control-allow-methods", "access-control-allow-headers",
    "access-control-max-age", "access-control-expose-headers"}

Elements == STRING \cup Int \cup {"id", "chunked", "bytes", "true", "*", "none", "listed", "other", "age", "GET", "HEAD",
    "Origin", "Access-Control-Request-Headers", "x-exposed", "x-listed"}

Line == [name : Names, value : Seq(Elements)]

(* A name has one line at most: what FieldLines promises. *)
Unique(lines) == \A i, j \in 1..Len(lines) : lines[i].name = lines[j].name => i = j

Fields == {lines \in Seq(Line) : Unique(lines)}

-----------------------------------------------------------------------------
(* FieldLines: looking up, setting and removing a name. *)

LEMMA Least ==
    ASSUME NEW S \in SUBSET Nat, S # {}
    PROVE  Min(S) \in S
<1>1. PICK x \in S : \A y \in S : <<y, x>> \notin OpToRel(<, Nat)
  BY NatLessThanWellFounded, WFMin
<1>2. \A y \in S : ~(y < x)
  BY <1>1, Zenon DEF OpToRel
<1>3. \A y \in S : x <= y
  BY <1>2
<1> QED
  BY <1>3 DEF Min

LEMMA PositionFound ==
    ASSUME NEW lines \in Seq(Line), NEW name
    PROVE  \/ /\ Has(lines, name) /\ Position(lines, name) \in 1..Len(lines)
              /\ lines[Position(lines, name)].name = name
           \/ /\ ~Has(lines, name) /\ Position(lines, name) = 0
              /\ \A i \in 1..Len(lines) : lines[i].name # name
<1> DEFINE I == {i \in 1..Len(lines) : lines[i].name = name}
<1>1. Position(lines, name) = IF I # {} THEN Min(I) ELSE 0
  BY DEF Position, SelectInSeq
<1>2. I \in SUBSET Nat /\ I \subseteq 1..Len(lines)
  BY LenProperties
<1>3. CASE I = {}
  BY <1>1, <1>3 DEF Has
<1>4. CASE I # {}
  <2>1. Min(I) \in I
    BY <1>2, <1>4, Least
  <2> QED
    BY <1>1, <1>4, <2>1 DEF Has
<1> QED
  BY <1>3, <1>4

(* The value of a name is that of its line. *)
LEMMA GetLine ==
    ASSUME NEW lines \in Fields, NEW name, NEW i \in 1..Len(lines), lines[i].name = name
    PROVE  Has(lines, name) /\ Position(lines, name) = i /\ Get(lines, name) = lines[i].value
<1>1. Has(lines, name) /\ Position(lines, name) = i
  BY PositionFound DEF Fields, Unique
<1> QED
  BY <1>1 DEF Get

LEMMA GetNone ==
    ASSUME NEW lines \in Fields, NEW name, \A i \in 1..Len(lines) : lines[i].name # name
    PROVE  ~Has(lines, name) /\ Get(lines, name) = <<>>
<1>1. ~Has(lines, name)
  BY PositionFound DEF Fields
<1> QED
  BY <1>1 DEF Get

LEMMA GetType ==
    ASSUME NEW lines \in Fields, NEW name
    PROVE  Get(lines, name) \in Seq(Elements)
<1>1. CASE Has(lines, name)
  <2>1. lines[Position(lines, name)] \in Line
    BY <1>1, PositionFound, ElementOfSeq DEF Fields
  <2> QED
    BY <1>1, <2>1 DEF Get, Line
<1>2. CASE ~Has(lines, name)
  BY <1>2, EmptySeq DEF Get
<1> QED
  BY <1>1, <1>2

(* Setting a name adds to its value and touches no other. *)
LEMMA SetLineFacts ==
    ASSUME NEW lines \in Fields, NEW name \in Names, NEW value \in Seq(Elements)
    PROVE  /\ SetLine(lines, name, value) \in Fields
           /\ Has(SetLine(lines, name, value), name)
           /\ Get(SetLine(lines, name, value), name) = Get(lines, name) \o value
           /\ \A other : other # name =>
                 /\ Has(SetLine(lines, name, value), other) <=> Has(lines, other)
                 /\ Get(SetLine(lines, name, value), other) = Get(lines, other)
<1> DEFINE new == SetLine(lines, name, value)
<1>0. lines \in Seq(Line) /\ Unique(lines) /\ Len(lines) \in Nat
  BY LenProperties DEF Fields
<1>1. CASE Has(lines, name)
  <2>1. PICK p \in 1..Len(lines) : p = Position(lines, name) /\ lines[p].name = name
    BY <1>0, <1>1, PositionFound
  <2>2. \A i \in 1..Len(lines) : lines[i] \in Line
    BY <1>0, ElementOfSeq
  <2>3. lines[p].value \o value \in Seq(Elements)
    BY <2>1, <2>2, ConcatProperties DEF Line
  <2> DEFINE changed == [lines[p] EXCEPT !.value = lines[p].value \o value]
  <2>4. changed \in Line /\ changed.name = name /\ changed.value = lines[p].value \o value
    BY <2>1, <2>2, <2>3 DEF Line
  <2>5. new = [lines EXCEPT ![p] = changed]
    BY <1>1, <2>1 DEF SetLine
  <2>6. /\ new \in Seq(Line) /\ Len(new) = Len(lines)
        /\ \A j \in 1..Len(lines) : new[j] = IF j = p THEN changed ELSE lines[j]
    BY <1>0, <2>1, <2>4, <2>5, ExceptSeq
  <2>7. \A j \in 1..Len(lines) : new[j].name = lines[j].name
    BY <2>1, <2>4, <2>6
  <2>8. new \in Fields
    BY <1>0, <2>6, <2>7 DEF Fields, Unique
  <2>9. Has(new, name) /\ Get(new, name) = changed.value
    <3>1. p \in 1..Len(new) /\ new[p].name = name
      BY <2>1, <2>4, <2>6
    <3>2. Has(new, name) /\ Get(new, name) = new[p].value
      <4> HIDE DEF new, changed
      <4> QED
        BY <2>8, <3>1, GetLine
    <3>3. new[p] = changed
      BY <2>6
    <3> QED
      BY <3>2, <3>3
  <2>10. Get(lines, name) = lines[p].value
    BY <1>1, <2>1 DEF Get
  <2>11. ASSUME NEW other, other # name
         PROVE  (Has(new, other) <=> Has(lines, other)) /\ Get(new, other) = Get(lines, other)
    <3>1. CASE \E i \in 1..Len(lines) : lines[i].name = other
      <4>1. PICK i \in 1..Len(lines) : lines[i].name = other
        BY <3>1
      <4>2. i # p /\ i \in 1..Len(new) /\ new[i] = lines[i]
        BY <4>1, <2>1, <2>6, <2>11
      <4>3. Has(lines, other) /\ Get(lines, other) = lines[i].value
        BY <4>1, GetLine
      <4>4. Has(new, other) /\ Get(new, other) = new[i].value
        BY <2>8, <4>1, <4>2, GetLine
      <4> QED
        BY <4>2, <4>3, <4>4
    <3>2. CASE \A i \in 1..Len(lines) : lines[i].name # other
      BY <3>2, <2>6, <2>7, <2>8, GetNone
    <3> QED
      BY <3>1, <3>2
  <2> QED
    BY <2>4, <2>8, <2>9, <2>10, <2>11
<1>2. CASE ~Has(lines, name)
  <2> DEFINE line == [name |-> name, value |-> value]
  <2>1. \A i \in 1..Len(lines) : lines[i].name # name
    BY <1>0, <1>2, PositionFound
  <2>2. line \in Line /\ new = Append(lines, line)
    BY <1>2 DEF SetLine, Line
  <2>3. /\ new \in Seq(Line) /\ Len(new) = Len(lines) + 1
        /\ \A i \in 1..Len(lines) : new[i] = lines[i]
        /\ new[Len(lines) + 1] = line
    BY <1>0, <2>2, AppendProperties
  <2>4. \A i \in 1..Len(new) : i \in 1..Len(lines) \/ i = Len(lines) + 1
    BY <1>0, <2>3
  <2>5. new \in Fields
    BY <1>0, <2>1, <2>3, <2>4 DEF Fields, Unique
  <2>6. Has(new, name) /\ Get(new, name) = value
    <3>1. Len(lines) + 1 \in 1..Len(new) /\ new[Len(lines) + 1].name = name
      BY <1>0, <2>3
    <3> QED
      BY <2>3, <2>5, <3>1, GetLine
  <2>7. Get(lines, name) = <<>> /\ <<>> \o value = value
    BY <1>2, ConcatEmptySeq DEF Get
  <2>8. ASSUME NEW other, other # name
        PROVE  (Has(new, other) <=> Has(lines, other)) /\ Get(new, other) = Get(lines, other)
    <3>1. CASE \E i \in 1..Len(lines) : lines[i].name = other
      <4>1. PICK i \in 1..Len(lines) : lines[i].name = other
        BY <3>1
      <4>2. i \in 1..Len(new) /\ new[i] = lines[i]
        BY <1>0, <2>3
      <4>3. Has(lines, other) /\ Get(lines, other) = lines[i].value
        BY <4>1, GetLine
      <4>4. Has(new, other) /\ Get(new, other) = new[i].value
        BY <2>5, <4>1, <4>2, GetLine
      <4> QED
        BY <4>2, <4>3, <4>4
    <3>2. CASE \A i \in 1..Len(lines) : lines[i].name # other
      <4>1. \A i \in 1..Len(new) : new[i].name # other
        BY <2>3, <2>4, <2>8, <3>2
      <4> QED
        BY <2>5, <3>2, <4>1, GetNone
    <3> QED
      BY <3>1, <3>2
  <2> QED
    BY <2>5, <2>6, <2>7, <2>8
<1> QED
  BY <1>1, <1>2

(* Removing a name removes it and touches no other. *)
LEMMA RemoveLineFacts ==
    ASSUME NEW lines \in Fields, NEW name
    PROVE  /\ RemoveLine(lines, name) \in Fields
           /\ ~Has(RemoveLine(lines, name), name) /\ Get(RemoveLine(lines, name), name) = <<>>
           /\ \A other : other # name =>
                 /\ Has(RemoveLine(lines, name), other) <=> Has(lines, other)
                 /\ Get(RemoveLine(lines, name), other) = Get(lines, other)
<1> DEFINE new == RemoveLine(lines, name)
<1>0. lines \in Seq(Line) /\ Unique(lines) /\ Len(lines) \in Nat
  BY LenProperties DEF Fields
<1>1. CASE ~Has(lines, name)
  BY <1>1 DEF RemoveLine, Get
<1>2. CASE Has(lines, name)
  <2>1. PICK p \in 1..Len(lines) : p = Position(lines, name) /\ lines[p].name = name
    BY <1>0, <1>2, PositionFound
  <2> DEFINE front == SubSeq(lines, 1, p - 1)
             back == SubSeq(lines, p + 1, Len(lines))
  <2>2. new = front \o back
    BY <1>2, <2>1 DEF RemoveLine, RemoveAt
  <2>3. p - 1 \in Int /\ p + 1 \in Int /\ \A i \in 1..Len(lines) : lines[i] \in Line
    BY <1>0, ElementOfSeq
  <2>4. /\ front \in Seq(Line)
        /\ Len(front) = IF 1 <= p - 1 THEN p - 1 - 1 + 1 ELSE 0
        /\ \A i \in 1..(p - 1 - 1 + 1) : front[i] = lines[1 + i - 1]
    BY <1>0, <2>3, SubSeqProperties
  <2>5. /\ back \in Seq(Line)
        /\ Len(back) = IF p + 1 <= Len(lines) THEN Len(lines) - (p + 1) + 1 ELSE 0
        /\ \A i \in 1..(Len(lines) - (p + 1) + 1) : back[i] = lines[p + 1 + i - 1]
    BY <1>0, <2>3, SubSeqProperties
  <2>6. Len(front) = p - 1 /\ Len(back) = Len(lines) - p
    BY <1>0, <2>4, <2>5
  <2>7. /\ front \o back \in Seq(Line)
        /\ Len(front \o back) = Len(front) + Len(back)
        /\ \A i \in 1..(Len(front) + Len(back)) :
              (front \o back)[i] = IF i <= Len(front) THEN front[i] ELSE back[i - Len(front)]
    BY <2>4, <2>5, ConcatProperties
  <2> HIDE DEF front, back
  <2>8. new \in Seq(Line) /\ Len(new) = Len(lines) - 1
    BY <1>0, <2>2, <2>6, <2>7
  <2>9. \A i \in 1..(Len(lines) - 1) : new[i] = IF i < p THEN lines[i] ELSE lines[i + 1]
    <3>1. ASSUME NEW i \in 1..(Len(lines) - 1), i < p
          PROVE  new[i] = lines[i]
      BY <1>0, <3>1, <2>2, <2>4, <2>6, <2>7
    <3>2. ASSUME NEW i \in 1..(Len(lines) - 1), ~(i < p)
          PROVE  new[i] = lines[i + 1]
      <4>1. new[i] = back[i - (p - 1)]
        BY <1>0, <3>2, <2>2, <2>6, <2>7
      <4>2. i - (p - 1) \in 1..(Len(lines) - (p + 1) + 1) /\ p + 1 + (i - (p - 1)) - 1 = i + 1
        BY <1>0, <3>2
      <4> QED
        BY <4>1, <4>2, <2>5
    <3> QED
      BY <3>1, <3>2
  <2>10. \A i \in 1..Len(new) :
            \E k \in 1..Len(lines) : k # p /\ new[i] = lines[k] /\ (i < p => k = i) /\ (~(i < p) => k = i + 1)
    BY <1>0, <2>8, <2>9
  <2> HIDE DEF new
  <2>11. Unique(new)
    <3> SUFFICES ASSUME NEW i \in 1..Len(new), NEW j \in 1..Len(new), new[i].name = new[j].name
                 PROVE  i = j
      BY DEF Unique
    <3>1. PICK k \in 1..Len(lines) : new[i] = lines[k] /\ (i < p => k = i) /\ (~(i < p) => k = i + 1)
      BY <2>10
    <3>2. PICK l \in 1..Len(lines) : new[j] = lines[l] /\ (j < p => l = j) /\ (~(j < p) => l = j + 1)
      BY <2>10
    <3>3. k = l
      BY <1>0, <3>1, <3>2 DEF Unique
    <3> QED
      BY <1>0, <2>8, <3>1, <3>2, <3>3
  <2>12. new \in Fields
    BY <2>8, <2>11 DEF Fields
  <2>13. \A i \in 1..Len(new) : new[i].name # name
    BY <1>0, <2>1, <2>10 DEF Unique
  <2>14. ~Has(new, name) /\ Get(new, name) = <<>>
    BY <2>12, <2>13, GetNone
  <2>15. ASSUME NEW other, other # name
         PROVE  (Has(new, other) <=> Has(lines, other)) /\ Get(new, other) = Get(lines, other)
    <3>1. CASE \E i \in 1..Len(lines) : lines[i].name = other
      <4>1. PICK i \in 1..Len(lines) : lines[i].name = other
        BY <3>1
      <4>2. i # p
        BY <4>1, <2>1, <2>15
      <4>3. PICK j \in 1..Len(new) : new[j] = lines[i]
        <5>1. CASE i < p
          BY <1>0, <5>1, <2>8, <2>9
        <5>2. CASE i > p
          <6>1. i - 1 \in 1..(Len(lines) - 1) /\ ~(i - 1 < p) /\ i - 1 + 1 = i
            BY <1>0, <5>2
          <6> QED
            BY <6>1, <2>8, <2>9
        <5> QED
          BY <4>2, <5>1, <5>2
      <4>4. Has(lines, other) /\ Get(lines, other) = lines[i].value
        BY <4>1, GetLine
      <4>5. Has(new, other) /\ Get(new, other) = new[j].value
        BY <2>12, <4>1, <4>3, GetLine
      <4> QED
        BY <4>3, <4>4, <4>5
    <3>2. CASE \A i \in 1..Len(lines) : lines[i].name # other
      <4>1. \A i \in 1..Len(new) : new[i].name # other
        BY <2>10, <3>2
      <4> QED
        BY <2>12, <3>2, <4>1, GetNone
    <3> QED
      BY <3>1, <3>2
  <2> QED
    BY <2>12, <2>14, <2>15 DEF new
<1> QED
  BY <1>1, <1>2

-----------------------------------------------------------------------------
(* Responses: which fields a call touches. *)

Values == Seq(Elements)

Shaped(r) ==
    /\ r = [status |-> r.status, lines |-> r.lines, body |-> r.body, suppress |-> r.suppress]
    /\ r.lines \in Fields
    /\ r.suppress \in BOOLEAN

(* s is r but for the fields of these names. *)
Keeps(r, s, names) ==
    /\ Shaped(s)
    /\ s.status = r.status /\ s.body = r.body /\ s.suppress = r.suppress
    /\ \A name \in Names \ names :
          (Has(s.lines, name) <=> Has(r.lines, name)) /\ Get(s.lines, name) = Get(r.lines, name)

LEMMA WithKeeps ==
    ASSUME NEW r, Shaped(r), NEW name \in Names, NEW value \in Values
    PROVE  /\ Keeps(r, With(r, name, value), {name})
           /\ Has(With(r, name, value).lines, name)
           /\ Get(With(r, name, value).lines, name) = Get(r.lines, name) \o value
<1> DEFINE w == With(r, name, value)
<1>1. r.lines \in Fields /\ value \in Seq(Elements)
  BY DEF Shaped, Values
<1>2. w = [status |-> r.status, lines |-> SetLine(r.lines, name, value), body |-> r.body, suppress |-> r.suppress]
  BY DEF With, Shaped
<1>3. /\ w.lines = SetLine(r.lines, name, value)
      /\ w.status = r.status /\ w.body = r.body /\ w.suppress = r.suppress
      /\ w = [status |-> w.status, lines |-> w.lines, body |-> w.body, suppress |-> w.suppress]
  BY <1>2
<1> HIDE DEF w
<1>4. /\ w.lines \in Fields /\ Has(w.lines, name) /\ Get(w.lines, name) = Get(r.lines, name) \o value
      /\ \A other : other # name =>
            (Has(w.lines, other) <=> Has(r.lines, other)) /\ Get(w.lines, other) = Get(r.lines, other)
  BY <1>1, <1>3, SetLineFacts
<1>5. Keeps(r, w, {name})
  BY <1>3, <1>4 DEF Keeps, Shaped
<1> QED
  BY <1>4, <1>5 DEF w

LEMMA KeepsItself ==
    ASSUME NEW r, Shaped(r), NEW names
    PROVE  Keeps(r, r, names)
BY DEF Keeps

LEMMA KeepsTransitive ==
    ASSUME NEW r, NEW s, NEW t, NEW A, NEW B, Keeps(r, s, A), Keeps(s, t, B)
    PROVE  Keeps(r, t, A \cup B)
BY DEF Keeps

LEMMA WithIfKeeps ==
    ASSUME NEW r, Shaped(r), NEW condition, NEW name \in Names, NEW value, condition => value \in Values
    PROVE  /\ Keeps(r, WithIf(condition, r, name, value), {name})
           /\ condition => Get(WithIf(condition, r, name, value).lines, name) = Get(r.lines, name) \o value
<1>1. CASE condition
  BY <1>1, WithKeeps DEF WithIf
<1>2. CASE ~condition
  BY <1>2, KeepsItself DEF WithIf
<1> QED
  BY <1>1, <1>2

LEMMA OneElement ==
    ASSUME NEW S, NEW e \in S
    PROVE  <<e>> \in Seq(S) /\ Len(<<e>>) = 1 /\ <<e>>[1] = e
OBVIOUS

LEMMA ValueTypes ==
    /\ <<>> \in Values
    /\ \A e \in Elements : <<e>> \in Values
    /\ \A e, f \in Elements : <<e, f>> \in Values
    /\ \A a, b, c \in Int : <<a, b, c>> \in Values
    /\ Seq(STRING) \subseteq Values
    /\ Int \subseteq Elements /\ STRING \subseteq Elements
<1>1. Int \subseteq Elements /\ STRING \subseteq Elements
  BY Zenon DEF Elements
<1>2. <<>> \in Values
  BY EmptySeq DEF Values
<1>3. \A e \in Elements : <<e>> \in Values
  BY OneElement DEF Values
<1>4. \A e, f \in Elements : <<e, f>> \in Values
  BY DEF Values
<1>5. \A a, b, c \in Int : <<a, b, c>> \in Values
  BY <1>1 DEF Values
<1>6. Seq(STRING) \subseteq Values
  BY <1>1, SeqMonotonic DEF Values
<1> QED
  BY <1>1, <1>2, <1>3, <1>4, <1>5, <1>6

(* A status, a body and a suppression are set without touching a field. *)
LEMMA FreshShape ==
    /\ Shaped(Fresh) /\ Fresh.body = NoBody /\ Fresh.status = "Ok" /\ ~Fresh.suppress
    /\ \A name \in Names \ {"x-request-id"} : ~Has(Fresh.lines, name) /\ Get(Fresh.lines, name) = <<>>
<1> DEFINE line == [name |-> "x-request-id", value |-> <<"id">>]
<1>1. line \in Line
  <2>1. "id" \in Elements /\ "x-request-id" \in Names
    BY Zenon DEF Elements, Names
  <2>2. <<"id">> \in Seq(Elements)
    BY <2>1, OneElement, Zenon
  <2>3. line = [name |-> "x-request-id", value |-> <<"id">>]
    OBVIOUS
  <2> QED
    BY <2>1, <2>2, <2>3, Zenon DEF Line
<1>2. Fresh.lines = <<line>> /\ <<line>> \in Seq(Line) /\ Len(<<line>>) = 1 /\ <<line>>[1] = line
  BY <1>1 DEF Fresh
<1>3. Fresh.lines \in Fields
  BY <1>2 DEF Fields, Unique
<1>4. ASSUME NEW name \in Names \ {"x-request-id"}
      PROVE  ~Has(Fresh.lines, name) /\ Get(Fresh.lines, name) = <<>>
  <2>1. \A i \in 1..Len(Fresh.lines) : Fresh.lines[i].name # name
    BY <1>2, <1>4
  <2> QED
    BY <1>3, <2>1, GetNone
<1>5. Shaped(Fresh) /\ Fresh.body = NoBody /\ Fresh.status = "Ok" /\ ~Fresh.suppress
  BY <1>3 DEF Shaped, Fresh
<1> QED
  BY <1>4, <1>5

LEMMA NewResponseShape ==
    /\ Shaped(NewResponse) /\ NewResponse.body = NoBody /\ NewResponse.status = "Ok"
    /\ NewResponse.suppress <=> req.method = "HEAD"
    /\ \A name \in Names \ {"x-request-id"} : ~Has(NewResponse.lines, name) /\ Get(NewResponse.lines, name) = <<>>
<1>1. NewResponse = [status |-> Fresh.status, lines |-> Fresh.lines, body |-> Fresh.body,
                     suppress |-> (req.method = "HEAD")]
  BY FreshShape DEF NewResponse, Shaped
<1>2. /\ NewResponse.status = Fresh.status /\ NewResponse.lines = Fresh.lines /\ NewResponse.body = Fresh.body
      /\ NewResponse.suppress = (req.method = "HEAD")
  BY <1>1
<1>3. Shaped(NewResponse)
  BY <1>1, <1>2, FreshShape DEF Shaped
<1> QED
  BY <1>2, <1>3, FreshShape

LEMMA StatusShape ==
    ASSUME NEW r, Shaped(r), NEW status
    PROVE  LET s == [r EXCEPT !.status = status] IN
           /\ Shaped(s) /\ s.status = status
           /\ s.lines = r.lines /\ s.body = r.body /\ s.suppress = r.suppress
BY DEF Shaped

LEMMA BodyShape ==
    ASSUME NEW r, Shaped(r), NEW body
    PROVE  LET s == [r EXCEPT !.body = body] IN
           /\ Shaped(s) /\ s.body = body
           /\ s.lines = r.lines /\ s.status = r.status /\ s.suppress = r.suppress
BY DEF Shaped

LEMMA KeepsMore ==
    ASSUME NEW r, NEW s, NEW A, NEW B, Keeps(r, s, A), A \cap Names \subseteq B
    PROVE  Keeps(r, s, B)
BY DEF Keeps

(* What handlers add or remove touches no reserved field; adding leaves no value empty. *)
Coding(r) == Get(r.lines, "transfer-encoding")
Announced(r) == Get(r.lines, "content-length")

LEMMA FramingNames ==
    /\ {"transfer-encoding", "content-length", "content-type", "accept-encoding", "accept-ranges",
        "content-range", "access-control-allow-origin"} \subseteq Names
    /\ "transfer-encoding" \notin Reserved
    /\ {"content-length", "accept-encoding", "accept-ranges", "access-control-allow-origin"} \subseteq Reserved
BY DEF Names, Reserved

LEMMA UserLineTypes ==
    ASSUME NEW l \in UserLines
    PROVE  l.name \in Names /\ l.value \in Values /\ l.value # <<>>
<1>1. l.name \in STRING /\ l.value \in Seq(STRING) /\ l.value # <<>>
  BY UserLinesAssumption
<1>2. l.name \in Names
  BY <1>1 DEF Names
<1> QED
  BY <1>1, <1>2, ValueTypes

(* A value that is added to does not become empty. *)
LEMMA ValueGrows ==
    ASSUME NEW old \in Values, NEW more \in Values, more # <<>>
    PROVE  old \o more # <<>>
<1>1. Len(old) \in Nat /\ Len(more) \in Nat /\ Len(more) # 0
  BY LenProperties, EmptySeq DEF Values
<1>2. Len(old \o more) = Len(old) + Len(more)
  BY ConcatProperties DEF Values
<1>3. Len(<<>>) = 0
  BY EmptySeq
<1> QED
  BY <1>1, <1>2, <1>3

LEMMA AddHeaderKeeps ==
    ASSUME NEW r, Shaped(r), NEW l \in UserLines
    PROVE  /\ Keeps(r, AddHeader(r, l.name, l.value), Names \ Reserved)
           /\ Coding(r) # <<>> => Coding(AddHeader(r, l.name, l.value)) # <<>>
<1>1. CASE l.name \in Reserved
  BY <1>1, KeepsItself DEF AddHeader
<1>2. CASE l.name \notin Reserved
  <2> DEFINE w == With(r, l.name, l.value)
  <2>1. Keeps(r, w, {l.name}) /\ Get(w.lines, l.name) = Get(r.lines, l.name) \o l.value
    BY UserLineTypes, WithKeeps
  <2>2. Keeps(r, w, Names \ Reserved)
    BY <1>2, <2>1, KeepsMore
  <2>3. l.name # "transfer-encoding" => Coding(w) = Coding(r)
    BY <2>1, FramingNames DEF Keeps, Coding
  <2>4. l.name = "transfer-encoding" => Coding(w) # <<>>
    <3>1. Coding(r) \in Values
      BY GetType DEF Coding, Values, Shaped
    <3> QED
      BY <2>1, <3>1, UserLineTypes, ValueGrows DEF Coding
  <2> QED
    BY <1>2, <2>2, <2>3, <2>4 DEF AddHeader
<1> QED
  BY <1>1, <1>2

LEMMA RemoveHeaderKeeps ==
    ASSUME NEW r, Shaped(r), NEW name \in Names
    PROVE  Keeps(r, RemoveHeader(r, name), Names \ Reserved)
<1>1. CASE name \in Reserved
  BY <1>1, KeepsItself DEF RemoveHeader
<1>2. CASE name \notin Reserved
  <2> DEFINE w == RemoveHeader(r, name)
  <2>1. w = [status |-> r.status, lines |-> RemoveLine(r.lines, name), body |-> r.body, suppress |-> r.suppress]
    BY <1>2 DEF RemoveHeader, Shaped
  <2>2. /\ w.lines = RemoveLine(r.lines, name)
        /\ w.status = r.status /\ w.body = r.body /\ w.suppress = r.suppress
        /\ w = [status |-> w.status, lines |-> w.lines, body |-> w.body, suppress |-> w.suppress]
    BY <2>1
  <2> HIDE DEF w
  <2>3. /\ w.lines \in Fields /\ Get(w.lines, name) = <<>>
        /\ \A other : other # name =>
              (Has(w.lines, other) <=> Has(r.lines, other)) /\ Get(w.lines, other) = Get(r.lines, other)
    BY <2>2, RemoveLineFacts DEF Shaped
  <2>4. Keeps(r, w, Names \ Reserved)
    BY <1>2, <2>2, <2>3 DEF Keeps, Shaped
  <2> QED
    BY <2>4 DEF w
<1> QED
  BY <1>1, <1>2

-----------------------------------------------------------------------------
(* Grants: what a response says about origins, and how CORS adds to it. *)

Origin(r) == Get(r.lines, "access-control-allow-origin")
Vary(r) == Get(r.lines, "vary")

GrantNames == {"access-control-allow-origin", "access-control-allow-credentials", "access-control-allow-methods"}
CorsNames == GrantNames \cup {"vary", "access-control-expose-headers", "access-control-allow-headers",
                              "access-control-max-age"}

LEMMA CorsNamesAreNames == CorsNames \subseteq Names
BY DEF CorsNames, GrantNames, Names

LEMMA GrantedKeeps ==
    ASSUME NEW r, Shaped(r), NEW c \in Configs, NEW origin \in Elements
    PROVE  /\ Keeps(r, Granted(c, r, origin), GrantNames)
           /\ Origin(Granted(c, r, origin)) = Origin(r) \o <<origin>>
<1> DEFINE named == With(r, "access-control-allow-origin", <<origin>>)
           trusted == WithIf(c.credentials, named, "access-control-allow-credentials", <<"true">>)
           granted == With(trusted, "access-control-allow-methods", c.methods)
<1>1. GrantNames \subseteq Names
  BY CorsNamesAreNames DEF CorsNames
<1>2. <<origin>> \in Values /\ c.methods \in Values /\ <<"true">> \in Values
  <2>1. "true" \in Elements
    BY Zenon DEF Elements
  <2> QED
    BY <2>1, ValueTypes, ConfigsAssumption
<1>3. Keeps(r, named, {"access-control-allow-origin"}) /\ Origin(named) = Origin(r) \o <<origin>>
  BY <1>1, <1>2, WithKeeps DEF GrantNames, Origin
<1> HIDE DEF named
<1>4. Keeps(named, trusted, {"access-control-allow-credentials"})
  <2>1. Shaped(named)
    BY <1>3 DEF Keeps
  <2> QED
    BY <1>1, <1>2, <2>1, WithIfKeeps DEF GrantNames
<1> HIDE DEF trusted
<1>5. Keeps(trusted, granted, {"access-control-allow-methods"})
  <2>1. Shaped(trusted)
    BY <1>4 DEF Keeps
  <2> QED
    BY <1>1, <1>2, <2>1, WithKeeps DEF GrantNames
<1> HIDE DEF granted
<1>6. Keeps(r, granted, ({"access-control-allow-origin"} \cup {"access-control-allow-credentials"})
                           \cup {"access-control-allow-methods"})
  BY <1>3, <1>4, <1>5, KeepsTransitive
<1>7. Keeps(r, granted, GrantNames)
  BY <1>6, KeepsMore DEF GrantNames
<1>8. Origin(granted) = Origin(named)
  BY <1>1, <1>4, <1>5 DEF Keeps, Origin, GrantNames
<1> QED
  BY <1>3, <1>7, <1>8 DEF granted, trusted, named, Granted

(* The origin that is granted. *)
TheOrigin(c) == CHOOSE o \in AllowOrigin(c) : TRUE

LEMMA OriginGranted ==
    ASSUME NEW c \in Configs, req \in Requests, AllowOrigin(c) # {}
    PROVE  /\ TheOrigin(c) \in Elements
           /\ TheOrigin(c) = "*" => c.origins = "any" /\ (c.credentials => req.origin = "none")
           /\ TheOrigin(c) # "*" => /\ TheOrigin(c) = req.origin
                                    /\ c.origins = "only" => req.origin = "listed"
                                    /\ VaryOrigin(c) = <<"Origin">>
<1>1. TheOrigin(c) \in AllowOrigin(c)
  BY DEF TheOrigin
<1>2. req.origin \in {"none", "listed", "other"}
  BY RequestsAssumption
<1>3. c.origins \in {"any", "only"}
  BY ConfigsAssumption
<1>4. {"*", "none", "listed", "other"} \subseteq Elements
  BY Zenon DEF Elements
<1>5. CASE c.origins = "any"
  BY <1>1, <1>2, <1>4, <1>5 DEF AllowOrigin, VaryOrigin
<1>6. CASE c.origins = "only"
  BY <1>1, <1>2, <1>4, <1>6 DEF AllowOrigin, VaryOrigin
<1> QED
  BY <1>3, <1>5, <1>6

LEMMA WithExposedKeeps ==
    ASSUME NEW r, Shaped(r), NEW c \in Configs
    PROVE  Keeps(r, WithExposed(c, r), {"access-control-expose-headers"})
<1>1. "x-exposed" \in Elements /\ "access-control-expose-headers" \in Names
  BY Zenon DEF Elements, Names
<1> QED
  BY <1>1, ValueTypes, WithIfKeeps DEF WithExposed

LEMMA WithVaryKeeps ==
    ASSUME NEW r, Shaped(r), NEW names \in Values
    PROVE  /\ Keeps(r, WithVary(r, names), {"vary"})
           /\ names # <<>> => Vary(WithVary(r, names)) = Vary(r) \o names
<1>1. "vary" \in Names
  BY DEF Names
<1>2. CASE names = <<>>
  BY <1>2, KeepsItself DEF WithVary, WithIf
<1>3. CASE names # <<>>
  BY <1>1, <1>3, WithKeeps DEF WithVary, WithIf, Vary
<1> QED
  BY <1>2, <1>3

LEMMA VaryOriginType ==
    ASSUME NEW c
    PROVE  VaryOrigin(c) \in Values /\ VaryOrigin(c) \in {<<>>, <<"Origin">>}
<1>1. "Origin" \in Elements
  BY Zenon DEF Elements
<1> QED
  BY <1>1, ValueTypes DEF VaryOrigin

(* A response of which the lookup of a grant finds nothing. *)
Grantless(r) == Origin(r) = <<>> /\ Vary(r) = <<>>

LEMMA CorsHeadersKeeps ==
    ASSUME NEW r, Shaped(r), Grantless(r), NEW c \in Configs, req \in Requests
    PROVE  /\ Keeps(r, CorsHeaders(c, r), CorsNames)
           /\ IF AllowOrigin(c) = {} THEN Grantless(CorsHeaders(c, r))
              ELSE /\ Origin(CorsHeaders(c, r)) = <<TheOrigin(c)>>
                   /\ VaryOrigin(c) = <<"Origin">> => Vary(CorsHeaders(c, r)) = <<"Origin">>
<1>1. CASE AllowOrigin(c) = {}
  BY <1>1, KeepsItself DEF CorsHeaders
<1>2. CASE AllowOrigin(c) # {}
  <2> DEFINE granted == Granted(c, r, TheOrigin(c))
             exposed == WithExposed(c, granted)
             varied == WithVary(exposed, VaryOrigin(c))
  <2>1. TheOrigin(c) \in Elements
    BY <1>2, OriginGranted
  <2>2. Keeps(r, granted, GrantNames) /\ Origin(granted) = Origin(r) \o <<TheOrigin(c)>>
    BY <2>1, GrantedKeeps
  <2> HIDE DEF granted
  <2>3. Keeps(granted, exposed, {"access-control-expose-headers"})
    BY <2>2, WithExposedKeeps DEF Keeps
  <2> HIDE DEF exposed
  <2>4. /\ Keeps(exposed, varied, {"vary"})
        /\ VaryOrigin(c) # <<>> => Vary(varied) = Vary(exposed) \o VaryOrigin(c)
    BY <2>3, VaryOriginType, WithVaryKeeps DEF Keeps
  <2> HIDE DEF varied
  <2>5. Keeps(r, varied, (GrantNames \cup {"access-control-expose-headers"}) \cup {"vary"})
    BY <2>2, <2>3, <2>4, KeepsTransitive
  <2>6. Keeps(r, varied, CorsNames)
    BY <2>5, KeepsMore DEF CorsNames
  <2>7. <<>> \o <<TheOrigin(c)>> = <<TheOrigin(c)>>
    BY <2>1, OneElement, ConcatEmptySeq
  <2>8. Origin(varied) = <<TheOrigin(c)>>
    <3>1. "access-control-allow-origin" \in Names
      BY FramingNames
    <3> QED
      BY <2>2, <2>3, <2>4, <2>7, <3>1 DEF Keeps, Origin, Grantless
  <2>9. Vary(exposed) = <<>>
    <3>1. "vary" \in Names /\ "vary" \notin GrantNames
      BY DEF Names, GrantNames
    <3> QED
      BY <2>2, <2>3, <3>1 DEF Keeps, Vary, Grantless
  <2>10. <<>> \o <<"Origin">> = <<"Origin">>
    BY VaryOriginType, ConcatEmptySeq, OneElement
  <2>11. VaryOrigin(c) = <<"Origin">> => Vary(varied) = <<"Origin">>
    BY <2>4, <2>9, <2>10
  <2>12. CorsHeaders(c, r) = varied
    BY <1>2 DEF CorsHeaders, varied, exposed, granted, TheOrigin
  <2> QED
    BY <1>2, <2>6, <2>8, <2>11, <2>12
<1> QED
  BY <1>1, <1>2

(* A preflight answers 204, and grants nothing to an origin or a method that is not allowed. *)
LEMMA PreflightKeeps ==
    ASSUME NEW c \in Configs, req \in Requests
    PROVE  /\ Keeps([NewResponse EXCEPT !.status = "NoContent"], PreflightResponse(c), CorsNames)
           /\ \/ Origin(PreflightResponse(c)) = <<>>
              \/ /\ Origin(PreflightResponse(c)) = <<TheOrigin(c)>>
                 /\ AllowOrigin(c) # {} /\ MethodAllowed(c)
                 /\ VaryOrigin(c) = <<"Origin">> => Contains(Vary(PreflightResponse(c)), "Origin")
<1> DEFINE none == [NewResponse EXCEPT !.status = "NoContent"]
<1>1. Shaped(none) /\ none.lines = NewResponse.lines
  BY NewResponseShape, StatusShape
<1>2. Origin(none) = <<>> /\ Vary(none) = <<>>
  <2>1. {"access-control-allow-origin", "vary"} \subseteq Names \ {"x-request-id"}
    BY DEF Names
  <2> QED
    BY <1>1, <2>1, NewResponseShape DEF Origin, Vary
<1> HIDE DEF none
<1>3. CASE AllowOrigin(c) = {} \/ ~MethodAllowed(c)
  <2>1. PreflightResponse(c) = none
    BY <1>3 DEF PreflightResponse, none
  <2> QED
    BY <1>1, <1>2, <2>1, KeepsItself DEF none
<1>4. CASE AllowOrigin(c) # {} /\ MethodAllowed(c)
  <2> DEFINE granted == Granted(c, none, TheOrigin(c))
             asked == AllowHeaders(c) # <<>>
             headers == WithIf(asked, granted, "access-control-allow-headers", AllowHeaders(c))
             aged == WithIf(c.maxAge, headers, "access-control-max-age", <<"age">>)
             vary == VaryOrigin(c) \o (IF asked THEN <<"Access-Control-Request-Headers">> ELSE <<>>)
             varied == WithVary(aged, vary)
             exposed == WithExposed(c, varied)
  <2>1. {"age", "x-listed", "Access-Control-Request-Headers", "Origin"} \subseteq Elements
    BY Zenon DEF Elements
  <2>2. {"access-control-allow-headers", "access-control-max-age"} \subseteq Names
    BY DEF Names
  <2>3. AllowHeaders(c) \in Values /\ <<"age">> \in Values
    BY <2>1, ValueTypes, RequestsAssumption DEF AllowHeaders
  <2>4. vary \in Values
    <3>1. VaryOrigin(c) \in Values
      BY VaryOriginType
    <3>2. (IF asked THEN <<"Access-Control-Request-Headers">> ELSE <<>>) \in Values
      BY <2>1, ValueTypes
    <3> QED
      BY <3>1, <3>2, ConcatProperties DEF Values
  <2>5. VaryOrigin(c) = <<"Origin">> => vary \in Values /\ Len(vary) \in Nat /\ 1 \in 1..Len(vary) /\ vary[1] = "Origin"
    <3>1. <<"Origin">> \in Values /\ Len(<<"Origin">>) = 1 /\ <<"Origin">>[1] = "Origin"
      BY <2>1, ValueTypes
    <3>2. (IF asked THEN <<"Access-Control-Request-Headers">> ELSE <<>>) \in Values
      BY <2>1, ValueTypes
    <3>3. ASSUME NEW more \in Values
          PROVE  LET v == <<"Origin">> \o more IN Len(v) \in Nat /\ 1 \in 1..Len(v) /\ v[1] = "Origin"
      BY <3>1, <3>3, ConcatProperties, LenProperties DEF Values
    <3> QED
      BY <2>4, <3>2, <3>3
  <2> HIDE DEF vary
  <2>6. Keeps(none, granted, GrantNames) /\ Origin(granted) = Origin(none) \o <<TheOrigin(c)>>
    BY <1>1, <1>4, OriginGranted, GrantedKeeps
  <2>7. TheOrigin(c) \in Elements
    BY <1>4, OriginGranted
  <2> HIDE DEF granted
  <2>8. Keeps(granted, headers, {"access-control-allow-headers"})
    <3>1. Shaped(granted)
      BY <2>6 DEF Keeps
    <3> QED
      BY <2>2, <2>3, <3>1, WithIfKeeps
  <2> HIDE DEF headers
  <2>9. Keeps(headers, aged, {"access-control-max-age"})
    <3>1. Shaped(headers)
      BY <2>8 DEF Keeps
    <3> QED
      BY <2>2, <2>3, <3>1, WithIfKeeps
  <2> HIDE DEF aged
  <2>10. Keeps(aged, varied, {"vary"}) /\ (vary # <<>> => Vary(varied) = Vary(aged) \o vary)
    BY <2>4, <2>9, WithVaryKeeps DEF Keeps
  <2> HIDE DEF varied
  <2>11. Keeps(varied, exposed, {"access-control-expose-headers"})
    BY <2>10, WithExposedKeeps DEF Keeps
  <2> HIDE DEF exposed
  <2>12. Keeps(none, exposed, (((GrantNames \cup {"access-control-allow-headers"}) \cup {"access-control-max-age"})
                                 \cup {"vary"}) \cup {"access-control-expose-headers"})
    BY <2>6, <2>8, <2>9, <2>10, <2>11, KeepsTransitive
  <2>13. Keeps(none, exposed, CorsNames)
    BY <2>12, KeepsMore DEF CorsNames
  <2>14. Origin(exposed) = <<TheOrigin(c)>>
    <3>1. "access-control-allow-origin" \in Names
      BY FramingNames
    <3>2. Origin(exposed) = Origin(granted)
      BY <2>8, <2>9, <2>10, <2>11, <3>1 DEF Keeps, Origin
    <3>3. <<>> \o <<TheOrigin(c)>> = <<TheOrigin(c)>>
      BY <2>7, OneElement, ConcatEmptySeq
    <3> QED
      BY <1>2, <2>6, <3>2, <3>3
  <2>15. Vary(exposed) = Vary(varied) /\ Vary(aged) = <<>>
    <3>1. "vary" \in Names /\ "vary" \notin GrantNames
      BY DEF Names, GrantNames
    <3> QED
      BY <1>2, <2>6, <2>8, <2>9, <2>11, <3>1 DEF Keeps, Vary
  <2>16. VaryOrigin(c) = <<"Origin">> => Contains(Vary(exposed), "Origin")
    <3>1. ASSUME VaryOrigin(c) = <<"Origin">>
          PROVE  Vary(exposed) = vary
      <4>1. vary # <<>>
        BY <2>5, <3>1
      <4>2. <<>> \o vary = vary
        BY <2>4, ConcatEmptySeq DEF Values
      <4> QED
        BY <2>10, <2>15, <4>1, <4>2
    <3> QED
      BY <2>5, <3>1 DEF Contains
  <2>17. PreflightResponse(c) = exposed
    BY <1>4 DEF PreflightResponse, exposed, varied, aged, headers, granted, vary, none, TheOrigin
  <2> QED
    BY <1>4, <2>13, <2>14, <2>16, <2>17 DEF none
<1> QED
  BY <1>3, <1>4

-----------------------------------------------------------------------------
(* Framing: what the fields of a response say about its body. *)

FramedBytes(r) == \E n \in Nat : r.body = BytesBody(n) /\ Announced(r) = <<n>>

FramedStream(r) ==
    \E d, n \in Nat, fails \in BOOLEAN :
        /\ r.body = StreamBody(d, n, fails)
        /\ IF d = 0 THEN Announced(r) = <<0>> /\ Coding(r) # <<>> ELSE Announced(r) = <<d, d>>

Framed(r) ==
    \/ r.body = NoBody /\ ~Has(r.lines, "content-length")
    \/ FramedBytes(r)
    \/ FramedStream(r)

(* A response that is or will be sent; bodies are suppressed for HEAD alone. *)
Sound(r) ==
    /\ Shaped(r) /\ Framed(r)
    /\ r.suppress => req.method = "HEAD"
    /\ req.method = "HEAD" => r.suppress \/ r.body = NoBody

(* A handler's response, which has neither a grant nor an accept-encoding. *)
Handled(r) ==
    /\ Sound(r) /\ (r.suppress <=> req.method = "HEAD")
    /\ Get(r.lines, "accept-encoding") = <<>> /\ Origin(r) = <<>>

LEMMA NewHandled == Handled(NewResponse) /\ NewResponse.body = NoBody
<1>1. {"content-length", "accept-encoding", "access-control-allow-origin"} \subseteq Names \ {"x-request-id"}
  BY DEF Names
<1>2. /\ Get(NewResponse.lines, "accept-encoding") = <<>>
      /\ Origin(NewResponse) = <<>> /\ ~Has(NewResponse.lines, "content-length")
  BY <1>1, NewResponseShape DEF Origin
<1>4. Framed(NewResponse)
  BY <1>2, NewResponseShape DEF Framed
<1> QED
  BY <1>2, <1>4, NewResponseShape DEF Handled, Sound

(* The framing of a body does not depend on other fields, nor on what the coding is. *)
LEMMA FramedKept ==
    ASSUME NEW r, NEW s, Framed(r), s.body = r.body, Announced(s) = Announced(r),
           Has(s.lines, "content-length") <=> Has(r.lines, "content-length"),
           Coding(r) # <<>> => Coding(s) # <<>>
    PROVE  Framed(s)
<1>1. FramedBytes(r) => FramedBytes(s)
  BY DEF FramedBytes
<1>2. FramedStream(r) => FramedStream(s)
  BY DEF FramedStream
<1> QED
  BY <1>1, <1>2 DEF Framed

LEMMA AddHeaderHandled ==
    ASSUME NEW r, Handled(r), NEW l \in UserLines
    PROVE  Handled(AddHeader(r, l.name, l.value)) /\ AddHeader(r, l.name, l.value).body = r.body
<1> DEFINE s == AddHeader(r, l.name, l.value)
<1>1. Keeps(r, s, Names \ Reserved) /\ (Coding(r) # <<>> => Coding(s) # <<>>)
  BY AddHeaderKeeps DEF Handled, Sound
<1> HIDE DEF s
<1>2. {"content-length", "accept-encoding", "access-control-allow-origin"} \subseteq Names \ (Names \ Reserved)
  BY FramingNames
<1>3. /\ Shaped(s) /\ s.body = r.body /\ s.suppress = r.suppress
      /\ Announced(s) = Announced(r) /\ (Has(s.lines, "content-length") <=> Has(r.lines, "content-length"))
      /\ Get(s.lines, "accept-encoding") = Get(r.lines, "accept-encoding") /\ Origin(s) = Origin(r)
  BY <1>1, <1>2 DEF Keeps, Announced, Origin
<1>4. Framed(s)
  BY <1>1, <1>3, FramedKept DEF Handled, Sound
<1>5. Handled(s)
  BY <1>3, <1>4 DEF Handled, Sound
<1> QED
  BY <1>3, <1>5 DEF s

LEMMA RemoveHeaderHandled ==
    ASSUME NEW r, Handled(r), r.body = NoBody, NEW l \in UserLines
    PROVE  Handled(RemoveHeader(r, l.name)) /\ RemoveHeader(r, l.name).body = NoBody
<1> DEFINE s == RemoveHeader(r, l.name)
<1>1. Keeps(r, s, Names \ Reserved)
  BY UserLineTypes, RemoveHeaderKeeps DEF Handled, Sound
<1> HIDE DEF s
<1>2. {"content-length", "accept-encoding", "access-control-allow-origin"} \subseteq Names \ (Names \ Reserved)
  BY FramingNames
<1>3. /\ Shaped(s) /\ s.body = r.body /\ s.suppress = r.suppress
      /\ Has(s.lines, "content-length") <=> Has(r.lines, "content-length")
      /\ Get(s.lines, "accept-encoding") = Get(r.lines, "accept-encoding") /\ Origin(s) = Origin(r)
  BY <1>1, <1>2 DEF Keeps, Origin
<1>5. r.body # BytesBody(0) /\ \A n \in Nat : r.body # BytesBody(n)
  BY DEF NoBody, BytesBody
<1>6. \A d, n \in Nat, fails \in BOOLEAN : r.body # StreamBody(d, n, fails)
  BY DEF NoBody, StreamBody
<1>7. ~Has(r.lines, "content-length")
  BY <1>5, <1>6 DEF Handled, Sound, Framed, FramedBytes, FramedStream
<1>8. Framed(s)
  BY <1>3, <1>7 DEF Framed
<1>9. Handled(s)
  BY <1>3, <1>8 DEF Handled, Sound
<1> QED
  BY <1>3, <1>9 DEF s

LEMMA StatusHandled ==
    ASSUME NEW r, Handled(r), NEW status
    PROVE  Handled([r EXCEPT !.status = status]) /\ [r EXCEPT !.status = status].body = r.body
<1> DEFINE s == [r EXCEPT !.status = status]
<1>1. Shaped(s) /\ s.lines = r.lines /\ s.body = r.body /\ s.suppress = r.suppress
  BY StatusShape DEF Handled, Sound
<1> HIDE DEF s
<1>2. Handled(s)
  BY <1>1 DEF Handled, Sound, Framed, FramedBytes, FramedStream, Coding, Announced, Origin
<1> QED
  BY <1>1, <1>2 DEF s

(* Nothing asks a response to be compressed. *)
LEMMA CompressedHandled ==
    ASSUME NEW r, Handled(r), NEW n
    PROVE  Compressed(r, n) = r
BY DEF Handled, Encodings, Compressed

BodyNames == {"content-type", "content-length", "transfer-encoding"}

LEMMA BodyNamesAreNames == BodyNames \subseteq Names
BY DEF BodyNames, Names

LEMMA SameTwice ==
    ASSUME NEW S, NEW e \in S
    PROVE  <<e>> \o <<e>> = <<e, e>>
<1>1. <<e>> \in Seq(S) /\ Len(<<e>>) = 1 /\ <<e>>[1] = e
  BY OneElement
<1>2. <<e, e>> \in Seq(S) /\ Len(<<e, e>>) = 2 /\ <<e, e>>[1] = e /\ <<e, e>>[2] = e
  OBVIOUS
<1>3. /\ <<e>> \o <<e>> \in Seq(S) /\ Len(<<e>> \o <<e>>) = 2
      /\ \A i \in 1..2 : (<<e>> \o <<e>>)[i] = e
  BY <1>1, ConcatProperties
<1> DEFINE s == <<e>> \o <<e>>
           t == <<e, e>>
<1>4. \A i \in 1..Len(s) : s[i] = t[i]
  BY <1>2, <1>3
<1> HIDE DEF s, t
<1>5. s = t
  BY <1>2, <1>3, <1>4, SeqEqual DEF s, t
<1> QED
  BY <1>5 DEF s, t

(* A response that has no length yet. *)
Open(r) == Shaped(r) /\ ~Has(r.lines, "content-length")

LEMMA HandledOpen ==
    ASSUME NEW r, Handled(r), r.body = NoBody
    PROVE  Open(r)
<1>1. \A n \in Nat : r.body # BytesBody(n)
  BY DEF NoBody, BytesBody
<1>2. \A d, n \in Nat, fails \in BOOLEAN : r.body # StreamBody(d, n, fails)
  BY DEF NoBody, StreamBody
<1> QED
  BY <1>1, <1>2 DEF Handled, Sound, Framed, FramedBytes, FramedStream, Open

LEMMA NothingBefore ==
    ASSUME NEW value \in Values
    PROVE  <<>> \o value = value
BY ConcatEmptySeq DEF Values

(* s has another body than r, and differs from it in the fields of a body only. *)
Fills(r, s, body) ==
    /\ Shaped(s) /\ s.body = body /\ s.status = r.status /\ s.suppress = r.suppress
    /\ \A name \in Names \ BodyNames :
          (Has(s.lines, name) <=> Has(r.lines, name)) /\ Get(s.lines, name) = Get(r.lines, name)

LEMMA KeepsThenFills ==
    ASSUME NEW r, NEW t, NEW names, Keeps(r, t, names), names \subseteq BodyNames, NEW body
    PROVE  LET s == [t EXCEPT !.body = body] IN
           Fills(r, s, body) /\ Coding(s) = Coding(t) /\ Announced(s) = Announced(t)
<1> DEFINE s == [t EXCEPT !.body = body]
<1>1. Shaped(t)
  BY DEF Keeps
<1>2. Shaped(s) /\ s.body = body /\ s.lines = t.lines /\ s.status = t.status /\ s.suppress = t.suppress
  BY <1>1, BodyShape
<1> HIDE DEF s
<1>3. Fills(r, s, body) /\ Coding(s) = Coding(t) /\ Announced(s) = Announced(t)
  BY <1>2 DEF Fills, Keeps, Coding, Announced
<1> QED
  BY <1>3 DEF s

LEMMA WithBytesFills ==
    ASSUME NEW r, Open(r), NEW n \in Nat, NEW type \in Types
    PROVE  Fills(r, WithBytes(r, n, type), BytesBody(n)) /\ Framed(WithBytes(r, n, type))
<1> DEFINE typed == With(r, "content-type", <<type>>)
           sized == With(typed, "content-length", <<n>>)
           s == [sized EXCEPT !.body = BytesBody(n)]
<1>1. <<type>> \in Values /\ <<n>> \in Values
  <2>1. type \in Elements
    BY TypesAssumption, Zenon DEF Elements
  <2>2. n \in Elements
    BY ValueTypes
  <2> QED
    BY <2>1, <2>2, ValueTypes
<1>2. Keeps(r, typed, {"content-type"})
  BY <1>1, BodyNamesAreNames, WithKeeps DEF Open, BodyNames
<1> HIDE DEF typed
<1>3. Keeps(typed, sized, {"content-length"}) /\ Announced(sized) = Announced(typed) \o <<n>>
  <2>1. Shaped(typed)
    BY <1>2 DEF Keeps
  <2> QED
    BY <1>1, <2>1, BodyNamesAreNames, WithKeeps DEF Announced, BodyNames
<1> HIDE DEF sized
<1>4. Announced(typed) = <<>>
  BY <1>2, BodyNamesAreNames DEF Keeps, BodyNames, Announced, Open, Get
<1>6. Keeps(r, sized, {"content-type"} \cup {"content-length"})
  BY <1>2, <1>3, KeepsTransitive
<1>7. Fills(r, s, BytesBody(n)) /\ Coding(s) = Coding(sized) /\ Announced(s) = Announced(sized)
  BY <1>6, KeepsThenFills DEF BodyNames
<1> HIDE DEF s
<1>8. Announced(s) = <<n>>
  BY <1>1, <1>3, <1>4, <1>7, NothingBefore
<1>9. Framed(s)
  BY <1>7, <1>8 DEF Framed, FramedBytes, Fills
<1> QED
  BY <1>7, <1>9 DEF s, sized, typed, WithBytes

LEMMA WithStreamFills ==
    ASSUME NEW r, Open(r), NEW d \in Nat, NEW n \in Nat, NEW fails \in BOOLEAN, NEW type \in Types
    PROVE  LET s == WithStream(r, StreamBody(d, n, fails), type) IN
           /\ Fills(r, s, StreamBody(d, n, fails)) /\ Framed(s)
           /\ Announced(s) = IF d = 0 THEN <<0>> ELSE <<d, d>>
<1> DEFINE typed == With(r, "content-type", <<type>>)
           once == IF d = 0 THEN With(typed, "transfer-encoding", <<"chunked">>)
                            ELSE With(typed, "content-length", <<d>>)
           sized == With(once, "content-length", <<d>>)
           s == [sized EXCEPT !.body = StreamBody(d, n, fails)]
<1>1. <<type>> \in Values /\ <<d>> \in Values /\ <<"chunked">> \in Values
  <2>1. "chunked" \in Elements
    BY Zenon DEF Elements
  <2> QED
    BY <2>1, ValueTypes, TypesAssumption
<1>2. Keeps(r, typed, {"content-type"})
  BY <1>1, BodyNamesAreNames, WithKeeps DEF Open, BodyNames
<1> HIDE DEF typed
<1>3. Shaped(typed) /\ Announced(typed) = <<>> /\ Coding(typed) = Coding(r)
  BY <1>2, BodyNamesAreNames DEF Keeps, BodyNames, Announced, Coding, Open, Get
<1>4. /\ Keeps(typed, once, {"content-length", "transfer-encoding"})
      /\ d = 0 => Announced(once) = <<>> /\ Coding(once) = Coding(r) \o <<"chunked">>
      /\ d # 0 => Announced(once) = <<d>> /\ Coding(once) = Coding(r)
  <2>1. CASE d = 0
    <3>1. /\ Keeps(typed, once, {"transfer-encoding"})
          /\ Coding(once) = Coding(typed) \o <<"chunked">>
      BY <1>1, <1>3, <2>1, BodyNamesAreNames, WithKeeps DEF Coding, BodyNames
    <3> HIDE DEF once
    <3>2. Announced(once) = Announced(typed)
      BY <3>1, BodyNamesAreNames DEF Keeps, Announced, BodyNames
    <3>3. Keeps(typed, once, {"content-length", "transfer-encoding"})
      BY <3>1, KeepsMore
    <3> QED
      BY <1>3, <2>1, <3>1, <3>2, <3>3
  <2>2. CASE d # 0
    <3>1. /\ Keeps(typed, once, {"content-length"})
          /\ Announced(once) = Announced(typed) \o <<d>>
      BY <1>1, <1>3, <2>2, BodyNamesAreNames, WithKeeps DEF Announced, BodyNames
    <3> HIDE DEF once
    <3>2. Coding(once) = Coding(typed)
      BY <3>1, BodyNamesAreNames DEF Keeps, Coding, BodyNames
    <3>3. Keeps(typed, once, {"content-length", "transfer-encoding"})
      BY <3>1, KeepsMore
    <3> QED
      BY <1>1, <1>3, <2>2, <3>1, <3>2, <3>3, NothingBefore
  <2> QED
    BY <2>1, <2>2
<1> HIDE DEF once
<1>5. Keeps(once, sized, {"content-length"}) /\ Announced(sized) = Announced(once) \o <<d>>
  <2>1. Shaped(once)
    BY <1>4 DEF Keeps
  <2> QED
    BY <1>1, <2>1, BodyNamesAreNames, WithKeeps DEF Announced, BodyNames
<1> HIDE DEF sized
<1>6. Coding(sized) = Coding(once)
  BY <1>5, BodyNamesAreNames DEF Keeps, BodyNames, Coding
<1>7. Announced(sized) = IF d = 0 THEN <<0>> ELSE <<d, d>>
  <2>1. <<d>> \o <<d>> = <<d, d>>
    BY SameTwice
  <2>2. CASE d = 0
    BY <1>1, <1>4, <1>5, <2>2, NothingBefore
  <2>3. CASE d # 0
    BY <1>4, <1>5, <2>1, <2>3
  <2> QED
    BY <2>2, <2>3
<1>8. Keeps(r, sized, ({"content-type"} \cup {"content-length", "transfer-encoding"}) \cup {"content-length"})
  BY <1>2, <1>4, <1>5, KeepsTransitive
<1>9. Fills(r, s, StreamBody(d, n, fails)) /\ Coding(s) = Coding(sized) /\ Announced(s) = Announced(sized)
  BY <1>8, KeepsThenFills DEF BodyNames
<1> HIDE DEF s
<1>10. d = 0 => Coding(s) # <<>>
  <2>1. Coding(r) \in Values
    BY GetType DEF Coding, Values, Open, Shaped
  <2>2. <<"chunked">> # <<>>
    OBVIOUS
  <2> QED
    BY <1>1, <1>4, <1>6, <1>9, <2>1, <2>2, ValueGrows
<1>11. Framed(s)
  BY <1>7, <1>9, <1>10 DEF Framed, FramedStream, Fills
<1>12. s = WithStream(r, StreamBody(d, n, fails), type)
  BY DEF s, sized, once, typed, WithStream, StreamBody
<1> QED
  BY <1>7, <1>9, <1>11, <1>12

-----------------------------------------------------------------------------
(* The responses that the crate builds itself. *)

LEMMA SoundKeeps ==
    ASSUME NEW r, NEW s, NEW names, Sound(r), Keeps(r, s, names),
           {"transfer-encoding", "content-length"} \cap names = {}
    PROVE  Sound(s)
<1>1. {"transfer-encoding", "content-length"} \subseteq Names \ names
  BY FramingNames
<1>2. /\ Coding(s) = Coding(r) /\ Announced(s) = Announced(r)
      /\ Has(s.lines, "content-length") <=> Has(r.lines, "content-length")
  BY <1>1 DEF Keeps, Coding, Announced
<1>3. Framed(s)
  BY <1>2, FramedKept DEF Sound, Keeps
<1> QED
  BY <1>3 DEF Sound, Keeps

LEMMA SoundStatus ==
    ASSUME NEW r, Sound(r), NEW status
    PROVE  LET s == [r EXCEPT !.status = status] IN
           Sound(s) /\ s.status = status /\ s.lines = r.lines /\ s.body = r.body
<1> DEFINE s == [r EXCEPT !.status = status]
<1>1. Shaped(s) /\ s.status = status /\ s.lines = r.lines /\ s.body = r.body /\ s.suppress = r.suppress
  BY StatusShape DEF Sound
<1> HIDE DEF s
<1>2. Sound(s)
  BY <1>1 DEF Sound, Framed, FramedBytes, FramedStream, Coding, Announced
<1> QED
  BY <1>1, <1>2 DEF s

LEMMA PreflightSound ==
    ASSUME NEW c \in Configs, req \in Requests
    PROVE  Sound(PreflightResponse(c)) /\ PreflightResponse(c).status = "NoContent"
<1> DEFINE none == [NewResponse EXCEPT !.status = "NoContent"]
<1>1. Sound(none) /\ none.status = "NoContent" /\ none.lines = NewResponse.lines
  BY NewHandled, SoundStatus DEF Handled
<1>2. Keeps(none, PreflightResponse(c), CorsNames)
  BY PreflightKeeps
<1> HIDE DEF none
<1>3. {"transfer-encoding", "content-length"} \cap CorsNames = {}
  BY DEF CorsNames, GrantNames
<1>4. Sound(PreflightResponse(c))
  BY <1>1, <1>2, <1>3, SoundKeeps
<1> QED
  BY <1>1, <1>2, <1>4 DEF Keeps

LEMMA FreshSound == Sound(Fresh) /\ Grantless(Fresh)
<1>1. {"content-length", "vary", "access-control-allow-origin"} \subseteq Names \ {"x-request-id"}
  BY DEF Names
<1>2. ~Has(Fresh.lines, "content-length") /\ Grantless(Fresh)
  BY <1>1, FreshShape DEF Grantless, Origin, Vary
<1>4. Framed(Fresh)
  BY <1>2, FreshShape DEF Framed
<1> QED
  BY <1>2, <1>4, FreshShape DEF Sound

(* The base of a refusal: CORS fields where a configuration has them. *)
RefusalBase == IF cors = {} THEN Fresh ELSE CorsHeaders(CHOOSE c \in cors : TRUE, Fresh)

LEMMA RefusalSound ==
    ASSUME req \in Requests, cors = {} \/ \E c \in Configs : cors = {c}
    PROVE  /\ Sound(RefusalBase)
           /\ \/ Origin(RefusalBase) = <<>>
              \/ \E c \in cors : /\ c \in Configs /\ AllowOrigin(c) # {}
                                 /\ Origin(RefusalBase) = <<TheOrigin(c)>>
                                 /\ VaryOrigin(c) = <<"Origin">> => Vary(RefusalBase) = <<"Origin">>
<1>1. CASE cors = {}
  BY <1>1, FreshSound DEF RefusalBase, Grantless
<1>2. CASE cors # {}
  <2>1. PICK c \in Configs : cors = {c}
    BY <1>2
  <2>2. RefusalBase = CorsHeaders(c, Fresh)
    BY <2>1 DEF RefusalBase
  <2>3. /\ Keeps(Fresh, CorsHeaders(c, Fresh), CorsNames)
        /\ IF AllowOrigin(c) = {} THEN Grantless(CorsHeaders(c, Fresh))
           ELSE /\ Origin(CorsHeaders(c, Fresh)) = <<TheOrigin(c)>>
                /\ VaryOrigin(c) = <<"Origin">> => Vary(CorsHeaders(c, Fresh)) = <<"Origin">>
    BY FreshShape, FreshSound, CorsHeadersKeeps
  <2>4. {"transfer-encoding", "content-length"} \cap CorsNames = {}
    BY DEF CorsNames, GrantNames
  <2>5. Sound(RefusalBase)
    BY <2>2, <2>3, <2>4, FreshSound, SoundKeeps
  <2> QED
    BY <2>1, <2>2, <2>3, <2>5 DEF Grantless
<1> QED
  BY <1>1, <1>2

(* The 405 differs from the 404 by a field. *)
LEMMA AllowKeeps ==
    ASSUME NEW r, Sound(r)
    PROVE  LET s == AddHeader(r, "allow", <<"GET", "HEAD">>) IN
           /\ Sound(s) /\ s.status = r.status
           /\ Origin(s) = Origin(r) /\ Vary(s) = Vary(r)
<1> DEFINE s == AddHeader(r, "allow", <<"GET", "HEAD">>)
<1>1. <<"GET", "HEAD">> \in Values
  <2>1. "GET" \in Elements /\ "HEAD" \in Elements
    BY Zenon DEF Elements
  <2> QED
    BY <2>1, ValueTypes
<1>2. "allow" \in Names /\ {"access-control-allow-origin", "vary"} \subseteq Names \ {"allow"}
  BY DEF Names
<1>3. s = With(r, "allow", <<"GET", "HEAD">>)
  BY DEF AddHeader, Reserved
<1>4. Keeps(r, s, {"allow"})
  BY <1>1, <1>2, <1>3, WithKeeps DEF Sound
<1> HIDE DEF s
<1>5. Sound(s)
  BY <1>4, SoundKeeps
<1> QED
  BY <1>2, <1>4, <1>5 DEF Keeps, Origin, Vary, s

LEMMA FillsSound ==
    ASSUME NEW r, Sound(r), NEW s, NEW body, Fills(r, s, body), Framed(s), r.suppress <=> req.method = "HEAD"
    PROVE  Sound(s)
BY DEF Sound, Fills

LEMMA WholeSound ==
    ASSUME NEW len \in Nat, NEW now \in Nat, NEW fails \in BOOLEAN, NEW type \in Types
    PROVE  LET s == Whole(len, now, fails, type) IN
           /\ Sound(s) /\ s.status = "Ok" /\ Origin(s) = <<>>
<1> DEFINE s == Whole(len, now, fails, type)
<1>1. AddHeader(NewResponse, "accept-ranges", <<"bytes">>) = NewResponse
  BY FramingNames DEF AddHeader
<1>2. Sound(NewResponse) /\ Open(NewResponse)
  BY NewHandled, HandledOpen DEF Handled
<1>3. Fills(NewResponse, s, StreamBody(len, now, fails)) /\ Framed(s)
  BY <1>1, <1>2, WithStreamFills DEF Whole
<1> HIDE DEF s
<1>4. Sound(s)
  BY <1>2, <1>3, FillsSound, NewResponseShape
<1>5. "access-control-allow-origin" \in Names \ BodyNames
  BY DEF Names, BodyNames
<1>6. "access-control-allow-origin" \in Names \ {"x-request-id"}
  BY DEF Names
<1> QED
  BY <1>3, <1>4, <1>5, <1>6, NewResponseShape DEF Fills, Origin, s

LEMMA PartialSound ==
    ASSUME req \in Requests, NEW range \in req.range, NEW len \in Nat, NEW now \in Nat, Satisfiable(range, len),
           NEW fails \in BOOLEAN, NEW type \in Types
    PROVE  LET s == Partial(range, len, now, fails, type)
               n == Final(range, len) - First(range) + 1
           IN  /\ Sound(s) /\ s.status = "PartialContent" /\ Origin(s) = <<>>
               /\ Get(s.lines, "content-range") = <<First(range), Final(range, len), len>>
               /\ Announced(s) = <<n, n>>
               /\ s.body.len \in Nat /\ s.body.len <= n
<1> DEFINE a == First(range)
           f == Final(range, len)
           n == f - a + 1
           left == IF now <= a THEN 0 ELSE now - a
           taken == IF left < n THEN left ELSE n
           new == [NewResponse EXCEPT !.status = "PartialContent"]
           placed == With(new, "content-range", <<a, f, len>>)
           ranged == With(placed, "accept-ranges", <<"bytes">>)
           s == WithStream(ranged, StreamBody(n, taken, fails), type)
<1>1. a \in Nat /\ f \in Nat /\ a <= f /\ f < len
  <2>1. {range.start, range.end} \subseteq {-1} \cup Nat
    BY RequestsAssumption
  <2> QED
    BY <2>1 DEF First, Final, Unparsed, Satisfiable
<1>2. n \in Nat /\ n # 0 /\ taken \in Nat /\ taken <= n
  BY <1>1
<1>3. <<a, f, len>> \in Values /\ <<"bytes">> \in Values
  <2>1. "bytes" \in Elements
    BY Zenon DEF Elements
  <2>2. a \in Int /\ f \in Int /\ len \in Int
    BY <1>1
  <2> QED
    BY <2>1, <2>2, ValueTypes
<1> HIDE DEF a, f, n, taken
<1>4. Sound(NewResponse) /\ Open(NewResponse)
  BY NewHandled, HandledOpen DEF Handled
<1>5. Sound(new) /\ new.status = "PartialContent" /\ new.lines = NewResponse.lines /\ new.suppress = NewResponse.suppress
  BY <1>4, SoundStatus, StatusShape DEF Sound
<1> HIDE DEF new
<1>6. {"content-range", "accept-ranges", "content-length", "transfer-encoding", "access-control-allow-origin"}
         \subseteq Names \ {"x-request-id"}
  BY DEF Names
<1>7. /\ Keeps(new, placed, {"content-range"})
      /\ Get(placed.lines, "content-range") = Get(new.lines, "content-range") \o <<a, f, len>>
  <2>1. Shaped(new) /\ "content-range" \in Names
    BY <1>5, <1>6 DEF Sound
  <2> QED
    BY <1>3, <2>1, WithKeeps
<1> HIDE DEF placed
<1>8. Keeps(placed, ranged, {"accept-ranges"})
  BY <1>3, <1>6, <1>7, WithKeeps DEF Keeps
<1> HIDE DEF ranged
<1>9. Get(new.lines, "content-range") = <<>> /\ Origin(new) = <<>>
  BY <1>5, <1>6, NewResponseShape DEF Origin
<1>10. Get(ranged.lines, "content-range") = <<a, f, len>>
  <2>1. Get(ranged.lines, "content-range") = Get(placed.lines, "content-range")
    BY <1>6, <1>8 DEF Keeps
  <2> QED
    BY <1>3, <1>7, <1>9, <2>1, NothingBefore
<1>11. Keeps(new, ranged, {"content-range"} \cup {"accept-ranges"})
  BY <1>7, <1>8, KeepsTransitive
<1>12. Sound(ranged) /\ Origin(ranged) = <<>>
  <2>1. {"transfer-encoding", "content-length"} \cap ({"content-range"} \cup {"accept-ranges"}) = {}
    OBVIOUS
  <2>2. Sound(ranged)
    BY <1>5, <1>11, <2>1, SoundKeeps
  <2> QED
    BY <1>6, <1>9, <1>11, <2>2 DEF Keeps, Origin
<1>13. Open(ranged)
  <2>1. ~Has(new.lines, "content-length")
    BY <1>4, <1>5 DEF Open
  <2> QED
    BY <1>6, <1>11, <2>1 DEF Keeps, Open
<1>14. Fills(ranged, s, StreamBody(n, taken, fails)) /\ Framed(s) /\ Announced(s) = <<n, n>>
  BY <1>2, <1>13, WithStreamFills
<1> HIDE DEF s
<1>15. Sound(s)
  BY <1>5, <1>11, <1>12, <1>14, FillsSound, NewResponseShape DEF Keeps
<1>16. {"content-range", "access-control-allow-origin"} \subseteq Names \ BodyNames
  BY DEF Names, BodyNames
<1>17. /\ s.status = "PartialContent" /\ Origin(s) = <<>>
       /\ Get(s.lines, "content-range") = <<a, f, len>>
  BY <1>5, <1>10, <1>11, <1>12, <1>14, <1>16 DEF Fills, Keeps, Origin
<1>18. s.body.len = taken
  BY <1>14 DEF Fills, StreamBody
<1>19. s = Partial(range, len, now, fails, type)
  BY DEF s, ranged, placed, new, taken, n, f, a, Partial
<1> QED
  BY <1>2, <1>14, <1>15, <1>17, <1>18, <1>19 DEF n, a, f

-----------------------------------------------------------------------------
(* What a client finds. *)

LEMMA CopiesLength ==
    ASSUME NEW token, NEW n \in Nat
    PROVE  /\ Copies(token, n) \in Seq({token}) /\ Len(Copies(token, n)) = n
           /\ \A i \in 1..n : Copies(token, n)[i] = token
<1>1. Copies(token, n) \in [1..n -> {token}] /\ \A i \in 1..n : Copies(token, n)[i] = token
  BY DEF Copies
<1> QED
  BY <1>1

(* The value that a client reads of a name, where the response has a line of it. *)
LEMMA HeadFieldFound ==
    ASSUME NEW r, Shaped(r), NEW name, name \notin {"date", "connection", "keep-alive"},
           name = "content-length" => Injected(r) = {}
    PROVE  HeadField(r, name) = Get(r.lines, name)
<1> DEFINE found == {l \in HeadLines(r) : l.name = name}
<1>1. r.lines \in Fields /\ r.lines \in Seq(Line) /\ DOMAIN r.lines = 1..Len(r.lines)
  BY LenProperties DEF Shaped, Fields
<1>2. \A l \in Injected(r) : l.name = "content-length"
  BY DEF Injected
<1>3. found = {l \in Range(r.lines) : l.name = name}
  BY <1>2 DEF HeadLines
<1>4. CASE \E i \in 1..Len(r.lines) : r.lines[i].name = name
  <2>1. PICK i \in 1..Len(r.lines) : r.lines[i].name = name
    BY <1>4
  <2>2. Get(r.lines, name) = r.lines[i].value
    BY <1>1, <2>1, GetLine
  <2>3. found = {r.lines[i]}
    BY <1>1, <1>3, <2>1 DEF Range, Fields, Unique
  <2>4. (CHOOSE l \in found : TRUE) = r.lines[i]
    BY <2>3
  <2> QED
    BY <2>2, <2>3, <2>4 DEF HeadField
<1>5. CASE \A i \in 1..Len(r.lines) : r.lines[i].name # name
  <2>1. found = {}
    BY <1>1, <1>3, <1>5 DEF Range
  <2>2. Get(r.lines, name) = <<>>
    BY <1>1, <1>5, GetNone
  <2> QED
    BY <2>1, <2>2 DEF HeadField
<1> QED
  BY <1>4, <1>5

(* Without a body a length of zero is announced for it. *)
LEMMA HeadFieldInjected ==
    ASSUME NEW r, Shaped(r), ~Forbids(r), r.body = NoBody, ~Has(r.lines, "content-length")
    PROVE  HeadField(r, "content-length") = <<0>>
<1> DEFINE line == [name |-> "content-length", value |-> <<0>>]
           found == {l \in HeadLines(r) : l.name = "content-length"}
<1>1. Injected(r) = {line}
  BY DEF Injected
<1>2. r.lines \in Seq(Line) /\ DOMAIN r.lines = 1..Len(r.lines)
  BY LenProperties DEF Shaped, Fields
<1>3. \A i \in 1..Len(r.lines) : r.lines[i].name # "content-length"
  BY <1>2, PositionFound
<1>4. found = {line}
  BY <1>1, <1>2, <1>3 DEF HeadLines, Range
<1>5. (CHOOSE l \in found : TRUE) = line
  BY <1>4
<1> QED
  BY <1>4, <1>5 DEF HeadField

(* A chunked body, as the client wants it: data chunks and then the last. *)
WellEnded(wire) == wire # <<>> /\ \A i \in 1..Len(wire) : wire[i] = IF i = Len(wire) THEN "last" ELSE "chunk"

LEMMA ChunksEnd ==
    ASSUME NEW n \in Nat
    PROVE  WellEnded(Copies("chunk", n) \o <<"last">>) /\ ~WellEnded(Copies("chunk", n) \o <<>>)
<1> DEFINE S == {"chunk", "last"}
           chunks == Copies("chunk", n)
<1>0. chunks \in Seq({"chunk"}) /\ Len(chunks) = n /\ \A i \in 1..n : chunks[i] = "chunk"
  BY CopiesLength, Zenon
<1>1. chunks \in Seq(S) /\ Len(chunks) = n /\ \A i \in 1..n : chunks[i] = "chunk"
  <2>1. Seq({"chunk"}) \subseteq Seq(S)
    BY SeqMonotonic
  <2> QED
    BY <1>0, <2>1, Zenon
<1>2. <<"last">> \in Seq(S) /\ Len(<<"last">>) = 1 /\ <<"last">>[1] = "last"
  BY OneElement
<1> HIDE DEF chunks
<1>3. /\ chunks \o <<"last">> \in Seq(S) /\ Len(chunks \o <<"last">>) = n + 1
      /\ \A i \in 1..(n + 1) : (chunks \o <<"last">>)[i] = IF i <= n THEN chunks[i] ELSE <<"last">>[i - n]
  BY <1>1, <1>2, ConcatProperties
<1> DEFINE wire == chunks \o <<"last">>
<1>4. Len(wire) = n + 1 /\ wire # <<>>
  <2>1. Len(<<>>) = 0
    OBVIOUS
  <2> QED
    BY <1>3, <2>1
<1>5. \A i \in 1..n : wire[i] = "chunk"
  BY <1>1, <1>3
<1>6. wire[n + 1] = "last"
  BY <1>2, <1>3
<1> HIDE DEF wire
<1>7. WellEnded(wire)
  BY <1>4, <1>5, <1>6 DEF WellEnded
<1>8. chunks \o <<>> = chunks
  BY <1>1, ConcatEmptySeq
<1>9. ~WellEnded(chunks)
  <2>1. CASE n = 0
    BY <1>1, <2>1, EmptySeq DEF WellEnded
  <2>2. CASE n # 0
    BY <1>1, <2>2 DEF WellEnded
  <2> QED
    BY <2>1, <2>2
<1> QED
  BY <1>7, <1>8, <1>9 DEF wire, chunks

(* Bytes are one chunk; with none, that chunk is the last, and another last one follows. *)
LEMMA BytesEnd ==
    ASSUME NEW n \in Nat
    PROVE  WellEnded(Chunk(n) \o <<"last">>) <=> n # 0
<1>1. ASSUME NEW e \in {"chunk", "last"}
      PROVE  LET wire == <<e>> \o <<"last">> IN Len(wire) = 2 /\ wire # <<>> /\ wire[1] = e /\ wire[2] = "last"
  <2>1. /\ <<e>> \in Seq({"chunk", "last"}) /\ Len(<<e>>) = 1 /\ <<e>>[1] = e
        /\ <<"last">> \in Seq({"chunk", "last"}) /\ Len(<<"last">>) = 1 /\ <<"last">>[1] = "last"
    BY <1>1, OneElement
  <2>2. /\ Len(<<e>> \o <<"last">>) = 2
        /\ \A i \in 1..2 : (<<e>> \o <<"last">>)[i] = IF i <= 1 THEN <<e>>[i] ELSE <<"last">>[i - 1]
    BY <2>1, ConcatProperties
  <2> DEFINE wire == <<e>> \o <<"last">>
  <2>3. wire[1] = e /\ wire[2] = "last"
    BY <2>1, <2>2
  <2>4. Len(<<>>) = 0
    OBVIOUS
  <2> QED
    BY <2>2, <2>3, <2>4
<1>2. CASE n = 0
  BY <1>1, <1>2 DEF Chunk, WellEnded
<1>3. CASE n # 0
  <2> DEFINE wire == Chunk(n) \o <<"last">>
  <2>1. Len(wire) = 2 /\ wire # <<>> /\ wire[1] = "chunk" /\ wire[2] = "last"
    BY <1>1, <1>3 DEF Chunk
  <2> HIDE DEF wire
  <2>2. WellEnded(wire)
    BY <2>1 DEF WellEnded
  <2> QED
    BY <1>3, <2>2 DEF wire
<1> QED
  BY <1>2, <1>3

(* What is no chunk is not taken for one. *)
LEMMA BytesAreNoChunks ==
    ASSUME NEW n \in Nat
    PROVE  ~WellEnded(Copies("byte", n))
<1>1. Len(Copies("byte", n)) = n /\ \A i \in 1..n : Copies("byte", n)[i] = "byte"
  BY CopiesLength
<1>2. CASE n = 0
  <2>1. Copies("byte", n) = <<>>
    BY <1>2, CopiesLength, EmptySeq
  <2> QED
    BY <2>1 DEF WellEnded
<1>3. CASE n # 0
  BY <1>1, <1>3 DEF WellEnded
<1> QED
  BY <1>2, <1>3

LEMMA OneLength ==
    ASSUME NEW d \in Nat
    PROVE  /\ Cardinality(Range(<<d>>)) = 1 /\ <<d>>[1] = d
           /\ Cardinality(Range(<<d, d>>)) = 1 /\ <<d, d>>[1] = d
<1>1. Range(<<d>>) = {d} /\ Range(<<d, d>>) = {d}
  BY DEF Range
<1>2. Cardinality({d}) = 1
  BY FS_Singleton
<1> QED
  BY <1>1, <1>2

LEMMA KindsDiffer ==
    ASSUME NEW n, NEW d, NEW fails
    PROVE  /\ NoBody.kind = "none"
           /\ BytesBody(n).kind = "bytes" /\ BytesBody(n).len = n
           /\ StreamBody(d, n, fails).kind = "stream" /\ StreamBody(d, n, fails).len = n
           /\ StreamBody(d, n, fails).declared = d /\ StreamBody(d, n, fails).fails = fails
           /\ BytesBody(n) # NoBody /\ StreamBody(d, n, fails) # NoBody
           /\ \A m : StreamBody(d, n, fails) # BytesBody(m)
BY DEF NoBody, BytesBody, StreamBody

(* The case analysis behind InStep: the client finds the end of a sound response, unless *)
(* it is one of those that Upset lists.                                                  *)
LEMMA EndFound ==
    ASSUME Sound(resp)
    PROVE  FindsEnd(resp) <=> ~Upset
<1> DEFINE coding == Coding(resp)
           length == HeadField(resp, "content-length")
           wire == Wire(resp)
<1>1. CASE req.method = "HEAD" \/ Forbids(resp)
  BY <1>1 DEF Sound, FindsEnd, Upset, Wire
<1>2. CASE ~(req.method = "HEAD" \/ Forbids(resp))
  <2>1. Shaped(resp) /\ ~resp.suppress
    BY <1>2 DEF Sound, Shaped
  <2>2. HeadField(resp, "transfer-encoding") = coding
    BY <2>1, HeadFieldFound DEF Coding
  <2> DEFINE ends == EndsInChunked(coding)
             chunks == WritesChunks(resp)
  <2>3. chunks => coding # <<>>
    <3>1. Range(<<>>) = {}
      BY DEF Range
    <3> QED
      BY <3>1 DEF WritesChunks, Coding
  <2>4. FindsEnd(resp) <=>
          IF coding # <<>> THEN ends /\ WellEnded(wire)
          ELSE Cardinality(Range(length)) = 1 /\ wire = Copies("byte", length[1])
    BY <1>2, <2>2 DEF FindsEnd, WellEnded
  <2>5. Upset <=>
          \/ /\ coding # <<>>
             /\ \/ ~ends \/ ~chunks
                \/ resp.body \in {NoBody, BytesBody(0)} \/ (resp.body.kind = "stream" /\ resp.body.fails)
          \/ coding = <<>> /\ resp.body.kind = "stream" /\ resp.body.declared \notin {0, resp.body.len}
    BY <1>2 DEF Upset, Coding
  <2>6. wire = IF resp.body = NoBody THEN <<>>
               ELSE IF chunks THEN Chunked(resp.body) ELSE Copies("byte", resp.body.len)
    BY <1>2, <2>1 DEF Wire
  <2> HIDE DEF coding, wire, ends, chunks
  <2>7. CASE resp.body = NoBody /\ ~Has(resp.lines, "content-length")
    <3>1. length = <<0>>
      BY <1>2, <2>1, <2>7, HeadFieldInjected
    <3>2. Copies("byte", 0) = <<>>
      <4>1. Copies("byte", 0) \in Seq({"byte"}) /\ Len(Copies("byte", 0)) = 0
        BY CopiesLength
      <4> QED
        BY <4>1, EmptySeq
    <3>3. ~WellEnded(<<>>)
      BY DEF WellEnded
    <3>4. Cardinality(Range(length)) = 1 /\ length[1] = 0
      BY <3>1, OneLength
    <3>5. resp.body.kind # "stream" /\ resp.body \in {NoBody, BytesBody(0)}
      BY <2>7, KindsDiffer
    <3>6. wire = <<>>
      BY <2>6, <2>7
    <3>7. FindsEnd(resp) <=> coding = <<>>
      BY <2>4, <3>2, <3>3, <3>4, <3>6
    <3>8. Upset <=> coding # <<>>
      BY <2>5, <3>5
    <3> QED
      BY <3>7, <3>8, Zenon
  <2>8. CASE FramedBytes(resp)
    <3>1. PICK n \in Nat : resp.body = BytesBody(n) /\ Announced(resp) = <<n>>
      BY <2>8 DEF FramedBytes
    <3>2. Injected(resp) = {}
      BY <3>1, KindsDiffer DEF Injected
    <3>3. length = <<n>>
      BY <2>1, <3>1, <3>2, HeadFieldFound DEF Announced
    <3>4. Cardinality(Range(length)) = 1 /\ length[1] = n
      BY <3>3, OneLength
    <3>a. /\ resp.body.kind = "bytes" /\ resp.body.len = n /\ resp.body # NoBody
          /\ BytesBody(0).len = 0
      BY <3>1, KindsDiffer
    <3>5. wire = IF chunks THEN Chunk(n) \o <<"last">> ELSE Copies("byte", n)
      <4>1. Chunked(resp.body) = Chunk(n) \o <<"last">>
        BY <3>a DEF Chunked
      <4> QED
        BY <2>6, <3>a, <4>1
    <3>6. /\ resp.body \in {NoBody, BytesBody(0)} <=> n = 0
          /\ resp.body.kind # "stream"
      BY <3>1, <3>a
    <3>b. WellEnded(wire) <=> chunks /\ n # 0
      BY <3>5, BytesEnd, BytesAreNoChunks
    <3>7. FindsEnd(resp) <=> coding = <<>> \/ (ends /\ chunks /\ n # 0)
      BY <2>3, <2>4, <3>4, <3>5, <3>b
    <3>8. Upset <=> coding # <<>> /\ (~ends \/ ~chunks \/ n = 0)
      BY <2>5, <3>6
    <3> QED
      BY <2>3, <3>7, <3>8, Zenon
  <2>9. CASE FramedStream(resp)
    <3>1. PICK d \in Nat, n \in Nat, fails \in BOOLEAN :
            /\ resp.body = StreamBody(d, n, fails)
            /\ IF d = 0 THEN Announced(resp) = <<0>> /\ Coding(resp) # <<>> ELSE Announced(resp) = <<d, d>>
      BY <2>9 DEF FramedStream
    <3>2. Injected(resp) = {}
      BY <3>1, KindsDiffer DEF Injected
    <3>3. length = Announced(resp)
      BY <2>1, <3>2, HeadFieldFound DEF Announced
    <3>4. coding = <<>> => d # 0 /\ Cardinality(Range(length)) = 1 /\ length[1] = d
      BY <3>1, <3>3, OneLength DEF coding
    <3>6. /\ resp.body \notin {NoBody, BytesBody(0)} /\ resp.body.kind = "stream"
          /\ resp.body.fails = fails /\ resp.body.declared = d /\ resp.body.len = n
      BY <3>1, KindsDiffer
    <3>5. wire = IF chunks THEN Copies("chunk", n) \o (IF fails THEN <<>> ELSE <<"last">>)
          ELSE Copies("byte", n)
      <4>1. Chunked(resp.body) = Copies("chunk", n) \o (IF fails THEN <<>> ELSE <<"last">>)
        BY <3>6 DEF Chunked
      <4> QED
        BY <2>6, <3>6, <4>1
    <3>7. Copies("byte", n) = Copies("byte", d) <=> n = d
      BY CopiesLength
    <3>8. WellEnded(wire) <=> chunks /\ ~fails
      BY <3>5, ChunksEnd, BytesAreNoChunks
    <3>9. FindsEnd(resp) <=> IF coding # <<>> THEN ends /\ chunks /\ ~fails ELSE n = d
      BY <2>3, <2>4, <3>4, <3>5, <3>7, <3>8
    <3>10. Upset <=> \/ coding # <<>> /\ (~ends \/ ~chunks \/ fails)
                     \/ coding = <<>> /\ d \notin {0, n}
      BY <2>5, <3>6
    <3> QED
      <4>1. coding = <<>> => (d \notin {0, n} <=> ~(n = d))
        BY <3>4
      <4> QED
        BY <3>9, <3>10, <4>1, Zenon
  <2> QED
    BY <2>7, <2>8, <2>9 DEF Sound, Framed
<1> QED
  BY <1>1, <1>2

-----------------------------------------------------------------------------
(* Claims of a response about ranges and origins, as RangeIsHonest and GrantsAsConfigured *)
(* state them of resp.                                                                    *)
RangeClaims(r) ==
    r.status = "PartialContent" =>
        LET range == Get(r.lines, "content-range")
            n == range[2] - range[1] + 1
        IN /\ 0 <= range[1] /\ range[1] <= range[2] /\ range[2] < range[3]
           /\ Range(Announced(r)) = {n}
           /\ r.body.len <= n
           /\ \A asked \in req.range :
                (Unparsed \notin {asked.start, asked.end}) => (asked.start = range[1] /\ asked.end = range[2])

GrantClaims(r) ==
    LET granted == Range(Origin(r)) IN
    /\ granted # {} => \E c \in cors :
         /\ granted = {"*"} => (c.origins = "any" /\ (c.credentials => req.origin = "none"))
         /\ granted # {"*"} =>
              /\ granted = {req.origin}
              /\ c.origins = "only" => req.origin = "listed"
              /\ Contains(Vary(r), "Origin")
         /\ req.method = "OPTIONS" => req.wants \in Range(c.methods)
    /\ (granted # {} /\ req.method # "OPTIONS") => r.status \in {"NotFound", "MethodNotAllowed"}

LEMMA NoClaims ==
    ASSUME NEW r
    PROVE  /\ Origin(r) = <<>> => GrantClaims(r)
           /\ r.status # "PartialContent" => RangeClaims(r)
<1>1. Range(<<>>) = {}
  BY DEF Range
<1> QED
  BY <1>1 DEF GrantClaims, RangeClaims

LEMMA OneOrigin ==
    ASSUME NEW o
    PROVE  Range(<<o>>) = {o}
BY DEF Range

LEMMA GrantClaimed ==
    ASSUME NEW r, NEW c \in Configs, req \in Requests, c \in cors, AllowOrigin(c) # {},
           Origin(r) = <<TheOrigin(c)>>,
           VaryOrigin(c) = <<"Origin">> => Contains(Vary(r), "Origin"),
           req.method = "OPTIONS" => MethodAllowed(c),
           req.method # "OPTIONS" => r.status \in {"NotFound", "MethodNotAllowed"}
    PROVE  GrantClaims(r)
<1> DEFINE granted == Range(Origin(r))
<1>1. granted = {TheOrigin(c)}
  BY OneOrigin
<1>2. granted = {"*"} <=> TheOrigin(c) = "*"
  BY <1>1
<1>3. granted = {"*"} => (c.origins = "any" /\ (c.credentials => req.origin = "none"))
  BY <1>2, OriginGranted
<1>4. granted # {"*"} => /\ granted = {req.origin}
                         /\ c.origins = "only" => req.origin = "listed"
                         /\ Contains(Vary(r), "Origin")
  BY <1>1, <1>2, OriginGranted
<1>5. req.method = "OPTIONS" => req.wants \in Range(c.methods)
  BY DEF MethodAllowed
<1> QED
  BY <1>3, <1>4, <1>5 DEF GrantClaims

(* What is sent without a handler. *)
Served(r) == Sound(r) /\ RangeClaims(r) /\ GrantClaims(r)

LEMMA PreflightServed ==
    ASSUME NEW c \in Configs, c \in cors, req \in Requests, req.method = "OPTIONS"
    PROVE  Served(PreflightResponse(c))
<1> DEFINE r == PreflightResponse(c)
<1>1. Sound(r) /\ r.status = "NoContent"
  BY PreflightSound
<1>2. \/ Origin(r) = <<>>
      \/ /\ Origin(r) = <<TheOrigin(c)>> /\ AllowOrigin(c) # {} /\ MethodAllowed(c)
         /\ VaryOrigin(c) = <<"Origin">> => Contains(Vary(r), "Origin")
  BY PreflightKeeps
<1> HIDE DEF r
<1>3. GrantClaims(r)
  BY <1>2, NoClaims, GrantClaimed
<1>4. RangeClaims(r)
  BY <1>1, NoClaims
<1> QED
  BY <1>1, <1>3, <1>4 DEF Served, r

LEMMA RefusalServed ==
    ASSUME req \in Requests, cors = {} \/ \E c \in Configs : cors = {c}, req.method = "OPTIONS" => cors = {}
    PROVE  /\ Served([RefusalBase EXCEPT !.status = "NotFound"])
           /\ Served(AddHeader([RefusalBase EXCEPT !.status = "MethodNotAllowed"], "allow", <<"GET", "HEAD">>))
<1> DEFINE base == RefusalBase
<1>1. /\ Sound(base)
      /\ \/ Origin(base) = <<>>
         \/ \E c \in cors : /\ c \in Configs /\ AllowOrigin(c) # {}
                            /\ Origin(base) = <<TheOrigin(c)>>
                            /\ VaryOrigin(c) = <<"Origin">> => Vary(base) = <<"Origin">>
  BY RefusalSound
<1> HIDE DEF base
<1>2. ASSUME NEW r, Sound(r), r.status \in {"NotFound", "MethodNotAllowed"},
             Origin(r) = Origin(base), Vary(r) = Vary(base)
      PROVE  Served(r)
  <2>1. RangeClaims(r)
    BY <1>2, NoClaims
  <2>2. CASE Origin(base) = <<>>
    BY <1>2, <2>1, <2>2, NoClaims DEF Served
  <2>3. CASE Origin(base) # <<>>
    <3>1. PICK c \in cors : /\ c \in Configs /\ AllowOrigin(c) # {}
                            /\ Origin(base) = <<TheOrigin(c)>>
                            /\ VaryOrigin(c) = <<"Origin">> => Vary(base) = <<"Origin">>
      BY <1>1, <2>3
    <3>2. VaryOrigin(c) = <<"Origin">> => Contains(Vary(r), "Origin")
      <4>1. Contains(<<"Origin">>, "Origin")
        BY DEF Contains
      <4> QED
        BY <1>2, <3>1, <4>1
    <3>3. req.method # "OPTIONS"
      BY <3>1
    <3>4. GrantClaims(r)
      BY <1>2, <3>1, <3>2, <3>3, GrantClaimed
    <3> QED
      BY <1>2, <2>1, <3>4 DEF Served
  <2> QED
    BY <2>2, <2>3
<1> DEFINE missing == [base EXCEPT !.status = "NotFound"]
           refused == [base EXCEPT !.status = "MethodNotAllowed"]
           told == AddHeader(refused, "allow", <<"GET", "HEAD">>)
<1>3. Sound(missing) /\ missing.status = "NotFound" /\ missing.lines = base.lines
  BY <1>1, SoundStatus
<1>4. Sound(refused) /\ refused.status = "MethodNotAllowed" /\ refused.lines = base.lines
  BY <1>1, SoundStatus
<1> HIDE DEF missing, refused
<1>5. /\ Sound(told) /\ told.status = refused.status
      /\ Origin(told) = Origin(refused) /\ Vary(told) = Vary(refused)
  BY <1>4, AllowKeeps
<1> HIDE DEF told
<1>6. Served(missing)
  BY <1>1, <1>2, <1>3 DEF Origin, Vary
<1>7. Served(told)
  BY <1>1, <1>2, <1>4, <1>5 DEF Origin, Vary
<1> QED
  BY <1>6, <1>7 DEF told, refused, missing, base

LEMMA NothingServed ==
    ASSUME NEW status \in {"NotFound", "Forbidden", "InternalServerError"}
    PROVE  Served([NewResponse EXCEPT !.status = status])
<1> DEFINE r == [NewResponse EXCEPT !.status = status]
<1>1. Sound(r) /\ r.status = status /\ r.lines = NewResponse.lines
  BY NewHandled, SoundStatus DEF Handled
<1> HIDE DEF r
<1>2. "access-control-allow-origin" \in Names \ {"x-request-id"}
  BY DEF Names
<1>3. Origin(r) = <<>>
  BY <1>1, <1>2, NewResponseShape DEF Origin
<1> QED
  BY <1>1, <1>3, NoClaims DEF Served, r

LEMMA RangeServed ==
    ASSUME req \in Requests, NEW range \in req.range, NEW len \in Nat, NEW now \in Nat, Satisfiable(range, len),
           NEW fails \in BOOLEAN, NEW type \in Types
    PROVE  Served(Partial(range, len, now, fails, type))
<1> DEFINE r == Partial(range, len, now, fails, type)
           a == First(range)
           f == Final(range, len)
           n == f - a + 1
           named == Get(r.lines, "content-range")
<1>1. /\ Sound(r) /\ r.status = "PartialContent" /\ Origin(r) = <<>>
      /\ named = <<a, f, len>> /\ Announced(r) = <<n, n>>
      /\ r.body.len \in Nat /\ r.body.len <= n
  BY PartialSound
<1>2. a \in Nat /\ f \in Nat /\ a <= f /\ f < len
  <2>1. {range.start, range.end} \subseteq {-1} \cup Nat
    BY RequestsAssumption
  <2> QED
    BY <2>1 DEF First, Final, Unparsed, Satisfiable
<1>3. req.range = {range}
  BY RequestsAssumption
<1>4. Unparsed \notin {range.start, range.end} => range.start = a /\ range.end = f
  BY DEF First, Final
<1> HIDE DEF r, a, f
<1>5. Range(<<n, n>>) = {n}
  BY DEF Range
<1>6. named[1] = a /\ named[2] = f /\ named[3] = len
  BY <1>1
<1>7. RangeClaims(r)
  BY <1>1, <1>2, <1>3, <1>4, <1>5, <1>6 DEF RangeClaims
<1>8. GrantClaims(r)
  BY <1>1, NoClaims
<1> QED
  BY <1>1, <1>7, <1>8 DEF Served, r

LEMMA WholeServed ==
    ASSUME NEW len \in Nat, NEW now \in Nat, NEW fails \in BOOLEAN, NEW type \in Types
    PROVE  Served(Whole(len, now, fails, type))
<1> DEFINE r == Whole(len, now, fails, type)
<1>1. Sound(r) /\ r.status = "Ok" /\ Origin(r) = <<>>
  BY WholeSound
<1> HIDE DEF r
<1> QED
  BY <1>1, NoClaims DEF Served, r

-----------------------------------------------------------------------------
(* The invariant, which also says how a response comes about: it is Empty until it is *)
(* built in one step or opened for a handler, who works on a Handled one; and that a  *)
(* preflight never gets past a configuration, since refusals are not its answer.      *)
Domains ==
    /\ cors \in {{}} \cup {{c} : c \in Configs}
    /\ pc \in {"request", "dispatch", "init", "ready", "sending", "sent"}
    /\ req \in Requests
    /\ edits \in 0..MaxEdits
    /\ client \in {"instep", "lost"}

Untouched == pc \in {"request", "dispatch"} => resp = Empty
NoPreflightLeft == (pc = "dispatch" /\ req.method = "OPTIONS") => cors = {}
Handlers == pc \in {"init", "ready"} => Handled(resp) /\ (pc = "init" => resp.body = NoBody)
Servers == pc = "sending" => Sound(resp)
Sent == IF pc = "sent" THEN Sound(resp) ELSE client = "instep"

IInv ==
    /\ Domains /\ Untouched /\ NoPreflightLeft /\ Handlers /\ Servers /\ Sent
    /\ RangeIsHonest /\ GrantsAsConfigured /\ InStep

LEMMA ClaimsOfResp ==
    /\ GrantsAsConfigured <=> GrantClaims(resp)
    /\ RangeIsHonest <=> (pc = "sending" => RangeClaims(resp))
<1>1. GrantsAsConfigured <=> GrantClaims(resp)
  BY DEF GrantsAsConfigured, GrantClaims, Origin, Vary
<1>2. RangeIsHonest <=> (pc = "sending" => RangeClaims(resp))
  BY DEF RangeIsHonest, RangeClaims, Announced
<1> QED
  BY <1>1, <1>2

LEMMA EmptyShape == Empty.lines = <<>> /\ Empty.suppress = FALSE /\ Origin(Empty) = <<>>
<1>1. Empty.lines = <<>> /\ Empty.suppress = FALSE
  BY DEF Empty, Fresh
<1>2. <<>> \in Fields
  <2>1. <<>> \in Seq(Line) /\ Len(<<>>) = 0
    BY EmptySeq
  <2> QED
    BY <2>1 DEF Fields, Unique
<1>3. Get(<<>>, "access-control-allow-origin") = <<>>
  <2>1. Len(<<>>) = 0
    BY EmptySeq
  <2> QED
    BY <1>2, <2>1, GetNone
<1> QED
  BY <1>1, <1>3 DEF Origin

LEMMA TypesFromInvariant == IInv => TypeOK
<1> SUFFICES ASSUME IInv
             PROVE  TypeOK
  OBVIOUS
<1>1. Domains
  BY DEF IInv
<1>2. CASE pc \in {"request", "dispatch"}
  <2>1. resp.lines = <<>> /\ resp.suppress = FALSE
    BY <1>2, EmptyShape DEF IInv, Untouched
  <2>2. Len(resp.lines) = 0
    BY <2>1
  <2> QED
    BY <1>1, <2>1, <2>2 DEF Domains, TypeOK
<1>3. CASE pc \notin {"request", "dispatch"}
  <2>1. Sound(resp)
    BY <1>1, <1>3 DEF IInv, Domains, Handlers, Servers, Sent, Handled
  <2> QED
    BY <1>1, <2>1 DEF Domains, TypeOK, Sound, Shaped, Fields, Unique
<1> QED
  BY <1>2, <1>3

LEMMA InvariantInit == Init => IInv
<1> SUFFICES ASSUME Init
             PROVE  IInv
  OBVIOUS
<1>1. Domains
  BY MaxEditsAssumption DEF Init, Domains
<1>2. GrantsAsConfigured
  BY EmptyShape, NoClaims, ClaimsOfResp DEF Init
<1> QED
  BY <1>1, <1>2 DEF Init, IInv, Untouched, NoPreflightLeft, Handlers, Servers, Sent, RangeIsHonest, InStep

(* What a step that goes on to another response, for the same request, has to show. *)
LEMMA Rebuilt ==
    ASSUME IInv, pc # "sent", NEW r, resp' = r, UNCHANGED <<cors, req, client>>, edits' \in 0..MaxEdits,
           \/ pc' = "dispatch" /\ r = Empty /\ (req.method = "OPTIONS" => cors = {})
           \/ pc' \in {"init", "ready"} /\ Handled(r) /\ (pc' = "init" => r.body = NoBody)
           \/ pc' = "sending" /\ Served(r)
    PROVE  IInv'
<1>1. Domains'
  BY DEF IInv, Domains
<1>2. Untouched' /\ NoPreflightLeft'
  BY DEF Untouched, NoPreflightLeft
<1>3. Handlers'
  BY DEF Handlers, Handled, Sound
<1>4. Servers'
  BY DEF Servers, Served, Sound
<1>5. Sent' /\ InStep'
  BY DEF IInv, Sent, InStep
<1>6. GrantClaims(r)
  BY EmptyShape, NoClaims DEF Handled, Served
<1>7. GrantsAsConfigured'
  BY <1>6 DEF GrantsAsConfigured, GrantClaims, Origin, Vary
<1>8. RangeIsHonest'
  BY DEF RangeIsHonest, RangeClaims, Announced, Served
<1> QED
  BY <1>1, <1>2, <1>3, <1>4, <1>5, <1>7, <1>8 DEF IInv

LEMMA FilledHandled ==
    ASSUME NEW r, Handled(r), NEW s, NEW body, Fills(r, s, body), Framed(s)
    PROVE  Handled(s)
<1>1. {"accept-encoding", "access-control-allow-origin"} \subseteq Names \ BodyNames
  BY DEF Names, BodyNames
<1>2. Get(s.lines, "accept-encoding") = Get(r.lines, "accept-encoding") /\ Origin(s) = Origin(r)
  BY <1>1 DEF Fills, Origin
<1>3. Sound(s) /\ s.suppress = r.suppress
  BY FillsSound DEF Handled, Fills
<1> QED
  BY <1>2, <1>3 DEF Handled

LEMMA InvariantStep == IInv /\ [Next]_vars => IInv'
<1> SUFFICES ASSUME IInv, [Next]_vars
             PROVE  IInv'
  OBVIOUS
<1> USE DEF Building, Editing
<1>0. Domains /\ MaxEdits \in Nat /\ Sizes \subseteq Nat
  BY MaxEditsAssumption, SizesAssumption DEF IInv
<1>1. CASE Preflight
  <2>1. PICK c \in cors : Building("sending", PreflightResponse(c)) /\ req.method = "OPTIONS" /\ pc = "request"
    BY <1>1 DEF Preflight
  <2>2. c \in Configs
    BY <1>0, <2>1 DEF Domains
  <2>3. Served(PreflightResponse(c))
    BY <1>0, <2>1, <2>2, PreflightServed DEF Domains
  <2> QED
    BY <1>0, <2>1, <2>3, Rebuilt DEF Domains
<1>2. CASE Dispatch
  <2>1. resp = Empty
    BY <1>2 DEF Dispatch, IInv, Untouched
  <2> QED
    BY <1>0, <1>2, <2>1, Rebuilt DEF Dispatch, Domains
<1>3. CASE Refuse
  <2>1. /\ req \in Requests
        /\ cors = {} \/ \E c \in Configs : cors = {c}
        /\ req.method = "OPTIONS" => cors = {}
    BY <1>0, <1>3 DEF Refuse, IInv, Domains, NoPreflightLeft
  <2>2. \/ Building("sending", [RefusalBase EXCEPT !.status = "NotFound"])
        \/ Building("sending",
                    AddHeader([RefusalBase EXCEPT !.status = "MethodNotAllowed"], "allow", <<"GET", "HEAD">>))
    BY <1>3 DEF Refuse, RefusalBase
  <2>3. PICK r : Building("sending", r) /\ Served(r) /\ pc = "dispatch"
    BY <1>3, <2>1, <2>2, RefusalServed DEF Refuse
  <2> QED
    BY <1>0, <2>3, Rebuilt DEF Domains
<1>4. CASE ServeNothing
  <2>1. PICK r : Building("sending", r) /\ Served(r) /\ pc = "dispatch"
    BY <1>4, NothingServed DEF ServeNothing
  <2> QED
    BY <1>0, <2>1, Rebuilt DEF Domains
<1>5. CASE ServeRange
  <2>1. PICK r : Building("sending", r) /\ Served(r) /\ pc = "dispatch"
    <3>1. PICK len \in Sizes, now \in Sizes, fails \in BOOLEAN, type \in Types, range \in req.range :
            /\ pc = "dispatch" /\ Satisfiable(range, len)
            /\ Building("sending", Partial(range, len, now, fails, type))
      BY <1>5 DEF ServeRange
    <3> QED
      BY <1>0, <3>1, RangeServed DEF Domains
  <2> QED
    BY <1>0, <2>1, Rebuilt DEF Domains
<1>6. CASE ServeWhole
  <2>1. PICK r : Building("sending", r) /\ Served(r) /\ pc = "dispatch"
    BY <1>0, <1>6, WholeServed DEF ServeWhole
  <2> QED
    BY <1>0, <2>1, Rebuilt DEF Domains
<1>7. CASE Respond
  BY <1>0, <1>7, NewHandled, Rebuilt DEF Respond, Domains
<1>8. CASE Status
  <2>1. PICK s : Editing([resp EXCEPT !.status = s]) /\ pc \in {"init", "ready"}
    BY <1>8 DEF Status
  <2>2. Handled([resp EXCEPT !.status = s]) /\ [resp EXCEPT !.status = s].body = resp.body
    BY <2>1, StatusHandled DEF IInv, Handlers
  <2>3. pc = "init" => [resp EXCEPT !.status = s].body = NoBody
    BY <2>2 DEF IInv, Handlers
  <2> DEFINE r == [resp EXCEPT !.status = s]
  <2>4. /\ resp' = r /\ UNCHANGED <<cors, pc, req, client>> /\ edits' \in 0..MaxEdits
        /\ pc \in {"init", "ready"} /\ Handled(r) /\ (pc = "init" => r.body = NoBody)
    BY <1>0, <2>1, <2>2, <2>3 DEF Domains
  <2> HIDE DEF r
  <2> QED
    BY <2>4, Rebuilt
<1>9. CASE Header
  <2>1. PICK l \in UserLines : Editing(AddHeader(resp, l.name, l.value)) /\ pc \in {"init", "ready"}
    BY <1>9 DEF Header
  <2>2. Handled(AddHeader(resp, l.name, l.value)) /\ AddHeader(resp, l.name, l.value).body = resp.body
    BY <2>1, AddHeaderHandled DEF IInv, Handlers
  <2> QED
    BY <1>0, <2>1, <2>2, Rebuilt DEF Domains, IInv, Handlers
<1>10. CASE Unheader
  <2>1. PICK l \in UserLines : Editing(RemoveHeader(resp, l.name)) /\ pc = "init"
    BY <1>10 DEF Unheader
  <2>2. Handled(RemoveHeader(resp, l.name)) /\ RemoveHeader(resp, l.name).body = NoBody
    BY <2>1, RemoveHeaderHandled DEF IInv, Handlers
  <2> QED
    BY <1>0, <2>1, <2>2, Rebuilt DEF Domains
<1>11. CASE Bytes
  <2>1. PICK n \in Sizes, type \in Types : Building("ready", WithBytes(resp, n, type)) /\ pc = "init"
    BY <1>11 DEF Bytes
  <2>2. Handled(WithBytes(resp, n, type))
    BY <1>0, <2>1, FilledHandled, HandledOpen, WithBytesFills DEF IInv, Handlers
  <2> QED
    BY <1>0, <2>1, <2>2, Rebuilt DEF Domains
<1>12. CASE Stream
  <2>1. PICK d \in Sizes, n \in Sizes, fails \in BOOLEAN, type \in Types :
          Building("ready", WithStream(resp, StreamBody(d, n, fails), type)) /\ pc = "init"
    BY <1>12 DEF Stream
  <2>2. Handled(WithStream(resp, StreamBody(d, n, fails), type))
    BY <1>0, <2>1, FilledHandled, HandledOpen, WithStreamFills DEF IInv, Handlers
  <2> QED
    BY <1>0, <2>1, <2>2, Rebuilt DEF Domains
<1>13. CASE NoContents
  BY <1>0, <1>13, Rebuilt DEF NoContents, IInv, Handlers, Domains
<1>14. CASE Compress
  <2>1. PICK n \in Sizes : Editing(Compressed(resp, n)) /\ pc = "ready"
    BY <1>14 DEF Compress
  <2>2. Compressed(resp, n) = resp /\ Handled(resp)
    BY <2>1, CompressedHandled DEF IInv, Handlers
  <2> QED
    BY <1>0, <2>1, <2>2, Rebuilt DEF Domains
<1>15. CASE Send
  <2>1. /\ Sound(resp) /\ pc' = "sent" /\ UNCHANGED <<cors, req, resp, edits>>
        /\ client' = IF FindsEnd(resp) THEN "instep" ELSE "lost"
    BY <1>15 DEF Send, IInv, Handlers, Servers, Handled
  <2>2. client' = "lost" <=> Upset
    <3>1. FindsEnd(resp) <=> ~Upset
      BY <2>1, EndFound
    <3> QED
      BY <2>1, <3>1, Zenon
  <2>3. Upset' <=> Upset
    BY <2>1 DEF Upset, Forbids
  <2>4. InStep'
    BY <2>2, <2>3, Zenon DEF InStep
  <2>5. Domains' /\ Untouched' /\ NoPreflightLeft' /\ Handlers' /\ Servers'
    BY <1>0, <2>1 DEF Domains, Untouched, NoPreflightLeft, Handlers, Servers
  <2>6. Sent'
    BY <2>1 DEF Sent, Sound
  <2>7. RangeIsHonest'
    BY <2>1 DEF RangeIsHonest
  <2>8. GrantsAsConfigured'
    BY <2>1 DEF IInv, GrantsAsConfigured
  <2> QED
    BY <2>4, <2>5, <2>6, <2>7, <2>8 DEF IInv
<1>16. CASE UNCHANGED vars
  <2> USE <1>16 DEF vars
  <2>1. (Domains <=> Domains') /\ (Untouched <=> Untouched') /\ (NoPreflightLeft <=> NoPreflightLeft')
    BY DEF Domains, Untouched, NoPreflightLeft
  <2>2. (Handlers <=> Handlers') /\ (Servers <=> Servers') /\ (Sent <=> Sent')
    BY DEF Handlers, Servers, Sent, Handled, Sound
  <2>3. (RangeIsHonest <=> RangeIsHonest') /\ (GrantsAsConfigured <=> GrantsAsConfigured')
    BY DEF RangeIsHonest, GrantsAsConfigured
  <2>4. InStep <=> InStep'
    BY DEF InStep, Upset, Forbids
  <2> QED
    BY <2>1, <2>2, <2>3, <2>4 DEF IInv
<1> QED
  BY <1>1, <1>2, <1>3, <1>4, <1>5, <1>6, <1>7, <1>8, <1>9, <1>10, <1>11, <1>12, <1>13, <1>14, <1>15, <1>16
     DEF Next, Done

(* Every step keeps to the lines of FieldLines, one for each name, and to the domains. *)
THEOREM TypeCorrect == Spec => []TypeOK
<1>1. Init => IInv
  BY InvariantInit
<1>2. IInv /\ [Next]_vars => IInv'
  BY InvariantStep
<1>3. IInv => TypeOK
  BY TypesFromInvariant
<1> QED
  BY <1>1, <1>2, <1>3, PTL DEF Spec

(* The client finds the end of exactly those responses that Upset does not list, for every *)
(* order of a handler's calls and every length of bodies, files and announcements.         *)
THEOREM InStepAlways == Spec => []InStep
<1>1. Init => IInv
  BY InvariantInit
<1>2. IInv /\ [Next]_vars => IInv'
  BY InvariantStep
<1>3. IInv => InStep
  BY DEF IInv
<1> QED
  BY <1>1, <1>2, <1>3, PTL DEF Spec

(* serve_static names, announces and sends no other bytes than a range of the file, for *)
(* every length the file has, and has got when it is read.                              *)
THEOREM RangesHonest == Spec => []RangeIsHonest
<1>1. Init => IInv
  BY InvariantInit
<1>2. IInv /\ [Next]_vars => IInv'
  BY InvariantStep
<1>3. IInv => RangeIsHonest
  BY DEF IInv
<1> QED
  BY <1>1, <1>2, <1>3, PTL DEF Spec

(* Neither a preflight nor a refusal grants more than the configuration does, and nothing *)
(* a handler does grants anything.                                                        *)
THEOREM GrantsKept == Spec => []GrantsAsConfigured
<1>1. Init => IInv
  BY InvariantInit
<1>2. IInv /\ [Next]_vars => IInv'
  BY InvariantStep
<1>3. IInv => GrantsAsConfigured
  BY DEF IInv
<1> QED
  BY <1>1, <1>2, <1>3, PTL DEF Spec
=============================================================================
