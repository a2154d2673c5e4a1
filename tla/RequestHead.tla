---------------------------- MODULE RequestHead ----------------------------
(***************************************************************************)
(* What HttpRequest::parse makes of a header block (request.rs), with the  *)
(* fields as FieldLines::from reads them (field_lines.rs).                 *)
(*                                                                         *)
(* A block is [method, words, lines]: the method's text, the number of     *)
(* words of the request line, and the field lines.  A line is              *)
(* [name, value]; field names compare without case, so a name stands for   *)
(* all its spellings, and NoName for lines that have no colon or no name,  *)
(* or are not UTF-8.  A value is the sequence of its members, which stand  *)
(* between commas; it has at least one, which is "" in an empty value.     *)
(***************************************************************************)
EXTENDS Integers, Sequences, SequencesExt

CONSTANTS MaxBody,   \* max_body_size
          Numeral    \* the texts that str::parse::<usize> accepts, and their numbers

ASSUME MaxBodyAssumption == MaxBody \in Nat
ASSUME NumeralAssumption == \A text \in DOMAIN Numeral : Numeral[text] \in Nat

(* The known methods that occur, a name standing for all its spellings (from_str). *)
Methods == {"GET", "POST", "PUT", "OPTIONS"}

(* The name of a line that FieldLines::from skips. *)
NoName == ""

(* Mutant: a line replaces an earlier one of its name. *)
Merge_Replaces(fields, line) ==
    IF line.name = NoName THEN fields
    ELSE Append(SelectSeq(fields, LAMBDA f : f.name # line.name), line)

(* A line of a name that is there already adds its members to that value. *)
Merge(fields, line) ==
    LET known == {i \in DOMAIN fields : fields[i].name = line.name} IN
    IF line.name = NoName THEN fields
    ELSE IF known = {} THEN Append(fields, line)
    ELSE [i \in DOMAIN fields |->
            IF i \in known THEN [fields[i] EXCEPT !.value = @ \o line.value] ELSE fields[i]]

(* FieldLines::from *)
FieldsOf(lines) ==
    LET fields[n \in 0..Len(lines)] == IF n = 0 THEN <<>> ELSE Merge(fields[n - 1], lines[n])
    IN  fields[Len(lines)]

(* FieldLines::get; <<>> if there is no such field. *)
ValueOf(fields, name) ==
    LET found == {i \in DOMAIN fields : fields[i].name = name} IN
    IF found = {} THEN <<>> ELSE fields[Min(found)].value

(* A value that is a numeral; anything else, a list of equal numerals included, is 0. *)
ContentLength(fields) ==
    LET value == ValueOf(fields, "content-length") IN
    IF Len(value) = 1 /\ value[1] \in DOMAIN Numeral THEN Numeral[value[1]] ELSE 0

(* The text contains "chunked", in this case only. *)
IsChunked(fields) ==
    \E i \in DOMAIN ValueOf(fields, "transfer-encoding") :
        ValueOf(fields, "transfer-encoding")[i] \in {"chunked", "x-chunked"}

(* Fields that are compared as a whole. *)
Is(fields, name, member) == ValueOf(fields, name) = <<member>>

MethodOf(text) == IF text \in Methods THEN text ELSE "GET"

(* HttpRequest::parse: the head of a request, and whether parsing succeeds. *)
Understood(block) ==
    LET fields == FieldsOf(block.lines) IN
    [valid |-> block.words >= 3 /\ ContentLength(fields) <= MaxBody,
     frame |-> IF IsChunked(fields) THEN "chunked" ELSE "length",
     len |-> ContentLength(fields),
     close |-> Is(fields, "connection", "close"),
     expect |-> Is(fields, "expect", "100-continue"),
     preflight |-> MethodOf(block.method) = "OPTIONS"]
=============================================================================
