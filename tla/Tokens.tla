------------------------------- MODULE Tokens -------------------------------
(***************************************************************************)
(* Texts as sequences of tokens, and the searches in them.                 *)
(***************************************************************************)
EXTENDS Integers, Sequences, SequencesExt

Space == " "
Semicolon == ";"
Comma == ","
Equals == "="

(* Where a text occurs in another for the first time, from a position on; 0 if nowhere. *)
FirstAt(text, s, from) ==
    LET places == {i \in from..(Len(s) - Len(text) + 1) : SubSeq(s, i, i + Len(text) - 1) = text} IN
    IF places = {} THEN 0 ELSE Min(places)

(* One more token: it ends the last piece, or belongs to it. *)
Extend(pieces, token, separator) ==
    IF token = separator THEN Append(pieces, <<>>)
    ELSE [pieces EXCEPT ![Len(pieces)] = Append(@, token)]

(* What lies between the separators of a text. *)
Split(s, separator) ==
    LET pieces[n \in 0..Len(s)] == IF n = 0 THEN << <<>> >> ELSE Extend(pieces[n - 1], s[n], separator)
    IN  pieces[Len(s)]

(* A text without the spaces at its ends. *)
Trim(s) ==
    LET solid == {i \in DOMAIN s : s[i] # Space} IN
    IF solid = {} THEN <<>> ELSE SubSeq(s, Min(solid), Max(solid))
=============================================================================
