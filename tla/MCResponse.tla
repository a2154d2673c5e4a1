----------------------------- MODULE MCResponse -----------------------------
(***************************************************************************)
(* Requests, configurations and fields for Response: preflights of every   *)
(* origin, method and list of headers; GET and HEAD with every origin, and *)
(* with every range whose bounds are missing, in the file, or behind it.   *)
(***************************************************************************)
EXTENDS Response

Origins == {"none", "listed", "other"}
Plain == [method |-> "GET", origin |-> "none", wants |-> "none", asks |-> <<>>, range |-> {}]

Bounds == {Unparsed} \cup 0..2

MCRequests ==
    {[Plain EXCEPT !.method = m, !.origin = o] : m \in {"GET", "HEAD"}, o \in Origins}
        \cup {[Plain EXCEPT !.method = "OPTIONS", !.origin = o, !.wants = w, !.asks = a] :
                 o \in Origins, w \in {"none", "GET", "PUT", "unknown"}, a \in {<<>>, <<"x-asked">>}}
        \cup {[Plain EXCEPT !.method = m, !.range = {[start |-> a, end |-> b]}] :
                 m \in {"GET", "HEAD"}, a \in Bounds, b \in Bounds}

MCConfigs ==
    {[origins |-> o, credentials |-> c, methods |-> m, headers |-> h, exposed |-> c, maxAge |-> ~c] :
        o \in {"any", "only"}, c \in BOOLEAN, m \in {<<>>, <<"GET", "POST">>},
        h \in {"star", "list"}}

(* Codings as handlers may spell and join them, and two of the server's own fields. *)
MCUserLines ==
    {[name |-> "transfer-encoding", value |-> v] :
        v \in {<<"chunked">>, <<"Chunked">>, <<"x-chunked">>, <<"gzip", "">>}}
    \cup {[name |-> "content-length", value |-> <<"1">>],
          [name |-> "access-control-allow-origin", value |-> <<"*">>]}
=============================================================================
