----------------------------- MODULE DrainExit -----------------------------
(***************************************************************************)
(* Graceful shutdown end to end: the listener threads, each with its       *)
(* LocalSet of connection tasks, the guards in ActiveSet, and the control  *)
(* plane that stops the accept loops, waits and exits (HttpServer::listen, *)
(* handle_single_request and finish of server.rs).                         *)
(*                                                                         *)
(* A thread polls one task at a time: "polled" holds the connections whose *)
(* task is being polled now, and a task that does not yield runs on before *)
(* its thread's main future is polled again.  Threads and control plane    *)
(* interleave freely.  The two waits are those of ActiveSet and            *)
(* ThreadDrainBarrier, here the instants at which they may return.         *)
(***************************************************************************)
EXTENDS Integers, FiniteSets

CONSTANTS Threads,     \* the listener threads
          Conns,       \* the connections of clients
          MaxReads,    \* bound: how often bytes come that are read as a request's, on all
                       \* connections together
          HasCors      \* is CORS configured

ASSUME MaxReadsAssumption == MaxReads \in Nat
ASSUME HasCorsAssumption == HasCors \in BOOLEAN

VARIABLES
    cp,         \* the control plane
    tpc,        \* the main future of each thread
    home,       \* the thread the kernel gives the connection to
    st,         \* where the connection's task is; "queued" in the kernel until accepted
    polled,     \* connections whose task is being polled
    tracked,    \* connections whose request holds a guard of ActiveSet
    unread,     \* has the current request a body that is not read
    reader,     \* whose bytes the reader holds: of that "body", and of what comes "next"
    unsent,     \* kinds of the responses in the BufWriter
    deferred,   \* connections with a response in the BufWriter that was left there for later
    left        \* arrivals of bytes still to come

control == <<cp, tpc>>
request == <<unread, reader>>
writer == <<unsent, deferred>>
vars == <<control, home, st, polled, tracked, request, writer, left>>

CpStates == {"serving", "prehook", "waitzero", "waitthreads", "exited", "cutoff"}
ThreadStates == {"accepting", "draining", "done"}
ConnStates == {"queued", "open", "parse", "handle", "answer", "refuse", "flush", "end", "drain", "shut", "settle", "gone"}
InRequest == {"handle", "flush", "end", "drain", "shut"}
Kinds == {"tracked", "untracked"}

Init ==
    /\ cp = "serving"
    /\ tpc = [t \in Threads |-> "accepting"]
    /\ home \in [Conns -> Threads]
    /\ st = [c \in Conns |-> "queued"]
    /\ polled = {} /\ tracked = {}
    /\ unread = [c \in Conns |-> FALSE]
    /\ reader = [c \in Conns |-> {}]
    /\ unsent = [c \in Conns |-> {}]
    /\ deferred = {}
    /\ left = MaxReads

Running == cp \notin {"exited", "cutoff"}

(* block_on still drives the LocalSet of the thread. *)
Driven(t) == Running /\ tpc[t] \in {"accepting", "draining"}

(* No connection's task of the thread is in the middle of a poll. *)
Free(t) == \A d \in polled : home[d] # t

CanRun(c) == Driven(home[c]) /\ \A d \in polled : home[d] = home[c] => d = c

Step(c, from, to) ==
    /\ CanRun(c)
    /\ st[c] = from
    /\ st' = [st EXCEPT ![c] = to]
    /\ polled' = IF to \in {"open", "gone"} THEN polled \ {c} ELSE polled \cup {c}
    /\ UNCHANGED <<control, home>>

-----------------------------------------------------------------------------
(* A client leaves while nothing of its is being served. *)
Depart(c) ==
    /\ Driven(home[c]) /\ Free(home[c])
    /\ st[c] \in {"queued", "open"}
    /\ st' = [st EXCEPT ![c] = "gone"]
    /\ UNCHANGED <<control, home, polled, tracked, request, writer, left>>

(* The accept loop: accept, and a task of its own for the connection. *)
Accept(c) ==
    /\ Driven(home[c]) /\ Free(home[c])
    /\ tpc[home[c]] = "accepting"
    /\ st[c] = "queued"
    /\ st' = [st EXCEPT ![c] = "open"]
    /\ UNCHANGED <<control, home, polled, tracked, request, writer, left>>

(* Bytes arrive for a task that waits in a handshake or for a request. *)
Receive(c) ==
    /\ left > 0
    /\ left' = left - 1
    /\ Step(c, "open", "parse")
    /\ reader' = [reader EXCEPT ![c] = {"next"}]
    /\ UNCHANGED <<tracked, unread, writer>>

-----------------------------------------------------------------------------
(* The reader is empty or the header block not complete: flush, then wait for more. *)
(* The part of a head that is there counts with what will come.                     *)
ParseIncomplete(c) ==
    /\ Step(c, "parse", "settle")
    /\ reader' = [reader EXCEPT ![c] = {}]
    /\ UNCHANGED <<tracked, unread, writer, left>>

(* The BufWriter of the connection is flushed, or dropped with it. *)
Emptied(c) ==
    /\ unsent' = [unsent EXCEPT ![c] = {}]
    /\ deferred' = deferred \ {c}

Settle(c) ==
    /\ Step(c, "settle", "open")
    /\ Emptied(c)
    /\ UNCHANGED <<tracked, request, left>>

(* Bytes of the next request can have come while left is not used up. *)
Brings(r) ==
    /\ "next" \in r => left > 0
    /\ left' = IF "next" \in r THEN left - 1 ELSE left

NextComes(c) == \E r \in {{}, {"next"}} : Brings(r) /\ reader' = [reader EXCEPT ![c] = r]

(* Head and body of a request: what the reader holds behind the head.  The next *)
(* request comes behind the whole body.                                         *)
TakeRequest(c) ==
    /\ reader[c] # {}
    /\ \E u \in BOOLEAN, r \in SUBSET {"body", "next"} :
          /\ IF u THEN "next" \in r => "body" \in r ELSE "body" \notin r
          /\ Brings(r)
          /\ unread' = [unread EXCEPT ![c] = u]
          /\ reader' = [reader EXCEPT ![c] = r]

(* A request is parsed and takes its guard. *)
ParseRequest(c) ==
    /\ Step(c, "parse", "handle")
    /\ TakeRequest(c)
    /\ tracked' = tracked \cup {c}
    /\ UNCHANGED writer

(* A CORS preflight is answered before active_requests.insert. *)
ParsePreflight(c) ==
    /\ HasCors
    /\ Step(c, "parse", "answer")
    /\ TakeRequest(c)
    /\ UNCHANGED <<tracked, writer>>

(* What does not parse is answered without a guard. *)
ParseError(c) ==
    /\ Step(c, "parse", "refuse")
    /\ reader[c] # {}
    /\ \E r \in {{}, {"next"}} : reader' = [reader EXCEPT ![c] = r]
    /\ UNCHANGED <<tracked, unread, writer, left>>

-----------------------------------------------------------------------------
(* body(), before the response or behind it, with "100 Continue" and its flush if the *)
(* client expects that.  What comes next is in the reader, or comes with the rest of  *)
(* the body; if the read fails or is given up what is left of the body is taken for   *)
(* the next request.                                                                  *)
ReadBody(c) ==
    /\ c \in tracked /\ unread[c]
    /\ \E s \in {"handle", "end"} : Step(c, s, s)
    /\ unread' = [unread EXCEPT ![c] = FALSE]
    /\ Emptied(c) \/ UNCHANGED writer
    /\ \/ "next" \in reader[c] /\ reader' = [reader EXCEPT ![c] = {"next"}] /\ UNCHANGED left
       \/ "next" \notin reader[c] /\ NextComes(c)
    /\ UNCHANGED tracked

(* The request's body goes with it, and what the reader holds but for the rest. *)
Forget(c, rest) ==
    /\ unread' = [unread EXCEPT ![c] = FALSE]
    /\ reader' = [reader EXCEPT ![c] = rest]

(* Mutant: a guard outlives the panic that ends its request. *)
Panic_KeepsGuard(c) ==
    /\ c \in tracked
    /\ \E s \in {"handle", "end"} : Step(c, s, "gone")
    /\ Emptied(c)
    /\ Forget(c, {})
    /\ UNCHANGED <<tracked, left>>

(* A handler that panics: the task is unwound, guard and connection are dropped. *)
Panic(c) ==
    /\ c \in tracked
    /\ \E s \in {"handle", "end"} : Step(c, s, "gone")
    /\ tracked' = tracked \ {c}
    /\ Emptied(c)
    /\ Forget(c, {})
    /\ UNCHANGED left

Kind(c) == IF c \in tracked THEN "tracked" ELSE "untracked"

(* A response stays in the BufWriter while the reader is not empty: the next request is *)
(* in it, or unread body of the request that is answered.                               *)
Deferred(c) == reader[c] # {}

(* Mutant: the guard is dropped before the response is on its way. *)
Answer_DropsGuard(c) ==
    /\ \E s \in {"handle", "answer"} : Step(c, s, IF Deferred(c) THEN "end" ELSE "flush")
    /\ unsent' = [unsent EXCEPT ![c] = @ \cup {Kind(c)}]
    /\ deferred' = IF Deferred(c) THEN deferred \cup {c} ELSE deferred
    /\ tracked' = tracked \ {c}
    /\ UNCHANGED <<request, left>>

(* Middlewares and handler have run, or the server answers by itself: write_response. *)
Answer(c) ==
    /\ \E s \in {"handle", "answer"} : Step(c, s, IF Deferred(c) THEN "end" ELSE "flush")
    /\ unsent' = [unsent EXCEPT ![c] = @ \cup {Kind(c)}]
    /\ deferred' = IF Deferred(c) THEN deferred \cup {c} ELSE deferred
    /\ UNCHANGED <<tracked, request, left>>

(* The flush completes: the socket has taken every byte. *)
Flushed(c) ==
    /\ Step(c, "flush", "end")
    /\ Emptied(c)
    /\ UNCHANGED <<tracked, request, left>>

(* The error response; shutdown follows in any case. *)
Refuse(c) ==
    /\ Step(c, "refuse", "shut")
    /\ unsent' = [unsent EXCEPT ![c] = @ \cup {"untracked"}]
    /\ deferred' = IF Deferred(c) THEN deferred \cup {c} ELSE deferred
    /\ UNCHANGED <<tracked, request, left>>

-----------------------------------------------------------------------------
(* discard_unread_body: the reader has not the whole body.  What it has is dropped, *)
(* the BufWriter flushed, and the rest awaited; its turns are taken together.       *)
Discard(c) ==
    /\ unread[c] /\ "next" \notin reader[c]
    /\ Step(c, "end", "drain")
    /\ reader' = [reader EXCEPT ![c] = {}]
    /\ UNCHANGED <<tracked, unread, writer, left>>

DiscardFlushed(c) ==
    /\ unsent[c] # {}
    /\ Step(c, "drain", "drain")
    /\ Emptied(c)
    /\ UNCHANGED <<tracked, request, left>>

(* The rest of the body has come, perhaps with the next request, and is dropped; *)
(* then finish keeps the connection, as in End.                                  *)
Discarded(c) ==
    /\ unsent[c] = {}
    /\ Step(c, "drain", "parse")
    /\ tracked' = tracked \ {c}
    /\ unread' = [unread EXCEPT ![c] = FALSE]
    /\ NextComes(c)
    /\ UNCHANGED writer

(* finish keeps the connection, a body that is wholly in the reader dropped without  *)
(* a flush.  handle_single_request returns and its guard is dropped; the loop of     *)
(* handle_connection goes on with read_request in the same poll.                     *)
End(c) ==
    /\ unread[c] => "body" \in reader[c]
    /\ Step(c, "end", "parse")
    /\ tracked' = tracked \ {c}
    /\ Forget(c, reader[c] \ {"body"})
    /\ UNCHANGED <<writer, left>>

(* finish closes it: the request may have said "connection: close", or have a chunked *)
(* body that is not read; discarding may fail, in a flush, by the 5-second timeout or *)
(* at the end of the stream.                                                          *)
Close(c) ==
    /\ \E s \in {"end", "drain"} : Step(c, s, "shut")
    /\ UNCHANGED <<tracked, request, writer, left>>

(* Mutant: the guard is dropped only when the connection is kept. *)
Shutdown_Leaks(c) ==
    /\ Step(c, "shut", "gone")
    /\ Emptied(c)
    /\ Forget(c, {})
    /\ UNCHANGED <<tracked, left>>

(* connection.shutdown(): the BufWriter is flushed first, and the guard dropped then. *)
Shutdown(c) ==
    /\ Step(c, "shut", "gone")
    /\ Emptied(c)
    /\ tracked' = tracked \ {c}
    /\ Forget(c, {})
    /\ UNCHANGED left

(* The task yields: in middleware or handler, where it waits for the client, or where *)
(* the socket blocks a write or a flush.                                              *)
Yield(c) ==
    /\ Driven(home[c])
    /\ c \in polled
    /\ \/ st[c] \in {"handle", "answer", "refuse", "flush", "drain", "shut", "settle"}
       \/ st[c] = "end" /\ c \in tracked
    /\ polled' = polled \ {c}
    /\ UNCHANGED <<control, home, st, tracked, request, writer, left>>

-----------------------------------------------------------------------------
Connections == <<home, polled, tracked, request, writer, left>>

(* stop_accept_rx.recv() returns: the accept loop is aborted, its listener closed. *)
StopAccept(t) ==
    /\ Running /\ cp # "serving"
    /\ tpc[t] = "accepting" /\ Free(t)
    /\ tpc' = [tpc EXCEPT ![t] = "draining"]
    /\ st' = [c \in Conns |-> IF home[c] = t /\ st[c] = "queued" THEN "gone" ELSE st[c]]
    /\ UNCHANGED <<cp, Connections>>

(* Mutant: the thread's main future ends with the accept loop. *)
WaitForZero_Omitted(t) ==
    /\ Running /\ tpc[t] = "draining" /\ Free(t)
    /\ tpc' = [tpc EXCEPT ![t] = "done"]
    /\ UNCHANGED <<cp, st, Connections>>

(* active_requests.wait_for_zero() returns: so does block_on, and no task of this *)
(* LocalSet is ever polled again.  The thread goes straight on to thread_done.    *)
WaitForZero(t) ==
    /\ Running /\ tpc[t] = "draining" /\ Free(t)
    /\ tracked = {}
    /\ tpc' = [tpc EXCEPT ![t] = "done"]
    /\ UNCHANGED <<cp, st, Connections>>

(* A signal, or a successor that is stable: the accept loops are told to stop. *)
Stop ==
    /\ cp = "serving"
    /\ cp' \in {"prehook", "waitzero"}
    /\ UNCHANGED <<tpc, st, Connections>>

(* The restart's pre-hook is over; a forced restart does not drain. *)
PreHookEnds ==
    /\ cp = "prehook"
    /\ cp' \in {"waitzero", "cutoff"}
    /\ UNCHANGED <<tpc, st, Connections>>

(* The control plane's own wait_for_zero. *)
RequestsComplete ==
    /\ cp = "waitzero" /\ tracked = {}
    /\ cp' = "waitthreads"
    /\ UNCHANGED <<tpc, st, Connections>>

(* Mutant: zero requests are taken for the end, and the threads are not waited for. *)
Exit_NoBarrier ==
    /\ cp = "waitthreads"
    /\ cp' = "exited"
    /\ UNCHANGED <<tpc, st, Connections>>

(* wait_all_done returns, and the process exits. *)
Exit ==
    /\ cp = "waitthreads"
    /\ \A t \in Threads : tpc[t] = "done"
    /\ cp' = "exited"
    /\ UNCHANGED <<tpc, st, Connections>>

-----------------------------------------------------------------------------
Client(c) == Depart(c) \/ Receive(c)

Progress(c) ==
    \/ ParseIncomplete(c) \/ ParseRequest(c) \/ ParsePreflight(c) \/ ParseError(c) \/ Settle(c)
    \/ ReadBody(c) \/ Panic(c) \/ Answer(c) \/ Refuse(c) \/ Flushed(c)
    \/ Discard(c) \/ DiscardFlushed(c) \/ Discarded(c) \/ End(c) \/ Close(c) \/ Shutdown(c)

Main(t) == StopAccept(t) \/ WaitForZero(t)
Control == Stop \/ PreHookEnds \/ RequestsComplete \/ Exit

Next ==
    \/ \E c \in Conns : Client(c) \/ Accept(c) \/ Progress(c) \/ Yield(c)
    \/ \E t \in Threads : Main(t)
    \/ Control
    \/ (~Running /\ UNCHANGED vars)

(***************************************************************************)
(* Fairness.  A thread polls what is ready, and handlers and clients do    *)
(* their part: a handler ends, and a client takes in its responses and     *)
(* sends the bodies that are read.  The server has no timeout around any   *)
(* of these.                                                               *)
(***************************************************************************)
Fairness ==
    /\ \A c \in Conns : WF_vars(Progress(c))
    /\ \A t \in Threads : WF_vars(Main(t))

Safety == Init /\ [][Next]_vars
Spec == Safety /\ Fairness

-----------------------------------------------------------------------------
(* Every variable has its type; a guard is held in a request only, and a thread is *)
(* in the middle of at most one poll.                                              *)
TypeOK ==
    /\ cp \in CpStates
    /\ tpc \in [Threads -> ThreadStates]
    /\ home \in [Conns -> Threads]
    /\ st \in [Conns -> ConnStates]
    /\ polled \subseteq Conns
    /\ \A c, d \in polled : home[c] = home[d] => c = d
    /\ tracked \subseteq Conns /\ \A c \in tracked : st[c] \in InRequest
    /\ unread \in [Conns -> BOOLEAN]
    /\ reader \in [Conns -> SUBSET {"body", "next"}]
    /\ \A c \in Conns : "body" \in reader[c] => unread[c]
    /\ unsent \in [Conns -> SUBSET Kinds]
    /\ deferred \subseteq Conns
    /\ left \in 0..MaxReads

(* No request in progress is stranded on a thread that no longer polls its tasks, *)
(* although each thread waits for a global count that may rise again.             *)
NoStrandedRequest == \A c \in tracked : tpc[home[c]] \in {"accepting", "draining"}

(* A thread that stops polling leaves no response of a tracked request in its      *)
(* BufWriters but one that write_response held back because the reader was not     *)
(* empty, with the next request or with unread body of the same one; and never one *)
(* of a connection that waits for its client: the response is flushed before.      *)
OnlyDeferredAnswersLost ==
    \A c \in Conns :
        ("tracked" \in unsent[c] /\ tpc[home[c]] = "done") =>
            c \in deferred /\ st[c] \notin {"open", "gone"}

(* "guarantees every response has been fully written to the socket": at a graceful *)
(* exit no response is left in a BufWriter.  Responses of requests without a guard *)
(* are.                                                                            *)
EveryResponseWritten == cp = "exited" => \A c \in Conns : unsent[c] = {}

Waits == {m \in {"exit"} : cp \in {"waitzero", "waitthreads"}}
Exited == {m \in {"exit"} : cp = "exited"}

(* The whole shutdown as one drain gate over the requests in progress. *)
Gate == INSTANCE DrainGate
            WITH Ids <- Conns, Waiters <- {"exit"},
                 live <- tracked, waiting <- Waits, returned <- Exited

(* Two waits in a row, on a count that may rise in between and on the threads, let *)
(* the process exit gracefully only at an instant without a request in progress.   *)
ImplementsGateSafety == Gate!GateSafety

(* Once the accept loops are told to stop every thread drains, whatever requests   *)
(* its connections still bring, as long as there are finitely many; or the restart *)
(* was forced.                                                                     *)
ThreadsDrain == (cp # "serving") ~> (cp = "cutoff" \/ \A t \in Threads : tpc[t] = "done")
=============================================================================
