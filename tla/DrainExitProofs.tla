--------------------------- MODULE DrainExitProofs ---------------------------
(***************************************************************************)
(* Safety of graceful shutdown, for all sets of threads and connections.   *)
(***************************************************************************)
EXTENDS DrainExit, TLAPS

(* A tracked response that was not left for later is unsent only while it is being *)
(* flushed, its guard held.                                                        *)
HeldUntilFlushed ==
    \A c \in Conns :
        ("tracked" \in unsent[c] /\ c \notin deferred) => (st[c] = "flush" /\ c \in tracked)

(* Nothing is unsent on a connection without a task, or whose task waits for a request. *)
FlushedBeforeWait == \A c \in Conns : st[c] \in {"queued", "open", "gone"} => unsent[c] = {}

IInv == TypeOK /\ NoStrandedRequest /\ HeldUntilFlushed /\ FlushedBeforeWait

LEMMA InitInv == Init => IInv
BY MaxReadsAssumption DEF Init, IInv, TypeOK, NoStrandedRequest, HeldUntilFlushed, FlushedBeforeWait,
      CpStates, ThreadStates, ConnStates, InRequest, Kinds

(* A task goes on: only on a thread that is driven, and alone on it. *)
LEMMA StepInv ==
    ASSUME TypeOK, NEW c \in Conns, NEW from \in ConnStates, NEW to \in ConnStates,
           Step(c, from, to)
    PROVE  /\ st' \in [Conns -> ConnStates]
           /\ st'[c] = to /\ \A d \in Conns \ {c} : st'[d] = st[d]
           /\ polled' \subseteq Conns
           /\ \A d, e \in polled' : home'[d] = home'[e] => d = e
           /\ tpc[home[c]] \in {"accepting", "draining"}
BY DEF TypeOK, Step, CanRun, Driven, control

(* What comes of the bytes that a request leaves in the reader. *)
LEMMA NextComesTypes ==
    ASSUME TypeOK, NEW c \in Conns, NextComes(c)
    PROVE  /\ left' \in 0..MaxReads
           /\ reader' \in [Conns -> SUBSET {"body", "next"}]
           /\ "body" \notin reader'[c] /\ \A d \in Conns \ {c} : reader'[d] = reader[d]
<1>1. PICK r \in {{}, {"next"}} : Brings(r) /\ reader' = [reader EXCEPT ![c] = r]
  BY DEF NextComes
<1>2. left' \in 0..MaxReads
  BY <1>1, MaxReadsAssumption DEF Brings, TypeOK
<1> QED
  BY <1>1, <1>2 DEF TypeOK

LEMMA TakeRequestTypes ==
    ASSUME TypeOK, NEW c \in Conns, TakeRequest(c)
    PROVE  /\ left' \in 0..MaxReads
           /\ unread' \in [Conns -> BOOLEAN]
           /\ reader' \in [Conns -> SUBSET {"body", "next"}]
           /\ \A d \in Conns : "body" \in reader'[d] => unread'[d]
<1>1. PICK u \in BOOLEAN, r \in SUBSET {"body", "next"} :
          /\ ~u => "body" \notin r
          /\ Brings(r)
          /\ unread' = [unread EXCEPT ![c] = u]
          /\ reader' = [reader EXCEPT ![c] = r]
  BY DEF TakeRequest
<1>2. left' \in 0..MaxReads
  BY <1>1, MaxReadsAssumption DEF Brings, TypeOK
<1> QED
  BY <1>1, <1>2 DEF TypeOK

LEMMA ForgetTypes ==
    ASSUME TypeOK, NEW c \in Conns, NEW rest \in SUBSET {"next"}, Forget(c, rest)
    PROVE  /\ unread' \in [Conns -> BOOLEAN]
           /\ reader' \in [Conns -> SUBSET {"body", "next"}]
           /\ \A d \in Conns : "body" \in reader'[d] => unread'[d]
BY DEF Forget, TypeOK

LEMMA EmptiedTypes ==
    ASSUME TypeOK, NEW c \in Conns, Emptied(c)
    PROVE  unsent' \in [Conns -> SUBSET Kinds] /\ deferred' \subseteq Conns
BY DEF Emptied, TypeOK

(* Where each action takes the task. *)
LEMMA ProgressMoves ==
    ASSUME NEW c \in Conns, Progress(c)
    PROVE  \E from, to \in ConnStates : Step(c, from, to)
<1> USE DEF ConnStates
<1>1. CASE ReadBody(c) \/ Panic(c) \/ Answer(c) \/ Close(c)
  BY <1>1 DEF ReadBody, Panic, Answer, Close
<1>2. CASE ParseIncomplete(c) \/ ParseRequest(c) \/ ParsePreflight(c) \/ ParseError(c) \/ Settle(c)
  BY <1>2 DEF ParseIncomplete, ParseRequest, ParsePreflight, ParseError, Settle
<1>3. CASE Refuse(c) \/ Flushed(c) \/ Discard(c) \/ DiscardFlushed(c) \/ Discarded(c) \/ End(c) \/ Shutdown(c)
  BY <1>3 DEF Refuse, Flushed, Discard, DiscardFlushed, Discarded, End, Shutdown
<1> QED
  BY <1>1, <1>2, <1>3 DEF Progress

(* A guard is held within a request. *)
LEMMA ProgressTracked ==
    ASSUME TypeOK, NEW c \in Conns, Progress(c)
    PROVE  /\ tracked' \subseteq Conns
           /\ \A d \in tracked' : st'[d] \in InRequest
<1>1. PICK from \in ConnStates, to \in ConnStates : Step(c, from, to)
  BY ProgressMoves
<1>2. /\ st'[c] = to /\ \A d \in Conns \ {c} : st'[d] = st[d]
      /\ st[c] = from
  BY <1>1, StepInv DEF Step
<1>3. CASE ParseRequest(c)
  <2>1. st'[c] = "handle" /\ tracked' = tracked \cup {c}
    BY <1>3 DEF ParseRequest, Step, TypeOK
  <2> QED
    BY <1>2, <2>1 DEF TypeOK, InRequest
<1>4. CASE Panic(c) \/ Discarded(c) \/ End(c) \/ Shutdown(c)
  <2>1. tracked' = tracked \ {c}
    BY <1>4 DEF Panic, Discarded, End, Shutdown
  <2> QED
    BY <1>2, <2>1 DEF TypeOK
<1>5. CASE ParseIncomplete(c) \/ ParsePreflight(c) \/ ParseError(c) \/ Settle(c) \/ Refuse(c)
  <2>1. st[c] \notin InRequest /\ tracked' = tracked
    BY <1>5 DEF ParseIncomplete, ParsePreflight, ParseError, Settle, Refuse, Step, InRequest
  <2>2. c \notin tracked
    BY <2>1 DEF TypeOK
  <2> QED
    BY <1>2, <2>1, <2>2 DEF TypeOK
<1>6. CASE ReadBody(c) \/ Answer(c) \/ Flushed(c) \/ Discard(c) \/ DiscardFlushed(c) \/ Close(c)
  <2>1. st'[c] \in InRequest /\ tracked' = tracked
    BY <1>6 DEF ReadBody, Answer, Flushed, Discard, DiscardFlushed, Close, Step, InRequest, TypeOK
  <2> QED
    BY <1>2, <2>1 DEF TypeOK
<1> QED
  BY <1>3, <1>4, <1>5, <1>6 DEF Progress

(* What the reader holds of a body belongs to one that is not read. *)
LEMMA ProgressReader ==
    ASSUME TypeOK, NEW c \in Conns, Progress(c)
    PROVE  /\ unread' \in [Conns -> BOOLEAN]
           /\ reader' \in [Conns -> SUBSET {"body", "next"}]
           /\ \A d \in Conns : "body" \in reader'[d] => unread'[d]
           /\ left' \in 0..MaxReads
<1>1. CASE ParseIncomplete(c) \/ Discard(c)
  BY <1>1 DEF ParseIncomplete, Discard, TypeOK
<1>2. CASE ParseRequest(c) \/ ParsePreflight(c)
  BY <1>2, TakeRequestTypes DEF ParseRequest, ParsePreflight
<1>3. CASE ParseError(c)
  <2>1. PICK r \in {{}, {"next"}} : reader' = [reader EXCEPT ![c] = r]
    BY <1>3 DEF ParseError
  <2> QED
    BY <1>3, <2>1 DEF ParseError, TypeOK
<1>4. CASE Settle(c) \/ Answer(c) \/ Refuse(c) \/ Flushed(c) \/ DiscardFlushed(c) \/ Close(c)
  BY <1>4 DEF Settle, Answer, Refuse, Flushed, DiscardFlushed, Close, request, TypeOK
<1>5. CASE ReadBody(c)
  <2>1. unread' = [unread EXCEPT ![c] = FALSE]
    BY <1>5 DEF ReadBody
  <2>2. CASE "next" \in reader[c] /\ reader' = [reader EXCEPT ![c] = {"next"}] /\ UNCHANGED left
    BY <2>1, <2>2 DEF TypeOK
  <2>3. CASE NextComes(c)
    BY <2>1, <2>3, NextComesTypes DEF TypeOK
  <2> QED
    BY <1>5, <2>2, <2>3 DEF ReadBody
<1>6. CASE Discarded(c)
  BY <1>6, NextComesTypes DEF Discarded, TypeOK
<1>7. CASE Panic(c) \/ Shutdown(c)
  <2>1. Forget(c, {}) /\ UNCHANGED left
    BY <1>7 DEF Panic, Shutdown
  <2> QED
    BY <2>1, ForgetTypes DEF TypeOK
<1>8. CASE End(c)
  <2>1. Forget(c, reader[c] \ {"body"}) /\ UNCHANGED left
    BY <1>8 DEF End
  <2>2. reader[c] \ {"body"} \in SUBSET {"next"}
    BY DEF TypeOK
  <2> QED
    BY <2>1, <2>2, ForgetTypes DEF TypeOK
<1> QED
  BY <1>1, <1>2, <1>3, <1>4, <1>5, <1>6, <1>7, <1>8 DEF Progress

(* What the actions make of the BufWriter. *)
LEMMA ProgressWriter ==
    ASSUME TypeOK, NEW c \in Conns, Progress(c)
    PROVE  \/ Emptied(c)
           \/ UNCHANGED <<unsent, deferred>>
           \/ Answer(c)
           \/ Refuse(c)
BY DEF Progress, ParseIncomplete, ParseRequest, ParsePreflight, ParseError, Settle, ReadBody, Panic,
       Flushed, Discard, DiscardFlushed, Discarded, End, Close, Shutdown, writer

LEMMA ProgressTypeOK ==
    ASSUME TypeOK, NEW c \in Conns, Progress(c)
    PROVE  TypeOK'
<1>1. PICK from \in ConnStates, to \in ConnStates : Step(c, from, to)
  BY ProgressMoves
<1>2. /\ st' \in [Conns -> ConnStates]
      /\ polled' \subseteq Conns /\ \A d, e \in polled' : home'[d] = home'[e] => d = e
      /\ UNCHANGED <<cp, tpc, home>>
  BY <1>1, StepInv DEF Step, control
<1>3. unsent' \in [Conns -> SUBSET Kinds] /\ deferred' \subseteq Conns
  <2>1. CASE Emptied(c)
    BY <2>1, EmptiedTypes
  <2>2. CASE UNCHANGED <<unsent, deferred>>
    BY <2>2 DEF TypeOK
  <2>3. CASE Answer(c) \/ Refuse(c)
    BY <2>3 DEF Answer, Refuse, Kind, Kinds, TypeOK
  <2> QED
    BY <2>1, <2>2, <2>3, ProgressWriter
<1> QED
  BY <1>2, <1>3, ProgressTracked, ProgressReader DEF TypeOK

(* A guard is taken only by a task that is being polled. *)
LEMMA ProgressGuards ==
    ASSUME IInv, NEW c \in Conns, Progress(c)
    PROVE  NoStrandedRequest'
<1>1. PICK from \in ConnStates, to \in ConnStates : Step(c, from, to)
  BY ProgressMoves
<1>2. tpc[home[c]] \in {"accepting", "draining"} /\ UNCHANGED <<tpc, home>>
  BY <1>1 DEF Step, CanRun, Driven, control
<1>3. tracked' \subseteq tracked \cup {c}
  BY DEF Progress, ParseIncomplete, ParseRequest, ParsePreflight, ParseError, Settle, ReadBody, Panic,
         Answer, Refuse, Flushed, Discard, DiscardFlushed, Discarded, End, Close, Shutdown
<1> QED
  BY <1>2, <1>3 DEF IInv, NoStrandedRequest

(* The other connections of the thread are left alone. *)
LEMMA ProgressOthers ==
    ASSUME TypeOK, NEW c \in Conns, Progress(c), NEW d \in Conns, d # c
    PROVE  unsent'[d] = unsent[d] /\ (d \in deferred' <=> d \in deferred) /\ st'[d] = st[d]
           /\ (d \in tracked' <=> d \in tracked)
<1>1. PICK from \in ConnStates, to \in ConnStates : Step(c, from, to)
  BY ProgressMoves
<1>2. st'[d] = st[d]
  BY <1>1, StepInv
<1>3. unsent'[d] = unsent[d] /\ (d \in deferred' <=> d \in deferred)
  BY ProgressWriter DEF Emptied, Answer, Refuse, TypeOK
<1>4. d \in tracked' <=> d \in tracked
  BY DEF Progress, ParseIncomplete, ParseRequest, ParsePreflight, ParseError, Settle, ReadBody, Panic,
         Answer, Refuse, Flushed, Discard, DiscardFlushed, Discarded, End, Close, Shutdown
<1> QED
  BY <1>2, <1>3, <1>4

LEMMA ProgressFlush ==
    ASSUME IInv, NEW c \in Conns, Progress(c)
    PROVE  HeldUntilFlushed' /\ FlushedBeforeWait'
<1> USE DEF IInv
<1>1. /\ ("tracked" \in unsent'[c] /\ c \notin deferred') => (st'[c] = "flush" /\ c \in tracked')
      /\ st'[c] \in {"queued", "open", "gone"} => unsent'[c] = {}
  <2>1. CASE Answer(c)
    <3>1. /\ st[c] # "flush" /\ tracked' = tracked
          /\ st'[c] = IF Deferred(c) THEN "end" ELSE "flush"
          /\ unsent'[c] = unsent[c] \cup {Kind(c)}
          /\ deferred' = IF Deferred(c) THEN deferred \cup {c} ELSE deferred
      BY <2>1 DEF Answer, Step, Deferred, TypeOK
    <3>2. CASE Deferred(c)
      BY <3>1, <3>2
    <3>3. CASE ~Deferred(c)
      BY <3>1, <3>3 DEF HeldUntilFlushed, Kind
    <3> QED
      BY <3>2, <3>3
  <2>2. CASE Refuse(c)
    <3>1. /\ st[c] = "refuse" /\ st'[c] = "shut" /\ deferred \subseteq deferred'
          /\ unsent'[c] = unsent[c] \cup {"untracked"}
      BY <2>2 DEF Refuse, Step, TypeOK
    <3> QED
      BY <3>1 DEF HeldUntilFlushed
  <2>3. CASE Emptied(c)
    <3>1. unsent'[c] = {}
      BY <2>3 DEF Emptied, TypeOK
    <3> QED
      BY <3>1
  <2>4. CASE UNCHANGED <<unsent, deferred>> /\ ~Emptied(c)
    <3>1. \/ ParseIncomplete(c) \/ ParseRequest(c) \/ ParsePreflight(c) \/ ParseError(c)
          \/ ReadBody(c) \/ Answer(c) \/ Refuse(c) \/ Discard(c) \/ Discarded(c) \/ End(c) \/ Close(c)
      BY <2>4 DEF Progress, Settle, Panic, Flushed, DiscardFlushed, Shutdown
    <3>2. st[c] # "flush" /\ st'[c] \notin {"queued", "open", "gone"}
      BY <3>1 DEF ParseIncomplete, ParseRequest, ParsePreflight, ParseError, ReadBody, Answer, Refuse,
                  Discard, Discarded, End, Close, Step, TypeOK
    <3> QED
      BY <2>4, <3>2 DEF HeldUntilFlushed
  <2> QED
    BY <2>1, <2>2, <2>3, <2>4, ProgressWriter
<1> QED
  BY <1>1, ProgressOthers DEF HeldUntilFlushed, FlushedBeforeWait

LEMMA ClientInv ==
    ASSUME IInv, NEW c \in Conns, Client(c) \/ Accept(c) \/ Yield(c)
    PROVE  IInv'
<1> USE DEF IInv, control, request, writer
<1>1. TypeOK'
  <2>1. CASE Receive(c)
    <3>1. Step(c, "open", "parse") /\ st[c] = "open"
      BY <2>1 DEF Receive, Step
    <3>2. left' \in 0..MaxReads
      BY <2>1, MaxReadsAssumption DEF Receive, TypeOK
    <3> QED
      BY <2>1, <3>1, <3>2, StepInv DEF Receive, Step, TypeOK, ConnStates, InRequest
  <2>2. CASE Depart(c) \/ Accept(c) \/ Yield(c)
    BY <2>2 DEF Depart, Accept, Yield, TypeOK, ConnStates, InRequest
  <2> QED
    BY <2>1, <2>2 DEF Client
<1>2. UNCHANGED <<tracked, tpc, home, unsent, deferred>>
  BY DEF Client, Depart, Receive, Accept, Yield, Step
<1>3. NoStrandedRequest'
  BY <1>2 DEF NoStrandedRequest
<1>4. \A d \in Conns : (st[d] = "flush" => st'[d] = "flush")
                        /\ (st'[d] \in {"queued", "open", "gone"} => st[d] \in {"queued", "open", "gone"})
  BY DEF Client, Depart, Receive, Accept, Yield, Step, TypeOK
<1>5. HeldUntilFlushed'
  BY <1>2, <1>4 DEF HeldUntilFlushed
<1>6. FlushedBeforeWait'
  <2>1. ASSUME NEW d \in Conns, st'[d] \in {"queued", "open", "gone"} PROVE unsent'[d] = {}
    BY <1>2, <1>4, <2>1 DEF FlushedBeforeWait
  <2> QED
    BY <2>1 DEF FlushedBeforeWait
<1> QED
  BY <1>1, <1>3, <1>5, <1>6

(* A thread's main future returns only with no guard anywhere. *)
LEMMA MainInv ==
    ASSUME IInv, NEW t \in Threads, Main(t)
    PROVE  IInv'
<1> USE DEF IInv, Connections, request, writer
<1>1. TypeOK'
  BY DEF Main, StopAccept, WaitForZero, TypeOK, ThreadStates, ConnStates, InRequest
<1>2. NoStrandedRequest'
  BY DEF Main, StopAccept, WaitForZero, TypeOK, NoStrandedRequest
<1>3. /\ UNCHANGED <<tracked, unsent, deferred>>
      /\ \A c \in Conns : (st[c] = "flush" => st'[c] = "flush")
                        /\ (st'[c] \in {"queued", "open", "gone"} => st[c] \in {"queued", "open", "gone"})
  BY DEF Main, StopAccept, WaitForZero, TypeOK
<1>4. HeldUntilFlushed'
  BY <1>3 DEF HeldUntilFlushed
<1>5. FlushedBeforeWait'
  <2>1. ASSUME NEW c \in Conns, st'[c] \in {"queued", "open", "gone"} PROVE unsent'[c] = {}
    BY <1>3, <2>1 DEF FlushedBeforeWait
  <2> QED
    BY <2>1 DEF FlushedBeforeWait
<1> QED
  BY <1>1, <1>2, <1>4, <1>5

LEMMA ControlInv ==
    ASSUME IInv, Control
    PROVE  IInv'
<1> USE DEF IInv, Connections, request, writer, Control, Stop, PreHookEnds, RequestsComplete, Exit
<1>1. TypeOK'
  BY DEF TypeOK, CpStates
<1>2. NoStrandedRequest'
  BY DEF NoStrandedRequest
<1>3. HeldUntilFlushed' /\ FlushedBeforeWait'
  BY DEF HeldUntilFlushed, FlushedBeforeWait
<1> QED
  BY <1>1, <1>2, <1>3

LEMMA NextInv == IInv /\ [Next]_vars => IInv'
<1> SUFFICES ASSUME IInv, [Next]_vars PROVE IInv'
  OBVIOUS
<1>1. ASSUME NEW c \in Conns, Progress(c) PROVE IInv'
  BY <1>1, ProgressTypeOK, ProgressGuards, ProgressFlush DEF IInv
<1>2. CASE UNCHANGED vars
  BY <1>2 DEF vars, control, request, writer, IInv, TypeOK, NoStrandedRequest, HeldUntilFlushed, FlushedBeforeWait
<1> QED
  BY <1>1, <1>2, ClientInv, MainInv, ControlInv DEF Next

THEOREM Invariance == Safety => []IInv
BY InitInv, NextInv, PTL DEF Safety

(* The types, guards held within requests only, one task polled at a time per thread. *)
THEOREM TypeCorrect == Safety => []TypeOK
<1>1. IInv => TypeOK
  BY DEF IInv
<1> QED
  BY <1>1, Invariance, PTL

(* No listener thread leaves block_on with one of its requests in progress. *)
THEOREM NothingStranded == Safety => []NoStrandedRequest
<1>1. IInv => NoStrandedRequest
  BY DEF IInv
<1> QED
  BY <1>1, Invariance, PTL

(* What the drain can lose of a tracked request is a response that write_response left *)
(* in the BufWriter because the reader was not empty, and no one on a connection that  *)
(* waits for its next request.                                                         *)
THEOREM LossIsDeferred == Safety => []OnlyDeferredAnswersLost
<1>1. IInv => OnlyDeferredAnswersLost
  BY DEF IInv, HeldUntilFlushed, FlushedBeforeWait, NoStrandedRequest, OnlyDeferredAnswersLost
<1> QED
  BY <1>1, Invariance, PTL

(* Every step of the shutdown is a step of the gate over the requests, or leaves it alone. *)
LEMMA StepSimulates == IInv /\ [Next]_vars => [Gate!GateNext]_Gate!gvars
<1> SUFFICES ASSUME IInv, [Next]_vars PROVE [Gate!GateNext]_Gate!gvars
  OBVIOUS
<1> USE DEF IInv, TypeOK, InRequest, control, Connections
<1>1. ASSUME NEW c \in Conns, ParseRequest(c) PROVE Gate!Enter(c)
  BY <1>1 DEF ParseRequest, Step, Gate!Enter, Waits, Exited
<1>2. ASSUME NEW c \in Conns, Panic(c) \/ Discarded(c) \/ End(c) \/ Shutdown(c) PROVE Gate!Leave(c) \/ UNCHANGED Gate!gvars
  <2>1. tracked' = tracked \ {c} /\ cp' = cp
    BY <1>2 DEF Panic, Discarded, End, Shutdown, Step
  <2>2. CASE c \in tracked
    BY <2>1, <2>2 DEF Gate!Leave, Waits, Exited
  <2>3. CASE c \notin tracked
    <3>1. tracked' = tracked
      BY <2>1, <2>3
    <3> QED
      BY <2>1, <3>1 DEF Gate!gvars, Waits, Exited
  <2> QED
    BY <2>2, <2>3
<1>3. ASSUME NEW c \in Conns,
             \/ ParseIncomplete(c) \/ ParsePreflight(c) \/ ParseError(c) \/ Settle(c)
             \/ ReadBody(c) \/ Answer(c) \/ Refuse(c) \/ Flushed(c)
             \/ Discard(c) \/ DiscardFlushed(c) \/ Close(c) \/ Client(c) \/ Accept(c) \/ Yield(c)
      PROVE  UNCHANGED Gate!gvars
  BY <1>3 DEF ParseIncomplete, ParsePreflight, ParseError, Settle, ReadBody, Answer, Refuse, Flushed,
              Discard, DiscardFlushed, Close, Client, Depart, Receive, Accept, Yield, Step,
              Gate!gvars, Waits, Exited
<1>4. ASSUME NEW t \in Threads, Main(t) PROVE UNCHANGED Gate!gvars
  BY <1>4 DEF Main, StopAccept, WaitForZero, Gate!gvars, Waits, Exited
<1>5. CASE (Stop \/ PreHookEnds) /\ cp' = "waitzero"
  <2>1. Gate!Call("exit")
    BY <1>5 DEF Stop, PreHookEnds, Gate!Call, Waits, Exited
  <2> QED
    BY <2>1 DEF Gate!GateNext
<1>6. CASE (Stop \/ PreHookEnds) /\ cp' # "waitzero"
  BY <1>6 DEF Stop, PreHookEnds, Gate!gvars, Waits, Exited
<1>7. CASE RequestsComplete
  BY <1>7 DEF RequestsComplete, Gate!gvars, Waits, Exited
<1>8. CASE Exit
  <2>1. tracked = {}
    BY <1>8 DEF Exit, NoStrandedRequest
  <2>2. Gate!Return("exit")
    BY <1>8, <2>1 DEF Exit, Gate!Return, Waits, Exited
  <2> QED
    BY <2>2 DEF Gate!GateNext
<1>9. CASE UNCHANGED vars
  BY <1>9 DEF vars, Gate!gvars, Waits, Exited
<1> QED
  BY <1>1, <1>2, <1>3, <1>4, <1>5, <1>6, <1>7, <1>8, <1>9
     DEF Next, Progress, Control, Gate!GateNext

(* A graceful exit implements the drain gate: no request in progress is cut off. *)
THEOREM Refinement == Safety => ImplementsGateSafety
<1>1. Init => Gate!GateInit
  BY DEF Init, Gate!GateInit, Waits, Exited
<1> QED
  BY <1>1, StepSimulates, Invariance, PTL DEF Safety, ImplementsGateSafety, Gate!GateSafety
=============================================================================
