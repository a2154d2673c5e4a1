# Verification project for mhttp

TLA+ models of the `http` crate of this repository (`src/src/`), checked with TLC and, where
it says so below, proved with TLAPS. Paths are relative to the repository's parent, so
`src/src/server.rs` is the server.

The crate is a thread-per-core HTTP/1.1 server on tokio: one OS thread per CPU core with a
current-thread runtime and a `LocalSet`, all listening on one port with `SO_REUSEPORT`; a
control plane that restarts the program in place, handles SIGINT and SIGTERM and drains before
it exits; connections with pipelining and keep-alive; a routing tree; bodies, CORS, cookies,
static files, compression and macros on top.

## 1. Inventory

| Component | State | Operations | Talks to |
|---|---|---|---|
| `ActiveSet` / `ActiveGuard` (`active_set.rs`) | atomic `count`, `Notify`, optional map of requests | `insert`, `update`, `value`, `snapshot`, clone and drop of guards, `wait_for_zero` | used by every request, every listener thread's main future and the control plane |
| `ThreadDrainBarrier` (`server.rs:68-100`) | atomic `remaining`, `Notify` | `thread_done`, `wait_all_done` | listener threads, control plane |
| Control plane (`listen`, `server.rs:606-813`) | `restart_in_progress`, `child_pid`, restart and result channels, signal streams | restart, stability verdict, handover with pre-hook, SIGINT, SIGTERM, force or graceful exit | child processes, stability tasks, handlers (`RestartHandle`), accept loops (broadcast) |
| Listener threads (`server.rs:516-604`) | accept task, local connection tasks, main future | accept, poll, stop, wait for zero, leave | kernel, `ActiveSet`, barrier |
| `Connection` (`connection.rs`) | reader buffer, `BufWriter`, `has_written_response`, keep-alive | `read_request`, `write_response`, `shutdown` | transport |
| Request handling (`HttpCall`, `handle_single_request`, `finish`) | the request, its `BodyState`, guard, response hook | parse, preflight, route, middlewares, handler, `body`, `discard_unread_body`, keep or close | `Connection`, `ActiveSet`, `Router`, `Cors` |
| Bodies (`body.rs`) | none of their own | `read_exact`, `read_chunked`, JSON, forms, multipart | `Connection` |
| `Router`, `RouteDefinition`, the route macros | a prefix tree, read-only once built | `build`/`insert`, `find`; pattern validation, at compile time and at start | handlers |
| `HttpRequest`, `FieldLines` | the parsed header block | parse, lookup, set, remove | `Connection`, `HttpCall` |
| `CookieStore` | cookies of a request or a response | parse, `set`, `remove`, lifetimes and dates | `HttpRequest`, `HttpResponse` |
| `Multipart` | none | `parse`, `as_multipart` | handlers |
| `HttpResponse`, `Compress` | status, fields, body | builders, `compress`, send | `Connection` |
| `Cors`, static files | configuration | preflight, header decoration; ranges | |
| TLS, transport, builder, macros | configuration, streams | start-up, forwarding, code generation | |

What is hard here, and hard to test: two counters with notifications that several threads wait
on; a global request count that each thread waits for on its own while requests go on; tasks
that are dropped, not finished, when their thread leaves; signals, verdicts and restart requests
racing in one `select!`; flushes deferred while the reader holds bytes against reads that block;
bodies that handlers leave unread, half read or abandoned; timeouts that race the bytes they wait
for; several hand-written readers of texts (patterns, header blocks, forms, cookies) that must
agree with each other and with whoever wrote the text. `PROJECT.json` ("hazards") lists each of these at its line, with the properties that would
catch it.

What makes the components correct:

- *counters*: a wait returns only at an instant when nothing is counted, and returns if that lasts;
- *control plane*: one restart attempt at a time; the id that signals kill is the child's; the
  accept loops stop for a signal or one live successor; only a forced restart skips the drain;
- *shutdown*: no request that holds a guard is cut off, although threads leave one by one;
- *connection*: one response per request, in order; parsing resumes at a request boundary;
  nothing waits for the client with responses unflushed; the task ends when the client leaves;
- *router*: the most specific registered route that matches, with its own captures;
- *responses*: the client finds the end of each one; ranges and CORS grants are what they say;
- *texts*: what a parser makes of a pattern, form, cookie or header block is what it was written
  to say.

## 2. Modules

```
DrainGate            abstract: members enter and leave, waiters return only at "empty"
  ^        ^        ^
  |        |        |   (refinement: INSTANCE DrainGate WITH ...)
ActiveSet  ThreadDrainBarrier  DrainExit      each with a ...Proofs module
ControlPlane  (+ ControlPlaneProofs)
Connection    (+ ConnectionProofs)    MCConnection EXTENDS Connection, RequestHead
Router        (+ RouterProofs)        MCRouter     EXTENDS Router, RoutePattern
Response      (+ ResponseProofs)      MCResponse
Tokens        splitting and trimming of texts that are sequences of tokens
RequestHead   RoutePattern   Multipart   Cookies      the parsers, as operators
Texts         EXTENDS the four parsers (+ TextsProofs); MCTexts has the texts
```

**DrainGate** is the specification of what both counters promise: `Enter`, `Leave`, `Call`,
`Return`, with `Return` enabled only when `live = {}`. It knows no atomics and no notification.

**ActiveSet** (`active_set.rs`). `count` is the atomic counter, `map` the telemetry map,
`gpc`/`strong` the state and reference count of each guard, `wpc`/`notified` each waiter and its
`Notified` future. Every atomic operation of the code is an action: `InsertCount` (fetch_add),
`InsertMap`, `Update`, `CloneGuard`, `DropClone`, `DropMap`, `DropCount` (fetch_sub),
`NotifyWaiters`; `WaitCall`, `WaitEnable`, `WaitLoad`, `WaitPoll`, `WaitWake`. Telemetry on or off is chosen
initially. tokio's `notify_waiters` reaches every future that has been enabled and stores no
permit (`Listening`).

**ThreadDrainBarrier** (`server.rs:68-100`). The same granularity for the second counter:
`ThreadDone` (fetch_sub), `NotifyWaiters`, `LoadRemaining`, `CreateNotified`, `Wake`. Here the
code loads first and creates the future afterwards, and the model shows what that loses. A thread
begins as `starting` and may panic there (`Panic`: the unwraps before `block_on`); a `dead` thread
owes its signal for ever.

**ControlPlane** (`server.rs:49-65`, `606-813`). `pc` is the loop (`top`, `select`, `prehook`,
`draining`, `exited`); `inProgress` and `childPid` are the code's variables; `task` is each
attempt's stability task up to the receipt of its verdict; `proc`/`pid` the child processes and
`others` unrelated processes, to which the ids of reaped children may pass. One action per
`select!` arm and outcome (`RestartDropped`, `RestartSpawned`, `HandOver`, `Unlock`, `SigInt`,
`SigTerm`), `CheckStability` for the task, `PreHookReturns`/`PreHookTimeout`, `ForceExit`/
`GracefulExit`. Taking an arm drops the other arms' futures (`Taken`): the `ctrl_c()` future
is created in each iteration and loses its SIGINT, the SIGTERM stream is created once.

**DrainExit** (`server.rs:516-604`, `790-813`, `816-1046`). Threads and connections together.
`polled` holds the connections whose task is in the middle of a poll: a thread runs one task at
a time, and its main future gets its turn only when none is (`Free`), while the other threads
and the control plane see every intermediate value of the global count. A connection goes
through `queued`, `open` (handshake, idle, or part of a header block), `parse`, `handle` (or `answer`
for a preflight, `refuse` for what does not parse), `flush`, `end`, `drain` (`discard_unread_body`
waits for the rest of a body) or `shut`, and back to `open`, through the flush of `settle`, or on to
the next request. `tracked` are the guards, `unsent` what its BufWriter holds, and `reader` whose bytes
its reader holds: of the current request's own body, which is `unread`, and of what comes next.
`write_response` leaves a response in the BufWriter while the reader is not empty (`Deferred`), so
also for unread body of the request that it answers; `finish` drops such a body without a flush if
all of it has come (`End`), and flushes before it waits for the rest (`Discard`, `DiscardFlushed`,
`Discarded`). What becomes of the bytes in detail is in Connection. `WaitForZero` is a thread's main future returning: from then
on `Driven` is false and no task of its LocalSet moves again. Both waits are taken at the level of
`DrainGate`, which the two modules above implement; the barrier's lost wakeup is therefore not
repeated here.

**Connection** (`connection.rs`, `body.rs:277-372`, `HttpCall` and `finish` in `server.rs`). The
client's bytes are a sequence of tokens, and the buffers are positions in it: consumed up to `rd`,
in the reader up to `buf`, in the kernel up to `sent`. Reads return any nonempty part of what has
been sent, so every segmentation of a pipeline happens. A request is some `open` tokens, a `head`
and a body of `data`, `last`, `blank`, `trail` or `bad` tokens. A head carries two things: what the
server makes of it (`frame`, `len`, `close`, ... computed by `Understood` of RequestHead from its
field lines) and, as `sends`, the framing of the body that the client really sends; where the two
disagree, parsing resumes in the middle of a body, and what is left of it may pass for a request
(`MayPass`, since an unknown method is GET). `out` is the BufWriter, `delivered` what the socket
has taken. Handlers answer at most once, read the body or not, before or after they answer; with
`MayAbandon` they may drop the future of `body()` or go on after its failure. The client may stall
(`Quiet`: a timeout around the read may elapse), close its side (`eof`) or reset the connection.
A header block ends behind `\r\n\r\n`: the token of a head, a last chunk without trailers, the last line of
trailers, or a blank line that has something before it in the reader (`EndsBlock`); a last chunk that
trailers follow ends in one `\r\n` and ends no block. `StreamsAssumption` says what a stream is: behind every head that parses comes the body that the
head declares (`BodyFollows`), up to the next request (`Boundary`) or to trailers (`MoreLines`),
and a head whose framing the server misreads is taken for one without a body (`MayBeRead`), which
is what `HeadsUnderstood` of Texts says of `Understood`.

**RequestHead** (`request.rs:143-229`, `field_lines.rs:120-197`): `FieldsOf` joins the lines of one
name, `Understood` reads framing, `close`, `expect` and the method from them. A value is the sequence of
its members between commas; an empty value has one member, `""`, so that it leaves its comma behind when
it is joined with another. `Numeral`, a constant, is what `str::parse::<usize>` makes of the texts it
accepts.

**Router** (`router.rs`). A node is named by the edges that lead to it, so inserting is one
action, `Insert`; `Find` is the search with its three branches, its backtracking and its stack of
captures, a recursive function on how much of the path is left, with `Visit` as the body of the
code's recursion. `RoutesAssumption` takes routes as the validation lets them pass: a catch-all
is the last segment. `Best` is the reference: all registered routes that match, the most specific of them,
the first among equals.

**RoutePattern** (`route_definition.rs`, `router.rs:8-28` and `219-225`, `macros/src/lib.rs:217-402`).
The three readers of a pattern: `MacroAccepts` (compile time), `RuntimeAccepts` (start), and
`SegmentsOf`, what the router makes of it. Both validations are one pass over the tokens: `Scan` is
the body of the loop at start-up, which refuses a `{` inside a parameter, `MacroScan` that of the
macro, which takes all up to the next `}` for a name and judges it there. MCRouter builds its routes through the last two: a text
that the validation refuses is not registered, one that it lets pass is taken apart as the router
does it.

**Multipart** (`body.rs:10-199`, `389-407`) and **Cookies** (`cookie_store.rs`): `ReadPart` is one round of
the loop of `parse`, for the part at `pos`, and `ParseForm` the loop; `Headers` reads the lines of a
head, of which the last that gives a name, a file or a type counts. `ReadCookies`, `Call` (set and remove),
both loops recursive functions over the pieces that `Split` makes,
`Seconds` and `Timestamp` in a word of `WordSize` values, which wraps as a release build does (a
debug build would panic), and `DateOf`, the civil date of a day.

**Texts** reads one text at a time: `ReadPattern`, `ReadForm`, `ReadJar`, `FillStore`,
`WriteLifetime`, `WriteDate`, `ReadHead`. Its properties compare what the parser returned with a
reference: the form as it was encoded, the pairs the client wrote, the calendar, HTTP's own rules for
framing. Encoders of the client are operators of the same modules. Its assumptions say what the
texts are written from: cookies have names without separators and values that are not padded
(`JarsAssumption`), lifetimes fit in a word, days are counted from 1970; a client puts neither
quotes nor line ends into the name of a part, nor its delimiter into a content, and the wrong
delimiter that a server looks for is not in the form by chance (`FormsAssumption`). Nothing is
assumed of patterns.

**Response** (`response.rs`, `field_lines.rs`, `compress.rs`, `static_files.rs`, `cors.rs`, and
the head and body written by `connection.rs:163-307`). One response from the request to the wire.
The calls of the builder types are actions (`Status`, `Header`, `Unheader`, `Bytes`, `Stream`,
`NoContents`, `Compress`, `Send`), in every order the types allow; `ServeRange`, `ServeWhole`,
`ServeNothing`, `Preflight` and `Refuse` are the responses the crate builds itself. `lines` is
`FieldLines`: setting a name that is there appends to its value. `Wire` is what follows the head,
byte by byte or chunk by chunk, and `FindsEnd` a client that applies the framing rules of HTTP/1.1
to the head. The two look for the coding in different ways: `write_body` writes chunks if the value of
`transfer-encoding` contains `chunked` (`WritesChunks`, so also for `x-chunked`, and not for `Chunked`),
a client wants it as the last coding, in any case of letters (`EndsInChunked`). A file has a length when it is looked up and another when it is read.

## 3. Runs

| Run | Instance | Shows |
|---|---|---|
| `active_set` | 3 requests, 2 waiters, up to 2 clones | types, exact counter, the map mirrors the guards, no lost wakeup, refinement of `DrainGate` with its fairness |
| `thread_barrier` | 5 threads, which start or panic | returns only after all threads; one notifier; a waiter that is parked in time is released unless a thread died |
| `thread_barrier_lost` | 2 threads | **violation**: `SignalledBarrierReleases` |
| `control_plane` | 2 children, 2 pids, queue of 1 | the lock, the pid, the kill, that only a forced handover cuts requests off, SIGTERM, end of every attempt |
| `control_plane_sigint` | same | **violation**: `SigIntObeyed` |
| `connection` | 14 pipelines of 2-3 requests, 1 middleware, abandoned bodies | order and number of responses, boundaries, flushes, answers, end of the task |
| `connection_bodywait` | GET then POST | **violation**: `EarlierAnswersFlushed` |
| `drain_exit` | 2 threads, 2 connections, bytes arriving twice | no stranded request, only deferred responses lost, refinement of `DrainGate` by the whole shutdown, threads drain |
| `drain_exit_unwritten` | 1 thread, 1 connection | **violation**: `EveryResponseWritten` |
| `router` | 3 of all short routes in every order, all paths up to 3 segments | the search agrees with the reference; captures and names |
| `response` | bodies and files of 0 to 2 bytes, 2 further calls, all ranges and preflights | framing, ranges, CORS grants |
| `texts` | patterns of up to 5 tokens or 3 segments, forms of up to 2 parts cut anywhere, jars of 3 cookies, 3 calls, days up to March 2100, heads of up to 3 lines | each parser against its reference |

*Why the bounds are enough.* `active_set`: a lost wakeup or a wrong transition to zero needs a
drop, a concurrent insert and a waiter between check and await; a third request gives a zero that
rises again and a second waiter shows that one notification serves all. `thread_barrier`: more
threads only repeat a step; two are enough for the loss. `control_plane`: two children give an
attempt after a failed one, and two process ids a reused one; `MaxQueue` (restart requests waiting
in the unbounded channel) is 1, so a request can wait while an attempt is under way and be
refilled as soon as it is taken. `connection`: the streams have every framing (none, length,
chunked, with `Expect`), slow and over-long header blocks (`MaxReader` tokens stand for 64 KiB), a
body over `MaxBody`, requests that close, preflights, requests that do not parse, and bodies the
server misreads (a length given twice, a coding in capitals, trailers, a chunk that is none); a
third request shows what the second leaves behind. `drain_exit`: `MaxReads` bounds how often bytes
arrive on all connections together; two arrivals on two connections of one or two threads give a
count that reaches zero, lets one thread go and rises again, and a pipelined pair on one connection.
Bytes that are read as a request's count as an arrival, also the rest of a body that was given up; the
body of a request comes, wholly, in part or not at all, with its head.
`router`: patterns of two segments and a catch-all, and paths one segment longer, make every branch
fail at every depth; three routes let all three kinds of edges compete at one node. `response`:
lengths 0, 1 and 2 give empty bodies (and chunks), a range with a byte before or behind it, and
readers that are too short or too long; two further calls (`MaxEdits`) let a handler set
`transfer-encoding` twice, set and remove it, or set it and change the status, with the codings
`chunked`, `Chunked`, `x-chunked` and `gzip`, and let it try to set a length or a grant of its own. `texts`: a parser
looks at one token and the next; two parts show what a part leaves to the one behind it, three
cookies or calls a first, a middle and a last one of a name, and the days pass February of 2000,
which is leap, and of 2100, which is not. The word has 30 bits instead of 64 and the clock stands
at 1,000,000: the products and sums on both sides of each overflow are among the lifetimes.

*Deadlock* is checked in all runs but those of ThreadDrainBarrier, where the lost wakeup really
stops the system: `ThreadDrainBarrier.cfg` says CHECK_DEADLOCK FALSE.

`InStep` is an equivalence: `Upset` lists exactly what makes a client lose its step. A handler
may set `transfer-encoding` itself (it is not among the reserved fields), which goes wrong with
anything but a sole last `chunked`, in a spelling that `write_body` does not know, without a body or
with an empty one; a reader may fail in the middle of its chunks, or not yield what was announced. In all of these `send` ignores the error and the connection is kept. That
`stream` announces its length twice is harmless: equal lengths count as one.

`AtBoundary` is one too: parsing resumes at a request boundary unless the head was misread
(`Misread`), a handler gave up on the body while it was being read or its reading failed
(`Unfinished`), or trailers followed the last chunk (`TrailersLeft`), and in those cases it does
not. `HeadsUnderstood` names the misread heads: a `content-length` that is repeated counts as 0,
a coding that is not in lower case is not seen. `CookiesKeepTheirWord` and `FormsReadBack` name
their exceptions in the same way.

### Fairness, and what justifies it

- ActiveSet, ThreadDrainBarrier: a running thread takes its next atomic step, a woken task is
  polled. Nothing is assumed about when guards are dropped. Listener threads start or panic; those
  that start signal in the end.
- ControlPlane: weak fairness of the loop's own steps and of the stability task's sleep. Strong
  fairness of the arms, because `select!` polls them from a random one: an arm that is ready
  again and again is taken. The pre-hook need not return; its timeout elapses.
- Connection: weak fairness of the connection's task as a whole. Handlers that are given a turn
  make a step; the client owes nothing, not even its bytes.
- DrainExit: weak fairness of each connection's task and each thread's main future. This
  includes that handlers end and that clients take in their responses and send the bodies that are
  read: none of these is under a timeout in the code. Nothing is assumed of bodies that are discarded:
  the 5 seconds of `discard_unread_body` elapse (`Close`). `ThreadsDrain` holds for finitely many arrivals; connections that bring requests for
  ever can keep the count above zero at every poll of a main future.

### Observations

No run is spent on these; they follow from the definitions named.

- `static_files.rs:156`: the whole-file response adds `accept-ranges`, with the comment "Tells the
  browser it CAN seek in the future". It does not: `accept-ranges` is a reserved field
  (`response.rs:12-30`), which `add_header` drops, and only 206 responses carry it, which use
  `__add_header_internal` (`Whole`, `Partial`).
- `server.rs:322-323`: `discard_unread_body` is there "to prevent corrupting the next Keep-Alive
  request". Behind a `body()` that failed or was dropped it does not prevent that (`Unfinished` of
  `AtBoundary`, below).
- `connection.rs:244`: a response stays in the BufWriter while the reader holds anything, also when that
  is unread body of the request just answered, and not a pipelined request as the comment above it
  says. `discard_unread_body` then drops the body and flushes nothing (`server.rs:350-362`); the next
  `read_request` flushes, unless the guard was the last one and the thread leaves first
  (`OnlyDeferredAnswersLost`).
- `response.rs:238`: `compress` looks for `accept-encoding` among the fields of the response,
  where nothing can put it, so that it never compresses (`Encodings`, `Compressed`). With the
  encodings of the request instead, `InStep` fails: `content-length` would name both lengths.
- `server.rs:1016`: CORS fields are added to refusals (404, 405) only; what handlers send has none
  (`GrantsAsConfigured`).
- `static_files.rs:127`: a suffix range (`bytes=-n`) is read as `0` to `n`.
- `server.rs:193`, `333`: an abandoned or failed `body()` leaves `Reading` behind, which
  `discard_unread_body` takes for a body that has been read; its rest is parsed as the next request
  (`Unfinished`). `body.rs:335`: so is what follows the first trailer line (`TrailersLeft`).
- `request.rs:176`: an unknown method is taken for GET, so that a line of such a rest with two
  spaces in it is answered (`MayPass`).
- `server.rs:204`: a handler that answers before it reads the body sends `100 Continue` behind its
  final response, also behind one that announced the close.
- `field_lines.rs:156`: lines of one name are joined by a comma, cookies included, where the comma
  does not separate: the cookies at the seam become one (`Fused`).
- `body.rs:395`: a boundary in quotes, which HTTP allows, is refused, like a missing one; so is a form
  without a part. `body.rs:180`: a quoted name is cut at a semicolon. A form that is cut off right
  behind a delimiter passes for complete.
- `cookie_store.rs:142`: `set` trims a name and `remove` does not: a cookie added with a padded
  name is not removed by it. `cookie_store.rs:37`: lifetimes of more seconds than 64 bits hold
  wrap around.
- `macros/src/lib.rs:366`: a `#[static_files]` path without a leading slash compiles and panics at
  the start. A segment that mixes braces with other text is accepted and taken for a literal.

### What the violations say

1. `server.rs:93-96`: `wait_all_done` checks the counter before it creates the `Notified` future.
   If the last `thread_done` falls in between, the process never exits. `wait_for_zero` in
   `active_set.rs:124-134` does it in the right order, and `NoLostWakeup` is proved for it.
2. `server.rs:740`: `ctrl_c()` inside the loop; a SIGINT that arrives while another arm runs is
   dropped with the old future. SIGTERM is not (`SigTermObeyed` holds).
3. `body.rs:293` (and 305-372): reads of a body do not flush earlier pipelined responses, which
   `connection.rs:136-138` says must happen before every blocking read.
4. `server.rs:897` with `803-804`: responses of requests without a guard (preflights, parse
   errors), and those held back because the reader was not empty, can be dropped by a graceful exit.

## 4. Proofs

| Module | Theorems |
|---|---|
| `ActiveSetProofs` | `TypeCorrect`, `CounterExact`, `WakeupNotLost`, `ZeroClean`, `HeldRecorded`, `MapMirrored`, `Refinement` |
| `ThreadDrainBarrierProofs` | `TypeCorrect`, `ReturnSound`, `OneNotifier`, `Refinement` |
| `ControlPlaneProofs` | `TypeCorrect`, `RestartLock`, `NoChildLeft`, `OneSuccessor`, `ForcedExitOnly`, `HandoverSound`, `StrayKillWindow` |
| `ConnectionProofs` | `TypeCorrect`, `AnswersInOrder`, `CloseIsFinal`, `FlushedBeforeWaiting`, `KeptAtBoundary` |
| `DrainExitProofs` | `TypeCorrect`, `NothingStranded`, `LossIsDeferred`, `Refinement` |
| `RouterProofs` | `TypeCorrect`, `RoutesKept`, `SearchIsRight`, `CapturesKept` |
| `ResponseProofs` | `TypeCorrect`, `InStepAlways`, `RangesHonest`, `GrantsKept` |
| `TextsProofs` | `HeadsAreUnderstood`, `CookiesAreKept`, `FormsAreReadBack`, `PatternsAreAgreed` |

Each holds for every value of the constants under the ASSUMEs of its module: finite sets where
the code counts their members, natural numbers as bounds, and what the elements of a set of
inputs look like (streams, routes, paths, requests, configurations, forms, jars, header blocks).
None of them restricts what handlers do: `UserLinesAssumption` of Response lets handlers set any
field to any value. TLC evaluates the assumptions on the instances of the runs.

What a recursive function computes is proved by induction on a set: the numbers for which the
claim holds contain 0 and the successor of each member, hence every natural number, since a
least one outside would follow another (`<` is well founded). No induction theorem with
an operator parameter is used.

- **ActiveSet.** The counter is a cardinality: the inductive invariant says that it equals the
  number of guards from `counted` to `removed`, and that a waiter which has enabled its future
  is notified or will see a positive counter. The step that matters is `DropCount`: it removes
  one member and one unit together, and the guard that takes the counter to zero owes the
  notification.
- **ThreadDrainBarrier.** `LastThreadNotifies` is inductive with the types; `ReturnMeansAllDone`
  follows because a zero counter means an empty set of running threads. Its liveness is false.
- **ControlPlane.** The two halves of `OneAttempt` hold each other up: an attempt is
  pending exactly while the lock is held, and the recorded id is that of the pending attempt.
  What signals and handover do follows from them.
- **DrainExit.** `NoStrandedRequest` is inductive because a thread leaves only at a global zero
  and guards are taken only by tasks that are polled; the exit then finds every thread gone and
  therefore no guard, whatever the count did since the control plane saw it at zero. For
  `OnlyDeferredAnswersLost` the invariant is strengthened twice: unless it was held back because the
  reader was not empty, a tracked response is unsent only during its flush, with its guard
  (`HeldUntilFlushed`); and a connection that waits for its client has nothing unsent
  (`FlushedBeforeWait`).
- **Connection.** `delivered \o out` is the sequel of responses, and flushing does not change it.
  The invariant says which requests it answers up to at each place of the code (`WriterOK`,
  `Phases`), that every answer has the number of a request that has been parsed
  (`CurrentIsNumbered`), and that an answer which announced the close is the last one because
  `keep` stays false from then on (`CloseAnnounced`). It holds for any stream, also for one that
  the server misreads. For `AtBoundary` that is not enough: `BInv` adds that what the stream has
  ahead of the reader is what the task still owes the current request, tokens or chunks (`InStep`),
  that the connection is not kept with a body that nobody looked at (`Paid`), and that only a body
  that was asked for is read or discarded (`AskedFor`). When nothing is owed any more the reader is at
  a boundary, unless one of the three exceptions named by `AtBoundary` applies, and then it is not.
- **Router.** A branch of the tree is closed under prefixes, and inserting a route adds the
  prefixes of its place and a name only where a parameter edge had none; so the nodes of earlier
  routes and their handlers stay as they were. Only a catch-all can be replaced, by a later one of
  the same place. The search is proved by induction on what is left of the path, backwards from
  its end: a visit of a node finds the best of the routes that pass through it and match the rest,
  and gives back the captures it began with when it finds none. The candidates at a node are those
  behind its literal child, those behind its parameter child and its own catch-alls (`Partition`);
  the segment behind the node decides between them (`NextDecides`), in the order in which
  the search tries them (`VisitRight`).
- **Texts.** A loop over a sequence is determined by its first value and its step (`LoopOver`), and
  so `Split`, `FieldsOf`, `StoreOf` and `AfterCalls` unfold from the front or from the back as a proof
  needs. *Heads*: a line either appends to the value of its name or begins a new field, so that a
  name's value is the members of its lines in order (`FieldsJoined`); the two readings of the
  framing are then compared case by case. *Cookies*: trimming gives the tight text between spaces,
  the first sign that splits a pair is the one the client wrote (a name has none), and one more
  pair on the line is one more cookie in the store (`LineRead`, `JarReadsBack`); in a jar of two
  fields, the pairs around the comma fuse into one (`FieldsFuse`). *Calls*: the store is
  that of the last call of each name (`CallsKept`). *Dates*: a day is the n-th of a year that
  begins in March (`LiesIn`), whose length `DaysBefore` gives, and month and day are a function of
  n (`DayOfYear`); the next day is the next of its year, or the first of the next year. *Forms*: the
  encoding of a form holds each part at a known place (`FormLies`, `NextPart`), and its head says what
  the part has (`HeadIs`: the pieces of its first line, the name at a semicolon cut as `NameRead` says).
  A body that was cut off is the first tokens of that encoding (`CutBody`). The invariant of the loop is
  that after k rounds the reader stands behind the k-th delimiter line with the fields of the first k
  parts (`RoundsRead`), since in a round the first blank line is the one behind the head and the next
  delimiter the one behind the content (`PartRound`); a round fails if one of them has not arrived
  (`CutPartFails`). What remains is where the text ends (`EndsFinal`, `EndsNone`). A wrong delimiter is
  found nowhere, or in the hyphens at the very end (`OnlyAtTheEnd`). *Patterns*: the two validations
  go through equal states for as long as the macro has nothing to refuse (`SameScan`), and a reserved name
  is refused before it could close a catch-all (`MacroKeepsOut`). Against the router the invariant over
  the prefixes of a pattern is `Fits`: as long as every parameter is a segment by itself, the captures
  of the segments that are complete and the name being read are the names so far; once one is not, the
  names outnumber what can still be captured, for good. A catch-all segment with another one behind
  it would need a token that is no slash behind a catch-all in the text (`Trouble`, `PlacesMore`),
  which `CatchAllAtEnd` excludes although it looks at the first catch-all only.
- **Response.** The lemmas say what `SetLine` and `RemoveLine` do to the value of a name, that they
  keep one line for each name and touch no other (`SetLineFacts`, `RemoveLineFacts`; `Position` is a
  least index, which exists because `<` is well founded), and which names each call touches
  (`Keeps`). `Framed` relates the body to the announced length and coding, and every call preserves
  it; a client that sees a `Framed` response finds its end exactly if it is not one of `Upset`
  (`EndFound`, one case for each kind of body). Ranges and grants follow from what `Partial` and
  `Granted` add to fields that were empty before. `Handled` says why a handler's response never
  has a grant: the name is reserved.
- **Refinement** theorems prove that every step maps to a `DrainGate` step or leaves the gate
  alone.

Only model-checked: all liveness (`ImplementsGate` with its fairness, `ParkedInTimeReturns`,
`SigTermObeyed`, `AttemptEnds`, `Answered`, `LeavingEndsTask`, `ThreadsDrain`), since TLAPS has no
support for ENABLED and fairness. Every invariant of the passing runs is stated by a theorem. That
`Understood` and `MayBeRead` agree is stated twice, as a theorem about Texts and as an assumption of
Connection; MCConnection computes its heads with `Understood`, so that TLC checks the assumption
there.

## 5. Not modelled

TLS set-up, the transport, the builder and the code the macros generate are I/O, library calls or
code generation: they keep no state that the rest depends on. Within the modelled parts: the bytes
of messages, JSON decoding and form decoding by libraries, UTF-8 errors, host, addresses and the
query string of a request, encoders, the way from a request path to a file, the telemetry callback
of `on_request_complete` (a local task that nobody waits for), connections that the kernel still has
queued when an accept loop is aborted (they are reset), and handlers that never answer.

## 6. Plan

1. done: DrainGate, ActiveSet, ThreadDrainBarrier, ControlPlane, Connection, DrainExit, Router,
   Response, and the parsers (RequestHead, RoutePattern, Multipart, Cookies) with Texts.
2. done: proofs of every safety invariant that the runs check.
3. left, for when the code changes: the telemetry callback, if a property of it is ever relied on;
   a model in which handlers may fail to answer.
