# Verification of order-management-backend

TLA+ models of the two processes of the order management backend, the TLC runs
that check them on small instances, and TLAPS proofs of what matters most for
every size. Paths below are relative to `src/`.

    tlc -workers 2 -config MCEpollServer_table.cfg MCEpollServer      # a run
    tlapm EpollServer_proofs.tla                                      # a proof

Contents: [the system](#the-system), [inventory](#inventory),
[modules](#modules), [runs](#runs), [bounds](#bounds), [fairness](#fairness),
[proofs](#proofs), [findings](#findings), [not modelled](#not-modelled),
[plan](#plan).

## The system

    HTTP client --TCP--> DISP (8080) --TCP, one connection per request--> AP (8081) --> MySQL

*DISP* accepts HTTP connections, collects a request, and runs the handler of
its route on the thread that read it. `/api/user`, `/api/order` and
`/api/product` are forwarded: `RequestHandler::forwardToAp` opens a connection
to AP, sends one JSON message, waits at most 5 s for one answer and closes.
*AP* has one service thread that takes one connection at a time: read, run the
handler registered for the message's `type`, answer, close. A handler runs one
SQL statement over the single connection of `DBManager`. Both processes log
through `EnhancedLogger`, into one file at a time.

DISP has two interchangeable servers behind `IServer`: `EpollServer`, the
default, one thread and edge-triggered epoll; and `ThreadedServer`, one thread
per client. The two processes share nothing but their TCP connections. Within
DISP everything of `EpollServer` runs on one thread, so a forward that waits
for AP stops the event loop. Signals are handled on whatever thread they hit.

## Inventory

| Component | State | Operations | Correct when |
|---|---|---|---|
| `EpollServer` (`src/disp/server_epoll.cpp`) | `clients`, a map from descriptor to `ClientConnection` (buffers, `writePos`, `state`, `lastActivity`); epoll's registrations; `running`, `lastCleanup` | `eventLoop`, `acceptNewConnection`, `handleRead`, `processCompleteRequest`, `handleWrite`, `closeConnection`, `cleanupTimeoutConnections`, `stop` | map, descriptors and registrations agree; the limit holds; no readiness is lost under `EPOLLET`; a request is processed only when it is complete; events are handled for the connection they were raised for; idle peers go, waiting peers get in |
| `IServer`, `ServerFactory` | - | `start`, `stop`, `setRoute`, `setMaxConnections`, `setTimeout` | both servers keep the same promise to a peer |
| `ThreadedServer` (`src/disp/threaded_server.cpp`) | `currentConnections`, `clientThreads`, `running`, `serverSocket` | `start`, `acceptLoop`, `handleClient`, `stop` | the counter is the number of clients served and keeps the limit; a client is served or turned away; `stop` returns, and nothing runs afterwards |
| DISP process (`src/disp/main.cpp`) | `g_server`, the route table | start-up, `signalHandler` | ends in an orderly way on a signal |
| `RequestHandler` (`src/disp/request_handler.cpp`) | `handlers`, `apEndpoints` | `handleRequest`, `handleApiRequest`, `forwardToAp` | every request gets an answer; an answer says what happened to this request; a request touches the table it names |
| `Processor` (`src/ap/processor.cpp`) | `processors`, `running`, the listening socket's backlog | `startService`, `stopService`, `serviceLoop`, `processRequest`, 16 handlers | requests are served in order; a success is reported only for what was done; one bad request does not end the service |
| AP process (`src/ap/main.cpp`) | - | start-up, `signalHandler`, disconnect on the way out | stops without harm to the request being served |
| `DBManager` (`src/ap/db_manager.cpp`) | `mysql`, `connected` | `connect`, `disconnect`, `executeQuery`, `executeSelect`, ids and counts of the last statement | the result says what the statement did |
| `EnhancedLogger` (`src/common/logger_enhanced.cpp`) | `logFile`, `currentLogFilename`, `logMutex`, the shared buffer of `localtime` | `log` and its wrappers, `checkAndRotateLogFile`, `generateLogFilename` | no line is lost or repeated, the files are in order and bounded, no call blocks for ever |
| `Config`, `Utils` (`src/common/`) | a map read once | `loadConfig`, getters | - |

What is hard here and hard to test: descriptors that are closed and reused
while a batch of events is worked off; edge-triggered events that come once;
buffers that fill in the middle of a response; a clock that advances while the
only thread is inside a handler; peers that half-close, reset or fall silent
at any point; a forward given up by DISP whose change AP makes later; both
processes dying or being stopped between any two steps; a database connection
that breaks after the statement was sent; a counter tested in one thread while
others change it; `stop` joining threads whose calls have no timeout; bodies
that lack a key, hold the wrong type or bring a type of their own; log files
replaced within one second and signals in the middle of a log call.
`PROJECT.json` lists each of these hazards at its line with the properties that
cover it.

## Modules

| Module | What it is |
|---|---|
| `ConnectionContract` | abstract: what a server of `IServer` promises its peers |
| `EpollServer` | detailed: `server_epoll.cpp`, one action per system call |
| `HttpFraming` | pure: where a request ends in the bytes received (`isRequestComplete`), what of it is its body (`parseHttpRequest`) |
| `EpollFraming` | `EpollServer`'s count of segments against `HttpFraming`'s bytes |
| `MCEpollServer` | its instances for TLC |
| `MCEpollActivity` | `EpollServer` with a history of each peer's silence, for one finding |
| `EpollServer_proofs` | its inductive invariant and safety theorems |
| `EpollContract_proofs` | its refinement of `ConnectionContract` |
| `EpollFraming_proofs` | `find`, `std::stoi` and `isRequestComplete` on texts; the framing theorems |
| `ThreadedServer` | detailed: `threaded_server.cpp`, one action per system call or access to shared state |
| `MCThreadedServer` | its instance for TLC |
| `ThreadedServer_proofs` | its inductive invariant and the refinement of `ConnectionContract` |
| `OrderStore` | abstract: what a client that asks for a change may rely on |
| `ForwardPath` | detailed: `forwardToAp`, `serviceLoop`, `executeQuery`, the end and restart of both processes |
| `MCForwardPath` | its instances for TLC |
| `ForwardPath_proofs` | its inductive invariant, the order of changes, the refinement of `OrderStore` |
| `Api` | what a request does to the tables: routes, request types, the handlers of AP, the statements |
| `MCApi` | the requests TLC tries |
| `Api_proofs` | what no request may write, and which requests AP outlives |
| `ApiTruth_proofs` | its inductive invariant, the truth of its replies, the reasons for "does not exist" |
| `EnhancedLogger` | `logger_enhanced.cpp`: `log` on several threads and in a signal handler |
| `MCLogger` | its instance for TLC |
| `EnhancedLogger_proofs` | its inductive invariant, the fate of each line, the bound of old files, the order of the files |

`ForwardPath` and `Api` divide one request between them: `ForwardPath` has many
requests, their connections and the threads, and takes the change a request
asks for as one step; `Api` has one request at a time, which is what AP's
single service thread makes true, and all the decisions taken about it.

### EpollServer

The thread's next system call is `pc`: `wait` (`epoll_wait`), `dispatch` (the
loop over `events[]`), `accept`, `recv`, `process` (the route handler), `send`,
`close` (`closeConnection`), `clean` (the periodic cleanup), and the ends
`stopped`, `crashed`, `killed`. Peers and clock move between any two calls.
`clients` and `conn` are the map and its `ClientConnection`s; `batch` and
`listening` are what is left of `events[]`; `cur` is the `clientFd` of the
running handler. A request and a response are counted in segments, so
`isRequestComplete` is "all `ReqLen` segments read", and `writePos` is `left`,
the segments not yet handed to the kernel.

The kernel is modelled from the calls the code makes:

* `owner`, `interest` and `ready` are the open sockets, their registered events
  and epoll's ready list. `EpollWait` reports each descriptor of the ready list
  whose condition still holds, once (`EPOLLET`); the listener is
  level-triggered. The whole list is reported: `MAX_EVENTS` is 1024 and what
  exceeds it stays on the list for the next call.
* An arrival wakes a descriptor registered for `EPOLLIN`. Room in the send
  buffer wakes one registered for `EPOLLOUT` only if the buffer was full.
  The end of the stream and a reset wake it whatever is registered.
  `EPOLL_CTL_ADD` and `EPOLL_CTL_MOD` report at once what already holds.
* `send` after a reset fails with `ECONNRESET`; after an end of stream *and* a
  reset with `EPIPE` and `SIGPIPE`, which no source file ignores (`SendKilled`).
* Any free descriptor may be the one `accept` returns; with none left it fails
  with `EMFILE`. With `Faults`, `accept` may fail otherwise, and `fcntl` and
  `epoll_ctl` may fail.

Each peer connects once: the server does not tell two connections of one host
from connections of two hosts. `idle` and `sinceCleanup` are the differences
`now - lastActivity` and `now - lastCleanup` in ticks of the whole seconds of
`time(nullptr)`; they stop at the first value that makes the code's test true.
The members the code never reads (`ClientConnection::keepAlive` is never set,
`PROCESSING` and `CLOSING` are never assigned) are left out. `Stop` is
`signalHandler` calling `stop()` on the thread of the loop: in `epoll_wait` the
loop ends; inside a handler `stop()` frees the map and the connections that the
handler goes on to use, and both outcomes of that undefined behaviour are
there, reaching the end of the loop or a crash.

### ForwardPath

`forward[r]` is where `forwardToAp` is with request `r`, and in the end what
the client was told. `Workers` is the number of threads that may be inside it:
one under `EpollServer`, any number under `ThreadedServer`. Each request asks
for one change of the database (the handlers that write run exactly one
statement); requests that only read are not in this model. `backlog`, `inbox`,
`answer` and `hungup` are the connections: AP's accept queue, what has arrived
at AP, what has arrived at DISP, and the connections AP has closed or lost.
`ap` is the next call of AP's service thread: `accept`, `recv`, `handle` (parse
and find the handler), `query` (inside `mysql_query`), `send`; then `ended`
(the loop has returned) and `down`. `executing` holds the statements MySQL has
and has not finished; `orphaned` remembers those whose client left while MySQL
had them. `order` and `orphaned` are history: no guard reads them.

* The end of `forwardToAp`'s `recv` by `SO_RCVTIMEO` (`RecvFails`) may come at
  any time, because AP's delays have no bound.
* `ApRejects` stands for every answer without a statement: JSON that does not
  parse, an unknown type, invalid fields, an exception in the handler, no
  database. `ApQueryFails` stands for every error after it: a refused
  statement, a lost connection, an affected-rows count read after the
  disconnect; the change may have been made.
* `ApAborts` is what the code does to itself: exceptions that `serviceLoop`
  does not catch (it catches only `parse_error`), the assertion of the json
  library when `product.create` reads a missing key after its `INSERT`, and
  `mysql_close` under a running `mysql_query`. `StopService`, `Disconnect` and
  `ApExits` are SIGTERM and `main` on its way out, which does not wait for the
  detached thread. `DispDies` is the end of DISP at any point.

### ThreadedServer

`acceptor` is the next step of `acceptLoop` (`test` the loop condition, `call`
and `accept` before and inside `accept(2)`, `check` the limit, `spawn` the
thread), `client[p]` the place of a connection or the next step of its
`handleClient`, `stopper` the next step of `stop`. `current` is
`currentConnections`: it is tested in `Refuse` and `WithinLimit`, incremented
in `Spawn` and decremented in `Decrement`, which is the lambda after
`handleClient` has returned. `threads` are the elements of `clientThreads`.

* `Recv` is the single `recv` without a timeout; whatever it returns is taken
  for the request. `asked` is therefore "something has arrived", and so is the
  contract's `sent` for this server.
* `send` does not block: a response is at most the 4095 bytes `forwardToAp`
  accepts and a header. Its result is ignored. With `Faults` it may meet a
  reset connection and raise `SIGPIPE`, and `std::thread` may throw; both end
  the process (`Die`).
* Closing a listening socket does not wake a thread that is blocked in
  `accept` on it, and keeps it alive until that call returns: with `closed` and
  `acceptor = "accept"` peers can still connect, and `stop` waits.
* `AcceptFails` (with `Faults`) is an `accept` that returns an error while the
  server runs: the loop goes on.
* `Stop` is `signalHandler`; a second signal finds `running` false.

### Api

`step` is where the one request is: `disp`, `ap`, `query` (before
`mysql_query`), `result` (after it), `replied`. A request is a method, the path
segments after `/api` and the keys of its body; `msg` is the message
`handleApiRequest` puts together, in which the keys of the body overwrite those
of DISP and an id from the path overwrites both. `Creates` and `Updates` tell
the handlers of `processor.cpp` apart: which keys have a default, which may not
be empty, which are read back after the `INSERT`, which columns an `UPDATE` may
set and which it may clear. `Rejected` and `Aborts` are what happens before the
statement, `Insert`, `UpdateRow` and `DeleteRow` are the statement,
`CreateSucceeds`, `ChangeSucceeds` and `AbortAfterInsert` what is done with its
outcome.

* `main` registers `user.create`, `user.update` and `user.delete` a second time
  with a lambda over `std::string`. The conversion from a JSON object throws,
  and `processRequest` answers with an error (`Overridden`).
* A key missing under `operator[]` of a const object meets the json library's
  assertion. The build files set no build type and no `NDEBUG`, so the
  assertion is compiled in and the process ends.
* A body that does not parse is a body without keys.
* MySQL counts the rows that an `UPDATE` *changes*, and `updated_at` has a
  resolution of one second: `fresh` are the rows whose `updated_at` is the
  current second. `last` is what `mysql_insert_id` and `mysql_affected_rows`
  would return; after `main` has disconnected both are 0.
* `QueryFails` is every failure of `executeQuery`, with or without effect.

### EnhancedLogger

`pc[a]` is the step of `log()` in thread or handler `a`: `format` and `libc`
(the line is made, outside the mutex), `lock`, `write`, `open`, `unlock`. In
`libc` the locks of `malloc` and `localtime` are held: nobody else can make a
line or rotate a file meanwhile (`LibcFree`), a handler on the same thread
included. A file is named by the second in which it was opened and holds the
numbers of the lines written to it. `Write` is the output, the flush and the
size check: a full file is closed, `localtime` is called, and `OpenNext` takes
the name from its shared buffer and opens that file with `std::ios::app`. If the
opening fails, `WriteAgain` tries once for each later line, and a line for which
it fails again is `lost`.

* An output may fail on an open stream (`Outputs`, `broken`): `badbit` stays set
  and `is_open()` true, so the later lines are lost as well, until a rotation
  opens another file. A line that failed is taken as lost, though a part of it
  may be in the file or in the buffer of the stream.
* `stat` may fail for a full file, which is then not rotated. `missed` counts
  these cases, at most `Misses` of them.
* `foreign` remembers that another thread's `localtime` came between the call
  and the use of its buffer; the name may then be any second (`raced`).
* `Signal` runs the handler on a thread at any point, `host` is that thread and
  does nothing meanwhile. The handler's log call waits for `logMutex` like any
  other. `written`, `lost`, `late`, `missed` and `raced` are history.

### The abstract specifications

`ConnectionContract` says: at most `MaxConnections` peers are served at once
and one is turned away only at that limit (or after a failed call); a peer is
answered only after its whole request; an admitted peer is dropped only if it
left, was silent for longer than the timeout, or a call on its connection
failed, unless the server ends. `open` and `Close` are the door: once it is
closed whoever waits may be turned away. `KeepsContract` is the refinement, from
`EpollServer` and from `ThreadedServer`: whatever uses `IServer` may rely on the
contract with either. In `ThreadedServer` a peer holds its place until the
counter is decremented (line 143), a little after its connection is closed.

`EpollServer` counts a request in `ReqLen` segments and processes it when it has
them all; the code sees bytes. `HttpFraming` is the code's search (blank line,
`content-length:`, `stoi`, the comparison as `size_t`), and `EpollFraming` takes
every request of a small set (with other fields before or after the length,
bodies of 0 to 11 bytes, with newlines and blank lines in them), cuts it
everywhere into `ReqLen` segments and requires the two to agree. A malformed
length maps to `EpollServer` as well: a negative one is a request whose last
segment never comes, any other is one that ends with its head.

`OrderStore` says: "ok" is told only of a change that was made, no change is
made twice, none that was not asked for. It also says what is *not* promised:
after "failed" the change may have been made or may still be made, so a client
that asks again may have it made twice. `KeepsStore` is the refinement.

## Runs

| Run | Properties | Question |
|---|---|---|
| `epoll_table` | `TypeOK`, `ConnectionLimit`, `TableAgrees`, `NoStaleEvent`, `KeepsContract` | do the map, the descriptors and the registrations stay in step while descriptors are closed and reused within a batch, the limit refuses, the cleanup and `stop` intervene? |
| `epoll_stream` | `TableAgrees`, `EdgeNotLost`, `RequestIntact`, `FramedAsCounted`, `MalformedEnds`, `BodyIntact`, `KeepsContract` | does a request in two segments, or a response through a buffer of one, survive half-closes, resets and failing calls, and does the client table? is a request found complete exactly when it is, wherever it is cut? |
| `epoll_live` | `Answered` | is every fully sent request answered, or its connection ended, without help of the idle timeout? |
| `epoll_idle` | `IdleClosed`, `Admitted` | do idle peers lose their connection, and does everybody in the backlog get out of it, even with all descriptors taken? |
| `forward_store` | `TypeOK`, `InOrder`, `KeepsStore`, `Replied`, `Drained` | do DISP, AP and MySQL together keep `OrderStore`'s promise, are changes made in the order of their connections, is every forward answered even if AP does nothing, and can an AP that runs, whose `recv` has no timeout, be held up for ever by a DISP that dies in a forward? |
| `threaded` | `TypeOK`, `LimitKept`, `StopIsClean`, `KeepsContract`, `Answered`, `StopReturns` | is the counter exact and the limit kept though they are tested and changed in different threads, is whoever asks answered or turned away, does `stop` leave nothing running, and what can hold it up? |
| `api` | `TypeOK`, `Truthful`, `MissingMeans`, `Confined`, `Survives` | does the client's answer say what happened to the tables, when is "does not exist" untrue, what may a request write, and which requests end AP? |
| `logger` | `TypeOK`, `NoneLost`, `InNameOrder`, `FilesBounded`, `LogReturns` | is every line that could be written in the files, once and in order, through rotations, signals and an `open`, an output or a `stat` that fails; do files stop growing; does every call return? |
| `epoll_activity` | `SparesActive` (violated) | is only an inactive connection closed by the cleanup? |
| `epoll_sigpipe` | `SurvivesFailedSend` (violated) | does a failed send end only its connection? |
| `api_docs` | `DocumentedIsRouted` (violated) | does every documented request have a route? |
| `api_users` | `UsersManaged` (violated) | are users created, updated and deleted, as documented? |

Two properties say what does *not* work, and that nothing else fails:
`StopReturns` holds except while nobody connects or a client is silent for
ever, because `stop` joins threads that are blocked in calls without a timeout;
`LogReturns` holds except when a signal interrupts the owner of the mutex, or of
a lock of libc in making a line, when the handler waits for its own thread.
`MissingMeans` and `Survives` name the exceptions likewise: a repeated update
within a second, a failed select or a disconnected database; a key left out. The
exceptions themselves are weaknesses of the code that these properties describe
and do not catch; `PROJECT.json` lists them as hazards without a property.

`Truthful` says of an update exactly which columns have changed: an empty text
clears a phone or a description and leaves every other column, and a status alone
changes nothing but the status (`Sets`).

`CHECK_DEADLOCK FALSE` is set everywhere: the server may be stopped or die, and
the peers, requests and lines of an instance are used up.

## Bounds

* `epoll_table`: three peers and three descriptors with room for two clients,
  the smallest instance in which one is refused while another is closed and its
  descriptor reused in the same batch; one segment each way; timeouts of zero
  ticks so that one tick expires a connection. Peers and descriptors are
  interchangeable; symmetry is used here and in `epoll_stream`, whose properties
  are all safety.
* `epoll_stream`, `epoll_live`: two connections at once, requests of two
  segments (so that one can arrive in two events or in two `recv`s of one
  event), responses of up to two segments through a send buffer of one (so that
  `send` must stop half-way and go on after `EPOLLOUT`).
* `epoll_idle`: two peers and one descriptor, so that `accept` fails with
  `EMFILE` while somebody waits.
* `forward_store`: three requests, two DISP threads, a backlog of two: one
  request is served, two wait (given up or not), one is turned away. One thread,
  as under `EpollServer`, is among its behaviours: the second may never begin.
* `threaded`: three peers and room for two, so that one is at the limit test
  while two threads may be decrementing.
* `api`, `api_docs`, `api_users`: two ids, interchangeable, and 46 requests:
  every method, a path with and without an id, and bodies that are complete,
  lack a key, hold an empty text, a number or a bad price, or bring a type of
  their own. Requests follow each other, so that an update or a delete meets a
  row that is there, was never there, or is gone.
* `logger`: two threads and the handler, four lines, a file full after one
  line, one `stat` that may fail and a clock of two seconds: every line can
  rotate, two rotations can fall into one second, and a rotation can be
  interrupted by the other thread's `localtime`, by the handler or by the
  clock.
* The counters of the models are bounded by what the code compares them with
  (`idle`, `sinceCleanup`), by the request (`todo`, `inbox`, `got`) or by a
  buffer (`outbox`, `left`); the logger's by `Lines`, `LastSecond` and `Misses`. There is
  no other bound.

The proofs do not depend on any of these numbers.

## Fairness

* `LiveSpec` (`Answered`): the event loop keeps running (`WF Loop`: a single
  thread that is scheduled, and no call in it blocks except `epoll_wait`, which
  returns, and the route handler, whose sockets have timeouts), and a peer
  reads what it is sent (`WF PeerRecv`). The clock is not fair: an answer must
  not depend on the idle timeout.
* `IdleSpec` (`IdleClosed`, `Admitted`): the loop runs and the clock advances.
  Nothing is assumed of the peers.
* `DispSpec` (`Replied`): each `forwardToAp` goes on, because every one of its
  calls is limited by `SO_SNDTIMEO` or `SO_RCVTIMEO`. Nothing is assumed of AP
  or MySQL.
* `ApRuns`, the premise of `Drained`: besides, AP's threads run, and MySQL
  answers or its connection breaks. The code sets no limit for `mysql_query`:
  this part is an assumption about MySQL.
* `ThreadedServer!LiveSpec` (`Answered`, `StopReturns`): each thread is
  scheduled, the accept thread, the client threads and the one in `stop`.
  `accept` and `recv` are steps that are enabled only once somebody connects or
  sends. An `accept` called again and again while somebody waits does not fail
  every time (`SF Accept`): an assumption about the kernel, without which nobody
  need ever be answered. Nothing is assumed of the peers, of the signal or of
  other faults.
* `EnhancedLogger!LiveSpec` (`LogReturns`): each thread and the handler go on
  with their log call. The mutex is not assumed to be fair; the calls of an
  instance are finitely many, so nobody overtakes for ever.

Stopping, dying, connecting, sending and failing are never fair.

## Proofs

**EpollServer_proofs**, from `ConstantsAssumption` (finitely many descriptors,
sizes positive, timeouts and limit natural numbers): `TypeCorrect`,
`LimitKept`, `TableKept`, `EventsStayFresh`, `NoEdgeLost`, `RequestsIntact`,
all from `Invariant == Spec => []IInv`. The properties need each other, so they
are proved together, one lemma for each action. `IInv` adds three facts to
them: `BacklogIntact` (a client still in the backlog has lost nothing, which
`RequestIntact` needs when it is accepted), `HandlerRuns` (`cur` is set exactly
while a handler runs, and no event is left outside the loop over `events[]`),
and `RightDirection` (`handleRead` runs only under `EPOLLIN` and `handleWrite`
only under `EPOLLOUT`). The heart is `EdgeNotLost`: a connection with
something to do is on the ready list, in the batch, or the one being handled;
so a handler may only return after its call has said `EAGAIN`, and every switch
of direction must report again what already holds. `NoStaleEvent` is inductive
only with "one event per descriptor and none for `cur`": closing `cur` can then
never free a descriptor that a later event of the batch names.

**EpollContract_proofs**: `EpollKeepsContract == Spec => KeepsContract`, from
`IInv` and one more invariant, `ReasonsKept == Spec => []ClosedForReason`: a
connection that is about to be closed is answered, or its peer has left, or its
response cannot be sent (`epoll_ctl` refused `EPOLLOUT`), and no connection is
left in such a state between two events. Without it a step to `close` could drop
a silent but healthy peer. The contract counts peers and the code counts
descriptors: `ServedAreCounted` shows that `owner` is a bijection between the
two, so that `size() >= maxConnections` is the contract's limit. Each action then
is one step of the contract (`AcceptClient` is `Admit`, `CloseConnection` is
`Answer` or `Drop`, `Cleanup` is one `Drop` of all whose time is over) or changes
nothing it sees.

**EpollFraming_proofs**, from `ConstantsAssumption`: `RequestsFramed`,
`MalformedFramed` and `BodiesKept`, for any number of segments and any cut of a
request into them. What `isRequestComplete` sees is the text received so far, so
the first lemmas compare `find` on a text with `find` on a part of it
(`FindInMore`, `FindInLess`). From them follows, for *every* head that ends with
its only blank line and names a length, and every text behind it, `HeadAndRest`:
the request is complete exactly when the head has come and the rest is as long
as `std::stoi` says of the head's value. `BodyAfterHead` says that
`parseHttpRequest`, which looks for an empty line instead of CR LF CR LF, takes
the body from the same place, if the lines of the head end in CR LF; blank lines
in the body do no harm. The requests of `EpollFraming` are then shown to have
such heads (`LengthHead`, `ShortHead`, `OtherHead`), and `std::stoi` to read what
they say (`StoiDecimal`, `StoiNegative`, `StoiTooLarge`, `StoiNone`). Only the last
part is about the finitely many lengths and bodies of that module; that `n`
segments have come or not is `TypeCorrect`.

**ForwardPath_proofs**, from `ForwardAssumption`: `PathTypeCorrect`,
`OrderKept`, and `Implements == Spec => KeepsStore`, the refinement of
`OrderStore`. `IInv` says: a request that is not connected has left no trace,
and one AP has not come to has no effect (`OneStage`, so no change is made
twice); whoever says "ok" says it of a change that was made (`Truthful`); and
every change made, except orphaned statements, was connected before the request
being served, which was connected before the backlog, which is in order
(`Queueing`, of which `InOrder` is the consequence). In the refinement
`Begin`, a failing or answered `recv`, `DispDies` and `DbApply` are `OrderStore`'s
steps; all others change nothing it sees.

**ThreadedServer_proofs**, from `ThreadedAssumption`: `ThreadedTypeCorrect`,
`CounterKept`, `StopsCleanly` and `ThreadedKeepsContract == Spec =>
KeepsContract`. `IInv` adds to them that `acceptLoop` holds at most one accepted
connection, which has a free place once the limit test has passed (`HoldsOne`:
only this thread increments, so decrements in between do no harm); how far
`stop` is and what holds by then (`StopSoFar`); that a handler goes on only with
a request and drops only a peer that has left (`HeardFirst`); and that every
thread inside `handleClient` is in `clientThreads`, so that the joins of `stop`
miss none.

**EnhancedLogger_proofs**, from `LoggerAssumption`: `LoggerTypeCorrect`,
`LinesKept`, `OldFilesBounded` and `LogInNameOrder`. `IInv` says who owns the
mutex (`Exclusive`), that the lines of different calls are different
(`OwnLines`), that every line made is still unseen, stands in exactly one place
or is lost (`Accounted`, with `NoneRepeated`), and how many late lines the
current file can have before its rotation (`Ageing`: one more whenever `stat`
fails). `InNameOrder` has an invariant of its own, `Ordered`: no file later
than the current one has a line, so a line appended to the current file comes
last (`NothingAhead`; `Ageing` supplies that the current file is not later than
the clock). What it means for the files read one after the other, `FlattenSeq`,
is shown by following its recursive function from file to file
(`FlattenAppend`).

**Api_proofs**: `WritesConfined`, for every set of requests, from
`OnlyHandledReachTables` (a statement is sent only for a type that has passed
the dispatch) and from `EffectOnTable` (a statement changes no table but that
of its message). `CompleteRequestsSurvived == Spec => Survives`: AP ends, while
`main` has not begun to leave, only in a request that keeps something back:
`Reached` says that AP is given only requests for a table, and `CompleteIsSafe`
that a handler finds every key it takes for granted in a complete one.
`NumberAssumption` says that the type and the request id that DISP writes are
texts.

**ApiTruth_proofs**, from `ApiAssumption` and `RowAssumption` (`NoRow` is none of
the rows there can be): `ApiTypeCorrect` and `RepliesAreTrue == Spec =>
[]Truthful`, both from `ApiInvariant`. What a client is told is decided by the
result of the statement, after the tables have changed; so `TInv` says that a
request has changed nothing up to its statement and reaches it only sound
(`Underway`), and between the statement and the reply how `rows` differ from
`before` and what `last` remembers (`DidCreate`, `DidDelete`, `DidChange`).
`DidCreate` needs that no row is under an id never given (`RowsTyped`), and
`DidChange` that the message says of each column what the client's body says
(`MessageIsBody`: the keys DISP adds are no columns). `MissingExplained == Spec =>
MissingMeans` needs one more invariant, `EmptyResultsExplained == Spec => []MInv`:
no statement of a request has succeeded before its own, so a failed select is told
from an empty one, and a statement that affected nothing found no row or was an
update that assigned what the row held.

The inductive invariants were checked by TLC before they were proved (`TInv`,
`MInv` and `Reached` on the `api` instance, `Ordered` on that of the logger).
Where a proof has to follow a recursive function (`std::stoi`'s running number,
`FlattenSeq`) the induction is over a *set* of naturals (`SetInduction`, from
`NatLessThanWellFounded`): the library's own theorem takes an operator, which the
provers cannot instantiate.

Every invariant and every action property of the passing runs is a theorem now,
and so are the three refinements. Only model-checked: the liveness properties
(`Answered` of both servers, `IdleClosed`, `Admitted`, `Replied`, `Drained`,
`StopReturns`, `LogReturns`), which are beyond the prover.

## Findings

* `epoll_activity`: `lastActivity` is the time of the last *handled* event. A
  peer whose data arrived in time but was not read, because the thread was in
  another peer's handler, is closed by the cleanup.
* `epoll_sigpipe`: `send` without `MSG_NOSIGNAL` on a connection whose peer
  ended its stream and then reset it kills the whole DISP process.
* `api_docs`: `README.md` documents `GET /api/order/{id}`, its siblings for users
  and products, and `PATCH /api/order/{id}/status`. `main` registers only exact
  paths, so all of them are answered 404.
* `api_users`: `README.md:103-105` documents that `POST`, `PUT` and `DELETE
  /api/user` create, update and delete users. `main` (`src/ap/main.cpp:50-80`)
  replaces the handlers that do so by lambdas over `std::string`, to which no
  request converts: each of these requests is answered with an error, and the
  table of users never changes.

## Not modelled

* `Config`, `Utils` and the factory keep no state that changes; `Utils` has no
  caller. Start-up (configuration, `connect`, `startService`, `start`) is the
  initial state of the models.
* The text of HTTP: `parseRequest`, `createResponse`, and in `EpollServer` the
  framing by `Content-Length` (`isRequestComplete` is "all segments read", which
  `EpollFraming` justifies). Fields whose name ends in `content-length:`, and
  bodies without a length that hold these letters, which the code would take for
  the field. The text of JSON and of SQL, and `escapeString`: values are texts,
  bad prices or non-texts, and an id is the text of one number.
* In `EpollServer`, what happens after `epoll_wait` fails with an error other
  than `EINTR` (the loop returns while `running` stays true, and `main` waits
  for ever): it needs a descriptor that is not an epoll instance.
* In `ForwardPath`, connections to AP from anybody but DISP, answers cut at
  4095 bytes, and requests that only read.
* In `Api`, the columns `id`, `created_at` and `updated_at` except for what
  `updated_at` does to the count of changed rows; foreign keys.
* In `EnhancedLogger`, the text of a line and the time printed in it, the
  console output, locks of libc that a thread holds outside `log`, and the
  setters, which `main` calls before there are threads.
* The transaction functions and `getLastError` of `DBManager`, which nobody
  calls. MySQL is external: a statement is executed once, takes effect or not,
  and may outlive its client.

## Plan

Done: 1. `ConnectionContract`, `EpollServer` and its proofs. 2. `OrderStore`,
`ForwardPath` and its proofs. 3. `ThreadedServer`, its proofs and its refinement
of `ConnectionContract`. 4. `Api` with the theorems about what may be written.
5. `EnhancedLogger` and its proofs. 6. `EpollContract_proofs`. 7. `HttpFraming`
and `EpollFraming`. 8. `ApiTruth_proofs`. 9. `Survives`, `MissingMeans` and
`InNameOrder` as theorems. 10. `EpollFraming_proofs`.

Left: the framing theorems speak of lengths of at most two digits, because the
requests of `EpollFraming` have no longer bodies; `HeadAndRest` does not. That
`std::stoi` reads a decimal number of any length as it was written is an
induction over its digits that `Steps` prepares.
