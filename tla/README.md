# quicsend: a TLA+ model

quicsend is an HTTP/3 client and server over QUIC for Python. Its own logic is
about 3,000 lines of C++ around Cloudflare's `quiche`: it moves bodies of any size
through a transport that may refuse part of them, from several threads, while
connections come, go silent and close. These modules model that logic. TLC checks
them on small instances, and TLAPS proves the most important facts for every value
of the constants. `PROJECT.json` maps each definition to the lines it models, and
lists the hazards of the code with the properties that cover them.

Abbreviations: Q = `src/src/quicsend_quiche.cpp`, H = `src/include/quicsend_quiche.hpp`,
C = `src/src/quicsend_client.cpp`, S = `src/src/quicsend_server.cpp`,
P = `src/src/quicsend_python.cpp`, T = `src/src/quicsend_tools.cpp`.

## 1. Inventory

### Threads

| thread | runs | locks it takes |
|---|---|---|
| io | `io_context::run`: datagrams, completed sends, the two timers, the resolver | a connection's, the mailbox's, the allocator's, the sender's (`Add`, `Find`) |
| sender | `QuicheSender::Loop` (Q:1238): flushes every connection, sleeps, repeats | the sender's, and under it each connection's, and under that the mailbox's and the allocator's |
| application | `Request`, `Respond`, `Close`, `poll`, the destructor | a connection's, the mailbox's, the sender's (`Find`) |
| logger | writes log lines | the logger's |

### Components

| component | state | operations | interacts with | hard behaviour | what makes it correct |
|---|---|---|---|---|---|
| Stream sending (Q:711-752, 925-1198) | `response_cache_`, `outgoing_streams_by_id_` | `SendRequest`, `SendResponse`, `SendBody`, `FlushCachedResponses`, `FlushTransfers` | quiche; called by all three threads | quiche takes any part of a body; retries interleave with resets and closes | streams carry whole bodies in order, ended once and only when whole; nothing accepted is forgotten; it finishes |
| Stream receiving (Q:754-923) | `incoming_streams_by_id_`, `highest_processed_stream_id_` | `ProcessH3Events`, `IncomingStream` | quiche; `on_data` of client or server | events of many streams interleave; resets and goaways at any point | each request or response is handed over once, whole; a stream is forgotten when it ends |
| Connection lifecycle (Q:516-709, 1200-1219) | `conn_`, `http3_`, `connected_`, `timeout_`, two timers | `Accept`, `Connect` and its retry, `OnDatagram`, `Close`, `TickTimeout`, `ComparePeerCertificate` | io, sender and application threads | a retry races a late answer; a timer races the sender; a close is only found by polling | the HTTP/3 layer belongs to the current connection; a close is noticed once; a silent server is tried again |
| `QuicheMailbox` (Q:1322-1362) | `events_`, `terminated_`, mutex, condition variable | `Post`, `Poll`, `Shutdown` | filled by io and sender, read by the application | lost wakeups, timeouts against posts, several pollers | each event once, in order; no poller sleeps while an event waits for it |
| `SendAllocator`, datagram buffers (Q:375-402) | `free_buffers_`, `free_buffers_count_` | `Allocate`, `Free` | every flush, completed sends, `SendRetry`, `SendVersionNegotiation` | the count is read without the mutex; the socket reads a buffer after `Send` returned | one owner per buffer, none lost, none made in vain |
| `QuicheSocket` (Q:404-483) | socket, receive buffer, quiche configuration | `StartReceive`, `Send` | io thread | buffers in flight | (as above) |
| `QuicheSender` (Q:1225-1325) | `connections_`, `connections_by_id_` | `Loop`, `Add`, `Find` | sender, io, application | removal of a closed connection while another thread has found it | a live connection is found and flushed, a closed one leaves both maps |
| `QuicSendServer` (S) | `next_assigned_id_`, mailbox, `closed_` | `OnDatagram`, `CreateConnection`, `Respond`, `Close`, `SendRetry`, `SendVersionNegotiation` | sender, connections, mailbox | creation and removal of connections against late datagrams; destruction while the sender runs | one connection per accepted id, one Connect before its requests, one Timeout |
| `QuicSendClient` (C) | `closed_`, `resolved_endpoint_`, mailbox | constructor and resolver, callbacks, `Request`, `Close`, destructor | sender, connection, mailbox | callbacks of two threads; close during a poll | events in order; the client ends |
| Retry token (Q, `mint_token`, `read_token`) | none | encode, decode | `SendRetry`, `OnDatagram` | lengths at their limits | decoding undoes encoding |
| C API (P) | none | body conversion, polls, routing | client, server, Python | 32-bit length; a poll that stops when the endpoint is closed | a body arrives with its length; every event is routed |
| Python wrapper, tests | none | `ctypes` declarations | C API | | |
| Logger (T:16-110) | queue, mutex, condition variable, a flag | `Log`, `RunLogger`, `ProcessLogQueue`, `Terminate` | all threads | termination against waiting | lines are written before it ends; it ends |

`PROJECT.json` has the status of each, and 40 hazards at their lines.

## 2. What is modelled

### StreamSend: the send side of a connection

`StreamSend.tla` has one call of `SendRequest` or `SendResponse` per number in
`Calls`. A stream's wire is `hdr` (whose HEADERS it carries), `data` (the units of
body quiche accepted, each tagged with its call and its place) and `fin`.
`queued`, `Buffer` and `SendOffset` are `outgoing_streams_by_id_`, and the calls with
status `"cached"` are `response_cache_`.

All of it runs under the connection's recursive mutex. The loops of `FlushEgress`
are still stepped, one cached response and then one queued stream at a time, with
`at` saying where the holder of the mutex is. Operations that take the mutex wait for
`at = "free"`; the check of `timeout_` in `SendRequest` and the return of
`Respond` do not take it, and happen in between.

| action | code |
|---|---|
| `CallRequest`, `RequestSent`, `RequestFailed` | `SendRequest`: its blocked attempts, with the mutex released and a sleep between them, change nothing |
| `SendResponse`, `RespondReturns` | `SendResponse`; `QuicSendServer::Respond` destroys the header strings |
| `SendBody` | `SendBody` and the `FlushEgress` that follows |
| `CachedStep`, `EndResponses` | `FlushCachedResponses` |
| `TransferStep`, `EndTransfers` | `FlushTransfers`, then `TickTimeout` |
| `Tick` | the sender's flush |
| `Acked`, `StopSending`, `DestroyStream`, `PeerClosed`, `LateDatagram` | what a datagram does to the send side |
| `IdleTimeout` | quiche's timer |

quiche is a submodule that is not in the repository. The model has what the
code distinguishes: `room` units until it refuses (a HEADERS frame, a unit of
body and an empty frame with the FIN cost one each). It takes HEADERS once per
stream, so that a cached response whose body was sent in part is given up when its
HEADERS are offered again (Q:1078). It reports a full connection as
`..._STREAM_BLOCKED` for HEADERS, and for bodies as `QUICHE_H3_ERR_DONE` or, where
`FlushCachedResponses` looks for both, as either. It keeps failing on a stream that
was stopped or shut down, also before a server's response, and on a closed
connection; a request may fail for reasons of its own at any attempt. When no packet
can be made (Q:733) `FlushEgress` returns without `TickTimeout`, which is assumed of
a connection that lives, where `TickTimeout` notices nothing. The sending of
datagrams is in `SendAllocator`.

`BodyTransfer.tla` is what all of this promises: a stream is given to one call,
carries that call's body from its first unit on, and may be ended once, after all of it.
`ImplementsTransfer` states that the send side implements it, with `hdr`, `data` and
`fin` as `owner`, `sent` and `ended`; the cache, the queue, its offsets and every retry
are invisible.

### StreamRecv: the receive side of a connection

`StreamRecv.tla` is `ProcessH3Events` with both callbacks `on_data`. It runs on the io
thread with the connection's mutex held. A datagram may bring frames of several
streams; then each poll of quiche is a step, and each read of a body. `incoming`,
`headed` and `Buffer` are `incoming_streams_by_id_`. `IsServer` is chosen by `Init`, so
one run covers both roles.

| action | code |
|---|---|
| `BeginDatagram`, `EndReceive` | `OnDatagram`, around `quiche_conn_recv` |
| `ArriveHeaders`, `ArriveBody`, `ArriveFin`, `ArriveReset` | what `quiche_conn_recv` takes in |
| `Headers`, `Data`, `Reset`, `GoAway` | the cases of the `switch` |
| `Read` | one turn of the loop of `quiche_h3_recv_body` |
| `Finished`, with `Post` | the case FINISHED and `on_data`: client C:60-64, server S:219-239 |
| `EndPoll` | the loop ends, on `QUICHE_ERR_DONE` or an error |

Assumed of quiche: DATA is reported once, until a read finds nothing more; FINISHED once,
after the body was read; an error of `quiche_h3_recv_body` on a stream that was reset is
followed by nothing more to read (an error that lasts would make the code's loop
endless; it is a hazard without a property). A failed `quiche_h3_conn_poll` closes the
connection. The comment at Q:827 says that FINISHED also comes for streams that were
destroyed: `Reported` allows one after a reset. Header fields are one flag. The send
side of `DestroyStream` is in `StreamSend`, and how a certificate or a GOAWAY sent by
`Close` ends a connection is in `ClientLink` or left open (`closing`).

`MessageFeed.tla` is what the application may rely on: each stream gives one whole
message or none, and a server's first one is announced by Connect. `ImplementsFeed` states
that the receive side implements it, with `got`, `ended`, `connected` and `posted` as
`size`, `whole`, `open` and `log`; the entries, the reads and the order of quiche's reports
are invisible.

### Mailbox and EventQueue

`Mailbox.tla` has a condition variable with its wait set: a blocked poller moves
when `notify_one` chooses it, spuriously, or on its timeout, and then needs the
mutex to look again. Posts may come between any two of these. `EventQueue.tla` is
what it promises: put, claim all, handle in order, close. `ImplementsQueue` states
that the mailbox implements it, with `events`, `batch` and `posted` as `queue`, `owed`
and `next`.

### SendAllocator

`SendAllocator.tla` follows every buffer from `MakeBuffer` to the free list or out of
circulation. The unlocked read of `free_buffers_count_` is a step of its own
(`ReadCount`), the rest of `Allocate` another (`Take`). The sender keeps its buffer
between flushes; the io thread and the application's threads return theirs
(`FreeMine`); the io thread also answers datagrams of no connection
(`EnterAnswer`), and drops its buffer when quiche cannot write the answer
(`DropAnswer`). The handler of `async_send_to` (`SendDone`) frees the buffer whether the
datagram left or not.

`BufferPool.tla` is what the users rely on: a user without a buffer acquires one, a free one
or, only when there is none, a new one; it submits, releases or drops it; a buffer that
was sent is free again. `ImplementsPool` states that the allocator implements it, with
`Pooled` and `Held` as `free` and `held`. So the unlocked read of the count cannot be
told from an atomic allocation. It reads more than zero and then finds the list empty
(`Take` makes a buffer), or it reads zero, and a buffer that comes back right after
makes no difference: the new one was made at the time of the read.

### ClientLink: a client's connection

`ClientLink.tla` is the one connection of a `QuicSendClient`, from the resolver to the
destructor. The io thread runs one handler at a time, in two steps: it begins
(`BeginDatagram`, `BeginRetry`, `BeginTimer`, `Resolved`), and it gets the connection's
mutex (`Datagram`, `Retry`, `Timer`, `FirstConnect`, then `FirstFlush`). In between the
sender's thread may flush, notice a close and call the callbacks, or find a connection
that has no quiche connection yet. `closed_` stops the `io_context`: no handler
begins, the one that runs ends.

A connection's `life` is quiche's: open, closing (closed locally or draining), closed.
A datagram may end the handshake, with a certificate that matches or not, bring a
response, and close the connection, all in one step, because `OnDatagram` does so
under the mutex. `TickTimeout` is the end of each flush: closed and
noticed, or the timer is set, or quiche's deadline has passed. A `quiche_conn_send`
that fails skips it. `events` is the mailbox, `log` what the application heard;
`quicsend_client_poll` returns 0 once the client is closed (`app = "done"`). The
application may make a request whenever it is not polling: `RequestBegins` is
`QuicSendClient::Request` up to the mutex, with its test of `closed_`, and `RequestEnds` the
rest of `SendRequest`, as far as the link is concerned; what it sends is in
`StreamSend`. A request that comes before the handshake has ended hands quiche a null
`http3_`. `HeardIsUsable` says from when on that cannot happen: once the application
has heard Connect.

Assumed of quiche: a failed `quiche_h3_conn_new_with_transport` closes the
connection; nothing arrives on a connection that is closing. `quiche_connect` may fail
at any attempt. A null connection is undefined behaviour: `nullUse` records it, and
the behaviour goes on.

### ServerRegistry and ServerEvents: a server and its connections

`ServerRegistry.tla` is `QuicSendServer` together with `QuicheSender`'s two maps.
`connections` is `connections_`, by destination connection id, and `byId` the domain of
`connections_by_id_` (which maps each identifier to itself: connections are named by the
identifier the server assigns). A connection is `life` in quiche, and the flags of
`QuicheConnection`. Threads hold a mutex from one step to a later one: the sender's thread
holds its own for the whole walk (`loop = "walking"`), the io thread holds a
connection's from `OnDatagram` to `EndDatagram` or, between the two posts of a first
request, at `"announced"`. `SenderFree`, `ConnFree` and `MailboxFree` are the guards.

| action | code |
|---|---|
| `Datagram`, `Find`, `Unknown`, `CreateConnection` | `QuicSendServer::OnDatagram` up to the connection, and `CreateConnection`, with an `Accept` that may fail |
| `OnDatagram` | `QuicheConnection::OnDatagram` up to its flush, with `on_data`; one of `Refused`, `Absorbed`, `Established`, `Request`, `PeerCloses`; and the timer's handler: `DeadlinePasses` |
| `PostData`, `EndDatagram` | the second post of `on_data`; the flush with `TickTimeout` |
| `Timer` | an expired `quiche_timer_` |
| `Wake`, `Visit`, `Sleep` | `QuicheSender::Loop`: each entry is removed (`Remove`) or flushed (`FlushEgress`) |
| `FindById`, `SendResponse`, `CloseConnection` | `Respond` and `Close` of the application |

`Find` and the handler are separate steps: by the time `OnDatagram` has the mutex, the
connection may be closed and out of the registry. `Remove` reads `settings_` through a
reference into an entry that it has just erased (Q:1255-1263). The outcome is undefined:
the entry of `connections_by_id_` goes or stays. `Close` sends a GOAWAY and leaves
the rest to the peer.

`ServerEvents.tla` is what an application may rely on: for each connection a Connect, then
Data, then at most one Timeout and nothing after it. A Connect event carries no
identifier, since its initializer names the event under construction (S:231-233), but the
next Data event tells whose it was: Timeout events of other connections can come
between, but no Data event of one, nor another Connect. `ImplementsEvents` states that the registry
implements it.

Abstracted: a datagram brings one thing of note (`StreamRecv` has the sequences);
the mailbox is the event last posted, so that an event that repeats the last one is
a stutter (`Mailbox` has the queue); datagrams without an accepted token leave no trace
(`SendAllocator` has the answers). Assumed of quiche: `quiche_conn_send` on a
closed connection reports that there is nothing to send, so that the flush comes
to `TickTimeout`.

### Logger

`Logger.tla` is the process-wide logger. `Log` runs in any thread. The logger's thread
tests the queue with the mutex held (`Test`), and blocks in a step of its own (`Block`):
`Terminate` sets its flag and notifies without the mutex, and may come
between the two. Both the thread and, when it has ended, the destructor swap the queue
out and write it. Levels are left out, as is an explicit `LOG_TERMINATE`, which
nothing in the repository uses. Nobody logs after the join.

## 3. What the runs check

| run | instance | properties |
|---|---|---|
| `send_client` | 3 requests of 0 to 2 units on 3 streams, 2 at once, room 2, stream 1 may be stopped | `WireIsOneBody`, `FinMeansWhole`, `Resumable`, `AcceptedIsKept`, `EndedOnce`, `HeadersMatchCalls`; liveness `AcceptedFinishes` |
| `send_server` | 2 responses on 2 streams, room 2, both may be stopped | refinement `ImplementsTransfer`; liveness `CachedLeaves` |
| `stream_recv` | client and server, 2 streams of which a server accepts one, bodies of 0 to 2 units | `PostedWhole`, `NoLeftovers`; refinement `ImplementsFeed`; liveness `ArrivedIsPosted` |
| `mailbox` | 3 pollers, one with a timeout, 3 posts | `OnceInOrder`, `NoLostWakeup`, `ShutdownFreesOne`; refinement `ImplementsQueue`; liveness `PostedIsDelivered` |
| `allocator` | sender, io, one application thread, 2 datagrams in flight, 2 buffers destroyed | `OneOwner`, `NoneLost`, `MadeWhenNeeded`; refinement `ImplementsPool` |
| `client_link` | 3 attempts to connect, 2 responses | `Http3IsCurrent`, `EventOrder`; action property `HeardIsUsable`; liveness `CloseIsNoticed`, `RetriesUntilAnswered` |
| `server` | 2 connection ids, 2 connections | `MapsAgree`; refinement `ImplementsEvents`; liveness `CloseIsDone`; no deadlock |
| `logger` | 4 lines | `OnceInOrder`; liveness `LinesGetOut`, `DestructorEnds` |
| `fin_lost` | 1 request, room 3 | `ReturnedIsKept` is violated |
| `cached_unfinished` | 2 responses, room 3 | `FlushedIsWhole` is violated |
| `stopped_stall` | 2 requests, stream 1 may be stopped | `OthersFinish` is violated |
| `conn_leak` | 2 attempts | `NoneAbandoned` is violated |

### The bounds

- Room 2 is where a HEADERS frame leaves room for one unit: HEADERS, a body and its
  FIN each end up in a flush of their own, and a body is cut at every place.
  With bodies of 2 units a retry starts at an offset that is neither 0 nor the end.
  The three calls of `send_client` are the fewest in which a stopped stream, a
  transfer in progress and a new call meet on two streams at once.
- Two streams whose reports interleave are what an entry or a buffer of the wrong
  stream needs; a body of 2 units is read in one or two parts, before or after its FIN.
- With three pollers a notification can be taken by a poller that times out
  while another is blocked; three posts make batches of different sizes.
- Two threads race for the last free buffer while the third holds one in flight.
- With three attempts to connect, a retry can follow a retry; two responses can
  be split between the mailbox and the log.
- Two connections on two ids are what a wrong entry, an identifier that stays in one
  map, or two threads that wait for each other's connection need; the second
  connection may also take the id of the first.
- Four lines can be in the queue, under way and written at once, with one more logged
  during the destruction.

Every bound is a guard on the environment (calls, posts, datagrams, attempts,
buffers destroyed): no bound stops a thread in the middle of an operation, except that
`MaxFlight` makes a thread wait for a completed send. `client_link`, `conn_leak` and
`logger` do not check deadlock: a client or a logger that was destroyed stops for
good. The other runs do check it.

### Fairness

- `StreamSend`: a thread inside `FlushEgress` goes on (WF of `Flush`), as it holds the
  mutex and does not wait. The sender's thread gets the mutex again and again
  (SF of `Tick`): it loops until terminated. The peer acknowledges again and again
  (SF of `Acked`): liveness is claimed for a live peer only, and the properties exempt
  `timeout` and, as `stopped_stall` shows they must, a queued stream that was stopped. Strong fairness stands for a mutex that is free during the sender's sleep.
- `StreamRecv`: the io thread does not stop inside `OnDatagram` (WF of `EndReceive` and of
  `ProcessH3Events`). Nothing is assumed of the peer.
- `Mailbox`: the application keeps polling and its callbacks return. A
  blocked poller has no fairness: only a notification is sure to move it.
- `ClientLink`: a handler that has begun ends; an expired timer's handler is run
  although datagrams keep coming (SF of `BeginRetry`: the `io_context` runs ready
  handlers in turn); the sender loops. Nothing is assumed of the peer or of
  `quiche_timer_`: `CloseIsNoticed` holds by the sender's loop alone.
- `ServerRegistry`: the sender's thread goes round (WF of `Wake` and `Sleep`), and it and the
  io thread get the mutexes they wait for (SF of `Visit` and `InOnDatagram`). The
  peer of a connection that closes, or that was told to go away, closes too or falls
  silent until quiche's deadline (SF of `Expires`); a peer that ignores a GOAWAY
  keeps its connection. Nothing is asked of the application.
- `Logger`: both threads go on when they can (WF). Nobody has to log again, and no
  wakeup is spurious by duty, which is why `DestructorEnds` exempts a missed notification.
  `LinesGetOut` needs no exemption: a thread that missed it has left no line behind.

### What the violated runs show

1. `fin_lost` (Q:1056). If the room ends with the body, the FIN is
   refused, `SendBody` returns false and queues nothing, and `SendRequest` returns the
   stream's id. The peer never sees the end of the request.
2. `cached_unfinished` (Q:1102). The branch that sends a cached body passes
   `bytes_left <= 0` as `fin` where `bytes_left > 0`: the FIN is never sent. And an
   answer of `QUICHE_H3_ERR_DONE` erases the response as sent.
3. `stopped_stall` (Q:1163). Any error ends the loop of `FlushTransfers`; on
   a stream the peer stopped the error is permanent, and the streams behind it
   starve.
4. `conn_leak` (Q:573). The retry overwrites `conn_` without freeing it.

Observations that are not runs, because no document says otherwise:

- A server's `Shutdown` frees one poller only (`ShutdownFreesOne` is what does hold).
- A client's Timeout event may stay in the mailbox: the client is closed before the event is
  posted, and a poll of a closed client does not look (C:40, P:137).
- A cached response copies `quiche_h3_header` entries, which point into strings that
  `Respond` destroys when it returns (Q:1013; `stale` in `StreamSend`).
- `Add` comes before `Connect`, so that the sender may flush a client's connection
  whose `conn_` is null, and a request before Connect uses a null `http3_` (C:72, Q:949;
  `nullUse` in `ClientLink`).
- The notification of `Logger::Terminate` can fall between the thread's test and its wait;
  the destructor then waits until another line is logged (T:59; `Missed` in `Logger`).

## 4. What is proved

The proofs hold for any streams, calls, room, pollers, threads and
attempts, under the assumptions on the constants (`StreamSendAssumption` etc.).

- **StreamSendProofs**: `TypeOK`, `WireIsOneBody`, `FinMeansWhole`, `Resumable`,
  `AcceptedIsKept`, `EndedOnce`, `HeadersMatchCalls`, `ImplementsTransfer`. Most are not
  inductive alone: a stream that is ended in the middle of `FlushTransfers` is still queued,
  with an empty `Buffer`. `IInv` says of each stream that its data is a prefix of its call's
  body, that queue and wire are in step also between the two, and that a stream without
  HEADERS has nothing; of each call that a cached one has a stream and no more left than
  its body; and of the walk that `unsent`, `unvisited` and `completed` only name cached,
  queued and ended ones. The lemmas `UnitsConcat` and `UnitsSlice` carry the arithmetic
  of bodies. Three more facts rest on it: that only a server caches (`Match`), that the
  streams both queued and ended are those the walk has completed (`Erasable`), and
  that a call whose SendBody returned false has its whole body on its stream (`Half`), so that what
  `fin_lost` shows is the most that can be lost there. `SendIsTransfer` maps each step to
  `Begin`, `More` or a stutter; `EndedOnce` is what makes `More` possible.
- **StreamRecvProofs**: `TypeOK`, `PostedWhole`, `NoLeftovers`, `ConnectFirst`,
  `ImplementsFeed`, and `InStep`, that an entry's buffer is what was read also before the
  message is whole. `EntryInv` ties an entry to what quiche has reported: it exists from
  HEADERS to the end, its buffer is the body that was read, outside it the buffer is empty,
  and a posted stream is finished for good. `BodyConcat` joins the parts of a body.
  `Delivered` is the converse, that nothing accepted is missing. `ConnectFirst` is part of
  the inductive invariant; the run checks the refinement, which says more.
- **MailboxProofs**: `TypeOK`, `NoLostWakeup`, `OnceInOrder`, `ShutdownFreesOne` (for a
  set of pollers that is not empty), and `ImplementsQueue`: each step of the mailbox is
  a step of the event queue or a stutter. `OnceInOrder` is inductive in the form
  `InParts`, which cuts the numbers posted into queue, batches and logs.
- **SendAllocatorProofs**: `TypeOK`, `OneOwner`, `NoneLost`, `CountIsLength`,
  `MadeWhenNeeded`, `ImplementsPool`. The strengthening says which places hold a buffer: a
  thread holds one exactly while it is writing or freeing, and the sender also between
  flushes. For `MadeWhenNeeded`, `Bounded` compares the buffers made with those that are
  held at once, with the library's facts on cardinality. `AllocatorIsPool` rests on
  `CountIsLength`, by which the unlocked read sees whether a buffer is free at that
  moment, and on `OneOwner`, by which a buffer that is taken leaves the free ones.
- **ClientLinkProofs**: `TypeOK`, `Http3IsCurrent`, `EventOrder`, `HeardIsUsable`. `Started`
  says that nothing is connected before the resolver answered, and `Trust` that
  `connected_` implies an HTTP/3 layer, that a timeout closed the client, and that
  a datagram handler that still waits for the mutex then finds the connection closed,
  which is why nothing follows Timeout.
- **ServerRegistryProofs**: `TypeOK`, `MapsAgree`, and `ImplementsEvents`: each step is a
  step of the events or a stutter. The strengthening says of the sender's walk
  that what is still to visit is registered (`Walk`), and of a handler that is past the
  connection's mutex that its connection was not noticed as closed meanwhile (`Noticed`),
  which is why no event follows a Timeout and nothing separates a Connect from its Data.
- **LoggerProofs**: `TypeOK`, `OnceInOrder` and `SleepsOnNothing`. That the lines are in
  order wherever they are is inductive with the types: a swap finds nothing unprocessed.
  `Emptied` adds that the destructor leaves nothing behind, since nobody logs after the
  join. `SleepsOnNothing`, the safety that `LinesGetOut` rests on, says that the thread
  never waits while a line is queued.

Only model-checked: the liveness properties (liveness under fairness and ENABLED are
outside the prover's reach). No module uses RECURSIVE. Facts that need
induction over data cannot be proved with the installed provers; the modules use
sequences through their functions and the library's theorems.

## 5. Not modelled

quiche's protocol, TLS and congestion control; the contents of headers, packets and log
lines; clocks (a timer may fire at any time once set, and a deadline is only
ahead or not); socket and certificate set-up; the Python wrapper, which has no
state; memory exhaustion. Further:

- The end of a server (S:34): the sender's thread may still post to a mailbox that is
  already destroyed, and a timer's handler captures `this` of a connection that the sender
  may have released. Objects are never destroyed in the modules; after such a step
  nothing is defined.
- `mint_token` and `read_token`: a pure encoding that no other part of the models
  depends on.
- The C API apart from `quicsend_client_poll`: it converts arguments and forwards calls. A
  body of 2 GiB or more, whose length does not fit its 32 bits (P:116), is beyond the
  integers of TLC.
- The composition of `ClientLink` with `StreamSend`: each has what the other needs of it
  (a connection that closes; requests as far as they touch the link). Their product is
  too large for the runs, and no property relates streams to attempts to connect.

## 6. Where it may go next

A run is one question, and the runs are kept few; each of these would take the place of a
narrower one: the end of a server with the lifetime of its objects; several events in
one datagram of `ServerRegistry`, composed with `StreamRecv`; `EventOrder` of
`ClientLink` as a refinement of a one-connection event stream.
