# TLA+ models of the netstack socket proxy

These modules model `src/socket_functions.c` of netstack. That file holds two
sources: the socket request handlers (lines 1-1192), and `handle_watcher.c`
(lines 1193-1483), which is appended after a separator. The models were written
from the code. `spec.md` supplied the properties the code is expected to keep.
It also supplied the parts of the system that live outside `src/`: the
multiplexer's main loop, the RIO dispatcher, `iostate_release` and the wait
queues.

## The system

netstack serves BSD sockets to client processes over Magenta channels.

- **Handlers.** Every request runs on one request runner, `handle_request`
  (1136-1192). It calls a `do_*` handler, which does one of three things:
  - completes the request;
  - returns `PENDING_NET`, and the request is parked on the `WAIT_NET` queue
    keyed by the socket fd;
  - returns `PENDING_SOCKET`, and it is parked on the `WAIT_SOCKET` queue.
- **IOState.** Each open socket has an `iostate_t`. It holds the backend
  `sockfd` and the client's data handle `data_h` (a Magenta socket for stream
  sockets, a channel for datagram sockets). It also holds `rbuf`/`wbuf` with
  offsets, the set of pipe signals watched in the wait-set, and a reference
  count. `create_handles` takes one reference for the RIO channel and one for
  `data_h`.
- **Stream pipelines.** Once connected (`do_accept`, or `do_connect` /
  `do_sigconn_w`), `schedule_rw` parks a READ on `WAIT_NET` and a WRITE on
  `WAIT_SOCKET`.
  - READ (`do_read_stream`) moves bytes socket → `rbuf` → pipe to the client.
  - WRITE (`do_write_stream`) moves bytes pipe → `wbuf` → socket.
  - Each parks again where it would block.
- **Multiplexer and watcher.** Each round the main loop does the following:
  1. It starts the watcher thread with `handle_watcher_start`.
  2. It blocks in `select()`.
  3. It stops the watcher with `handle_watcher_stop` (an ABORT if no answer
     yet).
  4. If a pipe signal was found, it runs `handle_watcher_schedule_request`.
     That function clears the observed signals from the watch set, then either
     synthesises CLOSE (peer closed) or HALFCLOSE (client half-closed), or
     dispatches every request parked on `WAIT_SOCKET`.
  5. It runs the requests parked on `WAIT_NET` for the sockets that are ready.
- **Other handlers.** Control and metadata requests include `do_open`
  (`do_none`/`do_socket`/`do_accept`), `do_bind`, `do_listen`,
  `do_sigconn_r`, `do_ioctl`, `do_getaddrinfo` and the `get/setsock*`
  handlers. Each runs once and replies with `send_status`.

## Modules

| module | models | source |
|---|---|---|
| `ByteStream` | abstract: one direction of a stream connection delivers the written bytes in order, each once | spec §P5 |
| `StreamConn` | one stream IOState, from `do_socket` through `do_connect`/`do_sigconn_w` or from `do_accept`: READ and WRITE pipelines, CLOSE, HALFCLOSE, the watcher's dispatch for this IOState, the multiplexer, a concurrent client and remote peer | 48-94, 309-367, 369-437, 485-535, 684-753, 813-879, 1136-1192, 1273-1325 |
| `MC_StreamConn` | bounds for `StreamConn` | |
| `HandleWatcher` | the START/ABORT control protocol between the main loop and the watcher thread | 1214-1271, 1368-1483 |
| `Lifecycle` | IOStates from `do_open` to their release: every open path and its failures, `create_handles`, the OPEN reply, and the three ways to close | 127-176, 274-385, 457-535, 1156-1180, 1296-1307 |
| `MC_Lifecycle` | three records as model values for `Lifecycle` | |
| `DgramConn` | one datagram IOState from `do_socket`: `do_bind`'s first READ, `do_connect`, `do_read_dgram`, `do_write_dgram`, `do_read`/`do_write`, CLOSE, the watcher, the multiplexer, a concurrent client, remote peer and socket errors | 48-56, 358-385, 395-414, 439-456, 755-811, 881-940, 1273-1366 |
| `MC_DgramConn` | bounds for `DgramConn` | |
| `OpenPath` | `do_open`'s routing: `match_subdir`, `parse_socket_args` with the C library's `strtol`, and `do_socket`'s type mapping, against the contract of spec 4.4 | 201-272, 311-325 |

### StreamConn

**State.** It tracks the following:
- The peer and the socket: `peerSent`, `netIn`, `peerFin`, `netOut`,
  `peerRead`, `shutWr`, `sockOpen` (`sockfd >= 0`).
- The connection: `conn` (the backend's view: idle, pending, established,
  refused) and `connects` (CONNECT requests sent, bounded by `MaxConnects`).
- The IOState: `rbuf/rlen/roff`, `wbuf/wlen/woff`, `watching`
  (`watching_signals`), `refcount`.
- The client: the two pipe directions, its half-close and close, and whether
  its RIO channel is still registered, and `userSig`, the CONNECTED and
  OUTGOING user signals set on its end.
- Three request queues: `waitNet`, `waitSock`, and `runq`. `runq` is the batch
  the runner is dispatching: the multiplexer's batch, or the watcher's local
  queue.
- One history variable, `dataRef`: the `data_h` reference is still held.

**Init.** Either the state `do_accept` leaves (established, CONNECTED,
READ and WRITE parked), or the fresh stream socket `do_socket` leaves
(nothing parked, PEER_CLOSED|HALFCLOSED watched).

**Data.** Bytes are numbers 1, 2, …. The pipe signals are computed from the
pipe's state (`Asserted`).

**Actions.**
- `RunRead` / `RunWrite` are `handle_request` running `do_read_stream` /
  `do_write_stream` on the head of `runq`, parking included.
- Each pipeline splits into a pull step (`ReadPull`, `WritePull`) and a push
  loop (`ReadPush`, `WritePush`).
- `WritePull` runs the CLOSE that `handle_request_close` synthesises inline,
  as the code does.
- `RunClose` is `do_close`. `RunHalfClose` is `do_halfclose`.
- `WatcherWake` is `handle_watcher_schedule_request` for this IOState,
  signal clearing and the three branches included.
- `NetReady` is the multiplexer handing a ready fd's `WAIT_NET` queue to the
  runner. `RioPeerClosed` is the dispatcher releasing the RIO reference.
- `ClientConnect` is the client's CONNECT reaching `do_connect`, with every
  `net_connect` result (`BackendConnect`: success, EINPROGRESS, refusal;
  EALREADY or EISCONN on a repeated call; EBADF once closed). EINPROGRESS
  parks SIGCONN_W on `WAIT_NET`; success runs `schedule_rw` (`ScheduleRw`).
- `RunSigconnW` is `do_sigconn_w`: OUTGOING is set unconditionally, then
  `schedule_rw` runs if SO_ERROR reads 0.
- `last_errno` is left out: no property tells its values apart, and
  `getsockopt` changes nothing else.
- The environment actions are the peer (send, FIN, read), the remote end
  answering a connect in progress (`ConnAnswer`) and the client (connect,
  write, read, half-close, close).

**Refinement.** `ReadStream` and `WriteStream` instantiate `ByteStream` with a
refinement mapping:
- `peerSent`/`clientGot` for the read direction;
- `clientSent`/the prefix of `netOut` the peer has read for the write
  direction.

`ReadStreamSpec` and `WriteStreamSpec` are checked as properties.

**Fairness.**
- The handlers get weak fairness: the runner finishes the batch it took.
- `WatcherWake` and `NetReady` get strong fairness. Every iteration of the main
  loop services both sources, while either source can disable the other for a
  moment by taking the runner.
- The peer's reads and the client's reads get weak fairness.
- `ConnAnswer` gets weak fairness: a connect in progress is answered, by
  the backend's timeout at the latest.
- Sending, half-closing and closing are free choices.

**Bounds.** `MC_StreamConn`: 3 peer bytes, 2 client bytes, `BufSize` 2,
`PipeCap` 2, `SendCap` 1, `MaxConnects` 2.
- Three bytes into a 2-byte pipe through a 2-byte `rbuf` are the least that
  makes a READ write short and park on `WAIT_SOCKET`.
- Two bytes into a 1-byte send buffer make a WRITE write short and park on
  `WAIT_NET`.
- Two CONNECTs reach EALREADY and EISCONN, the repeated calls that must not
  schedule the pipelines again.
- Every action and every branch fires at these bounds (checked with TLC
  coverage).
- With one byte fewer in either direction, the offset mutants below are not
  caught.

Deadlock checking is off. Once the bounded peer and client stop, the server
idles.

### HandleWatcher

**State.**
- The main loop's position and the answer it read.
- The watcher thread's position and its local `c`.
- The two directions of the control channel.
- The interrupter pipe.
- One flag for "some watched IOState signal is asserted", and one for "a socket
  is ready".
- A round parity tag on the messages. This is history only; the code does not
  have it.

**Actions.** They follow the code: `WatcherStart`, `StopPoll`/`StopRecv` (the
two halves of `handle_watcher_stop`), and `LoopRecv`/`LoopWait`/
`LoopInterrupt`/`LoopReply` (`handle_watcher_loop`). `MainSelect` and
`MainDispatch` stand for the multiplexer loop, which is not under `src/`.

**Fairness.** Weak fairness for each thread. The environment's events are free.

The state space is finite without bounds. `TypeOK` states how full the
channels get:
- towards the watcher: at most three commands (an ABORT left over from the
  last round, START, ABORT);
- towards the main loop: at most one answer.

Deadlock checking is on: the protocol must never leave both threads blocked.

### Lifecycle

**State.** Per record (`Ids`, model values): whether it is allocated
(`used`) and not freed (`alive`), `refcount`, `handle_type`, an open
`sockfd` (`fd`), the registered RIO end (`rioReg`), `data_h` (`dataH`),
the watched `PEER_CLOSED` (`watchPC`) and the requests parked for it
(`parked`). The client side holds its RIO and data ends (`cRio`, `cData`);
`stray` holds client ends that an undelivered OPEN reply left in netstack.
`reply` is the fate of the last OPEN reply. For the listening parent,
`lArmed` counts the parked `SIGCONN_R` requests and `lIncoming` is its
INCOMING signal. `dataRef` is history: the reference `create_handles` took
for `data_h` has not been given back by a CLOSE.

**Actions.**
- `OpenNone`, `OpenSocket`, `OpenAccept` are `do_open` with `do_none`,
  `do_socket`, `do_accept`, each failure path a disjunct: `net_socket`
  (the record is kept), the FIONBIO ioctl and every failure of
  `create_handles` (released; the fd stays open), success (the watch set,
  and the WRITE or READ+WRITE that `schedule_w`/`schedule_rw` park). Each
  ends with `Reply`, the `mx_channel_write` of the status and `hcount`
  handles, which fails when the handles are invalid.
- `ListenerReady` is the multiplexer running the parked `SIGCONN_R`s.
  `OpenAccept` clears INCOMING and re-arms one `SIGCONN_R` right after a
  successful `net_accept`, before its ioctl and `create_handles` can fail;
  a failed `net_accept` changes neither.
- `ClientClose` is an explicit CLOSE: `do_close` through `handle_request`,
  then the dispatcher's release. `ClientCloseRio` is the dispatcher's release
  when the client closes its RIO end. `ClientCloseData` is the client
  closing its data end. For each record the client chooses either
  discipline. `WatcherClose` is the watcher's synthesised CLOSE once the
  client closed its data end.
- `ReleaseN` is `iostate_release` as the spec describes it: the release that
  reaches zero frees the record and `data_h`.

**Constants per run.** `Types` (what the client opens), `Failures` (which
calls fail), `CloseTypes` and `CloseAfterData` (the handle types the client
sends CLOSE for, and whether it may send it after closing its data end).
The pass run leaves out CLOSE on a `none` IOState and CLOSE after the data
end. Both are double releases at line 383: the first releases a `data_h`
reference that was never taken, and the second is the one `stream_refcount`
shows.

**Fairness.** Weak fairness on the client's closes and on the watcher's
CLOSE: the client eventually lets go of what it holds, and a closed peer is
always reported. Opening is a free choice.

**Bounds.** Three records: enough for a listener's accept to produce a
child while other opens fail or are closed. Opens stop when the records run
out, so deadlock checking is off. Both runs check liveness, so neither uses
symmetry. The pass run has 200166 distinct states.

### DgramConn

**State.** The socket: datagrams queued for `recvfrom` (`netIn`), a pending
socket error (`netErr`, e.g. an ICMP error on a connected UDP socket), the
send buffer's fill (`sndq`), `sockOpen`, and whether the socket has a local
address (`local`). The IOState: the datagram left in `rbuf`, `watching`
(`ios->watching_signals`), `refcount`. The wait-set's entry for the IOState
is its own variable, `registered` (`{}` when there is none), and `addFails`
counts failed `mx_waitset_add` calls. The channel in both directions (`toClient`, `fromClient`), the
client's reads (`clientGot`), `clientClosed`, `rioOpen`, and the queues
`waitNet`, `waitSock`, `runq`. A client message is a record of its number
and whether its payload is empty; addresses are left out. The history
variables are `bound` (BIND succeeded), `recvFailed` (a READ was dropped
on a `recvfrom` error) and `closeSent` (the client sent CLOSE).

**Actions.** `Init` is `do_socket` for SOCK_DGRAM: `PEER_CLOSED|HALFCLOSED`
watched, then `schedule_w` parks a WRITE on `WAIT_SOCKET` with READABLE.
The runner's actions are:
- `ClientBind`: `do_bind`, whose `schedule_r` parks the only READ.
- `ClientConnect`: `do_connect`, which parks nothing for a datagram socket.
- `RunRead`/`ReadDgram`: `do_read_dgram`. `recvfrom` takes a datagram, or
  reports the pending error; the backend may do either first. A delivered
  datagram re-parks the READ. An error, or a failed channel write, drops it.
- `RunWrite`/`WriteDgram`: `do_write_dgram`. It takes one message. A message
  with a payload is `sendto`'d, and sendto's errno is ignored, so a pending
  error or a full send buffer loses the datagram. An empty message is
  dropped. In every case READABLE|PEER_CLOSED is re-armed and the WRITE parked.
- `RunClose`, `WatcherWake`, `NetReady`, `RioPeerClosed`, as in `StreamConn`.
- `ClientCloseReq`: the client's CLOSE, sent while it still holds its end of
  the channel. `do_close`, then the dispatcher's release, take the count to
  zero. A CLOSE after the watcher's is the double release `stream_refcount`
  shows, so it is left out.
  `WatcherWake` fires only for signals in `registered`, and clears what it
  observed through `SignalsClear`.
- `SignalsChange`, `SignalsSet` and `SignalsClear` are `socket_signals_change`,
  `socket_signals_set` and `socket_signals_clear`. A change removes the entry,
  adds one for the new set, and only then updates `watching`. An
  `mx_waitset_add` failure (at most `MaxAddFailures`) returns early, after the
  entry is gone and with `watching` left stale. `SignalsSet` returns early when
  `watching` already has every signal.

The environment's actions are `PeerSend`, `NetError`, `PeerRecv`,
`ClientWrite`, `ClientRead` and `ClientClose`.

Four branches of the code are not reached for a datagram IOState and are left
out, each with a comment saying why:
- `recvfrom`'s EWOULDBLOCK: the READ runs only on readiness.
- `do_write_dgram`'s SHOULD_WAIT and ERR_PEER_CLOSED: the WRITE is woken only
  for READABLE, and it is the channel's only reader.
- The watcher's HALFCLOSE branch: a datagram client never sets HALFCLOSED.

**Fairness** is the same as in `StreamConn`.

**Bounds.** Two datagrams each way, a send buffer of one (the second
`sendto` can meet EWOULDBLOCK), and one socket error, which can come before,
between or after the datagrams, and one `mx_waitset_add` failure, in the
watcher's clear or in a WRITE's set. The run has 18990 distinct states. Deadlock
checking is off: the bounded client and peer stop.

### OpenPath

`path` is the OPEN payload: the name of the first segment (`none`, `socket`,
`accept`) followed by up to `MaxRest` characters from `1 2 / space x`.
`libcEinval` says whether the C library's `strtol` sets EINVAL when it finds
no digit; C leaves that to the library, so Init chooses it. `DoOpen` is one
step: `MatchSubdir` on the three names in the code's order, then for
`socket` `DoSocketRoute` (`ParseSocketArgs`, then the type check). `StrToL`
is `strtol` itself: white space, a sign, the longest digit run, ERANGE
saturation. `IntOfLong` is the assignment of its `long` result to an `int`.

The contract side is written independently of the code: `Segments` splits
at `/`, and `StrictSocketRoute` accepts exactly three non-empty digit
strings whose values fit an `int`.

**Bounds.** Widths are scaled down so that both overflows happen in short
paths: `int` has 4 bits and `long` 6, so `22` passes `strtol` but not the
`int`, and `222` gives ERANGE. Seven characters after `socket` hold
`/D/T/P` with two-digit fields and every mix of empty fields, spaces and
foreign characters. The model has no behaviour over time (one step), so
deadlock checking is off.

## Runs

| run | cfg | expect | what it shows |
|---|---|---|---|
| stream | `MC_StreamConn.cfg` | pass | `TypeOK` (types, and `roff <= rlen`, `woff <= wlen` between requests); `EofAfterAllData` (the half-close marker follows all data); `ReadStreamSpec`/`WriteStreamSpec` (both pipelines refine an ordered, lossless, duplicate-free byte stream across short writes and re-parking); `WriteProgress` (client bytes, also those written before connect, eventually reach the peer once connected, unless the socket is shut or closed); `ConnectedOnlyWhenEstablished`; `OneReaderOneWriter` (at most one READ and one WRITE exist, whatever sequence of CONNECTs); `ConnectResolves` (a connect in progress ends with OUTGOING, and CONNECTED if established) |
| stream_close | `MC_StreamConn_close.cfg` | violation | `NoPendingAfterClose`: a READ detached by the watcher runs after a WRITE in the same batch closed the IOState |
| stream_refcount | `MC_StreamConn_refcount.cfg` | violation | `RefcountMatchesHolders`: the `data_h` reference is released twice, by the WRITE's CLOSE and by a second CLOSE the watcher synthesises |
| stream_halfclose | `MC_StreamConn_halfclose.cfg` | violation | `ShutdownAfterClientData`: HALFCLOSE shuts the socket down with client bytes still in `wbuf` |
| stream_readstall | `MC_StreamConn_readstall.cfg` | violation | `ReadProgress`: the watcher clears WRITABLE and takes the HALFCLOSE branch, so a READ parked on a full pipe is never woken |
| lifecycle | `MC_Lifecycle.cfg` | pass | every type and every failure of `do_open`: `TypeOK`; `NoPendingForFreed`; `ListenerArmed` (the listening parent always has INCOMING set or a `SIGCONN_R` parked, across accept failures); `HeldIOStateFreed` (every record whose RIO end reached the client is eventually freed, whether the client sends CLOSE or only closes its handles) |
| lifecycle_leak | `MC_Lifecycle_leak.cfg` | violation | `IOStateFreed` (spec section 5: a handler that fails after allocating an IOState releases it). The trace leaks one record through a `net_socket` failure (line 335) and another through a lost OPEN reply (line 284) |
| dgram_waitset | `MC_DgramConn_waitset.cfg` | violation | `PeerClosedDetected` (spec section 7: a client that closes the channel gets CLOSE synthesised). After one `mx_waitset_add` failure in the watcher's clear, the WRITE's `socket_signals_set` returns early on the stale `watching_signals`. The entry is never added again, and the IOState is never closed |
| dgram | `MC_DgramConn.cfg` | pass | `ReadChannelSpec` (the peer's datagrams reach the client whole, once, in order, even when a `recvfrom` error comes while `rbuf` holds the previous one); `DgramWriteProgress` (every client message is taken from the channel, including the ones written just before the client closes, unless an `mx_waitset_add` failed or the client sent CLOSE); `DgramReadProgress` (after BIND, every datagram is delivered, unless the client closes, sends CLOSE, or a `recvfrom` error drops the READ); `NoPendingAfterClose` and `RefcountMatchesHolders` (across the client's CLOSE and the watcher's), which both hold for a datagram IOState, unlike a stream one |
| watcher | `HandleWatcher.cfg` | pass | `StopReadsOwnRound` (each answer is read in the round that asked for it, a late ABORT notwithstanding); `WaitsetExclusive`; `StopReturns`; `SignalDispatched` (no lost wakeup) |
| openpath | `OpenPath.cfg` | pass | `ValidPathAccepted` (every well-formed path reaches the backend with its numbers); `GarbageRejected` (foreign characters or a wrong number of fields give INVALID_ARGS), for either C library |
| openpath_strict | `OpenPath_strict.cfg` | violation | `StrictParse`: `parse_socket_args` accepts empty fields (`socket///` with glibc), white space, and numbers it then truncates to `int` |

At most twelve runs are kept. The stream double release through the
client's explicit CLOSE (line 1304) is the same defect `stream_refcount`
shows, so `Lifecycle` no longer spends a run on it. The error reply lost
after a `dispatcher_add` failure (line 143) is still modelled (`reply`), but
no run checks it. `lifecycle_noneclose` was retired to make room for `dgram`.
It showed that CLOSE on an IOState opened with `none` releases a `data_h`
reference that was never taken (line 383). The defect is still in the code,
and `Lifecycle` still reaches it with `CloseTypes = {"NONE"}`. A single unit
test reaches it too.

`DgramConn` and `OpenPath` check no type invariant: every field of theirs is
either bounded by its environment or typed by C, so no slip in the code
could break one.

The findings in `PROJECT.json` explain each violation, with its line.

**Mutants.** Every property of a passing run has a mutant in `PROJECT.json`: a
plausible slip in the code that TLC shows the property catches. Examples:
- a missing offset update after a short write;
- a missing re-arm of READABLE;
- treating an ABORT as START;
- an ABORT never sent;
- a missing interrupt.

## Not modelled yet

- A failure after `net_socket` releases without `net_close` (346, 354, 516,
  523). `Lifecycle` models the open fd, but whether that leaks depends on
  `iostate_release`, which is outside `src/`, so no property states it.
- The OUTGOING signal `do_sigconn_w` sets even for a refused connect (422),
  against spec 4.8: modelled, but no run is left to check the spec's wording.
- The number of parked `SIGCONN_R` requests (`lArmed` counts them, but the
  spec sets no bound).
- Two datagram drops: `do_write_dgram` ignores `sendto`'s EWOULDBLOCK (919),
  against spec section 7's re-arm rule, and drops empty messages. `DgramConn`
  models both. UDP may lose any datagram, so no property tells these drops
  apart from the network's.
- Datagram addresses: the `addrlen == 0` choice of a NULL address only
  selects the destination.
- The partial failure of `socket_signals_change` in `StreamConn`: the same
  code is checked in `DgramConn`, where the state space leaves room for it.
- `last_errno` and `SO_ERROR`: the value is the last backend call's errno,
  as spec section 3 says.
- The rwbuf free list; `errno_to_status`, a table with no state.

The following are left out for good reasons:
- `do_ioctl`, `do_getaddrinfo` and `get/setsockname/peername/sockopt` are
  thin, stateless calls into the backend, apart from `last_errno`.
- `send_status` formats a reply.
- The multiplexer, dispatcher and `iostate_release` are not under `src/`. They
  appear only as the environment they present.

## Plan

1. (done) `Lifecycle`; `OpenPath`; connect signalling in `StreamConn`.
2. (done) `DgramConn`; the listener's arming in `Lifecycle`.
3. (done) The wait-set bookkeeping and its partial failure, in `DgramConn`.
4. (done) The client's CLOSE in `DgramConn`; per-record close discipline and
   every `do_open` failure in the `Lifecycle` pass run; the leak run.
