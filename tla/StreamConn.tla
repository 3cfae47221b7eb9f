----------------------------- MODULE StreamConn -----------------------------
(***************************************************************************)
(* One connected stream IOState of the netstack socket proxy              *)
(* (src/socket_functions.c), as left by do_accept or by a completed        *)
(* connect: a READ request pumps bytes from the backend socket through     *)
(* rbuf into the client's data pipe, a WRITE request pumps bytes from the  *)
(* pipe through wbuf into the socket.  A request that cannot progress is   *)
(* parked on WAIT_NET (socket readiness) or WAIT_SOCKET (pipe signals      *)
(* watched in the wait-set).  All handlers run on the single request       *)
(* runner; the runner takes a whole parked queue at once (the multiplexer  *)
(* on socket readiness, handle_watcher_schedule_request on pipe signals)   *)
(* and dispatches it request by request.  The client process and the       *)
(* remote network peer run concurrently with the runner.                   *)
(*                                                                         *)
(* Data is abstracted to byte numbers: the peer sends 1, 2, ... and the    *)
(* client writes 1, 2, ..., so duplication, loss and reordering show.      *)
(***************************************************************************)
EXTENDS Integers, Sequences

CONSTANTS
  MaxPeerBytes,     \* bytes the remote peer sends on the connection
  MaxClientBytes,   \* bytes the client writes into its data pipe
  BufSize,          \* RWBUF_SIZE: capacity of rbuf and of wbuf
  PipeCap,          \* bytes each direction of the data pipe holds
  SendCap,          \* bytes the backend socket's send buffer holds
  MaxConnects       \* CONNECT requests the client sends

ASSUME /\ MaxPeerBytes \in Nat /\ MaxClientBytes \in Nat /\ MaxConnects \in Nat
       /\ BufSize \in Nat \ {0} /\ PipeCap \in Nat \ {0} /\ SendCap \in Nat \ {0}

\* Signals of the server end of the data pipe that the code watches.
Signals == {"READABLE", "WRITABLE", "PEER_CLOSED", "HALFCLOSED"}
\* Request op-codes that occur on a connected stream IOState.
Ops == {"READ", "WRITE", "CLOSE", "HALFCLOSE", "SIGCONN_W"}
\* User signals the server sets on the client's end of the data pipe.
UserSignals == {"CONNECTED", "OUTGOING"}
\* States of the backend socket's connection to the remote peer.
ConnStates == {"idle", "pending", "established", "refused"}

VARIABLES
  \* the remote peer and the backend socket
  peerSent,         \* bytes the peer has sent
  netIn,            \* bytes received by the socket, not yet net_read
  peerFin,          \* the peer has shut its sending side
  netOut,           \* bytes net_write has put into the socket
  peerRead,         \* how many of netOut the peer has consumed
  shutWr,           \* net_shutdown(SHUT_WR) has been done
  sockOpen,         \* ios->sockfd >= 0
  conn,             \* the backend's view of the connection (ConnStates)
  connects,         \* CONNECT requests the client has sent
  \* the IOState
  rbuf, rlen, roff, \* inbound buffer: rbuf[roff+1..rlen] is unsent
  wbuf, wlen, woff, \* outbound buffer: wbuf[woff+1..wlen] is unsent
  watching,         \* ios->watching_signals
  refcount,         \* the IOState's reference count
  \* the client's ends of the data pipe and of the RIO channel
  toClient,         \* bytes in the pipe towards the client
  clientGot,        \* bytes the client has read
  eofSent,          \* MX_SOCKET_HALF_CLOSE written towards the client
  clientSent,       \* bytes the client has written
  fromClient,       \* bytes in the pipe towards the server
  clientHalfClosed, \* client has set MXSIO_SIGNAL_HALFCLOSED
  clientClosed,     \* client has closed its end of the data pipe
  rioOpen,          \* RIO channel still registered with the dispatcher
  userSig,          \* user signals set on the client's end (UserSignals)
  \* requests
  waitNet,          \* WAIT_NET queue for ios->sockfd
  waitSock,         \* WAIT_SOCKET queue for ios->sockfd
  runq,             \* requests the runner is dispatching, in order
  \* history
  dataRef           \* 1 while the reference taken for data_h is held

peerVars == <<peerSent, netIn, peerFin, netOut, peerRead, shutWr, sockOpen,
              conn, connects>>
iosVars == <<rbuf, rlen, roff, wbuf, wlen, woff, watching, refcount>>
clientVars == <<toClient, clientGot, eofSent, clientSent, fromClient,
                clientHalfClosed, clientClosed, rioOpen, userSig>>
queueVars == <<waitNet, waitSock, runq>>
vars == <<peerVars, iosVars, clientVars, queueVars, dataRef>>

Min2(a, b) == IF a < b THEN a ELSE b
Bytes(n) == [i \in 1..n |-> i]
Req(op, sigs) == [op |-> op, sigs |-> sigs]

\* Signals currently asserted on the server end of the data pipe; the
\* wait-set reports all of them as `observed`.
Asserted ==
  { s \in Signals :
      \/ s = "READABLE"    /\ fromClient # <<>>
      \/ s = "WRITABLE"    /\ ~clientClosed /\ Len(toClient) < PipeCap
      \/ s = "PEER_CLOSED" /\ clientClosed
      \/ s = "HALFCLOSED"  /\ clientHalfClosed }

SendSpace == SendCap - (Len(netOut) - peerRead)
\* A socket whose connect is still in progress is neither readable nor
\* writable; a refused one is both (the pending error).
NetReadable == \/ conn = "established" /\ (netIn # <<>> \/ peerFin)
               \/ conn = "refused"
NetWritable == \/ conn = "established" /\ (shutWr \/ SendSpace > 0)
               \/ conn = "refused"

-----------------------------------------------------------------------------
(* The two ways a stream IOState comes to exist.  After do_accept,       *)
(* create_handles took the RIO and the data_h references and watches      *)
(* PEER_CLOSED|HALFCLOSED, and schedule_rw set CONNECTED, parked a READ on *)
(* WAIT_NET and a WRITE on WAIT_SOCKET with READABLE watched.  After       *)
(* do_socket the same handles exist but nothing is parked until connect.   *)
Init ==
  /\ peerSent = 0 /\ netIn = <<>> /\ peerFin = FALSE
  /\ netOut = <<>> /\ peerRead = 0 /\ shutWr = FALSE /\ sockOpen = TRUE
  /\ connects = 0
  /\ rbuf = <<>> /\ rlen = 0 /\ roff = 0
  /\ wbuf = <<>> /\ wlen = 0 /\ woff = 0
  /\ refcount = 2
  /\ toClient = <<>> /\ clientGot = <<>> /\ eofSent = FALSE
  /\ clientSent = 0 /\ fromClient = <<>>
  /\ clientHalfClosed = FALSE /\ clientClosed = FALSE /\ rioOpen = TRUE
  /\ runq = <<>>
  /\ dataRef = 1
  /\ \/ /\ conn = "established" /\ userSig = {"CONNECTED"}        \* do_accept
        /\ watching = {"PEER_CLOSED", "HALFCLOSED", "READABLE"}
        /\ waitNet = <<"READ">> /\ waitSock = <<"WRITE">>
     \/ /\ conn = "idle" /\ userSig = {}                          \* do_socket
        /\ watching = {"PEER_CLOSED", "HALFCLOSED"}
        /\ waitNet = <<>> /\ waitSock = <<>>

-----------------------------------------------------------------------------
(* do_close: close the socket once, clear its events, discard both wait   *)
(* queues keyed by the fd, and release one reference in every case.       *)
DoClose ==
  /\ IF sockOpen
       THEN /\ sockOpen' = FALSE
            /\ waitNet' = <<>>
            /\ waitSock' = <<>>
       ELSE UNCHANGED <<sockOpen, waitNet, waitSock>>
  /\ refcount' = refcount - 1
  /\ dataRef' = 0

(* The half-close path of do_read_stream (n == 0 or a failed net_read):   *)
(* write MX_SOCKET_HALF_CLOSE towards the client; ERR_PEER_CLOSED is       *)
(* tolerated.  The request is not parked again.                            *)
ConnectionClosed ==
  eofSent' = (eofSent \/ ~clientClosed)

(* Faulty variants of the pipeline steps, each a plausible slip in the     *)
(* code, kept to show that the properties below detect it.                 *)

\* ReadPush missing the `ios->roff = 0` reset after the loop has drained rbuf.
ReadPushNoOffsetReset(buf, len, off) ==
  LET k == Min2(PipeCap - Len(toClient), len - off) IN
  /\ rbuf' = buf
  /\ \/ /\ clientClosed
        /\ rlen' = len /\ roff' = off
        /\ UNCHANGED <<toClient, watching, waitNet, waitSock>>
     \/ /\ ~clientClosed /\ off + k < len
        /\ toClient' = toClient \o SubSeq(buf, off + 1, off + k)
        /\ rlen' = len /\ roff' = off + k
        /\ watching' = watching \cup {"WRITABLE"}
        /\ waitSock' = Append(waitSock, "READ")
        /\ UNCHANGED waitNet
     \/ /\ ~clientClosed /\ off + k = len
        /\ toClient' = toClient \o SubSeq(buf, off + 1, len)
        /\ rlen' = 0 /\ roff' = len
        /\ waitNet' = Append(waitNet, "READ")
        /\ UNCHANGED <<watching, waitSock>>

\* ReadPush missing `ios->roff += nwritten` after a short write.
ReadPushKeepsOffset(buf, len, off) ==
  LET k == Min2(PipeCap - Len(toClient), len - off) IN
  /\ rbuf' = buf
  /\ \/ /\ clientClosed
        /\ rlen' = len /\ roff' = off
        /\ UNCHANGED <<toClient, watching, waitNet, waitSock>>
     \/ /\ ~clientClosed /\ off + k < len
        /\ toClient' = toClient \o SubSeq(buf, off + 1, off + k)
        /\ rlen' = len /\ roff' = off
        /\ watching' = watching \cup {"WRITABLE"}
        /\ waitSock' = Append(waitSock, "READ")
        /\ UNCHANGED waitNet
     \/ /\ ~clientClosed /\ off + k = len
        /\ toClient' = toClient \o SubSeq(buf, off + 1, len)
        /\ rlen' = 0 /\ roff' = 0
        /\ waitNet' = Append(waitNet, "READ")
        /\ UNCHANGED <<watching, waitSock>>

(* The push loop of do_read_stream over rbuf[off+1..len].  mx_socket_write *)
(* takes what fits in the pipe; a full pipe gives ERR_SHOULD_WAIT.          *)
ReadPush(buf, len, off) ==
  LET k == Min2(PipeCap - Len(toClient), len - off) IN
  /\ rbuf' = buf
  /\ \/ /\ clientClosed                 \* ERR_PEER_CLOSED: request dropped
        /\ rlen' = len /\ roff' = off
        /\ UNCHANGED <<toClient, watching, waitNet, waitSock>>
     \/ /\ ~clientClosed /\ off + k < len
        /\ toClient' = toClient \o SubSeq(buf, off + 1, off + k)
        /\ rlen' = len /\ roff' = off + k
        /\ watching' = watching \cup {"WRITABLE"}
        /\ waitSock' = Append(waitSock, "READ")
        /\ UNCHANGED waitNet
     \/ /\ ~clientClosed /\ off + k = len
        /\ toClient' = toClient \o SubSeq(buf, off + 1, len)
        /\ rlen' = 0 /\ roff' = 0
        /\ waitNet' = Append(waitNet, "READ")
        /\ UNCHANGED <<watching, waitSock>>

\* ReadPull taking every net_read that returns no data for end of stream.
ReadPullEagainIsEof ==
  \/ /\ sockOpen /\ netIn # <<>>
     /\ \E n \in 1..Min2(BufSize, Len(netIn)) :
          /\ netIn' = SubSeq(netIn, n + 1, Len(netIn))
          /\ ReadPush(SubSeq(netIn, 1, n), n, 0)
     /\ UNCHANGED eofSent
  \/ /\ ~sockOpen \/ netIn = <<>>
     /\ ConnectionClosed
     /\ UNCHANGED <<netIn, rbuf, rlen, roff, toClient, watching, waitNet, waitSock>>

(* The pull step of do_read_stream, taken when rlen == 0.  net_read may    *)
(* return fewer bytes than are available.                                  *)
ReadPull ==
  \/ /\ sockOpen /\ netIn # <<>>
     /\ \E n \in 1..Min2(BufSize, Len(netIn)) :
          /\ netIn' = SubSeq(netIn, n + 1, Len(netIn))
          /\ ReadPush(SubSeq(netIn, 1, n), n, 0)
     /\ UNCHANGED eofSent
  \/ /\ ~sockOpen \/ (netIn = <<>> /\ peerFin)
     /\ ConnectionClosed
     /\ UNCHANGED <<netIn, rbuf, rlen, roff, toClient, watching, waitNet, waitSock>>
  \/ /\ sockOpen /\ netIn = <<>> /\ ~peerFin       \* EWOULDBLOCK
     /\ waitNet' = Append(waitNet, "READ")
     /\ UNCHANGED <<netIn, eofSent, rbuf, rlen, roff, toClient, watching, waitSock>>

(* handle_request dispatching MXRIO_READ to do_read_stream; PENDING_NET    *)
(* and PENDING_SOCKET park the request, anything else frees it.            *)
RunRead ==
  /\ runq # <<>> /\ Head(runq).op = "READ"
  /\ runq' = Tail(runq)
  /\ IF rlen = 0
       THEN ReadPull
       ELSE ReadPush(rbuf, rlen, roff) /\ UNCHANGED <<netIn, eofSent>>
  /\ UNCHANGED <<peerSent, peerFin, netOut, peerRead, shutWr, sockOpen, conn,
                 connects, wbuf, wlen, woff, refcount, clientGot, clientSent,
                 fromClient, clientHalfClosed, clientClosed, rioOpen, userSig,
                 dataRef>>

\* WritePush missing `ios->woff += n` before parking on EWOULDBLOCK.
WritePushKeepsOffset(buf, len, off) ==
  LET k == Min2(SendSpace, len - off) IN
  /\ wbuf' = buf
  /\ \/ /\ ~sockOpen \/ shutWr
        /\ wlen' = len /\ woff' = off
        /\ UNCHANGED <<netOut, watching, waitNet, waitSock>>
     \/ /\ sockOpen /\ ~shutWr /\ off + k < len
        /\ netOut' = netOut \o SubSeq(buf, off + 1, off + k)
        /\ wlen' = len /\ woff' = off
        /\ waitNet' = Append(waitNet, "WRITE")
        /\ UNCHANGED <<watching, waitSock>>
     \/ /\ sockOpen /\ ~shutWr /\ off + k = len
        /\ netOut' = netOut \o SubSeq(buf, off + 1, len)
        /\ wlen' = 0 /\ woff' = 0
        /\ watching' = watching \cup {"READABLE", "PEER_CLOSED", "HALFCLOSED"}
        /\ waitSock' = Append(waitSock, "WRITE")
        /\ UNCHANGED waitNet

\* WritePush parking a drained WRITE without re-arming the pipe signals.
WritePushNoRearm(buf, len, off) ==
  LET k == Min2(SendSpace, len - off) IN
  /\ wbuf' = buf
  /\ \/ /\ ~sockOpen \/ shutWr
        /\ wlen' = len /\ woff' = off
        /\ UNCHANGED <<netOut, watching, waitNet, waitSock>>
     \/ /\ sockOpen /\ ~shutWr /\ off + k < len
        /\ netOut' = netOut \o SubSeq(buf, off + 1, off + k)
        /\ wlen' = len /\ woff' = off + k
        /\ waitNet' = Append(waitNet, "WRITE")
        /\ UNCHANGED <<watching, waitSock>>
     \/ /\ sockOpen /\ ~shutWr /\ off + k = len
        /\ netOut' = netOut \o SubSeq(buf, off + 1, len)
        /\ wlen' = 0 /\ woff' = 0
        /\ waitSock' = Append(waitSock, "WRITE")
        /\ UNCHANGED <<watching, waitNet>>

(* The push loop of do_write_stream over wbuf[off+1..len].  net_write     *)
(* takes what fits in the send buffer; a full one gives EWOULDBLOCK; any   *)
(* other error drops the request.  A drained buffer re-arms the pipe.      *)
WritePush(buf, len, off) ==
  LET k == Min2(SendSpace, len - off) IN
  /\ wbuf' = buf
  /\ \/ /\ ~sockOpen \/ shutWr          \* EBADF or EPIPE: request dropped
        /\ wlen' = len /\ woff' = off
        /\ UNCHANGED <<netOut, watching, waitNet, waitSock>>
     \/ /\ sockOpen /\ ~shutWr /\ off + k < len
        /\ netOut' = netOut \o SubSeq(buf, off + 1, off + k)
        /\ wlen' = len /\ woff' = off + k
        /\ waitNet' = Append(waitNet, "WRITE")
        /\ UNCHANGED <<watching, waitSock>>
     \/ /\ sockOpen /\ ~shutWr /\ off + k = len
        /\ netOut' = netOut \o SubSeq(buf, off + 1, len)
        /\ wlen' = 0 /\ woff' = 0
        /\ watching' = watching \cup {"READABLE", "PEER_CLOSED", "HALFCLOSED"}
        /\ waitSock' = Append(waitSock, "WRITE")
        /\ UNCHANGED waitNet

(* The pull step of do_write_stream, taken when wlen == 0, with the        *)
(* signals the request was dispatched with.  A closed peer, or             *)
(* ERR_SHOULD_WAIT while PEER_CLOSED was observed, synthesises a CLOSE     *)
(* that handle_request_close runs at once.                                 *)
WritePull(sigs) ==
  \/ /\ fromClient # <<>>
     /\ LET n == Min2(BufSize, Len(fromClient)) IN
          /\ fromClient' = SubSeq(fromClient, n + 1, Len(fromClient))
          /\ WritePush(SubSeq(fromClient, 1, n), n, 0)
     /\ UNCHANGED <<sockOpen, refcount, dataRef>>
  \/ /\ fromClient = <<>>
     /\ clientClosed \/ "PEER_CLOSED" \in sigs
     /\ DoClose
     /\ UNCHANGED <<fromClient, wbuf, wlen, woff, netOut, watching>>
  \/ /\ fromClient = <<>> /\ ~clientClosed /\ "PEER_CLOSED" \notin sigs
     /\ watching' = watching \cup {"READABLE", "PEER_CLOSED", "HALFCLOSED"}
     /\ waitSock' = Append(waitSock, "WRITE")
     /\ UNCHANGED <<fromClient, wbuf, wlen, woff, netOut, sockOpen, waitNet,
                    refcount, dataRef>>

(* handle_request dispatching MXRIO_WRITE to do_write_stream.             *)
RunWrite ==
  /\ runq # <<>> /\ Head(runq).op = "WRITE"
  /\ runq' = Tail(runq)
  /\ IF wlen = 0
       THEN WritePull(Head(runq).sigs)
       ELSE /\ WritePush(wbuf, wlen, woff)
            /\ UNCHANGED <<fromClient, sockOpen, refcount, dataRef>>
  /\ UNCHANGED <<peerSent, netIn, peerFin, peerRead, shutWr, conn, connects,
                 rbuf, rlen, roff, toClient, clientGot, eofSent, clientSent,
                 clientHalfClosed, clientClosed, rioOpen, userSig>>

(* handle_request dispatching MXRIO_CLOSE to do_close.                    *)
RunClose ==
  /\ runq # <<>> /\ Head(runq).op = "CLOSE"
  /\ runq' = Tail(runq)
  /\ DoClose
  /\ UNCHANGED <<peerSent, netIn, peerFin, netOut, peerRead, shutWr, conn,
                 connects, rbuf, rlen, roff, wbuf, wlen, woff, watching,
                 clientVars>>

(* handle_request dispatching IO_HALFCLOSE to do_halfclose:               *)
(* net_shutdown(SHUT_WR), then watch PEER_CLOSED.                         *)
RunHalfClose ==
  /\ runq # <<>> /\ Head(runq).op = "HALFCLOSE"
  /\ runq' = Tail(runq)
  /\ shutWr' = (shutWr \/ sockOpen)
  /\ watching' = watching \cup {"PEER_CLOSED"}
  /\ UNCHANGED <<peerSent, netIn, peerFin, netOut, peerRead, sockOpen, conn,
                 connects, rbuf, rlen, roff, wbuf, wlen, woff, refcount, clientVars,
                 waitNet, waitSock, dataRef>>

(* schedule_rw: set CONNECTED on the client's end, park a READ on         *)
(* WAIT_NET (schedule_r) and a WRITE on WAIT_SOCKET with READABLE watched *)
(* (schedule_w).  `sig` are the user signals set before it.                *)
ScheduleRw(sig) ==
  /\ userSig' = sig \cup {"CONNECTED"}
  /\ waitNet' = Append(waitNet, "READ")
  /\ watching' = watching \cup {"READABLE"}
  /\ waitSock' = Append(waitSock, "WRITE")

(* net_connect on the non-blocking backend socket: its errno (OK for      *)
(* success) and the connection state it leaves.  A second connect while   *)
(* one is in progress gives EALREADY, on a connected socket EISCONN.       *)
BackendConnect ==
  CASE ~sockOpen -> {<<"EBADF", conn>>}
    [] sockOpen /\ conn = "idle" ->
         {<<"OK", "established">>, <<"EINPROGRESS", "pending">>,
          <<"ECONNREFUSED", "refused">>}
    [] sockOpen /\ conn = "pending" -> {<<"EALREADY", conn>>}
    [] sockOpen /\ conn = "established" -> {<<"EISCONN", conn>>}
    [] sockOpen /\ conn = "refused" -> {<<"ECONNREFUSED", conn>>}

\* do_connect forgetting schedule_sigconn_w on EINPROGRESS.
DoConnectNoSigconn(e) ==
  \/ e = "OK" /\ ScheduleRw(userSig)
  \/ e # "OK" /\ UNCHANGED <<userSig, watching, waitNet, waitSock>>

\* do_connect scheduling the data requests before waiting for the
\* in-progress connect to complete.
DoConnectRwOnProgress(e) ==
  \/ e = "EINPROGRESS" /\ userSig' = userSig \cup {"CONNECTED"}
     /\ waitNet' = waitNet \o <<"SIGCONN_W", "READ">>
     /\ watching' = watching \cup {"READABLE"}
     /\ waitSock' = Append(waitSock, "WRITE")
  \/ e = "OK" /\ ScheduleRw(userSig)
  \/ e \notin {"OK", "EINPROGRESS"} /\ UNCHANGED <<userSig, watching, waitNet, waitSock>>

(* do_connect with net_connect's errno e: EINPROGRESS parks SIGCONN_W on   *)
(* WAIT_NET (schedule_sigconn_w); any error is the reply; success on a     *)
(* stream runs schedule_rw.                                                *)
DoConnect(e) ==
  \/ e = "EINPROGRESS" /\ waitNet' = Append(waitNet, "SIGCONN_W")
     /\ UNCHANGED <<userSig, watching, waitSock>>
  \/ e = "OK" /\ ScheduleRw(userSig)
  \/ e \notin {"OK", "EINPROGRESS"} /\ UNCHANGED <<userSig, watching, waitNet, waitSock>>

(* The client's MXRIO_CONNECT, handed by the RIO dispatcher to the runner. *)
ClientConnect ==
  /\ runq = <<>> /\ rioOpen /\ connects < MaxConnects
  /\ connects' = connects + 1
  /\ \E r \in BackendConnect : conn' = r[2] /\ DoConnect(r[1])
  /\ UNCHANGED <<peerSent, netIn, peerFin, netOut, peerRead, shutWr, sockOpen,
                 rbuf, rlen, roff, wbuf, wlen, woff, refcount,
                 toClient, clientGot, eofSent, clientSent, fromClient,
                 clientHalfClosed, clientClosed, rioOpen, runq, dataRef>>

\* do_sigconn_w scheduling the data requests whatever SO_ERROR says.
SigconnWIgnoresError ==
  IF sockOpen THEN ScheduleRw(userSig \cup {"OUTGOING"})
  ELSE /\ userSig' = userSig \cup {"OUTGOING"}
       /\ UNCHANGED <<watching, waitNet, waitSock>>

(* do_sigconn_w: set OUTGOING on the client's end, then read SO_ERROR     *)
(* (0 unless the connect was refused) and, when the read succeeds and the *)
(* value is 0, run schedule_rw.                                            *)
SigconnW ==
  IF sockOpen /\ conn # "refused"
    THEN ScheduleRw(userSig \cup {"OUTGOING"})
    ELSE /\ userSig' = userSig \cup {"OUTGOING"}
         /\ UNCHANGED <<watching, waitNet, waitSock>>

(* handle_request dispatching IO_SIGCONN_W to do_sigconn_w.               *)
RunSigconnW ==
  /\ runq # <<>> /\ Head(runq).op = "SIGCONN_W"
  /\ runq' = Tail(runq)
  /\ SigconnW
  /\ UNCHANGED <<peerVars, rbuf, rlen, roff, wbuf, wlen, woff, refcount,
                 toClient, clientGot, eofSent, clientSent, fromClient,
                 clientHalfClosed, clientClosed, rioOpen, dataRef>>

(* handle_watcher_schedule_request for this IOState's wait-set entry:     *)
(* clear the observed signals from the watch set, then synthesise CLOSE   *)
(* or HALFCLOSE, or detach all of WAIT_SOCKET into a local queue and      *)
(* dispatch it with the observed signals.                                 *)
WatcherWake ==
  LET sat == Asserted IN
  /\ runq = <<>>
  /\ refcount > 0
  /\ sat \cap watching # {}
  /\ watching' = watching \ sat
  /\ \/ /\ "PEER_CLOSED" \in sat /\ "READABLE" \notin sat
        /\ runq' = <<Req("CLOSE", sat)>>
        /\ UNCHANGED waitSock
     \/ /\ "PEER_CLOSED" \notin sat
        /\ "HALFCLOSED" \in sat /\ "READABLE" \notin sat
        /\ runq' = <<Req("HALFCLOSE", sat)>>
        /\ UNCHANGED waitSock
     \/ /\ "PEER_CLOSED" \in sat \/ "HALFCLOSED" \in sat => "READABLE" \in sat
        /\ runq' = [i \in 1..Len(waitSock) |-> Req(waitSock[i], sat)]
        /\ waitSock' = <<>>
  /\ UNCHANGED <<peerVars, rbuf, rlen, roff, wbuf, wlen, woff, refcount,
                 clientVars, waitNet, dataRef>>

(* The net multiplexer: when the socket is ready it hands every request   *)
(* parked on WAIT_NET for the fd to the runner.                           *)
NetReady ==
  /\ runq = <<>>
  /\ sockOpen /\ waitNet # <<>>
  /\ NetReadable \/ NetWritable
  /\ runq' = [i \in 1..Len(waitNet) |-> Req(waitNet[i], {})]
  /\ waitNet' = <<>>
  /\ UNCHANGED <<peerVars, iosVars, clientVars, waitSock, dataRef>>

(* The RIO dispatcher sees the client's RIO channel closed and releases   *)
(* the reference create_handles took for it.                              *)
RioPeerClosed ==
  /\ runq = <<>>
  /\ rioOpen
  /\ rioOpen' = FALSE
  /\ refcount' = refcount - 1
  /\ UNCHANGED <<peerVars, rbuf, rlen, roff, wbuf, wlen, woff, watching,
                 toClient, clientGot, eofSent, clientSent, fromClient,
                 clientHalfClosed, clientClosed, userSig, queueVars, dataRef>>

-----------------------------------------------------------------------------
(* The environment: the remote peer and the client process.               *)

PeerSend ==
  /\ conn = "established" /\ ~peerFin /\ peerSent < MaxPeerBytes
  /\ peerSent' = peerSent + 1
  /\ netIn' = Append(netIn, peerSent + 1)
  /\ UNCHANGED <<peerFin, netOut, peerRead, shutWr, sockOpen, conn, connects,
                 iosVars,
                 clientVars, queueVars, dataRef>>

PeerFin ==
  /\ conn = "established" /\ ~peerFin
  /\ peerFin' = TRUE
  /\ UNCHANGED <<peerSent, netIn, netOut, peerRead, shutWr, sockOpen, conn, connects,
                 iosVars,
                 clientVars, queueVars, dataRef>>

PeerRecv ==
  /\ peerRead < Len(netOut)
  /\ peerRead' = peerRead + 1
  /\ UNCHANGED <<peerSent, netIn, peerFin, netOut, shutWr, sockOpen, conn, connects,
                 iosVars,
                 clientVars, queueVars, dataRef>>

ClientWrite ==
  /\ ~clientClosed /\ ~clientHalfClosed
  /\ clientSent < MaxClientBytes /\ Len(fromClient) < PipeCap
  /\ clientSent' = clientSent + 1
  /\ fromClient' = Append(fromClient, clientSent + 1)
  /\ UNCHANGED <<peerVars, iosVars, toClient, clientGot, eofSent,
                 clientHalfClosed, clientClosed, rioOpen, userSig, queueVars,
                 dataRef>>

ClientRead ==
  /\ ~clientClosed /\ toClient # <<>>
  /\ clientGot' = Append(clientGot, Head(toClient))
  /\ toClient' = Tail(toClient)
  /\ UNCHANGED <<peerVars, iosVars, eofSent, clientSent, fromClient,
                 clientHalfClosed, clientClosed, rioOpen, userSig, queueVars,
                 dataRef>>

ClientHalfClose ==
  /\ ~clientClosed /\ ~clientHalfClosed
  /\ clientHalfClosed' = TRUE
  /\ UNCHANGED <<peerVars, iosVars, toClient, clientGot, eofSent, clientSent,
                 fromClient, clientClosed, rioOpen, userSig, queueVars,
                 dataRef>>

ClientClose ==
  /\ ~clientClosed
  /\ clientClosed' = TRUE
  /\ UNCHANGED <<peerVars, iosVars, toClient, clientGot, eofSent, clientSent,
                 fromClient, clientHalfClosed, rioOpen, userSig, queueVars,
                 dataRef>>

(* The remote end answers a connect in progress: it accepts or refuses    *)
(* (a refusal also stands for the backend's connect timeout).              *)
ConnAnswer ==
  /\ conn = "pending"
  /\ conn' \in {"established", "refused"}
  /\ UNCHANGED <<peerSent, netIn, peerFin, netOut, peerRead, shutWr, sockOpen,
                 connects, iosVars, clientVars, queueVars, dataRef>>

-----------------------------------------------------------------------------
Runner ==
  \/ RunRead \/ RunWrite \/ RunClose \/ RunHalfClose \/ RunSigconnW
  \/ WatcherWake \/ NetReady \/ RioPeerClosed

Environment ==
  \/ PeerSend \/ PeerFin \/ PeerRecv \/ ConnAnswer
  \/ ClientConnect \/ ClientWrite \/ ClientRead \/ ClientHalfClose \/ ClientClose

Next == Runner \/ Environment

(* The runner never leaves a dispatched request half done (weak fairness  *)
(* of the handlers).  Every iteration of the main loop services both the  *)
(* socket readiness and the watcher's result, so a source that is ready   *)
(* again and again is served (strong fairness: the other source can make  *)
(* it disabled for a moment by taking the runner).  The remote peer keeps *)
(* reading its socket and the client keeps reading its pipe.  A connect   *)
(* in progress is eventually answered (the backend's connect timeout      *)
(* refuses it at the latest).  Client writes, connects and closes and the *)
(* peer's sends are free choices.                                         *)
Fairness ==
  /\ WF_vars(RunRead) /\ WF_vars(RunWrite)
  /\ WF_vars(RunClose) /\ WF_vars(RunHalfClose) /\ WF_vars(RunSigconnW)
  /\ WF_vars(ConnAnswer)
  /\ SF_vars(WatcherWake) /\ SF_vars(NetReady)
  /\ WF_vars(PeerRecv) /\ WF_vars(ClientRead)

Spec == Init /\ [][Next]_vars /\ Fairness

-----------------------------------------------------------------------------
(* Types, and the offsets of both pipelines within their buffers: between *)
(* requests 0 <= roff <= rlen <= RWBUF_SIZE, and so for woff and wlen --   *)
(* do_read_stream and do_write_stream reset both once a buffer drains.    *)
TypeOK ==
  /\ peerSent \in 0..MaxPeerBytes /\ netIn \in Seq(1..MaxPeerBytes)
  /\ netOut \in Seq(1..MaxClientBytes) /\ peerRead \in 0..Len(netOut)
  /\ rbuf \in Seq(1..MaxPeerBytes) /\ wbuf \in Seq(1..MaxClientBytes)
  /\ 0 <= roff /\ roff <= rlen /\ rlen <= BufSize
  /\ 0 <= woff /\ woff <= wlen /\ wlen <= BufSize
  /\ watching \subseteq Signals
  /\ refcount \in Int
  /\ toClient \in Seq(1..MaxPeerBytes) /\ Len(toClient) <= PipeCap
  /\ fromClient \in Seq(1..MaxClientBytes) /\ Len(fromClient) <= PipeCap
  /\ clientSent \in 0..MaxClientBytes
  /\ waitNet \in Seq(Ops) /\ waitSock \in Seq(Ops)
  /\ runq \in Seq([op : Ops, sigs : SUBSET Signals])
  /\ conn \in ConnStates /\ connects \in 0..MaxConnects
  /\ userSig \subseteq UserSignals
  /\ {peerFin, shutWr, sockOpen, eofSent, clientHalfClosed, clientClosed,
      rioOpen} \subseteq BOOLEAN

(* Read direction (P5): the client receives exactly the bytes the peer    *)
(* sent, one by one, in order, none twice.  The rbuf/roff/rlen pipeline of *)
(* do_read_stream, with short pipe writes and resumption from either      *)
(* queue, implements an ordered byte stream.                              *)
ReadStream == INSTANCE ByteStream
                WITH MaxBytes <- MaxPeerBytes,
                     sent <- peerSent, delivered <- clientGot
ReadStreamSpec == ReadStream!Spec

(* Write direction: the peer reads exactly the bytes the client wrote, in *)
(* order, none twice (the wbuf/woff/wlen pipeline of do_write_stream).    *)
WriteStream == INSTANCE ByteStream
                 WITH MaxBytes <- MaxClientBytes,
                      sent <- clientSent,
                      delivered <- SubSeq(netOut, 1, peerRead)
WriteStreamSpec == WriteStream!Spec

(* The half-close marker do_read_stream writes for net_read == 0 reaches  *)
(* the client only behind every byte the peer sent: while the socket is   *)
(* open, a marker means the peer finished and everything it sent is       *)
(* already in the pipe or read.                                           *)
EofAfterAllData ==
  eofSent /\ sockOpen =>
    /\ peerFin
    /\ clientGot \o toClient = Bytes(peerSent)

(* Every byte the client writes is eventually read by the remote peer    *)
(* once the connection is established -- also the bytes written before    *)
(* connect, which wait in the pipe until schedule_rw parks the WRITE --    *)
(* unless the socket is shut down or closed first: a WRITE parked on the  *)
(* pipe is always woken again (it re-arms READABLE on every path that     *)
(* parks it), and one parked on the socket resumes when space frees.      *)
WriteProgress ==
  \A b \in 1..MaxClientBytes :
    clientSent >= b /\ conn = "established"
      ~> (peerRead >= b \/ shutWr \/ ~sockOpen)

(* The client's end shows CONNECTED only for a connection the backend has *)
(* established: do_connect runs schedule_rw only on success, and          *)
(* do_sigconn_w only when SO_ERROR reads 0.                               *)
ConnectedOnlyWhenEstablished ==
  "CONNECTED" \in userSig => conn = "established"

(* One reader and one writer: whichever path establishes the connection   *)
(* (accept, an immediate connect, SIGCONN_W after EINPROGRESS, a repeated *)
(* CONNECT), schedule_rw runs once, and every handler re-parks the request *)
(* it was given, so at most one READ and one WRITE exist across WAIT_NET, *)
(* WAIT_SOCKET and the runner -- the rbuf and wbuf pipelines assume it.    *)
OneReaderOneWriter ==
  LET all == waitNet \o waitSock \o [i \in 1..Len(runq) |-> runq[i].op]
      Count(op) == Len(SelectSeq(all, LAMBDA o : o = op))
  IN Count("READ") <= 1 /\ Count("WRITE") <= 1

(* Spec 4.8 and scenario 3: a connect that returned EINPROGRESS is        *)
(* resolved for the client -- OUTGOING is set and, if the backend         *)
(* established the connection, CONNECTED -- unless the socket is closed   *)
(* first.  SIGCONN_W must be parked and the multiplexer must deliver the  *)
(* socket's writability.                                                  *)
ConnectResolves ==
  conn = "pending"
    ~> \/ "OUTGOING" \in userSig /\ (conn = "established" => "CONNECTED" \in userSig)
       \/ ~sockOpen

-----------------------------------------------------------------------------
(* Properties the code is expected to keep and, by the runs, does not.    *)

(* P4 and end-to-end scenario 6 of the spec: once CLOSE has run, no       *)
(* request for the IOState is pending anywhere -- neither on WAIT_NET or   *)
(* WAIT_SOCKET (which do_close discards) nor in the queue the watcher      *)
(* detached from WAIT_SOCKET and is still dispatching.                     *)
NoPendingAfterClose ==
  ~sockOpen =>
    /\ waitNet = <<>> /\ waitSock = <<>>
    /\ \A i \in 1..Len(runq) : runq[i].op \notin {"READ", "WRITE"}

(* P2 of the spec: the reference count equals the references held -- one *)
(* for the registered RIO channel and one for data_h until the CLOSE that *)
(* gives it up; every reference is released exactly once.                 *)
RefcountMatchesHolders ==
  refcount = (IF rioOpen THEN 1 ELSE 0) + dataRef

(* End-to-end scenario 4 of the spec: when the client half-closes, the    *)
(* server's shutdown(SHUT_WR) comes after every byte the client wrote     *)
(* before it has been handed to the socket.                               *)
ShutdownAfterClientData ==
  shutWr => netOut = Bytes(clientSent)

(* Every byte the peer sends is eventually read by the client, as long as *)
(* the client keeps its pipe open and the socket is not closed: a READ    *)
(* parked on a full pipe is woken once the client drains it, whatever     *)
(* else the client signals meanwhile.                                     *)
ReadProgress ==
  \A b \in 1..MaxPeerBytes :
    peerSent >= b ~> (Len(clientGot) >= b \/ clientClosed \/ ~sockOpen)

=============================================================================
