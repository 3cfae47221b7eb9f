------------------------------ MODULE DgramConn ------------------------------
(***************************************************************************)
(* One datagram IOState of the netstack socket proxy                      *)
(* (src/socket_functions.c), as left by do_socket for SOCK_DGRAM: the      *)
(* data endpoint is a message channel, and one message is one datagram.   *)
(* A WRITE request (parked by do_socket's schedule_w) takes one message    *)
(* from the channel and sendto()s it; a READ request (parked by do_bind's  *)
(* schedule_r) recvfrom()s one datagram and writes it into the channel.    *)
(* The runner, the client process and the remote peer run concurrently as *)
(* in StreamConn: the runner takes a whole parked queue at once and        *)
(* dispatches it request by request.                                       *)
(*                                                                         *)
(* A datagram is abstracted to its number and whether its payload is      *)
(* empty; the envelope's address only selects sendto's destination and is *)
(* left out.  A pending socket error (an ICMP error on a connected UDP     *)
(* socket) is reported, and cleared, by the next recvfrom or sendto.       *)
(***************************************************************************)
EXTENDS Integers, Sequences

CONSTANTS
  MaxPeerMsgs,      \* datagrams the remote peer sends to the socket
  MaxClientMsgs,    \* messages the client writes into the channel
  SendCap,          \* datagrams the socket's send buffer holds
  MaxNetErrors,     \* socket errors the network raises
  MaxAddFailures    \* mx_waitset_add calls that fail

ASSUME /\ MaxPeerMsgs \in Nat /\ MaxClientMsgs \in Nat
       /\ SendCap \in Nat \ {0} /\ MaxNetErrors \in Nat
       /\ MaxAddFailures \in Nat

\* Signals of the server end of the channel that the code watches.
Signals == {"READABLE", "PEER_CLOSED", "HALFCLOSED"}
Ops == {"READ", "WRITE", "CLOSE"}
\* A client message: its number and whether it carries any payload.
Msgs == [id : 1..MaxClientMsgs, len : {0, 1}]

VARIABLES
  \* the remote peer and the backend socket
  peerSent,     \* datagrams the peer has sent
  netIn,        \* datagrams queued on the socket, not yet recvfrom'd
  netErr,       \* a socket error is pending
  errs,         \* socket errors raised so far
  sndq,         \* datagrams in the send buffer, not yet taken by the network
  sockOpen,     \* ios->sockfd >= 0
  local,        \* the socket has a local address (bind, connect or sendto)
  \* the IOState
  rbuf,         \* the datagram last recvfrom'd into ios->rbuf (0: none)
  watching,     \* ios->watching_signals
  registered,   \* signals of the IOState's wait-set entry ({}: no entry)
  addFails,     \* mx_waitset_add calls that have failed
  refcount,     \* the IOState's reference count
  dataRef,      \* 1 while the reference taken for data_h is held (history)
  \* the client's ends of the channel and of the RIO channel
  toClient,     \* messages in the channel towards the client
  clientGot,    \* datagrams the client has read, in order
  clientSent,   \* messages the client has written
  fromClient,   \* messages in the channel towards the server
  clientClosed, \* the client has closed its end of the channel
  rioOpen,      \* RIO channel still registered with the dispatcher
  \* requests
  waitNet,      \* WAIT_NET queue for ios->sockfd
  waitSock,     \* WAIT_SOCKET queue for ios->sockfd
  runq,         \* requests the runner is dispatching, in order
  \* history
  bound,        \* do_bind has succeeded
  recvFailed,   \* a READ was dropped on a recvfrom error
  closeSent     \* the client has sent MXRIO_CLOSE

netVars == <<peerSent, netIn, netErr, errs, sndq, sockOpen, local>>
clientVars == <<toClient, clientGot, clientSent, fromClient, clientClosed,
                rioOpen>>
sigVars == <<watching, registered, addFails>>
vars == <<netVars, rbuf, sigVars, refcount, dataRef, clientVars, waitNet,
          waitSock, runq, bound, recvFailed, closeSent>>

Req(op, sigs) == [op |-> op, sigs |-> sigs]

\* Watched signals asserted on the server end of the channel; the
\* wait-set reports all of them as `observed`.  The client never sets
\* HALFCLOSED on a datagram channel.
Asserted ==
  { s \in Signals : \/ s = "READABLE" /\ fromClient # <<>>
                    \/ s = "PEER_CLOSED" /\ clientClosed }

NetReadable == netIn # <<>> \/ netErr

-----------------------------------------------------------------------------
(* do_socket for SOCK_DGRAM after create_handles: PEER_CLOSED|HALFCLOSED   *)
(* watched, then schedule_w parks a WRITE on WAIT_SOCKET with READABLE     *)
(* watched; both wait-set updates succeeded.  No READ is parked: the       *)
(* socket has no address yet.                                             *)
Init ==
  /\ peerSent = 0 /\ netIn = <<>> /\ netErr = FALSE /\ errs = 0
  /\ sndq = 0 /\ sockOpen = TRUE /\ local = FALSE
  /\ rbuf = 0
  /\ watching = {"PEER_CLOSED", "HALFCLOSED", "READABLE"}
  /\ registered = watching /\ addFails = 0
  /\ refcount = 2 /\ dataRef = 1
  /\ toClient = <<>> /\ clientGot = <<>> /\ clientSent = 0
  /\ fromClient = <<>> /\ clientClosed = FALSE /\ rioOpen = TRUE
  /\ waitNet = <<>> /\ waitSock = <<"WRITE">> /\ runq = <<>>
  /\ bound = FALSE /\ recvFailed = FALSE /\ closeSent = FALSE

-----------------------------------------------------------------------------
(* socket_signals_change: remove the IOState's wait-set entry, add one    *)
(* for `new`, and only then record `new` in watching_signals; a failed    *)
(* call returns early.  Old and new sets are never empty here (HALFCLOSED *)
(* stays watched), and mx_waitset_remove, which fails only for a missing  *)
(* entry, always finds one: after a failed add nothing changes the        *)
(* signals again.  mx_waitset_add may fail (out of memory); then the      *)
(* entry is gone while watching_signals still holds the old set.          *)
SignalsChange(new) ==
  \/ /\ registered' = new /\ watching' = new
     /\ UNCHANGED addFails
  \/ /\ addFails < MaxAddFailures
     /\ registered' = {} /\ addFails' = addFails + 1
     /\ UNCHANGED watching

(* socket_signals_set: nothing to do when every signal is already in      *)
(* watching_signals, else watch their union.                              *)
SignalsSet(sigs) ==
  IF sigs \subseteq watching THEN UNCHANGED sigVars
                             ELSE SignalsChange(watching \cup sigs)

(* socket_signals_clear: watch what remains.  Its early return (none of   *)
(* `sigs` watched) is not reached: the watcher clears what it observed,   *)
(* and it observes only watched signals.                                  *)
SignalsClear(sigs) ==
  SignalsChange(watching \ sigs)

-----------------------------------------------------------------------------
\* do_close without the discard of WAIT_NET.
DoCloseKeepsNet(k) ==
  /\ sockOpen' = FALSE
  /\ waitSock' = <<>>
  /\ UNCHANGED waitNet
  /\ refcount' = refcount - k
  /\ dataRef' = 0

(* do_close: close the socket, discard both wait queues keyed by the fd,  *)
(* and release one reference; k - 1 further releases follow it in the     *)
(* same step.  The `sockfd >= 0` test is left out: once the socket is      *)
(* closed nothing is parked, so a second do_close would change only the   *)
(* reference count, as this one does.                                     *)
DoClose(k) ==
  /\ sockOpen' = FALSE
  /\ waitNet' = <<>>
  /\ waitSock' = <<>>
  /\ refcount' = refcount - k
  /\ dataRef' = 0

\* do_read_dgram without the early return after a failed recvfrom: the
\* stale rbuf is written to the channel again.
ReadDgramErrorFallsThrough ==
  \/ /\ netIn # <<>>
     /\ rbuf' = Head(netIn) /\ netIn' = Tail(netIn)
     /\ IF clientClosed
          THEN UNCHANGED <<toClient, waitNet>>
          ELSE /\ toClient' = Append(toClient, Head(netIn))
               /\ waitNet' = Append(waitNet, "READ")
     /\ UNCHANGED <<netErr, recvFailed>>
  \/ /\ netErr
     /\ netErr' = FALSE /\ recvFailed' = TRUE
     /\ IF clientClosed \/ rbuf = 0
          THEN UNCHANGED <<toClient, waitNet>>
          ELSE /\ toClient' = Append(toClient, rbuf)
               /\ waitNet' = Append(waitNet, "READ")
     /\ UNCHANGED <<netIn, rbuf>>

\* do_read_dgram returning NO_ERROR after a delivered datagram.
ReadDgramNoRepark ==
  \/ /\ netIn # <<>>
     /\ rbuf' = Head(netIn) /\ netIn' = Tail(netIn)
     /\ IF clientClosed THEN UNCHANGED toClient
                        ELSE toClient' = Append(toClient, Head(netIn))
     /\ UNCHANGED <<waitNet, netErr, recvFailed>>
  \/ /\ netErr
     /\ netErr' = FALSE /\ recvFailed' = TRUE
     /\ UNCHANGED <<netIn, rbuf, toClient, waitNet>>

(* do_read_dgram.  recvfrom takes one queued datagram into rbuf or        *)
(* reports the pending error; the backend is free to do either first when *)
(* both are there.  A datagram goes into the channel as one message and    *)
(* the READ is parked again; a failed channel write (the client closed    *)
(* its end) drops the READ.  Any recvfrom error other than EWOULDBLOCK     *)
(* returns NO_ERROR: the READ is dropped too.  EWOULDBLOCK (park again)    *)
(* is not reached: the READ runs only when the multiplexer found the      *)
(* socket readable, and nothing else takes from it meanwhile.             *)
ReadDgram ==
  \/ /\ netIn # <<>>
     /\ rbuf' = Head(netIn) /\ netIn' = Tail(netIn)
     /\ IF clientClosed
          THEN UNCHANGED <<toClient, waitNet>>
          ELSE /\ toClient' = Append(toClient, Head(netIn))
               /\ waitNet' = Append(waitNet, "READ")
     /\ UNCHANGED <<netErr, recvFailed>>
  \/ /\ netErr
     /\ netErr' = FALSE /\ recvFailed' = TRUE
     /\ UNCHANGED <<netIn, rbuf, toClient, waitNet>>

(* handle_request dispatching MXRIO_READ to do_read, and do_read to        *)
(* do_read_dgram.                                                          *)
RunRead ==
  /\ runq # <<>> /\ Head(runq).op = "READ"
  /\ runq' = Tail(runq)
  /\ ReadDgram
  /\ UNCHANGED <<peerSent, errs, sndq, sockOpen, local, sigVars, refcount,
                 dataRef, clientGot, clientSent, fromClient, clientClosed,
                 rioOpen, waitSock, bound, closeSent>>

\* do_write_dgram parking the WRITE without socket_signals_set.
WriteDgramNoRearm ==
  LET m == Head(fromClient) IN
  /\ fromClient' = Tail(fromClient)
  /\ IF m.len > 0 /\ ~netErr /\ sndq < SendCap
       THEN sndq' = sndq + 1 /\ local' = TRUE /\ UNCHANGED netErr
       ELSE netErr' = (netErr /\ m.len = 0) /\ UNCHANGED <<sndq, local>>
  /\ waitSock' = Append(waitSock, "WRITE")
  /\ UNCHANGED sigVars

(* do_write_dgram.  mx_channel_read takes one message: the WRITE is only  *)
(* dispatched by the watcher for READABLE, and it is the channel's only   *)
(* reader, so a message is always there (the SHOULD_WAIT and              *)
(* ERR_PEER_CLOSED branches are not reached for a datagram IOState).  A   *)
(* message with a payload is sendto()'d, and sendto's errno is ignored:    *)
(* a pending socket error or a full send buffer (EWOULDBLOCK) loses the    *)
(* datagram; a message with no payload is dropped as a bad message.  A     *)
(* successful sendto on an unbound socket gives it an address.  In every  *)
(* case READABLE|PEER_CLOSED is watched again and the WRITE parked.  A    *)
(* sendto that fails consumes the pending error, if any (netErr').        *)
WriteDgram ==
  LET m == Head(fromClient) IN
  /\ fromClient' = Tail(fromClient)
  /\ IF m.len > 0 /\ ~netErr /\ sndq < SendCap
       THEN sndq' = sndq + 1 /\ local' = TRUE /\ UNCHANGED netErr
       ELSE netErr' = (netErr /\ m.len = 0) /\ UNCHANGED <<sndq, local>>
  /\ SignalsSet({"READABLE", "PEER_CLOSED"})
  /\ waitSock' = Append(waitSock, "WRITE")

(* handle_request dispatching MXRIO_WRITE to do_write, and do_write to     *)
(* do_write_dgram.                                                         *)
RunWrite ==
  /\ runq # <<>> /\ Head(runq).op = "WRITE"
  /\ runq' = Tail(runq)
  /\ WriteDgram
  /\ UNCHANGED <<peerSent, netIn, errs, sockOpen, rbuf, refcount, dataRef,
                 toClient, clientGot, clientSent, clientClosed, rioOpen,
                 waitNet, bound, recvFailed, closeSent>>

(* handle_request dispatching MXRIO_CLOSE to do_close.                    *)
RunClose ==
  /\ runq # <<>> /\ Head(runq).op = "CLOSE"
  /\ runq' = Tail(runq)
  /\ DoClose(1)
  /\ UNCHANGED <<peerSent, netIn, netErr, errs, sndq, local, rbuf, sigVars,
                 clientVars, bound, recvFailed, closeSent>>

WatcherWake ==
  LET sat == Asserted IN
  /\ runq = <<>> /\ refcount > 0
  /\ sat \cap registered # {}
  /\ SignalsClear(sat)
  /\ \/ /\ "PEER_CLOSED" \in sat /\ "READABLE" \notin sat
        /\ runq' = <<Req("CLOSE", sat)>>
        /\ UNCHANGED waitSock
     \/ /\ "READABLE" \in sat
        /\ runq' = [i \in 1..Len(waitSock) |-> Req(waitSock[i], sat)]
        /\ waitSock' = <<>>
  /\ UNCHANGED <<netVars, rbuf, refcount, dataRef, clientVars, waitNet,
                 bound, recvFailed, closeSent>>

(* The net multiplexer hands every request parked on WAIT_NET for the fd  *)
(* to the runner when the socket is readable.                             *)
NetReady ==
  /\ runq = <<>>
  /\ sockOpen /\ waitNet # <<>> /\ NetReadable
  /\ runq' = [i \in 1..Len(waitNet) |-> Req(waitNet[i], {})]
  /\ waitNet' = <<>>
  /\ UNCHANGED <<netVars, rbuf, sigVars, refcount, dataRef, clientVars,
                 waitSock, bound, recvFailed, closeSent>>

(* The client's MXRIO_BIND, run by the runner: net_bind succeeds on an    *)
(* open socket without an address (otherwise the errno is the reply and  *)
(* nothing changes), and for a datagram socket schedule_r parks a READ.  *)
ClientBind ==
  /\ runq = <<>> /\ rioOpen
  /\ sockOpen /\ ~local
  /\ local' = TRUE /\ bound' = TRUE
  /\ waitNet' = Append(waitNet, "READ")
  /\ UNCHANGED <<peerSent, netIn, netErr, errs, sndq, sockOpen, rbuf,
                 sigVars, refcount, dataRef, clientVars, waitSock, runq,
                 recvFailed, closeSent>>

(* The client's MXRIO_CONNECT on the datagram socket: net_connect sets    *)
(* the default peer and gives the socket an address; do_connect runs     *)
(* schedule_rw only for a stream, so nothing is parked.                   *)
ClientConnect ==
  /\ runq = <<>> /\ rioOpen
  /\ sockOpen /\ ~local
  /\ local' = TRUE
  /\ UNCHANGED <<peerSent, netIn, netErr, errs, sndq, sockOpen, rbuf,
                 sigVars, refcount, dataRef, clientVars, waitNet, waitSock,
                 runq, bound, recvFailed, closeSent>>

(* The RIO dispatcher sees the client's RIO channel closed and releases   *)
(* the reference create_handles took for it.                              *)
RioPeerClosed ==
  /\ runq = <<>> /\ rioOpen
  /\ rioOpen' = FALSE
  /\ refcount' = refcount - 1
  /\ UNCHANGED <<netVars, rbuf, sigVars, dataRef, toClient, clientGot,
                 clientSent, fromClient, clientClosed, waitNet, waitSock,
                 runq, bound, recvFailed, closeSent>>

(* The client's MXRIO_CLOSE, sent while it still holds its end of the     *)
(* channel: handle_request runs do_close, then the RIO dispatcher releases *)
(* the reference of the RIO channel and closes it.  The count reaches zero *)
(* and the record is freed together with data_h, so the watcher never     *)
(* reports the client's later close of the channel.  A CLOSE sent after   *)
(* the watcher has closed the IOState is the double release the stream    *)
(* runs show (stream_refcount); it is the same code, and left out here.  *)
ClientCloseReq ==
  /\ runq = <<>> /\ rioOpen /\ ~clientClosed
  /\ DoClose(2)
  /\ rioOpen' = FALSE /\ closeSent' = TRUE
  /\ UNCHANGED <<peerSent, netIn, netErr, errs, sndq, local, rbuf, sigVars,
                 toClient, clientGot, clientSent, fromClient, clientClosed,
                 runq, bound, recvFailed>>

-----------------------------------------------------------------------------
(* The environment: the remote peer, the network and the client.          *)

PeerSend ==
  /\ sockOpen /\ local /\ peerSent < MaxPeerMsgs
  /\ peerSent' = peerSent + 1
  /\ netIn' = Append(netIn, peerSent + 1)
  /\ UNCHANGED <<netErr, errs, sndq, sockOpen, local, rbuf, sigVars,
                 refcount, dataRef, clientVars, waitNet, waitSock, runq,
                 bound, recvFailed, closeSent>>

NetError ==
  /\ sockOpen /\ local /\ ~netErr /\ errs < MaxNetErrors
  /\ netErr' = TRUE /\ errs' = errs + 1
  /\ UNCHANGED <<peerSent, netIn, sndq, sockOpen, local, rbuf, sigVars,
                 refcount, dataRef, clientVars, waitNet, waitSock, runq,
                 bound, recvFailed, closeSent>>

PeerRecv ==
  /\ sndq > 0
  /\ sndq' = sndq - 1
  /\ UNCHANGED <<peerSent, netIn, netErr, errs, sockOpen, local, rbuf,
                 sigVars, refcount, dataRef, clientVars, waitNet, waitSock,
                 runq, bound, recvFailed, closeSent>>

ClientWrite ==
  /\ ~clientClosed /\ clientSent < MaxClientMsgs
  /\ clientSent' = clientSent + 1
  /\ \E len \in {0, 1} :
       fromClient' = Append(fromClient, [id |-> clientSent + 1, len |-> len])
  /\ UNCHANGED <<netVars, rbuf, sigVars, refcount, dataRef, toClient,
                 clientGot, clientClosed, rioOpen, waitNet, waitSock, runq,
                 bound, recvFailed, closeSent>>

ClientRead ==
  /\ ~clientClosed /\ toClient # <<>>
  /\ clientGot' = Append(clientGot, Head(toClient))
  /\ toClient' = Tail(toClient)
  /\ UNCHANGED <<netVars, rbuf, sigVars, refcount, dataRef, clientSent,
                 fromClient, clientClosed, rioOpen, waitNet, waitSock, runq,
                 bound, recvFailed, closeSent>>

ClientClose ==
  /\ ~clientClosed
  /\ clientClosed' = TRUE
  /\ UNCHANGED <<netVars, rbuf, sigVars, refcount, dataRef, toClient,
                 clientGot, clientSent, fromClient, rioOpen, waitNet,
                 waitSock, runq, bound, recvFailed, closeSent>>

-----------------------------------------------------------------------------
Runner ==
  \/ RunRead \/ RunWrite \/ RunClose \/ WatcherWake \/ NetReady
  \/ ClientBind \/ ClientConnect \/ RioPeerClosed \/ ClientCloseReq

Environment ==
  \/ PeerSend \/ NetError \/ PeerRecv
  \/ ClientWrite \/ ClientRead \/ ClientClose

Next == Runner \/ Environment

(* As in StreamConn: the runner finishes every dispatched request, and    *)
(* the main loop serves both readiness sources on every iteration; the    *)
(* network drains the send buffer and the client reads its channel.       *)
Fairness ==
  /\ WF_vars(RunRead) /\ WF_vars(RunWrite) /\ WF_vars(RunClose)
  /\ SF_vars(WatcherWake) /\ SF_vars(NetReady)
  /\ WF_vars(PeerRecv) /\ WF_vars(ClientRead)

Spec == Init /\ [][Next]_vars /\ Fairness

-----------------------------------------------------------------------------
(* Read direction (P6): the client reads the datagrams the peer sent,     *)
(* each once, whole and in order -- do_read_dgram writes exactly the       *)
(* datagram recvfrom returned, also when a recvfrom error comes between    *)
(* two datagrams and rbuf still holds the previous one.                    *)
ReadChannel == INSTANCE ByteStream
                 WITH MaxBytes <- MaxPeerMsgs,
                      sent <- peerSent, delivered <- clientGot
ReadChannelSpec == ReadChannel!Spec

(* Every message the client writes is eventually taken from the channel   *)
(* by the server (sent or dropped): the WRITE parked by do_socket is woken *)
(* for READABLE after every message, because do_write_dgram re-arms        *)
(* READABLE|PEER_CLOSED each time it parks, and the CLOSE the watcher      *)
(* synthesises comes only once the channel is empty.  The excuses are a   *)
(* failed mx_waitset_add, after which the WRITE may never be woken again, *)
(* and the client's own CLOSE, whose do_close discards the WRITE.         *)
DgramWriteProgress ==
  \A b \in 1..MaxClientMsgs :
    clientSent >= b ~> clientSent - Len(fromClient) >= b \/ addFails > 0
                                                         \/ closeSent

(* Once the client has bound the socket, every datagram the peer sends    *)
(* reaches the client, unless the client closes its end or sends CLOSE,   *)
(* or a recvfrom error has dropped the READ for good: the READ parked by  *)
(* do_bind is parked again after every datagram it delivers.             *)
DgramReadProgress ==
  \A b \in 1..MaxPeerMsgs :
    bound /\ peerSent >= b ~> Len(clientGot) >= b \/ clientClosed \/ recvFailed
                                                \/ closeSent

(* P4 of the spec: once the socket is closed no request of the IOState is *)
(* pending -- the READ on WAIT_NET and the WRITE on WAIT_SOCKET are        *)
(* discarded by do_close, and none is being dispatched.                    *)
NoPendingAfterClose ==
  ~sockOpen =>
    /\ waitNet = <<>> /\ waitSock = <<>>
    /\ \A i \in 1..Len(runq) : runq[i].op \notin {"READ", "WRITE"}

(* P2 of the spec: the reference count equals the references held -- one *)
(* for the RIO channel while it is registered and one for data_h until    *)
(* the CLOSE that gives it up -- through the client's CLOSE and the      *)
(* watcher's synthesised one.  The watcher closes once: it stops watching *)
(* PEER_CLOSED when it does, and no WRITE of a datagram IOState closes.   *)
RefcountMatchesHolders ==
  refcount = (IF rioOpen THEN 1 ELSE 0) + dataRef


-----------------------------------------------------------------------------
(* Spec section 7: a peer that is gone triggers CLOSE synthesis.  Once    *)
(* the client has closed its end of the channel, the watcher eventually   *)
(* synthesises CLOSE and do_close closes the socket -- also after one     *)
(* mx_waitset_add failed inside socket_signals_change, if the code         *)
(* recovered the wait-set entry.                                           *)
PeerClosedDetected ==
  clientClosed ~> ~sockOpen

=============================================================================
