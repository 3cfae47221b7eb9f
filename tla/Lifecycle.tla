------------------------------ MODULE Lifecycle ------------------------------
(***************************************************************************)
(* The life of IOStates in the netstack socket proxy                      *)
(* (src/socket_functions.c): do_open creating one with do_none, do_socket  *)
(* or do_accept and create_handles, the reply that hands the client its    *)
(* ends, and the ways it goes away: the client's explicit CLOSE (do_close, *)
(* then the RIO dispatcher's release), the client closing its RIO channel  *)
(* (the dispatcher's release) and the client closing its data end (the     *)
(* watcher synthesising CLOSE).  Tracked are the reference count, the     *)
(* kernel handles, the backend fd and the requests parked for each one.   *)
(*                                                                         *)
(* iostate_alloc and iostate_release are not under src/; they are modelled *)
(* as the spec describes them: alloc returns a record with one reference,  *)
(* and the release that takes the count to zero frees the record together  *)
(* with the data endpoint it owns.                                         *)
(***************************************************************************)
EXTENDS Integers

CONSTANTS
  Ids,            \* IOState records iostate_alloc can hand out
  Types,          \* handle types the client asks OPEN for
  Failures,       \* calls that may fail in this configuration
  CloseTypes,     \* handle types the client may send MXRIO_CLOSE for
  CloseAfterData  \* ... possibly after it has already closed its data end

HandleTypes == {"NONE", "STREAM", "DGRAM"}
FailPoints == {"net_socket", "ioctl", "channel_create", "data_create",
               "dispatcher_add", "accept", "reply"}

ASSUME /\ Types \subseteq HandleTypes /\ Failures \subseteq FailPoints
       /\ CloseTypes \subseteq HandleTypes /\ CloseAfterData \in BOOLEAN

VARIABLES
  used,        \* records iostate_alloc has handed out
  alive,       \* records not freed yet
  refcnt,      \* ios->refcount
  htype,       \* ios->handle_type
  fd,          \* records whose backend socket is open (sockfd >= 0)
  rioReg,      \* server RIO end registered with the dispatcher
  dataH,       \* ios->data_h held (server end of the data pipe/channel)
  dataRef,     \* the reference create_handles took for data_h is held (history)
  watchPC,     \* PEER_CLOSED of data_h is watched in the wait-set
  parked,      \* requests of each record parked on WAIT_NET / WAIT_SOCKET
  cRio,        \* the client holds its RIO end
  cData,       \* the client holds its data end
  stray,       \* client ends left open in netstack's hands, owned by nobody
  reply,       \* fate of the last OPEN reply
  lArmed,      \* SIGCONN_R requests parked for the listening parent
  lIncoming    \* the parent's INCOMING user signal

vars == <<used, alive, refcnt, htype, fd, rioReg, dataH, dataRef, watchPC, parked,
          cRio, cData, stray, reply, lArmed, lIncoming>>

Init ==
  /\ used = {} /\ alive = {}
  /\ refcnt = [i \in Ids |-> 0]
  /\ htype = [i \in Ids |-> "NONE"]
  /\ fd = {} /\ rioReg = {} /\ dataH = {} /\ watchPC = {} /\ dataRef = {}
  /\ parked = [i \in Ids |-> {}]
  /\ cRio = {} /\ cData = {} /\ stray = {}
  /\ reply = "none"
  /\ lArmed = 1 /\ lIncoming = FALSE     \* do_listen has armed SIGCONN_R

-----------------------------------------------------------------------------
(* iostate_release applied k times: the release that takes the count to   *)
(* zero frees the record and closes the data endpoint it owns (which also *)
(* drops its wait-set entry).  A release of a freed record still counts    *)
(* down.                                                                   *)
ReleaseN(i, k) ==
  /\ refcnt' = [refcnt EXCEPT ![i] = @ - k]
  /\ IF refcnt[i] > 0 /\ refcnt[i] - k <= 0
       THEN /\ alive' = alive \ {i}
            /\ dataH' = dataH \ {i}
       ELSE UNCHANGED <<alive, dataH>>

\* create_handles taking a reference for every handle it creates.
CreateHandlesOkAcquirePerHandle(i, t) ==
  /\ rioReg' = rioReg \cup {i}
  /\ IF t = "NONE"
       THEN /\ UNCHANGED <<dataH, dataRef>>
            /\ refcnt' = [refcnt EXCEPT ![i] = 2]
       ELSE /\ dataH' = dataH \cup {i}
            /\ dataRef' = dataRef \cup {i}
            /\ refcnt' = [refcnt EXCEPT ![i] = 3]

(* create_handles, successful: register the server RIO end with the       *)
(* dispatcher and, for a data endpoint, take a reference for it.  A       *)
(* failure closes every handle made so far and leaves the record as it    *)
(* was (modelled by the actions that call it).                             *)
CreateHandlesOk(i, t) ==
  /\ rioReg' = rioReg \cup {i}
  /\ IF t = "NONE"
       THEN /\ UNCHANGED <<dataH, dataRef>>
            /\ refcnt' = [refcnt EXCEPT ![i] = 1]
       ELSE /\ dataH' = dataH \cup {i}
            /\ dataRef' = dataRef \cup {i}
            /\ refcnt' = [refcnt EXCEPT ![i] = 2]

\* The ways create_handles can fail for type t, with the hcount it leaves:
\* it is set once the data endpoint exists, before dispatcher_add.
HandleFailures(t) ==
  {f \in {"channel_create", "data_create", "dispatcher_add"} \cap Failures :
     f = "data_create" => t # "NONE"}
FailHcount(f, t) ==
  IF f = "dispatcher_add" THEN IF t = "NONE" THEN 1 ELSE 2 ELSE 0

(* do_open's reply: mx_channel_write of {status, MXIO_PROTOCOL_SOCKET}    *)
(* with hcount handles: the client ends `ends` (pairs <<record, "rio" or  *)
(* "data">>) on success, invalid handles otherwise.  An invalid handle    *)
(* makes the write fail; the client may have closed its end.  The result  *)
(* is ignored and nothing is closed.                                       *)
Reply(ends, hcount) ==
  LET valid == hcount = 0 \/ ends # {} IN
  \/ /\ valid
     /\ reply' = "delivered"
     /\ cRio' = cRio \cup {e[1] : e \in {x \in ends : x[2] = "rio"}}
     /\ cData' = cData \cup {e[1] : e \in {x \in ends : x[2] = "data"}}
     /\ UNCHANGED stray
  \/ /\ valid /\ "reply" \in Failures
     /\ reply' = "dropped"
     /\ stray' = stray \cup ends
     /\ UNCHANGED <<cRio, cData>>
  \/ /\ ~valid
     /\ reply' = "failed"
     /\ UNCHANGED <<cRio, cData, stray>>

-----------------------------------------------------------------------------
(* OPEN "none": do_none.  A failed create_handles is followed by           *)
(* iostate_release of the fresh record, which frees it at once.            *)
OpenNone ==
  \E i \in Ids \ used :
    /\ "NONE" \in Types
    /\ used' = used \cup {i}
    /\ htype' = [htype EXCEPT ![i] = "NONE"]
    /\ \/ /\ CreateHandlesOk(i, "NONE")
          /\ alive' = alive \cup {i}
          /\ Reply({<<i, "rio">>}, 1)
          /\ UNCHANGED <<dataH, dataRef, watchPC>>
       \/ \E f \in HandleFailures("NONE") :
            /\ UNCHANGED <<alive, refcnt, rioReg, dataH, dataRef, watchPC>>
            /\ Reply({}, FailHcount(f, "NONE"))
    /\ UNCHANGED <<fd, parked, lArmed, lIncoming>>

(* OPEN "socket/D/T/P" for a supported type: do_socket.                    *)
OpenSocket ==
  \E i \in Ids \ used, t \in Types \ {"NONE"} :
    /\ used' = used \cup {i}
    /\ htype' = [htype EXCEPT ![i] = t]
    /\ \/ /\ "net_socket" \in Failures       \* returns with the record kept
          /\ alive' = alive \cup {i}
          /\ refcnt' = [refcnt EXCEPT ![i] = 1]
          /\ Reply({}, 0)
          /\ UNCHANGED <<fd, rioReg, dataH, dataRef, watchPC, parked>>
       \/ /\ fd' = fd \cup {i}
          /\ \/ /\ "ioctl" \in Failures          \* released; the fd stays open
                /\ Reply({}, 0)
                /\ UNCHANGED <<alive, refcnt, rioReg, dataH, dataRef, watchPC, parked>>
             \/ \E f \in HandleFailures(t) :      \* released; the fd stays open
                  /\ Reply({}, FailHcount(f, t))
                  /\ UNCHANGED <<alive, refcnt, rioReg, dataH, dataRef, watchPC, parked>>
             \/ /\ CreateHandlesOk(i, t)
                /\ alive' = alive \cup {i}
                /\ watchPC' = watchPC \cup {i}
                /\ parked' = IF t = "DGRAM"
                                THEN [parked EXCEPT ![i] = {"WRITE"}]
                                ELSE parked
                /\ Reply({<<i, "rio">>, <<i, "data">>}, 2)
    /\ UNCHANGED <<lArmed, lIncoming>>

\* do_accept re-arming SIGCONN_R only with schedule_rw, once the child
\* exists, as the code shared with do_socket would place it.
OpenAcceptArmsLast ==
  \/ /\ "accept" \in Failures
     /\ Reply({}, 0)
     /\ UNCHANGED <<used, alive, refcnt, htype, fd, rioReg, dataH, dataRef, watchPC,
                    parked, lArmed, lIncoming>>
  \/ \E i \in Ids \ used :
       /\ used' = used \cup {i}
       /\ htype' = [htype EXCEPT ![i] = "STREAM"]
       /\ lIncoming' = FALSE
       /\ fd' = fd \cup {i}
       /\ \/ /\ "ioctl" \in Failures
             /\ Reply({}, 0)
             /\ UNCHANGED <<alive, refcnt, rioReg, dataH, dataRef, watchPC, parked, lArmed>>
          \/ \E f \in HandleFailures("STREAM") :
               /\ Reply({}, FailHcount(f, "STREAM"))
               /\ UNCHANGED <<alive, refcnt, rioReg, dataH, dataRef, watchPC, parked, lArmed>>
          \/ /\ CreateHandlesOk(i, "STREAM")
             /\ lArmed' = lArmed + 1
             /\ alive' = alive \cup {i}
             /\ watchPC' = watchPC \cup {i}
             /\ parked' = [parked EXCEPT ![i] = {"READ", "WRITE"}]
             /\ Reply({<<i, "rio">>, <<i, "data">>}, 2)

(* OPEN "accept" on the listening stream parent: do_accept.  After a       *)
(* successful net_accept the parent's INCOMING is cleared and SIGCONN_R is *)
(* armed again; the child gets the accepted fd.                            *)
OpenAccept ==
  \/ /\ "accept" \in Failures                  \* EAGAIN or another error
     /\ Reply({}, 0)
     /\ UNCHANGED <<used, alive, refcnt, htype, fd, rioReg, dataH, dataRef, watchPC,
                    parked, lArmed, lIncoming>>
  \/ \E i \in Ids \ used :
       /\ used' = used \cup {i}
       /\ htype' = [htype EXCEPT ![i] = "STREAM"]
       /\ lIncoming' = FALSE
       /\ lArmed' = lArmed + 1
       /\ fd' = fd \cup {i}
       /\ \/ /\ "ioctl" \in Failures             \* released; the fd stays open
             /\ Reply({}, 0)
             /\ UNCHANGED <<alive, refcnt, rioReg, dataH, dataRef, watchPC, parked>>
          \/ \E f \in HandleFailures("STREAM") :  \* released; the fd stays open
               /\ Reply({}, FailHcount(f, "STREAM"))
               /\ UNCHANGED <<alive, refcnt, rioReg, dataH, dataRef, watchPC, parked>>
          \/ /\ CreateHandlesOk(i, "STREAM")
             /\ alive' = alive \cup {i}
             /\ watchPC' = watchPC \cup {i}
             /\ parked' = [parked EXCEPT ![i] = {"READ", "WRITE"}]
             /\ Reply({<<i, "rio">>, <<i, "data">>}, 2)

(* The listening socket is readable: the multiplexer runs every parked    *)
(* SIGCONN_R, and do_sigconn_r sets INCOMING on the parent's data_h.       *)
ListenerReady ==
  /\ lArmed > 0
  /\ lArmed' = 0
  /\ lIncoming' = TRUE
  /\ UNCHANGED <<used, alive, refcnt, htype, fd, rioReg, dataH, dataRef, watchPC,
                 parked, cRio, cData, stray, reply>>

-----------------------------------------------------------------------------
\* do_close without the wait_queue_discard calls.
DoCloseKeepsQueues(i, k) ==
  /\ IF i \in fd THEN fd' = fd \ {i} ELSE UNCHANGED fd
  /\ UNCHANGED parked
  /\ dataRef' = dataRef \ {i}
  /\ ReleaseN(i, k)

(* do_close, followed by k - 1 further releases: close the fd once,       *)
(* discard the requests parked for it, release (the release that stands  *)
(* for the reference taken for data_h).                                    *)
DoClose(i, k) ==
  /\ IF i \in fd
       THEN /\ fd' = fd \ {i}
            /\ parked' = [parked EXCEPT ![i] = {}]
       ELSE UNCHANGED <<fd, parked>>
  /\ dataRef' = dataRef \ {i}
  /\ ReleaseN(i, k)

(* The client sends MXRIO_CLOSE: handle_request runs do_close, then the   *)
(* dispatcher releases the RIO reference and closes the channel.  Each     *)
(* record's client chooses between this and closing its RIO end without   *)
(* CLOSE; it sends CLOSE while it still holds its data end, unless         *)
(* CloseAfterData.                                                         *)
ClientClose(i) ==
  /\ i \in cRio /\ htype[i] \in CloseTypes
  /\ CloseAfterData \/ i \in cData \/ htype[i] = "NONE"
  /\ DoClose(i, 2)
  /\ rioReg' = rioReg \ {i}
  /\ cRio' = cRio \ {i}
  /\ UNCHANGED <<used, htype, watchPC, cData, stray, reply, lArmed, lIncoming>>

(* The client closes its RIO end without CLOSE: the dispatcher sees the   *)
(* peer closed and releases the RIO reference.                            *)
ClientCloseRio(i) ==
  /\ i \in cRio
  /\ ReleaseN(i, 1)
  /\ UNCHANGED dataRef
  /\ rioReg' = rioReg \ {i}
  /\ cRio' = cRio \ {i}
  /\ UNCHANGED <<used, htype, fd, watchPC, parked, cData, stray, reply,
                 lArmed, lIncoming>>

(* The client closes its data end, at any time.                          *)
ClientCloseData(i) ==
  /\ i \in cData
  /\ cData' = cData \ {i}
  /\ UNCHANGED <<used, alive, refcnt, htype, fd, rioReg, dataH, dataRef, watchPC,
                 parked, cRio, stray, reply, lArmed, lIncoming>>

\* The watcher clearing PEER_CLOSED without synthesising CLOSE.
WatcherCloseNoClose(i) ==
  /\ i \in watchPC \cap dataH /\ i \notin cData /\ <<i, "data">> \notin stray
  /\ watchPC' = watchPC \ {i}
  /\ UNCHANGED <<used, alive, refcnt, htype, fd, rioReg, dataH, dataRef,
                 parked, cRio, cData, stray, reply, lArmed, lIncoming>>

(* handle_watcher_schedule_request sees PEER_CLOSED on data_h (the client *)
(* end is closed, not merely undelivered): it clears the signal from the  *)
(* watch set and synthesises CLOSE.                                        *)
WatcherClose(i) ==
  /\ i \in watchPC \cap dataH /\ i \notin cData /\ <<i, "data">> \notin stray
  /\ watchPC' = watchPC \ {i}
  /\ DoClose(i, 1)
  /\ UNCHANGED <<used, htype, rioReg, cRio, cData, stray, reply, lArmed,
                 lIncoming>>

-----------------------------------------------------------------------------
Next ==
  \/ OpenNone \/ OpenSocket \/ OpenAccept \/ ListenerReady
  \/ \E i \in Ids :
       ClientClose(i) \/ ClientCloseRio(i) \/ ClientCloseData(i) \/ WatcherClose(i)

(* The client eventually closes everything it holds; the watcher thread   *)
(* eventually reports a closed peer.  Opening is a free choice.            *)
Fairness ==
  \A i \in Ids :
    /\ WF_vars(ClientClose(i)) /\ WF_vars(ClientCloseRio(i))
    /\ WF_vars(ClientCloseData(i)) /\ WF_vars(WatcherClose(i))

Spec == Init /\ [][Next]_vars /\ Fairness

-----------------------------------------------------------------------------
TypeOK ==
  /\ alive \subseteq used /\ used \subseteq Ids
  /\ refcnt \in [Ids -> 0..2] /\ htype \in [Ids -> HandleTypes]
  /\ {fd, rioReg, dataH, dataRef, watchPC, cRio, cData} \subseteq SUBSET used
  /\ parked \in [Ids -> SUBSET {"READ", "WRITE"}]
  /\ stray \subseteq used \X {"rio", "data"}
  /\ reply \in {"none", "delivered", "dropped", "failed"}
  /\ lArmed \in Nat /\ lIncoming \in BOOLEAN

(* No request stays parked for a freed record: do_close discards both     *)
(* queues before the last reference goes, whichever close path runs.       *)
NoPendingForFreed ==
  \A i \in used \ alive : parked[i] = {}

(* A record whose RIO end reached the client is eventually freed, whichever *)
(* way the client lets go of it: the dispatcher's release on the RIO end   *)
(* (explicit CLOSE or not) and do_close's release of the data_h reference  *)
(* -- run by the client's CLOSE or by the CLOSE the watcher synthesises on *)
(* PEER_CLOSED -- together take the count to zero, whatever other opens    *)
(* fail meanwhile.                                                         *)
HeldIOStateFreed ==
  \A i \in Ids : i \in cRio ~> i \notin alive

(* Spec section 5 (refcount discipline): a handler that fails after       *)
(* allocating an IOState releases it.  Every record is eventually freed,  *)
(* including one whose do_socket or OPEN reply failed: no path of do_open *)
(* leaves a record nobody can release.                                     *)
IOStateFreed ==
  \A i \in Ids : i \in alive ~> i \notin alive

(* The listening parent never misses a connection: at every moment either *)
(* INCOMING is set on its data_h, so the client will call accept, or a     *)
(* SIGCONN_R is parked to set it when the socket becomes readable -- across *)
(* do_accept's early return on a failed net_accept, which leaves INCOMING  *)
(* as it was and arms nothing, and its failures after net_accept, which    *)
(* come after the re-arm.                                                   *)
ListenerArmed ==
  lIncoming \/ lArmed > 0

=============================================================================
