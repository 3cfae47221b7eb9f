---------------------------- MODULE HandleWatcher ----------------------------
(***************************************************************************)
(* The control protocol between the netstack main loop and the handle     *)
(* watcher thread (the handle_watcher part of src/socket_functions.c).    *)
(* Every round the main loop sends START over the control channel, blocks *)
(* in select() on the sockets and on the interrupter pipe, then calls     *)
(* handle_watcher_stop: if the watcher has not answered yet it sends      *)
(* ABORT, and it then reads the one-byte answer (1 = some IOState has a   *)
(* signal).  The watcher thread reads START (skipping an ABORT left from  *)
(* an earlier round), waits on the wait-set, which also holds the control *)
(* channel, interrupts select() when it found a signal and writes the     *)
(* answer.  On 1 the main loop runs handle_watcher_schedule_request.      *)
(*                                                                         *)
(* The IOStates' signals are abstracted to one flag: some watched signal  *)
(* is asserted.  Messages carry the parity of the round that sent them,   *)
(* a history tag the code does not have.                                  *)
(***************************************************************************)
EXTENDS Naturals, Sequences

VARIABLES
  \* main loop
  mpc,          \* where the main loop is
  mround,       \* parity of the current round (history)
  found,        \* the answer handle_watcher_stop read
  \* watcher thread (handle_watcher_loop)
  wpc,          \* where the watcher thread is
  wc,           \* its local `c`
  wround,       \* round of the START it is serving (history)
  \* channels and devices
  toWatcher,    \* control channel, main -> watcher: START / ABORT
  toMain,       \* control channel, watcher -> main: answers
  intr,         \* the interrupter pipe holds a byte
  sig,          \* some watched IOState signal is asserted
  netEv         \* some socket is ready for the multiplexer

vars == <<mpc, mround, found, wpc, wc, wround, toWatcher, toMain, intr, sig,
          netEv>>

Cmds == {"START", "ABORT"}

Init ==
  /\ mpc = "start" /\ mround = 0 /\ found = 0
  /\ wpc = "recv" /\ wc = 0 /\ wround = 0
  /\ toWatcher = <<>> /\ toMain = <<>>
  /\ intr = FALSE /\ sig = FALSE /\ netEv = FALSE

-----------------------------------------------------------------------------
(* Main loop side.                                                         *)

\* handle_watcher_start: write START on the control channel.
WatcherStart ==
  /\ mpc = "start"
  /\ toWatcher' = Append(toWatcher, [cmd |-> "START", round |-> mround])
  /\ mpc' = "select"
  /\ UNCHANGED <<mround, found, wpc, wc, wround, toMain, intr, sig, netEv>>

\* The multiplexer's select() returns once a socket is ready or the
\* interrupter pipe is readable; it drains the pipe.
MainSelect ==
  /\ mpc = "select"
  /\ netEv \/ intr
  /\ intr' = FALSE
  /\ mpc' = "poll"
  /\ UNCHANGED <<mround, found, wpc, wc, wround, toWatcher, toMain, sig, netEv>>

\* StopPoll with the ABORT never sent.
StopPollNoAbort ==
  /\ mpc = "poll"
  /\ mpc' = "recv"
  /\ UNCHANGED <<mround, found, wpc, wc, wround, toWatcher, toMain, intr, sig,
                 netEv>>

\* handle_watcher_stop, first half: poll the channel with a zero timeout and
\* send ABORT when no answer is there yet.
StopPoll ==
  /\ mpc = "poll"
  /\ IF toMain = <<>>
       THEN toWatcher' = Append(toWatcher, [cmd |-> "ABORT", round |-> mround])
       ELSE UNCHANGED toWatcher
  /\ mpc' = "recv"
  /\ UNCHANGED <<mround, found, wpc, wc, wround, toMain, intr, sig, netEv>>

\* handle_watcher_stop, second half: block until the answer is readable and
\* read it.
StopRecv ==
  /\ mpc = "recv"
  /\ toMain # <<>>
  /\ found' = Head(toMain).c
  /\ toMain' = Tail(toMain)
  /\ mpc' = "dispatch"
  /\ UNCHANGED <<mround, wpc, wc, wround, toWatcher, intr, sig, netEv>>

\* The rest of the round: on 1, handle_watcher_schedule_request dispatches
\* the signalled IOStates (clearing the signals it saw from the watch set);
\* the ready sockets' requests run; the next round begins.
MainDispatch ==
  /\ mpc = "dispatch"
  /\ sig' = (sig /\ found = 0)
  /\ netEv' = FALSE
  /\ mround' = 1 - mround
  /\ mpc' = "start"
  /\ UNCHANGED <<found, wpc, wc, wround, toWatcher, toMain, intr>>

-----------------------------------------------------------------------------
(* Watcher thread: handle_watcher_loop.                                    *)

\* handle_watcher_loop taking an ABORT as if it were START.
LoopRecvNoAbortSkip ==
  /\ wpc = "recv"
  /\ toWatcher # <<>>
  /\ toWatcher' = Tail(toWatcher)
  /\ wpc' = "wait"
  /\ wround' = Head(toWatcher).round
  /\ UNCHANGED <<mpc, mround, found, wc, toMain, intr, sig, netEv>>

\* Wait for the control channel and read one command; an ABORT from an
\* earlier round is skipped.
LoopRecv ==
  /\ wpc = "recv"
  /\ toWatcher # <<>>
  /\ toWatcher' = Tail(toWatcher)
  /\ IF Head(toWatcher).cmd = "ABORT"
       THEN UNCHANGED <<wpc, wround>>
       ELSE /\ wpc' = "wait"
            /\ wround' = Head(toWatcher).round
  /\ UNCHANGED <<mpc, mround, found, wc, toMain, intr, sig, netEv>>

\* mx_waitset_wait returns once an IOState signal or the control channel
\* (a pending ABORT) is readable; c = 1 iff an IOState result is present.
LoopWait ==
  /\ wpc = "wait"
  /\ sig \/ toWatcher # <<>>
  /\ wc' = IF sig THEN 1 ELSE 0
  /\ wpc' = "interrupt"
  /\ UNCHANGED <<mpc, mround, found, wround, toWatcher, toMain, intr, sig,
                 netEv>>

\* The watcher sending no interrupt to the main loop.
LoopInterruptNone ==
  /\ wpc = "interrupt"
  /\ wpc' = "reply"
  /\ UNCHANGED <<mpc, mround, found, wc, wround, toWatcher, toMain, intr, sig,
                 netEv>>

\* On c > 0, send_interrupt wakes the main loop's select().
LoopInterrupt ==
  /\ wpc = "interrupt"
  /\ intr' = (intr \/ wc > 0)
  /\ wpc' = "reply"
  /\ UNCHANGED <<mpc, mround, found, wc, wround, toWatcher, toMain, sig, netEv>>

\* Write the answer c on the control channel and start over.
LoopReply ==
  /\ wpc = "reply"
  /\ toMain' = Append(toMain, [c |-> wc, round |-> wround])
  /\ wpc' = "recv"
  /\ UNCHANGED <<mpc, mround, found, wc, wround, toWatcher, intr, sig, netEv>>

-----------------------------------------------------------------------------
(* The environment: a client asserts a watched signal on its data handle; *)
(* a socket becomes ready.                                                 *)

SignalAsserted ==
  /\ ~sig
  /\ sig' = TRUE
  /\ UNCHANGED <<mpc, mround, found, wpc, wc, wround, toWatcher, toMain, intr,
                 netEv>>

NetEvent ==
  /\ ~netEv
  /\ netEv' = TRUE
  /\ UNCHANGED <<mpc, mround, found, wpc, wc, wround, toWatcher, toMain, intr,
                 sig>>

MainLoop == WatcherStart \/ MainSelect \/ StopPoll \/ StopRecv \/ MainDispatch
Watcher == LoopRecv \/ LoopWait \/ LoopInterrupt \/ LoopReply

Next == MainLoop \/ Watcher \/ SignalAsserted \/ NetEvent

(* Both threads are scheduled whenever they can run; the environment's    *)
(* events are free choices.                                                *)
Spec == Init /\ [][Next]_vars /\ WF_vars(MainLoop) /\ WF_vars(Watcher)

-----------------------------------------------------------------------------
TypeOK ==
  /\ mpc \in {"start", "select", "poll", "recv", "dispatch"}
  /\ wpc \in {"recv", "wait", "interrupt", "reply"}
  /\ {mround, wround} \subseteq {0, 1} /\ {found, wc} \subseteq {0, 1}
  /\ toWatcher \in Seq([cmd : Cmds, round : {0, 1}]) /\ Len(toWatcher) <= 3
  /\ toMain \in Seq([c : {0, 1}, round : {0, 1}]) /\ Len(toMain) <= 1
  /\ {intr, sig, netEv} \subseteq BOOLEAN

(* The answer handle_watcher_stop reads is the one the watcher wrote for  *)
(* this round's START, never a leftover of an earlier round, however the  *)
(* ABORT, the late answer and the next START interleave on the channel.    *)
StopReadsOwnRound ==
  mpc = "recv" /\ toMain # <<>> => Head(toMain).round = mround

(* While the main loop runs handle_watcher_schedule_request and the        *)
(* handlers that change the watch set, the watcher thread is not inside    *)
(* mx_waitset_wait on the same wait-set.                                   *)
WaitsetExclusive ==
  mpc = "dispatch" => wpc = "recv"

(* handle_watcher_stop always returns: an ABORT wakes a watcher that has   *)
(* nothing to report, so the main loop never blocks on the answer.         *)
StopReturns ==
  mpc = "recv" ~> mpc = "dispatch"

(* No lost wakeup: a watched signal, asserted while the main loop sleeps   *)
(* in select() with no socket ready, is eventually dispatched.             *)
SignalDispatched ==
  sig ~> (mpc = "dispatch" /\ found = 1)

=============================================================================
