---------------------------- MODULE MC_DgramConn ----------------------------
(* Model-checking instance of DgramConn.  Two datagrams each way let a    *)
(* second message follow a first one through the re-armed request, a send *)
(* buffer of one makes the second sendto meet EWOULDBLOCK, and one socket *)
(* error can land before, between or after the datagrams; one             *)
(* mx_waitset_add may fail, in the watcher's clear or in a WRITE's set.   *)
EXTENDS DgramConn

MCMaxPeerMsgs == 2
MCMaxClientMsgs == 2
MCSendCap == 1
MCMaxNetErrors == 1
MCMaxAddFailures == 1
=============================================================================
