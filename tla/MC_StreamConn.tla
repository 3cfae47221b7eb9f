--------------------------- MODULE MC_StreamConn ---------------------------
(* Model-checking instance of StreamConn.  Three peer bytes against an    *)
(* rbuf of two and a pipe of two make a pull meet a half-full pipe, so a   *)
(* READ writes short and parks on WAIT_SOCKET; two client bytes against a  *)
(* send buffer of one make a WRITE write short and park on WAIT_NET.       *)
EXTENDS StreamConn

MCMaxPeerBytes == 3
MCMaxClientBytes == 2
MCBufSize == 2
MCPipeCap == 2
MCSendCap == 1
MCMaxConnects == 2
=============================================================================
