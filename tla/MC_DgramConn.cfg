CONSTANTS
  MaxPeerMsgs <- MCMaxPeerMsgs
  MaxClientMsgs <- MCMaxClientMsgs
  SendCap <- MCSendCap
  MaxNetErrors <- MCMaxNetErrors
  MaxAddFailures <- MCMaxAddFailures

SPECIFICATION Spec

PROPERTY ReadChannelSpec
PROPERTY DgramWriteProgress
PROPERTY DgramReadProgress
INVARIANT NoPendingAfterClose
 

\* The bounded peer and client run out of datagrams; the server then idles.
CHECK_DEADLOCK FALSE
