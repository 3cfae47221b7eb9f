\* One mx_waitset_add failure: the IOState stops noticing its client.
CONSTANTS
  MaxPeerMsgs <- MCMaxPeerMsgs
  MaxClientMsgs <- MCMaxClientMsgs
  SendCap <- MCSendCap
  MaxNetErrors <- MCMaxNetErrors
  MaxAddFailures <- MCMaxAddFailures

SPECIFICATION Spec

PROPERTY PeerClosedDetected

\* The bounded peer and client run out of datagrams; the server then idles.
CHECK_DEADLOCK FALSE
