CONSTANTS
  MaxPeerBytes <- MCMaxPeerBytes
  MaxClientBytes <- MCMaxClientBytes
  BufSize <- MCBufSize
  PipeCap <- MCPipeCap
  SendCap <- MCSendCap
  MaxConnects <- MCMaxConnects

SPECIFICATION Spec

INVARIANT RefcountMatchesHolders

\* The bounded peer and client run out of bytes; the server then idles.
CHECK_DEADLOCK FALSE
