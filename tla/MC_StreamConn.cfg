CONSTANTS
  MaxPeerBytes <- MCMaxPeerBytes
  MaxClientBytes <- MCMaxClientBytes
  BufSize <- MCBufSize
  PipeCap <- MCPipeCap
  SendCap <- MCSendCap
  MaxConnects <- MCMaxConnects

SPECIFICATION Spec

INVARIANT TypeOK
INVARIANT EofAfterAllData
PROPERTY ReadStreamSpec
PROPERTY WriteStreamSpec
PROPERTY WriteProgress
INVARIANT ConnectedOnlyWhenEstablished
INVARIANT OneReaderOneWriter
PROPERTY ConnectResolves

\* The bounded peer and client run out of bytes; the server then idles.
CHECK_DEADLOCK FALSE
