\* Stream sockets whose net_socket or OPEN reply may fail; the client
\* closes everything it is handed.
CONSTANTS
  i1 = i1
  i2 = i2
  i3 = i3
  Ids <- MCIds
  Types = {"STREAM"}
  Failures = {"net_socket", "reply"}
  CloseTypes = {"STREAM"}
  CloseAfterData = FALSE
SPECIFICATION Spec
PROPERTY IOStateFreed
CHECK_DEADLOCK FALSE
