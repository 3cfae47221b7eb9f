\* Every handle type and every failure of do_open; the client sends CLOSE
\* for sockets (while it holds the data end) or closes its handles without
\* it, per record.  CLOSE on a "none" IOState and CLOSE after the data end
\* are the double releases stream_refcount shows, so they are left out.
CONSTANTS
  i1 = i1
  i2 = i2
  i3 = i3
  Ids <- MCIds
  Types = {"NONE", "STREAM", "DGRAM"}
  Failures = {"net_socket", "ioctl", "channel_create", "data_create",
              "dispatcher_add", "accept", "reply"}
  CloseTypes = {"STREAM", "DGRAM"}
  CloseAfterData = FALSE
SPECIFICATION Spec
INVARIANT TypeOK
INVARIANT NoPendingForFreed
INVARIANT ListenerArmed
PROPERTY HeldIOStateFreed
CHECK_DEADLOCK FALSE
