\* Two connections, few processes and descriptors, short buffers.
SPECIFICATION Spec
CONSTANTS
  Clients = {c1, c2}
  MaxLine = 2
  BufLen = 1
  SockCap = 1
  Rooms = {1, 3}
  FdLimits = {1, 2}
INVARIANTS DescriptorsKept
PROPERTIES OneEndsAlone Answered GoneIsNoticed
\* nothing is left to do once the server has died and the clients have gone
CHECK_DEADLOCK FALSE
