\* Two programs at a time, one client that may hang up at any moment, and one
\* descriptor less than two connections may hold at once.
SPECIFICATION FairSpec
CONSTANTS
  None = None
  Conns = {c1, c2}
  Requests <- PostRequests
  Fds = {3, 4, 5, 6, 7, 8, 9, 10, 11}
  PipeCap = 1
  DirSize = 1
  Leavers = {c1}
  Faults = {}
INVARIANTS DescriptorsValid ProgramReaped
PROPERTIES EveryConnectionEnds ImplementsService
\* two programs that outlive the server may wait for each other for ever
CHECK_DEADLOCK FALSE
