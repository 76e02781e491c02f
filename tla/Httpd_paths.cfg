\* Two connections at once, every request and every failure, with the numbers
\* one of them needs at most, so that each may take the other's.
SPECIFICATION Spec
CONSTANTS
  None = None
  Conns = {c1, c2}
  Requests <- AllRequests
  Fds = {3, 4, 5, 6, 7}
  PipeCap = 1
  DirSize = 1
  Leavers = {c1, c2}
  Faults = {"thread", "fork", "files"}
SYMMETRY Alike
INVARIANTS TypeOK LeaksAccounted BodyIntact
PROPERTIES ImplementsService
