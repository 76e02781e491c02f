\* A heap of three nodes and two values.
SPECIFICATION FairSpec
CONSTANTS
  Nodes = {n1, n2, n3}
  head = head
  Null = Null
  Limit = 2
INVARIANTS TypeOK WakeUpComes HeapSound
PROPERTIES ImplementsLifo ListIsServed
