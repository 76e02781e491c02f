\* A ring of four slots and three values.
SPECIFICATION FairSpec
CONSTANTS
  N = 4
  Limit = 3
INVARIANTS TypeOK SlotsExclusive
PROPERTIES ImplementsFifo BothGoOn
