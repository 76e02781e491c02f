\* Two slots, one SIGINT in any thread; threads cannot be created, sends fail,
\* and packets are lost and doubled.
\* With two bits packet_send turns negative and comes around within the bound.
SPECIFICATION FairSpec
CONSTANTS
  N = 2
  Half = 2
  Faults = {"thread", "send", "lose", "duplicate"}
  MaxTries = 4
  MaxSignals = 1
INVARIANTS TypeOK CountedIfKept  FiguresRight
PROPERTY EndsOnceTold
