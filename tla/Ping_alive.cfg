\* The comment on alive.
SPECIFICATION Spec
CONSTANTS
  N = 1
  Half = 4
  Faults = {}
  MaxTries = 2
  MaxSignals = 1
INVARIANT SignalRemembered
