\* Three programs, whose names may be the same up to blanks.
SPECIFICATION Spec
CONSTANTS
  Programs = {p1, p2, p3}
  Words = {w1, w2}
INVARIANTS DuplicateHasCause RefusedRightly
\* nothing is left to do once every program has ended
CHECK_DEADLOCK FALSE
