---------------------------- MODULE BoundedFifo ----------------------------
(***************************************************************************)
(* What the two threads of mycp.c promise between them: a queue of at most *)
(* N values, from which each value comes out once, in order.               *)
(***************************************************************************)
EXTENDS Integers, Sequences

CONSTANTS N, Data

VARIABLES
  queue,     \* the values stored and not yet taken
  printed    \* the last value taken

Put == \E d \in Data :
  Len(queue) < N /\ queue' = Append(queue, d) /\ UNCHANGED printed

Get ==
  queue # <<>> /\ printed' = Head(queue) /\ queue' = Tail(queue)

Init == queue = <<>> /\ printed = 0

Next == Put \/ Get

Spec == Init /\ [][Next]_<<queue, printed>>
=============================================================================
