------------------------------ MODULE LifoList ------------------------------
(***************************************************************************)
(* What the list of listcp.c promises its two threads: the value pushed    *)
(* last comes out first, and each value comes out at most once.            *)
(***************************************************************************)
EXTENDS Integers, Sequences

CONSTANT Data

VARIABLES
  stack,     \* the values pushed and not popped, the last one first
  popped     \* the last value popped

vars == <<stack, popped>>

Push == \E d \in Data : stack' = <<d>> \o stack /\ UNCHANGED popped

Pop == stack # <<>> /\ popped' = Head(stack) /\ stack' = Tail(stack)

Init == stack = <<>> /\ popped = 0

Next == Push \/ Pop

Spec == Init /\ [][Next]_vars
=============================================================================
