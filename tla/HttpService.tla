---------------------------- MODULE HttpService ----------------------------
(***************************************************************************)
(* What a client of httpd/ is promised: its answer grows towards one of    *)
(* the complete answers to its request, byte by byte and with nothing      *)
(* foreign in it, and the connection is closed on a complete answer.  Only *)
(* an excused connection (its client left, a system call failed for it, or *)
(* the server process ended) may be closed on less.                        *)
(***************************************************************************)
EXTENDS Sequences, SequencesExt

CONSTANTS
  Conns,
  Requests,
  Answers,   \* the complete answers to each request
  None

VARIABLES
  ask,       \* the request made on each connection
  phase,     \* "none", "open" or "closed"
  excused,   \* whether the connection may end early
  answer     \* what was sent on it

vars == <<ask, phase, excused, answer>>

Init ==
  /\ ask = [c \in Conns |-> None]
  /\ phase = [c \in Conns |-> "none"]
  /\ excused = [c \in Conns |-> FALSE]
  /\ answer = [c \in Conns |-> <<>>]

Ask(c) ==
  /\ phase[c] = "none"
  /\ phase' = [phase EXCEPT ![c] = "open"]
  /\ \E r \in Requests : ask' = [ask EXCEPT ![c] = r]
  /\ UNCHANGED <<excused, answer>>

Write(c) ==
  /\ phase[c] = "open"
  /\ \E a \in Answers[ask[c]] : \E n \in Len(answer[c]) + 1 .. Len(a) :
       /\ IsPrefix(answer[c], a)
       /\ answer' = [answer EXCEPT ![c] = SubSeq(a, 1, n)]
  /\ UNCHANGED <<ask, phase, excused>>

Excuse(c) ==
  /\ excused' = [excused EXCEPT ![c] = TRUE]
  /\ UNCHANGED <<ask, phase, answer>>

End(c) ==
  /\ phase[c] = "open"
  /\ phase' = [phase EXCEPT ![c] = "closed"]
  /\ \/ answer[c] \in Answers[ask[c]] /\ UNCHANGED excused
     \/ excused' = [excused EXCEPT ![c] = TRUE]
  /\ UNCHANGED <<ask, answer>>

Crash ==
  /\ excused' = [c \in Conns |-> TRUE]
  /\ phase' = [c \in Conns |-> IF phase[c] = "none" THEN "none" ELSE "closed"]
  /\ UNCHANGED <<ask, answer>>

Next == Crash \/ \E c \in Conns : Ask(c) \/ Write(c) \/ Excuse(c) \/ End(c)

Spec == Init /\ [][Next]_vars
=============================================================================
