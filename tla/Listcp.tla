------------------------------- MODULE Listcp -------------------------------
(***************************************************************************)
(* cp/listcp.c: a producer pushes values at the front of a linked list, a  *)
(* consumer pops them, under one mutex and one condition variable.  The    *)
(* list lives in a heap of nodes; every access to a shared field is a      *)
(* step.  The producer's own variables are those of PushFront(), the       *)
(* consumer's those of PopFront().                                         *)
(***************************************************************************)
EXTENDS Integers, Sequences, FiniteSets

CONSTANTS
  Nodes,     \* the nodes malloc() has room for
  head,      \* the list's first node, which holds no value
  Null,
  Limit      \* a value is rand() % Limit (1234 in the code)

ASSUME ListcpAssumption ==
  /\ head \notin Nodes /\ Null \notin Nodes \cup {head}
  /\ IsFiniteSet(Nodes)
  /\ Limit \in Nat \ {0}

Data == 0 .. Limit - 1
Node == Nodes \cup {head}
Pointer == Nodes \cup {Null}

VARIABLES
  lock,            \* who holds the mutex: "producer", "consumer" or "none"
  next, value,     \* the fields of the nodes
  allocated,       \* the nodes malloc() gave out and free() did not take back
  ppc, new,        \* Product(): where it is; PushFront()'s tmp
  cpc, tmp, data   \* Consumer(): where it is; PopFront()'s tmp; its data

vars == <<lock, next, value, allocated, ppc, new, cpc, tmp, data>>
heap == <<next, value, allocated>>
producer == <<ppc, new>>
consumer == <<cpc, tmp, data>>

(* Slip: the test is the wrong way round.                                  *)
IsEmptyInverted == next[head] # Null

IsEmpty == next[head] = Null

-----------------------------------------------------------------------------
LockP ==
  /\ ppc = "lock" /\ lock = "none"
  /\ lock' = "producer"
  /\ ppc' = "alloc"
  /\ UNCHANGED <<heap, new, consumer>>

(* AllocNode(d, NULL) with d = rand() % 1234.                              *)
AllocNode ==
  /\ ppc = "alloc"
  /\ \E n \in Nodes \ allocated, d \in Data :
       /\ new' = n
       /\ allocated' = allocated \cup {n}
       /\ value' = [value EXCEPT ![n] = d]
       /\ next' = [next EXCEPT ![n] = Null]
  /\ ppc' = "link"
  /\ UNCHANGED <<lock, consumer>>

(* malloc() has no room, or says so: exit(1), both threads gone.           *)
AllocFails ==
  /\ ppc = "alloc"
  /\ ppc' = "exited" /\ cpc' = "exited"
  /\ UNCHANGED <<lock, heap, new, tmp, data>>

(* Slip: the new node ends the list.                                       *)
LinkForgotten ==
  /\ ppc = "link"
  /\ ppc' = "push"
  /\ UNCHANGED <<lock, heap, new, consumer>>

(* tmp->next = n->next;                                                    *)
Link ==
  /\ ppc = "link"
  /\ next' = [next EXCEPT ![new] = next[head]]
  /\ ppc' = "push"
  /\ UNCHANGED <<lock, value, allocated, new, consumer>>

(* n->next = tmp;                                                          *)
Push ==
  /\ ppc = "push"
  /\ next' = [next EXCEPT ![head] = new]
  /\ ppc' = "unlock"
  /\ UNCHANGED <<lock, value, allocated, new, consumer>>

UnlockP ==
  /\ ppc = "unlock"
  /\ lock' = "none"
  /\ ppc' = "signal"
  /\ UNCHANGED <<heap, new, consumer>>

(* Slip: the signal is sent to nobody.                                     *)
SignalLost ==
  /\ ppc = "signal"
  /\ ppc' = "lock"
  /\ UNCHANGED <<lock, heap, new, consumer>>

(* pthread_cond_signal(), after the mutex was given up, and the sleep.     *)
Signal ==
  /\ ppc = "signal"
  /\ cpc' = IF cpc = "asleep" THEN "relock" ELSE cpc
  /\ ppc' = "lock"
  /\ UNCHANGED <<lock, heap, new, tmp, data>>

-----------------------------------------------------------------------------
LockC ==
  /\ cpc = "lock" /\ lock = "none"
  /\ lock' = "consumer"
  /\ cpc' = "test"
  /\ UNCHANGED <<heap, tmp, data, producer>>

(* while(IsEmpty(head)) *)
Test ==
  /\ cpc = "test"
  /\ cpc' = IF IsEmpty THEN "wait" ELSE "pop"
  /\ UNCHANGED <<lock, heap, tmp, data, producer>>

(* pthread_cond_wait(): the mutex is given up and the thread asleep in one *)
(* step.                                                                   *)
Wait ==
  /\ cpc = "wait"
  /\ lock' = "none"
  /\ cpc' = "asleep"
  /\ UNCHANGED <<heap, tmp, data, producer>>

(* It may also wake up with no signal.                                     *)
WakeUp ==
  /\ cpc = "asleep"
  /\ cpc' = "relock"
  /\ UNCHANGED <<lock, heap, tmp, data, producer>>

(* Slip: the mutex is not waited for.                                      *)
RelockNot ==
  /\ cpc = "relock"
  /\ cpc' = "test"
  /\ UNCHANGED <<lock, heap, tmp, data, producer>>

(* It returns with the mutex, to the test.                                 *)
Relock ==
  /\ cpc = "relock" /\ lock = "none"
  /\ lock' = "consumer"
  /\ cpc' = "test"
  /\ UNCHANGED <<heap, tmp, data, producer>>

(* PopFront(), which tests the list again: node_p tmp = n->next;           *)
Pop ==
  /\ cpc = "pop"
  /\ IF IsEmpty THEN cpc' = "unlock" /\ UNCHANGED tmp
                ELSE cpc' = "unlink" /\ tmp' = next[head]
  /\ UNCHANGED <<lock, heap, data, producer>>

(* n->next = tmp->next;                                                    *)
Unlink ==
  /\ cpc = "unlink"
  /\ next' = [next EXCEPT ![head] = next[tmp]]
  /\ cpc' = "free"
  /\ UNCHANGED <<lock, value, allocated, tmp, data, producer>>

(* Slip: the node is not freed.                                            *)
FreeNodeNot ==
  /\ cpc = "free"
  /\ data' = value[tmp]
  /\ cpc' = "unlock"
  /\ UNCHANGED <<lock, heap, tmp, producer>>

(* *out = tmp->data; FreeNode(tmp);                                        *)
FreeNode ==
  /\ cpc = "free"
  /\ data' = value[tmp]
  /\ allocated' = allocated \ {tmp}
  /\ cpc' = "unlock"
  /\ UNCHANGED <<lock, next, value, tmp, producer>>

UnlockC ==
  /\ cpc = "unlock"
  /\ lock' = "none"
  /\ cpc' = "lock"
  /\ UNCHANGED <<heap, tmp, data, producer>>

-----------------------------------------------------------------------------
(* main(): InitList() before either thread starts.                         *)
Init ==
  /\ lock = "none"
  /\ next = [n \in Node |-> Null] /\ value = [n \in Node |-> 0]
  /\ allocated = {head}
  /\ ppc = "lock" /\ new = Null
  /\ cpc = "lock" /\ tmp = Null /\ data = 0

Pushes == AllocNode \/ AllocFails \/ Link \/ Push \/ UnlockP \/ Signal
Product == LockP \/ Pushes

ConsumerLocks == LockC \/ Relock
ConsumerWorks == Test \/ Wait \/ Pop \/ Unlink \/ FreeNode \/ UnlockC
Consumer == ConsumerLocks \/ ConsumerWorks \/ WakeUp

(* The process has exited.                                                 *)
Exited == ppc = "exited" /\ UNCHANGED vars

Next == Product \/ Consumer \/ Exited

Spec == Init /\ [][Next]_vars

(* The threads are scheduled.  Nothing obliges the producer to start       *)
(* another round.  It sleeps for a second outside the mutex in each, in    *)
(* which a consumer that waits for the mutex gets it; a wake-up without a  *)
(* signal is never counted on.                                             *)
FairSpec ==
  /\ Spec /\ WF_vars(Pushes)
  /\ WF_vars(ConsumerWorks) /\ SF_vars(ConsumerLocks)

-----------------------------------------------------------------------------
LockTypes ==
  /\ lock \in {"producer", "consumer", "none"}
  /\ ppc \in {"lock", "alloc", "link", "push", "unlock", "signal", "exited"}
  /\ cpc \in {"lock", "test", "wait", "asleep", "relock", "pop", "unlink",
              "free", "unlock", "exited"}

HeapTypes ==
  /\ next \in [Node -> Pointer] /\ value \in [Node -> Data]
  /\ allocated \subseteq Node
  /\ new \in Pointer /\ (ppc \in {"link", "push"} => new \in Nodes)
  /\ tmp \in Pointer /\ (cpc \in {"unlink", "free"} => tmp \in Nodes)
  /\ data \in Data

TypeOK == LockTypes /\ HeapTypes

(* A consumer asleep over a list that is not empty has a signal coming to  *)
(* it, although the signal is sent without the mutex (listcp.c:102, 121).  *)
WakeUpComes ==
  cpc = "asleep" /\ ~IsEmpty => ppc \in {"unlock", "signal"}

-----------------------------------------------------------------------------
(* The nodes from head on, cut off where they would come round again.      *)
Before(s, i) == IF i = 1 THEN head ELSE s[i - 1]
NodesOf(s) == {s[i] : i \in 1..Len(s)}

IsChain(s) ==
  /\ \A i, j \in 1..Len(s) : s[i] = s[j] => i = j
  /\ \A i \in 1..Len(s) : s[i] = next[Before(s, i)]
  /\ next[Before(s, Len(s) + 1)] \in {Null} \cup NodesOf(s)

Chain ==
  CHOOSE s \in UNION {[1..n -> Nodes] : n \in 0 .. Cardinality(Nodes)} : IsChain(s)

Held ==
  (IF ppc \in {"link", "push"} THEN {new} ELSE {})
    \cup (IF cpc = "free" THEN {tmp} ELSE {})

(* A node in use is in the list or in the hands of one thread, and nothing *)
(* else is: no node is lost, freed while linked or pushed twice, and the   *)
(* list comes to an end.                                                   *)
HeapSound ==
  ppc # "exited" =>
    LET list == Chain IN
    /\ allocated = {head} \cup NodesOf(list) \cup Held
    /\ NodesOf(list) \cap Held = {}
    /\ next[Before(list, Len(list) + 1)] = Null

(* To its two threads the list is a stack (listcp.c:56-72, 95-124).        *)
Stack ==
  INSTANCE LifoList
    WITH stack  <- LET list == Chain IN [i \in 1..Len(list) |-> value[list[i]]],
         popped <- IF cpc = "free" THEN value[tmp] ELSE data

ImplementsLifo == Stack!Spec

(* The consumer does not stay asleep, or at the mutex, over a list that is *)
(* not empty (listcp.c:100-103).                                           *)
ListIsServed == ~IsEmpty ~> cpc \in {"unlink", "exited"}
=============================================================================
