----------------------------- MODULE ListcpProof -----------------------------
(***************************************************************************)
(* For a heap of any size: no wake-up of listcp.c is lost, its list is     *)
(* sound, and to the two threads it is a stack.                            *)
(***************************************************************************)
EXTENDS Listcp, TLAPS, FiniteSetTheorems, WellFoundedInduction

(* What a thread does between lock and unlock it does with the mutex, and  *)
(* what it found out about the list there still holds.                     *)
Exclusive ==
  /\ ppc \in {"alloc", "link", "push", "unlock"} => lock = "producer"
  /\ cpc \in {"test", "wait", "pop", "unlink", "free", "unlock"} => lock = "consumer"
  /\ cpc = "wait" => IsEmpty

IInv == TypeOK /\ Exclusive /\ WakeUpComes

(* The list starts empty, with nobody at work on it.                       *)
LEMMA Start == Init => IInv
<1> SUFFICES ASSUME Init PROVE IInv  OBVIOUS
<1>1. TypeOK
  BY ListcpAssumption
  DEF Init, TypeOK, LockTypes, HeapTypes, Node, Pointer, Data
<1>2. Exclusive /\ WakeUpComes
  BY DEF Init, Exclusive, WakeUpComes
<1> QED  BY <1>1, <1>2 DEF IInv

(* Every step keeps the types of the mutex and of where the threads are.   *)
LEMMA StepKeepsLockTypes == LockTypes /\ [Next]_vars => LockTypes'
BY DEF LockTypes, Next, Product, Pushes, LockP, AllocNode, AllocFails, Link,
       Push, UnlockP, Signal, Consumer, ConsumerLocks, ConsumerWorks, WakeUp,
       LockC, Test, Wait, Relock, Pop, Unlink, FreeNode, UnlockC, Exited,
       vars, producer, consumer

(* Every step keeps the types of the heap and of what points into it.      *)
LEMMA StepKeepsHeapTypes == TypeOK /\ [Next]_vars => HeapTypes'
<1> SUFFICES ASSUME LockTypes, HeapTypes, [Next]_vars PROVE HeapTypes'
  BY DEF TypeOK
<1>0. Nodes \subseteq Node /\ head \in Node /\ Nodes \subseteq Pointer
      /\ Null \in Pointer
  BY DEF Node, Pointer
<1> USE DEF HeapTypes
<1>1. CASE UNCHANGED <<heap, new, tmp, data>>
           /\ (ppc' \in {"link", "push"} => ppc \in {"link", "push"})
           /\ (cpc' \in {"unlink", "free"} => cpc \in {"unlink", "free"})
  BY <1>1 DEF heap
<1>2. CASE AllocNode
  <2>1. PICK n \in Nodes \ allocated, d \in Data :
          /\ new' = n
          /\ allocated' = allocated \cup {n}
          /\ value' = [value EXCEPT ![n] = d]
          /\ next' = [next EXCEPT ![n] = Null]
    BY <1>2 DEF AllocNode
  <2>2. next' \in [Node -> Pointer] /\ value' \in [Node -> Data]
    BY <1>0, <2>1
  <2> QED  BY <1>0, <1>2, <2>1, <2>2 DEF AllocNode, consumer
<1>3. CASE Link
  BY <1>0, <1>3 DEF Link, consumer
<1>4. CASE Push
  <2>1. new \in Pointer  BY <1>4 DEF Push
  <2>2. next' \in [Node -> Pointer]  BY <1>0, <1>4, <2>1 DEF Push
  <2> QED  BY <1>4, <2>2 DEF Push, consumer
<1>5. CASE Pop
  <2>1. next[head] \in Pointer  BY <1>0
  <2>2. ~IsEmpty => next[head] \in Nodes  BY <2>1 DEF IsEmpty, Pointer
  <2> QED  BY <1>5, <2>1, <2>2 DEF Pop, heap, producer
<1>6. CASE Unlink
  <2>1. tmp \in Nodes /\ next[tmp] \in Pointer  BY <1>0, <1>6 DEF Unlink
  <2>2. next' \in [Node -> Pointer]  BY <1>0, <1>6, <2>1 DEF Unlink
  <2> QED  BY <1>6, <2>1, <2>2 DEF Unlink, producer
<1>7. CASE FreeNode
  <2>1. value[tmp] \in Data  BY <1>0, <1>7 DEF FreeNode
  <2> QED  BY <1>7, <2>1 DEF FreeNode, producer
<1> QED
  BY <1>1, <1>2, <1>3, <1>4, <1>5, <1>6, <1>7
  DEF Next, Product, Pushes, LockP, AllocFails, UnlockP, Signal, Consumer,
      ConsumerLocks, ConsumerWorks, WakeUp, LockC, Test, Wait, Relock,
      UnlockC, Exited, vars, heap, producer, consumer

(* No step breaks into another thread's critical section.                  *)
LEMMA StepKeepsExclusive == TypeOK /\ Exclusive /\ [Next]_vars => Exclusive'
<1> SUFFICES ASSUME LockTypes, HeapTypes, Exclusive, [Next]_vars
             PROVE  Exclusive'
  BY DEF TypeOK
<1> USE DEF Exclusive, IsEmpty
<1>1. CASE Product
  BY <1>1 DEF Product, Pushes, LockP, AllocNode, AllocFails, Link, Push,
              UnlockP, Signal, heap, consumer
<1>2. CASE Consumer
  BY <1>2 DEF Consumer, ConsumerLocks, ConsumerWorks, WakeUp, LockC, Test,
              Wait, Relock, Pop, Unlink, FreeNode, UnlockC, heap, producer
<1>3. CASE UNCHANGED vars
  BY <1>3 DEF vars
<1> QED  BY <1>1, <1>2, <1>3 DEF Next, Exited

(* No step leaves the consumer asleep over a list that is not empty,       *)
(* unless the signal is on its way.                                        *)
LEMMA StepKeepsWakeUp == IInv /\ [Next]_vars => WakeUpComes'
<1> SUFFICES ASSUME LockTypes, HeapTypes, Exclusive, WakeUpComes, [Next]_vars
             PROVE  WakeUpComes'
  BY DEF IInv, TypeOK
<1> USE DEF WakeUpComes, IsEmpty
<1>1. CASE AllocNode
  <2>1. PICK n \in Nodes \ allocated : next' = [next EXCEPT ![n] = Null]
    BY <1>1 DEF AllocNode
  <2>2. n # head /\ head \in Node  BY <2>1, ListcpAssumption DEF Node
  <2>3. next'[head] = next[head]  BY <2>1, <2>2 DEF HeapTypes
  <2> QED  BY <1>1, <2>3 DEF AllocNode, consumer
<1>2. CASE Link
  <2>1. new # head /\ head \in Node
    BY <1>2, ListcpAssumption DEF Link, HeapTypes, Node
  <2>2. next'[head] = next[head]  BY <1>2, <2>1 DEF Link, HeapTypes
  <2> QED  BY <1>2, <2>2 DEF Link, consumer
<1>3. CASE LockP \/ AllocFails \/ Push \/ UnlockP \/ Signal
  BY <1>3 DEF LockP, AllocFails, Push, UnlockP, Signal, heap, consumer
<1>4. CASE Consumer
  BY <1>4 DEF Consumer, ConsumerLocks, ConsumerWorks, WakeUp, LockC, Test,
              Wait, Relock, Pop, Unlink, FreeNode, UnlockC, heap, producer,
              Exclusive
<1>5. CASE UNCHANGED vars
  BY <1>5 DEF vars
<1> QED
  BY <1>1, <1>2, <1>3, <1>4, <1>5 DEF Next, Product, Pushes, Exited

(* All of this holds in every reachable state.                             *)
LEMMA Invariance == Spec => []IInv
<1>1. IInv /\ [Next]_vars => IInv'
  BY StepKeepsLockTypes, StepKeepsHeapTypes, StepKeepsExclusive, StepKeepsWakeUp
  DEF IInv, TypeOK
<1> QED  BY Start, <1>1, PTL DEF Spec

(* The locks, the two threads and the heap keep their types, freed nodes   *)
(* and links included (listcp.c:10-135).                                   *)
THEOREM ListTypes == Spec => []TypeOK
<1>1. IInv => TypeOK  BY DEF IInv
<1> QED  BY Invariance, <1>1, PTL

(* However the threads interleave, a consumer asleep over a list that is   *)
(* not empty is about to be signalled (listcp.c:102, 121).                 *)
THEOREM NoWakeUpLost == Spec => []WakeUpComes
<1>1. IInv => WakeUpComes  BY DEF IInv
<1> QED  BY Invariance, <1>1, PTL

-----------------------------------------------------------------------------
(* The order of the natural numbers, as the library's theorem has it.      *)
Less == {p \in Nat \X Nat : p[1] < p[2]}

(* The least of a set of numbers.                                          *)
LEMMA Least ==
  ASSUME NEW T \in SUBSET Nat, T # {}
  PROVE  \E x \in T : \A y \in T : x <= y
<1>1. OpToRel(<, Nat) = Less
  BY DEF OpToRel, Less
<1>2. IsWellFoundedOn(Less, Nat)
  BY <1>1, NatLessThanWellFounded
<1>3. PICK x \in T : \A y \in T : ~(<<y, x>> \in Less)
  BY <1>2, WFMin
<1>4. ASSUME NEW y \in T
      PROVE  x <= y
  <2>1. <<y, x>> \notin Less /\ y \in Nat /\ x \in Nat
    BY <1>3
  <2> QED
    BY <2>1 DEF Less
<1> QED
  BY <1>3, <1>4

(* Two chains agree as far as they both go.                                *)
LEMMA ChainsAgree ==
  ASSUME NEW s \in Seq(Nodes), NEW t \in Seq(Nodes), IsChain(s), IsChain(t)
  PROVE  \A i \in 1..Len(s) : i <= Len(t) => s[i] = t[i]
<1> DEFINE T == {i \in 1..Len(s) : i <= Len(t) /\ s[i] # t[i]}
<1> SUFFICES ASSUME T # {}
             PROVE  FALSE
  OBVIOUS
<1>0. Len(s) \in Nat /\ Len(t) \in Nat
  OBVIOUS
<1>1. PICK x \in T : \A y \in T : x <= y
  <2>1. T \in SUBSET Nat
    BY <1>0
  <2> HIDE DEF T
  <2> QED
    BY <2>1, Least
<1>2. x \in 1..Len(s) /\ x <= Len(t) /\ s[x] # t[x]
  BY <1>1
<1>3. Before(s, x) = Before(t, x)
  <2>1. CASE x = 1
    BY <2>1 DEF Before
  <2>2. CASE x # 1
    <3>1. x - 1 \notin T
      BY <1>0, <1>1, <1>2
    <3>2. x - 1 \in 1..Len(s) /\ x - 1 <= Len(t)
      BY <1>0, <1>2, <2>2
    <3> QED
      BY <2>2, <3>1, <3>2 DEF Before
  <2> QED
    BY <2>1, <2>2
<1>4. s[x] = next[Before(s, x)] /\ t[x] = next[Before(t, x)]
  BY <1>0, <1>2 DEF IsChain
<1> QED
  BY <1>2, <1>3, <1>4

(* A chain does not go on where another one has ended.                     *)
LEMMA ChainNotLonger ==
  ASSUME NEW s \in Seq(Nodes), NEW t \in Seq(Nodes), IsChain(s), IsChain(t)
  PROVE  Len(t) <= Len(s)
<1> SUFFICES ASSUME Len(s) < Len(t)
             PROVE  FALSE
  OBVIOUS
<1> DEFINE k == Len(s) + 1
<1>0. Len(s) \in Nat /\ Len(t) \in Nat /\ k \in 1..Len(t)
  OBVIOUS
<1>1. \A i \in 1..Len(s) : s[i] = t[i]
  BY <1>0, ChainsAgree
<1>2. Before(s, k) = Before(t, k)
  BY <1>0, <1>1 DEF Before
<1>3. t[k] \in {Null} \cup NodesOf(s)
  BY <1>0, <1>2 DEF IsChain
<1>4. t[k] # Null
  BY <1>0, ListcpAssumption
<1>5. PICK i \in 1..Len(s) : t[k] = s[i]
  BY <1>3, <1>4 DEF NodesOf
<1>6. t[i] = t[k] /\ i # k /\ i \in 1..Len(t)
  BY <1>0, <1>1, <1>5
<1> QED
  BY <1>0, <1>6 DEF IsChain

(* There is one chain.                                                     *)
LEMMA ChainUnique ==
  ASSUME NEW s \in Seq(Nodes), NEW t \in Seq(Nodes), IsChain(s), IsChain(t)
  PROVE  s = t
<1>1. Len(s) = Len(t)
  BY ChainNotLonger
<1>2. \A i \in 1..Len(s) : s[i] = t[i]
  BY <1>1, ChainsAgree
<1> QED
  BY <1>1, <1>2

(* A chain is no longer than the heap.                                     *)
LEMMA ChainFits ==
  ASSUME NEW s \in Seq(Nodes), IsChain(s)
  PROVE  s \in UNION {[1..n -> Nodes] : n \in 0 .. Cardinality(Nodes)}
<1>1. Cardinality(Nodes) \in Nat /\ IsFiniteSet(Nodes)
  BY ListcpAssumption, FS_CardinalityType
<1>2. Len(s) \in Nat /\ s \in [1..Len(s) -> Nodes]
  OBVIOUS
<1>3. IsFiniteSet(1..Len(s)) /\ Cardinality(1..Len(s)) = Len(s)
  BY <1>2, FS_Interval
<1>4. Len(s) <= Cardinality(Nodes)
  <2> SUFFICES ASSUME Cardinality(Nodes) < Len(s)
               PROVE  FALSE
    BY <1>1, <1>2
  <2>1. \E x, y \in 1..Len(s) : x # y /\ s[x] = s[y]
    BY <1>1, <1>2, <1>3, FS_PigeonHole
  <2> QED
    BY <2>1 DEF IsChain
<1> QED
  BY <1>1, <1>2, <1>4

(* Chain is that one.                                                      *)
LEMMA ChainIs ==
  ASSUME NEW s \in Seq(Nodes), IsChain(s)
  PROVE  Chain = s
<1> DEFINE P == UNION {[1..n -> Nodes] : n \in 0 .. Cardinality(Nodes)}
<1>1. s \in P
  BY ChainFits
<1>2. Chain \in P /\ IsChain(Chain)
  <2> HIDE DEF P
  <2>1. Chain = CHOOSE t \in P : IsChain(t)
    BY DEF Chain, P
  <2> QED
    BY <1>1, <2>1
<1>3. Chain \in Seq(Nodes)
  <2>1. Cardinality(Nodes) \in Nat
    BY ListcpAssumption, FS_CardinalityType
  <2>2. PICK n \in 0 .. Cardinality(Nodes) : Chain \in [1..n -> Nodes]
    BY <1>2
  <2> QED
    BY <2>1, <2>2
<1> QED
  BY <1>2, <1>3, ChainUnique

-----------------------------------------------------------------------------
(* The list is the sequence s of nodes, and the threads hold the rest.     *)
IsList(s) ==
  /\ \A i, j \in 1..Len(s) : s[i] = s[j] => i = j
  /\ \A i \in 1..Len(s) : s[i] = next[Before(s, i)]
  /\ next[Before(s, Len(s) + 1)] = Null

Owned(s) ==
  /\ allocated = {head} \cup NodesOf(s) \cup Held
  /\ NodesOf(s) \cap Held = {}
  /\ ppc = "push" => next[new] = next[head]
  /\ cpc = "unlink" => tmp = next[head]

HeapKept == ppc # "exited" => \E s \in Seq(Nodes) : IsList(s) /\ Owned(s)

HInv == IInv /\ HeapKept

(* A list is a chain, and so the one Chain names.                          *)
LEMMA ListIsChain ==
  ASSUME NEW s \in Seq(Nodes), IsList(s)
  PROVE  IsChain(s) /\ Chain = s
<1>1. IsChain(s)
  BY DEF IsList, IsChain
<1> QED
  BY <1>1, ChainIs

(* Facts about a node in front of a sequence, and a sequence without it.   *)
LEMMA InFront ==
  ASSUME NEW s \in Seq(Nodes), NEW n \in Nodes
  PROVE  LET t == <<n>> \o s IN
         /\ t \in Seq(Nodes) /\ Len(t) = Len(s) + 1 /\ t[1] = n
         /\ \A i \in 1..Len(s) : t[i + 1] = s[i]
         /\ \A i \in 2..Len(t) : t[i] = s[i - 1]
         /\ NodesOf(t) = {n} \cup NodesOf(s)
<1> DEFINE t == <<n>> \o s
<1>1. /\ t \in Seq(Nodes) /\ Len(t) = Len(s) + 1 /\ t[1] = n
      /\ \A i \in 1..Len(s) : t[i + 1] = s[i]
      /\ \A i \in 2..Len(t) : t[i] = s[i - 1]
  OBVIOUS
<1> HIDE DEF t
<1>0. Len(s) \in Nat /\ Len(t) \in Nat
  BY <1>1
<1>2. NodesOf(t) \subseteq {n} \cup NodesOf(s)
  <2> SUFFICES ASSUME NEW i \in 1..Len(t)
               PROVE  t[i] \in {n} \cup NodesOf(s)
    BY DEF NodesOf
  <2>1. CASE i = 1
    BY <1>1, <2>1
  <2>2. CASE i # 1
    <3>1. i \in 2..Len(t) /\ i - 1 \in 1..Len(s)
      BY <1>0, <1>1, <2>2
    <3> QED
      BY <1>1, <3>1 DEF NodesOf
  <2> QED
    BY <2>1, <2>2
<1>3. {n} \cup NodesOf(s) \subseteq NodesOf(t)
  <2>1. n \in NodesOf(t)
    <3>1. 1 \in 1..Len(t)
      BY <1>0, <1>1
    <3> QED
      BY <1>1, <3>1 DEF NodesOf
  <2>2. ASSUME NEW i \in 1..Len(s)
        PROVE  s[i] \in NodesOf(t)
    <3>1. i + 1 \in 1..Len(t) /\ t[i + 1] = s[i]
      BY <1>0, <1>1
    <3> QED
      BY <3>1 DEF NodesOf
  <2> QED
    BY <2>1, <2>2 DEF NodesOf
<1> QED
  BY <1>1, <1>2, <1>3 DEF t

(* Facts about a list without its first node.                              *)
LEMMA FirstGone ==
  ASSUME NEW s \in Seq(Nodes), s # <<>>, IsList(s)
  PROVE  /\ Tail(s) \in Seq(Nodes) /\ Len(Tail(s)) = Len(s) - 1 /\ Len(s) \in Nat \ {0}
         /\ \A i \in 1..Len(Tail(s)) : Tail(s)[i] = s[i + 1]
         /\ s[1] \in Nodes /\ s[1] \notin NodesOf(Tail(s))
         /\ NodesOf(s) = {s[1]} \cup NodesOf(Tail(s))
         /\ s = <<s[1]>> \o Tail(s)
<1>1. /\ Tail(s) \in Seq(Nodes) /\ Len(Tail(s)) = Len(s) - 1 /\ Len(s) \in Nat \ {0}
      /\ \A i \in 1..Len(Tail(s)) : Tail(s)[i] = s[i + 1]
      /\ s[1] \in Nodes
  OBVIOUS
<1>2. s = <<s[1]>> \o Tail(s)
  OBVIOUS
<1>3. NodesOf(s) = {s[1]} \cup NodesOf(Tail(s))
  BY <1>1, <1>2, InFront
<1>4. s[1] \notin NodesOf(Tail(s))
  BY <1>1 DEF NodesOf, IsList
<1> QED
  BY <1>1, <1>2, <1>3, <1>4

(* The heap of a list changed outside the list is the heap of that list.   *)
LEMMA ListKept ==
  ASSUME TypeOK, NEW s \in Seq(Nodes), IsList(s),
         \A n \in {head} \cup NodesOf(s) : next'[n] = next[n]
  PROVE  IsList(s)'
<1>1. \A i \in 1 .. Len(s) + 1 : Before(s, i) \in {head} \cup NodesOf(s)
  BY DEF Before, NodesOf
<1> QED
  BY <1>1 DEF IsList, Before

(* Push puts the new node in front of the list.                            *)
LEMMA PushKeepsList ==
  ASSUME IInv, NEW s \in Seq(Nodes), IsList(s), Owned(s), Push, NEW n \in Nodes, n = new
  PROVE  IsList(<<n>> \o s)' /\ Owned(<<n>> \o s)'
<1> DEFINE t == <<n>> \o s
<1>1. /\ t \in Seq(Nodes) /\ Len(t) = Len(s) + 1 /\ t[1] = n
      /\ \A i \in 1..Len(s) : t[i + 1] = s[i]
      /\ \A i \in 2..Len(t) : t[i] = s[i - 1]
      /\ NodesOf(t) = {n} \cup NodesOf(s)
  BY InFront
<1> HIDE DEF t
<1>0. Len(s) \in Nat /\ Len(t) \in Nat
  BY <1>1
<1>2. n \in Held /\ n \notin NodesOf(s) /\ n # head /\ next[n] = next[head]
  BY ListcpAssumption DEF Push, Owned, Held
<1>3. next'[head] = n /\ \A m \in Nodes : next'[m] = next[m]
  BY ListcpAssumption DEF Push, IInv, TypeOK, HeapTypes, Node
<1>4. \A i, j \in 1..Len(t) : t[i] = t[j] => i = j
  <2> SUFFICES ASSUME NEW i \in 1..Len(t), NEW j \in 1..Len(t), t[i] = t[j]
               PROVE  i = j
    OBVIOUS
  <2>1. ASSUME NEW k \in 2..Len(t)
        PROVE  t[k] \in NodesOf(s) /\ k - 1 \in 1..Len(s)
    <3>1. k - 1 \in 1..Len(s)
      BY <1>0, <1>1
    <3>2. t[k] = s[k - 1]
      BY <1>1
    <3> QED
      BY <3>1, <3>2 DEF NodesOf
  <2>2. CASE i = 1 \/ j = 1
    BY <1>0, <1>1, <1>2, <2>1, <2>2
  <2>3. CASE i # 1 /\ j # 1
    <3>1. i - 1 \in 1..Len(s) /\ j - 1 \in 1..Len(s) /\ s[i - 1] = s[j - 1]
      BY <1>0, <1>1, <2>3
    <3> QED
      BY <1>0, <3>1 DEF IsList
  <2> QED
    BY <2>2, <2>3
<1>5. \A i \in 2 .. Len(t) + 1 : next'[Before(t, i)] = next[Before(s, i - 1)]
  <2> SUFFICES ASSUME NEW i \in 2 .. Len(t) + 1
               PROVE  next'[Before(t, i)] = next[Before(s, i - 1)]
    OBVIOUS
  <2>1. CASE i = 2
    BY <1>0, <1>1, <1>2, <1>3, <2>1 DEF Before
  <2>2. CASE i # 2
    <3>1. i - 1 \in 2..Len(t) /\ i - 2 \in 1..Len(s) /\ i - 1 # 1
      BY <1>0, <1>1, <2>2
    <3>2. t[i - 1] = s[i - 2] /\ s[i - 2] \in Nodes
      <4>1. t[i - 1] = s[(i - 1) - 1]
        BY <1>1, <3>1
      <4> QED
        BY <3>1, <4>1
    <3>3. Before(t, i) = t[i - 1] /\ Before(s, i - 1) = s[i - 2]
      BY <3>1 DEF Before
    <3> QED
      BY <1>3, <3>2, <3>3
  <2> QED
    BY <2>1, <2>2
<1>6. \A i \in 1..Len(t) : t[i] = next'[Before(t, i)]
  <2> SUFFICES ASSUME NEW i \in 1..Len(t)
               PROVE  t[i] = next'[Before(t, i)]
    OBVIOUS
  <2>1. CASE i = 1
    BY <1>1, <1>3, <2>1 DEF Before
  <2>2. CASE i # 1
    <3>1. i \in 2 .. Len(t) + 1 /\ i \in 2..Len(t) /\ i - 1 \in 1..Len(s)
      BY <1>0, <1>1, <2>2
    <3>2. s[i - 1] = next[Before(s, i - 1)]
      BY <3>1 DEF IsList
    <3> QED
      BY <1>1, <1>5, <3>1, <3>2
  <2> QED
    BY <2>1, <2>2
<1>7. next'[Before(t, Len(t) + 1)] = Null
  <2>1. Len(t) + 1 \in 2 .. Len(t) + 1 /\ (Len(t) + 1) - 1 = Len(s) + 1
    BY <1>0, <1>1
  <2> QED
    BY <1>5, <2>1 DEF IsList
<1>8. IsList(t)'
  BY <1>4, <1>6, <1>7 DEF IsList, Before
<1>9. Owned(t)'
  <2>1. Held = {n} /\ Held' = {} /\ cpc' # "unlink"
    BY DEF Push, Held, IInv, Exclusive, consumer
  <2>2. allocated' = {head} \cup NodesOf(s) \cup {n}
    BY <2>1 DEF Push, Owned
  <2> QED
    BY <1>1, <2>1, <2>2 DEF Owned, Push, NodesOf
<1> QED
  BY <1>8, <1>9 DEF t

(* Unlink takes the first node out of it.                                  *)
LEMMA UnlinkKeepsList ==
  ASSUME IInv, NEW s \in Seq(Nodes), IsList(s), Owned(s), Unlink
  PROVE  s # <<>> /\ tmp = s[1] /\ IsList(Tail(s))' /\ Owned(Tail(s))'
<1>0. tmp \in Nodes /\ tmp = next[head] /\ cpc = "unlink" /\ next \in [Node -> Pointer]
  BY DEF Unlink, Owned, IInv, TypeOK, HeapTypes
<1>1. s # <<>>
  BY <1>0, ListcpAssumption DEF IsList, Before
<1> DEFINE t == Tail(s)
<1>2. /\ t \in Seq(Nodes) /\ Len(t) = Len(s) - 1 /\ Len(s) \in Nat \ {0}
      /\ \A i \in 1..Len(t) : t[i] = s[i + 1]
      /\ s[1] \in Nodes /\ s[1] \notin NodesOf(t)
      /\ NodesOf(s) = {s[1]} \cup NodesOf(t)
  BY <1>1, FirstGone
<1> HIDE DEF t
<1>3. tmp = s[1]
  BY <1>0, <1>2 DEF IsList, Before
<1>4. next'[head] = next[s[1]] /\ \A m \in Nodes : next'[m] = next[m]
  BY <1>0, <1>3, ListcpAssumption DEF Unlink, Node
<1>5. \A i \in 1 .. Len(t) + 1 : next'[Before(t, i)] = next[Before(s, i + 1)]
  <2> SUFFICES ASSUME NEW i \in 1 .. Len(t) + 1
               PROVE  next'[Before(t, i)] = next[Before(s, i + 1)]
    OBVIOUS
  <2>0. Before(s, i + 1) = s[i]
    BY <1>2 DEF Before
  <2>1. CASE i = 1
    BY <1>4, <2>0, <2>1 DEF Before
  <2>2. CASE i # 1
    <3>1. i - 1 \in 1..Len(t) /\ (i - 1) + 1 = i
      BY <1>2, <2>2
    <3>2. Before(t, i) = s[i] /\ s[i] \in Nodes
      <4>1. Before(t, i) = t[i - 1]
        BY <2>2 DEF Before
      <4>2. t[i - 1] = s[(i - 1) + 1]
        BY ONLY <1>2, <3>1
      <4>3. i \in 1..Len(s)
        BY <1>2
      <4> QED
        BY <3>1, <4>1, <4>2, <4>3
    <3> QED
      BY <1>4, <2>0, <3>2
  <2> QED
    BY <2>1, <2>2
<1>6. \A i, j \in 1..Len(t) : t[i] = t[j] => i = j
  BY <1>2 DEF IsList
<1>7. \A i \in 1..Len(t) : t[i] = next'[Before(t, i)]
  BY <1>2, <1>5 DEF IsList
<1>8. next'[Before(t, Len(t) + 1)] = Null
  <2>1. Len(t) + 1 \in 1 .. Len(t) + 1 /\ (Len(t) + 1) + 1 = Len(s) + 1
    BY <1>2
  <2> QED
    BY <1>5, <2>1 DEF IsList
<1>9. IsList(t)'
  BY <1>6, <1>7, <1>8 DEF IsList, Before
<1>10. Owned(t)'
  <2>1. Held = {} /\ Held' = {s[1]} /\ ppc' # "push"
    BY <1>3 DEF Unlink, Held, IInv, Exclusive, producer
  <2> QED
    BY <1>2, <2>1 DEF Owned, Unlink, NodesOf
<1> QED
  BY <1>1, <1>3, <1>9, <1>10 DEF t

(* The steps that take no node in or out of the list.                      *)
Relinks == Push \/ Unlink

(* No other step changes the list, or a value in it.                       *)
LEMMA OtherKeepsList ==
  ASSUME IInv, NEW s \in Seq(Nodes), IsList(s), Owned(s), ~Relinks, ppc' # "exited", [Next]_vars
  PROVE  IsList(s)' /\ Owned(s)' /\ \A n \in NodesOf(s) : value'[n] = value[n]
<1>t. /\ next \in [Node -> Pointer] /\ value \in [Node -> Data] /\ head \notin Nodes
      /\ \A n \in NodesOf(s) : n \in Nodes /\ n \in Node
  BY ListcpAssumption DEF IInv, TypeOK, HeapTypes, NodesOf, Node
<1>h. UNCHANGED next => IsList(s)'
  BY DEF IsList, Before
<1>1. CASE UNCHANGED <<next, value, allocated, new, tmp>>
             /\ (ppc' \in {"link", "push"} <=> ppc \in {"link", "push"})
             /\ (ppc' = "push" => ppc = "push")
             /\ (cpc' = "free" <=> cpc = "free")
             /\ (cpc' = "unlink" => cpc = "unlink")
  <2>1. Held' = Held
    BY <1>1 DEF Held
  <2> QED
    BY <1>1, <1>h, <2>1 DEF Owned, NodesOf
<1>2. CASE AllocNode
  <2>1. PICK n \in Nodes \ allocated, d \in Data :
          /\ new' = n
          /\ allocated' = allocated \cup {n}
          /\ value' = [value EXCEPT ![n] = d]
          /\ next' = [next EXCEPT ![n] = Null]
    BY <1>2 DEF AllocNode
  <2>2. n \notin NodesOf(s) /\ n # head
    BY <1>t, <2>1 DEF Owned
  <2>3. \A m \in {head} \cup NodesOf(s) : next'[m] = next[m]
    BY <1>t, <2>1, <2>2 DEF Node
  <2>4. \A m \in NodesOf(s) : value'[m] = value[m]
    BY <1>t, <2>1, <2>2
  <2>5. IsList(s)'
    BY <2>3, ListKept DEF IInv
  <2>6. Held = {} /\ Held' = {n} /\ ppc' # "push" /\ cpc' # "unlink"
    BY <1>2, <2>1 DEF AllocNode, Held, IInv, Exclusive, consumer
  <2>7. Owned(s)'
    BY <2>1, <2>2, <2>6 DEF Owned, NodesOf
  <2> QED
    BY <2>4, <2>5, <2>7
<1>3. CASE Link
  <2>1. /\ ppc = "link" /\ ppc' = "push" /\ new \in Nodes /\ UNCHANGED <<value, allocated, new, tmp, cpc>>
        /\ next' = [next EXCEPT ![new] = next[head]] /\ cpc \notin {"unlink", "free"}
    BY <1>3 DEF Link, consumer, IInv, TypeOK, HeapTypes, Exclusive
  <2>2. new \notin NodesOf(s) /\ new # head
    BY <1>t, <2>1 DEF Owned, Held
  <2>3. \A m \in {head} \cup NodesOf(s) : next'[m] = next[m]
    BY <1>t, <2>1, <2>2 DEF Node
  <2>4. IsList(s)'
    BY <2>3, ListKept DEF IInv
  <2>5. next'[new'] = next'[head]
    BY <1>t, <2>1, <2>2, <2>3 DEF Node
  <2>6. Held' = Held
    BY <2>1 DEF Held
  <2>7. Owned(s)'
    BY <2>1, <2>5, <2>6 DEF Owned, NodesOf
  <2> QED
    BY <2>1, <2>4, <2>7
<1>4. CASE Pop
  <2>1. UNCHANGED <<next, value, allocated, new, ppc>> /\ Held' = Held /\ ppc # "push"
        /\ (cpc' = "unlink" => tmp' = next[head])
    BY <1>4 DEF Pop, heap, producer, Held, IInv, Exclusive
  <2> QED
    BY <1>h, <2>1 DEF Owned, NodesOf
<1>5. CASE FreeNode
  <2>1. UNCHANGED <<next, value>> /\ allocated' = allocated \ {tmp} /\ Held = {tmp} /\ Held' = {}
        /\ ppc' # "push" /\ cpc' # "unlink" /\ tmp # head
    BY <1>t, <1>5 DEF FreeNode, producer, Held, IInv, Exclusive, TypeOK, HeapTypes
  <2>2. allocated' = {head} \cup NodesOf(s)
    BY <2>1 DEF Owned
  <2> QED
    BY <1>h, <2>1, <2>2 DEF Owned, NodesOf
<1> QED
  BY <1>1, <1>2, <1>3, <1>4, <1>5
  DEF Next, Product, Pushes, LockP, AllocFails, UnlockP, Signal, Consumer,
      ConsumerLocks, ConsumerWorks, WakeUp, LockC, Test, Wait, Relock,
      UnlockC, Exited, vars, heap, producer, consumer, Relinks

(* Every step leaves a list, and each node in it or in one thread's hands. *)
LEMMA StepKeepsHeap == HInv /\ [Next]_vars => HeapKept'
<1> SUFFICES ASSUME HInv, [Next]_vars, ppc' # "exited"
             PROVE  \E t \in Seq(Nodes) : IsList(t)' /\ Owned(t)'
  BY DEF HeapKept
<1>1. ppc # "exited" /\ IInv
  BY DEF HInv, Next, Product, Pushes, LockP, AllocNode, AllocFails, Link, Push, UnlockP, Signal,
         Consumer, ConsumerLocks, ConsumerWorks, WakeUp, LockC, Test, Wait, Relock, Pop, Unlink,
         FreeNode, UnlockC, Exited, vars, producer
<1>2. PICK s \in Seq(Nodes) : IsList(s) /\ Owned(s)
  BY <1>1 DEF HInv, HeapKept
<1>3. CASE Push
  <2>1. PICK n \in Nodes : n = new
    BY <1>1, <1>3 DEF Push, IInv, TypeOK, HeapTypes
  <2>2. <<n>> \o s \in Seq(Nodes)
    OBVIOUS
  <2> QED
    BY <1>1, <1>2, <1>3, <2>1, <2>2, PushKeepsList
<1>4. CASE Unlink
  <2>1. s # <<>> /\ IsList(Tail(s))' /\ Owned(Tail(s))'
    BY <1>1, <1>2, <1>4, UnlinkKeepsList
  <2>2. Tail(s) \in Seq(Nodes)
    BY <2>1
  <2> QED
    BY <2>1, <2>2
<1>5. CASE ~Relinks
  BY <1>1, <1>2, <1>5, OtherKeepsList
<1> QED
  BY <1>3, <1>4, <1>5 DEF Relinks

(* There is such a list in every reachable state.                          *)
LEMMA HeapInvariance == Spec => []HInv
<1>1. Init => HeapKept
  <2> SUFFICES ASSUME Init
               PROVE  HeapKept
    OBVIOUS
  <2>1. Len(<<>>) = 0 /\ 1..0 = {} /\ head \in Node
    BY DEF Node
  <2>2. IsList(<<>>)
    BY <2>1 DEF Init, IsList, Before
  <2>3. NodesOf(<<>>) = {}
    BY <2>1 DEF NodesOf
  <2>4. <<>> \in Seq(Nodes)
    OBVIOUS
  <2>5. Owned(<<>>)
    BY <2>3 DEF Init, Owned, Held
  <2> QED
    BY <2>2, <2>4, <2>5 DEF HeapKept
<1>2. HInv /\ [Next]_vars => HeapKept'
  BY StepKeepsHeap
<1> QED
  BY <1>1, <1>2, Invariance, PTL DEF Spec, HInv

(* The nodes malloc() gave out are those of the list and the one in a      *)
(* thread's hands, which is not in the list, and the list comes to an end: *)
(* for a heap of any size, no node is lost, or freed while it is linked.   *)
THEOREM HeapStaysSound == Spec => []HeapSound
<1>1. HInv => HeapSound
  <2> SUFFICES ASSUME HInv, ppc # "exited"
               PROVE  /\ allocated = {head} \cup NodesOf(Chain) \cup Held
                      /\ NodesOf(Chain) \cap Held = {}
                      /\ next[Before(Chain, Len(Chain) + 1)] = Null
    BY DEF HeapSound
  <2>1. PICK s \in Seq(Nodes) : IsList(s) /\ Owned(s)
    BY DEF HInv, HeapKept
  <2>2. Chain = s
    BY <2>1, ListIsChain
  <2> QED
    BY <2>1, <2>2 DEF IsList, Owned
<1> QED
  BY <1>1, HeapInvariance, PTL

-----------------------------------------------------------------------------
(* The stack and the last value popped, as LifoList sees them.             *)
StackNow == LET list == Chain IN [i \in 1..Len(list) |-> value[list[i]]]
Popped == IF cpc = "free" THEN value[tmp] ELSE data
Values(s) == [i \in 1..Len(s) |-> value[s[i]]]

(* The stack is the values of the list.                                    *)
LEMMA StackIs ==
  ASSUME NEW s \in Seq(Nodes), IsList(s)
  PROVE  StackNow = Values(s)
  BY ListIsChain DEF Values, StackNow

(* So it is after the step.                                                *)
LEMMA StackIsNext ==
  ASSUME NEW s \in Seq(Nodes), IsList(s)'
  PROVE  StackNow' = Values(s)'
<1>1. (IsList(s) => StackNow = Values(s))'
  BY StackIs, PTL
<1> QED
  BY <1>1

(* The steps of LifoList, in these terms.                                  *)
LEMMA StackSteps ==
  /\ (\E d \in Data : StackNow' = <<d>> \o StackNow /\ UNCHANGED Popped) => Stack!Push
  /\ (StackNow # <<>> /\ Popped' = Head(StackNow) /\ StackNow' = Tail(StackNow)) => Stack!Pop
  /\ UNCHANGED <<StackNow, Popped>> => UNCHANGED Stack!vars
  BY DEF Stack!Push, Stack!Pop, Stack!vars, StackNow, Popped

(* Sequences that agree everywhere are equal.                              *)
LEMMA SameSequence ==
  ASSUME NEW S, NEW s \in Seq(S), NEW t \in Seq(S), Len(s) = Len(t),
         \A i \in 1..Len(s) : s[i] = t[i]
  PROVE  s = t
  OBVIOUS

(* Push is the push of the stack.                                          *)
LEMMA PushIsPush ==
  ASSUME HInv, NEW s \in Seq(Nodes), IsList(s), Owned(s), Push
  PROVE  Stack!Push
<1>0. IInv /\ value \in [Node -> Data] /\ UNCHANGED <<value, data, tmp, cpc>>
  BY DEF HInv, IInv, TypeOK, HeapTypes, Push, consumer
<1>1. PICK n \in Nodes : n = new
  BY <1>0 DEF Push, IInv, TypeOK, HeapTypes
<1> DEFINE t == <<n>> \o s
           d == value[n]
<1>2. IsList(t)' /\ t \in Seq(Nodes)
  BY <1>0, <1>1, PushKeepsList
<1>3. StackNow = Values(s)
  BY StackIs
<1>4. StackNow' = Values(t)'
  BY <1>2, StackIsNext
<1>5. Values(t)' = [i \in 1..Len(t) |-> value[t[i]]]
  BY <1>0 DEF Values
<1>6. d \in Data /\ \A i \in 1..Len(s) : value[s[i]] \in Data
  BY <1>0 DEF Node
<1>7. [i \in 1..Len(t) |-> value[t[i]]] = <<d>> \o Values(s)
  <2>1. /\ Len(t) = Len(s) + 1 /\ t[1] = n /\ Len(s) \in Nat
        /\ \A i \in 2..Len(t) : t[i] = s[i - 1]
    BY InFront
  <2>2. Values(s) \in Seq(Data) /\ Len(Values(s)) = Len(s)
        /\ \A i \in 1..Len(s) : Values(s)[i] = value[s[i]]
    BY <1>6, <2>1 DEF Values
  <2> HIDE DEF t, d
  <2>3. DEFINE v == [i \in 1..Len(t) |-> value[t[i]]]
               w == <<d>> \o Values(s)
  <2>4. w \in Seq(Data) /\ Len(w) = Len(s) + 1 /\ w[1] = d
        /\ \A i \in 2..Len(w) : w[i] = Values(s)[i - 1]
    BY <1>6, <2>2
  <2>5. \A i \in 1..Len(t) : v[i] = w[i]
    <3> SUFFICES ASSUME NEW i \in 1..Len(t)
                 PROVE  v[i] = w[i]
      OBVIOUS
    <3>1. CASE i = 1
      BY <2>1, <2>4, <3>1 DEF d
    <3>2. CASE i # 1
      <4>1. i \in 2..Len(w) /\ i \in 2..Len(t) /\ i - 1 \in 1..Len(s)
        BY <2>1, <2>4, <3>2
      <4> QED
        BY <2>1, <2>2, <2>4, <4>1
    <3> QED
      BY <3>1, <3>2
  <2>6. v \in Seq(Data) /\ Len(v) = Len(w)
    <3>1. \A i \in 1..Len(t) : v[i] \in Data
      BY <2>4, <2>5, <2>1
    <3> QED
      BY <2>1, <2>4, <3>1
  <2>7. v = w
    <3>1. Len(v) = Len(t)
      BY <2>1, <2>4, <2>6
    <3> HIDE DEF v, w
    <3> QED
      BY ONLY <2>4, <2>5, <2>6, <3>1, SameSequence
  <2> QED
    BY <2>7
<1>8. UNCHANGED Popped
  BY <1>0 DEF Popped
<1> QED
  BY <1>3, <1>4, <1>5, <1>6, <1>7, <1>8, StackSteps

(* Unlink is its pop.                                                      *)
LEMMA UnlinkIsPop ==
  ASSUME HInv, NEW s \in Seq(Nodes), IsList(s), Owned(s), Unlink
  PROVE  Stack!Pop
<1>0. IInv /\ value \in [Node -> Data] /\ UNCHANGED <<value, tmp>> /\ cpc' = "free"
  BY DEF HInv, IInv, TypeOK, HeapTypes, Unlink
<1> DEFINE t == Tail(s)
<1>1. s # <<>> /\ tmp = s[1] /\ IsList(t)'
  BY <1>0, UnlinkKeepsList
<1>2. /\ t \in Seq(Nodes) /\ Len(t) = Len(s) - 1 /\ Len(s) \in Nat \ {0}
      /\ \A i \in 1..Len(t) : t[i] = s[i + 1]
  BY <1>1, FirstGone
<1>3. StackNow = Values(s)
  BY StackIs
<1>4. StackNow' = Values(t)'
  BY <1>1, <1>2, StackIsNext
<1>5. \A i \in 1..Len(s) : value[s[i]] \in Data
  BY <1>0 DEF Node
<1>6. Values(s) \in Seq(Data) /\ Len(Values(s)) = Len(s)
      /\ \A i \in 1..Len(s) : Values(s)[i] = value[s[i]]
  BY <1>2, <1>5 DEF Values
<1>7. Values(t) = Tail(Values(s))
  <2> HIDE DEF t
  <2>1. \A i \in 1..Len(t) : Values(t)[i] = value[s[i + 1]] /\ value[s[i + 1]] \in Data
    BY <1>2, <1>5 DEF Values
  <2>2. Values(t) \in Seq(Data) /\ Len(Values(t)) = Len(t)
    BY <1>2, <2>1 DEF Values
  <2>3. Tail(Values(s)) \in Seq(Data) /\ Len(Tail(Values(s))) = Len(t)
        /\ \A i \in 1..Len(t) : Tail(Values(s))[i] = Values(s)[i + 1]
    BY <1>2, <1>6
  <2>4. \A i \in 1..Len(t) : Values(t)[i] = Tail(Values(s))[i]
    BY <1>2, <1>6, <2>1, <2>3
  <2> QED
    BY ONLY <2>2, <2>3, <2>4, SameSequence
<1>8. Values(t)' = Values(t)
  BY <1>0 DEF Values
<1>9. StackNow # <<>> /\ Popped' = Head(StackNow)
  <2>1. Popped' = value[s[1]] /\ 1 \in 1..Len(s)
    BY <1>0, <1>1, <1>2 DEF Popped
  <2> QED
    BY <1>2, <1>3, <1>6, <2>1
<1> QED
  BY <1>3, <1>4, <1>7, <1>8, <1>9, StackSteps

(* No other step changes the value popped last.                            *)
LEMMA PoppedKept ==
  ASSUME IInv, [Next]_vars, ~Unlink
  PROVE  UNCHANGED Popped
<1> USE DEF IInv, Exclusive, Popped
<1>1. CASE Product
  BY <1>1 DEF Product, Pushes, LockP, AllocNode, AllocFails, Link, Push,
              UnlockP, Signal, heap, consumer
<1>2. CASE Consumer
  BY <1>2 DEF Consumer, ConsumerLocks, ConsumerWorks, WakeUp, LockC, Test,
              Wait, Relock, Pop, FreeNode, UnlockC, heap, producer
<1>3. CASE UNCHANGED vars
  BY <1>3 DEF vars
<1> QED
  BY <1>1, <1>2, <1>3 DEF Next, Exited

(* Who exits takes the other along.                                        *)
Gone == ppc = "exited" => cpc = "exited"

(* exit() ends both threads.                                               *)
LEMMA BothGone == Spec => []Gone
<1>1. Init => Gone
  BY DEF Init, Gone
<1>2. Gone /\ [Next]_vars => Gone'
  BY DEF Gone, Next, Product, Pushes, LockP, AllocNode, AllocFails, Link, Push, UnlockP, Signal,
         Consumer, ConsumerLocks, ConsumerWorks, WakeUp, LockC, Test, Wait, Relock, Pop, Unlink,
         FreeNode, UnlockC, Exited, vars, producer, heap, consumer
<1> QED
  BY <1>1, <1>2, PTL DEF Spec

(* The exit leaves the list as it is, and so does all that follows.        *)
LEMMA ExitMovesNothing ==
  ASSUME Gone, [Next]_vars, ppc' = "exited" \/ ppc = "exited"
  PROVE  UNCHANGED <<next, value>> /\ ~Unlink
<1>1. CASE ppc = "exited"
  <2>1. cpc = "exited"
    BY <1>1 DEF Gone
  <2> QED
    BY <1>1, <2>1 DEF Next, Product, Pushes, LockP, AllocNode, AllocFails, Link, Push, UnlockP, Signal,
         Consumer, ConsumerLocks, ConsumerWorks, WakeUp, LockC, Test, Wait, Relock, Pop, Unlink,
         FreeNode, UnlockC, Exited, vars
<1>2. CASE ppc # "exited" /\ ppc' = "exited"
  <2>1. AllocFails
    BY <1>2 DEF Next, Product, Pushes, LockP, AllocNode, Link, Push, UnlockP, Signal,
         Consumer, ConsumerLocks, ConsumerWorks, WakeUp, LockC, Test, Wait, Relock, Pop, Unlink,
         FreeNode, UnlockC, Exited, vars, producer
  <2> QED
    BY <2>1 DEF AllocFails, Unlink, heap
<1> QED
  BY <1>1, <1>2

(* Every step is one of the stack or a stutter.                            *)
LEMMA NextIsStack ==
  ASSUME HInv, HInv', Gone, [Next]_vars
  PROVE  [Stack!Next]_Stack!vars
<1>0. IInv
  BY DEF HInv
<1>1. CASE UNCHANGED <<next, value>> /\ ~Unlink
  <2>1. UNCHANGED StackNow
    BY <1>1 DEF StackNow, Chain, IsChain, Before
  <2> QED
    BY <1>0, <1>1, <2>1, PoppedKept, StackSteps
<1>2. ASSUME ppc' # "exited", ppc # "exited"
      PROVE  [Stack!Next]_Stack!vars
  <2>1. PICK s \in Seq(Nodes) : IsList(s) /\ Owned(s)
    BY <1>2 DEF HInv, HeapKept
  <2>2. CASE Push
    BY <2>1, <2>2, PushIsPush DEF Stack!Next
  <2>3. CASE Unlink
    BY <2>1, <2>3, UnlinkIsPop DEF Stack!Next
  <2>4. CASE ~Relinks
    <3>1. IsList(s)' /\ \A n \in NodesOf(s) : value'[n] = value[n]
      BY <1>0, <1>2, <2>1, <2>4, OtherKeepsList
    <3>2. Values(s)' = Values(s)
      BY <3>1 DEF Values, NodesOf
    <3>3. UNCHANGED StackNow
      BY <2>1, <3>1, <3>2, StackIs, StackIsNext
    <3>4. UNCHANGED Popped
      BY <1>0, <2>4, PoppedKept DEF Relinks
    <3> QED
      BY <3>3, <3>4, StackSteps
  <2> QED
    BY <2>2, <2>3, <2>4 DEF Relinks
<1>3. ASSUME ppc' = "exited" \/ ppc = "exited", ~(UNCHANGED <<next, value>> /\ ~Unlink)
      PROVE  FALSE
  BY <1>3, ExitMovesNothing
<1> QED
  BY <1>1, <1>2, <1>3

(* The stack starts empty.                                                 *)
LEMMA InitIsStack == Init => Stack!Init
<1> SUFFICES ASSUME Init
             PROVE  Stack!Init
  OBVIOUS
<1>1. Len(<<>>) = 0 /\ 1..0 = {} /\ head \in Node /\ <<>> \in Seq(Nodes)
  BY DEF Node
<1>2. IsList(<<>>)
  BY <1>1 DEF Init, IsList, Before
<1>3. StackNow = Values(<<>>)
  BY <1>1, <1>2, StackIs
<1>4. Values(<<>>) = <<>>
  BY <1>1 DEF Values
<1>5. Popped = 0
  BY DEF Init, Popped
<1> QED
  BY <1>3, <1>4, <1>5 DEF Stack!Init, StackNow, Popped

(* The list implements the stack of LifoList: for a heap of any size, what *)
(* PushFront() put in last PopFront() takes out first, and each value      *)
(* once.                                                                   *)
THEOREM ListIsStack == Spec => ImplementsLifo
<1> QED
  BY InitIsStack, NextIsStack, HeapInvariance, BothGone, PTL DEF Spec, ImplementsLifo, Stack!Spec
=============================================================================
