-------------------------------- MODULE Mycp --------------------------------
(***************************************************************************)
(* mycp.c: a producer and a consumer thread share a ring of N slots, with  *)
(* two counting semaphores and no lock.  Every access to shared memory is  *)
(* a step of its own; a thread's step variable is its own, and moves on    *)
(* with the access it belongs to.                                          *)
(***************************************************************************)
EXTENDS Integers, Sequences

CONSTANTS
  N,        \* the slots of buf (64 in the code)
  Limit     \* a produced value is rand() % Limit (1234 in the code)

ASSUME MycpAssumption == N \in Nat \ {0} /\ Limit \in Nat \ {0}

Data == 0 .. Limit - 1
Slots == 0 .. N - 1

VARIABLES
  buf, blacksem, datasem,   \* shared
  ppc, pstep,               \* product(): "wait", "store" or "post"; its step
  cpc, cstep, data          \* consume(): "wait", "take" or "post"; its step, data

vars == <<buf, blacksem, datasem, ppc, pstep, cpc, cstep, data>>
producer == <<ppc, pstep>>
consumer == <<cpc, cstep, data>>

(* Slips: the ring is taken for one slot more, or one less.                *)
AdvanceOver(step) == IF step = N THEN 0 ELSE step + 1
AdvanceEarly(step) == IF step + 1 >= N - 1 THEN 0 ELSE step + 1

(* step++; step %= 64;                                                     *)
Advance(step) == IF step + 1 = N THEN 0 ELSE step + 1

-----------------------------------------------------------------------------
(* Slip: the producer does not wait for a free slot.                       *)
WaitBlackNot ==
  /\ ppc = "wait"
  /\ blacksem' = IF blacksem > 0 THEN blacksem - 1 ELSE 0
  /\ ppc' = "store"
  /\ UNCHANGED <<buf, datasem, pstep, consumer>>

WaitBlack ==
  /\ ppc = "wait" /\ blacksem > 0
  /\ blacksem' = blacksem - 1
  /\ ppc' = "store"
  /\ UNCHANGED <<buf, datasem, pstep, consumer>>

Store ==
  /\ ppc = "store"
  /\ \E d \in Data : buf' = [buf EXCEPT ![pstep] = d]
  /\ pstep' = Advance(pstep)
  /\ ppc' = "post"
  /\ UNCHANGED <<blacksem, datasem, consumer>>

(* Slip: the wrong semaphore.                                              *)
PostDataSwapped ==
  /\ ppc = "post"
  /\ blacksem' = blacksem + 1
  /\ ppc' = "wait"
  /\ UNCHANGED <<buf, datasem, pstep, consumer>>

(* sem_post(), and the sleep after it.                                     *)
PostData ==
  /\ ppc = "post"
  /\ datasem' = datasem + 1
  /\ ppc' = "wait"
  /\ UNCHANGED <<buf, blacksem, pstep, consumer>>

-----------------------------------------------------------------------------
WaitData ==
  /\ cpc = "wait" /\ datasem > 0
  /\ datasem' = datasem - 1
  /\ cpc' = "take"
  /\ UNCHANGED <<buf, blacksem, cstep, data, producer>>

Take ==
  /\ cpc = "take"
  /\ data' = buf[cstep]
  /\ cstep' = Advance(cstep)
  /\ cpc' = "post"
  /\ UNCHANGED <<buf, blacksem, datasem, producer>>

PostBlack ==
  /\ cpc = "post"
  /\ blacksem' = blacksem + 1
  /\ cpc' = "wait"
  /\ UNCHANGED <<buf, datasem, cstep, data, producer>>

-----------------------------------------------------------------------------
(* buf is a global array, all zero; sem_init() in main().                  *)
Init ==
  /\ buf = [s \in Slots |-> 0]
  /\ blacksem = N /\ datasem = 0
  /\ ppc = "wait" /\ pstep = 0
  /\ cpc = "wait" /\ cstep = 0 /\ data = 0

Product == WaitBlack \/ Store \/ PostData
Consume == WaitData \/ Take \/ PostBlack

Next == Product \/ Consume

Spec == Init /\ [][Next]_vars

(* Both threads are scheduled; sleep() returns.                            *)
FairSpec == Spec /\ WF_vars(Product) /\ WF_vars(Consume)

-----------------------------------------------------------------------------
TypeOK ==
  /\ buf \in [Slots -> Data]
  /\ blacksem \in 0..N /\ datasem \in 0..N
  /\ ppc \in {"wait", "store", "post"} /\ pstep \in Slots
  /\ cpc \in {"wait", "take", "post"} /\ cstep \in Slots
  /\ data \in Data

(* The two threads are never about to touch one slot at the same time, nor *)
(* is a slot that waits to be taken about to be stored to: the semaphores  *)
(* alone stand for a lock around buf (mycp.c:22-23, 37-39).                *)
Filled == datasem + (IF cpc = "take" THEN 1 ELSE 0) + (IF ppc = "post" THEN 1 ELSE 0)

Ahead(k) == IF cstep + k >= N THEN cstep + k - N ELSE cstep + k

SlotsExclusive ==
  ppc = "store" => \A k \in 0 .. Filled - 1 : pstep # Ahead(k)

(* The values stored and not yet taken, oldest first, are a bounded queue. *)
queue == [k \in 1..Filled |-> buf[Ahead(k - 1)]]

Fifo == INSTANCE BoundedFifo WITH queue <- queue, printed <- data

(* Each value produced is consumed once, in order, and no more than N wait *)
(* for it, although no step of the program looks at more than one slot     *)
(* (mycp.c:17-46).                                                         *)
ImplementsFifo == Fifo!Spec

(* Neither thread waits for ever for the other: the producer always gets   *)
(* to store again, and what it stores is taken (mycp.c:22, 36).            *)
BothGoOn ==
  /\ []<>(ppc = "store")
  /\ []<>(cpc = "take")
=============================================================================
