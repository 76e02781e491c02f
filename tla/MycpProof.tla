------------------------------ MODULE MycpProof ------------------------------
(***************************************************************************)
(* For a ring of any size: the two semaphores keep the threads of mycp.c   *)
(* out of each other's slots, and together they are a bounded queue.       *)
(***************************************************************************)
EXTENDS Mycp, SequenceTheorems, TLAPS

Busy(pc) == IF pc = "wait" THEN 0 ELSE 1

(* A slot is free, filled, or in the hands of a thread past its sem_wait().*)
Balance == blacksem + datasem + Busy(ppc) + Busy(cpc) = N

(* The producer's place is just past the filled slots.                     *)
Position == pstep = Ahead(Filled)

IInv == TypeOK /\ Balance /\ Position

(* The next index is one of the ring.                                      *)
LEMMA AdvanceInRange == \A s \in Slots : Advance(s) \in Slots
  BY MycpAssumption DEF Slots, Advance

(* No more slots are filled than there are.                                *)
LEMMA FilledRange == TypeOK /\ Balance => Filled \in 0..N
  BY MycpAssumption DEF TypeOK, Balance, Busy, Filled

(* The ring starts empty, with both threads at its first slot.             *)
LEMMA Start == Init => IInv
<1> SUFFICES ASSUME Init PROVE IInv  OBVIOUS
<1>1. TypeOK  BY MycpAssumption DEF Init, TypeOK, Slots, Data
<1>2. Balance /\ Position
  BY MycpAssumption DEF Init, Balance, Busy, Position, Ahead, Filled
<1> QED  BY <1>1, <1>2 DEF IInv

(* Every step keeps the indices in the ring and the semaphores from going  *)
(* below 0.                                                                *)
LEMMA StepKeepsTypes == IInv /\ [Next]_vars => TypeOK'
<1> SUFFICES ASSUME TypeOK, Balance, [Next]_vars PROVE TypeOK'  BY DEF IInv
<1>0. N \in Nat  BY MycpAssumption
<1> USE DEF TypeOK
<1>1. CASE WaitBlack
  BY <1>0, <1>1 DEF WaitBlack, consumer
<1>2. CASE Store
  <2>1. buf' \in [Slots -> Data]  BY <1>2 DEF Store
  <2> QED  BY <1>2, <2>1, AdvanceInRange DEF Store, consumer
<1>3. CASE PostData
  BY <1>0, <1>3 DEF PostData, consumer, Balance, Busy
<1>4. CASE WaitData
  BY <1>0, <1>4 DEF WaitData, producer
<1>5. CASE Take
  BY <1>5, AdvanceInRange DEF Take, producer
<1>6. CASE PostBlack
  BY <1>0, <1>6 DEF PostBlack, producer, Balance, Busy
<1>7. CASE UNCHANGED vars
  BY <1>7 DEF vars
<1> QED
  BY <1>1, <1>2, <1>3, <1>4, <1>5, <1>6, <1>7 DEF Next, Product, Consume

(* Every step keeps the slots accounted for and the producer as far ahead  *)
(* of the consumer as slots are filled.                                    *)
LEMMA StepKeepsBalance == IInv /\ [Next]_vars => Balance' /\ Position'
<1> SUFFICES ASSUME TypeOK, Balance, Position, [Next]_vars
             PROVE  Balance' /\ Position'
  BY DEF IInv
<1>0. N \in Nat \ {0} /\ blacksem \in Int /\ datasem \in Int
      /\ cstep \in 0..N-1 /\ pstep \in 0..N-1
  BY MycpAssumption DEF TypeOK, Slots
<1>00. Filled \in 0..N  BY FilledRange
<1> USE DEF Balance, Busy, Position, Filled, Ahead
<1>1. CASE WaitBlack
  BY <1>0, <1>1 DEF WaitBlack, consumer
<1>2. CASE Store
  <2>1. Filled' = Filled + 1  BY <1>0, <1>2 DEF Store, consumer
  <2>2. Balance'  BY <1>0, <1>2 DEF Store, consumer
  <2>3. Filled < N  BY <1>0, <1>2 DEF Store, TypeOK
  <2>4. pstep' = Advance(pstep) /\ cstep' = cstep  BY <1>2 DEF Store, consumer
  <2>5. Position'  BY <1>0, <1>00, <2>1, <2>3, <2>4 DEF Advance
  <2> QED  BY <2>2, <2>5
<1>3. CASE PostData
  BY <1>0, <1>3 DEF PostData, consumer
<1>4. CASE WaitData
  BY <1>0, <1>4 DEF WaitData, producer
<1>5. CASE Take
  <2>1. Filled' = Filled - 1  BY <1>0, <1>5 DEF Take, producer
  <2>2. Balance'  BY <1>0, <1>5 DEF Take, producer
  <2>3. cstep' = Advance(cstep) /\ pstep' = pstep  BY <1>5 DEF Take, producer
  <2>4. Filled > 0  BY <1>0, <1>5 DEF Take, TypeOK
  <2>5. Position'  BY <1>0, <1>00, <2>1, <2>3, <2>4 DEF Advance
  <2> QED  BY <2>2, <2>5
<1>6. CASE PostBlack
  BY <1>0, <1>6 DEF PostBlack, producer
<1>7. CASE UNCHANGED vars
  BY <1>7 DEF vars
<1> QED
  BY <1>1, <1>2, <1>3, <1>4, <1>5, <1>6, <1>7 DEF Next, Product, Consume

(* IInv holds in every reachable state.                                    *)
LEMMA Invariance == Spec => []IInv
<1>1. IInv /\ [Next]_vars => IInv'
  BY StepKeepsTypes, StepKeepsBalance DEF IInv
<1> QED  BY Start, <1>1, PTL DEF Spec

-----------------------------------------------------------------------------
(* The two steps stay within the ring and the semaphores never go below 0, *)
(* for every size of the ring (mycp.c:17-59).                              *)
THEOREM RingTypes == Spec => []TypeOK
<1>1. IInv => TypeOK  BY DEF IInv
<1> QED  BY Invariance, <1>1, PTL

(* The slot about to be stored to holds no value that waits to be taken,   *)
(* whatever the size of the ring (mycp.c:22-23, 37-39).                    *)
THEOREM SlotsStayExclusive == Spec => []SlotsExclusive
<1>1. IInv => SlotsExclusive
  <2> SUFFICES ASSUME TypeOK, Balance, Position, ppc = "store",
                      NEW k \in 0 .. Filled - 1
               PROVE  pstep # Ahead(k)
    BY DEF IInv, SlotsExclusive
  <2>1. N \in Nat \ {0} /\ cstep \in 0..N-1
    BY MycpAssumption DEF TypeOK, Slots
  <2>2. Filled \in 0..N-1
    BY <2>1 DEF TypeOK, Balance, Busy, Filled
  <2> QED  BY <2>1, <2>2 DEF Position, Ahead
<1> QED  BY Invariance, <1>1, PTL

-----------------------------------------------------------------------------
(* The queue is well-formed, and each place of it is a slot of the ring.   *)
LEMMA AheadInRange ==
  ASSUME TypeOK, NEW k \in 0 .. N - 1
  PROVE  Ahead(k) \in Slots
  BY MycpAssumption DEF TypeOK, Slots, Ahead

QueueMeaning ==
  /\ queue \in Seq(Data) /\ Len(queue) = Filled
  /\ \A i \in 1..Filled : queue[i] = buf[Ahead(i - 1)]

(* The filled slots, read from the consumer on, are a sequence of values.  *)
LEMMA QueueType == TypeOK /\ Balance => QueueMeaning
<1> SUFFICES ASSUME TypeOK, Balance PROVE QueueMeaning  OBVIOUS
<1>0. Filled \in 0..N /\ N \in Nat  BY FilledRange, MycpAssumption
<1>1. \A i \in 1..Filled : buf[Ahead(i - 1)] \in Data
  <2> SUFFICES ASSUME NEW i \in 1..Filled PROVE buf[Ahead(i - 1)] \in Data
    OBVIOUS
  <2>1. i - 1 \in 0..N-1  BY <1>0
  <2> QED  BY <2>1, AheadInRange DEF TypeOK
<1> QED  BY <1>0, <1>1 DEF queue, QueueMeaning

(* A step that leaves Filled, buf and cstep alone does not change what the *)
(* queue is.                                                               *)
LEMMA QueueKept ==
  Filled' = Filled /\ UNCHANGED <<buf, cstep>> => queue' = queue
<1> SUFFICES ASSUME Filled' = Filled, UNCHANGED <<buf, cstep>>
             PROVE  queue' = queue
  OBVIOUS
<1>1. \A k : Ahead(k)' = Ahead(k)  BY DEF Ahead
<1> QED  BY <1>1 DEF queue

(* A store puts its value at the end of the queue.                         *)
LEMMA StoreIsPut == IInv /\ IInv' /\ Store => Fifo!Put
<1> SUFFICES ASSUME TypeOK, Balance, Position, TypeOK', Balance', Store
             PROVE  Fifo!Put
  BY DEF IInv
<1>0. N \in Nat \ {0} /\ cstep \in 0..N-1 /\ cstep' = cstep /\ data' = data
  BY MycpAssumption DEF TypeOK, Slots, Store, consumer
<1>1. Filled \in 0..N-1 /\ Filled' = Filled + 1
  BY <1>0 DEF Filled, Balance, Busy, TypeOK, Store, consumer
<1>2. PICK d \in Data : buf' = [buf EXCEPT ![pstep] = d]  BY DEF Store
<1>3. queue \in Seq(Data) /\ Len(queue) = Filled
      /\ \A i \in 1..Filled : queue[i] = buf[Ahead(i - 1)]
  BY QueueType DEF QueueMeaning
<1>4. queue' \in Seq(Data) /\ Len(queue') = Filled'
      /\ \A i \in 1..Filled' : queue'[i] = buf'[Ahead(i - 1)']
  <2>1. QueueMeaning'  BY QueueType, PTL
  <2> QED  BY <2>1 DEF QueueMeaning
<1>5. \A k : Ahead(k)' = Ahead(k)  BY <1>0 DEF Ahead
<1>6. \A i \in 1..Filled : queue'[i] = queue[i]
  <2> SUFFICES ASSUME NEW i \in 1..Filled PROVE queue'[i] = queue[i]
    OBVIOUS
  <2>1. i - 1 \in 0..N-1 /\ i \in 1..Filled'  BY <1>0, <1>1
  <2>2. Ahead(i - 1) \in Slots  BY <2>1, AheadInRange
  <2>3. Ahead(i - 1) # pstep  BY <1>0, <1>1 DEF Position, Ahead
  <2>4. buf'[Ahead(i - 1)] = buf[Ahead(i - 1)]
    BY <1>2, <2>2, <2>3 DEF TypeOK
  <2> QED  BY <1>3, <1>4, <1>5, <2>1, <2>4
<1>7. queue'[Filled + 1] = d
  <2>1. Filled + 1 \in 1..Filled' /\ (Filled + 1) - 1 = Filled  BY <1>1
  <2>2. queue'[Filled + 1] = buf'[Ahead(Filled)]  BY <1>4, <1>5, <2>1
  <2>3. pstep \in Slots /\ buf \in [Slots -> Data]  BY DEF TypeOK
  <2> QED  BY <1>2, <2>2, <2>3 DEF Position
<1>8. queue' = Append(queue, d)
  <2>1. /\ Append(queue, d) \in Seq(Data)
        /\ Len(Append(queue, d)) = Filled + 1
        /\ \A i \in 1..Filled : Append(queue, d)[i] = queue[i]
        /\ Append(queue, d)[Filled + 1] = d
    BY <1>2, <1>3, AppendProperties
  <2>2. \A i \in 1 .. Filled + 1 : queue'[i] = Append(queue, d)[i]
    BY <1>1, <1>6, <1>7, <2>1
  <2> QED  BY <1>1, <1>4, <2>1, <2>2, SeqEqual
<1> QED  BY <1>0, <1>1, <1>2, <1>3, <1>8 DEF Fifo!Put

(* A take gets the value at its head.                                      *)
LEMMA TakeIsGet == IInv /\ IInv' /\ Take => Fifo!Get
<1> SUFFICES ASSUME TypeOK, Balance, TypeOK', Balance', Take
             PROVE  Fifo!Get
  BY DEF IInv
<1>0. N \in Nat \ {0} /\ cstep \in 0..N-1 /\ buf' = buf
      /\ cstep' = Advance(cstep) /\ data' = buf[cstep]
  BY MycpAssumption DEF TypeOK, Slots, Take, producer
<1>1. Filled \in 1..N /\ Filled' = Filled - 1
  BY <1>0 DEF Filled, Balance, Busy, TypeOK, Take, producer
<1>2. queue \in Seq(Data) /\ Len(queue) = Filled
      /\ \A i \in 1..Filled : queue[i] = buf[Ahead(i - 1)]
  BY QueueType DEF QueueMeaning
<1>3. queue' \in Seq(Data) /\ Len(queue') = Filled'
      /\ \A i \in 1..Filled' : queue'[i] = buf'[Ahead(i - 1)']
  <2>1. QueueMeaning'  BY QueueType, PTL
  <2> QED  BY <2>1 DEF QueueMeaning
<1>4. queue # <<>>  BY <1>1, <1>2
<1>5. data' = Head(queue)
  <2>1. Ahead(0) = cstep  BY <1>0 DEF Ahead
  <2>2. queue[1] = buf[cstep]  BY <1>1, <1>2, <2>1
  <2> QED  BY <1>0, <1>2, <1>4, <2>2
<1>6. \A i \in 1..Filled' : queue'[i] = queue[i + 1]
  <2> SUFFICES ASSUME NEW i \in 1..Filled' PROVE queue'[i] = queue[i + 1]
    OBVIOUS
  <2>1. i + 1 \in 1..Filled /\ i \in 1..N /\ (i + 1) - 1 = i  BY <1>0, <1>1
  <2>2. Ahead(i - 1)' = Ahead(i)  BY <1>0, <1>1, <2>1 DEF Ahead, Advance
  <2> QED  BY <1>0, <1>2, <1>3, <2>1, <2>2
<1>7. queue' = Tail(queue)
  <2>1. /\ Tail(queue) \in Seq(Data) /\ Len(Tail(queue)) = Filled - 1
        /\ \A i \in 1 .. Filled - 1 : Tail(queue)[i] = queue[i + 1]
    BY <1>2, <1>4
  <2> QED  BY <1>1, <1>3, <1>6, <2>1, SeqEqual
<1> QED  BY <1>4, <1>5, <1>7 DEF Fifo!Get

(* Every value produced is consumed once, in order, and no more than N     *)
(* wait for it, for every N (mycp.c:17-46).                                *)
THEOREM RingIsFifo == Spec => ImplementsFifo
<1>1. Init => Fifo!Init
  <2> SUFFICES ASSUME Init PROVE Fifo!Init  OBVIOUS
  <2>1. Filled = 0  BY DEF Init, Filled
  <2>2. queue = <<>>  BY <2>1 DEF queue
  <2> QED  BY <2>2 DEF Init, Fifo!Init
<1>2. IInv /\ IInv' /\ [Next]_vars => [Fifo!Next]_<<queue, data>>
  <2> SUFFICES ASSUME IInv, IInv', [Next]_vars
               PROVE  [Fifo!Next]_<<queue, data>>
    OBVIOUS
  <2>0. datasem \in Int  BY DEF IInv, TypeOK
  <2>1. CASE WaitBlack \/ PostData
    <3>1. Filled' = Filled /\ UNCHANGED <<buf, cstep, data>>
      BY <2>0, <2>1 DEF WaitBlack, PostData, consumer, Filled
    <3> QED  BY <3>1, QueueKept
  <2>2. CASE WaitData \/ PostBlack
    <3>1. Filled' = Filled /\ UNCHANGED <<buf, cstep, data>>
      BY <2>0, <2>2 DEF WaitData, PostBlack, producer, Filled
    <3> QED  BY <3>1, QueueKept
  <2>3. CASE Store
    BY <2>3, StoreIsPut DEF Fifo!Next
  <2>4. CASE Take
    BY <2>4, TakeIsGet DEF Fifo!Next
  <2>5. CASE UNCHANGED vars
    <3>1. Filled' = Filled /\ UNCHANGED <<buf, cstep, data>>
      BY <2>5 DEF vars, Filled
    <3> QED  BY <3>1, QueueKept
  <2> QED
    BY <2>1, <2>2, <2>3, <2>4, <2>5 DEF Next, Product, Consume
<1> QED
  BY Invariance, <1>1, <1>2, PTL DEF Spec, ImplementsFifo, Fifo!Spec
=============================================================================
