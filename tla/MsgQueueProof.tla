--------------------------- MODULE MsgQueueProof ----------------------------
(***************************************************************************)
(* Proofs about MsgQueue, for every number of servers and clients and      *)
(* every size of the queue.                                                *)
(***************************************************************************)
EXTENDS MsgQueue, TLAPS

(* Nothing but SERVER_TYPE is ever sent.                                   *)
OnlyServerType == msgs \in Seq({SERVER_TYPE})

QueueTypes ==
  /\ queue \in Nat /\ made \in Nat /\ queue <= made
  /\ at \in [Procs -> {"start", "type", "send", "receive", "destroy", "end"}]
  /\ msgid \in [Procs -> {Failed} \cup (1 .. made)]

(* Whoever gets to destoryMsg() holds no queue that is there.              *)
DestroysNothing == \A p \in Procs : at[p] = "destroy" => ~Usable(p)

QueueInv == QueueTypes /\ OnlyServerType /\ DestroysNothing

-----------------------------------------------------------------------------
(* A queue of messages of type 1 has none for recvMsg() to give out, since *)
(* both programs wait for type 2.                                          *)
LEMMA NothingToReceive == OnlyServerType => ~Contains(msgs, CLIENT_TYPE)
BY DEF OnlyServerType, Contains, SERVER_TYPE, CLIENT_TYPE

(* There is no queue at first, and so nothing in it.                       *)
LEMMA QueueInvInit == Init => QueueInv
BY DEF Init, QueueInv, QueueTypes, OnlyServerType, DestroysNothing, NoQueue

(* A queue that is made has a number no process holds yet, and one that    *)
(* is removed makes no number usable.                                      *)
LEMMA QueueInvNext == QueueInv /\ [Next]_vars => QueueInv'
<1> SUFFICES ASSUME QueueInv, [Next]_vars
             PROVE  QueueInv'
  OBVIOUS
<1> USE DEF QueueInv, QueueTypes, NoQueue, Failed
<1>1. ASSUME NEW p \in Procs, CreatMsg(p)
      PROVE  QueueInv'
  <2>1. CASE msgid' = [msgid EXCEPT ![p] = Failed] /\ UNCHANGED <<queue, made>>
    <3>1. QueueTypes'
      BY <1>1, <2>1 DEF CreatMsg, Go
    <3>2. OnlyServerType' /\ DestroysNothing'
      BY <1>1, <2>1 DEF CreatMsg, Go, OnlyServerType, DestroysNothing, Usable
    <3> QED  BY <3>1, <3>2
  <2>2. CASE /\ queue = NoQueue /\ made < MaxIds
             /\ made' = made + 1 /\ queue' = made + 1
             /\ msgid' = [msgid EXCEPT ![p] = made + 1]
    <3>1. QueueTypes'
      BY <1>1, <2>2 DEF CreatMsg, Go
    <3>2. OnlyServerType' /\ DestroysNothing'
      BY <1>1, <2>2 DEF CreatMsg, Go, OnlyServerType, DestroysNothing, Usable
    <3> QED  BY <3>1, <3>2
  <2> QED  BY <1>1, <2>1, <2>2 DEF CreatMsg
<1>2. ASSUME NEW p \in Procs, GetMsgQueue(p)
      PROVE  QueueInv'
  <2>1. QueueTypes'
    BY <1>2 DEF GetMsgQueue, Go
  <2>2. OnlyServerType' /\ DestroysNothing'
    BY <1>2 DEF GetMsgQueue, Go, OnlyServerType, DestroysNothing, Usable
  <2> QED  BY <2>1, <2>2
<1>3. ASSUME NEW p \in Procs, Enter(p) \/ Kill(p)
      PROVE  QueueInv'
  BY <1>3 DEF Enter, Kill, Go, OnlyServerType, DestroysNothing, Usable
<1>4. ASSUME NEW p \in Procs, SendMsg(p)
      PROVE  QueueInv'
  <2>1. QueueTypes' /\ DestroysNothing'
    BY <1>4 DEF SendMsg, Go, DestroysNothing, Usable
  <2>2. OnlyServerType'
    BY <1>4 DEF SendMsg, OnlyServerType
  <2> QED  BY <2>1, <2>2
<1>5. ASSUME NEW p \in Procs, RecvMsg(p)
      PROVE  QueueInv'
  <2>1. ~Usable(p) /\ UNCHANGED msgs /\ Broken(p)
    BY <1>5, NothingToReceive DEF RecvMsg
  <2> QED
    BY <1>5, <2>1 DEF RecvMsg, Broken, Go, OnlyServerType, DestroysNothing, Usable
<1>6. ASSUME NEW p \in Procs, DestoryMsg(p)
      PROVE  QueueInv'
  <2>1. UNCHANGED <<queue, msgs>>
    BY <1>6 DEF DestoryMsg, DestroysNothing
  <2> QED
    BY <1>6, <2>1 DEF DestoryMsg, Go, OnlyServerType, DestroysNothing, Usable
<1>7. CASE Ipcrm
  BY <1>7 DEF Ipcrm, OnlyServerType, DestroysNothing, Usable
<1>8. CASE UNCHANGED vars
  BY <1>8 DEF vars, OnlyServerType, DestroysNothing, Usable
<1> QED
  BY <1>1, <1>2, <1>3, <1>4, <1>5, <1>6, <1>7, <1>8 DEF Next, Step

(* QueueInv holds in every reachable state.                                *)
LEMMA QueueInvariant == Spec => []QueueInv
BY QueueInvInit, QueueInvNext, PTL DEF Spec

-----------------------------------------------------------------------------
(* Whoever waits over a queue that stays is never given a message: the     *)
(* programs send only what neither of them waits for.                      *)
THEOREM NeverAnswered == Spec => NobodyIsAnswered
<1>1. ASSUME QueueInv, [Next]_vars, NEW p \in Procs,
             at[p] = "receive", Usable(p)
      PROVE  at'[p] \in {"receive", "end"}
  <2> USE <1>1 DEF QueueInv, QueueTypes
  <2>1. ~RecvMsg(p)
    BY NothingToReceive DEF RecvMsg
  <2>2. CASE Ipcrm \/ UNCHANGED vars
    BY <2>2 DEF Ipcrm, vars
  <2>3. ASSUME NEW q \in Procs,
               \/ CreatMsg(q) \/ GetMsgQueue(q) \/ Enter(q)
               \/ SendMsg(q) \/ RecvMsg(q) \/ DestoryMsg(q)
        PROVE  at'[p] = at[p]
    BY <2>1, <2>3 DEF CreatMsg, GetMsgQueue, Enter, SendMsg, RecvMsg, Received,
                      Broken, DestoryMsg, Go
  <2>4. ASSUME NEW q \in Procs, Kill(q)
        PROVE  at'[p] \in {at[p], "end"}
    BY <2>4 DEF Kill, Go
  <2> QED  BY <2>2, <2>3, <2>4 DEF Next, Step
<1>2. QueueInv /\ [Next]_vars =>
        \A p \in Procs :
          at[p] = "receive" /\ Usable(p) => at'[p] \in {"receive", "end"}
  BY <1>1
<1> QED  BY <1>2, QueueInvariant, PTL DEF Spec, NobodyIsAnswered

(* A queue is removed by a user, never by the programs: destoryMsg() finds *)
(* none.                                                                   *)
THEOREM OnlyUsersRemove == Spec => QueueOutlives
<1>1. ASSUME QueueInv, [Next]_vars, queue # NoQueue, queue' # queue
      PROVE  UNCHANGED <<at, msgid>>
  <2> USE <1>1 DEF QueueInv, QueueTypes
  <2>1. CASE Ipcrm
    BY <2>1 DEF Ipcrm
  <2>2. ASSUME NEW q \in Procs,
               \/ CreatMsg(q) \/ GetMsgQueue(q) \/ Enter(q) \/ Kill(q)
               \/ SendMsg(q) \/ RecvMsg(q) \/ DestoryMsg(q)
        PROVE  FALSE
    BY <2>2 DEF CreatMsg, GetMsgQueue, Enter, Kill, SendMsg, RecvMsg,
                DestoryMsg, DestroysNothing
  <2>3. CASE UNCHANGED vars
    BY <2>3 DEF vars
  <2> QED  BY <2>1, <2>2, <2>3 DEF Next, Step
<1> QED  BY <1>1, QueueInvariant, PTL DEF Spec, QueueOutlives
=============================================================================
