------------------------------ MODULE MsgQueue ------------------------------
(***************************************************************************)
(* MsgQueue/: a server and its clients over one System V message queue.    *)
(* The server makes it and fails when it is there; it outlives whoever     *)
(* made it.  Both wait for messages of type CLIENT_TYPE and send messages  *)
(* of type SERVER_TYPE.                                                    *)
(***************************************************************************)
EXTENDS Integers, Sequences, SequencesExt

CONSTANTS
  Servers, Clients,   \* the processes, each started once
  Cap,                \* messages the queue has room for
  MaxIds              \* how many queues are made: a bound for TLC

ASSUME MsgQueueAssumption ==
  /\ Servers \cap Clients = {}
  /\ Cap \in Nat \ {0} /\ MaxIds \in Nat

SERVER_TYPE == 1
CLIENT_TYPE == 2
NoQueue == 0
Failed == -2   \* what Msg() returns when msgget() fails

Procs == Servers \cup Clients

VARIABLES
  queue, msgs,   \* the identifier of the queue there is; its messages' types
  made,          \* how many there were
  at, msgid      \* of each process: where it is; the identifier it holds

vars == <<queue, msgs, made, at, msgid>>

Go(p, where) == at' = [at EXCEPT ![p] = where]

(* The identifier names a queue.                                           *)
Usable(p) == msgid[p] = queue /\ queue # NoQueue

-----------------------------------------------------------------------------
(* creatMsg(), whose result nobody looks at.  It fails when there is a     *)
(* queue, and may fail for other reasons.                                  *)
CreatMsg(p) ==
  /\ at[p] = "start" /\ p \in Servers
  /\ \/ msgid' = [msgid EXCEPT ![p] = Failed] /\ UNCHANGED <<queue, made>>
     \/ /\ queue = NoQueue /\ made < MaxIds
        /\ made' = made + 1 /\ queue' = made + 1
        /\ msgid' = [msgid EXCEPT ![p] = made + 1]
  /\ Go(p, "receive")
  /\ UNCHANGED msgs

(* getMsgQueue()                                                           *)
GetMsgQueue(p) ==
  /\ at[p] = "start" /\ p \in Clients
  /\ \E id \in {Failed, queue} \ {NoQueue} : msgid' = [msgid EXCEPT ![p] = id]
  /\ Go(p, "type")
  /\ UNCHANGED <<queue, msgs, made>>

(* The client's read() from stdin: a line, or nothing to send.             *)
Enter(p) ==
  /\ at[p] = "type"
  /\ Go(p, "send") \/ Go(p, "receive")
  /\ UNCHANGED <<queue, msgs, made, msgid>>

(* Slip: the client sends what the server waits for.                       *)
SendToServer(p) ==
  /\ at[p] = "send"
  /\ IF Usable(p)
     THEN /\ Len(msgs) < Cap
          /\ msgs' = Append(msgs, IF p \in Clients THEN CLIENT_TYPE ELSE SERVER_TYPE)
     ELSE UNCHANGED msgs
  /\ Go(p, "receive")
  /\ UNCHANGED <<queue, made, msgid>>

(* sendMsg(msgid, SERVER_TYPE, buf), in both programs: it waits while the  *)
(* queue is full; nobody looks at its result.                              *)
SendMsg(p) ==
  /\ at[p] = "send"
  /\ IF Usable(p)
     THEN Len(msgs) < Cap /\ msgs' = Append(msgs, SERVER_TYPE)
     ELSE UNCHANGED msgs
  /\ Go(p, "receive")
  /\ UNCHANGED <<queue, made, msgid>>

(* recvMsg() returns: with a message, or without.                          *)
Received(p) == Go(p, IF p \in Servers THEN "send" ELSE "type")
Broken(p) == Go(p, IF p \in Servers THEN "destroy" ELSE "end")

(* Slip: recvMsg() does not wait.                                          *)
RecvNoWait(p) ==
  /\ at[p] = "receive"
  /\ IF Usable(p) /\ Contains(msgs, CLIENT_TYPE)
     THEN msgs' = RemoveFirst(msgs, CLIENT_TYPE) /\ Received(p)
     ELSE UNCHANGED msgs /\ Broken(p)
  /\ UNCHANGED <<queue, made, msgid>>

(* Slip: the loop goes on when recvMsg() fails.                            *)
RecvGoesOn(p) ==
  /\ at[p] = "receive"
  /\ IF Usable(p)
     THEN /\ Contains(msgs, CLIENT_TYPE)
          /\ msgs' = RemoveFirst(msgs, CLIENT_TYPE)
     ELSE UNCHANGED msgs
  /\ Received(p)
  /\ UNCHANGED <<queue, made, msgid>>

(* recvMsg(msgid, CLIENT_TYPE, buf) waits for a message of that type, and  *)
(* fails when there is no queue, also while it waits.                      *)
RecvMsg(p) ==
  /\ at[p] = "receive"
  /\ IF Usable(p)
     THEN /\ Contains(msgs, CLIENT_TYPE)
          /\ msgs' = RemoveFirst(msgs, CLIENT_TYPE) /\ Received(p)
     ELSE UNCHANGED msgs /\ Broken(p)
  /\ UNCHANGED <<queue, made, msgid>>

(* destoryMsg(), after the server's loop.                                  *)
DestoryMsg(p) ==
  /\ at[p] = "destroy"
  /\ IF Usable(p) THEN queue' = NoQueue /\ msgs' = <<>>
                  ELSE UNCHANGED <<queue, msgs>>
  /\ Go(p, "end")
  /\ UNCHANGED <<made, msgid>>

(* A signal ends the process, the queue stays.                             *)
Kill(p) ==
  /\ at[p] \notin {"start", "end"}
  /\ Go(p, "end")
  /\ UNCHANGED <<queue, msgs, made, msgid>>

(* ipcrm: a user removes the queue.                                        *)
Ipcrm ==
  /\ queue # NoQueue
  /\ queue' = NoQueue /\ msgs' = <<>>
  /\ UNCHANGED <<made, at, msgid>>

-----------------------------------------------------------------------------
Init ==
  /\ queue = NoQueue /\ msgs = <<>> /\ made = 0
  /\ at = [p \in Procs |-> "start"] /\ msgid = [p \in Procs |-> Failed]

Step(p) == SendMsg(p) \/ RecvMsg(p) \/ DestoryMsg(p)

Next ==
  \/ \E p \in Procs : CreatMsg(p) \/ GetMsgQueue(p) \/ Enter(p) \/ Step(p) \/ Kill(p)
  \/ Ipcrm

(* A process that can go on does; users need not.                          *)
Spec == Init /\ [][Next]_vars /\ \A p \in Procs : WF_vars(Step(p))

-----------------------------------------------------------------------------
(* The programs never remove a queue: the server gets to destoryMsg() only *)
(* when there is none of its own any more (server.c:10, 22).               *)
QueueOutlives ==
  [][queue # NoQueue /\ queue' # queue => UNCHANGED <<at, msgid>>]_vars

(* Whoever waits for a message over a queue that stays waits for ever, or  *)
(* is killed: what they send is not what they wait for (server.c:10, 18,   *)
(* client.c:15, 18).                                                       *)
NobodyIsAnswered ==
  [][\A p \in Procs :
       at[p] = "receive" /\ Usable(p) => at'[p] \in {"receive", "end"}]_vars

(* When the queue is removed all who wait over it end (server.c:10-22,     *)
(* client.c:18-19).                                                        *)
RemovalEndsAll ==
  \A p \in Procs : at[p] = "receive" /\ ~Usable(p) ~> at[p] = "end"
=============================================================================
