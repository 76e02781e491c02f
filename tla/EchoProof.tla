----------------------------- MODULE EchoProof ------------------------------
(***************************************************************************)
(* Proofs about Echo, for any number of clients and every limit.           *)
(***************************************************************************)
EXTENDS Echo, TLAPS

Places == {"none", "read", "write", "over"}
Servants == {"nobody", "main", "thread", "child", "grandchild"}
Workers == [at : Places, hold : Int, by : Servants]

ServerType == [at : {"startup", "accept", "serve", "start", "close", "dead"},
               new_fd : SUBSET Clients, listening : BOOLEAN]

EchoTypes ==
  /\ variant \in {"tcp", "tcp_mul", "tcp_thread"}
  /\ server \in ServerType
  /\ queue \in Seq(Clients) /\ open \in SUBSET Clients
  /\ worker \in [Clients -> Workers]
  /\ child \in [Clients -> {"none", "alive", "zombie"}]

(* tcp_mul: main() holds at most the connection it is forking for.         *)
MulKeeps ==
  variant = "tcp_mul" =>
    /\ server.at # "serve"
    /\ open = IF server.at \in {"start", "close"} THEN server.new_fd ELSE {}

(* The other two: it holds every connection that was ever served, and no   *)
(* process of its own serves one.                                          *)
OthersKeep ==
  variant # "tcp_mul" =>
    /\ \A c \in Clients :
         child[c] = "none" /\ worker[c].by \in {"nobody", "main", "thread"}
    /\ server.at # "close"
    /\ server.at = "start" => server.new_fd \subseteq open
    /\ server.at # "dead" => \A c \in Clients : worker[c].at # "none" => c \in open

(* tcp: main() serves one connection at a time, itself.                    *)
OneAtATime ==
  variant = "tcp" =>
    \A c \in Clients :
      Serves(c) => /\ worker[c].by = "main"
                   /\ server.at = "serve" /\ server.new_fd = {c}

EchoInv == EchoTypes /\ MulKeeps /\ OthersKeep /\ OneAtATime

-----------------------------------------------------------------------------
(* What an assignment to worker leaves: c is at a, served by b.           *)
Moved(c, a, b) ==
  /\ worker' \in [Clients -> Workers]
  /\ \A d \in Clients : d # c => worker'[d] = worker[d]
  /\ worker'[c].at = a /\ worker'[c].by = b

(* A worker that serves and goes on, or is at its end.                     *)
LEMMA WorkerMoves ==
  ASSUME EchoInv, NEW c \in Clients, NEW a \in Places, Serves(c),
         Moved(c, a, worker[c].by),
         UNCHANGED <<variant, server, queue, open, child>>
  PROVE  EchoInv'
<1>1. EchoTypes'
  BY DEF EchoInv, EchoTypes, Moved
<1>2. MulKeeps'
  BY DEF EchoInv, MulKeeps
<1>3. OthersKeep'
  BY DEF EchoInv, OthersKeep, Moved, Serves
<1>4. OneAtATime'
  BY DEF EchoInv, OneAtATime, Moved, Serves
<1> QED  BY <1>1, <1>2, <1>3, <1>4 DEF EchoInv

(* The end of the process, and of a worker.                                *)
LEMMA DeathTypes ==
  ASSUME EchoTypes, ServerDies
  PROVE  /\ server' \in ServerType /\ server'.at = "dead"
         /\ open' = {} /\ queue' \in Seq(Clients)
         /\ worker' \in [Clients -> Workers]
         /\ \A d \in Clients :
              /\ worker'[d].by = worker[d].by
              /\ worker[d].by = "main" => worker'[d].at = "over"
<1>0. worker \in [Clients -> Workers]
  BY DEF EchoTypes
<1>1. server' \in ServerType /\ server'.at = "dead"
  BY DEF ServerDies, EchoTypes, ServerType
<1>2. open' = {} /\ queue' \in Seq(Clients)
  BY DEF ServerDies
<1>3. \A d \in Clients :
        [worker[d] EXCEPT !.at = "over"]
          = [at |-> "over", hold |-> worker[d].hold, by |-> worker[d].by]
  BY <1>0 DEF Workers
<1>4. worker' = [d \in Clients |->
                   IF worker[d].by \in {"main", "thread"}
                   THEN [at |-> "over", hold |-> worker[d].hold, by |-> worker[d].by]
                   ELSE worker[d]]
  BY <1>3 DEF ServerDies
<1>5. \A d \in Clients :
        [at |-> "over", hold |-> worker[d].hold, by |-> worker[d].by] \in Workers
  BY DEF EchoTypes, Workers, Places
<1>6. worker' \in [Clients -> Workers]
  BY <1>4, <1>5 DEF EchoTypes
<1> QED  BY <1>1, <1>2, <1>4, <1>6

(* What a worker's end leaves: it is over, who it was is remembered, and   *)
(* only tcp_mul has a child.                                               *)
LEMMA EndMoves ==
  ASSUME EchoInv, NEW c \in Clients, WorkerEnds(c)
  PROVE  /\ Moved(c, "over", worker[c].by)
         /\ child' \in [Clients -> {"none", "alive", "zombie"}]
         /\ variant # "tcp_mul" => child' = child
<1>0. worker \in [Clients -> Workers]
  BY DEF EchoInv, EchoTypes
<1>1. Moved(c, "over", worker[c].by)
  BY <1>0 DEF WorkerEnds, Moved, Workers, Places
<1>2. child' \in [Clients -> {"none", "alive", "zombie"}]
  BY DEF EchoInv, EchoTypes, WorkerEnds
<1>3. variant # "tcp_mul" => child' = child
  BY DEF EchoInv, OthersKeep, WorkerEnds
<1> QED  BY <1>1, <1>2, <1>3

-----------------------------------------------------------------------------
(* The initial states satisfy it.                                          *)
LEMMA EchoInvInit == Init => EchoInv
<1> SUFFICES ASSUME Init
             PROVE  EchoInv
  OBVIOUS
<1>1. EchoTypes
  BY DEF Init, EchoTypes, ServerType, Workers, Places, Servants
<1>2. MulKeeps /\ OthersKeep /\ OneAtATime
  BY DEF Init, MulKeeps, OthersKeep, OneAtATime, Serves
<1> QED  BY <1>1, <1>2 DEF EchoInv

(* Actions that touch none of it.                                          *)
LEMMA KeptUnchanged ==
  ASSUME EchoInv, UNCHANGED <<variant, server, queue, open, worker, child>>
  PROVE  EchoInv'
BY DEF EchoInv, EchoTypes, MulKeeps, OthersKeep, OneAtATime, Serves

(* Every step preserves it.                                                *)
LEMMA EchoInvNext == EchoInv /\ [Next]_vars => EchoInv'
<1> SUFFICES ASSUME EchoInv, [Next]_vars
             PROVE  EchoInv'
  OBVIOUS
<1> USE DEF EchoInv, limits
<1>0. worker \in [Clients -> Workers]
  BY DEF EchoTypes
<1>1. CASE Startup
  <2>1. EchoTypes'
    BY <1>1 DEF Startup, Listens, StartupExits, StartupReturns, EchoTypes, ServerType
  <2>2. MulKeeps' /\ OthersKeep' /\ OneAtATime'
    BY <1>1 DEF Startup, Listens, StartupExits, StartupReturns, EchoTypes, ServerType,
                MulKeeps, OthersKeep, OneAtATime, Serves
  <2> QED  BY <2>1, <2>2
<1>2. CASE Accept
  <2>0. Head(queue) \in Clients /\ Tail(queue) \in Seq(Clients)
    BY <1>2 DEF Accept, EchoTypes
  <2>1. server.at = "accept" /\ server' \in ServerType /\ server'.new_fd = {Head(queue)}
        /\ server'.at = IF variant = "tcp" THEN "serve" ELSE "start"
    BY <1>2, <2>0 DEF Accept, EchoTypes, ServerType
  <2>2. CASE variant = "tcp"
    <3>1. Moved(Head(queue), "read", "main")
      BY <1>0, <1>2, <2>0, <2>2 DEF Accept, Moved, Workers, Places, Servants
    <3> QED
      BY <1>2, <2>0, <2>1, <2>2, <3>1 DEF Accept, Moved, EchoTypes, MulKeeps,
         OthersKeep, OneAtATime, Serves
  <2>3. CASE variant # "tcp"
    <3>1. EchoTypes'
      BY <1>2, <2>0, <2>1, <2>3 DEF Accept, EchoTypes
    <3> QED
      BY <1>2, <2>0, <2>1, <2>3, <3>1 DEF Accept, EchoTypes, MulKeeps,
         OthersKeep, OneAtATime, Serves
  <2> QED  BY <2>2, <2>3
<1>3. CASE Fork
  <2>1. EchoTypes'
    BY <1>3 DEF Fork, EchoTypes, ServerType
  <2>2. MulKeeps' /\ OthersKeep' /\ OneAtATime'
    BY <1>3 DEF Fork, EchoTypes, ServerType, MulKeeps, OthersKeep, OneAtATime, Serves
  <2> QED  BY <2>1, <2>2
<1>4. CASE Close
  <2>0. variant = "tcp_mul"
    BY <1>4 DEF Close, EchoTypes, OthersKeep
  <2>1. EchoTypes'
    BY <1>4 DEF Close, EchoTypes, ServerType
  <2>2. MulKeeps' /\ OthersKeep' /\ OneAtATime'
    BY <1>4, <2>0 DEF Close, EchoTypes, ServerType, MulKeeps, OthersKeep, OneAtATime
  <2> QED  BY <2>1, <2>2
<1>5. CASE Create
  <2>0. variant = "tcp_thread" /\ variant' = variant /\ child' = child /\ server.at = "start"
    BY <1>5 DEF Create
  <2>1. /\ variant \in {"tcp", "tcp_mul", "tcp_thread"}
        /\ [server EXCEPT !.at = "accept"] \in ServerType
        /\ [server EXCEPT !.at = "accept"].at = "accept"
    BY DEF EchoTypes, ServerType
  <2>2. CASE /\ worker' = [c \in Clients |->
                        IF c \in server.new_fd
                        THEN [at |-> "read", hold |-> 0, by |-> "thread"]
                        ELSE worker[c]]
             /\ server' = [server EXCEPT !.at = "accept"]
             /\ UNCHANGED <<open, queue>>
    <3>1. [at |-> "read", hold |-> 0, by |-> "thread"] \in Workers
      BY DEF Workers, Places, Servants
    <3>2. worker' \in [Clients -> Workers]
      BY <1>0, <2>2, <3>1
    <3>3. EchoTypes'
      BY <2>0, <2>1, <2>2, <3>2 DEF EchoTypes
    <3>4. OthersKeep'
      <4>1. \A c \in Clients :
              /\ worker'[c].by \in {worker[c].by, "thread"}
              /\ c \notin server.new_fd => worker'[c].at = worker[c].at
        BY <2>2
      <4> QED  BY <2>0, <2>1, <2>2, <4>1 DEF OthersKeep
    <3> QED  BY <2>0, <3>3, <3>4 DEF MulKeeps, OneAtATime
  <2>3. CASE server' = [server EXCEPT !.at = "accept"] /\ UNCHANGED <<worker, open, queue>>
    <3>1. EchoTypes'
      BY <2>0, <2>1, <2>3 DEF EchoTypes
    <3>2. OthersKeep'
      BY <2>0, <2>1, <2>3 DEF OthersKeep
    <3> QED  BY <2>0, <3>1, <3>2 DEF MulKeeps, OneAtATime
  <2>4. CASE ServerDies
    <3>1. EchoTypes'
      BY <2>0, <2>1, <2>4, DeathTypes DEF EchoTypes
    <3>2. OthersKeep'
      BY <2>0, <2>4, DeathTypes DEF OthersKeep
    <3> QED  BY <2>0, <3>1, <3>2 DEF MulKeeps, OneAtATime
  <2> QED  BY <1>5, <2>2, <2>3, <2>4 DEF Create
<1>6. ASSUME NEW c \in Clients, ForkAgain(c)
      PROVE  EchoInv'
  <2>0. variant = "tcp_mul"
    BY <1>6 DEF ForkAgain, EchoTypes, OthersKeep
  <2>1. PICK b \in Servants : Moved(c, "read", b)
    <3>1. (IF room = 0 THEN "child" ELSE "grandchild") \in Servants
      BY DEF Servants
    <3> QED  BY <1>0, <1>6, <3>1 DEF ForkAgain, Moved, Workers, Places
  <2> QED
    BY <1>6, <2>0, <2>1 DEF ForkAgain, Moved, EchoTypes, MulKeeps, OthersKeep, OneAtATime
<1>7. ASSUME NEW c \in Clients, ChildExits(c)
      PROVE  EchoInv'
  <2>0. variant = "tcp_mul"
    BY <1>7 DEF ChildExits, EchoTypes, OthersKeep
  <2>1. EchoTypes'
    BY <1>7 DEF ChildExits, EchoTypes
  <2>2. MulKeeps' /\ OthersKeep' /\ OneAtATime'
    BY <1>7, <2>0 DEF ChildExits, EchoTypes, MulKeeps, OthersKeep, OneAtATime
  <2> QED  BY <2>1, <2>2
<1>8. ASSUME NEW c \in Clients, Read(c)
      PROVE  EchoInv'
  <2>1. CASE variant = "tcp_thread"
    BY <1>8, <2>1, KeptUnchanged DEF Read
  <2>2. CASE variant # "tcp_thread"
    <3>1. PICK n \in 1 .. SmallerOf(BufLen, net[c].up) :
            worker' = [worker EXCEPT ![c] =
                         [at |-> "write", hold |-> n, by |-> @.by]]
      BY <1>8, <2>2 DEF Read
    <3>2. Moved(c, "write", worker[c].by)
      <4>1. n \in Int
        OBVIOUS
      <4> QED  BY <1>0, <3>1, <4>1 DEF Moved, Workers, Places
    <3> QED  BY <1>8, <3>2, WorkerMoves DEF Read, Serves, Places
  <2> QED  BY <2>1, <2>2
<1>9. ASSUME NEW c \in Clients, Write(c)
      PROVE  EchoInv'
  <2>0. UNCHANGED variant /\ worker[c].at = "write" /\ worker[c].hold \in Int
    BY <1>9 DEF Write, EchoTypes, Workers
  <2>1. CASE /\ worker' = [worker EXCEPT ![c] =
                             [at |-> IF @.hold = 1 THEN "read" ELSE "write",
                              hold |-> @.hold - 1, by |-> @.by]]
             /\ UNCHANGED <<server, queue, open, room, child>>
    <3>1. PICK a \in Places : Moved(c, a, worker[c].by)
      <4>1. (IF worker[c].hold = 1 THEN "read" ELSE "write") \in Places
        BY DEF Places
      <4>2. worker[c].hold - 1 \in Int
        BY <2>0
      <4> QED  BY <1>0, <2>1, <4>1, <4>2 DEF Moved, Workers
    <3> QED  BY <2>0, <2>1, <3>1, WorkerMoves DEF Serves
  <2>2. CASE /\ worker' = [worker EXCEPT ![c] =
                             [at |-> "read", hold |-> 0, by |-> @.by]]
             /\ UNCHANGED <<server, queue, open, room, child>>
    <3>1. Moved(c, "read", worker[c].by)
      BY <1>0, <2>2 DEF Moved, Workers, Places
    <3> QED  BY <2>0, <2>2, <3>1, WorkerMoves DEF Serves, Places
  <2>3. CASE variant = "tcp" /\ ServerDies /\ UNCHANGED child
    <3>1. EchoTypes'
      BY <2>0, <2>3, DeathTypes DEF EchoTypes
    <3>2. OthersKeep'
      BY <2>0, <2>3, DeathTypes DEF OthersKeep
    <3>3. \A d \in Clients : ~Serves(d)'
      <4> SUFFICES ASSUME NEW d \in Clients, Serves(d)'
                   PROVE  FALSE
        OBVIOUS
      <4>1. worker[d].by # "main"
        BY <2>3, DeathTypes DEF Serves
      <4>2. CASE worker[d].by = "thread"
        <5>1. [worker[d] EXCEPT !.at = "over"].at = "over"
          BY DEF EchoTypes, Workers
        <5> QED  BY <2>3, <4>2, <5>1 DEF ServerDies, Serves
      <4>3. CASE worker[d].by # "thread"
        BY <2>0, <2>3, <4>1, <4>3 DEF ServerDies, Serves, OneAtATime
      <4> QED  BY <4>2, <4>3
    <3> QED  BY <2>0, <2>3, <3>1, <3>2, <3>3 DEF MulKeeps, OneAtATime
  <2>4. CASE variant # "tcp" /\ WorkerEnds(c) /\ UNCHANGED <<server, queue, open>>
    <3>1. EchoTypes'
      BY <2>0, <2>4, EndMoves DEF EchoTypes, Moved
    <3>2. MulKeeps'
      BY <2>0, <2>4 DEF MulKeeps
    <3>3. OthersKeep'
      BY <2>0, <2>4, EndMoves DEF OthersKeep, Moved
    <3> QED  BY <2>0, <2>4, <3>1, <3>2, <3>3 DEF OneAtATime
  <2> QED  BY <1>9, <2>0, <2>1, <2>2, <2>3, <2>4 DEF Write
<1>10. ASSUME NEW c \in Clients, ReadDone(c)
       PROVE  EchoInv'
  <2>0. /\ UNCHANGED <<variant, queue, open>>
        /\ worker[c].at = "read" /\ WorkerEnds(c)
        /\ server' = IF variant = "tcp" THEN [server EXCEPT !.at = "accept"] ELSE server
    BY <1>10 DEF ReadDone
  <2>1. /\ server' \in ServerType
        /\ variant = "tcp" => server'.at = "accept" /\ server.at = "serve"
    BY <2>0 DEF EchoTypes, ServerType, OneAtATime, Serves
  <2>2. /\ Moved(c, "over", worker[c].by)
        /\ child' \in [Clients -> {"none", "alive", "zombie"}]
        /\ variant # "tcp_mul" => child' = child
    BY <2>0, EndMoves
  <2>3. EchoTypes'
    BY <2>0, <2>1, <2>2 DEF EchoTypes, Moved
  <2>4. MulKeeps'
    BY <2>0, <2>1 DEF MulKeeps
  <2>5. OthersKeep'
    <3> SUFFICES ASSUME variant # "tcp_mul"
                 PROVE  OthersKeep'
      BY <2>0 DEF OthersKeep
    <3>1. \A d \in Clients : child'[d] = "none" /\ worker'[d].by = worker[d].by
      BY <2>2 DEF OthersKeep, Moved
    <3>2. server.at # "dead" =>
            \A d \in Clients : worker'[d].at # "none" => d \in open
      BY <2>0, <2>2 DEF OthersKeep, Moved
    <3> QED  BY <2>0, <2>1, <3>1, <3>2 DEF OthersKeep
  <2>6. OneAtATime'
    <3> SUFFICES ASSUME variant = "tcp", NEW d \in Clients, Serves(d)'
                 PROVE  FALSE
      BY <2>0 DEF OneAtATime
    <3>1. d # c /\ Serves(d)
      BY <2>0, EndMoves DEF Moved, Serves
    <3> QED  BY <2>0, <3>1 DEF OneAtATime, Serves
  <2> QED  BY <2>3, <2>4, <2>5, <2>6
<1>11. ASSUME NEW c \in Clients, Connect(c)
       PROVE  EchoInv'
  <2>1. UNCHANGED <<variant, server, open, worker, child>>
    BY <1>11 DEF Connect
  <2>2. queue' \in Seq(Clients)
    <3>1. queue' = queue \/ queue' = Append(queue, c)
      BY <1>11 DEF Connect
    <3> QED  BY <3>1 DEF EchoTypes
  <2> QED
    BY <2>1, <2>2 DEF EchoTypes, MulKeeps, OthersKeep, OneAtATime, Serves
<1>12. ASSUME NEW c \in Clients, GoOn(c) \/ Type(c) \/ Leave(c)
       PROVE  EchoInv'
  <2>1. UNCHANGED <<variant, server, queue, open, worker, child>>
    BY <1>12 DEF GoOn, Send, Sent, Receive, Type, Leave, serving
  <2> QED  BY <2>1, KeptUnchanged
<1>13. CASE AcceptFails \/ UNCHANGED vars
  <2>1. UNCHANGED <<variant, server, queue, open, worker, child>>
    BY <1>13 DEF AcceptFails, vars
  <2> QED  BY <2>1, KeptUnchanged
<1> QED
  BY <1>1, <1>2, <1>3, <1>4, <1>5, <1>6, <1>7, <1>8, <1>9, <1>10, <1>11,
     <1>12, <1>13 DEF Next, Main, Serve, User

(* In every reachable state main() holds the descriptors its variant       *)
(* keeps, and in tcp/ serves one connection itself.                        *)
LEMMA EchoInvariant == Spec => []EchoInv
BY EchoInvInit, EchoInvNext, PTL DEF Spec

-----------------------------------------------------------------------------
(* tcp_mul's father keeps no descriptor past the connection's start, and   *)
(* the other two servers keep every one they ever served.                  *)
THEOREM DescriptorsAreKept == Spec => []DescriptorsKept
<1>1. EchoInv => DescriptorsKept
  BY DEF EchoInv, EchoTypes, MulKeeps, OthersKeep, DescriptorsKept
<1> QED  BY <1>1, EchoInvariant, PTL

-----------------------------------------------------------------------------
(* The clients and what is on the way to and from them.                    *)
ClientType == [at : {"off", "type", "write", "read", "gone"}, left : Int, asked : BOOLEAN]
NetType == [up : Int, down : Int, reset : BOOLEAN]

SideTypes == client \in [Clients -> ClientType] /\ net \in [Clients -> NetType]

(* A client comes once and, once gone, stays away; only a client that has  *)
(* gone has its connection reset.                                          *)
ClientsPass ==
  \A d \in Clients :
    /\ client'[d].at = "off" => client[d].at = "off"
    /\ client[d].at = "gone" => client'[d].at = "gone"

(* The initial states have these types.                                    *)
LEMMA SidesInit == Init => SideTypes
  BY DEF Init, SideTypes, ClientType, NetType

(* Steps of the clients, and of those who serve them, keep these types.    *)
LEMMA SidesNext ==
  ASSUME SideTypes, EchoInv, [Next]_vars
  PROVE  SideTypes' /\ ClientsPass
<1> USE DEF SideTypes, ClientType, NetType, ClientsPass
<1>1. CASE UNCHANGED <<client, net>>
  BY <1>1
<1>2. ASSUME NEW c \in Clients, Read(c)
      PROVE  SideTypes' /\ ClientsPass
  <2>1. PICK n \in 1 .. SmallerOf(BufLen, net[c].up) : net' = [net EXCEPT ![c].up = @ - n]
    BY <1>2 DEF Read
  <2>2. n \in Int
    OBVIOUS
  <2> QED
    BY <1>2, <2>1, <2>2 DEF Read
<1>3. ASSUME NEW c \in Clients, Write(c)
      PROVE  SideTypes' /\ ClientsPass
  <2>1. UNCHANGED client /\ \/ UNCHANGED net \/ net' = [net EXCEPT ![c].down = @ + 1]
                            \/ net' = [net EXCEPT ![c].reset = TRUE]
    BY <1>3 DEF Write
  <2>2. CASE net' = [net EXCEPT ![c].down = @ + 1]
    BY <2>1, <2>2
  <2>3. CASE net' = [net EXCEPT ![c].reset = TRUE]
    BY <2>1, <2>3
  <2> QED
    BY <2>1, <2>2, <2>3
<1>4. ASSUME NEW c \in Clients, Connect(c)
      PROVE  SideTypes' /\ ClientsPass
  <2>1. UNCHANGED net /\ client[c].at = "off"
        /\ (client' = [client EXCEPT ![c].at = "type"] \/ client' = [client EXCEPT ![c].at = "gone"])
    BY <1>4 DEF Connect
  <2>2. CASE client' = [client EXCEPT ![c].at = "type"]
    BY <2>1, <2>2
  <2>3. CASE client' = [client EXCEPT ![c].at = "gone"]
    BY <2>1, <2>3
  <2> QED
    BY <2>1, <2>2, <2>3
<1>5. ASSUME NEW c \in Clients, Type(c)
      PROVE  SideTypes' /\ ClientsPass
  <2>1. PICK n \in (IF variant = "tcp_mul" THEN 1 ELSE 0) .. MaxLine :
          client' = [client EXCEPT ![c] = [at |-> "write", left |-> n, asked |-> n > 0]]
    BY <1>5 DEF Type
  <2>2. n \in Int
    OBVIOUS
  <2> QED
    BY <1>5, <2>1, <2>2 DEF Type
<1>6. ASSUME NEW c \in Clients, Send(c)
      PROVE  SideTypes' /\ ClientsPass
  <2>0. client[c].at = "write"
    BY <1>6 DEF Send
  <2>1. CASE net' = [net EXCEPT ![c].up = @ + 1] /\ client' = [client EXCEPT ![c].left = @ - 1]
    BY <2>0, <2>1
  <2>2. CASE UNCHANGED net /\ client' = [client EXCEPT ![c].left = 0]
    BY <2>0, <2>2
  <2>3. CASE UNCHANGED net /\ client' = [client EXCEPT ![c].at = "gone"]
    BY <2>0, <2>3
  <2> QED
    BY <1>6, <2>1, <2>2, <2>3 DEF Send
<1>7. ASSUME NEW c \in Clients, Sent(c)
      PROVE  SideTypes' /\ ClientsPass
  BY <1>7 DEF Sent
<1>8. ASSUME NEW c \in Clients, Receive(c)
      PROVE  SideTypes' /\ ClientsPass
  <2>1. UNCHANGED net \/ \E n \in 1 .. SmallerOf(BufLen, net[c].down) : net' = [net EXCEPT ![c].down = @ - n]
    BY <1>8 DEF Receive
  <2>2. net' \in [Clients -> NetType]
    BY <2>1
  <2> QED
    BY <1>8, <2>2 DEF Receive
<1>9. ASSUME NEW c \in Clients, Leave(c)
      PROVE  SideTypes' /\ ClientsPass
  BY <1>9 DEF Leave, Connected
<1>10. CASE AcceptFails \/ Main \/ \E c \in Clients : ForkAgain(c) \/ ChildExits(c) \/ ReadDone(c)
  <2>1. UNCHANGED <<client, net>>
    BY <1>10 DEF AcceptFails, Main, Startup, Accept, Fork, Close, Create, ForkAgain, ChildExits,
                 ReadDone, vars
  <2> QED
    BY <1>1, <2>1
<1> QED
  BY <1>1, <1>2, <1>3, <1>4, <1>5, <1>6, <1>7, <1>8, <1>9, <1>10 DEF Next, Serve, GoOn, User, vars

(* A connection is one of a client that came; it is reset, or in tcp_mul   *)
(* no longer served, only when that client has gone.                       *)
Come ==
  \A c \in Clients :
    c \in Waiting \cup server.new_fd \/ child[c] # "none" \/ worker[c].at # "none"
      => client[c].at # "off"

Named == \A c \in Clients : worker[c].at = "none" => worker[c].by = "nobody"

Gone ==
  /\ \A c \in Clients : net[c].reset => client[c].at = "gone"
  /\ variant = "tcp_mul" =>
       \A c \in Clients :
         /\ worker[c].at = "over" => client[c].at = "gone"
         /\ child[c] = "zombie" => worker[c].at # "none"

SidesInv == SideTypes /\ Come /\ Named /\ Gone

(* The queue: its head and tail, and what is added.                        *)
LEMMA InQueue ==
  ASSUME EchoInv
  PROVE  /\ queue # <<>> /\ queue' = Tail(queue) =>
              Waiting = {Head(queue)} \cup Waiting' /\ Head(queue) \in Clients
         /\ \A c \in Clients : queue' = Append(queue, c) => Waiting' = Waiting \cup {c}
         /\ queue' = <<>> => Waiting' = {}
         /\ queue' = queue => Waiting' = Waiting
<1>0. queue \in Seq(Clients)
  BY DEF EchoInv, EchoTypes
<1>1. ASSUME queue # <<>>, queue' = Tail(queue)
      PROVE  Waiting = {Head(queue)} \cup Waiting' /\ Head(queue) \in Clients
  <2>1. /\ Len(queue) \in Nat \ {0} /\ DOMAIN queue = 1..Len(queue) /\ Head(queue) = queue[1]
        /\ DOMAIN queue' = 1 .. Len(queue) - 1 /\ Head(queue) \in Clients
        /\ \A i \in 1 .. Len(queue) - 1 : queue'[i] = queue[i + 1]
    BY <1>0, <1>1
  <2>2. ASSUME NEW i \in 1..Len(queue)
        PROVE  queue[i] \in {Head(queue)} \cup Waiting'
    <3>1. CASE i = 1
      BY <2>1, <3>1
    <3>2. CASE i # 1
      <4>1. i - 1 \in 1 .. Len(queue) - 1 /\ queue'[i - 1] = queue[i]
        BY <2>1, <3>2
      <4> QED
        BY <2>1, <4>1 DEF Waiting
    <3> QED
      BY <3>1, <3>2
  <2>3. ASSUME NEW i \in 1 .. Len(queue) - 1
        PROVE  queue'[i] \in Waiting
    <3>1. i + 1 \in 1..Len(queue)
      BY <2>1
    <3> QED
      BY <2>1, <3>1 DEF Waiting
  <2>4. Head(queue) \in Waiting
    BY <2>1 DEF Waiting
  <2> QED
    BY <2>1, <2>2, <2>3, <2>4 DEF Waiting
<1>2. ASSUME NEW c \in Clients, queue' = Append(queue, c)
      PROVE  Waiting' = Waiting \cup {c}
  <2>1. /\ Len(queue) \in Nat /\ DOMAIN queue = 1..Len(queue)
        /\ DOMAIN queue' = 1 .. Len(queue) + 1 /\ queue'[Len(queue) + 1] = c
        /\ \A i \in 1..Len(queue) : queue'[i] = queue[i]
    BY <1>0, <1>2
  <2> QED
    BY <2>1 DEF Waiting
<1>3. queue' = <<>> => Waiting' = {}
  BY DEF Waiting
<1>4. queue' = queue => Waiting' = Waiting
  BY DEF Waiting
<1> QED
  BY <1>1, <1>2, <1>3, <1>4

(* The steps that give no connection to anyone new.                        *)
LEMMA NobodyNew ==
  ASSUME SidesInv, ClientsPass,
         \A c \in Clients :
           /\ c \in Waiting' \cup server'.new_fd =>
                c \in Waiting \cup server.new_fd \/ client'[c].at # "off"
           /\ child'[c] # "none" =>
                c \in server.new_fd \/ child[c] # "none" \/ worker[c].at # "none"
           /\ worker'[c].at # "none" =>
                c \in Waiting \cup server.new_fd \/ child[c] # "none" \/ worker[c].at # "none"
           /\ worker'[c].at = "none" => worker'[c].by = worker[c].by /\ worker[c].at = "none"
  PROVE  Come' /\ Named'
  BY DEF SidesInv, ClientsPass, Come, Named

(* The end of the process gives no worker to a connection that has none.   *)
LEMMA DeathMoves ==
  ASSUME SidesInv, EchoInv, ServerDies
  PROVE  /\ server'.new_fd = server.new_fd /\ Waiting' = {}
         /\ \A c \in Clients :
              /\ worker'[c].at # "none" => worker[c].at # "none"
              /\ worker'[c].at = "none" => worker'[c].by = worker[c].by /\ worker[c].at = "none"
<1>0. server \in ServerType
  BY DEF EchoInv, EchoTypes
<1>1. server'.new_fd = server.new_fd /\ Waiting' = {}
  BY <1>0, InQueue DEF ServerDies, ServerType
<1>2. ASSUME NEW c \in Clients
      PROVE  /\ worker'[c].at # "none" => worker[c].at # "none"
             /\ worker'[c].at = "none" => worker'[c].by = worker[c].by /\ worker[c].at = "none"
  <2>1. CASE worker[c].by \in {"main", "thread"}
    <3>1. worker[c].at # "none"
      BY <2>1 DEF SidesInv, Named
    <3>2. worker'[c] = [worker[c] EXCEPT !.at = "over"] /\ worker[c] \in Workers
      BY <2>1 DEF ServerDies, EchoInv, EchoTypes
    <3>3. worker'[c].at = "over"
      BY <3>2 DEF Workers
    <3> QED
      BY <3>1, <3>3
  <2>2. CASE worker[c].by \notin {"main", "thread"}
    BY <2>2 DEF ServerDies
  <2> QED
    BY <2>1, <2>2
<1> QED
  BY <1>1, <1>2

(* Every step preserves Come and Named: a connection with a process was    *)
(* once accepted, and a worker has a name as soon as it exists.            *)
LEMMA ComeNext ==
  ASSUME SidesInv, EchoInv, ClientsPass, [Next]_vars
  PROVE  Come' /\ Named'
<1>0. server \in ServerType /\ worker \in [Clients -> Workers] /\ child \in [Clients -> {"none", "alive", "zombie"}]
  BY DEF EchoInv, EchoTypes
<1>w. UNCHANGED queue => UNCHANGED Waiting
  BY DEF Waiting
<1>1. CASE UNCHANGED <<server, queue, child, worker>>
  BY <1>1, <1>w, NobodyNew
<1>2. CASE Startup
  <2>1. server'.new_fd = server.new_fd /\ UNCHANGED <<queue, child, worker>>
    BY <1>0, <1>2 DEF Startup, Listens, StartupExits, StartupReturns, ServerType
  <2> QED
    BY <1>w, <2>1, NobodyNew
<1>3. CASE Accept
  <2>1. /\ Waiting = {Head(queue)} \cup Waiting' /\ Head(queue) \in Clients /\ UNCHANGED child
        /\ server'.new_fd = {Head(queue)}
    BY <1>0, <1>3, InQueue DEF Accept, ServerType
  <2>2. /\ \A c \in Clients : c # Head(queue) => worker'[c] = worker[c]
        /\ worker'[Head(queue)].at = "none" => UNCHANGED worker
    BY <1>0, <1>3, <2>1 DEF Accept
  <2> QED
    BY <2>1, <2>2, NobodyNew
<1>4. CASE Fork
  <2>1. server'.new_fd = server.new_fd /\ UNCHANGED <<queue, worker>>
        /\ \A c \in Clients : c \notin server.new_fd => child'[c] = child[c]
    BY <1>0, <1>4 DEF Fork, ServerType
  <2> QED
    BY <1>w, <2>1, NobodyNew
<1>5. CASE Close
  <2>1. server'.new_fd = server.new_fd /\ UNCHANGED <<queue, child, worker>>
    BY <1>0, <1>5 DEF Close, ServerType
  <2> QED
    BY <1>w, <2>1, NobodyNew
<1>6. CASE Create
  <2>1. CASE ServerDies
    BY <1>6, <2>1, DeathMoves, NobodyNew DEF Create
  <2>2. CASE server' = [server EXCEPT !.at = "accept"] /\ UNCHANGED queue
    <3>1. server'.new_fd = server.new_fd
      BY <1>0, <2>2 DEF ServerType
    <3>2. \A c \in Clients :
            \/ worker'[c] = worker[c]
            \/ /\ c \in server.new_fd
               /\ worker'[c] = [at |-> "read", hold |-> 0, by |-> "thread"]
      <4>1. ~ServerDies
        BY <1>0, <2>2 DEF ServerDies, ServerType
      <4> QED
        BY <1>6, <4>1 DEF Create
    <3> QED
      <4>1. UNCHANGED <<child, client>> /\ Waiting' = Waiting
        BY <1>6, <1>w, <2>2 DEF Create
      <4>2. \A c \in Clients :
              /\ worker'[c].at # "none" => c \in server.new_fd \/ worker[c].at # "none"
              /\ worker'[c].at = "none" => worker'[c].by = worker[c].by /\ worker[c].at = "none"
        BY <3>2
      <4> QED
        BY <3>1, <4>1, <4>2, NobodyNew
  <2> QED
    BY <1>6, <2>1, <2>2 DEF Create
<1>7. ASSUME NEW c \in Clients, ForkAgain(c)
      PROVE  Come' /\ Named'
  <2>1. UNCHANGED <<server, queue, child>> /\ child[c] # "none" /\ worker'[c].at = "read"
        /\ \A d \in Clients : d # c => worker'[d] = worker[d]
    BY <1>0, <1>7 DEF ForkAgain
  <2> QED
    BY <1>w, <2>1, NobodyNew
<1>8. ASSUME NEW c \in Clients, ChildExits(c)
      PROVE  Come' /\ Named'
  <2>1. UNCHANGED <<server, queue, worker>> /\ child[c] # "none"
        /\ \A d \in Clients : d # c => child'[d] = child[d]
    BY <1>0, <1>8 DEF ChildExits
  <2> QED
    BY <1>w, <2>1, NobodyNew
<1>9. ASSUME NEW c \in Clients, Read(c)
      PROVE  Come' /\ Named'
  <2>1. UNCHANGED <<server, queue, child>> /\ worker[c].at # "none" /\ worker'[c].at # "none"
        /\ \A d \in Clients : d # c => worker'[d] = worker[d]
    BY <1>0, <1>9 DEF Read
  <2> QED
    BY <1>w, <2>1, NobodyNew
<1>10. ASSUME NEW c \in Clients, WorkerEnds(c), worker[c].at # "none", UNCHANGED queue,
              server'.new_fd = server.new_fd
       PROVE  Come' /\ Named'
  <2>1. worker'[c].at # "none"
        /\ \A d \in Clients : d # c => worker'[d] = worker[d] /\ child'[d] = child[d]
    BY <1>0, <1>10 DEF WorkerEnds, EchoInv, EchoTypes
  <2> QED
    BY <1>10, <1>w, <2>1, NobodyNew
<1>11. ASSUME NEW c \in Clients, Write(c)
       PROVE  Come' /\ Named'
  <2>1. CASE ServerDies /\ UNCHANGED child
    BY <2>1, DeathMoves, NobodyNew
  <2>2. CASE WorkerEnds(c) /\ UNCHANGED <<server, queue, open>>
    BY <1>10, <1>11, <2>2 DEF Write
  <2>3. CASE UNCHANGED <<server, queue, child>> /\ worker'[c].at # "none"
             /\ \A d \in Clients : d # c => worker'[d] = worker[d]
    BY <1>11, <1>w, <2>3, NobodyNew DEF Write
  <2> QED
    BY <1>0, <1>11, <2>1, <2>2, <2>3 DEF Write
<1>12. ASSUME NEW c \in Clients, ReadDone(c)
       PROVE  Come' /\ Named'
  <2>1. server'.new_fd = server.new_fd
    BY <1>0, <1>12 DEF ReadDone, ServerType
  <2> QED
    BY <1>10, <1>12, <2>1 DEF ReadDone
<1>13. ASSUME NEW c \in Clients, Connect(c)
       PROVE  Come' /\ Named'
  <2>1. UNCHANGED <<server, child, worker>> /\ (UNCHANGED queue \/ (queue' = Append(queue, c) /\ client'[c].at # "off"))
    BY <1>13 DEF Connect, SidesInv, SideTypes, ClientType
  <2>2. Waiting' = Waiting \/ (Waiting' = Waiting \cup {c} /\ client'[c].at # "off")
    BY <2>1, InQueue
  <2> QED
    BY <2>1, <2>2, NobodyNew
<1>14. ASSUME NEW c \in Clients, GoOn(c) \/ Type(c) \/ Leave(c)
       PROVE  Come' /\ Named'
  BY <1>1, <1>14 DEF GoOn, Send, Sent, Receive, Type, Leave, serving
<1> QED
  BY <1>1, <1>2, <1>3, <1>4, <1>5, <1>6, <1>7, <1>8, <1>9, <1>11, <1>12, <1>13, <1>14
  DEF Next, Main, Serve, User, AcceptFails, vars

-----------------------------------------------------------------------------
(* Every step preserves Gone: a reset is left by a client that goes, or    *)
(* answers a write to one that has gone, and a worker of tcp_mul ends for  *)
(* no other reason.                                                        *)
LEMMA GoneNext ==
  ASSUME SidesInv, EchoInv, ClientsPass, SideTypes', [Next]_vars
  PROVE  Gone'
<1>0. /\ server \in ServerType /\ worker \in [Clients -> Workers]
      /\ child \in [Clients -> {"none", "alive", "zombie"}]
      /\ client \in [Clients -> ClientType] /\ net \in [Clients -> NetType]
  BY DEF EchoInv, EchoTypes, SidesInv, SideTypes
(* Steps that neither reset a connection nor end a worker or a child.      *)
<1>1. ASSUME UNCHANGED variant,
             \A c \in Clients :
               /\ net'[c].reset => net[c].reset \/ client'[c].at = "gone"
               /\ variant = "tcp_mul" =>
                    /\ worker'[c].at = "over" => worker[c].at = "over" \/ client[c].at = "gone"
                    /\ child'[c] = "zombie" =>
                         child[c] = "zombie" \/ worker[c].at # "none"
                    /\ worker'[c].at = "none" => worker[c].at = "none"
      PROVE  Gone'
  BY <1>1 DEF SidesInv, Gone, ClientsPass
<1>2. CASE UNCHANGED <<variant, net, child, worker>>
  BY <1>1, <1>2
<1>3. CASE Startup \/ Close \/ AcceptFails
  BY <1>2, <1>3 DEF Startup, Close, AcceptFails, vars, limits
<1>4. CASE Accept
  <2>1. UNCHANGED <<variant, net, child>> /\ (variant = "tcp_mul" => UNCHANGED worker)
    BY <1>4 DEF Accept, limits
  <2> QED
    BY <1>1, <2>1
<1>5. CASE Fork
  <2>1. UNCHANGED <<variant, net, worker>>
        /\ \A c \in Clients : child'[c] = "zombie" => child[c] = "zombie"
    BY <1>0, <1>5 DEF Fork, limits
  <2> QED
    BY <1>1, <2>1
<1>6. CASE Create
  <2>1. UNCHANGED <<variant, net, child>> /\ variant # "tcp_mul"
    BY <1>6 DEF Create, limits
  <2> QED
    BY <1>1, <2>1
<1>7. ASSUME NEW c \in Clients, ForkAgain(c)
      PROVE  Gone'
  <2>1. UNCHANGED <<variant, net, child>> /\ worker'[c].at = "read"
        /\ \A d \in Clients : d # c => worker'[d] = worker[d]
    BY <1>0, <1>7 DEF ForkAgain, limits
  <2> QED
    BY <1>1, <2>1
<1>8. ASSUME NEW c \in Clients, ChildExits(c)
      PROVE  Gone'
  <2>1. UNCHANGED <<variant, net, worker>> /\ worker[c].at # "none"
        /\ \A d \in Clients : d # c => child'[d] = child[d]
    BY <1>0, <1>8 DEF ChildExits, limits, SidesInv, Named
  <2> QED
    BY <1>1, <2>1
<1>9. ASSUME NEW c \in Clients, Read(c)
      PROVE  Gone'
  <2>1. PICK n \in 1 .. SmallerOf(BufLen, net[c].up) :
          /\ net' = [net EXCEPT ![c].up = @ - n]
          /\ worker' = IF variant = "tcp_thread" THEN worker
                       ELSE [worker EXCEPT ![c] = [at |-> "write", hold |-> n, by |-> @.by]]
    BY <1>9 DEF Read
  <2>2. \A d \in Clients : net'[d].reset = net[d].reset
    BY <1>0, <2>1 DEF NetType
  <2>3. UNCHANGED <<variant, child>>
        /\ \A d \in Clients : worker'[d] = worker[d] \/ worker'[d].at = "write"
    BY <1>0, <1>9, <2>1 DEF Read, limits
  <2> QED
    BY <1>1, <2>2, <2>3
<1>10. ASSUME NEW c \in Clients, WorkerEnds(c), Serves(c), UNCHANGED <<variant, net>>,
              variant = "tcp_mul" => client[c].at = "gone"
       PROVE  Gone'
  <2>1. /\ \A d \in Clients : d # c => worker'[d] = worker[d] /\ child'[d] = child[d]
        /\ worker'[c].at # "none" /\ worker[c].at # "none"
    BY <1>0, <1>10 DEF WorkerEnds, Serves
  <2> QED
    BY <1>1, <1>10, <2>1
<1>11. ASSUME NEW c \in Clients, Write(c)
       PROVE  Gone'
  <2>0. UNCHANGED <<variant, client>> /\ Serves(c) /\ client[c].at # "off"
    BY <1>11 DEF Write, limits, Serves, SidesInv, Come
  <2>1. CASE /\ net' = [net EXCEPT ![c].down = @ + 1]
             /\ worker' = [worker EXCEPT ![c] =
                             [at |-> IF @.hold = 1 THEN "read" ELSE "write",
                              hold |-> @.hold - 1, by |-> @.by]]
             /\ UNCHANGED child
    <3>1. \A d \in Clients : net'[d].reset = net[d].reset
      BY <1>0, <2>1 DEF NetType
    <3>2. \A d \in Clients : worker'[d] = worker[d] \/ worker'[d].at \in {"read", "write"}
      BY <1>0, <2>1
    <3> QED
      BY <1>1, <2>0, <2>1, <3>1, <3>2
  <2>2. CASE /\ ~Connected(c) /\ net' = [net EXCEPT ![c].reset = TRUE]
             /\ worker' = [worker EXCEPT ![c] = [at |-> "read", hold |-> 0, by |-> @.by]]
             /\ UNCHANGED child
    <3>1. client[c].at = "gone"
      BY <2>0, <2>2 DEF Connected
    <3>2. \A d \in Clients : net'[d].reset = net[d].reset \/ d = c
      BY <1>0, <2>2 DEF NetType
    <3>3. \A d \in Clients : worker'[d] = worker[d] \/ worker'[d].at = "read"
      BY <1>0, <2>2
    <3> QED
      BY <1>1, <2>0, <2>2, <3>1, <3>2, <3>3
  <2>3. CASE variant = "tcp" /\ UNCHANGED <<net, child>>
    BY <1>1, <2>0, <2>3
  <2>4. CASE net[c].reset /\ WorkerEnds(c) /\ UNCHANGED net
    <3>1. client[c].at = "gone"
      BY <2>4 DEF SidesInv, Gone
    <3> QED
      BY <1>10, <2>0, <2>4, <3>1
  <2> QED
    BY <1>11, <2>1, <2>2, <2>3, <2>4 DEF Write
<1>12. ASSUME NEW c \in Clients, ReadDone(c)
       PROVE  Gone'
  <2>1. client[c].at = "gone" /\ Serves(c)
    BY <1>0, <1>12 DEF ReadDone, Connected, Serves, SidesInv, Come
  <2> QED
    BY <1>10, <1>12, <2>1 DEF ReadDone, limits
<1>13. ASSUME NEW c \in Clients, Connect(c) \/ Sent(c) \/ Type(c)
       PROVE  Gone'
  BY <1>2, <1>13 DEF Connect, Sent, Type, serving, limits
<1>14. ASSUME NEW c \in Clients, Send(c) \/ Receive(c)
       PROVE  Gone'
  <2>1. \A d \in Clients : net'[d].reset = net[d].reset
    <3>1. CASE Send(c)
      BY <1>0, <3>1 DEF Send, NetType
    <3>2. CASE Receive(c)
      <4>1. UNCHANGED net
            \/ \E n \in 1 .. SmallerOf(BufLen, net[c].down) : net' = [net EXCEPT ![c].down = @ - n]
        BY <3>2 DEF Receive
      <4> QED
        BY <1>0, <4>1 DEF NetType
    <3> QED
      BY <1>14, <3>1, <3>2
  <2> QED
    BY <1>1, <1>14, <2>1 DEF Send, Receive, limits, serving
<1>15. ASSUME NEW c \in Clients, Leave(c)
       PROVE  Gone'
  <2>1. client'[c].at = "gone" /\ \A d \in Clients : d # c => net'[d] = net[d]
    BY <1>0, <1>15 DEF Leave
  <2> QED
    BY <1>1, <1>15, <2>1 DEF Leave, limits, serving
<1> QED
  BY <1>2, <1>3, <1>4, <1>5, <1>6, <1>7, <1>8, <1>9, <1>11, <1>12, <1>13, <1>14, <1>15
  DEF Next, Main, Serve, GoOn, User, vars

(* All of it holds in every reachable state.                               *)
LEMMA SidesInvariant == Spec => []SidesInv
<1>1. Init => SidesInv
  <2>1. Init => Come /\ Named /\ Gone
    BY DEF Init, Come, Named, Gone, Waiting
  <2> QED
    BY <2>1, SidesInit DEF SidesInv
<1>2. SidesInv /\ EchoInv /\ [Next]_vars => SidesInv'
  BY SidesNext, ComeNext, GoneNext DEF SidesInv
<1> QED
  BY <1>1, <1>2, EchoInvariant, PTL DEF Spec

(* A step that takes a connection from a client that stays is one that     *)
(* may: every other step leaves it where it was, with main(), in the       *)
(* queue, with the child or with its worker.                               *)
LEMMA EndsAlone ==
  ASSUME SidesInv, EchoInv, [Next]_vars, NEW c \in Clients,
         Connected(c), Held(c), Connected(c)', ~Held(c)'
  PROVE  MayLose(c)
<1>0. /\ server \in ServerType /\ worker \in [Clients -> Workers]
      /\ child \in [Clients -> {"none", "alive", "zombie"}]
  BY DEF EchoInv, EchoTypes
<1>w. UNCHANGED queue => UNCHANGED Waiting
  BY DEF Waiting
(* Each of those that held it still does.                                  *)
<1>1. ASSUME c \in open \cup Waiting => c \in open' \cup Waiting',
             child[c] = "alive" => child'[c] = "alive" \/ Serves(c)',
             Serves(c) => Serves(c)'
      PROVE  FALSE
  BY <1>1 DEF Held
<1>2. CASE UNCHANGED <<queue, open, child, worker>>
  BY <1>1, <1>2, <1>w DEF Serves
<1>3. CASE Startup \/ AcceptFails
  BY <1>2, <1>3 DEF Startup, AcceptFails, vars
<1>4. CASE Accept
  <2>1. c \in open \cup Waiting => c \in open' \cup Waiting'
    BY <1>4, InQueue DEF Accept
  <2>2. UNCHANGED child /\ (worker'[c] = worker[c] \/ worker'[c].at = "read")
    BY <1>0, <1>4 DEF Accept
  <2> QED
    BY <1>1, <2>1, <2>2 DEF Serves
<1>5. CASE Fork
  <2>1. UNCHANGED <<queue, open, worker>> /\ (child[c] = "alive" => child'[c] = "alive")
    BY <1>5 DEF Fork
  <2> QED
    BY <1>1, <1>w, <2>1 DEF Serves
<1>6. CASE Close
  <2>0. variant = "tcp_mul" /\ UNCHANGED <<queue, child, worker>> /\ open' = open \ server.new_fd
    BY <1>6 DEF Close, EchoInv, EchoTypes, OthersKeep
  <2>1. c \in server.new_fd
    BY <1>1, <1>w, <2>0 DEF Serves
  <2>2. child[c] # "alive" /\ ~Serves(c)
    BY <1>1, <2>0 DEF Held, Serves
  <2>3. CASE child[c] = "zombie"
    <3>1. worker[c].at = "over"
      BY <1>0, <2>0, <2>2, <2>3 DEF SidesInv, Gone, Serves, Workers, Places
    <3> QED
      BY <2>0, <3>1 DEF SidesInv, Gone, Connected
  <2> QED
    BY <1>0, <2>0, <2>1, <2>2, <2>3 DEF MayLose
<1>7. CASE Create
  <2>1. CASE ServerDies
    <3>1. variant = "tcp_thread" /\ room = 0
      <4>1. server' # [server EXCEPT !.at = "accept"]
        BY <1>0, <2>1 DEF ServerDies, ServerType
      <4> QED
        BY <1>7, <4>1 DEF Create
    <3> QED
      BY <3>1 DEF MayLose
  <2>2. CASE ~ServerDies
    <3>1. UNCHANGED <<queue, open, child>> /\ (worker'[c] = worker[c] \/ worker'[c].at = "read")
      BY <1>7, <2>2 DEF Create
    <3> QED
      BY <1>1, <1>w, <3>1 DEF Serves
  <2> QED
    BY <2>1, <2>2
<1>8. ASSUME NEW d \in Clients, ForkAgain(d)
      PROVE  FALSE
  <2>1. UNCHANGED <<queue, open, child>> /\ (worker'[c] = worker[c] \/ worker'[c].at = "read")
    BY <1>0, <1>8 DEF ForkAgain
  <2> QED
    BY <1>1, <1>w, <2>1 DEF Serves
<1>9. ASSUME NEW d \in Clients, ChildExits(d)
      PROVE  FALSE
  <2>1. UNCHANGED <<queue, open, worker>> /\ (d # c => child'[c] = child[c])
    BY <1>0, <1>9 DEF ChildExits
  <2>2. d = c => Serves(c)'
    <3>1. variant = "tcp_mul"
      BY <1>9 DEF ChildExits, EchoInv, EchoTypes, OthersKeep
    <3>2. d = c => worker[c].at \notin {"none", "over"}
      BY <1>9, <3>1 DEF ChildExits, SidesInv, Named, Gone, Connected
    <3> QED
      BY <1>0, <2>1, <3>2 DEF Serves, Workers, Places
  <2> QED
    BY <1>1, <1>w, <2>1, <2>2 DEF Serves
<1>10. ASSUME NEW d \in Clients, Read(d)
       PROVE  FALSE
  <2>1. UNCHANGED <<queue, open, child>> /\ (worker'[c] = worker[c] \/ worker'[c].at = "write")
    BY <1>0, <1>10 DEF Read
  <2> QED
    BY <1>1, <1>w, <2>1 DEF Serves
(* The end of another's worker.                                            *)
<1>11. ASSUME NEW d \in Clients, WorkerEnds(d), d # c, UNCHANGED <<queue, open>>
       PROVE  FALSE
  <2>1. worker'[c] = worker[c] /\ child'[c] = child[c]
    BY <1>0, <1>11 DEF WorkerEnds
  <2> QED
    BY <1>1, <1>11, <1>w, <2>1 DEF Serves
<1>12. ASSUME NEW d \in Clients, Write(d)
       PROVE  MayLose(c)
  <2>1. CASE UNCHANGED <<queue, open, child>> /\ worker'[d].at \in {"read", "write"}
             /\ \A b \in Clients : b # d => worker'[b] = worker[b]
    BY <1>1, <1>w, <2>1 DEF Serves
  <2>2. CASE net[d].reset /\ variant = "tcp"
    <3>1. d # c
      BY <2>2 DEF SidesInv, Gone, Connected
    <3> QED
      BY <2>2, <3>1 DEF MayLose
  <2>3. CASE net[d].reset /\ WorkerEnds(d) /\ UNCHANGED <<queue, open>>
    <3>1. d # c
      BY <2>3 DEF SidesInv, Gone, Connected
    <3> QED
      BY <1>11, <2>3, <3>1
  <2> QED
    BY <1>0, <1>12, <2>1, <2>2, <2>3 DEF Write
<1>13. ASSUME NEW d \in Clients, ReadDone(d)
       PROVE  FALSE
  <2>1. d # c
    BY <1>13 DEF ReadDone
  <2> QED
    BY <1>11, <1>13, <2>1 DEF ReadDone
<1>14. ASSUME NEW d \in Clients, Connect(d)
       PROVE  FALSE
  <2>1. UNCHANGED <<open, child, worker>> /\ Waiting \subseteq Waiting'
    BY <1>14, InQueue DEF Connect
  <2> QED
    BY <1>1, <2>1 DEF Serves
<1>15. ASSUME NEW d \in Clients, GoOn(d) \/ Type(d) \/ Leave(d)
       PROVE  MayLose(c)
  BY <1>2, <1>15 DEF GoOn, Send, Sent, Receive, Type, Leave, serving
<1> QED
  BY <1>2, <1>3, <1>4, <1>5, <1>6, <1>7, <1>8, <1>9, <1>10, <1>12, <1>13, <1>14, <1>15
  DEF Next, Main, Serve, User, vars

(* No step of another connection ends one whose client stays, unless       *)
(* fork() failed for it, pthread_create() fails, or in tcp/ another client *)
(* left before its echo came (tcp_mul/tcp_server.c:69-105,                 *)
(* tcp_thread/tcp_server.c:98, tcp/tcp_server.c:85).                       *)
THEOREM OthersStayServed == Spec => OneEndsAlone
<1>1. ASSUME SidesInv, EchoInv, [Next]_vars
      PROVE  [\A c \in Clients :
                Connected(c) /\ Held(c) /\ Connected(c)' /\ ~Held(c)' => MayLose(c)]_vars
  BY <1>1, EndsAlone
<1> QED
  BY <1>1, SidesInvariant, EchoInvariant, PTL DEF Spec, OneEndsAlone
=============================================================================
