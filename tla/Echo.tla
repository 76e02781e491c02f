-------------------------------- MODULE Echo --------------------------------
(***************************************************************************)
(* The three socket examples.  tcp/ answers one connection after another,  *)
(* tcp_mul/ has a process for each, forked twice so that init reaps it,    *)
(* tcp_thread/ a detached thread.  Their clients differ as well: only that *)
(* of tcp/ reads what comes back, only that of tcp_mul/ ends by itself.    *)
(* Bytes are counted; a socket holds SockCap of them in each direction.    *)
(***************************************************************************)
EXTENDS Integers, Sequences, FiniteSets

CONSTANTS
  Clients,   \* the client processes, each of which connects once
  MaxLine,   \* bytes of the longest line a client sends (1022 in the code)
  BufLen,    \* bytes one read() takes (1023 in the code)
  SockCap,   \* bytes a socket holds for a reader that does not read
  Rooms,     \* how many processes or threads the system may have left
  FdLimits   \* how many connections the server may have descriptors for

ASSUME EchoAssumption ==
  /\ IsFiniteSet(Clients)
  /\ MaxLine \in Nat /\ Rooms \subseteq Nat /\ FdLimits \subseteq Nat
  /\ BufLen \in Nat \ {0} /\ SockCap \in Nat \ {0}

VARIABLES
  variant,   \* the directory: "tcp", "tcp_mul" or "tcp_thread"
  server,    \* main(): where it is, its new_fd, whether it listens
  queue,     \* connections accept() has not returned
  open,      \* connections main() holds a descriptor of
  room, fds, \* processes or threads that can be added; descriptors for them
  client,    \* of each client: where it is, bytes left to write, whether its
             \* last line had any
  net,       \* of each connection: bytes on the way up and down, whether reset
  worker,    \* who serves it: where it is, bytes to echo, who that is
  child      \* tcp_mul: the process forked first

vars == <<variant, server, queue, open, room, fds, client, net, worker, child>>
limits == <<variant, fds>>
serving == <<server, queue, open, room, worker, child>>

Waiting == {queue[i] : i \in DOMAIN queue}
Serves(c) == worker[c].at \in {"read", "write"}
Connected(c) == client[c].at \notin {"off", "gone"}

(* A process of the server holds the connection.                           *)
Held(c) == c \in open \cup Waiting \/ child[c] = "alive" \/ Serves(c)

SmallerOf(m, n) == IF m < n THEN m ELSE n

-----------------------------------------------------------------------------
(* startup().  A failure ends two of the servers; that of tcp_thread       *)
(* returns an error code, which main() takes for the socket.               *)
Listens ==
  /\ server.at = "startup"
  /\ server' = [server EXCEPT !.at = "accept", !.listening = TRUE]

StartupExits ==
  /\ server.at = "startup" /\ variant # "tcp_thread"
  /\ server' = [server EXCEPT !.at = "dead"]

StartupReturns ==
  /\ server.at = "startup" /\ variant = "tcp_thread"
  /\ server' = [server EXCEPT !.at = "accept"]

Startup ==
  /\ Listens \/ StartupExits \/ StartupReturns
  /\ UNCHANGED <<limits, queue, open, room, client, net, worker, child>>

(* accept(); tcp/ goes on to serve the connection itself.                  *)
Accept ==
  /\ server.at = "accept" /\ queue # <<>> /\ Cardinality(open) < fds
  /\ queue' = Tail(queue)
  /\ open' = open \cup {Head(queue)}
  /\ server' = [server EXCEPT !.new_fd = {Head(queue)},
                  !.at = IF variant = "tcp" THEN "serve" ELSE "start"]
  /\ worker' = IF variant = "tcp"
               THEN [worker EXCEPT ![Head(queue)] =
                       [at |-> "read", hold |-> 0, by |-> "main"]]
               ELSE worker
  /\ UNCHANGED <<limits, room, client, net, child>>

(* It fails, and is called again.                                          *)
AcceptFails ==
  /\ server.at = "accept"
  /\ \/ ~server.listening
     \/ queue # <<>> /\ Cardinality(open) >= fds
  /\ UNCHANGED vars

(* tcp_mul: the first fork().                                              *)
Fork ==
  /\ server.at = "start" /\ variant = "tcp_mul"
  /\ server' = [server EXCEPT !.at = "close"]
  /\ IF room = 0 THEN UNCHANGED <<room, child>>
     ELSE /\ room' = room - 1
          /\ child' = [c \in Clients |->
                         IF c \in server.new_fd THEN "alive" ELSE child[c]]
  /\ UNCHANGED <<limits, queue, open, client, net, worker>>

(* Slip: the father keeps new_fd.                                          *)
CloseForgotten ==
  /\ server.at = "close"
  /\ server' = [server EXCEPT !.at = "accept"]
  /\ UNCHANGED <<limits, queue, open, room, client, net, worker, child>>

(* close(new_fd), in the father and when fork() failed; nobody waits for   *)
(* the child.                                                              *)
Close ==
  /\ server.at = "close"
  /\ server' = [server EXCEPT !.at = "accept"]
  /\ open' = open \ server.new_fd
  /\ UNCHANGED <<limits, queue, room, client, net, worker, child>>

(* Slip: the child exits when the second fork() fails as well.             *)
ForkOrExit(c) ==
  /\ child[c] = "alive" /\ worker[c].at = "none"
  /\ IF room > 0
     THEN /\ room' = room - 1 /\ UNCHANGED child
          /\ worker' = [worker EXCEPT ![c] =
                           [at |-> "read", hold |-> 0, by |-> "grandchild"]]
     ELSE child' = [child EXCEPT ![c] = "zombie"] /\ UNCHANGED <<room, worker>>
  /\ UNCHANGED <<limits, server, queue, open, client, net>>

(* tcp_mul: the second fork().  When it fails it is not > 0, and the child *)
(* serves the connection itself.                                           *)
ForkAgain(c) ==
  /\ child[c] = "alive" /\ worker[c].at = "none"
  /\ room' = IF room = 0 THEN 0 ELSE room - 1
  /\ worker' = [worker EXCEPT ![c] =
       [at |-> "read", hold |-> 0, by |-> IF room = 0 THEN "child" ELSE "grandchild"]]
  /\ UNCHANGED <<limits, server, queue, open, client, net, child>>

(* Its father's exit(0).                                                   *)
ChildExits(c) ==
  /\ child[c] = "alive" /\ worker[c].by = "grandchild"
  /\ child' = [child EXCEPT ![c] = "zombie"]
  /\ UNCHANGED <<limits, server, queue, open, room, client, net, worker>>

(* The process ends: threads and main()'s own connection with it.          *)
ServerDies ==
  /\ server' = [server EXCEPT !.at = "dead"]
  /\ open' = {} /\ queue' = <<>>
  /\ worker' = [c \in Clients |-> IF worker[c].by \in {"main", "thread"}
                                  THEN [worker[c] EXCEPT !.at = "over"]
                                  ELSE worker[c]]

(* tcp_thread: pthread_create(), whose failure nobody sees; the id that    *)
(* pthread_detach() is then given was never set.                           *)
Create ==
  /\ server.at = "start" /\ variant = "tcp_thread"
  /\ \/ /\ room > 0
        /\ room' = room - 1
        /\ worker' = [c \in Clients |->
                        IF c \in server.new_fd
                        THEN [at |-> "read", hold |-> 0, by |-> "thread"]
                        ELSE worker[c]]
        /\ server' = [server EXCEPT !.at = "accept"]
        /\ UNCHANGED <<open, queue>>
     \/ /\ room = 0
        /\ server' = [server EXCEPT !.at = "accept"]
        /\ UNCHANGED <<room, worker, open, queue>>
     \/ room = 0 /\ ServerDies /\ UNCHANGED room
  /\ UNCHANGED <<limits, client, net, child>>

-----------------------------------------------------------------------------
(* Slip: every server only prints what it reads.                           *)
ReadOnly(c) ==
  /\ worker[c].at = "read" /\ net[c].up > 0
  /\ \E n \in 1 .. SmallerOf(BufLen, net[c].up) :
       net' = [net EXCEPT ![c].up = @ - n]
  /\ UNCHANGED <<limits, serving, client>>

(* read(new_fd, ...) > 0, of what has come; a thread only prints it.       *)
Read(c) ==
  /\ worker[c].at = "read" /\ net[c].up > 0
  /\ \E n \in 1 .. SmallerOf(BufLen, net[c].up) :
       /\ net' = [net EXCEPT ![c].up = @ - n]
       /\ worker' = IF variant = "tcp_thread" THEN worker
                    ELSE [worker EXCEPT ![c] =
                            [at |-> "write", hold |-> n, by |-> @.by]]
  /\ UNCHANGED <<limits, server, queue, open, room, client, child>>

(* The connection's process or thread ends.  The father of a grandchild is *)
(* gone: init reaps it.                                                    *)
WorkerEnds(c) ==
  /\ worker' = [worker EXCEPT ![c] = [at |-> "over", hold |-> 0, by |-> @.by]]
  /\ room' = IF worker[c].by \in {"grandchild", "thread"} THEN room + 1 ELSE room
  /\ child' = IF worker[c].by = "child" THEN [child EXCEPT ![c] = "zombie"]
                                        ELSE child

(* write(new_fd, ...), as far as there is room.  The first one a client    *)
(* that has gone cannot take is answered by a reset; the next one is told  *)
(* of it, if the client had caused it itself, or kills.                    *)
Write(c) ==
  /\ worker[c].at = "write"
  /\ \/ /\ Connected(c) /\ net[c].down < SockCap
        /\ net' = [net EXCEPT ![c].down = @ + 1]
        /\ worker' = [worker EXCEPT ![c] =
                        [at |-> IF @.hold = 1 THEN "read" ELSE "write",
                         hold |-> @.hold - 1, by |-> @.by]]
        /\ UNCHANGED <<server, queue, open, room, child>>
     \/ /\ ~Connected(c)
        /\ net' = [net EXCEPT ![c].reset = TRUE]
        /\ worker' = [worker EXCEPT ![c] =
                        [at |-> "read", hold |-> 0, by |-> @.by]]
        /\ UNCHANGED <<server, queue, open, room, child>>
     \/ /\ net[c].reset
        /\ IF variant = "tcp" THEN ServerDies /\ UNCHANGED <<room, child>>
           ELSE WorkerEnds(c) /\ UNCHANGED <<server, queue, open>>
        /\ UNCHANGED net
  /\ UNCHANGED <<limits, client>>

(* Slip: only -1 ends the loop.                                            *)
ReadFails(c) ==
  /\ worker[c].at = "read" /\ net[c].reset
  /\ WorkerEnds(c)
  /\ server' = IF variant = "tcp" THEN [server EXCEPT !.at = "accept"] ELSE server
  /\ UNCHANGED <<limits, queue, open, client, net>>

(* read() returns 0, or -1 after a reset.  Only tcp_mul closes new_fd; the *)
(* server of tcp/ goes back to accept().                                   *)
ReadDone(c) ==
  /\ worker[c].at = "read" /\ ~Connected(c)
  /\ net[c].up = 0 \/ net[c].reset
  /\ WorkerEnds(c)
  /\ server' = IF variant = "tcp" THEN [server EXCEPT !.at = "accept"] ELSE server
  /\ UNCHANGED <<limits, queue, open, client, net>>

-----------------------------------------------------------------------------
(* connect(): done as soon as the kernel has queued it, refused when       *)
(* nobody listens.                                                         *)
Connect(c) ==
  /\ client[c].at = "off" /\ server.at # "startup"
  /\ IF server.at # "dead" /\ server.listening
     THEN /\ client' = [client EXCEPT ![c].at = "type"]
          /\ queue' = Append(queue, c)
     ELSE client' = [client EXCEPT ![c].at = "gone"] /\ UNCHANGED queue
  /\ UNCHANGED <<limits, server, open, room, net, worker, child>>

(* A line from stdin.  Two of the clients cut off its end, and may have    *)
(* nothing left to send.                                                   *)
Type(c) ==
  /\ client[c].at = "type"
  /\ \E n \in (IF variant = "tcp_mul" THEN 1 ELSE 0) .. MaxLine :
       client' = [client EXCEPT ![c] = [at |-> "write", left |-> n, asked |-> n > 0]]
  /\ UNCHANGED <<limits, serving, net>>

(* write(sock, ...), as far as there is room.  When the server's end is    *)
(* closed it is lost, or kills the client.                                 *)
Send(c) ==
  /\ client[c].at = "write" /\ client[c].left > 0
  /\ \/ /\ Held(c) /\ net[c].up < SockCap
        /\ net' = [net EXCEPT ![c].up = @ + 1]
        /\ client' = [client EXCEPT ![c].left = @ - 1]
     \/ /\ ~Held(c)
        /\ \/ client' = [client EXCEPT ![c].left = 0]
           \/ client' = [client EXCEPT ![c].at = "gone"]
        /\ UNCHANGED net
  /\ UNCHANGED <<limits, serving>>

Sent(c) ==
  /\ client[c].at = "write" /\ client[c].left = 0
  /\ client' = [client EXCEPT ![c].at =
                  IF variant = "tcp" THEN "read" ELSE "type"]
  /\ UNCHANGED <<limits, serving, net>>

(* tcp: read(sock, ...), which may return less than was sent, and what is  *)
(* left from an earlier line.                                              *)
Receive(c) ==
  /\ client[c].at = "read"
  /\ \/ \E n \in 1 .. SmallerOf(BufLen, net[c].down) :
          net' = [net EXCEPT ![c].down = @ - n]
     \/ net[c].down = 0 /\ ~Held(c) /\ UNCHANGED net
  /\ client' = [client EXCEPT ![c].at = "type"]
  /\ UNCHANGED <<limits, serving>>

(* The end of stdin, which only tcp_mul's client heeds, or a signal from   *)
(* its user.  Echoes nobody read make the kernel reset the connection.     *)
Leave(c) ==
  /\ Connected(c)
  /\ client' = [client EXCEPT ![c] = [at |-> "gone", left |-> 0, asked |-> @.asked]]
  /\ net' = [net EXCEPT ![c] = [up |-> @.up, down |-> 0, reset |-> @.down > 0]]
  /\ UNCHANGED <<limits, serving>>

-----------------------------------------------------------------------------
Init ==
  /\ variant \in {"tcp", "tcp_mul", "tcp_thread"}
  /\ server = [at |-> "startup", new_fd |-> {}, listening |-> FALSE]
  /\ queue = <<>> /\ open = {}
  /\ room \in Rooms /\ fds \in FdLimits
  /\ client = [c \in Clients |-> [at |-> "off", left |-> 0, asked |-> FALSE]]
  /\ net = [c \in Clients |-> [up |-> 0, down |-> 0, reset |-> FALSE]]
  /\ worker = [c \in Clients |-> [at |-> "none", hold |-> 0, by |-> "nobody"]]
  /\ child = [c \in Clients |-> "none"]

Main == Startup \/ Accept \/ Fork \/ Close \/ Create
Serve(c) == ForkAgain(c) \/ ChildExits(c) \/ Read(c) \/ Write(c) \/ ReadDone(c)
GoOn(c) == Send(c) \/ Sent(c) \/ Receive(c)
User(c) == Connect(c) \/ Type(c) \/ Leave(c)

Next ==
  \/ Main \/ AcceptFails
  \/ \E c \in Clients : Serve(c) \/ GoOn(c) \/ User(c)

(* Processes and threads are scheduled and bytes arrive; a user need not   *)
(* do anything.                                                            *)
Spec ==
  /\ Init /\ [][Next]_vars
  /\ WF_vars(Main)
  /\ \A c \in Clients : WF_vars(Serve(c)) /\ WF_vars(GoOn(c))
-----------------------------------------------------------------------------
(* tcp_mul's father keeps no descriptor past the connection's start        *)
(* (tcp_mul/tcp_server.c:73, 104), so that a client nobody serves is told; *)
(* the other two servers keep that of every connection they ever served.   *)
DescriptorsKept ==
  IF variant = "tcp_mul"
  THEN open # {} => server.at \in {"start", "close"} /\ open = server.new_fd
  ELSE server.at # "dead" => {c \in Clients : worker[c].at # "none"} \subseteq open

(* What may take a connection from a client that stays: fork() failing for *)
(* it, pthread_create() failing for another or, in tcp/, another client    *)
(* that left before its echo came.                                         *)
MayLose(c) ==
  CASE variant = "tcp_mul" -> c \in server.new_fd /\ child[c] = "none"
    [] variant = "tcp_thread" -> room = 0
    [] variant = "tcp" -> \E d \in Clients \ {c} : net[d].reset

(* No step of another connection ends one whose client stays, but for that *)
(* (tcp_mul/tcp_server.c:69-105, tcp_thread/tcp_server.c:98,               *)
(* tcp/tcp_server.c:85).                                                   *)
OneEndsAlone ==
  [][\A c \in Clients :
       Connected(c) /\ Held(c) /\ Connected(c)' /\ ~Held(c)' => MayLose(c)]_vars

(* A client that waits is answered, unless its connection is not served    *)
(* yet, or it did not send anything, or the echoes it never read fill the  *)
(* connection (tcp/tcp_client.c:49-50, tcp_mul/tcp_client.c:48).           *)
Answered ==
  \A c \in Clients :
    client[c].at \in {"write", "read"} /\ client[c].asked ~>
      \/ client[c].at \notin {"write", "read"}
      \/ worker[c].at = "none"
      \/ client[c].at = "write" /\ net[c].down = SockCap

(* A client that has gone does not keep whoever serves it                  *)
(* (tcp/tcp_server.c:87-91, tcp_mul/tcp_server.c:93-100).                  *)
GoneIsNoticed ==
  \A c \in Clients : client[c].at = "gone" ~> ~Serves(c)
=============================================================================
