---------------------------- MODULE HttpdProps ----------------------------
(***************************************************************************)
(* What the server of module Httpd must never do, what it must eventually  *)
(* do, and the service it implements.                                      *)
(***************************************************************************)
EXTENDS Httpd

Stages ==
  {"idle", "request", "headers", "open", "status", "sendfile", "closefile",
   "head", "pipeIn", "pipeOut", "fork", "closeInR", "closeOutW", "body",
   "relay", "wait", "closePipes", "close", "done", "killed"}

(* The type invariant, by actor.                                           *)
ClientType ==
  /\ req \in [Conns -> Requests \cup {None}]
  /\ sent \in [Conns -> Nat]
  /\ left \in [Conns -> BOOLEAN]
  /\ backlog \subseteq Conns
ServerType ==
  /\ up \in BOOLEAN
  /\ new_fd \in Fds \cup {None}
  /\ fdtab \in [Fds -> Object \cup {None}]
WorkerType ==
  /\ pc \in [Conns -> Stages]
  /\ local \in [Conns -> [Kinds -> Fds \cup {None}]]
  /\ code \in [Conns -> -1..13]
  /\ clen \in [Conns -> Nat \cup {-1}]
  /\ i \in [Conns -> Nat]
PipeType ==
  /\ inbuf \in [Conns -> Seq(Nat)]
  /\ outbuf \in [Conns -> Seq(Nat)]
ProgramType ==
  /\ cpc \in [Conns -> {"none", "forked", "run", "zombie", "reaped"}]
  /\ cfds \in [Conns -> SUBSET Object]
  /\ got \in [Conns -> Seq(Nat \cup {-1})]
  /\ wrote \in [Conns -> Nat]
ReplyType == reply \in [Conns -> Seq(Int)]

TypeOK == ClientType /\ ServerType /\ WorkerType /\ PipeType /\ ProgramType /\ ReplyType

-----------------------------------------------------------------------------
(* The descriptor variables a thread at stage l still has a use for.       *)
InUse(l) ==
  CASE l \in {"idle", "done", "killed"} -> {}
    [] l \in {"status", "sendfile", "closefile"} -> {"sock", "file"}
    [] l = "pipeOut" -> {"sock", "inR", "inW"}
    [] l \in {"fork", "closeInR"} -> {"sock"} \cup PipeKinds
    [] l = "closeOutW" -> {"sock", "inW", "outR", "outW"}
    [] l \in {"body", "relay", "wait", "closePipes"} -> {"sock", "inW", "outR"}
    [] OTHER -> {"sock"}

(* main() holds the socket of a connection whose thread has not started.   *)
MainHolds ==
  new_fd # None => \E c \in Conns : fdtab[new_fd] = <<"sock", c>> /\ pc[c] = "idle"

(* A thread holds every number it still needs.                             *)
NeededHeld == \A c \in Conns : \A k \in InUse(pc[c]) : local[c][k] # None

(* A number a thread holds names the open file it was given for.           *)
NumbersMatch ==
  \A c \in Conns, k \in Kinds : local[c][k] # None => fdtab[local[c][k]] = <<k, c>>

(* A descriptor number is recycled as soon as it is closed, so a thread    *)
(* that used one too long would read, write or close the socket of another *)
(* connection.  Whatever number main() or a thread holds is still its own  *)
(* (main.c:33 passes the number itself, httpd.c closes each one once).     *)
DescriptorsValid == MainHolds /\ NeededHeld /\ NumbersMatch

(* What is left open by each return of exe_cgi and echo_www.               *)
LeakOf(n) ==
  CASE n = 9 -> {"file"}
    [] n = 12 -> {"inR", "inW"}
    [] n = 13 -> PipeKinds
    [] OTHER -> {}

(* The descriptors a finished connection leaves in the server's table are  *)
(* exactly those its failed call forgot (httpd.c:112, 178, 195); every     *)
(* other way through the handler gives all of them back.                   *)
LeaksAccounted ==
  up => \A c \in Conns : pc[c] = "done" =>
    {k \in Kinds : InServer(<<k, c>>)} = LeakOf(code[c])

(* The end of file that ends the relay loop (httpd.c:252) never comes      *)
(* before the program's exit, so no output is cut off, waitpid() (256)     *)
(* finds a child to reap at once, and no handler leaves a zombie behind.   *)
ProgramReaped ==
  \A c \in Conns :
    /\ pc[c] = "wait" => cpc[c] = "zombie"
    /\ pc[c] \in {"closePipes", "close", "done"} => cpc[c] \in {"none", "reaped"}

(* The program reads, in order, the bytes the client sent it; anything     *)
(* else it reads takes the place of bytes a client that left did not send, *)
(* or of those that were lost with the server (httpd.c:244-248).           *)
BodyIntact ==
  \A c \in Conns : LET seen == got[c] \o inbuf[c] IN
    \A k \in 1..Len(seen) : seen[k] = k \/ (left[c] /\ k > sent[c] - 2) \/ ~up

-----------------------------------------------------------------------------
(* The client sees the end of the response when nobody holds the socket.   *)
Ended(c) == c \notin backlog /\ ~Held(<<"sock", c>>)

(* Orphans forked while each other's pipes were open.                      *)
KeptByAnother(c) ==
  ~up /\ \E k \in Conns \ {c} : cfds[k] \cap {<<"inW", c>>, <<"outR", c>>} # {}

(* Every connection is in the end closed for its client, although programs *)
(* forked for other connections hold its socket and its pipes as well, and *)
(* although the server may die: only programs that outlive it may keep     *)
(* each other's pipes, and their clients, for ever (httpd.c:191-206).      *)
EveryConnectionEnds ==
  <>[]\A c \in Conns :
        req[c] # None => Ended(c) \/ \E k \in Conns : KeptByAnother(k)

-----------------------------------------------------------------------------
(* The service.                                                            *)

CompleteAnswers(r) ==
  IF r.method = "other" \/ r.target = "missing" THEN {<<>>}
  ELSE IF ~IsCgi(r)
  THEN IF r.target = "bare" THEN {<<>>} ELSE {<<StatusLines>> \o Bytes(ServedSize(r))}
  ELSE IF r.method = "POST" /\ r.clen = -1 THEN {<<>>}
  ELSE IF Runs(r) THEN {<<CgiLines>> \o Bytes(r.len)}
  ELSE {<<CgiLines>>, <<CgiLines, Stray>>}

Phase(c) ==
  IF req[c] = None THEN "none"
  ELSE IF ~up \/ pc[c] = "done" THEN "closed" ELSE "open"

Excused(c) == left[c] \/ ~up \/ code[c] \in {-1, 8, 9, 11, 12, 13}

Service == INSTANCE HttpService WITH
  Answers <- [r \in Requests |-> CompleteAnswers(r)],
  ask <- req,
  phase <- [c \in Conns |-> Phase(c)],
  excused <- [c \in Conns |-> Excused(c)],
  answer <- reply

(* The server implements the service: what is sent on a connection is a    *)
(* prefix of a complete answer to its request, and the handler closes the  *)
(* connection of a client that stayed on a complete one unless one of its  *)
(* system calls failed.                                                    *)
ImplementsService == Service!Spec
=============================================================================
