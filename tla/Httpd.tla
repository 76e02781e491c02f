------------------------------- MODULE Httpd -------------------------------
(***************************************************************************)
(* The web server of httpd/: the accept loop of main.c, one detached       *)
(* thread per connection running handler_request of httpd.c, and the CGI   *)
(* program each thread may fork (the programs of sql_connect/ and of       *)
(* cgi-bin/).  Threads share one descriptor table; a forked program gets   *)
(* a copy of all of it.  A step is a system call, or a run of calls that   *)
(* no other actor can tell apart from one.                                 *)
(*                                                                         *)
(* Abstractions.  A request is a record; its line and its headers arrive   *)
(* whole (HttpLine models how they are cut into lines).  Bytes are         *)
(* numbers: the k-th byte of a body, of a file or of a program's output is *)
(* k.  A program reads the whole body before it prints, as all the         *)
(* programs of the repository do.                                          *)
(***************************************************************************)
EXTENDS Integers, Sequences

CONSTANTS
  Conns,     \* connections; a client opens each of them at most once
  Requests,  \* the requests a client may make
  Fds,       \* descriptor numbers left beside stdio and the listening socket
  PipeCap,   \* bytes a pipe holds
  DirSize,   \* what stat() reports as the size of a directory
  Leavers,   \* the connections whose client may hang up before it is served
  Faults,    \* what the whole system may run short of: "thread", "fork", "files"
  None

(* One descriptor kind for each descriptor variable of the handler.        *)
Kinds == {"sock", "file", "inR", "inW", "outR", "outW"}
PipeKinds == {"inR", "inW", "outR", "outW"}

(* target: what the path names.  "dir" is a directory with an index.html,  *)
(* "bare" one without.  clen is -1 for no Content-Length header.  len is   *)
(* the length of the file, or of the output of the program.                *)
RequestType ==
  [method : {"GET", "POST", "other"}, query : BOOLEAN,
   target : {"missing", "file", "dir", "bare", "exec"},
   clen : Nat \cup {-1}, len : Nat]

ASSUME HttpdAssumption ==
  /\ Requests \subseteq RequestType
  /\ Fds \subseteq Nat
  /\ PipeCap \in Nat \ {0}
  /\ DirSize \in Nat
  /\ Leavers \subseteq Conns
  /\ None \notin Fds
  /\ None \notin Requests
  /\ None \notin Kinds \X Conns

Object == Kinds \X Conns   \* the open files, sockets and pipe ends

VARIABLES
  req, sent, left,   \* client: its request, how far it sent it, whether it hung up
  backlog,           \* connections listen() queued for accept()
  up, new_fd,        \* the server process is alive; main()'s new_fd
  fdtab,             \* the server's descriptor table
  pc, local,         \* per handler thread: where it is, its descriptor variables
  code,              \* the return code that ended the handler or its callee
  clen, i,           \* exe_cgi's content_len, and bytes relayed to the program
  inbuf, outbuf,     \* contents of the pipes to and from the program
  cpc, cfds,         \* per program: where it is, the open objects it holds
  got, wrote,        \* bytes it has read, number of bytes it has printed
  reply              \* what was sent on the connection

client == <<req, sent, left>>
worker == <<pc, local, code, clen, i>>
program == <<cpc, cfds, got, wrote>>
pipes == <<inbuf, outbuf>>
vars == <<client, backlog, up, new_fd, fdtab, worker, pipes, program, reply>>

-----------------------------------------------------------------------------
(* The decisions of handler_request.                                       *)

(* cgi: a POST, a '?' in the URL, or an executable that is no directory.   *)
IsCgi(r) == r.method = "POST" \/ r.query \/ r.target = "exec"

(* The path exe_cgi runs: a directory had /index.html appended to it.      *)
Runs(r) == r.target = "exec"

(* The size echo_www passes to sendfile is st_size of what was stat()ed:   *)
(* for a directory, of the directory and not of its index.html.            *)
ServedSize(r) ==
  IF r.target = "dir" /\ DirSize < r.len THEN DirSize ELSE r.len

Bytes(n) == [k \in 1..n |-> k]

(* What else may be sent: the header lines of echo_www and of exe_cgi, and *)
(* text that exit() flushed from the stdio buffer fork() copied.           *)
StatusLines == -1
CgiLines == -2
Stray == 0

BodyLen(r) == IF r.clen > 0 THEN r.clen ELSE 0

-----------------------------------------------------------------------------
(* Descriptors.                                                            *)

Free == {f \in Fds : fdtab[f] = None}
InServer(o) == \E f \in Fds : fdtab[f] = o
Held(o) == InServer(o) \/ \E k \in Conns : o \in cfds[k]

(* The kernel hands out the lowest free numbers.                           *)
IsLowest(f, S) == f \in S /\ \A g \in S : f <= g

OpenOne(c, kind) ==
  \E f \in Free :
    /\ IsLowest(f, Free)
    /\ fdtab' = [fdtab EXCEPT ![f] = <<kind, c>>]
    /\ local' = [local EXCEPT ![c][kind] = f]

OpenPipe(c, rd, wr) ==
  \E r, w \in Free :
    /\ IsLowest(r, Free)
    /\ IsLowest(w, Free \ {r})
    /\ fdtab' = [fdtab EXCEPT ![r] = <<rd, c>>, ![w] = <<wr, c>>]
    /\ local' = [local EXCEPT ![c][rd] = r, ![c][wr] = w]

(* pipe() fails: fewer than two numbers are free, or the system can open   *)
(* no more files although some are.                                        *)
NoRoomForPipe == "files" \in Faults \/ \A r, w \in Free : r = w

(* close() of the descriptors in variables S of thread c.                  *)
Close(c, S) ==
  /\ fdtab' = [f \in Fds |-> IF \E k \in S : local[c][k] = f
                             THEN None ELSE fdtab[f]]
  /\ local' = [local EXCEPT ![c] = [k \in Kinds |-> IF k \in S THEN None ELSE @[k]]]

(* send() on the connection: what a client that hung up misses.            *)
Deliver(c, bytes) ==
  reply' = IF left[c] THEN reply ELSE [reply EXCEPT ![c] = @ \o bytes]

At(c, l) == up /\ pc[c] = l
Goto(c, l) == pc' = [pc EXCEPT ![c] = l]
Return(c, n, l) == Goto(c, l) /\ code' = [code EXCEPT ![c] = n]

-----------------------------------------------------------------------------
(* The client.  sent counts: the request line, the end of the headers,     *)
(* and then the bytes of the body.                                         *)

ClientConnect(c) ==
  /\ up /\ req[c] = None
  /\ \E r \in Requests : req' = [req EXCEPT ![c] = r]
  /\ backlog' = backlog \cup {c}
  /\ UNCHANGED <<sent, left, up, new_fd, fdtab, worker, pipes, program, reply>>

ClientSend(c) ==
  /\ req[c] # None /\ ~left[c]
  /\ sent[c] < 2 + BodyLen(req[c])
  /\ sent' = [sent EXCEPT ![c] = @ + 1]
  /\ UNCHANGED <<req, left, backlog, up, new_fd, fdtab, worker, pipes, program, reply>>

ClientLeave(c) ==
  /\ c \in Leavers
  /\ req[c] # None /\ ~left[c]
  /\ left' = [left EXCEPT ![c] = TRUE]
  /\ UNCHANGED <<req, sent, backlog, up, new_fd, fdtab, worker, pipes, program, reply>>

-----------------------------------------------------------------------------
(* main(): when accept() fails, for want of a free number or of files, the *)
(* loop goes round, which changes nothing.                                 *)

Accept(c) ==
  /\ up /\ new_fd = None /\ c \in backlog
  /\ \E f \in Free :
       /\ IsLowest(f, Free)
       /\ fdtab' = [fdtab EXCEPT ![f] = <<"sock", c>>]
       /\ new_fd' = f
  /\ backlog' = backlog \ {c}
  /\ UNCHANGED <<client, up, worker, pipes, program, reply>>

(* Slip: main() closes new_fd after starting the thread too, as the father *)
(* of tcp_mul/ does after a fork().                                        *)
CreateThreadClosing(c) ==
  /\ up /\ new_fd # None /\ fdtab[new_fd] = <<"sock", c>>
  /\ new_fd' = None
  /\ local' = [local EXCEPT ![c]["sock"] = new_fd]
  /\ fdtab' = [fdtab EXCEPT ![new_fd] = None]
  /\ Goto(c, "request")
  /\ UNCHANGED <<client, backlog, up, code, clen, i, pipes, program, reply>>

CreateThread(c) ==
  /\ up /\ new_fd # None /\ fdtab[new_fd] = <<"sock", c>>
  /\ new_fd' = None
  /\ \/ /\ local' = [local EXCEPT ![c]["sock"] = new_fd]
        /\ Goto(c, "request")
        /\ UNCHANGED <<fdtab, code>>
     \/ /\ "thread" \in Faults
        /\ fdtab' = [fdtab EXCEPT ![new_fd] = None]
        /\ Return(c, -1, "done")
        /\ UNCHANGED local
  /\ UNCHANGED <<client, backlog, up, clen, i, pipes, program, reply>>

-----------------------------------------------------------------------------
(* handler_request(): the request line.  A refused request is answered     *)
(* with nothing (echo_string is empty) and its headers stay unread.        *)

ReadRequest(c) ==
  /\ At(c, "request")
  /\ \/ sent[c] = 0 /\ left[c] /\ Return(c, 5, "close")
     \/ sent[c] > 0 /\ req[c].method = "other" /\ Return(c, 6, "close")
     \/ sent[c] > 0 /\ req[c].method # "other" /\ req[c].target = "missing"
                    /\ Return(c, 7, "close")
     \/ /\ sent[c] > 0 /\ req[c].method # "other" /\ req[c].target # "missing"
        /\ Goto(c, "headers")
        /\ UNCHANGED code
  /\ UNCHANGED <<client, backlog, up, new_fd, fdtab, local, clen, i, pipes, program, reply>>

(* drop_header(), or exe_cgi's search for Content-Length.  If the client   *)
(* left before the end of the headers, the one line may be in or out.      *)
ReadHeaders(c) ==
  /\ At(c, "headers")
  /\ sent[c] > 1 \/ left[c]
  /\ \/ /\ ~IsCgi(req[c])
        /\ Goto(c, "open")
        /\ UNCHANGED <<code, clen>>
     \/ /\ IsCgi(req[c]) /\ req[c].method = "GET"
        /\ Goto(c, "head")
        /\ UNCHANGED <<code, clen>>
     \/ /\ req[c].method = "POST"
        /\ \E n \in {req[c].clen} \cup (IF sent[c] > 1 THEN {} ELSE {-1}) :
             /\ clen' = [clen EXCEPT ![c] = n]
             /\ IF n = -1 THEN Return(c, 10, "close")
                ELSE Goto(c, "head") /\ UNCHANGED code
  /\ UNCHANGED <<client, backlog, up, new_fd, fdtab, local, i, pipes, program, reply>>

-----------------------------------------------------------------------------
(* echo_www()                                                              *)

OpenFile(c) ==
  /\ At(c, "open")
  /\ \/ /\ req[c].target # "bare"
        /\ OpenOne(c, "file")
        /\ Goto(c, "status")
        /\ UNCHANGED code
     \/ /\ req[c].target = "bare" \/ Free = {} \/ "files" \in Faults
        /\ Return(c, 8, "close")
        /\ UNCHANGED <<fdtab, local>>
  /\ UNCHANGED <<client, backlog, up, new_fd, clen, i, pipes, program, reply>>

SendStatus(c) ==
  /\ At(c, "status")
  /\ Deliver(c, <<StatusLines>>)
  /\ Goto(c, "sendfile")
  /\ UNCHANGED <<client, backlog, up, new_fd, fdtab, local, code, clen, i, pipes, program>>

(* A failed sendfile() returns without closing the file.                   *)
SendFile(c) ==
  /\ At(c, "sendfile")
  /\ \/ /\ Deliver(c, Bytes(ServedSize(req[c])))
        /\ Goto(c, "closefile")
        /\ UNCHANGED code
     \/ /\ left[c]
        /\ Return(c, 9, "close")
        /\ UNCHANGED reply
  /\ UNCHANGED <<client, backlog, up, new_fd, fdtab, local, clen, i, pipes, program>>

(* Slip: the file stays open.                                              *)
CloseFileForgotten(c) ==
  /\ At(c, "closefile")
  /\ Goto(c, "close")
  /\ UNCHANGED <<client, backlog, up, new_fd, fdtab, local, code, clen, i, pipes,
                 program, reply>>

CloseFile(c) ==
  /\ At(c, "closefile")
  /\ Close(c, {"file"})
  /\ Goto(c, "close")
  /\ UNCHANGED <<client, backlog, up, new_fd, code, clen, i, pipes, program, reply>>

-----------------------------------------------------------------------------
(* exe_cgi(), after the headers                                            *)

SendHead(c) ==
  /\ At(c, "head")
  /\ Deliver(c, <<CgiLines>>)
  /\ Goto(c, "pipeIn")
  /\ UNCHANGED <<client, backlog, up, new_fd, fdtab, local, code, clen, i, pipes, program>>

PipeIn(c) ==
  /\ At(c, "pipeIn")
  /\ \/ /\ OpenPipe(c, "inR", "inW")
        /\ Goto(c, "pipeOut")
        /\ UNCHANGED code
     \/ /\ NoRoomForPipe
        /\ Return(c, 11, "close")
        /\ UNCHANGED <<fdtab, local>>
  /\ UNCHANGED <<client, backlog, up, new_fd, clen, i, pipes, program, reply>>

(* Slip: a failed pipe() leaves the thread, past the end label.            *)
PipeOutLeaving(c) ==
  /\ At(c, "pipeOut")
  /\ \/ /\ OpenPipe(c, "outR", "outW")
        /\ Goto(c, "fork")
        /\ UNCHANGED code
     \/ /\ NoRoomForPipe
        /\ Return(c, 12, "done")
        /\ UNCHANGED <<fdtab, local>>
  /\ UNCHANGED <<client, backlog, up, new_fd, clen, i, pipes, program, reply>>

(* Returns 12 with the first pipe open.                                    *)
PipeOut(c) ==
  /\ At(c, "pipeOut")
  /\ \/ /\ OpenPipe(c, "outR", "outW")
        /\ Goto(c, "fork")
        /\ UNCHANGED code
     \/ /\ NoRoomForPipe
        /\ Return(c, 12, "close")
        /\ UNCHANGED <<fdtab, local>>
  /\ UNCHANGED <<client, backlog, up, new_fd, clen, i, pipes, program, reply>>

(* The child gets every descriptor the process has, those of the other     *)
(* threads included.  A failed fork() returns 13 with both pipes open.     *)
Fork(c) ==
  /\ At(c, "fork")
  /\ \/ /\ cpc' = [cpc EXCEPT ![c] = "forked"]
        /\ cfds' = [cfds EXCEPT ![c] = {o \in Object : InServer(o)}]
        /\ Goto(c, "closeInR")
        /\ UNCHANGED code
     \/ /\ "fork" \in Faults
        /\ Return(c, 13, "close")
        /\ UNCHANGED <<cpc, cfds>>
  /\ UNCHANGED <<client, backlog, up, new_fd, fdtab, local, clen, i, pipes, got, wrote, reply>>

CloseInR(c) ==
  /\ At(c, "closeInR")
  /\ Close(c, {"inR"})
  /\ Goto(c, "closeOutW")
  /\ UNCHANGED <<client, backlog, up, new_fd, code, clen, i, pipes, program, reply>>

(* Slip: the father keeps the write end of the output pipe.                *)
CloseOutWForgotten(c) ==
  /\ At(c, "closeOutW")
  /\ Goto(c, IF req[c].method = "POST" THEN "body" ELSE "relay")
  /\ UNCHANGED <<client, backlog, up, new_fd, fdtab, local, code, clen, i, pipes,
                 program, reply>>

CloseOutW(c) ==
  /\ At(c, "closeOutW")
  /\ Close(c, {"outW"})
  /\ Goto(c, IF req[c].method = "POST" THEN "body" ELSE "relay")
  /\ UNCHANGED <<client, backlog, up, new_fd, code, clen, i, pipes, program, reply>>

(* Slips: the byte is written before it is received; an error is passed on.*)
BodyByteLate(c) == i[c]
BodyByteError(c) == IF sent[c] - 2 > i[c] THEN i[c] + 1 ELSE -1

(* What recv() leaves in ch: the next byte of the body or, once a client   *)
(* that left has no more, the last one again (0 if there was none).        *)
BodyByte(c) ==
  IF sent[c] - 2 > i[c] THEN i[c] + 1 ELSE IF sent[c] > 2 THEN sent[c] - 2 ELSE 0

BodyReady(c) == i[c] < clen[c] /\ (sent[c] - 2 > i[c] \/ left[c])

RelayBody(c) ==
  /\ At(c, "body")
  /\ \/ /\ BodyReady(c) /\ Held(<<"inR", c>>) /\ Len(inbuf[c]) < PipeCap
        /\ inbuf' = [inbuf EXCEPT ![c] = Append(@, BodyByte(c))]
        /\ i' = [i EXCEPT ![c] = @ + 1]
        /\ UNCHANGED pc
     \/ /\ i[c] >= clen[c]
        /\ Goto(c, "relay")
        /\ UNCHANGED <<inbuf, i>>
  /\ UNCHANGED <<client, backlog, up, new_fd, fdtab, local, code, clen, outbuf, program, reply>>

(* Slips: a loop that stops at the first empty read, and a do-while loop   *)
(* that sends ch once more after the end of file.                          *)
RelayOutputHasty(c) ==
  /\ At(c, "relay")
  /\ \/ /\ outbuf[c] # <<>>
        /\ Deliver(c, <<Head(outbuf[c])>>)
        /\ outbuf' = [outbuf EXCEPT ![c] = Tail(@)]
        /\ UNCHANGED pc
     \/ /\ outbuf[c] = <<>>
        /\ Goto(c, "wait")
        /\ UNCHANGED <<outbuf, reply>>
  /\ UNCHANGED <<client, backlog, up, new_fd, fdtab, local, code, clen, i, inbuf, program>>
RelayOutputTwice(c) ==
  /\ At(c, "relay")
  /\ \/ /\ outbuf[c] # <<>>
        /\ Deliver(c, <<Head(outbuf[c])>>)
        /\ outbuf' = [outbuf EXCEPT ![c] = Tail(@)]
        /\ UNCHANGED pc
     \/ /\ outbuf[c] = <<>> /\ ~Held(<<"outW", c>>)
        /\ Deliver(c, <<reply[c][Len(reply[c])]>>)
        /\ Goto(c, "wait")
        /\ UNCHANGED outbuf
  /\ UNCHANGED <<client, backlog, up, new_fd, fdtab, local, code, clen, i, inbuf, program>>

(* read() gives a byte, or 0 once no process holds the write end.          *)
RelayOutput(c) ==
  /\ At(c, "relay")
  /\ \/ /\ outbuf[c] # <<>>
        /\ Deliver(c, <<Head(outbuf[c])>>)
        /\ outbuf' = [outbuf EXCEPT ![c] = Tail(@)]
        /\ UNCHANGED pc
     \/ /\ outbuf[c] = <<>> /\ ~Held(<<"outW", c>>)
        /\ Goto(c, "wait")
        /\ UNCHANGED <<outbuf, reply>>
  /\ UNCHANGED <<client, backlog, up, new_fd, fdtab, local, code, clen, i, inbuf, program>>

WaitProgram(c) ==
  /\ At(c, "wait")
  /\ cpc[c] = "zombie"
  /\ cpc' = [cpc EXCEPT ![c] = "reaped"]
  /\ Goto(c, "closePipes")
  /\ UNCHANGED <<client, backlog, up, new_fd, fdtab, local, code, clen, i, pipes,
                 cfds, got, wrote, reply>>

ClosePipes(c) ==
  /\ At(c, "closePipes")
  /\ Close(c, {"inW", "outR"})
  /\ Goto(c, "close")
  /\ UNCHANGED <<client, backlog, up, new_fd, code, clen, i, pipes, program, reply>>

(* The end label of handler_request().                                     *)
CloseSock(c) ==
  /\ At(c, "close")
  /\ Close(c, {"sock"})
  /\ Goto(c, "done")
  /\ UNCHANGED <<client, backlog, up, new_fd, code, clen, i, pipes, program, reply>>

(* Nothing ignores SIGPIPE: a send to a client that left, or a write to a  *)
(* pipe nobody can read, may end the process with all its threads.         *)
Sigpipe(c) ==
  /\ up
  /\ \/ left[c] /\ pc[c] \in {"status", "sendfile", "head"}
     \/ left[c] /\ pc[c] = "relay" /\ outbuf[c] # <<>>
     \/ pc[c] = "body" /\ BodyReady(c) /\ ~Held(<<"inR", c>>)
  /\ up' = FALSE
  /\ fdtab' = [f \in Fds |-> None]
  /\ new_fd' = None
  /\ local' = [k \in Conns |-> [x \in Kinds |-> None]]
  /\ backlog' = {}
  /\ pc' = [k \in Conns |-> IF pc[k] \in {"idle", "done"} THEN pc[k] ELSE "killed"]
  /\ UNCHANGED <<client, code, clen, i, pipes, program, reply>>

-----------------------------------------------------------------------------
(* The program: the child branch of exe_cgi(), then the CGI main()s.  Each *)
(* exit closes every descriptor the process holds.                         *)

Exit(c) ==
  /\ cpc' = [cpc EXCEPT ![c] = "zombie"]
  /\ cfds' = [cfds EXCEPT ![c] = {}]

(* The child closes two pipe ends of its own and calls execl(); if that    *)
(* fails, exit(1) may flush a copy of the server's stdio buffer into the   *)
(* response.                                                               *)
ExecClosing(c, kinds) ==
  /\ cpc[c] = "forked"
  /\ \/ /\ Runs(req[c])
        /\ cpc' = [cpc EXCEPT ![c] = "run"]
        /\ cfds' = [cfds EXCEPT ![c] = @ \ (kinds \X {c})]
        /\ UNCHANGED outbuf
     \/ /\ ~Runs(req[c])
        /\ Exit(c)
        /\ \E s \in {<<>>, <<Stray>>} : outbuf' = [outbuf EXCEPT ![c] = @ \o s]
  /\ UNCHANGED <<client, backlog, up, new_fd, fdtab, worker, inbuf, got, wrote, reply>>

(* Slip: the program keeps the write end of its input.                     *)
ExecKeeping(c) == ExecClosing(c, {"outR"})

Exec(c) == ExecClosing(c, {"inW", "outR"})

WantsBody(c) == req[c].method = "POST" /\ Len(got[c]) < clen[c]

(* read(0, &buf[i], 1) counts even when it returns 0 (then it reads -1).   *)
ProgramRead(c) ==
  /\ cpc[c] = "run" /\ WantsBody(c)
  /\ \/ /\ inbuf[c] # <<>>
        /\ got' = [got EXCEPT ![c] = Append(@, Head(inbuf[c]))]
        /\ inbuf' = [inbuf EXCEPT ![c] = Tail(@)]
     \/ /\ inbuf[c] = <<>> /\ ~Held(<<"inW", c>>)
        /\ got' = [got EXCEPT ![c] = Append(@, -1)]
        /\ UNCHANGED inbuf
  /\ UNCHANGED <<client, backlog, up, new_fd, fdtab, worker, outbuf, cpc, cfds, wrote, reply>>

ProgramWrite(c) ==
  /\ cpc[c] = "run" /\ ~WantsBody(c) /\ wrote[c] < req[c].len
  /\ \/ /\ Held(<<"outR", c>>) /\ Len(outbuf[c]) < PipeCap
        /\ outbuf' = [outbuf EXCEPT ![c] = Append(@, wrote[c] + 1)]
        /\ wrote' = [wrote EXCEPT ![c] = @ + 1]
        /\ UNCHANGED <<cpc, cfds>>
     \/ /\ ~Held(<<"outR", c>>)
        /\ Exit(c)
        /\ UNCHANGED <<outbuf, wrote>>
  /\ UNCHANGED <<client, backlog, up, new_fd, fdtab, worker, inbuf, got, reply>>

ProgramExit(c) ==
  /\ cpc[c] = "run" /\ ~WantsBody(c) /\ wrote[c] = req[c].len
  /\ Exit(c)
  /\ UNCHANGED <<client, backlog, up, new_fd, fdtab, worker, pipes, got, wrote, reply>>

-----------------------------------------------------------------------------
Init ==
  /\ req = [c \in Conns |-> None]
  /\ sent = [c \in Conns |-> 0]
  /\ left = [c \in Conns |-> FALSE]
  /\ backlog = {}
  /\ up = TRUE
  /\ new_fd = None
  /\ fdtab = [f \in Fds |-> None]
  /\ pc = [c \in Conns |-> "idle"]
  /\ local = [c \in Conns |-> [k \in Kinds |-> None]]
  /\ code = [c \in Conns |-> 0]
  /\ clen = [c \in Conns |-> -1]
  /\ i = [c \in Conns |-> 0]
  /\ inbuf = [c \in Conns |-> <<>>]
  /\ outbuf = [c \in Conns |-> <<>>]
  /\ cpc = [c \in Conns |-> "none"]
  /\ cfds = [c \in Conns |-> {}]
  /\ got = [c \in Conns |-> <<>>]
  /\ wrote = [c \in Conns |-> 0]
  /\ reply = [c \in Conns |-> <<>>]

Client(c) == ClientConnect(c) \/ ClientSend(c)

Main(c) == Accept(c) \/ CreateThread(c)

Worker(c) ==
  \/ ReadRequest(c) \/ ReadHeaders(c)
  \/ OpenFile(c) \/ SendStatus(c) \/ SendFile(c) \/ CloseFile(c)
  \/ SendHead(c) \/ PipeIn(c) \/ PipeOut(c) \/ Fork(c) \/ CloseInR(c) \/ CloseOutW(c)
  \/ RelayBody(c) \/ RelayOutput(c) \/ WaitProgram(c) \/ ClosePipes(c)
  \/ CloseSock(c) \/ Sigpipe(c)

Program(c) == Exec(c) \/ ProgramRead(c) \/ ProgramWrite(c) \/ ProgramExit(c)

(* Every connection of the instance has been dealt with: the server rests  *)
(* in accept(), or it is dead and so are its programs.                     *)
Quiescent ==
  /\ \A c \in Conns : /\ ~up \/ pc[c] = "done"
                      /\ cpc[c] \notin {"forked", "run"}
  /\ UNCHANGED vars

Next ==
  \/ \E c \in Conns : Client(c) \/ ClientLeave(c) \/ Main(c) \/ Worker(c) \/ Program(c)
  \/ Quiescent

(* Whenever a client in the middle of its request, the accept loop, a      *)
(* thread or a program can take a step, some such step is taken.  No order *)
(* among them is assumed (each of them ends, so none can starve another);  *)
(* a client need not connect, and need not hang up.                        *)
Fairness ==
  WF_vars(\E c \in Conns : ClientSend(c) \/ Main(c) \/ Worker(c) \/ Program(c))

Spec == Init /\ [][Next]_vars
FairSpec == Spec /\ Fairness
=============================================================================
