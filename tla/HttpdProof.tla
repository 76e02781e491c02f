----------------------------- MODULE HttpdProof -----------------------------
(***************************************************************************)
(* Proofs about the server of module Httpd, for any number of connections, *)
(* any requests, descriptors and pipe size, and every failure the model    *)
(* has: its descriptors, its programs, the bodies they read, and at last   *)
(* that it implements the service of HttpService.                          *)
(***************************************************************************)
EXTENDS HttpdProps, TLAPS

(* A connection that is queued, accepted or being handled has a request.   *)
Asked ==
  \A c \in Conns :
    (c \in backlog \/ InServer(<<"sock", c>>) \/ pc[c] # "idle") => req[c] # None

(* A queued connection has not been accepted, and one whose thread has not *)
(* started has no descriptor variables.                                    *)
NotStarted ==
  \A c \in Conns :
    /\ c \in backlog => pc[c] = "idle" /\ ~InServer(<<"sock", c>>)
    /\ pc[c] = "idle" => \A k \in Kinds : local[c][k] = None

IInv == TypeOK /\ Asked /\ NotStarted /\ DescriptorsValid

USE HttpdAssumption DEF client, worker, pipes, program

-----------------------------------------------------------------------------
(* The state the server starts in is well typed.                           *)
LEMMA InitTypeOK == Init => TypeOK
  BY DEF Init, TypeOK, Stages, ClientType, ServerType, WorkerType, PipeType, ProgramType, ReplyType

(* A run of bytes is a sequence of numbers.                                *)
LEMMA BytesType == \A n \in Nat : Bytes(n) \in Seq(Int)
  BY DEF Bytes

(* What a send() delivers is appended to the answer.                       *)
LEMMA DeliverType ==
  ASSUME ReplyType, NEW c \in Conns, NEW bytes \in Seq(Int), Deliver(c, bytes)
  PROVE  ReplyType'
  BY DEF ReplyType, Deliver

(* Closing descriptors keeps the table and the descriptor variables typed. *)
LEMMA CloseType ==
  ASSUME ServerType, WorkerType, NEW c \in Conns, NEW S \in SUBSET Kinds, Close(c, S)
  PROVE  /\ fdtab' \in [Fds -> Object \cup {None}]
         /\ local' \in [Conns -> [Kinds -> Fds \cup {None}]]
  BY DEF ServerType, WorkerType, Close

(* A step of a thread that moves it to a stage, perhaps with a code.       *)
LEMMA MoveType ==
  ASSUME WorkerType, NEW c \in Conns,
         (\E l \in Stages : Goto(c, l)) \/ UNCHANGED pc,
         (\E n \in -1..13 : code' = [code EXCEPT ![c] = n]) \/ UNCHANGED code
  PROVE  pc' \in [Conns -> Stages] /\ code' \in [Conns -> -1..13]
<1>1. pc' \in [Conns -> Stages]
  BY DEF WorkerType, Goto
<1>2. code' \in [Conns -> -1..13]
  BY DEF WorkerType
<1> QED
  BY <1>1, <1>2

(* The client's steps keep every type.                                     *)
LEMMA ClientTypeOK ==
  ASSUME TypeOK, NEW c \in Conns, Client(c) \/ ClientLeave(c)
  PROVE  TypeOK'
<1>1. ClientType
  BY DEF TypeOK
<1>2. UNCHANGED <<up, new_fd, fdtab, worker, pipes, program, reply>>
  BY DEF Client, ClientConnect, ClientSend, ClientLeave
<1>3. ServerType' /\ WorkerType'
  BY <1>2 DEF TypeOK, ServerType, WorkerType
<1>4. PipeType' /\ ProgramType' /\ ReplyType'
  BY <1>2 DEF TypeOK, PipeType, ProgramType, ReplyType
<1>5. ASSUME ClientConnect(c)
      PROVE  ClientType'
  BY <1>1, <1>5 DEF ClientConnect, ClientType
<1>6. ASSUME ClientSend(c)
      PROVE  ClientType'
  BY <1>1, <1>6 DEF ClientSend, ClientType
<1>7. ASSUME ClientLeave(c)
      PROVE  ClientType'
  BY <1>1, <1>7 DEF ClientLeave, ClientType
<1> QED
  BY <1>3, <1>4, <1>5, <1>6, <1>7 DEF TypeOK, Client

(* The accept loop's steps keep every type.                                *)
LEMMA MainTypeOK ==
  ASSUME TypeOK, NEW c \in Conns, Main(c)
  PROVE  TypeOK'
<1>0. ClientType /\ ServerType /\ WorkerType
  BY DEF TypeOK
<1>1. PipeType' /\ ProgramType' /\ ReplyType'
  BY DEF Main, Accept, CreateThread, TypeOK, PipeType, ProgramType, ReplyType
<1>2. CASE Accept(c)
  <2>1. ClientType'
    BY <1>0, <1>2 DEF Accept, ClientType
  <2>2. ServerType'
    BY <1>0, <1>2 DEF Accept, ServerType, Object, Kinds, Free
  <2>3. WorkerType'
    BY <1>0, <1>2 DEF Accept, WorkerType
  <2> QED
    BY <1>1, <2>1, <2>2, <2>3 DEF TypeOK
<1>3. CASE CreateThread(c)
  <2>1. ClientType' /\ ServerType'
    BY <1>0, <1>3 DEF CreateThread, ClientType, ServerType
  <2>2. "request" \in Stages /\ "done" \in Stages /\ "sock" \in Kinds
    BY DEF Stages, Kinds
  <2>3. pc' \in [Conns -> Stages] /\ code' \in [Conns -> -1..13]
    BY <1>0, <1>3, <2>2 DEF CreateThread, Goto, Return, WorkerType
  <2>4. local' \in [Conns -> [Kinds -> Fds \cup {None}]]
    BY <1>0, <1>3, <2>2 DEF CreateThread, WorkerType, ServerType
  <2>5. WorkerType'
    BY <1>0, <1>3, <2>3, <2>4 DEF CreateThread, WorkerType
  <2> QED
    BY <1>1, <2>1, <2>5 DEF TypeOK
<1> QED
  BY <1>2, <1>3 DEF Main

(* The step of the new child keeps every type.                             *)
LEMMA ExecType ==
  ASSUME PipeType, ProgramType, NEW c \in Conns, Exec(c)
  PROVE  PipeType' /\ ProgramType'
<1>1. \E s \in Seq(Nat) : outbuf' = [outbuf EXCEPT ![c] = @ \o s]
  <2>1. <<>> \in Seq(Nat) /\ <<Stray>> \in Seq(Nat)
    BY DEF Stray
  <2>2. outbuf = [outbuf EXCEPT ![c] = @ \o <<>>]
    BY DEF PipeType
  <2> QED
    BY <2>1, <2>2 DEF Exec, ExecClosing
<1>2. PipeType'
  BY <1>1 DEF Exec, ExecClosing, PipeType
<1>3. cpc' \in [Conns -> {"none", "forked", "run", "zombie", "reaped"}]
  BY DEF Exec, ExecClosing, Exit, ProgramType
<1>4. cfds' \in [Conns -> SUBSET Object]
  BY DEF Exec, ExecClosing, Exit, ProgramType
<1> QED
  BY <1>2, <1>3, <1>4 DEF Exec, ExecClosing, ProgramType

(* A program's read keeps every type.                                      *)
LEMMA ProgramReadType ==
  ASSUME PipeType, ProgramType, NEW c \in Conns, ProgramRead(c)
  PROVE  PipeType' /\ ProgramType'
<1>1. inbuf[c] \in Seq(Nat)
  BY DEF PipeType
<1>2. inbuf[c] # <<>> => Head(inbuf[c]) \in Nat \cup {-1} /\ Tail(inbuf[c]) \in Seq(Nat)
  BY <1>1
<1>3. inbuf' \in [Conns -> Seq(Nat)]
  BY <1>2 DEF ProgramRead, PipeType
<1>4. \E b \in Nat \cup {-1} : got' = [got EXCEPT ![c] = Append(got[c], b)]
  BY <1>2 DEF ProgramRead
<1>5. \A b \in Nat \cup {-1} : Append(got[c], b) \in Seq(Nat \cup {-1})
  BY DEF ProgramType
<1>6. got' \in [Conns -> Seq(Nat \cup {-1})]
  BY <1>4, <1>5 DEF ProgramType
<1> QED
  BY <1>3, <1>6 DEF ProgramRead, PipeType, ProgramType

(* A program's write keeps every type.                                     *)
LEMMA ProgramWriteType ==
  ASSUME PipeType, ProgramType, NEW c \in Conns, ProgramWrite(c)
  PROVE  PipeType' /\ ProgramType'
<1>1. wrote[c] + 1 \in Nat
  BY DEF ProgramType
<1>2. Append(outbuf[c], wrote[c] + 1) \in Seq(Nat)
  BY <1>1 DEF PipeType
<1>3. PipeType'
  <2>1. UNCHANGED inbuf
        /\ (outbuf' = [outbuf EXCEPT ![c] = Append(@, wrote[c] + 1)] \/ UNCHANGED outbuf)
    BY DEF ProgramWrite
  <2> QED
    BY <1>2, <2>1 DEF PipeType
<1>4. cpc' \in [Conns -> {"none", "forked", "run", "zombie", "reaped"}]
  BY DEF ProgramWrite, Exit, ProgramType
<1>5. cfds' \in [Conns -> SUBSET Object]
  BY DEF ProgramWrite, Exit, ProgramType
<1>6. wrote' \in [Conns -> Nat]
  <2>1. wrote' = [wrote EXCEPT ![c] = @ + 1] \/ UNCHANGED wrote
    BY DEF ProgramWrite
  <2>2. wrote \in [Conns -> Nat]
    BY DEF ProgramType
  <2> QED
    BY <1>1, <2>1, <2>2
<1> QED
  BY <1>3, <1>4, <1>5, <1>6 DEF ProgramWrite, ProgramType

(* The program's steps keep every type.                                    *)
LEMMA ProgramTypeOK ==
  ASSUME TypeOK, NEW c \in Conns, Program(c)
  PROVE  TypeOK'
<1>1. PipeType /\ ProgramType
  BY DEF TypeOK
<1>2. ClientType' /\ ServerType' /\ WorkerType' /\ ReplyType'
  BY DEF Program, Exec, ExecClosing, ProgramRead, ProgramWrite, ProgramExit,
         TypeOK, ClientType, ServerType, WorkerType, ReplyType
<1>3. ASSUME ProgramExit(c)
      PROVE  PipeType' /\ ProgramType'
  BY <1>1, <1>3 DEF ProgramExit, Exit, PipeType, ProgramType
<1>4. PipeType' /\ ProgramType'
  BY <1>1, <1>3, ExecType, ProgramReadType, ProgramWriteType DEF Program
<1> QED
  BY <1>2, <1>4 DEF TypeOK

-----------------------------------------------------------------------------
(* The handler, by what its steps change.                                  *)

(* The request line and the headers.                                       *)
LEMMA ReadTypeOK ==
  ASSUME TypeOK, Asked, NEW c \in Conns, ReadRequest(c) \/ ReadHeaders(c)
  PROVE  TypeOK'
<1>1. ClientType /\ WorkerType
  BY DEF TypeOK
<1>2. ClientType' /\ ServerType' /\ PipeType' /\ ProgramType' /\ ReplyType'
  BY DEF ReadRequest, ReadHeaders, TypeOK, ClientType, ServerType, PipeType,
         ProgramType, ReplyType
<1>3. {"headers", "open", "head", "close"} \subseteq Stages
  BY DEF Stages
<1>4. pc' \in [Conns -> Stages] /\ code' \in [Conns -> -1..13]
  <2>1. \E l \in Stages : Goto(c, l)
    BY <1>3 DEF ReadRequest, ReadHeaders, Return
  <2>2. (\E n \in -1..13 : code' = [code EXCEPT ![c] = n]) \/ UNCHANGED code
    BY DEF ReadRequest, ReadHeaders, Return
  <2> QED
    BY <1>1, <2>1, <2>2, MoveType
<1>5. clen' \in [Conns -> Nat \cup {-1}]
  <2>1. CASE ReadRequest(c)
    BY <1>1, <2>1 DEF ReadRequest, WorkerType
  <2>2. CASE ReadHeaders(c)
    <3>1. req[c] \in Requests
      BY <1>1, <2>2 DEF ReadHeaders, At, Asked, ClientType
    <3>2. req[c].clen \in Nat \cup {-1}
      BY <3>1 DEF RequestType
    <3> QED
      BY <1>1, <2>2, <3>2 DEF ReadHeaders, WorkerType
  <2> QED
    BY <2>1, <2>2
<1>6. WorkerType'
  BY <1>1, <1>4, <1>5 DEF ReadRequest, ReadHeaders, WorkerType
<1> QED
  BY <1>2, <1>6 DEF TypeOK

(* open() and pipe().                                                      *)
LEMMA OpenOneType ==
  ASSUME ServerType, WorkerType, NEW c \in Conns, NEW kind \in Kinds, OpenOne(c, kind)
  PROVE  /\ fdtab' \in [Fds -> Object \cup {None}]
         /\ local' \in [Conns -> [Kinds -> Fds \cup {None}]]
<1>1. PICK f \in Free :
        /\ fdtab' = [fdtab EXCEPT ![f] = <<kind, c>>]
        /\ local' = [local EXCEPT ![c][kind] = f]
  BY DEF OpenOne
<1>2. f \in Fds /\ <<kind, c>> \in Object
  BY DEF Free, Object
<1>3. fdtab' \in [Fds -> Object \cup {None}]
  BY <1>1, <1>2 DEF ServerType
<1>4. local' \in [Conns -> [Kinds -> Fds \cup {None}]]
  BY <1>1, <1>2 DEF WorkerType
<1> QED
  BY <1>3, <1>4

(* Opening a pipe keeps the table and the descriptor variables typed.      *)
LEMMA OpenPipeType ==
  ASSUME ServerType, WorkerType, NEW c \in Conns, NEW rd \in Kinds, NEW wr \in Kinds,
         OpenPipe(c, rd, wr)
  PROVE  /\ fdtab' \in [Fds -> Object \cup {None}]
         /\ local' \in [Conns -> [Kinds -> Fds \cup {None}]]
<1>1. PICK r \in Free, w \in Free :
        /\ fdtab' = [fdtab EXCEPT ![r] = <<rd, c>>, ![w] = <<wr, c>>]
        /\ local' = [local EXCEPT ![c][rd] = r, ![c][wr] = w]
  BY DEF OpenPipe
<1>2. r \in Fds /\ w \in Fds /\ <<rd, c>> \in Object /\ <<wr, c>> \in Object
  BY DEF Free, Object
<1>3. fdtab' \in [Fds -> Object \cup {None}]
  BY <1>1, <1>2 DEF ServerType
<1>4. local' \in [Conns -> [Kinds -> Fds \cup {None}]]
  BY <1>1, <1>2 DEF WorkerType
<1> QED
  BY <1>3, <1>4

(* The handler's steps that open something keep every type.                *)
LEMMA OpenTypeOK ==
  ASSUME TypeOK, NEW c \in Conns, OpenFile(c) \/ PipeIn(c) \/ PipeOut(c)
  PROVE  TypeOK'
<1>1. ServerType /\ WorkerType
  BY DEF TypeOK
<1>2. ClientType' /\ PipeType' /\ ProgramType' /\ ReplyType'
  BY DEF OpenFile, PipeIn, PipeOut, TypeOK, ClientType, PipeType, ProgramType, ReplyType
<1>3. {"status", "pipeOut", "fork", "close"} \subseteq Stages
  BY DEF Stages
<1>4. pc' \in [Conns -> Stages] /\ code' \in [Conns -> -1..13]
  <2>1. \E l \in Stages : Goto(c, l)
    BY <1>3 DEF OpenFile, PipeIn, PipeOut, Return
  <2>2. (\E n \in -1..13 : code' = [code EXCEPT ![c] = n]) \/ UNCHANGED code
    BY DEF OpenFile, PipeIn, PipeOut, Return
  <2> QED
    BY <1>1, <2>1, <2>2, MoveType
<1>5. \/ OpenOne(c, "file") \/ OpenPipe(c, "inR", "inW") \/ OpenPipe(c, "outR", "outW")
      \/ UNCHANGED <<fdtab, local>>
  BY DEF OpenFile, PipeIn, PipeOut
<1>6. {"file", "inR", "inW", "outR", "outW"} \subseteq Kinds
  BY DEF Kinds
<1>7. /\ fdtab' \in [Fds -> Object \cup {None}]
      /\ local' \in [Conns -> [Kinds -> Fds \cup {None}]]
  <2>1. CASE UNCHANGED <<fdtab, local>>
    BY <1>1, <2>1 DEF ServerType, WorkerType
  <2> QED
    BY <1>1, <1>5, <1>6, <2>1, OpenOneType, OpenPipeType
<1>8. ServerType' /\ WorkerType'
  BY <1>1, <1>4, <1>7 DEF OpenFile, PipeIn, PipeOut, ServerType, WorkerType
<1> QED
  BY <1>2, <1>8 DEF TypeOK

(* The steps that only send.                                               *)
LEMMA SendTypeOK ==
  ASSUME TypeOK, Asked, NEW c \in Conns, SendStatus(c) \/ SendFile(c) \/ SendHead(c)
  PROVE  TypeOK'
<1>1. ClientType /\ WorkerType /\ ReplyType
  BY DEF TypeOK
<1>2. ClientType' /\ ServerType' /\ PipeType' /\ ProgramType'
  BY DEF SendStatus, SendFile, SendHead, TypeOK, ClientType, ServerType, PipeType,
         ProgramType
<1>3. {"sendfile", "closefile", "close", "pipeIn"} \subseteq Stages
  BY DEF Stages
<1>4. WorkerType'
  <2>1. \E l \in Stages : Goto(c, l)
    BY <1>3 DEF SendStatus, SendFile, SendHead, Return
  <2>2. (\E n \in -1..13 : code' = [code EXCEPT ![c] = n]) \/ UNCHANGED code
    BY DEF SendStatus, SendFile, SendHead, Return
  <2>3. pc' \in [Conns -> Stages] /\ code' \in [Conns -> -1..13]
    BY <1>1, <2>1, <2>2, MoveType
  <2> QED
    BY <1>1, <2>3 DEF SendStatus, SendFile, SendHead, WorkerType
<1>5. ASSUME SendFile(c)
      PROVE  ReplyType'
  <2>1. req[c] \in Requests
    BY <1>1, <1>5 DEF SendFile, At, Asked, ClientType
  <2>2. ServedSize(req[c]) \in Nat
    BY <2>1 DEF ServedSize, RequestType
  <2>3. Bytes(ServedSize(req[c])) \in Seq(Int)
    BY <2>2, BytesType
  <2>4. CASE Deliver(c, Bytes(ServedSize(req[c])))
    BY <1>1, <2>3, <2>4, DeliverType
  <2>5. CASE UNCHANGED reply
    BY <1>1, <2>5 DEF ReplyType
  <2> QED
    BY <1>5, <2>4, <2>5 DEF SendFile
<1>6. <<StatusLines>> \in Seq(Int) /\ <<CgiLines>> \in Seq(Int)
  BY DEF StatusLines, CgiLines
<1>7. ReplyType'
  BY <1>1, <1>5, <1>6, DeliverType DEF SendStatus, SendHead
<1> QED
  BY <1>2, <1>4, <1>7 DEF TypeOK

(* close(), by the father, of the descriptors it is done with.             *)
LEMMA CloseTypeOK ==
  ASSUME TypeOK, NEW c \in Conns,
         \/ CloseFile(c) \/ CloseInR(c) \/ CloseOutW(c) \/ ClosePipes(c) \/ CloseSock(c)
  PROVE  TypeOK'
<1>1. ServerType /\ WorkerType
  BY DEF TypeOK
<1>2. ClientType' /\ PipeType' /\ ProgramType' /\ ReplyType'
  BY DEF CloseFile, CloseInR, CloseOutW, ClosePipes, CloseSock, TypeOK, ClientType,
         PipeType, ProgramType, ReplyType
<1>3. {"close", "closeOutW", "body", "relay", "done"} \subseteq Stages
  BY DEF Stages
<1>4. pc' \in [Conns -> Stages]
  BY <1>1, <1>3 DEF CloseFile, CloseInR, CloseOutW, ClosePipes, CloseSock, Goto, WorkerType
<1>5. \E S \in SUBSET Kinds : Close(c, S)
  BY DEF CloseFile, CloseInR, CloseOutW, ClosePipes, CloseSock, Kinds
<1>6. ServerType' /\ WorkerType'
  BY <1>1, <1>4, <1>5, CloseType
     DEF CloseFile, CloseInR, CloseOutW, ClosePipes, CloseSock, ServerType, WorkerType
<1> QED
  BY <1>2, <1>6 DEF TypeOK

(* The program is forked, and reaped.                                      *)
LEMMA ForkTypeOK ==
  ASSUME TypeOK, NEW c \in Conns, Fork(c) \/ WaitProgram(c)
  PROVE  TypeOK'
<1>1. WorkerType /\ ProgramType
  BY DEF TypeOK
<1>2. ClientType' /\ ServerType' /\ PipeType' /\ ReplyType'
  BY DEF Fork, WaitProgram, TypeOK, ClientType, ServerType, PipeType, ReplyType
<1>3. {"closeInR", "close", "closePipes"} \subseteq Stages
  BY DEF Stages
<1>4. WorkerType'
  <2>1. \E l \in Stages : Goto(c, l)
    BY <1>3 DEF Fork, WaitProgram, Return
  <2>2. (\E n \in -1..13 : code' = [code EXCEPT ![c] = n]) \/ UNCHANGED code
    BY DEF Fork, WaitProgram, Return
  <2>3. pc' \in [Conns -> Stages] /\ code' \in [Conns -> -1..13]
    BY <1>1, <2>1, <2>2, MoveType
  <2> QED
    BY <1>1, <2>3 DEF Fork, WaitProgram, WorkerType
<1>5. cpc' \in [Conns -> {"none", "forked", "run", "zombie", "reaped"}]
  BY <1>1 DEF Fork, WaitProgram, ProgramType
<1>6. cfds' \in [Conns -> SUBSET Object]
  BY <1>1 DEF Fork, WaitProgram, ProgramType
<1>7. ProgramType'
  BY <1>1, <1>5, <1>6 DEF Fork, WaitProgram, ProgramType
<1> QED
  BY <1>2, <1>4, <1>7 DEF TypeOK

(* The body goes to the program and its output to the client.              *)
LEMMA RelayTypeOK ==
  ASSUME TypeOK, NEW c \in Conns, RelayBody(c) \/ RelayOutput(c)
  PROVE  TypeOK'
<1>1. ClientType /\ WorkerType /\ PipeType /\ ReplyType
  BY DEF TypeOK
<1>2. ClientType' /\ ServerType' /\ ProgramType'
  BY DEF RelayBody, RelayOutput, TypeOK, ClientType, ServerType, ProgramType
<1>3. "relay" \in Stages /\ "wait" \in Stages
  BY DEF Stages
<1>4. i[c] + 1 \in Nat
  BY <1>1 DEF WorkerType
<1>5. WorkerType'
  <2>1. pc' \in [Conns -> Stages]
    <3>1. (\E l \in Stages : Goto(c, l)) \/ UNCHANGED pc
      BY <1>3 DEF RelayBody, RelayOutput
    <3> QED
      BY <1>1, <3>1, MoveType DEF RelayBody, RelayOutput
  <2>2. i' \in [Conns -> Nat]
    BY <1>1, <1>4 DEF RelayBody, RelayOutput, WorkerType
  <2> QED
    BY <1>1, <2>1, <2>2 DEF RelayBody, RelayOutput, WorkerType
<1>6. CASE RelayBody(c)
  <2>1. BodyByte(c) \in Nat
    BY <1>1 DEF BodyByte, ClientType, WorkerType
  <2>2. Append(inbuf[c], BodyByte(c)) \in Seq(Nat)
    BY <1>1, <2>1 DEF PipeType
  <2>3. /\ inbuf' = [inbuf EXCEPT ![c] = Append(@, BodyByte(c))] \/ UNCHANGED inbuf
        /\ UNCHANGED <<outbuf, reply>>
    BY <1>6 DEF RelayBody
  <2>4. PipeType' /\ ReplyType'
    BY <1>1, <2>2, <2>3 DEF PipeType, ReplyType
  <2> QED
    BY <1>2, <1>5, <2>4 DEF TypeOK
<1>7. CASE RelayOutput(c)
  <2>1. outbuf[c] \in Seq(Nat)
    BY <1>1 DEF PipeType
  <2>2. outbuf[c] # <<>> => <<Head(outbuf[c])>> \in Seq(Int) /\ Tail(outbuf[c]) \in Seq(Nat)
    BY <2>1
  <2>3. PipeType'
    <3>1. /\ \/ outbuf[c] # <<>> /\ outbuf' = [outbuf EXCEPT ![c] = Tail(@)]
             \/ UNCHANGED outbuf
          /\ UNCHANGED inbuf
      BY <1>7 DEF RelayOutput
    <3>2. outbuf \in [Conns -> Seq(Nat)] /\ inbuf \in [Conns -> Seq(Nat)]
      BY <1>1 DEF PipeType
    <3>3. outbuf' \in [Conns -> Seq(Nat)]
      BY <2>2, <3>1, <3>2
    <3> QED
      BY <3>1, <3>2, <3>3 DEF PipeType
  <2>4. (\E bytes \in Seq(Int) : Deliver(c, bytes)) \/ UNCHANGED reply
    BY <1>7, <2>2 DEF RelayOutput
  <2>5. UNCHANGED reply => ReplyType'
    BY <1>1 DEF ReplyType
  <2>6. ReplyType'
    BY <1>1, <2>4, <2>5, DeliverType
  <2> QED
    BY <1>2, <1>5, <2>3, <2>6 DEF TypeOK
<1> QED
  BY <1>6, <1>7

(* The signal keeps every type.                                            *)
LEMMA SigpipeTypeOK ==
  ASSUME TypeOK, NEW c \in Conns, Sigpipe(c)
  PROVE  TypeOK'
<1>1. ClientType /\ ServerType /\ WorkerType
  BY DEF TypeOK
<1>2. PipeType' /\ ProgramType' /\ ReplyType'
  BY DEF Sigpipe, TypeOK, PipeType, ProgramType, ReplyType
<1>3. ClientType' /\ ServerType'
  BY <1>1 DEF Sigpipe, ClientType, ServerType
<1>4. "killed" \in Stages
  BY DEF Stages
<1>5. WorkerType'
  BY <1>1, <1>4 DEF Sigpipe, WorkerType
<1> QED
  BY <1>2, <1>3, <1>5 DEF TypeOK

(* Every step keeps every type.                                            *)
LEMMA NextTypeOK ==
  ASSUME TypeOK, Asked, [Next]_vars
  PROVE  TypeOK'
<1>1. ASSUME NEW c \in Conns, Worker(c)
      PROVE  TypeOK'
  BY <1>1, ReadTypeOK, OpenTypeOK, SendTypeOK, CloseTypeOK, ForkTypeOK, RelayTypeOK,
     SigpipeTypeOK DEF Worker
<1>2. CASE UNCHANGED vars
  BY <1>2 DEF vars, TypeOK, ClientType, ServerType, WorkerType, PipeType, ProgramType,
              ReplyType
<1> QED
  BY <1>1, <1>2, ClientTypeOK, MainTypeOK, ProgramTypeOK DEF Next, Quiescent

-----------------------------------------------------------------------------
(* The other conjuncts of IInv.  What a step does to them depends only on  *)
(* how it moves its thread and on which descriptors it opens or closes.    *)
Rest == Asked /\ NotStarted /\ DescriptorsValid

(* What a stage needs are descriptor variables.                            *)
LEMMA InUseKinds == \A l \in Stages : InUse(l) \subseteq Kinds
  BY DEF Stages, InUse, Kinds, PipeKinds

(* A free number is in nobody's variable.                                  *)
LEMMA FreeNotHeld ==
  ASSUME TypeOK, NumbersMatch, NEW f \in Free, NEW c \in Conns, NEW k \in Kinds
  PROVE  local[c][k] # f
<1>1. f \in Fds /\ fdtab[f] = None /\ f # None
  BY DEF Free
<1>2. <<k, c>> # None
  OBVIOUS
<1> QED
  BY <1>1, <1>2 DEF NumbersMatch

(* A thread that moves without opening or closing keeps the descriptors    *)
(* valid.                                                                  *)
LEMMA MoveRest ==
  ASSUME TypeOK, Rest, NEW c \in Conns, NEW l \in Stages,
         pc[c] # "idle", l # "idle", InUse(l) \subseteq InUse(pc[c]), Goto(c, l),
         UNCHANGED <<req, backlog, new_fd, fdtab, local>>
  PROVE  Rest'
<1>1. /\ pc'[c] = l
      /\ \A d \in Conns \ {c} : pc'[d] = pc[d]
  BY DEF Goto, TypeOK, WorkerType
<1>2. Asked'
  BY <1>1 DEF Rest, Asked, InServer
<1>3. NotStarted'
  BY <1>1 DEF Rest, NotStarted, InServer
<1>4. MainHolds'
  BY <1>1 DEF Rest, DescriptorsValid, MainHolds
<1>5. NeededHeld'
  BY <1>1 DEF Rest, DescriptorsValid, NeededHeld
<1>6. NumbersMatch'
  BY DEF Rest, DescriptorsValid, NumbersMatch
<1> QED
  BY <1>2, <1>3, <1>4, <1>5, <1>6 DEF Rest, DescriptorsValid

(* A thread that closes what its next stage does not need keeps them       *)
(* valid.                                                                  *)
LEMMA CloseRest ==
  ASSUME TypeOK, Rest, NEW c \in Conns, NEW l \in Stages, NEW S \in SUBSET Kinds,
         pc[c] # "idle", l # "idle", InUse(l) \subseteq InUse(pc[c]) \ S, Goto(c, l),
         Close(c, S), UNCHANGED <<req, backlog, new_fd>>
  PROVE  Rest'
<1>1. /\ pc'[c] = l
      /\ \A d \in Conns \ {c} : pc'[d] = pc[d]
  BY DEF Goto, TypeOK, WorkerType
<1>2. \A f \in Fds : fdtab'[f] = IF \E k \in S : local[c][k] = f THEN None ELSE fdtab[f]
  BY DEF Close
<1>3. \A d \in Conns, k \in Kinds :
        local'[d][k] = IF d = c /\ k \in S THEN None ELSE local[d][k]
  BY DEF Close, TypeOK, WorkerType
<1>4. \A d \in Conns : InServer(<<"sock", d>>)' => InServer(<<"sock", d>>)
  <2>1. \A d \in Conns : <<"sock", d>> # None
    BY DEF Kinds
  <2> QED
    BY <1>2, <2>1 DEF InServer
<1>5. Asked' /\ NotStarted'
  BY <1>1, <1>3, <1>4 DEF Rest, Asked, NotStarted
<1>6. MainHolds'
  <2> SUFFICES ASSUME new_fd # None
               PROVE  \E d \in Conns : fdtab'[new_fd] = <<"sock", d>> /\ pc'[d] = "idle"
    BY DEF MainHolds
  <2>1. PICK d \in Conns : fdtab[new_fd] = <<"sock", d>> /\ pc[d] = "idle"
    BY DEF Rest, DescriptorsValid, MainHolds
  <2>2. d # c
    BY <2>1
  <2>3. new_fd \in Fds
    BY DEF TypeOK, ServerType
  <2>4. \A k \in S : local[c][k] # new_fd
    BY <2>1, <2>2, <2>3 DEF Rest, DescriptorsValid, NumbersMatch
  <2> QED
    BY <1>1, <1>2, <2>1, <2>2, <2>3, <2>4
<1>7. NeededHeld'
  BY <1>1, <1>3, InUseKinds DEF Rest, DescriptorsValid, NeededHeld, TypeOK, WorkerType
<1>8. NumbersMatch'
  <2> SUFFICES ASSUME NEW d \in Conns, NEW k \in Kinds, local'[d][k] # None
               PROVE  fdtab'[local'[d][k]] = <<k, d>>
    BY DEF NumbersMatch
  <2>1. ~(d = c /\ k \in S) /\ local'[d][k] = local[d][k]
    BY <1>3
  <2>2. local[d][k] \in Fds /\ fdtab[local[d][k]] = <<k, d>>
    BY <2>1 DEF Rest, DescriptorsValid, NumbersMatch, TypeOK, WorkerType
  <2>3. \A j \in S : local[c][j] # local[d][k]
    BY <2>1, <2>2 DEF Rest, DescriptorsValid, NumbersMatch
  <2> QED
    BY <1>2, <2>1, <2>2, <2>3
<1> QED
  BY <1>5, <1>6, <1>7, <1>8 DEF Rest, DescriptorsValid

(* A thread that opens a file keeps them valid.                            *)
LEMMA OpenOneRest ==
  ASSUME TypeOK, Rest, NEW c \in Conns, NEW l \in Stages, NEW kind \in Kinds \ {"sock"},
         pc[c] # "idle", l # "idle", InUse(l) \subseteq InUse(pc[c]) \cup {kind},
         Goto(c, l), OpenOne(c, kind), UNCHANGED <<req, backlog, new_fd>>
  PROVE  Rest'
<1>1. /\ pc'[c] = l
      /\ \A d \in Conns \ {c} : pc'[d] = pc[d]
  BY DEF Goto, TypeOK, WorkerType
<1>2. PICK f \in Free :
        /\ fdtab' = [fdtab EXCEPT ![f] = <<kind, c>>]
        /\ local' = [local EXCEPT ![c][kind] = f]
  BY DEF OpenOne
<1>3. f \in Fds /\ fdtab[f] = None /\ f # None
  BY DEF Free
<1>4. \A g \in Fds : fdtab'[g] = IF g = f THEN <<kind, c>> ELSE fdtab[g]
  BY <1>2 DEF TypeOK, ServerType
<1>5. \A d \in Conns, k \in Kinds :
        local'[d][k] = IF d = c /\ k = kind THEN f ELSE local[d][k]
  BY <1>2 DEF TypeOK, WorkerType
<1>6. \A d \in Conns : InServer(<<"sock", d>>)' => InServer(<<"sock", d>>)
  <2>1. \A d \in Conns : <<"sock", d>> # <<kind, c>>
    OBVIOUS
  <2> QED
    BY <1>4, <2>1 DEF InServer
<1>7. Asked' /\ NotStarted'
  BY <1>1, <1>5, <1>6 DEF Rest, Asked, NotStarted
<1>8. MainHolds'
  <2> SUFFICES ASSUME new_fd # None
               PROVE  \E d \in Conns : fdtab'[new_fd] = <<"sock", d>> /\ pc'[d] = "idle"
    BY DEF MainHolds
  <2>1. PICK d \in Conns : fdtab[new_fd] = <<"sock", d>> /\ pc[d] = "idle"
    BY DEF Rest, DescriptorsValid, MainHolds
  <2>2. <<"sock", d>> # None
    BY DEF Kinds
  <2>3. new_fd \in Fds /\ new_fd # f
    BY <1>3, <2>1, <2>2 DEF TypeOK, ServerType
  <2> QED
    BY <1>1, <1>4, <2>1, <2>3
<1>9. NeededHeld'
  BY <1>1, <1>3, <1>5, InUseKinds DEF Rest, DescriptorsValid, NeededHeld, TypeOK, WorkerType
<1>10. NumbersMatch'
  <2> SUFFICES ASSUME NEW d \in Conns, NEW k \in Kinds, local'[d][k] # None
               PROVE  fdtab'[local'[d][k]] = <<k, d>>
    BY DEF NumbersMatch
  <2>1. CASE d = c /\ k = kind
    BY <1>3, <1>4, <1>5, <2>1
  <2>2. CASE ~(d = c /\ k = kind)
    <3>1. local'[d][k] = local[d][k] /\ local[d][k] \in Fds /\ local[d][k] # f
      BY <1>5, <2>2, FreeNotHeld DEF Rest, DescriptorsValid, TypeOK, WorkerType
    <3> QED
      BY <1>4, <3>1 DEF Rest, DescriptorsValid, NumbersMatch
  <2> QED
    BY <2>1, <2>2
<1> QED
  BY <1>7, <1>8, <1>9, <1>10 DEF Rest, DescriptorsValid

(* A thread that opens a pipe keeps them valid.                            *)
LEMMA OpenPipeRest ==
  ASSUME TypeOK, Rest, NEW c \in Conns, NEW l \in Stages,
         NEW rd \in Kinds \ {"sock"}, NEW wr \in Kinds \ {"sock"}, rd # wr,
         pc[c] # "idle", l # "idle", InUse(l) \subseteq InUse(pc[c]) \cup {rd, wr},
         Goto(c, l), OpenPipe(c, rd, wr), UNCHANGED <<req, backlog, new_fd>>
  PROVE  Rest'
<1>1. /\ pc'[c] = l
      /\ \A d \in Conns \ {c} : pc'[d] = pc[d]
  BY DEF Goto, TypeOK, WorkerType
<1>2. PICK r \in Free, w \in Free :
        /\ r # w
        /\ fdtab' = [fdtab EXCEPT ![r] = <<rd, c>>, ![w] = <<wr, c>>]
        /\ local' = [local EXCEPT ![c][rd] = r, ![c][wr] = w]
  BY DEF OpenPipe, IsLowest
<1>3. \A f \in {r, w} : f \in Fds /\ fdtab[f] = None /\ f # None
  BY DEF Free
<1>4. \A g \in Fds : fdtab'[g] = IF g = r THEN <<rd, c>>
                                 ELSE IF g = w THEN <<wr, c>> ELSE fdtab[g]
  BY <1>2 DEF TypeOK, ServerType
<1>5. \A d \in Conns, k \in Kinds :
        local'[d][k] = IF d = c /\ k = rd THEN r
                       ELSE IF d = c /\ k = wr THEN w ELSE local[d][k]
  BY <1>2 DEF TypeOK, WorkerType
<1>6. \A d \in Conns : InServer(<<"sock", d>>)' => InServer(<<"sock", d>>)
  <2>1. \A d \in Conns : <<"sock", d>> # <<rd, c>> /\ <<"sock", d>> # <<wr, c>>
    OBVIOUS
  <2> QED
    BY <1>4, <2>1 DEF InServer
<1>7. Asked' /\ NotStarted'
  BY <1>1, <1>5, <1>6 DEF Rest, Asked, NotStarted
<1>8. MainHolds'
  <2> SUFFICES ASSUME new_fd # None
               PROVE  \E d \in Conns : fdtab'[new_fd] = <<"sock", d>> /\ pc'[d] = "idle"
    BY DEF MainHolds
  <2>1. PICK d \in Conns : fdtab[new_fd] = <<"sock", d>> /\ pc[d] = "idle"
    BY DEF Rest, DescriptorsValid, MainHolds
  <2>2. <<"sock", d>> # None
    BY DEF Kinds
  <2>3. new_fd \in Fds /\ new_fd # r /\ new_fd # w
    BY <1>3, <2>1, <2>2 DEF TypeOK, ServerType
  <2> QED
    BY <1>1, <1>4, <2>1, <2>3
<1>9. NeededHeld'
  BY <1>1, <1>3, <1>5, InUseKinds DEF Rest, DescriptorsValid, NeededHeld, TypeOK, WorkerType
<1>10. NumbersMatch'
  <2> SUFFICES ASSUME NEW d \in Conns, NEW k \in Kinds, local'[d][k] # None
               PROVE  fdtab'[local'[d][k]] = <<k, d>>
    BY DEF NumbersMatch
  <2>1. CASE d = c /\ k \in {rd, wr}
    <3>1. CASE k = rd
      BY <1>3, <1>4, <1>5, <2>1, <3>1
    <3>2. CASE k = wr
      <4>1. local'[d][k] = w /\ r # w
        BY <1>2, <1>5, <2>1, <3>2
      <4> QED
        BY <1>3, <1>4, <2>1, <3>2, <4>1
    <3> QED
      BY <2>1, <3>1, <3>2
  <2>2. CASE ~(d = c /\ k \in {rd, wr})
    <3>1. local'[d][k] = local[d][k] /\ local[d][k] \in Fds
      BY <1>5, <2>2 DEF TypeOK, WorkerType
    <3>2. local[d][k] # r /\ local[d][k] # w
      BY <1>2, FreeNotHeld DEF Rest, DescriptorsValid
    <3> QED
      BY <1>4, <3>1, <3>2 DEF Rest, DescriptorsValid, NumbersMatch
  <2> QED
    BY <2>1, <2>2
<1> QED
  BY <1>7, <1>8, <1>9, <1>10 DEF Rest, DescriptorsValid

-----------------------------------------------------------------------------
(* The steps of each actor.                                                *)

(* The client's steps keep them valid.                                     *)
LEMMA ClientRest ==
  ASSUME TypeOK, Rest, NEW c \in Conns, Client(c) \/ ClientLeave(c)
  PROVE  Rest'
<1>1. UNCHANGED <<new_fd, fdtab, pc, local>>
  BY DEF Client, ClientConnect, ClientSend, ClientLeave
<1>2. DescriptorsValid'
  BY <1>1 DEF Rest, DescriptorsValid, MainHolds, NeededHeld, NumbersMatch
<1>3. CASE ClientConnect(c)
  <2>1. PICK r \in Requests : req' = [req EXCEPT ![c] = r]
    BY <1>3 DEF ClientConnect
  <2>2. Asked'
    BY <1>1, <1>3, <2>1 DEF ClientConnect, Rest, Asked, InServer, TypeOK, ClientType
  <2>3. NotStarted'
    BY <1>1, <1>3 DEF ClientConnect, Rest, Asked, NotStarted, InServer
  <2> QED
    BY <1>2, <2>2, <2>3 DEF Rest
<1>4. CASE ClientSend(c) \/ ClientLeave(c)
  <2>1. UNCHANGED <<req, backlog>>
    BY <1>4 DEF ClientSend, ClientLeave
  <2> QED
    BY <1>1, <1>2, <2>1 DEF Rest, Asked, NotStarted, InServer
<1> QED
  BY <1>3, <1>4 DEF Client

(* accept() keeps them valid.                                              *)
LEMMA AcceptRest ==
  ASSUME TypeOK, Rest, NEW c \in Conns, Accept(c)
  PROVE  Rest'
<1>1. PICK f \in Free : fdtab' = [fdtab EXCEPT ![f] = <<"sock", c>>] /\ new_fd' = f
  BY DEF Accept
<1>2. f \in Fds /\ fdtab[f] = None
  BY <1>1 DEF Free
<1>3. \A g \in Fds : fdtab'[g] = IF g = f THEN <<"sock", c>> ELSE fdtab[g]
  BY <1>1 DEF TypeOK, ServerType
<1>4. c \in backlog /\ backlog' = backlog \ {c} /\ UNCHANGED <<req, pc, local>>
  BY DEF Accept
<1>5. \A d \in Conns : InServer(<<"sock", d>>)' => InServer(<<"sock", d>>) \/ d = c
  BY <1>3 DEF InServer
<1>6. Asked' /\ NotStarted'
  BY <1>4, <1>5 DEF Rest, Asked, NotStarted
<1>7. MainHolds'
  BY <1>1, <1>2, <1>3, <1>4 DEF Rest, NotStarted, MainHolds
<1>8. NeededHeld'
  BY <1>4 DEF Rest, DescriptorsValid, NeededHeld
<1>9. NumbersMatch'
  <2> SUFFICES ASSUME NEW d \in Conns, NEW k \in Kinds, local[d][k] # None
               PROVE  fdtab'[local[d][k]] = <<k, d>>
    BY <1>4 DEF NumbersMatch
  <2>1. local[d][k] \in Fds /\ local[d][k] # f
    BY FreeNotHeld DEF Rest, DescriptorsValid, TypeOK, WorkerType
  <2> QED
    BY <1>3, <2>1 DEF Rest, DescriptorsValid, NumbersMatch
<1> QED
  BY <1>6, <1>7, <1>8, <1>9 DEF Rest, DescriptorsValid

(* Starting a thread, or failing to, keeps them valid.                     *)
LEMMA CreateThreadRest ==
  ASSUME TypeOK, Rest, NEW c \in Conns, CreateThread(c)
  PROVE  Rest'
<1>1. /\ new_fd \in Fds /\ new_fd # None /\ new_fd' = None
      /\ fdtab[new_fd] = <<"sock", c>>
      /\ UNCHANGED <<req, backlog>>
  BY DEF CreateThread, TypeOK, ServerType
<1>2. pc[c] = "idle" /\ c \notin backlog /\ req[c] # None
  <2>1. PICK d \in Conns : fdtab[new_fd] = <<"sock", d>> /\ pc[d] = "idle"
    BY <1>1 DEF Rest, DescriptorsValid, MainHolds
  <2>2. d = c
    BY <1>1, <2>1
  <2>3. InServer(<<"sock", c>>)
    BY <1>1 DEF InServer
  <2> QED
    BY <2>1, <2>2, <2>3 DEF Rest, Asked, NotStarted
<1>3. \A d \in Conns : d # c => pc'[d] = pc[d] /\ \A k \in Kinds : local'[d][k] = local[d][k]
  BY DEF CreateThread, Goto, Return, TypeOK, WorkerType
<1>4. pc'[c] \in {"request", "done"}
  BY DEF CreateThread, Goto, Return, TypeOK, WorkerType
<1>5. \A f \in Fds : fdtab'[f] = fdtab[f] \/ (f = new_fd /\ fdtab'[f] = None /\ local' = local)
  BY DEF CreateThread, TypeOK, ServerType
<1>6. \A d \in Conns : InServer(<<"sock", d>>)' => InServer(<<"sock", d>>)
  <2>1. \A d \in Conns : <<"sock", d>> # None
    BY DEF Kinds
  <2> QED
    BY <1>5, <2>1 DEF InServer
<1>7. Asked' /\ NotStarted'
  BY <1>1, <1>2, <1>3, <1>4, <1>6 DEF Rest, Asked, NotStarted
<1>8. MainHolds'
  BY <1>1 DEF MainHolds
<1>9. \A k \in Kinds : local[c][k] = None
  BY <1>2 DEF Rest, NotStarted
<1>10. NeededHeld'
  <2>1. \/ /\ pc'[c] = "request"
           /\ local'[c]["sock"] = new_fd
        \/ pc'[c] = "done"
    BY DEF CreateThread, Goto, Return, TypeOK, WorkerType, Kinds
  <2>2. InUse("request") = {"sock"} /\ InUse("done") = {}
    BY DEF InUse
  <2> QED
    BY <1>1, <1>3, <2>1, <2>2, InUseKinds DEF Rest, DescriptorsValid, NeededHeld, TypeOK, WorkerType
<1>11. NumbersMatch'
  <2> SUFFICES ASSUME NEW d \in Conns, NEW k \in Kinds, local'[d][k] # None
               PROVE  fdtab'[local'[d][k]] = <<k, d>>
    BY DEF NumbersMatch
  <2>1. CASE d = c
    <3>1. local' = [local EXCEPT ![c]["sock"] = new_fd] /\ UNCHANGED fdtab
      BY <1>9, <2>1 DEF CreateThread
    <3>2. k = "sock" /\ local'[c][k] = new_fd
      BY <1>9, <2>1, <3>1 DEF TypeOK, WorkerType
    <3> QED
      BY <1>1, <2>1, <3>1, <3>2
  <2>2. CASE d # c
    <3>1. local'[d][k] = local[d][k] /\ local[d][k] \in Fds /\ fdtab[local[d][k]] = <<k, d>>
      BY <1>3, <2>2 DEF Rest, DescriptorsValid, NumbersMatch, TypeOK, WorkerType
    <3>2. local[d][k] # new_fd
      BY <1>1, <2>2, <3>1
    <3> QED
      BY <1>5, <3>1, <3>2
  <2> QED
    BY <2>1, <2>2
<1> QED
  BY <1>7, <1>8, <1>10, <1>11 DEF Rest, DescriptorsValid

(* The program's steps keep them valid.                                    *)
LEMMA ProgramRest ==
  ASSUME Rest, NEW c \in Conns, Program(c)
  PROVE  Rest'
<1>1. UNCHANGED <<req, backlog, new_fd, fdtab, pc, local>>
  BY DEF Program, Exec, ExecClosing, ProgramRead, ProgramWrite, ProgramExit
<1> QED
  BY <1>1 DEF Rest, Asked, NotStarted, InServer, DescriptorsValid, MainHolds, NeededHeld,
              NumbersMatch

(* What each stage of the handler still needs.                             *)
LEMMA InUseStages ==
  /\ \A l \in {"request", "headers", "open", "head", "pipeIn", "close"} : InUse(l) = {"sock"}
  /\ \A l \in {"status", "sendfile", "closefile"} : InUse(l) = {"sock", "file"}
  /\ InUse("pipeOut") = {"sock", "inR", "inW"}
  /\ \A l \in {"fork", "closeInR"} : InUse(l) = {"sock", "inR", "inW", "outR", "outW"}
  /\ InUse("closeOutW") = {"sock", "inW", "outR", "outW"}
  /\ \A l \in {"body", "relay", "wait", "closePipes"} : InUse(l) = {"sock", "inW", "outR"}
  /\ \A l \in {"idle", "done", "killed"} : InUse(l) = {}
  BY DEF InUse, PipeKinds

(* Steps that open and close nothing.                                      *)
LEMMA ForwardRest ==
  ASSUME TypeOK, Rest, NEW c \in Conns,
         \/ ReadRequest(c) \/ ReadHeaders(c) \/ SendStatus(c) \/ SendFile(c) \/ SendHead(c)
         \/ Fork(c) \/ WaitProgram(c)
  PROVE  Rest'
<1>1. UNCHANGED <<req, backlog, new_fd, fdtab, local>>
  BY DEF ReadRequest, ReadHeaders, SendStatus, SendFile, SendHead, Fork, WaitProgram
<1>2. \E l \in Stages : Goto(c, l) /\ l # "idle" /\ InUse(l) \subseteq InUse(pc[c])
  <2>1. \/ pc[c] = "request" /\ (Goto(c, "headers") \/ Goto(c, "close"))
        \/ pc[c] = "headers" /\ (Goto(c, "open") \/ Goto(c, "head") \/ Goto(c, "close"))
        \/ pc[c] = "status" /\ Goto(c, "sendfile")
        \/ pc[c] = "sendfile" /\ (Goto(c, "closefile") \/ Goto(c, "close"))
        \/ pc[c] = "head" /\ Goto(c, "pipeIn")
        \/ pc[c] = "fork" /\ (Goto(c, "closeInR") \/ Goto(c, "close"))
        \/ pc[c] = "wait" /\ Goto(c, "closePipes")
    BY DEF ReadRequest, ReadHeaders, SendStatus, SendFile, SendHead, Fork, WaitProgram,
           At, Return
  <2>2. {"headers", "open", "head", "close", "sendfile", "closefile", "pipeIn", "closeInR",
         "closePipes"} \subseteq Stages
    BY DEF Stages
  <2> QED
    BY <2>1, <2>2, InUseStages
<1>3. pc[c] # "idle"
  BY DEF ReadRequest, ReadHeaders, SendStatus, SendFile, SendHead, Fork, WaitProgram, At
<1> QED
  BY <1>1, <1>2, <1>3, MoveRest

(* The two relay loops keep them valid.                                    *)
LEMMA RelayRest ==
  ASSUME TypeOK, Rest, NEW c \in Conns, RelayBody(c) \/ RelayOutput(c)
  PROVE  Rest'
<1>1. UNCHANGED <<req, backlog, new_fd, fdtab, local>>
  BY DEF RelayBody, RelayOutput
<1>2. CASE UNCHANGED pc
  BY <1>1, <1>2 DEF Rest, Asked, NotStarted, InServer, DescriptorsValid, MainHolds,
                    NeededHeld, NumbersMatch
<1>3. CASE pc' # pc
  <2>1. \/ pc[c] = "body" /\ Goto(c, "relay")
        \/ pc[c] = "relay" /\ Goto(c, "wait")
    BY <1>3 DEF RelayBody, RelayOutput, At
  <2>2. "relay" \in Stages /\ "wait" \in Stages
    BY DEF Stages
  <2>3. \E l \in Stages : Goto(c, l) /\ l # "idle" /\ InUse(l) \subseteq InUse(pc[c])
    BY <2>1, <2>2, InUseStages
  <2> QED
    BY <1>1, <2>1, <2>3, MoveRest
<1> QED
  BY <1>2, <1>3

(* The handler's steps that open something keep them valid.                *)
LEMMA OpenRest ==
  ASSUME TypeOK, Rest, NEW c \in Conns, OpenFile(c) \/ PipeIn(c) \/ PipeOut(c)
  PROVE  Rest'
<1>1. UNCHANGED <<req, backlog, new_fd>>
  BY DEF OpenFile, PipeIn, PipeOut
<1>2. {"file", "inR", "inW", "outR", "outW"} \subseteq Kinds
      /\ {"status", "pipeOut", "fork", "close"} \subseteq Stages
  BY DEF Kinds, Stages
<1>3. pc[c] \in {"open", "pipeIn", "pipeOut"}
  BY DEF OpenFile, PipeIn, PipeOut, At
<1>4. CASE UNCHANGED <<fdtab, local>> /\ Goto(c, "close")
  BY <1>1, <1>2, <1>3, <1>4, InUseStages, MoveRest
<1>5. CASE At(c, "open") /\ OpenOne(c, "file") /\ Goto(c, "status")
  BY <1>1, <1>2, <1>5, InUseStages, OpenOneRest DEF At
<1>6. CASE At(c, "pipeIn") /\ OpenPipe(c, "inR", "inW") /\ Goto(c, "pipeOut")
  BY <1>1, <1>2, <1>6, InUseStages, OpenPipeRest DEF At
<1>7. CASE At(c, "pipeOut") /\ OpenPipe(c, "outR", "outW") /\ Goto(c, "fork")
  BY <1>1, <1>2, <1>7, InUseStages, OpenPipeRest DEF At
<1> QED
  BY <1>4, <1>5, <1>6, <1>7 DEF OpenFile, PipeIn, PipeOut, Return

(* The handler's steps that close something keep them valid.               *)
LEMMA ShutRest ==
  ASSUME TypeOK, Rest, NEW c \in Conns,
         \/ CloseFile(c) \/ CloseInR(c) \/ CloseOutW(c) \/ ClosePipes(c) \/ CloseSock(c)
  PROVE  Rest'
<1>1. UNCHANGED <<req, backlog, new_fd>>
  BY DEF CloseFile, CloseInR, CloseOutW, ClosePipes, CloseSock
<1>2. \/ pc[c] = "closefile" /\ Close(c, {"file"}) /\ Goto(c, "close")
      \/ pc[c] = "closeInR" /\ Close(c, {"inR"}) /\ Goto(c, "closeOutW")
      \/ pc[c] = "closeOutW" /\ Close(c, {"outW"}) /\ (Goto(c, "body") \/ Goto(c, "relay"))
      \/ pc[c] = "closePipes" /\ Close(c, {"inW", "outR"}) /\ Goto(c, "close")
      \/ pc[c] = "close" /\ Close(c, {"sock"}) /\ Goto(c, "done")
  BY DEF CloseFile, CloseInR, CloseOutW, ClosePipes, CloseSock, At
<1>3. \E l \in Stages, S \in SUBSET Kinds :
        Goto(c, l) /\ Close(c, S) /\ l # "idle" /\ InUse(l) \subseteq InUse(pc[c]) \ S
  <2>1. {"close", "closeOutW", "body", "relay", "done"} \subseteq Stages
        /\ {"file", "inR", "outW", "inW", "outR", "sock"} \subseteq Kinds
    BY DEF Stages, Kinds
  <2>2. /\ InUse("close") \subseteq InUse("closefile") \ {"file"}
        /\ InUse("closeOutW") \subseteq InUse("closeInR") \ {"inR"}
        /\ InUse("body") \subseteq InUse("closeOutW") \ {"outW"}
        /\ InUse("relay") \subseteq InUse("closeOutW") \ {"outW"}
        /\ InUse("close") \subseteq InUse("closePipes") \ {"inW", "outR"}
        /\ InUse("done") \subseteq InUse("close") \ {"sock"}
    BY InUseStages
  <2> QED
    BY <1>2, <2>1, <2>2
<1>4. pc[c] # "idle"
  BY <1>2
<1> QED
  BY <1>1, <1>3, <1>4, CloseRest

(* The signal leaves no descriptor, and none in use.                       *)
LEMMA SigpipeRest ==
  ASSUME TypeOK, Rest, NEW c \in Conns, Sigpipe(c)
  PROVE  Rest'
<1>1. /\ fdtab' = [f \in Fds |-> None] /\ new_fd' = None /\ backlog' = {}
      /\ local' = [k \in Conns |-> [x \in Kinds |-> None]]
      /\ pc' = [k \in Conns |-> IF pc[k] \in {"idle", "done"} THEN pc[k] ELSE "killed"]
      /\ UNCHANGED req
  BY DEF Sigpipe
<1>2. \A d \in Conns : ~InServer(<<"sock", d>>)'
  BY <1>1 DEF InServer, Kinds
<1>3. Asked' /\ NotStarted'
  BY <1>1, <1>2 DEF Rest, Asked, NotStarted
<1>4. \A d \in Conns : InUse(pc'[d]) = {}
  BY <1>1, InUseStages
<1>5. DescriptorsValid'
  BY <1>1, <1>4 DEF DescriptorsValid, MainHolds, NeededHeld, NumbersMatch
<1> QED
  BY <1>3, <1>5 DEF Rest

-----------------------------------------------------------------------------
(* At the start nothing is open and nothing in use.                        *)
LEMMA InitRest == Init => Rest
<1> SUFFICES ASSUME Init
             PROVE  Rest
  OBVIOUS
<1>1. Asked
  BY DEF Init, Asked, InServer, Kinds
<1>2. NotStarted
  BY DEF Init, NotStarted, InServer, Kinds
<1>3. DescriptorsValid
  BY InUseStages DEF Init, DescriptorsValid, MainHolds, NeededHeld, NumbersMatch
<1> QED
  BY <1>1, <1>2, <1>3 DEF Rest

(* Every step keeps them valid.                                            *)
LEMMA NextRest ==
  ASSUME TypeOK, Rest, [Next]_vars
  PROVE  Rest'
<1>1. ASSUME NEW c \in Conns, Main(c)
      PROVE  Rest'
  BY <1>1, AcceptRest, CreateThreadRest DEF Main
<1>2. ASSUME NEW c \in Conns, Worker(c)
      PROVE  Rest'
  BY <1>2, ForwardRest, RelayRest, OpenRest, ShutRest, SigpipeRest DEF Worker
<1>3. CASE UNCHANGED vars
  BY <1>3 DEF vars, Rest, Asked, NotStarted, InServer, DescriptorsValid, MainHolds,
              NeededHeld, NumbersMatch
<1> QED
  BY <1>1, <1>2, <1>3, ClientRest, ProgramRest DEF Next, Quiescent

(* The inductive invariant holds in every reachable state.                 *)
LEMMA Invariance == Spec => []IInv
<1>1. Init => IInv
  BY InitTypeOK, InitRest DEF IInv, Rest
<1>2. IInv /\ [Next]_vars => IInv'
  BY NextTypeOK, NextRest DEF IInv, Rest
<1> QED
  BY <1>1, <1>2, PTL DEF Spec

(* Every variable of the server, its threads, its clients and its programs *)
(* keeps its type, whatever the requests and the failures.                 *)
THEOREM TypeCorrect == Spec => []TypeOK
<1>1. IInv => TypeOK
  BY DEF IInv
<1> QED
  BY <1>1, Invariance, PTL

(* No thread ever reads, writes or closes a descriptor that was recycled   *)
(* for another connection, however the accept loop and the handlers        *)
(* interleave their opens and closes.                                      *)
THEOREM DescriptorsStayValid == Spec => []DescriptorsValid
<1>1. IInv => DescriptorsValid
  BY DEF IInv
<1> QED
  BY <1>1, Invariance, PTL

-----------------------------------------------------------------------------
(* What belongs to one connection: nothing but its own client, thread and  *)
(* program changes it, except the signal that ends the server.             *)
OwnState(c) ==
  <<req[c], sent[c], left[c], pc[c], code[c], clen[c], i[c], inbuf[c], outbuf[c],
    cpc[c], cfds[c], got[c], wrote[c], reply[c]>>

OwnStep(c) ==
  Client(c) \/ ClientLeave(c) \/ Main(c) \/ (Worker(c) /\ ~Sigpipe(c)) \/ Program(c)

(* A step of the server is one of a single connection, or the signal that  *)
(* ends the process.                                                       *)
LEMMA Steps ==
  ASSUME [Next]_vars
  PROVE  UNCHANGED vars \/ \E c \in Conns : OwnStep(c) \/ Sigpipe(c)
  BY DEF Next, Quiescent, OwnStep

(* A step of one connection leaves the state of every other one alone.     *)
LEMMA OthersUntouched ==
  ASSUME TypeOK, NEW c \in Conns, NEW d \in Conns \ {c}, OwnStep(c)
  PROVE  UNCHANGED OwnState(d) /\ UNCHANGED up
<1> USE DEF OwnState, OwnStep
<1>0. ClientType /\ WorkerType /\ PipeType /\ ProgramType /\ ReplyType
  BY DEF TypeOK
<1>1. CASE Client(c) \/ ClientLeave(c)
  BY <1>0, <1>1 DEF Client, ClientConnect, ClientSend, ClientLeave, ClientType
<1>2. CASE Main(c)
  BY <1>0, <1>2 DEF Main, Accept, CreateThread, Return, Goto, WorkerType
<1>3. CASE ReadRequest(c) \/ ReadHeaders(c)
  BY <1>0, <1>3 DEF ReadRequest, ReadHeaders, Return, Goto, WorkerType
<1>4. CASE OpenFile(c) \/ PipeIn(c) \/ PipeOut(c)
  BY <1>0, <1>4 DEF OpenFile, PipeIn, PipeOut, Return, Goto, WorkerType
<1>5. CASE SendStatus(c) \/ SendFile(c) \/ SendHead(c)
  BY <1>0, <1>5 DEF SendStatus, SendFile, SendHead, Deliver, Return, Goto, WorkerType, ReplyType
<1>6. CASE \/ CloseFile(c) \/ CloseInR(c) \/ CloseOutW(c) \/ ClosePipes(c) \/ CloseSock(c)
  BY <1>0, <1>6 DEF CloseFile, CloseInR, CloseOutW, ClosePipes, CloseSock, Goto, WorkerType
<1>7. CASE Fork(c) \/ WaitProgram(c)
  BY <1>0, <1>7 DEF Fork, WaitProgram, Return, Goto, WorkerType, ProgramType
<1>8. CASE RelayBody(c)
  BY <1>0, <1>8 DEF RelayBody, Goto, WorkerType, PipeType
<1>9. CASE RelayOutput(c)
  BY <1>0, <1>9 DEF RelayOutput, Deliver, Goto, WorkerType, PipeType, ReplyType
<1>10. CASE Exec(c)
  BY <1>0, <1>10 DEF Exec, ExecClosing, Exit, PipeType, ProgramType
<1>11. CASE ProgramRead(c)
  BY <1>0, <1>11 DEF ProgramRead, PipeType, ProgramType
<1>12. CASE ProgramWrite(c) \/ ProgramExit(c)
  BY <1>0, <1>12 DEF ProgramWrite, ProgramExit, Exit, PipeType, ProgramType
<1> QED
  BY <1>1, <1>2, <1>3, <1>4, <1>5, <1>6, <1>7, <1>8, <1>9, <1>10, <1>11, <1>12
     DEF Worker, Program

-----------------------------------------------------------------------------
(* The programs.                                                           *)
WithProgram == {"closeInR", "closeOutW", "body", "relay"}

ProgramAlong(c) ==
  /\ pc[c] \in Stages \ (WithProgram \cup {"wait", "closePipes", "close", "done", "killed"})
       => cpc[c] = "none"
  /\ pc[c] \in WithProgram => cpc[c] \in {"forked", "run", "zombie"}
  /\ pc[c] = "wait" => cpc[c] = "zombie"
  /\ pc[c] = "closePipes" => cpc[c] = "reaped"
  /\ pc[c] \in {"close", "done"} => cpc[c] \in {"none", "reaped"}
  /\ pc[c] = "killed" => ~up
  /\ cpc[c] \in {"forked", "run"} => <<"outW", c>> \in cfds[c]

(* A descriptor a thread still needs is in the server's table.             *)
LEMMA UsedInServer ==
  ASSUME TypeOK, DescriptorsValid, NEW c \in Conns, NEW k \in InUse(pc[c])
  PROVE  InServer(<<k, c>>) /\ Held(<<k, c>>)
<1>1. pc[c] \in Stages
  BY DEF TypeOK, WorkerType
<1>2. k \in Kinds
  BY <1>1, InUseKinds
<1>3. local[c][k] \in Fds /\ fdtab[local[c][k]] = <<k, c>>
  BY <1>2 DEF DescriptorsValid, NeededHeld, NumbersMatch, TypeOK, WorkerType
<1> QED
  BY <1>3 DEF Held, InServer

(* main() starts one thread for a connection.                              *)
LEMMA NewThreadIdle ==
  ASSUME TypeOK, DescriptorsValid, NEW c \in Conns, CreateThread(c)
  PROVE  pc[c] = "idle"
<1>1. PICK d \in Conns : fdtab[new_fd] = <<"sock", d>> /\ pc[d] = "idle"
  BY DEF DescriptorsValid, MainHolds, CreateThread
<1>2. d = c
  BY <1>1 DEF CreateThread
<1> QED
  BY <1>1, <1>2

(* A step of a connection keeps its handler and its program together.      *)
LEMMA OwnStepAlong ==
  ASSUME TypeOK, DescriptorsValid, NEW c \in Conns, ProgramAlong(c), OwnStep(c)
  PROVE  ProgramAlong(c)'
<1> USE DEF ProgramAlong, WithProgram, OwnStep
<1>0. /\ pc \in [Conns -> Stages]
      /\ cpc \in [Conns -> {"none", "forked", "run", "zombie", "reaped"}]
      /\ cfds \in [Conns -> SUBSET Object]
  BY DEF TypeOK, WorkerType, ProgramType
<1>1. CASE UNCHANGED <<up, pc, cpc, cfds>>
  BY <1>1
<1>2. CASE Main(c)
  <2>1. CASE Accept(c)
    BY <1>1, <2>1 DEF Accept
  <2>2. CASE CreateThread(c)
    <3>1. pc[c] = "idle" /\ cpc[c] = "none"
      BY <1>0, <2>2, NewThreadIdle DEF Stages
    <3>2. pc'[c] \in {"request", "done"} /\ UNCHANGED <<up, cpc, cfds>>
      BY <1>0, <2>2 DEF CreateThread, Return, Goto
    <3> QED
      BY <3>1, <3>2 DEF Stages
  <2> QED
    BY <1>2, <2>1, <2>2 DEF Main
<1>3. CASE ReadRequest(c) \/ ReadHeaders(c)
  BY <1>0, <1>3 DEF ReadRequest, ReadHeaders, Return, Goto, At, Stages
<1>4. CASE OpenFile(c) \/ PipeIn(c) \/ PipeOut(c)
  BY <1>0, <1>4 DEF OpenFile, PipeIn, PipeOut, Return, Goto, At, Stages
<1>5. CASE SendStatus(c) \/ SendFile(c) \/ SendHead(c)
  BY <1>0, <1>5 DEF SendStatus, SendFile, SendHead, Return, Goto, At, Stages
<1>6. CASE \/ CloseFile(c) \/ CloseInR(c) \/ CloseOutW(c) \/ ClosePipes(c) \/ CloseSock(c)
  BY <1>0, <1>6 DEF CloseFile, CloseInR, CloseOutW, ClosePipes, CloseSock, Goto, At, Stages
<1>7. CASE Fork(c)
  <2>1. "outW" \in InUse(pc[c])
    BY <1>7, InUseStages DEF Fork, At
  <2>2. InServer(<<"outW", c>>)
    BY <2>1, UsedInServer
  <2>3. <<"outW", c>> \in Object
    BY DEF Object, Kinds
  <2>4. pc[c] = "fork" /\ cpc[c] = "none"
    BY <1>7 DEF Fork, At, Stages
  <2>5. CASE cfds' = [cfds EXCEPT ![c] = {o \in Object : InServer(o)}]
             /\ cpc' = [cpc EXCEPT ![c] = "forked"] /\ Goto(c, "closeInR")
    <3>1. <<"outW", c>> \in cfds'[c] /\ cpc'[c] = "forked" /\ pc'[c] = "closeInR"
      BY <1>0, <2>2, <2>3, <2>5 DEF Goto
    <3> QED
      BY <3>1 DEF Stages
  <2>6. CASE UNCHANGED <<cpc, cfds>> /\ Goto(c, "close")
    BY <1>0, <2>4, <2>6 DEF Goto, Stages
  <2> QED
    BY <1>7, <2>5, <2>6 DEF Fork, Return
<1>8. CASE WaitProgram(c)
  BY <1>0, <1>8 DEF WaitProgram, Goto, At, Stages
<1>9. CASE RelayBody(c)
  BY <1>0, <1>9 DEF RelayBody, Goto, At, Stages
<1>10. CASE RelayOutput(c)
  BY <1>0, <1>10 DEF RelayOutput, Goto, At, Stages, Held
<1>11. CASE Exec(c)
  BY <1>0, <1>11 DEF Exec, ExecClosing, Exit, Stages
<1>12. CASE ProgramRead(c) \/ ProgramWrite(c) \/ ProgramExit(c)
  BY <1>0, <1>12 DEF ProgramRead, ProgramWrite, ProgramExit, Exit, Stages
<1> QED
  BY <1>1, <1>2, <1>3, <1>4, <1>5, <1>6, <1>7, <1>8, <1>9, <1>10, <1>11, <1>12
     DEF Worker, Program, Client, ClientConnect, ClientSend, ClientLeave

AllAlong == \A c \in Conns : ProgramAlong(c)

(* So does every step of the server.                                       *)
LEMMA NextAlong ==
  ASSUME TypeOK, DescriptorsValid, AllAlong, [Next]_vars
  PROVE  AllAlong'
<1> SUFFICES ASSUME NEW d \in Conns
             PROVE  ProgramAlong(d)'
  BY DEF AllAlong
<1>0. ProgramAlong(d)
  BY DEF AllAlong
<1>1. ASSUME NEW c \in Conns, OwnStep(c)
      PROVE  ProgramAlong(d)'
  <2>1. CASE c = d
    BY <1>0, <1>1, <2>1, OwnStepAlong
  <2>2. CASE c # d
    <3>1. UNCHANGED <<up, pc[d], cpc[d], cfds[d]>>
      BY <1>1, <2>2, OthersUntouched DEF OwnState
    <3> QED
      BY <1>0, <3>1 DEF ProgramAlong
  <2> QED
    BY <2>1, <2>2
<1>2. ASSUME NEW c \in Conns, Sigpipe(c)
      PROVE  ProgramAlong(d)'
  <2>1. UNCHANGED <<cpc, cfds>> /\ ~up'
        /\ pc'[d] = IF pc[d] \in {"idle", "done"} THEN pc[d] ELSE "killed"
    BY <1>2 DEF Sigpipe
  <2> QED
    BY <1>0, <2>1 DEF ProgramAlong, WithProgram, Stages
<1>3. CASE UNCHANGED vars
  BY <1>0, <1>3 DEF ProgramAlong, vars
<1> QED
  BY <1>1, <1>2, <1>3, Steps

(* Handler and program are together in every reachable state.              *)
LEMMA InvarianceAlong == Spec => []AllAlong
<1>1. Init => AllAlong
  BY DEF Init, AllAlong, ProgramAlong, WithProgram, Stages
<1>2. IInv /\ AllAlong /\ [Next]_vars => AllAlong'
  BY NextAlong DEF IInv
<1> QED
  BY <1>1, <1>2, Invariance, PTL DEF Spec

(* The relay loop of exe_cgi ends only when the program has exited, and    *)
(* waitpid() has reaped it before the handler goes on: for any number of   *)
(* connections, whatever descriptors the other programs hold.              *)
THEOREM ProgramsReaped == Spec => []ProgramReaped
<1>1. AllAlong => ProgramReaped
  BY DEF AllAlong, ProgramAlong, ProgramReaped
<1> QED
  BY <1>1, InvarianceAlong, PTL

-----------------------------------------------------------------------------
(* Bytes that pass from a pipe to what was read from it keep their order.  *)
LEMMA AppendAfter ==
  ASSUME NEW S, NEW s \in Seq(S), NEW t \in Seq(S), NEW e \in S
  PROVE  s \o Append(t, e) = Append(s \o t, e)
  OBVIOUS

(* The head of the second of two sequences moved to the end of the first   *)
(* leaves their concatenation as it was.                                   *)
LEMMA HeadAcross ==
  ASSUME NEW S, NEW s \in Seq(S), NEW t \in Seq(S), t # <<>>
  PROVE  Append(s, Head(t)) \o Tail(t) = s \o t
  OBVIOUS

(* The bytes of the body on their way to the program and read by it.       *)
Seen(c) == got[c] \o inbuf[c]

Fed(c) ==
  up => /\ Len(Seen(c)) = i[c]
        /\ \A k \in 1..Len(Seen(c)) : Seen(c)[k] = k \/ (left[c] /\ k > sent[c] - 2)

AllFed == \A c \in Conns : Fed(c)

Byte == Nat \cup {-1}

(* Types of what the program has seen.                                     *)
LEMMA SeenType ==
  ASSUME TypeOK, NEW c \in Conns
  PROVE  got[c] \in Seq(Byte) /\ inbuf[c] \in Seq(Byte) /\ Seen(c) \in Seq(Byte)
<1>1. got[c] \in Seq(Byte)
  BY DEF TypeOK, ProgramType, Byte
<1>2. inbuf[c] \in Seq(Byte)
  <2>1. inbuf[c] \in Seq(Nat)
    BY DEF TypeOK, PipeType
  <2> QED
    BY <2>1 DEF Byte
<1> QED
  BY <1>1, <1>2 DEF Seen

(* A step of a connection keeps what its program sees in order.            *)
LEMMA OwnStepFed ==
  ASSUME TypeOK, DescriptorsValid, AllAlong, NEW c \in Conns, Fed(c), OwnStep(c)
  PROVE  Fed(c)'
<1> SUFFICES ASSUME up, up'
             PROVE  Fed(c)'
  BY DEF Fed, OwnStep, Client, ClientConnect, ClientSend, ClientLeave, Main, Accept, CreateThread,
     Worker, ReadRequest, ReadHeaders, OpenFile, SendStatus, SendFile, CloseFile, SendHead,
     PipeIn, PipeOut, Fork, CloseInR, CloseOutW, RelayBody, RelayOutput, WaitProgram,
     ClosePipes, CloseSock, Program, Exec, ExecClosing, ProgramRead, ProgramWrite, ProgramExit
<1>0. /\ i[c] \in Nat /\ clen[c] \in Int /\ sent[c] \in Nat /\ sent \in [Conns -> Nat] /\ left \in [Conns -> BOOLEAN]
      /\ i \in [Conns -> Nat] /\ inbuf \in [Conns -> Seq(Nat)]
      /\ got \in [Conns -> Seq(Nat \cup {-1})]
  BY DEF TypeOK, ClientType, WorkerType, PipeType, ProgramType
<1>1. CASE UNCHANGED <<i, inbuf, got, sent, left>>
  BY <1>1 DEF Fed, Seen
<1>2. CASE ClientSend(c)
  <2>1. ~left[c] /\ UNCHANGED <<i, inbuf, got, left>>
    BY <1>2 DEF ClientSend
  <2> QED
    BY <2>1 DEF Fed, Seen
<1>3. CASE ClientLeave(c)
  <2>1. ~left[c] /\ UNCHANGED <<i, inbuf, got, sent>>
    BY <1>3 DEF ClientLeave
  <2> QED
    BY <2>1 DEF Fed, Seen
<1>4. CASE RelayBody(c) /\ i[c] < clen[c]
  <2>1. /\ inbuf' = [inbuf EXCEPT ![c] = Append(@, BodyByte(c))]
        /\ i' = [i EXCEPT ![c] = @ + 1]
        /\ sent[c] - 2 > i[c] \/ left[c]
        /\ UNCHANGED <<got, sent, left>>
    BY <1>0, <1>4 DEF RelayBody, BodyReady
  <2>2. BodyByte(c) \in Byte
    BY <1>0 DEF BodyByte, Byte
  <2>3. Seen(c)' = Append(Seen(c), BodyByte(c))
    BY <1>0, <2>1, <2>2, SeenType, AppendAfter DEF Seen
  <2>4. Len(Seen(c)) = i[c]
    BY DEF Fed
  <2>5. BodyByte(c) = i[c] + 1 \/ (left[c] /\ i[c] + 1 > sent[c] - 2)
    BY <1>0, <2>1 DEF BodyByte
  <2>6. i'[c] = i[c] + 1
    BY <1>0, <2>1
  <2> QED
    BY <1>0, <2>1, <2>2, <2>3, <2>4, <2>5, <2>6, SeenType DEF Fed
<1>5. CASE RelayBody(c) /\ ~(i[c] < clen[c])
  BY <1>1, <1>5 DEF RelayBody, BodyReady
<1>6. CASE ProgramRead(c)
  <2>1. cpc[c] = "run" /\ UNCHANGED <<i, sent, left>>
    BY <1>6 DEF ProgramRead
  <2>2. "inW" \in InUse(pc[c])
    <3>1. pc[c] \in WithProgram
      BY <2>1 DEF AllAlong, ProgramAlong, Stages, TypeOK, WorkerType
    <3> QED
      BY <3>1, InUseStages DEF WithProgram
  <2>3. Held(<<"inW", c>>)
    BY <2>2, UsedInServer
  <2>4. /\ inbuf[c] # <<>>
        /\ got' = [got EXCEPT ![c] = Append(@, Head(inbuf[c]))]
        /\ inbuf' = [inbuf EXCEPT ![c] = Tail(@)]
    BY <1>6, <2>3 DEF ProgramRead
  <2>5. /\ got'[c] = Append(got[c], Head(inbuf[c]))
        /\ inbuf'[c] = Tail(inbuf[c])
    BY <1>0, <2>4
  <2>6. Seen(c)' = Seen(c)
    BY <2>4, <2>5, SeenType, HeadAcross DEF Seen
  <2> QED
    BY <2>1, <2>6 DEF Fed, Seen
<1> QED
  BY <1>1, <1>2, <1>3, <1>4, <1>5, <1>6
     DEF OwnStep, Client, ClientConnect, Main, Accept, CreateThread,
     Worker, ReadRequest, ReadHeaders, OpenFile, SendStatus, SendFile, CloseFile, SendHead,
     PipeIn, PipeOut, Fork, CloseInR, CloseOutW, RelayBody, RelayOutput, WaitProgram,
     ClosePipes, CloseSock, Program, Exec, ExecClosing, ProgramWrite, ProgramExit

(* So does every step of the server.                                       *)
LEMMA NextFed ==
  ASSUME TypeOK, DescriptorsValid, AllAlong, AllFed, [Next]_vars
  PROVE  AllFed'
<1> SUFFICES ASSUME NEW d \in Conns
             PROVE  Fed(d)'
  BY DEF AllFed
<1>0. Fed(d)
  BY DEF AllFed
<1>1. ASSUME NEW c \in Conns, OwnStep(c)
      PROVE  Fed(d)'
  <2>1. CASE c = d
    BY <1>0, <1>1, <2>1, OwnStepFed
  <2>2. CASE c # d
    <3>1. UNCHANGED <<up, i[d], got[d], inbuf[d], left[d], sent[d]>>
      BY <1>1, <2>2, OthersUntouched DEF OwnState
    <3> QED
      BY <1>0, <3>1 DEF Fed, Seen
  <2> QED
    BY <2>1, <2>2
<1>2. ASSUME NEW c \in Conns, Sigpipe(c)
      PROVE  Fed(d)'
  BY <1>2 DEF Sigpipe, Fed
<1>3. CASE UNCHANGED vars
  BY <1>0, <1>3 DEF Fed, Seen, vars
<1> QED
  BY <1>1, <1>2, <1>3, Steps

(* What the programs see is in order in every reachable state.             *)
LEMMA InvarianceFed == Spec => []AllFed
<1>1. Init => AllFed
  BY DEF Init, AllFed, Fed, Seen
<1>2. IInv /\ AllAlong /\ AllFed /\ [Next]_vars => AllFed'
  BY NextFed DEF IInv
<1> QED
  BY <1>1, <1>2, Invariance, InvarianceAlong, PTL DEF Spec

(* A CGI program reads the bytes of the body its own client sent, in       *)
(* order, for any pipe size and any interleaving of the handlers; only a   *)
(* client that left or the end of the server puts anything else there.     *)
THEOREM BodiesIntact == Spec => []BodyIntact
<1>1. AllFed => BodyIntact
  BY DEF AllFed, Fed, Seen, BodyIntact
<1> QED
  BY <1>1, InvarianceFed, PTL

-----------------------------------------------------------------------------
(* The descriptor table.                                                   *)

(* What the server's table has open for a connection: at most its socket   *)
(* before its thread starts; from then on what the thread still needs and  *)
(* what a failed call forgot.  No file is open under two numbers.          *)
OpenOf(c) == {k \in Kinds : InServer(<<k, c>>)}

Due(c) == InUse(pc[c]) \cup (IF pc[c] \in {"close", "done"} THEN LeakOf(code[c]) ELSE {})

TableOf(c) == IF pc[c] = "idle" THEN OpenOf(c) \subseteq {"sock"} ELSE OpenOf(c) = Due(c)

OpenOnce == \A f, g \in Fds : fdtab[f] = fdtab[g] /\ fdtab[f] # None => f = g

AllDue == up => OpenOnce /\ \A c \in Conns : TableOf(c)

(* A handler's code is set by the step that makes it return.               *)
CodeLate == \A c \in Conns : up /\ pc[c] \notin {"close", "done"} => code[c] = 0

(* Opening one file gives the connection that kind of descriptor and no    *)
(* other.                                                                  *)
LEMMA OpenedOne ==
  ASSUME TypeOK, OpenOnce, NEW c \in Conns, NEW k \in Kinds, k \notin OpenOf(c),
         NEW f \in Free, fdtab' = [fdtab EXCEPT ![f] = <<k, c>>]
  PROVE  /\ OpenOnce'
         /\ \A d \in Conns : OpenOf(d)' = IF d = c THEN OpenOf(d) \cup {k} ELSE OpenOf(d)
<1>1. f \in Fds /\ fdtab[f] = None /\ <<k, c>> # None /\ fdtab \in [Fds -> Object \cup {None}]
  BY DEF Free, TypeOK, ServerType
<1>2. \A g \in Fds : fdtab'[g] = IF g = f THEN <<k, c>> ELSE fdtab[g]
  BY <1>1
<1>3. \A g \in Fds : fdtab[g] # <<k, c>>
  BY DEF OpenOf, InServer
<1>4. OpenOnce'
  BY <1>1, <1>2, <1>3 DEF OpenOnce
<1>5. \A d \in Conns, j \in Kinds :
        InServer(<<j, d>>)' <=> InServer(<<j, d>>) \/ (d = c /\ j = k)
  <2> TAKE d \in Conns, j \in Kinds
  <2>1. <<j, d>> = <<k, c>> <=> d = c /\ j = k
    OBVIOUS
  <2>2. <<j, d>> # None
    OBVIOUS
  <2> QED
    BY <1>1, <1>2, <2>1, <2>2 DEF InServer
<1> QED
  BY <1>4, <1>5 DEF OpenOf

(* Closing a set of descriptor variables takes exactly those kinds from    *)
(* the connection.                                                         *)
LEMMA ClosedSet ==
  ASSUME TypeOK, NumbersMatch, OpenOnce, NEW c \in Conns, NEW S \in SUBSET Kinds,
         \A k \in S : local[c][k] # None, Close(c, S)
  PROVE  /\ OpenOnce'
         /\ \A d \in Conns : OpenOf(d)' = IF d = c THEN OpenOf(d) \ S ELSE OpenOf(d)
<1>1. \A f \in Fds : fdtab'[f] = IF \E k \in S : local[c][k] = f THEN None ELSE fdtab[f]
  BY DEF Close
<1>2. \A k \in S : local[c][k] \in Fds /\ fdtab[local[c][k]] = <<k, c>>
  BY DEF NumbersMatch, TypeOK, WorkerType
<1>3. OpenOnce'
  BY <1>1 DEF OpenOnce
<1>4. \A d \in Conns, j \in Kinds :
        InServer(<<j, d>>)' <=> InServer(<<j, d>>) /\ ~(d = c /\ j \in S)
  <2> TAKE d \in Conns, j \in Kinds
  <2>1. <<j, d>> # None
    OBVIOUS
  <2>2. ASSUME NEW f \in Fds, fdtab'[f] = <<j, d>>
        PROVE  fdtab[f] = <<j, d>> /\ ~(d = c /\ j \in S)
    <3>1. fdtab[f] = <<j, d>> /\ \A k \in S : local[c][k] # f
      BY <1>1, <2>1, <2>2
    <3> QED
      BY <1>2, <2>1, <3>1 DEF OpenOnce
  <2>3. ASSUME NEW f \in Fds, fdtab[f] = <<j, d>>, ~(d = c /\ j \in S)
        PROVE  fdtab'[f] = <<j, d>>
    <3>1. \A k \in S : <<j, d>> # <<k, c>>
      BY <2>3
    <3>2. \A k \in S : local[c][k] # f
      BY <1>2, <2>3, <3>1
    <3> QED
      BY <1>1, <2>3, <3>2
  <2> QED
    BY <2>2, <2>3 DEF InServer
<1> QED
  BY <1>3, <1>4 DEF OpenOf

(* A pipe gives the connection both its ends.                              *)
LEMMA OpenedPair ==
  ASSUME TypeOK, OpenOnce, NEW c \in Conns, NEW rd \in Kinds, NEW wr \in Kinds, rd # wr,
         rd \notin OpenOf(c), wr \notin OpenOf(c), OpenPipe(c, rd, wr)
  PROVE  /\ OpenOnce'
         /\ \A d \in Conns : OpenOf(d)' = IF d = c THEN OpenOf(d) \cup {rd, wr} ELSE OpenOf(d)
<1>0. PICK r \in Free, w \in Free :
        r # w /\ fdtab' = [fdtab EXCEPT ![r] = <<rd, c>>, ![w] = <<wr, c>>]
  BY DEF OpenPipe, IsLowest
<1>1. /\ r \in Fds /\ fdtab[r] = None /\ w \in Fds /\ fdtab[w] = None
      /\ <<rd, c>> # None /\ <<wr, c>> # None /\ <<rd, c>> # <<wr, c>>
      /\ fdtab \in [Fds -> Object \cup {None}]
  BY DEF Free, TypeOK, ServerType
<1>2. \A g \in Fds : fdtab'[g] = IF g = r THEN <<rd, c>>
                                 ELSE IF g = w THEN <<wr, c>> ELSE fdtab[g]
  BY <1>0, <1>1
<1>3. \A g \in Fds : fdtab[g] # <<rd, c>> /\ fdtab[g] # <<wr, c>>
  BY DEF OpenOf, InServer
<1>4. OpenOnce'
  BY <1>0, <1>1, <1>2, <1>3 DEF OpenOnce
<1>5. \A d \in Conns, j \in Kinds :
        InServer(<<j, d>>)' <=> InServer(<<j, d>>) \/ (d = c /\ j \in {rd, wr})
  <2> TAKE d \in Conns, j \in Kinds
  <2>1. /\ <<j, d>> = <<rd, c>> <=> d = c /\ j = rd
        /\ <<j, d>> = <<wr, c>> <=> d = c /\ j = wr
    OBVIOUS
  <2>2. <<j, d>> # None
    OBVIOUS
  <2>3. fdtab'[r] = <<rd, c>> /\ fdtab'[w] = <<wr, c>>
    BY <1>0, <1>1, <1>2
  <2> QED
    BY <1>1, <1>2, <2>1, <2>2, <2>3 DEF InServer
<1> QED
  BY <1>4, <1>5 DEF OpenOf

(* What is left open by each return code.                                  *)
LEMMA LeakOfCodes ==
  /\ LeakOf(9) = {"file"} /\ LeakOf(12) = {"inR", "inW"}
  /\ LeakOf(13) = {"inR", "inW", "outR", "outW"}
  /\ \A n \in {-1, 0, 5, 6, 7, 8, 10, 11} : LeakOf(n) = {}
  BY DEF LeakOf, PipeKinds

(* The handler's steps, by the stages they lead from and to and by what    *)
(* they open and close.                                                    *)
Forwards ==
  {<<"request", "headers">>, <<"headers", "open">>, <<"headers", "head">>,
   <<"status", "sendfile">>, <<"sendfile", "closefile">>, <<"head", "pipeIn">>,
   <<"fork", "closeInR">>, <<"body", "relay">>, <<"relay", "wait">>, <<"wait", "closePipes">>}

Returns ==
  {<<"request", 5>>, <<"request", 6>>, <<"request", 7>>, <<"headers", 10>>, <<"open", 8>>,
   <<"sendfile", 9>>, <<"pipeIn", 11>>, <<"pipeOut", 12>>, <<"fork", 13>>}

Forward(c) ==
  <<pc[c], pc'[c]>> \in Forwards /\ UNCHANGED <<code, fdtab, local>>

Returning(c) ==
  /\ \E n \in -1..13 : <<pc[c], n>> \in Returns /\ code' = [code EXCEPT ![c] = n]
  /\ pc'[c] = "close"
  /\ UNCHANGED <<fdtab, local>>

Opening(c) ==
  /\ \/ pc[c] = "open" /\ OpenOne(c, "file") /\ pc'[c] = "status"
     \/ pc[c] = "pipeIn" /\ OpenPipe(c, "inR", "inW") /\ pc'[c] = "pipeOut"
     \/ pc[c] = "pipeOut" /\ OpenPipe(c, "outR", "outW") /\ pc'[c] = "fork"
  /\ UNCHANGED code

Closing(c) ==
  /\ \/ pc[c] = "closefile" /\ Close(c, {"file"}) /\ pc'[c] = "close"
     \/ pc[c] = "closeInR" /\ Close(c, {"inR"}) /\ pc'[c] = "closeOutW"
     \/ pc[c] = "closeOutW" /\ Close(c, {"outW"}) /\ pc'[c] \in {"body", "relay"}
     \/ pc[c] = "closePipes" /\ Close(c, {"inW", "outR"}) /\ pc'[c] = "close"
     \/ pc[c] = "close" /\ Close(c, {"sock"}) /\ pc'[c] = "done"
  /\ UNCHANGED code

(* Every step of a connection goes forward, returns with a code, opens or  *)
(* closes, or moves nothing.                                               *)
LEMMA Moves ==
  ASSUME TypeOK, NEW c \in Conns, OwnStep(c)
  PROVE  \/ Main(c)
         \/ UNCHANGED <<pc, code, fdtab, local, new_fd>>
         \/ up /\ UNCHANGED new_fd /\ (Forward(c) \/ Returning(c) \/ Opening(c) \/ Closing(c))
<1>0. pc \in [Conns -> Stages]
  BY DEF TypeOK, WorkerType
<1>1. CASE ReadRequest(c) \/ ReadHeaders(c)
  <2>1. Forward(c) \/ Returning(c)
    BY <1>0, <1>1 DEF ReadRequest, ReadHeaders, At, Goto, Return, Forward, Forwards, Returning, Returns
  <2> QED
    BY <1>1, <2>1 DEF ReadRequest, ReadHeaders, At
<1>2. CASE SendStatus(c) \/ SendFile(c) \/ SendHead(c) \/ Fork(c)
  <2>1. Forward(c) \/ Returning(c)
    BY <1>0, <1>2 DEF SendStatus, SendFile, SendHead, Fork, At, Goto, Return, Forward, Forwards, Returning, Returns
  <2> QED
    BY <1>2, <2>1 DEF SendStatus, SendFile, SendHead, Fork, At
<1>3. CASE RelayBody(c) \/ RelayOutput(c) \/ WaitProgram(c)
  <2>1. Forward(c) \/ UNCHANGED <<pc, code, fdtab, local, new_fd>>
    BY <1>0, <1>3 DEF RelayBody, RelayOutput, WaitProgram, At, Goto, Forward, Forwards
  <2> QED
    BY <1>3, <2>1 DEF RelayBody, RelayOutput, WaitProgram, At
<1>4. CASE OpenFile(c) \/ PipeIn(c) \/ PipeOut(c)
  <2>1. Opening(c) \/ Returning(c)
    BY <1>0, <1>4 DEF OpenFile, PipeIn, PipeOut, At, Goto, Return, Opening, Returning, Returns
  <2> QED
    BY <1>4, <2>1 DEF OpenFile, PipeIn, PipeOut, At
<1>5. CASE \/ CloseFile(c) \/ CloseInR(c) \/ CloseOutW(c) \/ ClosePipes(c) \/ CloseSock(c)
  <2>1. Closing(c)
    BY <1>0, <1>5 DEF CloseFile, CloseInR, CloseOutW, ClosePipes, CloseSock, At, Goto, Closing
  <2> QED
    BY <1>5, <2>1 DEF CloseFile, CloseInR, CloseOutW, ClosePipes, CloseSock, At
<1> QED
  BY <1>1, <1>2, <1>3, <1>4, <1>5
     DEF OwnStep, Worker, Client, ClientConnect, ClientSend, ClientLeave,
         Program, Exec, ExecClosing, ProgramRead, ProgramWrite, ProgramExit

(* How a thread starts, and how its connection ends if it cannot.          *)
LEMMA ThreadBegun ==
  ASSUME TypeOK, DescriptorsValid, NEW c \in Conns, CreateThread(c)
  PROVE  /\ pc[c] = "idle" /\ new_fd \in Fds /\ fdtab[new_fd] = <<"sock", c>> /\ new_fd' = None
         /\ \/ pc'[c] = "request" /\ UNCHANGED <<fdtab, code>>
            \/ /\ pc'[c] = "done" /\ code'[c] = -1
               /\ fdtab' = [fdtab EXCEPT ![new_fd] = None]
<1>1. pc[c] = "idle"
  BY NewThreadIdle
<1>2. pc \in [Conns -> Stages] /\ code \in [Conns -> -1..13] /\ new_fd \in Fds \cup {None}
  BY DEF TypeOK, WorkerType, ServerType
<1> QED
  BY <1>1, <1>2 DEF CreateThread, Goto, Return

(* A step sets a code only when it makes the handler return.               *)
LEMMA OwnStepCode ==
  ASSUME TypeOK, DescriptorsValid, NEW c \in Conns, CodeLate, OwnStep(c), UNCHANGED up
  PROVE  CodeLate'
<1> SUFFICES ASSUME NEW d \in Conns, up, pc'[d] \notin {"close", "done"}
             PROVE  code'[d] = 0
  BY DEF CodeLate
<1>0. CASE d # c
  BY <1>0, OthersUntouched DEF OwnState, CodeLate
<1>1. CASE d = c
  <2>1. CASE UNCHANGED <<pc, code>>
    BY <1>1, <2>1 DEF CodeLate
  <2>2. CASE CreateThread(c)
    BY <1>1, <2>2, ThreadBegun DEF CodeLate
  <2>3. CASE Forward(c) \/ Opening(c) \/ Closing(c)
    BY <1>1, <2>3 DEF Forward, Forwards, Opening, Closing, CodeLate
  <2>4. CASE Returning(c)
    BY <1>1, <2>4 DEF Returning
  <2> QED
    BY <2>1, <2>2, <2>3, <2>4, Moves DEF Main, Accept
<1> QED
  BY <1>0, <1>1

(* A step of a connection keeps the table to what every connection is due. *)
LEMMA OwnStepDue ==
  ASSUME TypeOK, Rest, NEW c \in Conns, CodeLate, AllDue, OwnStep(c), up
  PROVE  OpenOnce' /\ \A d \in Conns : TableOf(d)'
<1>0. DescriptorsValid /\ NumbersMatch /\ NeededHeld /\ OpenOnce /\ \A d \in Conns : TableOf(d)
  BY DEF Rest, DescriptorsValid, AllDue
<1>1. /\ pc \in [Conns -> Stages] /\ code \in [Conns -> -1..13] /\ pc[c] \in Stages
      /\ new_fd \in Fds \cup {None} /\ fdtab \in [Fds -> Object \cup {None}]
  BY DEF TypeOK, WorkerType, ServerType
(* It is enough to look at c and at the table.                             *)
<1> SUFFICES /\ OpenOnce' /\ TableOf(c)'
             /\ \A d \in Conns \ {c} : OpenOf(d)' = OpenOf(d)
  <2>1. \A d \in Conns \ {c} : pc'[d] = pc[d] /\ code'[d] = code[d]
    BY OthersUntouched DEF OwnState
  <2>2. \A d \in Conns \ {c} : TableOf(d) /\ OpenOf(d)' = OpenOf(d) => TableOf(d)'
    BY <2>1 DEF TableOf, Due
  <2> QED
    BY <1>0, <2>2
<1>2. UNCHANGED fdtab => OpenOnce' /\ \A d \in Conns : OpenOf(d)' = OpenOf(d)
  BY <1>0 DEF OpenOnce, OpenOf, InServer
<1>3. CASE UNCHANGED <<pc, code, fdtab>>
  BY <1>0, <1>2, <1>3 DEF TableOf, Due
<1>4. CASE Accept(c)
  <2>1. PICK f \in Free : fdtab' = [fdtab EXCEPT ![f] = <<"sock", c>>]
    BY <1>4 DEF Accept
  <2>2. pc[c] = "idle" /\ "sock" \notin OpenOf(c) /\ UNCHANGED pc
    BY <1>4 DEF Accept, Rest, NotStarted, OpenOf
  <2>3. "sock" \in Kinds
    BY DEF Kinds
  <2> QED
    BY <1>0, <2>1, <2>2, <2>3, OpenedOne DEF TableOf
<1>5. CASE CreateThread(c)
  <2>1. /\ pc[c] = "idle" /\ new_fd \in Fds /\ fdtab[new_fd] = <<"sock", c>>
        /\ \/ pc'[c] = "request" /\ UNCHANGED <<fdtab, code>>
           \/ /\ pc'[c] = "done" /\ code'[c] = -1
              /\ fdtab' = [fdtab EXCEPT ![new_fd] = None]
    BY <1>0, <1>5, ThreadBegun
  <2>2. OpenOf(c) = {"sock"}
    <3>1. InServer(<<"sock", c>>) /\ "sock" \in Kinds
      BY <2>1 DEF InServer, Kinds
    <3> QED
      BY <1>0, <2>1, <3>1 DEF TableOf, OpenOf
  <2>3. CASE pc'[c] = "request" /\ UNCHANGED <<fdtab, code>>
    BY <1>2, <2>2, <2>3, InUseStages DEF TableOf, Due
  <2>4. CASE /\ pc'[c] = "done" /\ code'[c] = -1
             /\ fdtab' = [fdtab EXCEPT ![new_fd] = None]
    <3>1. Due(c)' = {}
      BY <2>4, InUseStages, LeakOfCodes DEF Due
    <3>2. \A g \in Fds : fdtab'[g] = IF g = new_fd THEN None ELSE fdtab[g]
      BY <1>1, <2>4
    <3>3. OpenOnce'
      BY <1>0, <3>2 DEF OpenOnce
    <3>4. \A d \in Conns, k \in Kinds :
            InServer(<<k, d>>)' <=> InServer(<<k, d>>) /\ ~(d = c /\ k = "sock")
      <4> TAKE d \in Conns, k \in Kinds
      <4>1. <<k, d>> # None /\ (<<k, d>> = <<"sock", c>> <=> d = c /\ k = "sock")
        OBVIOUS
      <4> QED
        BY <1>0, <2>1, <3>2, <4>1 DEF InServer, OpenOnce
    <3>5. \A d \in Conns : OpenOf(d)' = IF d = c THEN OpenOf(d) \ {"sock"} ELSE OpenOf(d)
      BY <3>4 DEF OpenOf
    <3> QED
      BY <2>2, <2>4, <3>1, <3>3, <3>5 DEF TableOf
  <2> QED
    BY <2>1, <2>3, <2>4
<1>6. CASE Forward(c)
  <2>1. pc[c] # "idle" /\ pc'[c] # "idle" /\ Due(c)' = Due(c)
    BY <1>6, InUseStages DEF Forward, Forwards, Due
  <2> QED
    BY <1>0, <1>2, <1>6, <2>1 DEF Forward, TableOf
<1>7. CASE Returning(c)
  <2>1. PICK n \in -1..13 : <<pc[c], n>> \in Returns /\ code'[c] = n
    BY <1>1, <1>7 DEF Returning
  <2>2. Due(c)' = {"sock"} \cup LeakOf(n)
    BY <1>7, <2>1, InUseStages DEF Returning, Due
  <2>3. Due(c) = InUse(pc[c]) /\ pc[c] # "idle" /\ pc'[c] # "idle"
    BY <1>7, <2>1 DEF Returning, Returns, Due
  <2>4. InUse(pc[c]) = {"sock"} \cup LeakOf(n)
    BY <2>1, InUseStages, LeakOfCodes DEF Returns
  <2> QED
    BY <1>0, <1>2, <1>7, <2>2, <2>3, <2>4 DEF Returning, TableOf
<1>8. CASE Opening(c)
  <2>0. {"file", "inR", "inW", "outR", "outW"} \subseteq Kinds
    BY DEF Kinds
  <2>1. OpenOf(c) = InUse(pc[c])
    BY <1>0, <1>8 DEF Opening, TableOf, Due
  <2>2. Due(c)' = InUse(pc'[c]) /\ pc'[c] # "idle"
    BY <1>8 DEF Opening, Due
  <2>3. CASE pc[c] = "open" /\ OpenOne(c, "file") /\ pc'[c] = "status"
    <3>1. PICK f \in Free : fdtab' = [fdtab EXCEPT ![f] = <<"file", c>>]
      BY <2>3 DEF OpenOne
    <3>2. "file" \notin OpenOf(c) /\ InUse(pc'[c]) = InUse(pc[c]) \cup {"file"}
      BY <2>1, <2>3, InUseStages
    <3> QED
      BY <1>0, <2>0, <2>1, <2>2, <3>1, <3>2, OpenedOne DEF TableOf
  <2>4. CASE pc[c] = "pipeIn" /\ OpenPipe(c, "inR", "inW") /\ pc'[c] = "pipeOut"
    <3>1. "inR" \notin OpenOf(c) /\ "inW" \notin OpenOf(c)
          /\ InUse(pc'[c]) = InUse(pc[c]) \cup {"inR", "inW"}
      BY <2>1, <2>4, InUseStages
    <3> QED
      BY <1>0, <2>0, <2>1, <2>2, <2>4, <3>1, OpenedPair DEF TableOf
  <2>5. CASE pc[c] = "pipeOut" /\ OpenPipe(c, "outR", "outW") /\ pc'[c] = "fork"
    <3>1. "outR" \notin OpenOf(c) /\ "outW" \notin OpenOf(c)
          /\ InUse(pc'[c]) = InUse(pc[c]) \cup {"outR", "outW"}
      BY <2>1, <2>5, InUseStages
    <3> QED
      BY <1>0, <2>0, <2>1, <2>2, <2>5, <3>1, OpenedPair DEF TableOf
  <2> QED
    BY <1>8, <2>3, <2>4, <2>5 DEF Opening
<1>9. CASE Closing(c)
  <2>1. PICK S \in SUBSET Kinds :
          /\ Close(c, S) /\ S \subseteq InUse(pc[c])
          /\ InUse(pc'[c]) = InUse(pc[c]) \ S
          /\ pc[c] # "close" => (pc'[c] # "close" /\ S \cap {"file"} = {}) \/ pc'[c] = "close"
          /\ pc[c] = "close" => S = {"sock"}
    BY <1>9, InUseStages DEF Closing, Kinds
  <2>2. \A k \in S : local[c][k] # None
    BY <1>0, <2>1 DEF NeededHeld
  <2>3. /\ OpenOnce'
        /\ \A d \in Conns : OpenOf(d)' = IF d = c THEN OpenOf(d) \ S ELSE OpenOf(d)
    BY <1>0, <2>1, <2>2, ClosedSet
  <2>4. pc[c] # "idle" /\ pc'[c] # "idle" /\ OpenOf(c) = Due(c)
    BY <1>0, <1>9 DEF Closing, TableOf
  <2>5. CASE pc[c] # "close"
    <3>1. Due(c) = InUse(pc[c]) /\ code'[c] = 0
      BY <1>9, <2>5 DEF Closing, Due, CodeLate
    <3>2. Due(c)' = InUse(pc'[c])
      BY <3>1, LeakOfCodes DEF Due
    <3> QED
      BY <2>1, <2>3, <2>4, <3>1, <3>2 DEF TableOf
  <2>6. CASE pc[c] = "close"
    <3>1. Due(c) = {"sock"} \cup LeakOf(code[c]) /\ Due(c)' = LeakOf(code[c])
      BY <1>9, <2>6, InUseStages DEF Closing, Due
    <3>2. "sock" \notin LeakOf(code[c])
      BY DEF LeakOf, PipeKinds
    <3> QED
      BY <2>1, <2>3, <2>4, <2>6, <3>1, <3>2 DEF TableOf
  <2> QED
    BY <2>5, <2>6
<1> QED
  BY <1>3, <1>4, <1>5, <1>6, <1>7, <1>8, <1>9, Moves DEF Main

(* Only the signal ends the server.                                        *)
LEMMA UpUnchanged ==
  ASSUME NEW c \in Conns, OwnStep(c)
  PROVE  UNCHANGED up
  BY DEF OwnStep, Client, ClientConnect, ClientSend, ClientLeave, Main, Accept, CreateThread,
         Worker, ReadRequest, ReadHeaders, OpenFile, SendStatus, SendFile, CloseFile, SendHead,
         PipeIn, PipeOut, Fork, CloseInR, CloseOutW, RelayBody, RelayOutput, WaitProgram,
         ClosePipes, CloseSock, Program, Exec, ExecClosing, ProgramRead, ProgramWrite,
         ProgramExit

(* Every step keeps the table to what the connections are due.             *)
LEMMA NextDue ==
  ASSUME TypeOK, Rest, CodeLate, AllDue, [Next]_vars
  PROVE  CodeLate' /\ AllDue'
<1>1. ASSUME NEW c \in Conns, OwnStep(c)
      PROVE  CodeLate' /\ AllDue'
  <2>1. UNCHANGED up
    BY <1>1, UpUnchanged
  <2>2. CodeLate'
    BY <1>1, <2>1, OwnStepCode DEF Rest
  <2>3. AllDue'
    BY <1>1, <2>1, OwnStepDue DEF AllDue
  <2> QED
    BY <2>2, <2>3
<1>2. ASSUME NEW c \in Conns, Sigpipe(c)
      PROVE  CodeLate' /\ AllDue'
  BY <1>2 DEF Sigpipe, CodeLate, AllDue
<1>3. CASE UNCHANGED vars
  <2>1. UNCHANGED <<up, pc, code, fdtab>>
    BY <1>3 DEF vars
  <2>2. CodeLate'
    BY <2>1 DEF CodeLate
  <2>3. AllDue'
    BY ONLY AllDue, <2>1 DEF AllDue, OpenOnce, TableOf, OpenOf, InServer, Due
  <2> QED
    BY <2>2, <2>3
<1> QED
  BY <1>1, <1>2, <1>3, Steps

(* The table holds what the connections are due in every reachable state.  *)
LEMMA InvarianceDue == Spec => [](CodeLate /\ AllDue)
<1>1. Init => CodeLate /\ AllDue
  <2> SUFFICES ASSUME Init
               PROVE  CodeLate /\ AllDue
    OBVIOUS
  <2>1. CodeLate /\ OpenOnce
    BY DEF Init, CodeLate, OpenOnce
  <2>2. \A c \in Conns : TableOf(c)
    <3>1. \A c \in Conns, k \in Kinds : <<k, c>> # None
      OBVIOUS
    <3> QED
      BY <3>1 DEF Init, TableOf, OpenOf, InServer
  <2> QED
    BY <2>1, <2>2 DEF AllDue
<1>2. IInv /\ CodeLate /\ AllDue /\ [Next]_vars => (CodeLate /\ AllDue)'
  BY NextDue DEF IInv, Rest
<1> QED
  BY <1>1, <1>2, Invariance, PTL DEF Spec

(* A finished connection leaves in the server's descriptor table exactly   *)
(* what its failed call forgot, and nothing on every other way through the *)
(* handler: for any number of connections, table size and failures.        *)
THEOREM LeaksAreAccounted == Spec => []LeaksAccounted
<1>1. AllDue => LeaksAccounted
  BY InUseStages DEF AllDue, TableOf, OpenOf, Due, LeaksAccounted
<1> QED
  BY <1>1, InvarianceDue, PTL

-----------------------------------------------------------------------------
(* The answer.                                                             *)

(* No bytes.                                                               *)
LEMMA BytesEmpty == Bytes(0) = <<>>
  BY DEF Bytes

(* One more byte.                                                          *)
LEMMA BytesNext ==
  ASSUME NEW n \in Nat
  PROVE  Bytes(n + 1) = Append(Bytes(n), n + 1)
  BY DEF Bytes

(* A run of bytes starts with every shorter one.                           *)
LEMMA BytesSplit ==
  ASSUME NEW n \in Nat, NEW m \in 0..n
  PROVE  \E rest \in Seq(Int) : Bytes(n) = Bytes(m) \o rest
<1> DEFINE rest == [k \in 1 .. n - m |-> m + k]
<1>1. rest \in Seq(Int)
  OBVIOUS
<1>2. Bytes(n) = Bytes(m) \o rest
  BY DEF Bytes
<1> QED
  BY <1>1, <1>2

(* A part of an answer is what has been sent of it.                        *)
LEMMA Grown ==
  ASSUME NEW s \in Seq(Int), NEW t \in Seq(Int), t # <<>>, NEW rest \in Seq(Int)
  PROVE  LET a == (s \o t) \o rest IN
           /\ Len(s \o t) \in Len(s) + 1 .. Len(a)
           /\ Service!IsPrefix(s, a)
           /\ s \o t = SubSeq(a, 1, Len(s \o t))
  BY DEF Service!IsPrefix

(* What a request has turned out to be when the handler is past a stage.   *)
FileStages == {"open", "status", "sendfile", "closefile"}
AfterHead ==
  {"pipeIn", "pipeOut", "fork", "closeInR", "closeOutW", "body", "relay", "wait", "closePipes"}
CgiStages == {"head"} \cup AfterHead

Routed(c) ==
  /\ pc[c] \in {"headers"} \cup FileStages \cup CgiStages =>
       req[c].method # "other" /\ req[c].target # "missing"
  /\ pc[c] \in FileStages => ~IsCgi(req[c])
  /\ pc[c] \in FileStages \ {"open"} => req[c].target # "bare"
  /\ pc[c] \in CgiStages => IsCgi(req[c]) /\ (req[c].method = "POST" => req[c].clen # -1)

AllRouted == \A c \in Conns : Routed(c)

(* The output of a program, what was relayed of it and what was not yet.   *)
Output(c) == reply[c] \o outbuf[c]

Printed(c) ==
  /\ cpc[c] \in {"none", "forked"} => Output(c) = <<CgiLines>> /\ wrote[c] = 0
  /\ cpc[c] = "run" => Runs(req[c])
  /\ Runs(req[c]) => Output(c) = <<CgiLines>> \o Bytes(wrote[c]) /\ wrote[c] <= req[c].len
  /\ ~Runs(req[c]) => Output(c) \in {<<CgiLines>>, <<CgiLines, Stray>>}
  /\ cpc[c] \in {"zombie", "reaped"} /\ Runs(req[c]) => wrote[c] = req[c].len

(* What was sent to a client that stayed, by how far the handler is.       *)
SentSoFar(c) ==
  /\ pc[c] \in {"idle", "request", "headers", "open", "status", "head"} => reply[c] = <<>>
  /\ pc[c] = "sendfile" => reply[c] = <<StatusLines>>
  /\ pc[c] = "closefile" => reply[c] = <<StatusLines>> \o Bytes(ServedSize(req[c]))
  /\ pc[c] \in AfterHead => Printed(c)
  /\ pc[c] \in {"wait", "closePipes"} => outbuf[c] = <<>>
  /\ pc[c] \notin AfterHead \cup {"close", "done"} => outbuf[c] = <<>> /\ wrote[c] = 0
  /\ pc[c] \in {"close", "done"} /\ ~Excused(c) => reply[c] \in CompleteAnswers(req[c])

Answered(c) == up /\ ~left[c] => SentSoFar(c)

AllAnswered == \A c \in Conns : Answered(c)

(* A step of a connection keeps what its stage tells of its request.       *)
LEMMA OwnStepRouted ==
  ASSUME TypeOK, Asked, NEW c \in Conns, Routed(c), OwnStep(c), DescriptorsValid
  PROVE  Routed(c)'
<1> USE DEF Routed, FileStages, CgiStages, AfterHead
<1>0. pc \in [Conns -> Stages] /\ pc[c] \in Stages /\ req \in [Conns -> Requests \cup {None}]
  BY DEF TypeOK, WorkerType, ClientType
<1>1. CASE UNCHANGED <<req, pc>>
  BY <1>1
<1>2. CASE ClientConnect(c)
  <2>1. pc[c] = "idle" /\ UNCHANGED pc
    BY <1>2 DEF ClientConnect, Asked
  <2> QED
    BY <2>1
<1>3. CASE CreateThread(c)
  BY <1>3, ThreadBegun
<1>4. CASE ReadRequest(c)
  BY <1>0, <1>4 DEF ReadRequest, At, Goto, Return
<1>5. CASE ReadHeaders(c)
  <2>1. pc[c] = "headers" /\ UNCHANGED req
    BY <1>5 DEF ReadHeaders, At
  <2>2. CASE ~IsCgi(req[c]) /\ Goto(c, "open")
    BY <1>0, <2>1, <2>2 DEF Goto
  <2>3. CASE IsCgi(req[c]) /\ req[c].method = "GET" /\ Goto(c, "head")
    BY <1>0, <2>1, <2>3 DEF Goto
  <2>4. CASE req[c].method = "POST" /\ req[c].clen # -1 /\ Goto(c, "head")
    BY <1>0, <2>1, <2>4 DEF Goto, IsCgi
  <2>5. CASE Goto(c, "close")
    BY <1>0, <2>1, <2>5 DEF Goto
  <2> QED
    BY <1>5, <2>2, <2>3, <2>4, <2>5 DEF ReadHeaders, Return
<1>6. CASE OpenFile(c)
  BY <1>0, <1>6 DEF OpenFile, At, Goto, Return
<1>7. CASE SendStatus(c) \/ SendFile(c) \/ SendHead(c)
  BY <1>0, <1>7 DEF SendStatus, SendFile, SendHead, At, Goto, Return
<1>8. CASE PipeIn(c) \/ PipeOut(c) \/ Fork(c)
  BY <1>0, <1>8 DEF PipeIn, PipeOut, Fork, At, Goto, Return
<1>9. CASE \/ CloseFile(c) \/ CloseInR(c) \/ CloseOutW(c) \/ ClosePipes(c) \/ CloseSock(c)
  BY <1>0, <1>9 DEF CloseFile, CloseInR, CloseOutW, ClosePipes, CloseSock, At, Goto
<1>10. CASE RelayBody(c) \/ RelayOutput(c) \/ WaitProgram(c)
  BY <1>0, <1>10 DEF RelayBody, RelayOutput, WaitProgram, At, Goto
<1> QED
  BY <1>1, <1>2, <1>3, <1>4, <1>5, <1>6, <1>7, <1>8, <1>9, <1>10
     DEF OwnStep, Client, ClientSend, ClientLeave, Main, Accept, Worker,
         Program, Exec, ExecClosing, ProgramRead, ProgramWrite, ProgramExit

(* So does every step of the server.                                       *)
LEMMA NextRouted ==
  ASSUME TypeOK, Rest, AllRouted, [Next]_vars
  PROVE  AllRouted'
<1> SUFFICES ASSUME NEW d \in Conns
             PROVE  Routed(d)'
  BY DEF AllRouted
<1>0. Routed(d)
  BY DEF AllRouted
<1>1. ASSUME NEW c \in Conns, OwnStep(c)
      PROVE  Routed(d)'
  <2>1. CASE c = d
    BY <1>0, <1>1, <2>1, OwnStepRouted DEF Rest
  <2>2. CASE c # d
    <3>1. UNCHANGED <<req[d], pc[d]>>
      BY <1>1, <2>2, OthersUntouched DEF OwnState
    <3> QED
      BY <1>0, <3>1 DEF Routed
  <2> QED
    BY <2>1, <2>2
<1>2. ASSUME NEW c \in Conns, Sigpipe(c)
      PROVE  Routed(d)'
  BY <1>0, <1>2 DEF Sigpipe, Routed, FileStages, CgiStages, AfterHead
<1>3. CASE UNCHANGED vars
  BY <1>0, <1>3 DEF Routed, vars
<1> QED
  BY <1>1, <1>2, <1>3, Steps

(* The empty sequence on either side of a concatenation.                   *)
LEMMA EmptyEnds ==
  ASSUME NEW S, NEW s \in Seq(S)
  PROVE  <<>> \o s = s /\ s \o <<>> = s
  OBVIOUS

(* The types the proofs about the answer use.                              *)
LEMMA AnswerTypes ==
  ASSUME TypeOK, NEW c \in Conns
  PROVE  /\ pc \in [Conns -> Stages] /\ pc[c] \in Stages /\ code \in [Conns -> -1..13]
         /\ left \in [Conns -> BOOLEAN] /\ sent[c] \in Nat
         /\ reply \in [Conns -> Seq(Int)] /\ reply[c] \in Seq(Int)
         /\ outbuf \in [Conns -> Seq(Nat)] /\ outbuf[c] \in Seq(Nat) /\ outbuf[c] \in Seq(Int)
         /\ cpc \in [Conns -> {"none", "forked", "run", "zombie", "reaped"}]
         /\ wrote \in [Conns -> Nat] /\ wrote[c] \in Nat
<1>1. outbuf[c] \in Seq(Nat)
  BY DEF TypeOK, PipeType
<1>2. outbuf[c] \in Seq(Int)
  BY <1>1
<1> QED
  BY <1>1, <1>2
     DEF TypeOK, ClientType, WorkerType, PipeType, ProgramType, ReplyType

(* The types of a request that was made.                                   *)
LEMMA RequestLen ==
  ASSUME TypeOK, NEW c \in Conns, req[c] # None
  PROVE  req[c] \in Requests /\ req[c].len \in Nat /\ ServedSize(req[c]) \in Nat
<1>1. req[c] \in Requests
  BY DEF TypeOK, ClientType
<1>2. req[c] \in RequestType
  BY <1>1
<1> QED
  BY <1>1, <1>2 DEF RequestType, ServedSize

(* The steps up to the end of a file's answer, and the refusals.           *)
LEMMA EarlySteps ==
  ASSUME TypeOK, Rest, NEW c \in Conns, Routed(c), up, ~left[c], SentSoFar(c),
         \/ ReadRequest(c) \/ ReadHeaders(c) \/ OpenFile(c) \/ SendStatus(c)
         \/ SendFile(c) \/ CloseFile(c)
  PROVE  SentSoFar(c)'
<1> USE DEF SentSoFar, Excused, AfterHead
<1>t. /\ pc \in [Conns -> Stages] /\ pc[c] \in Stages /\ code \in [Conns -> -1..13]
      /\ reply \in [Conns -> Seq(Int)] /\ reply[c] \in Seq(Int)
      /\ outbuf \in [Conns -> Seq(Nat)] /\ outbuf[c] \in Seq(Int)
      /\ cpc \in [Conns -> {"none", "forked", "run", "zombie", "reaped"}]
      /\ wrote \in [Conns -> Nat] /\ sent[c] \in Nat /\ <<CgiLines>> \in Seq(Int)
      /\ <<StatusLines>> \in Seq(Int)
  BY AnswerTypes DEF CgiLines, StatusLines
<1> USE <1>t
<1>0. UNCHANGED <<req, left, up, outbuf, wrote>>
  BY DEF ReadRequest, ReadHeaders, OpenFile, SendStatus, SendFile, CloseFile
<1>1. CASE ReadRequest(c)
  <2>1. pc[c] = "request" /\ UNCHANGED reply
    BY <1>1 DEF ReadRequest, At
  <2>2. CASE Return(c, 6, "close") /\ req[c].method = "other"
    BY <1>0, <2>1, <2>2 DEF Return, Goto, CompleteAnswers
  <2>3. CASE Return(c, 7, "close") /\ req[c].target = "missing"
    BY <1>0, <2>1, <2>3 DEF Return, Goto, CompleteAnswers
  <2>4. CASE Goto(c, "headers")
    BY <1>0, <2>1, <2>4 DEF Goto
  <2> QED
    BY <1>1, <2>2, <2>3, <2>4 DEF ReadRequest
<1>2. CASE ReadHeaders(c)
  <2>1. pc[c] = "headers" /\ UNCHANGED reply
    BY <1>2 DEF ReadHeaders, At
  <2>2. CASE Goto(c, "open") \/ Goto(c, "head")
    BY <1>0, <2>1, <2>2 DEF Goto
  <2>3. CASE Return(c, 10, "close") /\ req[c].method = "POST" /\ req[c].clen = -1
    <3>1. <<>> \in CompleteAnswers(req[c])
      BY <2>1, <2>3 DEF Routed, CompleteAnswers, IsCgi
    <3> QED
      BY <1>0, <2>1, <2>3, <3>1 DEF Return, Goto
  <2>4. sent[c] > 1
    BY <1>2 DEF ReadHeaders
  <2> QED
    BY <1>2, <2>2, <2>3, <2>4 DEF ReadHeaders
<1>3. CASE OpenFile(c)
  BY <1>0, <1>3 DEF OpenFile, At, Return, Goto
<1>4. CASE SendStatus(c)
  <2>1. pc[c] = "status" /\ Goto(c, "sendfile") /\ reply' = [reply EXCEPT ![c] = @ \o <<StatusLines>>]
    BY <1>4 DEF SendStatus, At, Deliver
  <2>2. reply'[c] = <<StatusLines>>
    BY <2>1, EmptyEnds
  <2> QED
    BY <1>0, <2>1, <2>2 DEF Goto
<1>5. CASE SendFile(c)
  <2>1. /\ pc[c] = "sendfile" /\ Goto(c, "closefile")
        /\ reply' = [reply EXCEPT ![c] = @ \o Bytes(ServedSize(req[c]))]
    BY <1>5 DEF SendFile, At, Deliver
  <2> QED
    BY <1>0, <2>1 DEF Goto
<1>6. CASE CloseFile(c)
  <2>1. pc[c] = "closefile" /\ Goto(c, "close") /\ UNCHANGED <<reply, code>>
    BY <1>6 DEF CloseFile, At
  <2>2. reply[c] \in CompleteAnswers(req[c])
    BY <2>1 DEF Routed, FileStages, CompleteAnswers
  <2> QED
    BY <1>0, <2>1, <2>2 DEF Goto
<1> QED
  BY <1>1, <1>2, <1>3, <1>4, <1>5, <1>6

(* The steps of exe_cgi() around the program.                              *)
LEMMA CgiSteps ==
  ASSUME TypeOK, Rest, NEW c \in Conns, Routed(c), ProgramAlong(c), up, ~left[c], SentSoFar(c),
         \/ SendHead(c) \/ PipeIn(c) \/ PipeOut(c) \/ Fork(c) \/ CloseInR(c) \/ CloseOutW(c)
         \/ RelayBody(c) \/ RelayOutput(c) \/ WaitProgram(c) \/ ClosePipes(c)
  PROVE  SentSoFar(c)'
<1> USE DEF SentSoFar, Excused, AfterHead
<1>t. /\ pc \in [Conns -> Stages] /\ pc[c] \in Stages /\ code \in [Conns -> -1..13]
      /\ reply \in [Conns -> Seq(Int)] /\ reply[c] \in Seq(Int)
      /\ outbuf \in [Conns -> Seq(Nat)] /\ outbuf[c] \in Seq(Int)
      /\ cpc \in [Conns -> {"none", "forked", "run", "zombie", "reaped"}]
      /\ wrote \in [Conns -> Nat] /\ sent[c] \in Nat /\ <<CgiLines>> \in Seq(Int)
      /\ <<StatusLines>> \in Seq(Int)
  BY AnswerTypes DEF CgiLines, StatusLines
<1> USE <1>t
<1>0. UNCHANGED <<req, left, up, wrote>>
  BY DEF SendHead, PipeIn, PipeOut, Fork, CloseInR, CloseOutW, RelayBody, RelayOutput,
         WaitProgram, ClosePipes
<1>1. CASE SendHead(c)
  <2>1. /\ pc[c] = "head" /\ Goto(c, "pipeIn") /\ UNCHANGED <<outbuf, cpc>>
        /\ reply' = [reply EXCEPT ![c] = @ \o <<CgiLines>>]
    BY <1>1 DEF SendHead, At, Deliver
  <2>2. /\ cpc[c] = "none" /\ req[c] # None
        /\ reply[c] = <<>> /\ outbuf[c] = <<>> /\ wrote[c] = 0
    BY <2>1 DEF ProgramAlong, Stages, WithProgram, Rest, Asked
  <2>3. reply'[c] = <<CgiLines>>
    BY <2>1, <2>2, EmptyEnds
  <2>4. Output(c)' = <<CgiLines>> /\ Output(c)' = <<CgiLines>> \o Bytes(0)
    BY <2>1, <2>2, <2>3, BytesEmpty, EmptyEnds DEF Output
  <2>5. Printed(c)'
    <3>1. /\ wrote'[c] = 0 /\ cpc'[c] = "none" /\ req'[c] = req[c] /\ req[c].len \in Nat
      BY <1>0, <2>1, <2>2, RequestLen
    <3>2. Output(c)' = <<CgiLines>> \o Bytes(wrote'[c])
      BY <2>4, <3>1
    <3> QED
      <4>1. Runs(req'[c]) => wrote'[c] <= (req'[c]).len
        BY ONLY <3>1
      <4>2. Output(c)' \in {<<CgiLines>>, <<CgiLines, Stray>>}
        BY ONLY <2>4
      <4>3. cpc'[c] \notin {"run", "zombie", "reaped"}
        BY ONLY <3>1
      <4> QED
        BY ONLY <2>4, <3>1, <3>2, <4>1, <4>2, <4>3 DEF Printed
  <2> QED
    BY <1>0, <2>1, <2>5 DEF Goto
<1>2. CASE \/ PipeIn(c) \/ PipeOut(c) \/ Fork(c)
  <2>1. UNCHANGED <<reply, outbuf>> /\ pc[c] \in {"pipeIn", "pipeOut", "fork"}
    BY <1>2 DEF PipeIn, PipeOut, Fork, At
  <2>2. cpc[c] = "none"
    BY <2>1 DEF ProgramAlong, Stages, WithProgram
  <2>5. cpc'[c] \in {"none", "forked"}
    BY ONLY <1>t, <1>2, <2>2, c \in Conns DEF PipeIn, PipeOut, Fork
  <2>3. Printed(c)'
    BY <1>0, <2>1, <2>2, <2>5 DEF Printed, Output
  <2>4. pc'[c] \in {"pipeOut", "fork", "closeInR"} \/ (pc'[c] = "close" /\ code'[c] \in {11, 12, 13})
    BY <1>2 DEF PipeIn, PipeOut, Fork, At, Goto, Return
  <2> QED
    BY <1>0, <2>1, <2>3, <2>4
<1>3. CASE CloseInR(c) \/ CloseOutW(c) \/ RelayBody(c)
  <2>1. /\ UNCHANGED <<reply, outbuf, cpc>> /\ pc[c] \in {"closeInR", "closeOutW", "body"}
        /\ pc'[c] \in {"closeOutW", "body", "relay"}
    BY <1>3 DEF CloseInR, CloseOutW, RelayBody, At, Goto
  <2> QED
    BY <1>0, <2>1 DEF Printed, Output
<1>4. CASE RelayOutput(c)
  <2>1. pc[c] = "relay" /\ UNCHANGED cpc
    BY <1>4 DEF RelayOutput, At
  <2>2. CASE outbuf[c] # <<>>
    <3>1. /\ reply' = [reply EXCEPT ![c] = @ \o <<Head(outbuf[c])>>]
          /\ outbuf' = [outbuf EXCEPT ![c] = Tail(@)]
          /\ UNCHANGED pc
      BY <1>4, <2>2 DEF RelayOutput, Deliver
    <3>2. reply'[c] = Append(reply[c], Head(outbuf[c])) /\ outbuf'[c] = Tail(outbuf[c])
      BY <3>1
    <3>3. Append(reply[c], Head(outbuf[c])) \o Tail(outbuf[c]) = reply[c] \o outbuf[c]
      BY ONLY <1>t, <2>2, HeadAcross
    <3>4. Output(c)' = Output(c)
      BY <3>2, <3>3 DEF Output
    <3> QED
      BY <1>0, <2>1, <3>1, <3>4 DEF Printed
  <2>3. CASE outbuf[c] = <<>>
    <3>1. Goto(c, "wait") /\ UNCHANGED <<outbuf, reply>>
      BY <1>4, <2>3 DEF RelayOutput
    <3> QED
      BY <1>0, <2>1, <2>3, <3>1 DEF Printed, Output, Goto
  <2> QED
    BY <2>2, <2>3
<1>5. CASE WaitProgram(c)
  <2>1. /\ pc[c] = "wait" /\ Goto(c, "closePipes") /\ UNCHANGED <<outbuf, reply>>
        /\ cpc[c] = "zombie" /\ cpc'[c] = "reaped"
    BY <1>5 DEF WaitProgram, At
  <2>2. Printed(c)'
    BY <1>0, <2>1 DEF Printed, Output
  <2> QED
    BY <1>0, <2>1, <2>2 DEF Goto
<1>6. CASE ClosePipes(c)
  <2>1. pc[c] = "closePipes" /\ Goto(c, "close") /\ UNCHANGED <<outbuf, reply, code>>
    BY <1>6 DEF ClosePipes, At
  <2>2. Output(c) = reply[c] /\ cpc[c] = "reaped"
    BY <2>1, EmptyEnds DEF Output, ProgramAlong
  <2>3. reply[c] \in CompleteAnswers(req[c])
    BY <2>1, <2>2 DEF Printed, Routed, CgiStages, CompleteAnswers
  <2> QED
    BY <1>0, <2>1, <2>3 DEF Goto
<1> QED
  BY <1>1, <1>2, <1>3, <1>4, <1>5, <1>6

(* Concatenation is associative.                                           *)
LEMMA ConcatAssoc ==
  ASSUME NEW s \in Seq(Int), NEW t \in Seq(Int), NEW u \in Seq(Int)
  PROVE  s \o (t \o u) = (s \o t) \o u
  OBVIOUS

(* AppendAfter, for sequences of integers.                                 *)
LEMMA ConcatAppend ==
  ASSUME NEW s \in Seq(Int), NEW t \in Seq(Int), NEW x \in Int
  PROVE  s \o Append(t, x) = Append(s \o t, x)
  OBVIOUS

(* Concatenations of sequences of at most one element.                     *)
LEMMA ConcatOne ==
  ASSUME NEW x \in Int, NEW y \in Int
  PROVE  <<x>> \o <<>> = <<x>> /\ <<x>> \o <<y>> = <<x, y>>
<1>1. <<x>> \in Seq(Int) /\ <<y>> \in Seq(Int)
  OBVIOUS
<1>2. <<x>> \o <<>> = <<x>>
  BY ONLY <1>1, EmptyEnds
<1>3. <<x>> \o <<y>> = <<x, y>>
  <2>1. <<y>> = Append(<<>>, y) /\ <<x, y>> = Append(<<x>>, y)
    OBVIOUS
  <2>2. <<>> \in Seq(Int)
    OBVIOUS
  <2>3. <<x>> \o Append(<<>>, y) = Append(<<x>> \o <<>>, y)
    BY ONLY <1>1, <2>2, y \in Int, ConcatAppend
  <2> QED
    BY ONLY <1>2, <2>1, <2>3
<1> QED
  BY <1>2, <1>3

(* The program's steps.                                                    *)
LEMMA ProgramSteps ==
  ASSUME TypeOK, Rest, NEW c \in Conns, Routed(c), ProgramAlong(c), up, ~left[c], SentSoFar(c),
         Program(c)
  PROVE  SentSoFar(c)'
<1>t. /\ outbuf \in [Conns -> Seq(Nat)] /\ outbuf[c] \in Seq(Int) /\ reply[c] \in Seq(Int)
      /\ cpc \in [Conns -> {"none", "forked", "run", "zombie", "reaped"}]
      /\ wrote \in [Conns -> Nat] /\ wrote[c] \in Nat /\ Stray \in Int /\ CgiLines \in Int
  BY AnswerTypes DEF CgiLines, Stray
<1>s. reply[c] \in Seq(Int) /\ outbuf[c] \in Seq(Int)
  BY AnswerTypes
<1>0. UNCHANGED <<req, left, up, pc, code, reply>>
  BY DEF Program, Exec, ExecClosing, ProgramRead, ProgramWrite, ProgramExit
<1>1. cpc[c] \in {"forked", "run"}
  BY DEF Program, Exec, ExecClosing, ProgramRead, ProgramWrite, ProgramExit
<1>2. pc[c] \in WithProgram
  BY <1>0, <1>1, AnswerTypes DEF ProgramAlong, Stages
<1>3. Printed(c) /\ req[c] # None
  BY <1>2 DEF SentSoFar, WithProgram, AfterHead, Rest, Asked
<1>4. req[c].len \in Nat
  BY <1>3, RequestLen
<1> SUFFICES Printed(c)'
  BY <1>0, <1>2 DEF SentSoFar, WithProgram, AfterHead
<1>5. CASE Exec(c)
  <2>1. cpc[c] = "forked" /\ Output(c) = <<CgiLines>> /\ wrote[c] = 0 /\ UNCHANGED wrote
    BY <1>3, <1>5 DEF Exec, ExecClosing, Printed
  <2>2. CASE Runs(req[c])
    <3>1. cpc'[c] = "run" /\ UNCHANGED outbuf
      BY <1>t, <1>5, <2>2 DEF Exec, ExecClosing
    <3> QED
      BY <1>0, <1>3, <2>1, <2>2, <3>1 DEF Printed, Output
  <2>3. CASE ~Runs(req[c])
    <3>1. cpc'[c] = "zombie"
      BY <1>t, <1>5, <2>3 DEF Exec, ExecClosing, Exit
    <3>2. PICK s : (s = <<>> \/ s = <<Stray>>) /\ outbuf' = [outbuf EXCEPT ![c] = @ \o s]
      BY <1>5, <2>3 DEF Exec, ExecClosing
    <3>3. outbuf'[c] = outbuf[c] \o s
      BY <1>t, <3>2
    <3>4. Output(c)' = (reply[c] \o outbuf[c]) \o s
      <4>1. s \in Seq(Int)
        <5>1. <<>> \in Seq(Int) /\ <<Stray>> \in Seq(Int)
          BY ONLY <1>t
        <5> QED
          BY ONLY <3>2, <5>1
      <4>2. reply[c] \o (outbuf[c] \o s) = (reply[c] \o outbuf[c]) \o s
        BY ONLY <1>s, <4>1, ConcatAssoc
      <4> QED
        BY <1>0, <3>3, <4>2 DEF Output
    <3>5. Output(c)' = <<CgiLines>> \o s
      BY <2>1, <3>4 DEF Output
    <3>6. <<CgiLines>> \o <<>> = <<CgiLines>> /\ <<CgiLines>> \o <<Stray>> = <<CgiLines, Stray>>
      BY ONLY <1>t, ConcatOne
    <3>7. Output(c)' \in {<<CgiLines>>, <<CgiLines, Stray>>}
      BY ONLY <3>2, <3>5, <3>6
    <3>8. ~Runs(req'[c])
      BY <1>0, <2>3
    <3> QED
      BY ONLY <3>1, <3>7, <3>8 DEF Printed
  <2> QED
    BY <2>2, <2>3
<1>6. CASE ProgramRead(c)
  <2>1. UNCHANGED <<outbuf, cpc, wrote>>
    BY <1>6 DEF ProgramRead
  <2> QED
    BY <1>0, <1>3, <2>1 DEF Printed, Output
<1>7. CASE ProgramWrite(c)
  <2>1. cpc[c] = "run" /\ wrote[c] < req[c].len
    BY <1>7 DEF ProgramWrite
  <2>2. Runs(req[c]) /\ Output(c) = <<CgiLines>> \o Bytes(wrote[c])
    BY <1>3, <2>1 DEF Printed
  <2>3. Held(<<"outR", c>>)
    <3>1. "outR" \in InUse(pc[c])
      BY <1>2, InUseStages DEF WithProgram
    <3> QED
      BY <3>1, UsedInServer DEF Rest
  <2>4. /\ outbuf' = [outbuf EXCEPT ![c] = Append(@, wrote[c] + 1)]
        /\ wrote' = [wrote EXCEPT ![c] = @ + 1]
        /\ UNCHANGED cpc
    BY <1>7, <2>3 DEF ProgramWrite
  <2>5. outbuf'[c] = Append(outbuf[c], wrote[c] + 1) /\ wrote'[c] = wrote[c] + 1
    BY <1>t, <2>4
  <2>6. Output(c)' = Append(Output(c), wrote[c] + 1)
    <3>1. reply[c] \o Append(outbuf[c], wrote[c] + 1) = Append(reply[c] \o outbuf[c], wrote[c] + 1)
      <4>1. wrote[c] + 1 \in Int
        BY <1>t
      <4> QED
        BY ONLY <1>s, <4>1, ConcatAppend
    <3> QED
      BY <1>0, <2>5, <3>1 DEF Output
  <2>7. Output(c)' = <<CgiLines>> \o Bytes(wrote'[c])
    <3>1. Bytes(wrote[c]) \in Seq(Int) /\ <<CgiLines>> \in Seq(Int)
      BY <1>t, BytesType
    <3>2. <<CgiLines>> \o Append(Bytes(wrote[c]), wrote[c] + 1)
            = Append(<<CgiLines>> \o Bytes(wrote[c]), wrote[c] + 1)
      <4>1. wrote[c] + 1 \in Int
        BY <1>t
      <4> QED
        BY ONLY <3>1, <4>1, ConcatAppend
    <3>3. Bytes(wrote[c] + 1) = Append(Bytes(wrote[c]), wrote[c] + 1)
      BY <1>t, BytesNext
    <3> QED
      BY <2>2, <2>5, <2>6, <3>2, <3>3
  <2>8. wrote'[c] <= (req'[c]).len /\ Runs(req'[c]) /\ cpc'[c] = "run"
    BY <1>0, <1>t, <1>4, <2>1, <2>2, <2>4, <2>5
  <2> QED
    BY ONLY <2>7, <2>8 DEF Printed
<1>8. CASE ProgramExit(c)
  <2>1. /\ cpc[c] = "run" /\ cpc'[c] = "zombie" /\ wrote[c] = req[c].len
        /\ UNCHANGED <<outbuf, wrote>>
    BY <1>t, <1>8 DEF ProgramExit, Exit
  <2>2. Runs(req[c])
    BY <1>3, <2>1 DEF Printed
  <2> QED
    BY <1>0, <1>3, <2>1, <2>2 DEF Printed, Output
<1> QED
  BY <1>5, <1>6, <1>7, <1>8 DEF Program

(* A step of a connection keeps what was sent on it in step with the       *)
(* handler.                                                                *)
LEMMA OwnStepAnswered ==
  ASSUME TypeOK, Rest, NEW c \in Conns, Routed(c), ProgramAlong(c), Answered(c), OwnStep(c)
  PROVE  Answered(c)'
<1>0. UNCHANGED up
  BY UpUnchanged
<1>1. left[c] => left'[c]
  BY AnswerTypes
     DEF OwnStep, Client, ClientConnect, ClientSend, ClientLeave, Main, Accept, CreateThread,
         Worker, ReadRequest, ReadHeaders, OpenFile, SendStatus, SendFile, CloseFile, SendHead,
         PipeIn, PipeOut, Fork, CloseInR, CloseOutW, RelayBody, RelayOutput, WaitProgram,
         ClosePipes, CloseSock, Program, Exec, ExecClosing, ProgramRead, ProgramWrite,
         ProgramExit
<1> SUFFICES ASSUME up, ~left[c], ~left'[c], SentSoFar(c)
             PROVE  SentSoFar(c)'
  BY <1>0, <1>1 DEF Answered
<1>2. CASE UNCHANGED <<req, left, up, pc, code, reply, cpc, outbuf, wrote>>
  <2>1. Printed(c) => Printed(c)'
    BY <1>2 DEF Printed, Output
  <2>2. Excused(c) => Excused(c)'
    BY <1>2 DEF Excused
  <2> QED
    BY <1>2, <2>1, <2>2 DEF SentSoFar
<1>3. CASE ClientConnect(c)
  <2>1. pc[c] = "idle"
    BY <1>3 DEF ClientConnect, Rest, Asked
  <2>2. UNCHANGED <<pc, reply, outbuf, wrote>>
    BY <1>3 DEF ClientConnect
  <2> QED
    BY <2>1, <2>2 DEF SentSoFar, AfterHead
<1>4. CASE ClientLeave(c)
  BY <1>4, AnswerTypes DEF ClientLeave
<1>5. CASE CreateThread(c)
  <2>1. pc[c] = "idle" /\ (pc'[c] = "request" \/ (pc'[c] = "done" /\ code'[c] = -1))
    BY <1>5, ThreadBegun DEF Rest
  <2>2. UNCHANGED <<reply, outbuf, wrote>>
    BY <1>5 DEF CreateThread
  <2> QED
    BY <2>1, <2>2 DEF SentSoFar, AfterHead, Excused
<1>6. CASE CloseSock(c)
  <2>1. pc[c] = "close" /\ pc'[c] = "done" /\ UNCHANGED <<req, left, up, reply, code>>
    BY <1>6, AnswerTypes DEF CloseSock, At, Goto
  <2> QED
    BY <2>1 DEF SentSoFar, AfterHead, Excused
<1>7. CASE ClientSend(c) \/ Accept(c)
  BY <1>2, <1>7 DEF ClientSend, Accept
<1>8. CASE Program(c)
  BY <1>8, ProgramSteps
<1>9. CASE Worker(c) /\ ~Sigpipe(c)
  BY <1>6, <1>9, EarlySteps, CgiSteps DEF Worker
<1> QED
  BY <1>3, <1>4, <1>5, <1>7, <1>8, <1>9 DEF OwnStep, Client, Main

(* So does every step of the server.                                       *)
LEMMA NextAnswered ==
  ASSUME TypeOK, Rest, AllRouted, AllAlong, AllAnswered, [Next]_vars
  PROVE  AllAnswered'
<1> SUFFICES ASSUME NEW d \in Conns
             PROVE  Answered(d)'
  BY DEF AllAnswered
<1>0. Answered(d)
  BY DEF AllAnswered
<1>s. ASSUME UNCHANGED <<up, left[d], pc[d], req[d], reply[d], code[d], outbuf[d], wrote[d], cpc[d]>>
      PROVE  Answered(d)'
  <2>1. Printed(d)' <=> Printed(d)
    BY <1>s DEF Printed, Output
  <2>2. Excused(d)' <=> Excused(d)
    BY <1>s DEF Excused
  <2>3. SentSoFar(d) => SentSoFar(d)'
    BY <1>s, <2>1, <2>2 DEF SentSoFar
  <2> QED
    BY <1>0, <1>s, <2>3 DEF Answered
<1>1. ASSUME NEW c \in Conns, OwnStep(c)
      PROVE  Answered(d)'
  <2>1. CASE c = d
    BY <1>0, <1>1, <2>1, OwnStepAnswered DEF AllRouted, AllAlong
  <2>2. CASE c # d
    <3>1. UNCHANGED OwnState(d) /\ UNCHANGED up
      BY <1>1, <2>2, OthersUntouched
    <3> QED
      BY <1>s, <3>1 DEF OwnState
  <2> QED
    BY <2>1, <2>2
<1>2. ASSUME NEW c \in Conns, Sigpipe(c)
      PROVE  Answered(d)'
  BY <1>2 DEF Sigpipe, Answered
<1>3. CASE UNCHANGED vars
  BY <1>s, <1>3 DEF vars
<1> QED
  BY <1>1, <1>2, <1>3, Steps

(* Nothing is sent and nothing known of a request at the start.            *)
LEMMA InitAnswered == Init => AllRouted /\ AllAnswered
<1> SUFFICES ASSUME Init, NEW c \in Conns
             PROVE  Routed(c) /\ Answered(c)
  BY DEF AllRouted, AllAnswered
<1>1. pc[c] = "idle" /\ reply[c] = <<>> /\ outbuf[c] = <<>> /\ wrote[c] = 0
  BY DEF Init
<1>2. Routed(c)
  BY <1>1 DEF Routed, FileStages, CgiStages, AfterHead
<1>3. SentSoFar(c)
  BY <1>1 DEF SentSoFar, AfterHead
<1> QED
  BY <1>2, <1>3 DEF Answered

AInv == IInv /\ AllAlong /\ CodeLate /\ AllRouted /\ AllAnswered

(* The invariant the refinement rests on holds in every reachable state.   *)
LEMMA InvarianceAnswered == Spec => []AInv
<1>1. Init => AllRouted /\ AllAnswered
  BY InitAnswered
<1>2. (IInv /\ AllAlong) /\ (AllRouted /\ AllAnswered) /\ [Next]_vars => (AllRouted /\ AllAnswered)'
  BY NextRouted, NextAnswered DEF IInv, Rest
<1>3. Spec => [](AllRouted /\ AllAnswered)
  BY <1>1, <1>2, Invariance, InvarianceAlong, PTL DEF Spec
<1>4. IInv /\ AllAlong /\ CodeLate /\ (AllRouted /\ AllAnswered) => AInv
  BY DEF AInv
<1> QED
  BY <1>3, <1>4, Invariance, InvarianceAlong, InvarianceDue, PTL

(* What the handler sends next continues a complete answer.                *)
Continues(c, t) ==
  \E rest \in Seq(Int) : (reply[c] \o t) \o rest \in CompleteAnswers(req[c])

(* The header lines and the file continue a complete answer.               *)
LEMMA SendContinues ==
  ASSUME AInv, NEW c \in Conns, up, ~left[c]
  PROVE  /\ pc[c] = "status" => Continues(c, <<StatusLines>>)
         /\ pc[c] = "sendfile" => Continues(c, Bytes(ServedSize(req[c])))
         /\ pc[c] = "head" => Continues(c, <<CgiLines>>)
<1>0. SentSoFar(c) /\ Routed(c) /\ TypeOK /\ Asked
  BY DEF AInv, AllAnswered, Answered, AllRouted, IInv
<1>1. <<StatusLines>> \in Seq(Int) /\ <<CgiLines>> \in Seq(Int) /\ <<>> \in Seq(Int)
  BY DEF StatusLines, CgiLines
<1>2. ASSUME pc[c] # "idle"
      PROVE  Bytes(ServedSize(req[c])) \in Seq(Int) /\ Bytes((req[c]).len) \in Seq(Int)
  BY <1>0, <1>2, RequestLen, BytesType DEF Asked
<1>3. ASSUME pc[c] = "status"
      PROVE  Continues(c, <<StatusLines>>)
  <2>1. reply[c] = <<>>
    BY <1>0, <1>3 DEF SentSoFar
  <2>2. CompleteAnswers(req[c]) = {<<StatusLines>> \o Bytes(ServedSize(req[c]))}
    BY <1>0, <1>3 DEF Routed, FileStages, CompleteAnswers
  <2>3. reply[c] \o <<StatusLines>> = <<StatusLines>>
    BY <1>1, <2>1, EmptyEnds
  <2> QED
    BY <1>2, <1>3, <2>2, <2>3 DEF Continues
<1>4. ASSUME pc[c] = "sendfile"
      PROVE  Continues(c, Bytes(ServedSize(req[c])))
  <2>1. reply[c] = <<StatusLines>>
    BY <1>0, <1>4 DEF SentSoFar, AfterHead
  <2>2. CompleteAnswers(req[c]) = {<<StatusLines>> \o Bytes(ServedSize(req[c]))}
    BY <1>0, <1>4 DEF Routed, FileStages, CompleteAnswers
  <2>3. (reply[c] \o Bytes(ServedSize(req[c]))) \o <<>> = <<StatusLines>> \o Bytes(ServedSize(req[c]))
    <3>1. <<StatusLines>> \o Bytes(ServedSize(req[c])) \in Seq(Int)
      BY <1>1, <1>2, <1>4
    <3> QED
      BY <2>1, <3>1, EmptyEnds
  <2> QED
    BY <1>1, <2>2, <2>3 DEF Continues
<1>5. ASSUME pc[c] = "head"
      PROVE  Continues(c, <<CgiLines>>)
  <2>1. reply[c] = <<>>
    BY <1>0, <1>5 DEF SentSoFar
  <2>2. CompleteAnswers(req[c]) = IF Runs(req[c]) THEN {<<CgiLines>> \o Bytes((req[c]).len)}
                                  ELSE {<<CgiLines>>, <<CgiLines, Stray>>}
    BY <1>0, <1>5 DEF Routed, CgiStages, CompleteAnswers
  <2>3. reply[c] \o <<CgiLines>> = <<CgiLines>> /\ <<CgiLines>> \o <<>> = <<CgiLines>>
    BY <1>1, <2>1, EmptyEnds
  <2>4. CASE Runs(req[c])
    BY <1>2, <1>5, <2>2, <2>3, <2>4 DEF Continues
  <2>5. CASE ~Runs(req[c])
    BY <1>1, <2>2, <2>3, <2>5 DEF Continues
  <2> QED
    BY <2>4, <2>5
<1> QED
  BY <1>3, <1>4, <1>5

(* So does a byte relayed from the program.                                *)
LEMMA RelayContinues ==
  ASSUME AInv, NEW c \in Conns, up, ~left[c], pc[c] = "relay", outbuf[c] # <<>>
  PROVE  Continues(c, <<Head(outbuf[c])>>)
<1>0. SentSoFar(c) /\ Routed(c) /\ TypeOK /\ Asked
  BY DEF AInv, AllAnswered, Answered, AllRouted, IInv
<1>1. /\ reply[c] \in Seq(Int) /\ outbuf[c] \in Seq(Int) /\ wrote[c] \in Nat
      /\ <<CgiLines>> \in Seq(Int)
  BY <1>0, AnswerTypes DEF CgiLines
<1>2. Printed(c)
  BY <1>0 DEF SentSoFar, AfterHead
<1>3. CompleteAnswers(req[c]) = IF Runs(req[c]) THEN {<<CgiLines>> \o Bytes((req[c]).len)}
                                ELSE {<<CgiLines>>, <<CgiLines, Stray>>}
  BY <1>0 DEF Routed, CgiStages, AfterHead, CompleteAnswers
<1>4. (reply[c] \o <<Head(outbuf[c])>>) \o Tail(outbuf[c]) = Output(c)
      /\ Tail(outbuf[c]) \in Seq(Int) /\ reply[c] \o <<Head(outbuf[c])>> \in Seq(Int)
  <2>1. Append(reply[c], Head(outbuf[c])) \o Tail(outbuf[c]) = reply[c] \o outbuf[c]
    BY ONLY <1>1, outbuf[c] # <<>>, HeadAcross
  <2>2. Tail(outbuf[c]) \in Seq(Int) /\ Head(outbuf[c]) \in Int
    BY ONLY <1>1, outbuf[c] # <<>>
  <2>3. reply[c] \o <<Head(outbuf[c])>> = Append(reply[c], Head(outbuf[c]))
    BY ONLY <1>1, <2>2
  <2>4. Append(reply[c], Head(outbuf[c])) \in Seq(Int)
    BY ONLY <1>1, <2>2
  <2> QED
    BY <2>1, <2>2, <2>3, <2>4 DEF Output
<1>5. CASE ~Runs(req[c])
  BY <1>2, <1>3, <1>4, <1>5 DEF Printed, Continues
<1>6. CASE Runs(req[c])
  <2>1. wrote[c] <= (req[c]).len /\ (req[c]).len \in Nat
        /\ Output(c) = <<CgiLines>> \o Bytes(wrote[c])
    BY <1>0, <1>2, <1>6, RequestLen DEF Printed, Asked
  <2>2. PICK more \in Seq(Int) : Bytes((req[c]).len) = Bytes(wrote[c]) \o more
    <3>1. (req[c]).len \in Nat /\ wrote[c] \in 0 .. (req[c]).len
      BY <1>1, <2>1
    <3> QED
      BY ONLY <3>1, BytesSplit
  <2>3. Bytes(wrote[c]) \in Seq(Int)
    BY <1>1, BytesType
  <2>4. <<CgiLines>> \o Bytes((req[c]).len) = Output(c) \o more
    <3>1. <<CgiLines>> \o (Bytes(wrote[c]) \o more) = (<<CgiLines>> \o Bytes(wrote[c])) \o more
      BY ONLY <1>1, <2>3, more \in Seq(Int), ConcatAssoc
    <3> QED
      BY <2>1, <2>2, <3>1
  <2>5. Output(c) \o more = (reply[c] \o <<Head(outbuf[c])>>) \o (Tail(outbuf[c]) \o more)
    <3> DEFINE s == reply[c] \o <<Head(outbuf[c])>>
               t == Tail(outbuf[c])
    <3>0. s \in Seq(Int) /\ t \in Seq(Int) /\ s \o t = Output(c)
      BY <1>4
    <3> HIDE DEF s, t
    <3>1. s \o (t \o more) = (s \o t) \o more
      BY ONLY <3>0, more \in Seq(Int), ConcatAssoc
    <3>2. Output(c) \o more = s \o (t \o more)
      BY ONLY <3>0, <3>1
    <3> QED
      BY ONLY <3>2 DEF s, t
  <2>6. Tail(outbuf[c]) \o more \in Seq(Int)
    BY <1>4
  <2> QED
    BY <1>3, <1>6, <2>4, <2>5, <2>6 DEF Continues
<1> QED
  BY <1>5, <1>6

-----------------------------------------------------------------------------
(* A step of one connection changes the service's state of no other one.   *)
LEMMA ServiceOwn ==
  ASSUME TypeOK, Asked, NEW c \in Conns, OwnStep(c)
  PROVE  /\ req' = [req EXCEPT ![c] = req'[c]]
         /\ reply' = [reply EXCEPT ![c] = reply'[c]]
         /\ req'[c] = req[c] => UNCHANGED req
         /\ reply'[c] = reply[c] => UNCHANGED reply
         /\ [d \in Conns |-> Phase(d)]' = [[d \in Conns |-> Phase(d)] EXCEPT ![c] = Phase(c)']
         /\ [d \in Conns |-> Excused(d)]' = [[d \in Conns |-> Excused(d)] EXCEPT ![c] = Excused(c)']
<1>1. \A d \in Conns \ {c} : UNCHANGED <<req[d], pc[d], left[d], code[d], reply[d], up>>
  BY OthersUntouched DEF OwnState
<1>2. TypeOK'
  BY NextTypeOK DEF Next, OwnStep
<1>3. /\ req \in [Conns -> Requests \cup {None}] /\ req' \in [Conns -> Requests \cup {None}]
      /\ reply \in [Conns -> Seq(Int)] /\ reply' \in [Conns -> Seq(Int)]
  BY <1>2 DEF TypeOK, ClientType, ReplyType
<1>4. \A d \in Conns \ {c} : UNCHANGED <<Phase(d), Excused(d)>>
  BY <1>1 DEF Phase, Excused
<1>5. req' = [req EXCEPT ![c] = req'[c]] /\ (req'[c] = req[c] => req' = req)
  BY ONLY <1>1, <1>3
<1>6. reply' = [reply EXCEPT ![c] = reply'[c]] /\ (reply'[c] = reply[c] => reply' = reply)
  BY ONLY <1>1, <1>3
<1>7. [d \in Conns |-> Phase(d)]' = [[d \in Conns |-> Phase(d)] EXCEPT ![c] = Phase(c)']
  BY ONLY <1>4
<1>8. [d \in Conns |-> Excused(d)]' = [[d \in Conns |-> Excused(d)] EXCEPT ![c] = Excused(c)']
  BY ONLY <1>4
<1> QED
  BY <1>5, <1>6, <1>7, <1>8

(* What a step of one connection is to the service.                        *)
LEMMA ServiceStutters ==
  ASSUME TypeOK, Asked, NEW c \in Conns, OwnStep(c), UNCHANGED <<req[c], Phase(c), Excused(c), reply[c]>>
  PROVE  UNCHANGED Service!vars
<1>1. /\ req \in [Conns -> Requests \cup {None}] /\ reply \in [Conns -> Seq(Int)]
  BY DEF TypeOK, ClientType, ReplyType
<1>2. UNCHANGED <<req, reply>>
  BY <1>1, ServiceOwn
<1>3. UNCHANGED <<[d \in Conns |-> Phase(d)], [d \in Conns |-> Excused(d)]>>
  BY ServiceOwn
<1> QED
  BY <1>2, <1>3 DEF Service!vars

(* A step after which the connection may end early.                        *)
LEMMA ServiceExcuses ==
  ASSUME TypeOK, Asked, NEW c \in Conns, OwnStep(c), UNCHANGED <<req[c], Phase(c), reply[c]>>, Excused(c)'
  PROVE  Service!Excuse(c)
<1>1. /\ req \in [Conns -> Requests \cup {None}] /\ reply \in [Conns -> Seq(Int)]
  BY DEF TypeOK, ClientType, ReplyType
<1>2. UNCHANGED <<req, reply>>
  BY <1>1, ServiceOwn
<1>3. UNCHANGED [d \in Conns |-> Phase(d)]
  BY ServiceOwn
<1>4. Excused(c)' = TRUE
  BY DEF Excused
<1>5. [d \in Conns |-> Excused(d)]' = [[d \in Conns |-> Excused(d)] EXCEPT ![c] = TRUE]
  BY <1>4, ServiceOwn
<1> QED
  BY <1>2, <1>3, <1>5 DEF Service!Excuse

(* A step that makes the request.                                          *)
LEMMA ServiceAsks ==
  ASSUME TypeOK, Asked, NEW c \in Conns, OwnStep(c), UNCHANGED <<Excused(c), reply[c]>>,
         Phase(c) = "none", Phase(c)' = "open", req'[c] \in Requests
  PROVE  Service!Ask(c)
<1>1. reply \in [Conns -> Seq(Int)]
  BY DEF TypeOK, ReplyType
<1>2. UNCHANGED reply
  BY <1>1, ServiceOwn
<1>3. UNCHANGED [d \in Conns |-> Excused(d)]
  BY ServiceOwn
<1>4. \E r \in Requests : req' = [req EXCEPT ![c] = r]
  BY ServiceOwn
<1>5. [d \in Conns |-> Phase(d)]' = [[d \in Conns |-> Phase(d)] EXCEPT ![c] = "open"]
  BY ServiceOwn
<1> QED
  BY <1>2, <1>3, <1>4, <1>5 DEF Service!Ask

(* A step that closes the connection, on a complete answer or excused.     *)
LEMMA ServiceEnds ==
  ASSUME TypeOK, Asked, NEW c \in Conns, OwnStep(c), UNCHANGED <<req[c], reply[c]>>,
         Phase(c) = "open", Phase(c)' = "closed",
         (reply[c] \in CompleteAnswers(req[c]) /\ UNCHANGED Excused(c)) \/ Excused(c)'
  PROVE  Service!End(c)
<1>1. /\ req \in [Conns -> Requests \cup {None}] /\ reply \in [Conns -> Seq(Int)]
  BY DEF TypeOK, ClientType, ReplyType
<1>2. UNCHANGED <<req, reply>>
  BY <1>1, ServiceOwn
<1>3. [d \in Conns |-> Phase(d)]' = [[d \in Conns |-> Phase(d)] EXCEPT ![c] = "closed"]
  BY ServiceOwn
<1>4. req[c] \in Requests
  BY <1>1 DEF Phase
<1>5. CASE reply[c] \in CompleteAnswers(req[c]) /\ UNCHANGED Excused(c)
  <2>1. UNCHANGED [d \in Conns |-> Excused(d)]
    BY <1>5, ServiceOwn
  <2>2. reply[c] \in [r \in Requests |-> CompleteAnswers(r)][req[c]]
    BY <1>4, <1>5
  <2> QED
    BY <1>2, <1>3, <2>1, <2>2 DEF Service!End
<1>6. CASE Excused(c)'
  <2>1. Excused(c)' = TRUE
    BY <1>6 DEF Excused
  <2>2. [d \in Conns |-> Excused(d)]' = [[d \in Conns |-> Excused(d)] EXCEPT ![c] = TRUE]
    BY <2>1, ServiceOwn
  <2> QED
    BY <1>2, <1>3, <2>2 DEF Service!End
<1> QED
  BY <1>5, <1>6

(* A send on the connection of a client that stayed.                       *)
LEMMA ServiceWrites ==
  ASSUME TypeOK, Asked, NEW c \in Conns, OwnStep(c), UNCHANGED <<req[c], Phase(c), Excused(c)>>,
         Phase(c) = "open", NEW t \in Seq(Int), reply'[c] = reply[c] \o t, Continues(c, t)
  PROVE  [Service!Next]_Service!vars
<1>1. /\ req \in [Conns -> Requests \cup {None}] /\ reply \in [Conns -> Seq(Int)]
      /\ reply[c] \in Seq(Int)
  BY DEF TypeOK, ClientType, ReplyType
<1>2. UNCHANGED <<req, [d \in Conns |-> Phase(d)], [d \in Conns |-> Excused(d)]>>
  <2>1. UNCHANGED req
    BY ServiceOwn
  <2>2. UNCHANGED [d \in Conns |-> Phase(d)]
    BY ServiceOwn
  <2>3. UNCHANGED [d \in Conns |-> Excused(d)]
    BY ServiceOwn
  <2> QED
    BY <2>1, <2>2, <2>3
<1>3. CASE t = <<>>
  <2>1. reply'[c] = reply[c]
    BY <1>1, <1>3, EmptyEnds
  <2> QED
    BY <2>1, ServiceStutters
<1>4. CASE t # <<>>
  <2>1. PICK rest \in Seq(Int) : (reply[c] \o t) \o rest \in CompleteAnswers(req[c])
    BY DEF Continues
  <2> DEFINE a == (reply[c] \o t) \o rest
             n == Len(reply[c] \o t)
  <2>2. n \in Len(reply[c]) + 1 .. Len(a) /\ Service!IsPrefix(reply[c], a)
        /\ reply[c] \o t = SubSeq(a, 1, n)
    BY ONLY <1>1, <1>4, t \in Seq(Int), rest \in Seq(Int), Grown
  <2>3. req[c] \in Requests
    BY <1>1 DEF Phase
  <2>4. a \in [r \in Requests |-> CompleteAnswers(r)][req[c]]
    BY <2>1, <2>3
  <2>5. reply' = [reply EXCEPT ![c] = SubSeq(a, 1, n)]
    BY <2>2, ServiceOwn
  <2> HIDE DEF a, n
  <2>6. [d \in Conns |-> Phase(d)][c] = "open"
    OBVIOUS
  <2>7. Service!Write(c)
    BY <1>2, <2>2, <2>4, <2>5, <2>6 DEF Service!Write
  <2> QED
    BY <2>7 DEF Service!Next
<1> QED
  BY <1>3, <1>4

(* What a client made of its request tells of it.                          *)
LEMMA PhaseOpen ==
  ASSUME Asked, NEW c \in Conns, up, pc[c] \notin {"idle", "done"}
  PROVE  Phase(c) = "open" /\ req[c] # None
  BY DEF Asked, Phase

(* A client's step is one of the service: a request, or an excuse.         *)
LEMMA ClientServes ==
  ASSUME IInv, NEW c \in Conns, OwnStep(c), Client(c) \/ ClientLeave(c)
  PROVE  [Service!Next]_Service!vars
<1>0. TypeOK /\ Asked
  BY DEF IInv
<1>t. /\ req \in [Conns -> Requests \cup {None}] /\ left \in [Conns -> BOOLEAN]
  BY <1>0 DEF TypeOK, ClientType
<1>1. CASE ClientConnect(c)
  <2>1. /\ pc[c] = "idle" /\ Phase(c) = "none"
    BY <1>0, <1>1 DEF ClientConnect, Asked, Phase
  <2>2. req'[c] \in Requests /\ UNCHANGED <<up, pc, left, code, reply>> /\ up
    BY <1>t, <1>1 DEF ClientConnect
  <2>3. Phase(c)' = "open"
    BY <2>1, <2>2 DEF Phase
  <2>4. UNCHANGED <<Excused(c), reply[c]>>
    BY <2>2 DEF Excused
  <2> QED
    BY <1>0, <2>1, <2>2, <2>3, <2>4, ServiceAsks DEF Service!Next
<1>2. CASE ClientSend(c)
  <2>1. UNCHANGED <<req, reply, left, up, pc, code>>
    BY <1>2 DEF ClientSend
  <2> QED
    BY <1>0, <2>1, ServiceStutters DEF Phase, Excused
<1>3. CASE ClientLeave(c)
  <2>1. UNCHANGED <<req, reply, up, pc, code>> /\ left'[c]
    BY <1>t, <1>3 DEF ClientLeave
  <2>2. UNCHANGED Phase(c) /\ Excused(c)'
    BY <2>1 DEF Phase, Excused
  <2> QED
    BY <1>0, <2>1, <2>2, ServiceExcuses DEF Service!Next
<1> QED
  BY <1>1, <1>2, <1>3 DEF Client

(* The accept loop's step is one of the service: an end when no thread can *)
(* be had.                                                                 *)
LEMMA MainServes ==
  ASSUME IInv, CodeLate, NEW c \in Conns, OwnStep(c), Main(c)
  PROVE  [Service!Next]_Service!vars
<1>0. TypeOK /\ Asked /\ Rest
  BY DEF IInv, Rest
<1>1. CASE Accept(c)
  <2>1. UNCHANGED <<req, reply, left, up, pc, code>>
    BY <1>1 DEF Accept
  <2> QED
    BY <1>0, <2>1, ServiceStutters DEF Phase, Excused
<1>2. CASE CreateThread(c)
  <2>1. /\ pc[c] = "idle" /\ up
        /\ (pc'[c] = "request" /\ UNCHANGED code) \/ (pc'[c] = "done" /\ code'[c] = -1)
    <3>1. pc \in [Conns -> Stages] /\ code \in [Conns -> -1..13]
      BY <1>0 DEF TypeOK, WorkerType
    <3>2. pc[c] = "idle"
      BY <1>0, <1>2, ThreadBegun DEF Rest
    <3> QED
      BY <1>2, <3>1, <3>2 DEF CreateThread, Goto, Return
  <2>2. UNCHANGED <<req, reply, left, up>>
    BY <1>2 DEF CreateThread
  <2>3. req[c] # None
    <3>1. InServer(<<"sock", c>>)
      BY <1>0, <1>2 DEF CreateThread, InServer, TypeOK, ServerType
    <3> QED
      BY <1>0, <3>1 DEF Asked
  <2>4. Phase(c) = "open"
    BY <2>1, <2>3 DEF Phase
  <2>5. CASE pc'[c] = "request" /\ UNCHANGED code
    <3>1. UNCHANGED <<Phase(c), Excused(c)>>
      BY <2>1, <2>2, <2>3, <2>5 DEF Phase, Excused
    <3> QED
      BY <1>0, <2>2, <3>1, ServiceStutters
  <2>6. CASE pc'[c] = "done" /\ code'[c] = -1
    <3>1. Phase(c)' = "closed" /\ Excused(c)'
      BY <2>2, <2>3, <2>6 DEF Phase, Excused
    <3> QED
      BY <1>0, <2>2, <2>4, <3>1, ServiceEnds DEF Service!Next
  <2> QED
    BY <2>1, <2>5, <2>6
<1> QED
  BY <1>1, <1>2 DEF Main

(* The steps of a thread that send nothing and do not close the socket.    *)
LEMMA QuietServes ==
  ASSUME IInv, CodeLate, NEW c \in Conns, OwnStep(c), UNCHANGED <<req, reply, left, up>>,
         up, pc[c] \notin {"idle", "close", "done"}, pc'[c] # "done",
         UNCHANGED code \/ \E n \in 5..13 : Return(c, n, "close") /\ (n \in {6, 7, 10} \/ Excused(c)')
  PROVE  [Service!Next]_Service!vars
<1>0. TypeOK /\ Asked /\ code \in [Conns -> -1..13]
  BY DEF IInv, TypeOK, WorkerType
<1>1. UNCHANGED Phase(c)
  BY DEF Phase
<1>2. CASE UNCHANGED Excused(c)
  BY <1>0, <1>1, <1>2, ServiceStutters
<1>3. CASE Excused(c)'
  BY <1>0, <1>1, <1>3, ServiceExcuses DEF Service!Next
<1>4. UNCHANGED code => UNCHANGED Excused(c)
  BY DEF Excused
<1>5. ASSUME NEW n \in {6, 7, 10}, Return(c, n, "close"), ~Excused(c)'
      PROVE  UNCHANGED Excused(c)
  <2>1. code[c] = 0
    BY DEF CodeLate
  <2> QED
    BY <1>0, <1>5, <2>1 DEF Return, Excused
<1> QED
  BY <1>2, <1>3, <1>4, <1>5

(* A send() is a write of the service, or a stutter if the client left.    *)
LEMMA SendServes ==
  ASSUME AInv, NEW c \in Conns, OwnStep(c), up, NEW t \in Seq(Int),
         Deliver(c, t), ~left[c] => Continues(c, t),
         UNCHANGED <<req, left, up, code>>, pc[c] \notin {"idle", "done"}, pc'[c] # "done"
  PROVE  [Service!Next]_Service!vars
<1>0. TypeOK /\ Asked /\ reply \in [Conns -> Seq(Int)]
  BY DEF AInv, IInv, TypeOK, ReplyType
<1>1. UNCHANGED <<req[c], Phase(c), Excused(c)>>
  BY DEF Phase, Excused
<1>2. Phase(c) = "open"
  BY <1>0, PhaseOpen
<1>3. CASE left[c]
  BY <1>0, <1>1, <1>3, ServiceStutters DEF Deliver
<1>4. CASE ~left[c]
  <2>1. reply'[c] = reply[c] \o t
    BY <1>0, <1>4 DEF Deliver
  <2> QED
    BY <1>0, <1>1, <1>2, <1>4, <2>1, ServiceWrites
<1> QED
  BY <1>3, <1>4

(* The end label of handler_request() ends the connection properly.        *)
LEMMA CloseSockServes ==
  ASSUME AInv, NEW c \in Conns, CloseSock(c)
  PROVE  [Service!Next]_Service!vars
<1>0. TypeOK /\ Asked /\ pc \in [Conns -> Stages] /\ up /\ pc[c] = "close" /\ OwnStep(c)
  BY DEF AInv, IInv, TypeOK, WorkerType, CloseSock, At, OwnStep, Worker, Sigpipe
<1>1. pc'[c] = "done" /\ UNCHANGED <<req, left, up, code, reply>>
  BY <1>0 DEF CloseSock, Goto
<1>2. Phase(c) = "open" /\ Phase(c)' = "closed" /\ UNCHANGED Excused(c)
  BY <1>0, <1>1, PhaseOpen DEF Phase, Excused
<1>3. reply[c] \in CompleteAnswers(req[c]) \/ Excused(c)
  BY <1>0 DEF AInv, AllAnswered, Answered, SentSoFar, AfterHead, Excused
<1> QED
  BY <1>0, <1>1, <1>2, <1>3, ServiceEnds DEF Service!Next

(* A handler's step is one of the service.                                 *)
LEMMA WorkerServes ==
  ASSUME AInv, NEW c \in Conns, OwnStep(c), Worker(c), ~Sigpipe(c)
  PROVE  [Service!Next]_Service!vars
<1>0. IInv /\ CodeLate /\ TypeOK /\ Asked
  BY DEF AInv, IInv
<1>t. /\ pc \in [Conns -> Stages] /\ code \in [Conns -> -1..13] /\ pc[c] \in Stages
      /\ <<StatusLines>> \in Seq(Int) /\ <<CgiLines>> \in Seq(Int)
  BY <1>0, AnswerTypes DEF StatusLines, CgiLines
<1>1. CASE ReadRequest(c)
  <2>1. /\ pc[c] = "request" /\ up /\ UNCHANGED <<req, reply, left, up>>
        /\ pc'[c] \in {"close", "headers"}
    BY <1>t, <1>1 DEF ReadRequest, At, Goto, Return
  <2>2. UNCHANGED code \/ \E n \in 5..13 : Return(c, n, "close") /\ (n \in {6, 7, 10} \/ Excused(c)')
    BY <1>1, <2>1 DEF ReadRequest, Excused
  <2> QED
    BY <1>0, <2>1, <2>2, QuietServes
<1>2. CASE ReadHeaders(c)
  <2>1. /\ pc[c] = "headers" /\ up /\ UNCHANGED <<req, reply, left, up>>
        /\ pc'[c] \in {"close", "open", "head"}
    BY <1>t, <1>2 DEF ReadHeaders, At, Goto, Return
  <2>2. UNCHANGED code \/ \E n \in 5..13 : Return(c, n, "close") /\ (n \in {6, 7, 10} \/ Excused(c)')
    BY <1>2 DEF ReadHeaders
  <2> QED
    BY <1>0, <2>1, <2>2, QuietServes
<1>3. CASE OpenFile(c) \/ PipeIn(c) \/ PipeOut(c) \/ Fork(c)
  <2>1. /\ pc[c] \in {"open", "pipeIn", "pipeOut", "fork"} /\ up /\ UNCHANGED <<req, reply, left, up>>
        /\ pc'[c] # "done"
    BY <1>t, <1>3 DEF OpenFile, PipeIn, PipeOut, Fork, At, Goto, Return
  <2>2. \A n \in {8, 11, 12, 13} : Return(c, n, "close") => Excused(c)'
    BY <1>t DEF Return, Excused
  <2>3. UNCHANGED code \/ \E n \in 5..13 : Return(c, n, "close") /\ (n \in {6, 7, 10} \/ Excused(c)')
    BY <1>3, <2>2 DEF OpenFile, PipeIn, PipeOut, Fork
  <2> QED
    BY <1>0, <2>1, <2>3, QuietServes
<1>4. CASE \/ CloseFile(c) \/ CloseInR(c) \/ CloseOutW(c) \/ RelayBody(c) \/ WaitProgram(c)
           \/ ClosePipes(c)
  <2>1. /\ pc[c] \in {"closefile", "closeInR", "closeOutW", "body", "wait", "closePipes"} /\ up
        /\ pc'[c] # "done" /\ UNCHANGED <<req, reply, left, up, code>>
    BY <1>t, <1>4 DEF CloseFile, CloseInR, CloseOutW, RelayBody, WaitProgram, ClosePipes, At, Goto
  <2> QED
    BY <1>0, <2>1, QuietServes
<1>5. CASE SendStatus(c)
  <2>1. /\ pc[c] = "status" /\ up /\ pc'[c] # "done" /\ Deliver(c, <<StatusLines>>)
        /\ UNCHANGED <<req, left, up, code>>
    BY <1>t, <1>5 DEF SendStatus, At, Goto
  <2>2. ~left[c] => Continues(c, <<StatusLines>>)
    BY <2>1, SendContinues
  <2> QED
    BY <1>t, <2>1, <2>2, SendServes
<1>6. CASE SendHead(c)
  <2>1. /\ pc[c] = "head" /\ up /\ pc'[c] # "done" /\ Deliver(c, <<CgiLines>>)
        /\ UNCHANGED <<req, left, up, code>>
    BY <1>t, <1>6 DEF SendHead, At, Goto
  <2>2. ~left[c] => Continues(c, <<CgiLines>>)
    BY <2>1, SendContinues
  <2> QED
    BY <1>t, <2>1, <2>2, SendServes
<1>7. CASE SendFile(c)
  <2>1. /\ pc[c] = "sendfile" /\ up /\ pc'[c] # "done" /\ UNCHANGED <<req, left, up>>
    BY <1>t, <1>7 DEF SendFile, At, Goto, Return
  <2>2. CASE Deliver(c, Bytes(ServedSize(req[c]))) /\ UNCHANGED code
    <3>1. ~left[c] => Continues(c, Bytes(ServedSize(req[c])))
      BY <2>1, SendContinues
    <3>2. Bytes(ServedSize(req[c])) \in Seq(Int)
      BY <1>0, <2>1, RequestLen, BytesType DEF Asked
    <3> QED
      BY <2>1, <2>2, <3>1, <3>2, SendServes
  <2>3. CASE left[c] /\ Return(c, 9, "close") /\ UNCHANGED reply
    <3>1. Excused(c)'
      BY <2>1, <2>3 DEF Excused
    <3> QED
      BY <1>0, <2>1, <2>3, <3>1, QuietServes
  <2> QED
    BY <1>7, <2>2, <2>3 DEF SendFile
<1>8. CASE RelayOutput(c)
  <2>1. /\ pc[c] = "relay" /\ up /\ pc'[c] # "done" /\ UNCHANGED <<req, left, up, code>>
    BY <1>t, <1>8 DEF RelayOutput, At, Goto
  <2>2. CASE outbuf[c] # <<>>
    <3>1. Deliver(c, <<Head(outbuf[c])>>)
      BY <1>8, <2>2 DEF RelayOutput
    <3>2. ~left[c] => Continues(c, <<Head(outbuf[c])>>)
      BY <2>1, <2>2, RelayContinues
    <3>3. <<Head(outbuf[c])>> \in Seq(Int)
      <4>1. outbuf[c] \in Seq(Int)
        BY <1>0, AnswerTypes
      <4>2. Head(outbuf[c]) \in Int
        BY ONLY <2>2, <4>1
      <4> QED
        BY ONLY <4>2
    <3> QED
      BY <2>1, <3>1, <3>2, <3>3, SendServes
  <2>3. CASE outbuf[c] = <<>>
    <3>1. UNCHANGED reply
      BY <1>8, <2>3 DEF RelayOutput
    <3> QED
      BY <1>0, <2>1, <3>1, QuietServes
  <2> QED
    BY <2>2, <2>3
<1> QED
  BY <1>1, <1>2, <1>3, <1>4, <1>5, <1>6, <1>7, <1>8, CloseSockServes DEF Worker

(* A program's step is none of the service.                                *)
LEMMA ProgramServes ==
  ASSUME AInv, NEW c \in Conns, OwnStep(c), Program(c)
  PROVE  [Service!Next]_Service!vars
<1>1. UNCHANGED <<req, left, up, pc, code, reply>>
  BY DEF Program, Exec, ExecClosing, ProgramRead, ProgramWrite, ProgramExit
<1>2. UNCHANGED <<Phase(c), Excused(c)>>
  BY <1>1 DEF Phase, Excused
<1> QED
  BY <1>1, <1>2, ServiceStutters DEF AInv, IInv

(* The signal is the service's crash.                                      *)
LEMMA SigpipeServes ==
  ASSUME NEW c \in Conns, Sigpipe(c)
  PROVE  Service!Crash
<1>1. ~up' /\ UNCHANGED <<req, reply>>
  BY DEF Sigpipe
<1>2. \A d \in Conns :
        /\ Excused(d)' = TRUE
        /\ Phase(d)' = IF Phase(d) = "none" THEN "none" ELSE "closed"
  BY <1>1 DEF Excused, Phase
<1>3. [d \in Conns |-> Excused(d)]' = [d \in Conns |-> TRUE]
  BY <1>2
<1>4. [d \in Conns |-> Phase(d)]'
        = [d \in Conns |-> IF [k \in Conns |-> Phase(k)][d] = "none" THEN "none" ELSE "closed"]
  BY <1>2
<1> QED
  BY <1>1, <1>3, <1>4 DEF Service!Crash

(* Every step of the server is a step of the service or a stutter.         *)
LEMMA NextServes ==
  ASSUME AInv, [Next]_vars
  PROVE  [Service!Next]_Service!vars
<1>1. ASSUME NEW c \in Conns, OwnStep(c)
      PROVE  [Service!Next]_Service!vars
  BY <1>1, ClientServes, MainServes, WorkerServes, ProgramServes DEF OwnStep, AInv
<1>2. ASSUME NEW c \in Conns, Sigpipe(c)
      PROVE  [Service!Next]_Service!vars
  BY <1>2, SigpipeServes DEF Service!Next
<1>3. CASE UNCHANGED vars
  BY <1>3 DEF vars, Service!vars, Phase, Excused
<1> QED
  BY <1>1, <1>2, <1>3, Steps

(* The server starts as the service does.                                  *)
LEMMA InitServes == Init => Service!Init
<1> SUFFICES ASSUME Init
             PROVE  Service!Init
  OBVIOUS
<1>1. req = [c \in Conns |-> None] /\ reply = [c \in Conns |-> <<>>]
  BY DEF Init
<1>2. \A c \in Conns : Phase(c) = "none" /\ Excused(c) = FALSE
  <2> SUFFICES ASSUME NEW c \in Conns
               PROVE  Phase(c) = "none" /\ Excused(c) = FALSE
    OBVIOUS
  <2>1. req[c] = None /\ left[c] = FALSE /\ up = TRUE /\ code[c] = 0
    BY DEF Init
  <2> QED
    BY <2>1 DEF Phase, Excused
<1>3. [c \in Conns |-> Phase(c)] = [c \in Conns |-> "none"]
  BY <1>2
<1>4. [c \in Conns |-> Excused(c)] = [c \in Conns |-> FALSE]
  BY <1>2
<1> QED
  BY <1>1, <1>3, <1>4 DEF Service!Init

(* The server implements the service of HttpService: for any connections,  *)
(* requests, descriptors, pipe size and failures, what is sent on a        *)
(* connection is at every moment a prefix of a complete answer to its      *)
(* request, and the handler closes the connection of a client that stayed  *)
(* on a complete answer unless a system call failed for it or the process  *)
(* ended.                                                                  *)
THEOREM ServiceImplemented == Spec => ImplementsService
<1> QED
  BY InitServes, NextServes, InvarianceAnswered, PTL DEF Spec, ImplementsService, Service!Spec
=============================================================================
