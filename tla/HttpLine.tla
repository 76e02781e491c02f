------------------------------ MODULE HttpLine ------------------------------
(***************************************************************************)
(* How httpd.c cuts what a client sends into lines: get_line(), called for *)
(* the request line by handler_request() and for the headers by            *)
(* drop_header() and by exe_cgi().  A step is one recv(); the client's     *)
(* bytes arrive in pieces of any size, and it may hang up between any two. *)
(* A byte is CR, LF or any other; a line with any other byte stands for a  *)
(* request line or a header the callers accept.                            *)
(***************************************************************************)
EXTENDS Integers, Sequences

CONSTANTS
  CR, LF, Other,
  Nul,       \* '\0', what c is at the start of get_line()
  Size,      \* the size of the line buffers (1024 in the code)
  MaxLen     \* bound: the longest stream a client sends

ASSUME HttpLineAssumption ==
  /\ Size \in Nat \ {0, 1}
  /\ MaxLen \in Nat
  /\ CR # LF /\ Nul # LF

Char == {CR, LF, Other}

VARIABLES
  stream,    \* all the client means to send
  arrived,   \* how many bytes of it have reached the socket
  gone,      \* the client has hung up
  pos,       \* how many bytes the server has taken out
  stage,     \* the caller of get_line(): "request", "headers", "done", "refused"
  at,        \* in get_line(): at "recv" or at "peek", after a '\r'
  c, line,   \* its variables; Len(line) is its len
  lines      \* the lines it has returned

vars == <<stream, arrived, gone, pos, stage, at, c, line, lines>>
client == <<stream, arrived, gone>>

Reading == stage \in {"request", "headers"}

-----------------------------------------------------------------------------
Arrive ==
  /\ ~gone
  /\ \E n \in arrived + 1 .. Len(stream) : arrived' = n
  /\ UNCHANGED <<stream, gone, pos, stage, at, c, line, lines>>

HangUp ==
  /\ ~gone
  /\ gone' = TRUE
  /\ UNCHANGED <<stream, arrived, pos, stage, at, c, line, lines>>

-----------------------------------------------------------------------------
(* Slips: one more or one less byte fits the buffer.                       *)
LoopingOneMore == c # LF /\ Len(line) < Size
LoopingOneLess == c # LF /\ Len(line) < Size - 2

(* The condition of get_line()'s while.                                    *)
Looping == c # LF /\ Len(line) < Size - 1

Receiving == Reading /\ at = "recv" /\ Looping
Peeking == Reading /\ at = "peek"
Available == pos < arrived
AtEnd == pos = arrived /\ gone

(* recv() of one byte.  After a '\r' the next byte decides.                *)
Recv ==
  /\ Receiving /\ Available
  /\ pos' = pos + 1
  /\ c' = stream[pos + 1]
  /\ \/ c' = CR /\ at' = "peek" /\ UNCHANGED line
     \/ c' # CR /\ line' = Append(line, c') /\ UNCHANGED at
  /\ UNCHANGED <<client, stage, lines>>

(* Slip: the end of the stream is not taken for the end of the line.       *)
RecvEndIgnored ==
  /\ Receiving /\ AtEnd
  /\ UNCHANGED vars

RecvEnd ==
  /\ Receiving /\ AtEnd
  /\ c' = LF
  /\ UNCHANGED <<client, pos, stage, at, line, lines>>

(* Slip: the byte after a '\r' is taken out whatever it is.                *)
PeekTaking ==
  /\ Peeking /\ Available
  /\ pos' = pos + 1
  /\ c' = LF
  /\ line' = Append(line, LF)
  /\ at' = "recv"
  /\ UNCHANGED <<client, stage, lines>>

(* Slip: the '\n' after a '\r' is taken out twice.                         *)
PeekTwice ==
  /\ Peeking /\ Available
  /\ pos' = IF stream[pos + 1] = LF THEN pos + 2 ELSE pos
  /\ c' = LF
  /\ line' = Append(line, LF)
  /\ at' = "recv"
  /\ UNCHANGED <<client, stage, lines>>

(* recv(MSG_PEEK) after a '\r': a '\n' is taken out with it, another byte  *)
(* stays; either way the line gets a '\n'.                                 *)
Peek ==
  /\ Peeking /\ Available
  /\ pos' = IF stream[pos + 1] = LF THEN pos + 1 ELSE pos
  /\ c' = LF
  /\ line' = Append(line, LF)
  /\ at' = "recv"
  /\ UNCHANGED <<client, stage, lines>>

(* With nothing to peek at, the '\r' itself is stored.                     *)
PeekEnd ==
  /\ Peeking /\ AtEnd
  /\ line' = Append(line, CR)
  /\ at' = "recv"
  /\ UNCHANGED <<client, pos, stage, c, lines>>

(* The caller's use of the line: a request line that is empty or blank has *)
(* no method; the headers go on while the line is neither.                 *)
NextStage ==
  IF line \notin {<<>>, <<LF>>} THEN "headers"
  ELSE IF stage = "request" THEN "refused" ELSE "done"

ReturnLine ==
  /\ Reading /\ at = "recv" /\ ~Looping
  /\ lines' = Append(lines, line)
  /\ stage' = NextStage
  /\ line' = <<>>
  /\ c' = Nul
  /\ UNCHANGED <<client, pos, at>>

-----------------------------------------------------------------------------
Init ==
  /\ stream \in UNION {[1..n -> Char] : n \in 0..MaxLen}
  /\ arrived = 0 /\ gone = FALSE /\ pos = 0
  /\ stage = "request" /\ at = "recv" /\ c = Nul
  /\ line = <<>> /\ lines = <<>>

GetLine == Recv \/ RecvEnd \/ Peek \/ PeekEnd \/ ReturnLine

(* A client that stays and has sent all it means to may keep the server    *)
(* waiting for the rest of the headers; so may the end of them.            *)
Waiting ==
  /\ ~Reading \/ (~gone /\ arrived = Len(stream))
  /\ UNCHANGED vars

Next == Arrive \/ HangUp \/ GetLine \/ Waiting

Spec == Init /\ [][Next]_vars

(* What is sent arrives, and the handler's thread is scheduled.            *)
FairSpec == Spec /\ WF_vars(Arrive) /\ WF_vars(GetLine)

-----------------------------------------------------------------------------
TypeOK ==
  /\ stream \in Seq(Char)
  /\ arrived \in 0..Len(stream) /\ gone \in BOOLEAN
  /\ pos \in 0..arrived
  /\ stage \in {"request", "headers", "done", "refused"}
  /\ at \in {"recv", "peek"}
  /\ c \in Char \cup {Nul}
  /\ line \in Seq(Char)
  /\ lines \in Seq(Seq(Char))

(* line[len]='\0' at httpd.c:86 stays inside the buffer, for which the     *)
(* byte a peek stands for must still have its place (line 79).             *)
BufferHolds == Len(line) + 1 <= Size /\ (at = "peek" => Len(line) + 2 <= Size)

-----------------------------------------------------------------------------
Flat(ss) ==
  LET F[n \in 0..Len(ss)] == IF n = 0 THEN <<>> ELSE F[n - 1] \o ss[n] IN F[Len(ss)]

(* The first n bytes of s as text, as the comment at httpd.c:78 has it:    *)
(* \r -> \n, \r\n -> \n.                                                  *)
Normal(s, n) ==
  LET N[k \in 0..Len(s)] ==
        IF k = 0 THEN <<>>
        ELSE IF k > 1 /\ s[k] = LF /\ s[k - 1] = CR THEN N[k - 1]
        ELSE Append(N[k - 1], IF s[k] = CR THEN LF ELSE s[k])
  IN N[n]

(* Nothing is lost, repeated or reordered between the socket and the       *)
(* lines, however the bytes arrive: what was taken out is what the lines   *)
(* say, but for a '\r' still being looked at or the last one of a client   *)
(* that hung up (httpd.c:61-85).                                           *)
NothingLost ==
  LET taken == Normal(stream, pos)
      text == Flat(lines) \o line IN
  IF at = "peek" THEN taken = Append(text, LF)
  ELSE \/ taken = text
       \/ gone /\ pos > 0 /\ text = [taken EXCEPT ![Len(taken)] = CR]

Blank(text) ==
  LET n == Len(text) IN n > 1 /\ text[n] = LF /\ text[n - 1] = LF

(* httpd.c:158 says that the headers and the blank line have been read     *)
(* when the loop over them is over.                                        *)
HeadersReadThrough ==
  stage = "done" /\ ~gone => Blank(Normal(stream, pos))

(* The loop over the headers takes everything up to the first blank line   *)
(* and nothing after it, so that a body is left whole for exe_cgi().  The  *)
(* one exception: the rest of a line that just filled the buffer is a lone *)
(* '\n', which looks like a blank line (httpd.c:61, 125, 150).             *)
HeadersEndAtBlankLine ==
  LET text == Flat(lines) \o line IN
  /\ ~ \E n \in 1 .. Len(text) - 1 : Blank(SubSeq(text, 1, n))
  /\ stage = "done" /\ ~gone =>
       Blank(text) \/ Len(lines[Len(lines) - 1]) = Size - 1

(* The client need not hang up for its headers to be taken as complete,    *)
(* nor is a client that does waited for; only a lone '\r' at the very end  *)
(* leaves the server waiting for one more byte (httpd.c:69).               *)
HeadersEnd ==
  /\ gone ~> ~Reading
  /\ (/\ arrived = Len(stream) /\ arrived > 0 /\ stream[arrived] # CR
      /\ \E n \in 1..arrived : Blank(Normal(stream, n))) ~> ~Reading
=============================================================================
