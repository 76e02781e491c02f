-------------------------------- MODULE Pipe --------------------------------
(***************************************************************************)
(* pipe.c: a child writes Messages messages into a pipe, with a sleep      *)
(* after each, and its father reads as many times and prints what each     *)
(* read() returned, up to the end of the first message in it.  The pipe    *)
(* has room for all of them.  The father does not wait for the child.      *)
(***************************************************************************)
EXTENDS Integers

CONSTANTS
  Messages,   \* how many (100 in the code)
  MsgLen,     \* bytes of a message, its final 0 included (18)
  BufLen      \* bytes a read() asks for (100)

ASSUME PipeAssumption ==
  /\ Messages \in Nat \ {0} /\ MsgLen \in Nat \ {0}
  /\ BufLen \in Nat /\ BufLen >= MsgLen

VARIABLES
  father, child,       \* where the two processes are
  written, consumed,   \* messages written; bytes read
  reads, shown, late   \* read()s done; messages printed whole; whether one
                       \* read() found more than one message

pipeVars == <<father, child, written, consumed, reads, shown, late>>
fatherVars == <<father, consumed, reads, shown, late>>

Waiting == written * MsgLen - consumed
Taken == IF Waiting < BufLen THEN Waiting ELSE BufLen

-----------------------------------------------------------------------------
(* The program is started, once more when both processes have ended.       *)
PipeMain ==
  /\ father \in {"none", "exited"} /\ child \in {"none", "exited", "killed"}
  /\ father' = "pipe" /\ child' = "none"
  /\ written' = 0 /\ consumed' = 0 /\ reads' = 0 /\ shown' = 0 /\ late' = FALSE

(* pipe() and fork(): either failure ends the program.                     *)
PipeCall ==
  /\ father = "pipe"
  /\ father' \in {"fork", "exited"}
  /\ UNCHANGED <<child, written, consumed, reads, shown, late>>

PipeFork ==
  /\ father = "fork"
  /\ \/ father' = "read" /\ child' = "write"
     \/ father' = "exited" /\ UNCHANGED child
  /\ UNCHANGED <<written, consumed, reads, shown, late>>

(* write(), which kills the child when the father has gone.                *)
PipeWrite ==
  /\ child = "write"
  /\ IF father = "exited" THEN child' = "killed" /\ UNCHANGED written
                          ELSE child' = "sleep" /\ written' = written + 1
  /\ UNCHANGED fatherVars

(* sleep(1) ends; after the last message close(pipefd[1]).                 *)
PipeSleep ==
  /\ child = "sleep"
  /\ child' = IF written < Messages THEN "write" ELSE "exited"
  /\ UNCHANGED <<written, fatherVars>>

(* A read() of n > 0 bytes and the printf().                               *)
ReadAndPrint(n) ==
  /\ consumed' = consumed + n
  /\ shown' = IF consumed % MsgLen = 0 /\ n >= MsgLen THEN shown + 1 ELSE shown
  /\ late' = (late \/ Waiting > MsgLen)

(* Slip: the father keeps its own write end open.                          *)
PipeReadOpen ==
  /\ father = "read" /\ reads < Messages
  /\ Waiting > 0 /\ ReadAndPrint(Taken)
  /\ reads' = reads + 1
  /\ UNCHANGED <<father, child, written>>

(* Slip: the final 0 is not asked for.                                     *)
PipeReadShort ==
  /\ father = "read" /\ reads < Messages
  /\ \/ Waiting > 0 /\ ReadAndPrint(IF Waiting < MsgLen THEN Waiting ELSE MsgLen - 1)
     \/ Waiting = 0 /\ child = "exited" /\ UNCHANGED <<consumed, shown, late>>
  /\ reads' = reads + 1
  /\ UNCHANGED <<father, child, written>>

(* read(), which waits unless the other end is closed, and printf().       *)
PipeRead ==
  /\ father = "read" /\ reads < Messages
  /\ \/ Waiting > 0 /\ ReadAndPrint(Taken)
     \/ Waiting = 0 /\ child = "exited" /\ UNCHANGED <<consumed, shown, late>>
  /\ reads' = reads + 1
  /\ UNCHANGED <<father, child, written>>

PipeReturn ==
  /\ father = "read" /\ reads = Messages
  /\ father' = "exited"
  /\ UNCHANGED <<child, written, consumed, reads, shown, late>>

-----------------------------------------------------------------------------
PipeInit ==
  /\ father = "none" /\ child = "none" /\ written = 0 /\ consumed = 0
  /\ reads = 0 /\ shown = 0 /\ late = FALSE

PipeFather == PipeCall \/ PipeFork \/ PipeRead \/ PipeReturn
PipeChild == PipeWrite \/ PipeSleep

PipeNext == PipeMain \/ PipeFather \/ PipeChild

PipeSpec == PipeInit /\ [][PipeNext]_pipeVars

-----------------------------------------------------------------------------
(* The father never leaves before the last message is written, so that the *)
(* child is not killed, although one read() may take several messages and  *)
(* the next one less than a message (pipe.c:36, 47-55).                    *)
ChildWritesAll ==
  /\ child # "killed"
  /\ father = "exited" /\ child # "none" => written = Messages

(* As long as no read() found more than one message, every message was     *)
(* printed (pipe.c:50-51).                                                 *)
PrintedUnlessLate == ~late => shown = reads
=============================================================================
