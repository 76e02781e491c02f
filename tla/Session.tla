------------------------------ MODULE Session -------------------------------
(***************************************************************************)
(* my_shell.c, and the two examples as programs it runs: it reads a line,  *)
(* forks, executes, waits, and reports.  One pipe program at a time is     *)
(* followed to its end: the child it leaves behind is not restarted.       *)
(***************************************************************************)
EXTENDS Pipe, Mysleep

VARIABLES
  shell,   \* where the shell is
  buf,     \* the program its buffer names
  job      \* the shell's child

shellVars == <<shell, buf, job>>
sessionVars == <<shellVars, pipeVars, sleepVars>>
programs == <<pipeVars, sleepVars>>

(* "true" stands for any other program, "none such" for what execvp() does *)
(* not find, an empty line among it.                                       *)
Lines == {"pipe", "mysleep", "true", "none such"}

-----------------------------------------------------------------------------
(* read() from stdin.  At the end of the input the buffer keeps the last   *)
(* program's name, or at first whatever was on the stack.                  *)
ReadLine ==
  /\ shell = "read"
  /\ \E line \in Lines \cup {buf} : buf' = line
  /\ shell' = "fork"
  /\ UNCHANGED <<job, programs>>

(* More than 31 words are written past the end of _argv.                   *)
TooManyWords ==
  /\ shell = "read"
  /\ shell' = "dead"
  /\ UNCHANGED <<buf, job, programs>>

(* fork(); when it fails waitpid(-1) finds no child.                       *)
ForkJob ==
  /\ shell = "fork"
  /\ \/ shell' = "wait" /\ job' = "exec"
     \/ shell' = "read" /\ UNCHANGED job
  /\ UNCHANGED <<buf, programs>>

(* execvp(), or exit(1).                                                   *)
Exec ==
  /\ job = "exec"
  /\ CASE buf = "pipe" -> PipeMain /\ job' = "runs" /\ UNCHANGED sleepVars
       [] buf = "mysleep" -> SleepMain /\ job' = "runs" /\ UNCHANGED pipeVars
       [] buf = "true" -> job' = "runs" /\ UNCHANGED programs
       [] OTHER -> job' = "exited" /\ UNCHANGED programs
  /\ UNCHANGED <<shell, buf>>

Runs(program) == job = "runs" /\ buf = program

(* The program ends: main() of pipe.c returns, mysleep is killed.          *)
JobEnds ==
  /\ \/ Runs("pipe") /\ father = "exited" /\ job' = "exited"
     \/ Runs("mysleep") /\ sleeper \in Killed /\ job' = "killed"
     \/ Runs("true") /\ job' \in {"exited", "killed"}
  /\ UNCHANGED <<shell, buf, programs>>

(* waitpid(id, ...) and the report.                                        *)
WaitJob ==
  /\ shell = "wait" /\ job \in {"exited", "killed"}
  /\ job' = "none"
  /\ shell' = "read"
  /\ UNCHANGED <<buf, programs>>

ShellDead == shell = "dead" /\ UNCHANGED sessionVars

-----------------------------------------------------------------------------
SessionInit ==
  /\ shell = "read" /\ buf = "none such" /\ job = "none"
  /\ PipeInit /\ SleepInit

Shell == ReadLine \/ ForkJob \/ Exec \/ WaitJob \/ JobEnds
Father == PipeFather /\ UNCHANGED <<shellVars, sleepVars>>
Child == PipeChild /\ UNCHANGED <<shellVars, sleepVars>>
Sleeps == Sleep /\ UNCHANGED <<shellVars, pipeVars>>

SessionNext ==
  \/ Shell \/ Father \/ Child \/ Sleeps
  \/ KillSleeper /\ UNCHANGED <<shellVars, pipeVars>>
  \/ TooManyWords \/ ShellDead

(* Processes are scheduled and alarms ring; only the user's keyboard need  *)
(* not send anything, and another program need not end.                    *)
SessionSpec ==
  /\ SessionInit /\ [][SessionNext]_sessionVars
  /\ WF_sessionVars(Father) /\ WF_sessionVars(Child) /\ WF_sessionVars(Sleeps)
  /\ WF_sessionVars(ForkJob) /\ WF_sessionVars(Exec) /\ WF_sessionVars(WaitJob)
  /\ WF_sessionVars(JobEnds /\ buf # "true")

-----------------------------------------------------------------------------
(* The shell gets back to its prompt from anything that ends: it waits for *)
(* ever only for a program that runs for ever (my_shell.c:46-56), which    *)
(* pipe does not, however late its father reads (pipe.c:44-55).            *)
PromptComesBack ==
  shell = "wait" ~> shell = "read" \/ Runs("mysleep") \/ Runs("true")
=============================================================================
