------------------------------ MODULE Mysleep -------------------------------
(***************************************************************************)
(* signal/mysleep.c: a sleep made of alarm() and pause(), over and over.   *)
(* The alarm may ring as soon as it is set, before pause() is called.      *)
(***************************************************************************)
VARIABLES
  sleeper,   \* where the process is
  handled,   \* whether SIGALRM has the handler, not the default action
  armed      \* whether an alarm is set

sleepVars == <<sleeper, handled, armed>>

Killed == {"killed", "killed by alarm"}

(* The program is started.                                                 *)
SleepMain ==
  /\ sleeper \in Killed \cup {"none"}
  /\ sleeper' = "sigaction" /\ handled' = FALSE /\ armed' = FALSE

(* Slip: sigaction() is left out.                                          *)
SigactionForgotten ==
  /\ sleeper = "sigaction"
  /\ sleeper' = "alarm"
  /\ UNCHANGED <<handled, armed>>

(* sigaction(SIGALRM, &act, &oact)                                         *)
Sigaction ==
  /\ sleeper = "sigaction"
  /\ handled' = TRUE
  /\ sleeper' = "alarm"
  /\ UNCHANGED armed

Alarm ==
  /\ sleeper = "alarm"
  /\ armed' = TRUE
  /\ sleeper' = "alarmed"
  /\ UNCHANGED handled

Pause ==
  /\ sleeper = "alarmed"
  /\ sleeper' = "pausing"
  /\ UNCHANGED <<handled, armed>>

(* The signal: it wakes pause() up, is over before it, or kills.           *)
Ring ==
  /\ armed
  /\ armed' = FALSE
  /\ sleeper' = IF ~handled THEN "killed by alarm"
                ELSE IF sleeper = "pausing" THEN "woken" ELSE sleeper
  /\ UNCHANGED handled

(* alarm(0)                                                                *)
AlarmOff ==
  /\ sleeper = "woken"
  /\ armed' = FALSE
  /\ sleeper' = "restore"
  /\ UNCHANGED handled

(* sigaction(SIGALRM, &oact, NULL), and main()'s next round.               *)
Restore ==
  /\ sleeper = "restore"
  /\ handled' = FALSE
  /\ sleeper' = "sigaction"
  /\ UNCHANGED armed

(* A user's signal, sent to this process alone: ^C would reach the shell   *)
(* as well.                                                                *)
KillSleeper ==
  /\ sleeper \notin Killed \cup {"none"}
  /\ sleeper' = "killed" /\ armed' = FALSE
  /\ UNCHANGED handled

-----------------------------------------------------------------------------
SleepInit == sleeper = "none" /\ handled = FALSE /\ armed = FALSE

Sleep == Sigaction \/ Alarm \/ Pause \/ Ring \/ AlarmOff \/ Restore

-----------------------------------------------------------------------------
(* A sleep that has begun ends with the alarm, which does not kill, unless *)
(* the alarm rang before pause(): then it does not end (mysleep.c:22-26).  *)
WakesUp ==
  sleeper = "alarm" ~>
    \/ sleeper \in {"restore", "killed"}
    \/ sleeper \in {"alarmed", "pausing"} /\ ~armed
=============================================================================
