--------------------------- MODULE ProcessesProof ---------------------------
(***************************************************************************)
(* Proofs about Pipe, for every number and length of messages and every    *)
(* buffer that holds one, alone and under the shell of Session; and about  *)
(* SqlAgi, for any number of programs and any names of ordinary text.      *)
(***************************************************************************)
EXTENDS Session, SqlAgi, TLAPS, FiniteSetTheorems

PipeTypes ==
  /\ father \in {"none", "pipe", "fork", "read", "exited"}
  /\ child \in {"none", "write", "sleep", "exited", "killed"}
  /\ written \in 0 .. Messages /\ reads \in 0 .. Messages
  /\ consumed \in Nat /\ shown \in Nat /\ late \in BOOLEAN

(* How far the two processes are.                                          *)
Progress ==
  /\ child # "killed"
  /\ child = "write" => written < Messages
  /\ child = "exited" => written = Messages
  /\ child = "none" => written = 0 /\ reads = 0 /\ father # "read"
  /\ child # "none" => father \in {"read", "exited"}
  /\ child # "none" /\ father = "exited" => reads = Messages

(* No byte is read before it is written, and every read() has taken at     *)
(* least one message's bytes on average.                                   *)
KeepsUp ==
  /\ consumed <= written * MsgLen
  /\ consumed >= reads * MsgLen
  /\ ~late => consumed = reads * MsgLen /\ shown = reads

PipeInv == PipeTypes /\ Progress /\ KeepsUp

-----------------------------------------------------------------------------
(* What multiplying by the length of a message keeps.                      *)
LEMMA TimesLess ==
  ASSUME NEW a \in Nat, NEW b \in Nat, NEW l \in Nat \ {0}
  PROVE  /\ a * l \in Nat
         /\ a * l < b * l => a < b
         /\ a * l >= b * l => a >= b
         /\ (a + 1) * l = a * l + l
OBVIOUS

(* A multiple of a length leaves no rest.                                  *)
LEMMA TimesMod ==
  ASSUME NEW a \in Nat, NEW l \in Nat \ {0}
  PROVE  (a * l) % l = 0
OBVIOUS
-----------------------------------------------------------------------------
(* Nothing is written, and nothing read, before the program starts.        *)
LEMMA PipeInvInit == PipeInit => PipeInv
<1> SUFFICES ASSUME PipeInit
             PROVE  PipeInv
  OBVIOUS
<1>1. PipeTypes /\ Progress
  <2>1. late \in BOOLEAN
    BY DEF PipeInit
  <2>2. 0 \in 0 .. Messages
    BY PipeAssumption
  <2> QED  BY <2>1, <2>2 DEF PipeInit, PipeTypes, Progress
<1>2. 0 * MsgLen = 0
  BY PipeAssumption
<1>3. KeepsUp
  BY <1>2 DEF PipeInit, KeepsUp
<1> QED  BY <1>1, <1>3 DEF PipeInv

(* A read() that finds bytes takes what is there or a whole buffer: either *)
(* way it is one message further.                                          *)
LEMMA ReadKeepsUp ==
  ASSUME PipeInv, father = "read", reads < Messages, Waiting > 0, ReadAndPrint(Taken),
         reads' = reads + 1, UNCHANGED <<father, child, written>>
  PROVE  KeepsUp' /\ consumed' \in Nat /\ shown' \in Nat /\ late' \in BOOLEAN
<1> USE PipeAssumption
<1> DEFINE W == written * MsgLen
           R == reads * MsgLen
<1>1. /\ written \in Nat /\ reads \in Nat /\ consumed \in Nat /\ shown \in Nat
      /\ late \in BOOLEAN /\ MsgLen \in Nat \ {0} /\ BufLen \in Nat
  BY DEF PipeInv, PipeTypes
<1>2. W \in Nat /\ R \in Nat /\ (reads + 1) * MsgLen = R + MsgLen
  BY <1>1, TimesLess
<1>3. consumed <= W /\ consumed >= R /\ Waiting = W - consumed
  BY DEF PipeInv, KeepsUp, Waiting
<1>4. W >= R + MsgLen
  <2>1. reads < written
    BY <1>1, <1>2, <1>3, TimesLess
  <2>2. (reads + 1) * MsgLen <= W
    BY <2>1, <1>1, TimesLess
  <2> QED  BY <2>2, <1>2
<1>5. Taken \in Nat /\ Taken <= Waiting /\ (Taken = Waiting \/ Taken = BufLen)
  BY <1>1, <1>2, <1>3 DEF Taken
<1>6. consumed' = consumed + Taken /\ consumed' \in Nat
  BY <1>1, <1>5 DEF ReadAndPrint
<1>7. consumed' <= W /\ consumed' >= R + MsgLen
  BY <1>1, <1>2, <1>3, <1>4, <1>5, <1>6
<1>8. ASSUME ~late'
      PROVE  consumed' = R + MsgLen /\ shown' = reads + 1
  <2>1. ~late /\ Waiting <= MsgLen
    <3>1. late' = (late \/ Waiting > MsgLen)
      BY DEF ReadAndPrint
    <3>2. ~late /\ ~(Waiting > MsgLen)
      BY <3>1, <1>8
    <3> QED  BY <3>2, <1>1, <1>2, <1>3
  <2>2. consumed = R /\ shown = reads
    BY <2>1 DEF PipeInv, KeepsUp
  <2>3. Waiting = MsgLen /\ Taken = MsgLen
    BY <2>1, <2>2, <1>1, <1>2, <1>3, <1>4, <1>5
  <2>4. consumed % MsgLen = 0
    BY <2>2, <1>1, TimesMod
  <2> QED  BY <2>2, <2>3, <2>4, <1>1, <1>6 DEF ReadAndPrint
<1>9. shown' \in Nat /\ late' \in BOOLEAN
  BY <1>1 DEF ReadAndPrint
<1> QED  BY <1>2, <1>6, <1>7, <1>8, <1>9 DEF KeepsUp

(* Every step of the two processes keeps PipeInv.                          *)
LEMMA PipeInvNext == PipeInv /\ [PipeNext]_pipeVars => PipeInv'
<1> SUFFICES ASSUME PipeInv, [PipeNext]_pipeVars
             PROVE  PipeInv'
  OBVIOUS
<1> USE PipeAssumption
<1>1. CASE PipeMain
  <2>1. PipeTypes' /\ Progress'
    <3>1. late' \in BOOLEAN
      BY <1>1 DEF PipeMain
    <3>2. 0 \in 0 .. Messages
      OBVIOUS
    <3> QED  BY <1>1, <3>1, <3>2 DEF PipeMain, PipeTypes, Progress
  <2>2. 0 * MsgLen = 0
    OBVIOUS
  <2>3. KeepsUp'
    BY <1>1, <2>2 DEF PipeMain, KeepsUp
  <2> QED  BY <2>1, <2>3 DEF PipeInv
<1>2. CASE PipeCall
  BY <1>2 DEF PipeCall, PipeInv, PipeTypes, Progress, KeepsUp
<1>3. CASE PipeFork
  BY <1>3 DEF PipeFork, PipeInv, PipeTypes, Progress, KeepsUp
<1>4. CASE PipeWrite
  <2>1. father # "exited"
    <3> SUFFICES ASSUME father = "exited" PROVE FALSE
      OBVIOUS
    <3>1. reads = Messages /\ written < Messages
      BY <1>4 DEF PipeWrite, PipeInv, Progress
    <3>2. reads * MsgLen <= written * MsgLen
      BY TimesLess DEF PipeInv, PipeTypes, KeepsUp
    <3> QED  BY <3>1, <3>2, TimesLess DEF PipeInv, PipeTypes
  <2>2. (written + 1) * MsgLen = written * MsgLen + MsgLen /\ written * MsgLen \in Nat
    BY TimesLess DEF PipeInv, PipeTypes
  <2>3. PipeTypes' /\ Progress'
    BY <1>4, <2>1 DEF PipeWrite, fatherVars, PipeInv, PipeTypes, Progress
  <2>4. KeepsUp'
    BY <1>4, <2>1, <2>2 DEF PipeWrite, fatherVars, PipeInv, PipeTypes, KeepsUp
  <2> QED  BY <2>3, <2>4 DEF PipeInv
<1>5. CASE PipeSleep
  BY <1>5 DEF PipeSleep, fatherVars, PipeInv, PipeTypes, Progress, KeepsUp
<1>6. CASE PipeRead
  <2>1. CASE Waiting > 0 /\ ReadAndPrint(Taken)
    <3>1. KeepsUp' /\ consumed' \in Nat /\ shown' \in Nat /\ late' \in BOOLEAN
      BY <1>6, <2>1, ReadKeepsUp DEF PipeRead
    <3>2. PipeTypes' /\ Progress'
      BY <1>6, <3>1 DEF PipeRead, PipeInv, PipeTypes, Progress
    <3> QED  BY <3>1, <3>2 DEF PipeInv
  <2>2. CASE Waiting = 0 /\ child = "exited" /\ UNCHANGED <<consumed, shown, late>>
    <3> DEFINE R == reads * MsgLen
    <3>1. written = Messages /\ reads < Messages
      BY <1>6, <2>2 DEF PipeRead, PipeInv, Progress
    <3>2. (reads + 1) * MsgLen <= written * MsgLen /\ (reads + 1) * MsgLen = R + MsgLen
      BY <3>1, TimesLess DEF PipeInv, PipeTypes
    <3>3. R \in Nat /\ written * MsgLen \in Nat
      BY TimesLess DEF PipeInv, PipeTypes
    <3>4. consumed = written * MsgLen /\ consumed # R
      BY <2>2, <3>2, <3>3 DEF Waiting, PipeInv, PipeTypes
    <3>5. KeepsUp'
      BY <1>6, <2>2, <3>2, <3>3, <3>4 DEF PipeRead, PipeInv, KeepsUp
    <3>6. PipeTypes' /\ Progress'
      BY <1>6, <2>2 DEF PipeRead, PipeInv, PipeTypes, Progress
    <3> QED  BY <3>5, <3>6 DEF PipeInv
  <2> QED  BY <1>6, <2>1, <2>2 DEF PipeRead
<1>7. CASE PipeReturn
  BY <1>7 DEF PipeReturn, PipeInv, PipeTypes, Progress, KeepsUp
<1>8. CASE UNCHANGED pipeVars
  BY <1>8 DEF pipeVars, PipeInv, PipeTypes, Progress, KeepsUp
<1> QED
  BY <1>1, <1>2, <1>3, <1>4, <1>5, <1>6, <1>7, <1>8
     DEF PipeNext, PipeFather, PipeChild

(* A father that has read as often as there are messages finds them all    *)
(* written.                                                                *)
LEMMA InvWritesAll == PipeInv => ChildWritesAll /\ PrintedUnlessLate
<1> SUFFICES ASSUME PipeInv
             PROVE  ChildWritesAll /\ PrintedUnlessLate
  OBVIOUS
<1>1. father = "exited" /\ child # "none" => written = Messages
  <2> SUFFICES ASSUME father = "exited", child # "none"
               PROVE  written = Messages
    OBVIOUS
  <2>1. reads = Messages
    BY DEF PipeInv, Progress
  <2>2. written * MsgLen >= reads * MsgLen
    BY PipeAssumption, TimesLess DEF PipeInv, PipeTypes, KeepsUp
  <2> QED  BY <2>1, <2>2, PipeAssumption, TimesLess DEF PipeInv, PipeTypes
<1> QED  BY <1>1 DEF PipeInv, Progress, KeepsUp, ChildWritesAll, PrintedUnlessLate

(* PipeInv holds in every reachable state.                                 *)
LEMMA PipeInvariant == PipeSpec => []PipeInv
BY PipeInvInit, PipeInvNext, PTL DEF PipeSpec

(* The child of pipe.c is never killed by SIGPIPE: when the father leaves, *)
(* it has written its last message.                                        *)
THEOREM ChildSurvives == PipeSpec => []ChildWritesAll
BY PipeInvariant, InvWritesAll, PTL

(* A message is lost to the reader only if one read() found two of them.   *)
THEOREM NothingLostInTime == PipeSpec => []PrintedUnlessLate
BY PipeInvariant, InvWritesAll, PTL

-----------------------------------------------------------------------------
(* A step of the shell starts pipe.c or leaves it alone.                   *)
LEMMA ShellStep == Shell => PipeMain \/ UNCHANGED pipeVars
<1>1. ReadLine \/ ForkJob \/ WaitJob \/ JobEnds => UNCHANGED pipeVars
  BY DEF ReadLine, ForkJob, WaitJob, JobEnds, programs
<1>2. Exec => PipeMain \/ UNCHANGED pipeVars
  <2> SUFFICES ASSUME Exec
               PROVE  PipeMain \/ UNCHANGED pipeVars
    OBVIOUS
  <2>1. CASE buf = "pipe"
    BY <2>1 DEF Exec
  <2>2. CASE buf # "pipe"
    BY <2>2 DEF Exec, programs
  <2> QED
    BY <2>1, <2>2
<1> QED
  BY <1>1, <1>2 DEF Shell

(* Under the shell, with mysleep beside it, pipe.c still behaves as Pipe   *)
(* says, however often it is run, each run being followed to its end       *)
(* (my_shell.c:46-56).                                                     *)
THEOREM PipeUnderShell == SessionSpec => PipeSpec
<1>1. SessionInit => PipeInit
  BY DEF SessionInit
<1>2. [SessionNext]_sessionVars => [PipeNext]_pipeVars
  <2> SUFFICES ASSUME [SessionNext]_sessionVars
               PROVE  [PipeNext]_pipeVars
    OBVIOUS
  <2>1. CASE Shell
    BY <2>1, ShellStep DEF PipeNext
  <2>2. CASE Father \/ Child
    BY <2>2 DEF Father, Child, PipeNext
  <2>3. CASE \/ Sleeps \/ (KillSleeper /\ UNCHANGED <<shellVars, pipeVars>>)
             \/ TooManyWords \/ ShellDead \/ UNCHANGED sessionVars
    BY <2>3 DEF Sleeps, TooManyWords, ShellDead, sessionVars, programs
  <2> QED
    BY <2>1, <2>2, <2>3 DEF SessionNext
<1> QED
  BY <1>1, <1>2, PTL DEF SessionSpec, PipeSpec

(* So pipe.c, run from the shell as often as a user likes, neither loses   *)
(* its child to SIGPIPE nor a message to a father that reads in time.      *)
THEOREM PipeRunsFromShell == SessionSpec => [](ChildWritesAll /\ PrintedUnlessLate)
<1>1. PipeSpec => []ChildWritesAll /\ []PrintedUnlessLate
  BY ChildSurvives, NothingLostInTime
<1> QED
  BY <1>1, PipeUnderShell, PTL

-----------------------------------------------------------------------------
(* A row of login, and what a program may be at.                           *)
Rows == [root : Names, by : Programs]

SqlTypes ==
  /\ login \in Seq(Rows) /\ root_first \in BOOLEAN /\ unique \in BOOLEAN
  /\ name \in [Programs -> Names \cup {"none"}]
  /\ at \in [Programs -> {"start", "find", "insert", "add", "select", "done", "dead"}]
  /\ seen \in [Programs -> Nat] /\ failed \in [Programs -> BOOLEAN]
  /\ first \in [Programs -> Nat]
  /\ told \in [Programs -> {"nothing", "root has login", "insert ok", "insert failed", "rows"}]

(* Nothing Find_Root() saw was a reason to refuse the name.                *)
Excused(p) ==
  \/ failed[p] \/ ~root_first
  \/ \A k \in 1..seen[p] : ~SameToMySQL(login[k].root, name[p])
  \/ first[p] \in 1..seen[p] /\ login[first[p]].root # name[p]

(* Rows are those of programs that found no reason not to add them.        *)
Added ==
  \A i \in DOMAIN login :
    at[login[i].by] = "done" /\ SameToMySQL(login[i].root, name[login[i].by])

Looked ==
  \A p \in Programs :
    /\ seen[p] <= Len(login)
    /\ at[p] \in {"find", "insert"} => name[p] \in Names
    /\ at[p] = "insert" \/ (\E i \in DOMAIN login : login[i].by = p) => Excused(p)

(* A schema that declares the name unique keeps it so.                     *)
KeptUnique ==
  unique => \A i, j \in DOMAIN login :
              i < j => ~SameToMySQL(login[i].root, login[j].root)

(* Who is told that the name is taken is done, and saw why.                *)
RefusedWhy ==
  \A p \in Programs :
    told[p] = "root has login" =>
      at[p] = "done" /\ (failed[p] \/ \E i \in 1..seen[p] : SameToMySQL(login[i].root, name[p]))

SqlInv == SqlTypes /\ Added /\ Looked /\ KeptUnique /\ RefusedWhy

(* Numbers up to a are numbers up to what is no less.                      *)
LEMMA Within ==
  ASSUME NEW a \in Nat, NEW b \in Nat, a <= b
  PROVE  \A i \in 1..a : i \in 1..b
  OBVIOUS

(* Numbers from 1 on are positive.                                         *)
LEMMA UpTo ==
  ASSUME NEW a \in Nat
  PROVE  \A i : i \in 1..a => i \in Nat /\ i # 0
  OBVIOUS

(* What is in the table of users.                                          *)
LEMMA RowsHave ==
  ASSUME SqlTypes
  PROVE  /\ login \in Seq(Rows) /\ Len(login) \in Nat /\ DOMAIN login = 1..Len(login)
         /\ \A i \in DOMAIN login : login[i].by \in Programs /\ login[i].root \in Names
<1>1. login \in Seq(Rows)
  BY DEF SqlTypes
<1>2. Len(login) \in Nat /\ DOMAIN login = 1..Len(login)
  BY <1>1
<1>3. ASSUME NEW i \in DOMAIN login
      PROVE  login[i].by \in Programs /\ login[i].root \in Names
  <2>1. i \in 1..Len(login)
    BY <1>2
  <2>2. login[i] \in Rows
    BY <1>1, <2>1
  <2> QED
    BY <2>2 DEF Rows
<1> QED
  BY <1>1, <1>2, <1>3

-----------------------------------------------------------------------------
(* What a row more leaves as it is.                                        *)
LEMMA AddedRow ==
  ASSUME SqlTypes, NEW r \in Rows, login' = Append(login, r)
  PROVE  /\ Len(login) \in Nat /\ DOMAIN login = 1..Len(login)
         /\ DOMAIN login' = 1 .. Len(login) + 1 /\ Len(login') = Len(login) + 1
         /\ \A i \in 1..Len(login) : login'[i] = login[i]
         /\ login'[Len(login) + 1] = r /\ login' \in Seq(Rows)
<1>1. login \in Seq(Rows)
  BY DEF SqlTypes
<1>2. /\ Len(login) \in Nat /\ DOMAIN login = 1..Len(login)
      /\ DOMAIN login' = 1 .. Len(login) + 1 /\ Len(login') = Len(login) + 1
  BY <1>1
<1> QED
  BY <1>1, <1>2

-----------------------------------------------------------------------------
(* Nothing has been looked for, and no row added.                          *)
LEMMA SqlInvInit == Init => SqlInv
<1> SUFFICES ASSUME Init
             PROVE  SqlInv
  OBVIOUS
<1>1. SqlTypes
  BY DEF Init, SqlTypes
<1>2. DOMAIN login = {} /\ Len(login) = 0
  BY DEF Init
<1> QED
  BY <1>1, <1>2 DEF Init, SqlInv, Added, Looked, KeptUnique, RefusedWhy

(* Steps that leave the table of the users alone, and the programs that    *)
(* are done.                                                               *)
LEMMA TableLeft ==
  ASSUME SqlInv, SqlTypes', NEW p \in Programs, UNCHANGED <<login, root_first, unique>>,
         \A q \in Programs \ {p} :
           /\ at'[q] = at[q] /\ name'[q] = name[q] /\ seen'[q] = seen[q]
           /\ failed'[q] = failed[q] /\ first'[q] = first[q] /\ told'[q] = told[q],
         at[p] \notin {"done", "dead"},
         seen'[p] <= Len(login),
         at'[p] \in {"find", "insert"} => name'[p] \in Names,
         at'[p] = "insert" => Excused(p)',
         told'[p] = "root has login" /\ told'[p] # told[p] =>
           at'[p] = "done" /\ (failed'[p] \/ \E i \in 1..seen'[p] :
                                                SameToMySQL(login[i].root, name'[p]))
  PROVE  SqlInv'
<1>1. ASSUME NEW i \in DOMAIN login
      PROVE  login[i].by \in Programs \ {p}
  <2>2. login[i].by \in Programs
    BY RowsHave DEF SqlInv
  <2>3. at[login[i].by] = "done"
    BY DEF SqlInv, Added
  <2> QED
    BY <2>2, <2>3
<1>2. Added'
  BY <1>1 DEF SqlInv, Added
<1>3. ASSUME NEW q \in Programs \ {p}
      PROVE  Excused(q)' <=> Excused(q)
  BY <1>3 DEF Excused
<1>4. Looked'
  BY <1>1, <1>3 DEF SqlInv, Looked
<1>5. KeptUnique'
  BY DEF SqlInv, KeptUnique
<1>6. RefusedWhy'
  <2>1. told'[p] = "root has login" =>
          at'[p] = "done" /\ (failed'[p] \/ \E i \in 1..seen'[p] : SameToMySQL(login'[i].root, name'[p]))
    <3>1. told[p] # "root has login"
      BY DEF SqlInv, RefusedWhy
    <3> QED
      BY <3>1
  <2> QED
    BY <2>1 DEF SqlInv, RefusedWhy
<1> QED
  BY <1>2, <1>4, <1>5, <1>6 DEF SqlInv

(* Every step keeps SqlInv. The one that matters is the second query: it   *)
(* adds a row that none of those who looked before it can have seen.       *)
LEMMA SqlInvNext == SqlInv /\ [Next]_vars => SqlInv'
<1> SUFFICES ASSUME SqlInv, [Next]_vars
             PROVE  SqlInv'
  OBVIOUS
<1>0. /\ Len(login) \in Nat /\ DOMAIN login = 1..Len(login)
      /\ name \in [Programs -> Names \cup {"none"}]
      /\ at \in [Programs -> {"start", "find", "insert", "add", "select", "done", "dead"}]
      /\ seen \in [Programs -> Nat] /\ failed \in [Programs -> BOOLEAN]
      /\ first \in [Programs -> Nat]
      /\ told \in [Programs -> {"nothing", "root has login", "insert ok", "insert failed", "rows"}]
      /\ \A q \in Programs : seen[q] \in Nat /\ seen[q] <= Len(login)
      /\ \A i \in DOMAIN login : login[i].by \in Programs
  <2>1. /\ Len(login) \in Nat /\ DOMAIN login = 1..Len(login)
        /\ \A i \in DOMAIN login : login[i].by \in Programs
    BY RowsHave DEF SqlInv
  <2>2. \A q \in Programs : seen[q] <= Len(login)
    BY DEF SqlInv, Looked
  <2>3. SqlTypes
    BY DEF SqlInv
  <2> QED
    BY <2>1, <2>2, <2>3 DEF SqlTypes
<1>1. ASSUME NEW p \in Programs, StartLogin(p) \/ StartInfo(p) \/ StartSelect(p)
      PROVE  SqlInv'
  <2>1. PICK w \in {"find", "add", "select", "dead"} :
          /\ at[p] = "start" /\ at' = [at EXCEPT ![p] = w]
          /\ UNCHANGED <<login, root_first, unique, seen, failed, first, told>>
          /\ (UNCHANGED name /\ w # "find") \/ \E n \in Names : name' = [name EXCEPT ![p] = n]
    BY <1>1 DEF StartLogin, StartInfo, StartSelect, Starts, Go, tables, result
  <2>2. SqlTypes'
    BY <1>0, <2>1 DEF SqlInv, SqlTypes
  <2>3. /\ \A q \in Programs \ {p} : at'[q] = at[q] /\ name'[q] = name[q]
        /\ at'[p] = w /\ (w = "find" => name'[p] \in Names)
    BY <1>0, <2>1
  <2> QED
    BY <1>0, <2>1, <2>2, <2>3, TableLeft
<1>2. ASSUME NEW p \in Programs, FindRoot(p)
      PROVE  SqlInv'
  <2>0. PICK ok \in BOOLEAN :
          \E f \in IF ok THEN MayComeFirst(name[p]) ELSE {0} :
            /\ failed' = [failed EXCEPT ![p] = ~ok] /\ first' = [first EXCEPT ![p] = f]
            /\ \/ (ok => ~Refused(name[p], f)) /\ Go(p, "insert") /\ UNCHANGED told
               \/ /\ ok => Refused(name[p], f) \/ ComparedElsewhere(name[p], f)
                  /\ Go(p, "done") /\ Tell(p, "root has login")
               \/ Go(p, "dead") /\ UNCHANGED told
    BY <1>0, <1>2 DEF FindRoot
  <2>1. PICK f \in IF ok THEN MayComeFirst(name[p]) ELSE {0} :
          /\ failed' = [failed EXCEPT ![p] = ~ok] /\ first' = [first EXCEPT ![p] = f]
          /\ \/ (ok => ~Refused(name[p], f)) /\ Go(p, "insert") /\ UNCHANGED told
             \/ /\ ok => Refused(name[p], f) \/ ComparedElsewhere(name[p], f)
                /\ Go(p, "done") /\ Tell(p, "root has login")
             \/ Go(p, "dead") /\ UNCHANGED told
    BY <2>0
  <2>2. /\ at[p] = "find" /\ seen' = [seen EXCEPT ![p] = Len(login)]
        /\ UNCHANGED <<login, root_first, unique, name>>
    BY <1>2 DEF FindRoot, tables, given
  <2>8. /\ f \in Nat
        /\ ok => (f = 0 /\ Matching(name[p]) = {}) \/ f \in Matching(name[p])
        /\ Matching(name[p]) \subseteq 1..Len(login)
    <3>1. Matching(name[p]) \subseteq 1..Len(login)
      BY <1>0 DEF Matching
    <3>2. ok => (f = 0 /\ Matching(name[p]) = {}) \/ f \in Matching(name[p])
      BY <2>1 DEF MayComeFirst
    <3>4. f = 0 \/ f \in Matching(name[p])
      BY <2>1 DEF MayComeFirst
    <3>3. f \in Nat
      <4>1. CASE f = 0
        BY <4>1
      <4>2. CASE f \in Matching(name[p])
        <5>1. f \in 1..Len(login)
          BY <3>1, <4>2, Zenon
        <5>2. Len(login) \in Nat
          BY <1>0
        <5> QED
          BY <5>1, <5>2, UpTo, Zenon
      <4> QED
        BY <3>4, <4>1, <4>2
    <3> QED
      BY <3>1, <3>2, <3>3
  <2>3. SqlTypes'
    BY <1>0, <2>1, <2>2, <2>8 DEF SqlInv, SqlTypes, Go, Tell
  <2>4. /\ \A q \in Programs \ {p} : at'[q] = at[q] /\ seen'[q] = seen[q] /\ failed'[q] = failed[q]
                                       /\ first'[q] = first[q] /\ told'[q] = told[q]
        /\ seen'[p] = Len(login) /\ failed'[p] = ~ok /\ first'[p] = f /\ name[p] \in Names
    BY <1>0, <2>1, <2>2 DEF Go, Tell, SqlInv, Looked
  <2>9. seen'[p] <= Len(login)
    <3>1. \A k \in Nat : k <= k
      OBVIOUS
    <3> QED
      BY <1>0, <2>4, <3>1, Zenon
  <2>10. \A q \in Programs \ {p} :
           /\ at'[q] = at[q] /\ name'[q] = name[q] /\ seen'[q] = seen[q]
           /\ failed'[q] = failed[q] /\ first'[q] = first[q] /\ told'[q] = told[q]
    BY <2>2, <2>4
  <2>5. CASE (ok => ~Refused(name[p], f)) /\ Go(p, "insert") /\ UNCHANGED told
    <3>1. at'[p] = "insert"
      BY <1>0, <2>5 DEF Go
    <3>2. PICK m : m = name[p]
      OBVIOUS
    <3>3. Excused(p)'
      <4>1. failed'[p] \/ ok
        BY <2>4
      <4>2. CASE Matching(m) = {}
        <5>1. \A k \in 1..Len(login) : ~SameToMySQL(login[k].root, m)
          BY <1>0, <4>2 DEF Matching
        <5> QED
          BY <2>2, <2>4, <3>2, <5>1 DEF Excused
      <4>3. CASE ok /\ Matching(m) # {}
        <5>1. f \in 1..Len(login) /\ f # 0
          <6>1. f \in Matching(name[p])
            BY <2>8, <3>2, <4>3, Zenon
          <6>2. f \in 1..Len(login)
            BY <2>8, <6>1, Zenon
          <6>3. Len(login) \in Nat
            BY <1>0
          <6> QED
            BY <6>2, <6>3, UpTo, Zenon
        <5>2. ~root_first \/ login[f].root # m
          BY <2>5, <3>2, <4>3, <5>1 DEF Refused
        <5> QED
          BY <2>2, <2>4, <3>2, <5>1, <5>2 DEF Excused
      <4> QED
        BY <4>1, <4>2, <4>3 DEF Excused
    <3>4. /\ at[p] \notin {"done", "dead"}
          /\ (at'[p] \in {"find", "insert"} => name'[p] \in Names)
          /\ ~(told'[p] = "root has login" /\ told'[p] # told[p])
          /\ UNCHANGED <<login, root_first, unique>>
      BY <1>0, <2>2, <2>4, <2>5
    <3> QED
      BY <2>3, <3>1, <3>3, <3>4, <2>10, <2>9, TableLeft, Zenon
  <2>6. CASE /\ ok => Refused(name[p], f) \/ ComparedElsewhere(name[p], f)
             /\ Go(p, "done") /\ Tell(p, "root has login")
    <3>1. at'[p] = "done" /\ told'[p] = "root has login"
      BY <1>0, <2>6 DEF Go, Tell
    <3>2. ok => \E i \in 1..seen'[p] : SameToMySQL(login[i].root, name'[p])
      <4> SUFFICES ASSUME ok
                   PROVE  \E i \in 1..seen'[p] : SameToMySQL(login[i].root, name'[p])
        OBVIOUS
      <4>1. Matching(name[p]) # {}
        <5> SUFFICES ASSUME Matching(name[p]) = {}
                     PROVE  FALSE
          OBVIOUS
        <5>1. Cardinality(Matching(name[p])) = 0
          BY FS_EmptySet, Zenon
        <5>2. ~(Cardinality(Matching(name[p])) > 1)
          BY <5>1
        <5>3. f = 0
          BY <2>8
        <5> QED
          BY <2>6, <5>2, <5>3 DEF ComparedElsewhere, Refused
      <4>2. DOMAIN login = 1..Len(login)
        BY <1>0
      <4>3. PICK i \in 1..Len(login) : SameToMySQL(login[i].root, name[p])
        BY <4>1, <4>2 DEF Matching
      <4> QED
        BY <2>2, <2>4, <4>3
    <3>4. /\ at[p] \notin {"done", "dead"}
          /\ at'[p] \notin {"find", "insert"} /\ at'[p] # "insert"
          /\ UNCHANGED <<login, root_first, unique>>
      BY <1>0, <2>2, <2>4, <3>1
    <3>6. failed'[p] \/ \E i \in 1..seen'[p] : SameToMySQL(login[i].root, name'[p])
      BY <2>4, <3>2
    <3> QED
      BY <2>3, <3>1, <3>4, <2>10, <3>6, <2>9, TableLeft, Zenon
  <2>7. CASE Go(p, "dead") /\ UNCHANGED told
    <3>1. /\ at[p] \notin {"done", "dead"}
          /\ at'[p] \notin {"find", "insert"} /\ at'[p] # "insert"
          /\ told'[p] = told[p]
          /\ UNCHANGED <<login, root_first, unique>>
      BY <1>0, <2>2, <2>7 DEF Go
    <3> QED
      BY <2>3, <3>1, <2>10, <2>9, TableLeft, Zenon
  <2> QED
    BY <2>1, <2>5, <2>6, <2>7
<1>3. ASSUME NEW p \in Programs, MyInsert(p) \/ MySelect(p)
      PROVE  SqlInv'
  <2>1. /\ at[p] \in {"add", "select"} /\ at' = [at EXCEPT ![p] = "done"]
        /\ UNCHANGED <<login, root_first, unique, name, seen, failed, first>>
        /\ \/ UNCHANGED told \/ told' = [told EXCEPT ![p] = "insert failed"]
           \/ told' = [told EXCEPT ![p] = "rows"]
    BY <1>3 DEF MyInsert, MySelect, Go, Tell, tables, given, result
  <2>2. SqlTypes'
    BY <1>0, <2>1 DEF SqlInv, SqlTypes
  <2>3. /\ \A q \in Programs \ {p} : at'[q] = at[q] /\ told'[q] = told[q]
        /\ at'[p] = "done" /\ (told'[p] = told[p] \/ told'[p] # "root has login")
    BY <1>0, <2>1
  <2> QED
    BY <1>0, <2>1, <2>2, <2>3, TableLeft
<1>4. ASSUME NEW p \in Programs, Insert(p)
      PROVE  SqlInv'
  <2>1. /\ at[p] = "insert" /\ at' = [at EXCEPT ![p] = "done"]
        /\ UNCHANGED <<root_first, unique, name, seen, failed, first>>
    BY <1>4 DEF Insert, Go, given, result
  <2>2. CASE UNCHANGED login /\ Tell(p, "insert failed")
    <3>1. SqlTypes'
      BY <1>0, <2>1, <2>2 DEF SqlInv, SqlTypes, Tell
    <3>2. /\ \A q \in Programs \ {p} : at'[q] = at[q] /\ told'[q] = told[q]
          /\ at'[p] = "done" /\ told'[p] = "insert failed"
      BY <1>0, <2>1, <2>2 DEF Tell
    <3> QED
      BY <1>0, <2>1, <2>2, <3>1, <3>2, TableLeft
  <2>3. ASSUME unique => Matching(name[p]) = {}, NEW k \in KeptAs(name[p]),
               login' = Append(login, [root |-> k, by |-> p]), Tell(p, "insert ok")
        PROVE  SqlInv'
    <3>1. name[p] \in Names /\ Excused(p)
      BY <2>1 DEF SqlInv, Looked
    <3> DEFINE r == [root |-> k, by |-> p]
               n == Len(login)
    <3>2. r \in Rows /\ SameToMySQL(k, name[p])
      BY <2>3 DEF Rows, KeptAs
    <3>3. /\ n \in Nat /\ DOMAIN login = 1..n
          /\ DOMAIN login' = 1 .. n + 1 /\ Len(login') = n + 1
          /\ \A i \in 1..n : login'[i] = login[i]
          /\ login'[n + 1] = r
      BY <2>3, <3>2, AddedRow DEF SqlInv
    <3>11. login' \in Seq(Rows)
      BY <2>3, <3>2, AddedRow DEF SqlInv
    <3>12. ASSUME NEW q \in Programs
           PROVE  seen[q] \in Nat /\ seen[q] <= n /\ seen[q] <= n + 1 /\ seen[q] < n + 1
      <4>1. seen[q] \in Nat /\ seen[q] <= n /\ n \in Nat
        BY <1>0
      <4> QED
        BY <4>1
    <3>4. \A q \in Programs : Excused(q) => Excused(q)'
      <4> SUFFICES ASSUME NEW q \in Programs, Excused(q)
                   PROVE  Excused(q)'
        OBVIOUS
      <4>1. \A x \in 1..seen[q] : x \in 1..n
        <5>1. seen[q] \in Nat /\ seen[q] <= n /\ n \in Nat
          BY <3>3, <3>12
        <5> QED
          BY <5>1, Within, Zenon
      <4>2. \A x \in 1..seen[q] : login'[x] = login[x]
        BY <3>3, <4>1
      <4> QED
        BY <2>1, <4>2 DEF Excused
    <3>5. SqlTypes'
      BY <1>0, <2>1, <2>3, <3>11 DEF SqlInv, SqlTypes, Tell
    <3>6. /\ \A q \in Programs \ {p} : at'[q] = at[q] /\ told'[q] = told[q]
          /\ at'[p] = "done" /\ told'[p] = "insert ok" /\ r.by = p
          /\ r.root = k
      BY <1>0, <2>1, <2>3 DEF Tell
    <3> HIDE DEF r
    <3>7. Added'
      <4>1. ASSUME NEW i \in DOMAIN login'
            PROVE  at'[login'[i].by] = "done" /\ SameToMySQL(login'[i].root, name[login'[i].by])
        <5>1. CASE i = n + 1
          BY <3>2, <3>3, <3>6, <5>1
        <5>2. CASE i # n + 1
          <6>1. i \in 1..n /\ login'[i] = login[i]
            BY <3>3, <5>2
          <6>2. at[login[i].by] = "done" /\ SameToMySQL(login[i].root, name[login[i].by])
            BY <3>3, <6>1 DEF SqlInv, Added
          <6>3. login[i].by \in Programs
            BY <3>3, <6>1, <1>0
          <6>4. login[i].by # p
            BY <2>1, <6>2
          <6>5. at'[login[i].by] = "done"
            BY <3>6, <6>2, <6>3, <6>4
          <6> QED
            BY <6>1, <6>2, <6>5, Zenon
        <5> QED
          BY <5>1, <5>2
      <4> QED
        BY <2>1, <4>1 DEF Added
    <3>8. Looked'
      <4>1. ASSUME NEW q \in Programs, at'[q] = "insert" \/ \E i \in DOMAIN login' : login'[i].by = q
            PROVE  Excused(q)
        <5>1. CASE q = p
          BY <3>1, <5>1
        <5>2. CASE q # p /\ at'[q] = "insert"
          BY <3>6, <5>2 DEF SqlInv, Looked
        <5>3. ASSUME q # p, NEW i \in DOMAIN login', login'[i].by = q
              PROVE  Excused(q)
          <6>1. i # n + 1
            BY <3>3, <3>6, <5>3
          <6>2. i \in DOMAIN login /\ login[i].by = q
            BY <3>3, <5>3, <6>1
          <6> QED
            BY <6>2 DEF SqlInv, Looked
        <5> QED
          BY <4>1, <5>1, <5>2, <5>3
      <4>2. \A q \in Programs : seen'[q] <= Len(login') /\ (at'[q] \in {"find", "insert"} => name'[q] \in Names)
        <5>1. \A q \in Programs : seen[q] <= n + 1
          BY <3>12
        <5>2. \A q \in Programs : at'[q] \in {"find", "insert"} => name[q] \in Names
          BY <3>6 DEF SqlInv, Looked
        <5> QED
          BY <2>1, <3>3, <5>1, <5>2
      <4> QED
        BY <3>4, <4>1, <4>2 DEF Looked
    <3>9. KeptUnique'
      <4> SUFFICES ASSUME unique, NEW i \in 1 .. n + 1, NEW j \in 1 .. n + 1, i < j
                   PROVE  ~SameToMySQL(login'[i].root, login'[j].root)
        BY <2>1, <3>3 DEF KeptUnique
      <4>1. i \in 1..n /\ login'[i] = login[i]
        BY <3>3
      <4>2. CASE j = n + 1
        <5>1. i \notin Matching(name[p])
          BY <2>3
        <5>2. ~SameToMySQL(login[i].root, name[p])
          BY <3>3, <4>1, <5>1 DEF Matching
        <5> QED
          BY <3>2, <3>3, <3>6, <4>1, <4>2, <5>2 DEF SameToMySQL
      <4>3. CASE j # n + 1
        <5>1. j \in 1..n /\ login'[j] = login[j]
          BY <3>3, <4>3
        <5> QED
          BY <3>3, <4>1, <5>1 DEF SqlInv, KeptUnique
      <4> QED
        BY <4>2, <4>3
    <3>10. RefusedWhy'
      <4> SUFFICES ASSUME NEW q \in Programs, told'[q] = "root has login"
                   PROVE  /\ at'[q] = "done"
                          /\ failed'[q] \/ \E i \in 1..seen'[q] : SameToMySQL(login'[i].root, name'[q])
        BY DEF RefusedWhy
      <4>1. q # p /\ told[q] = "root has login" /\ at'[q] = at[q]
        BY <3>6
      <4>2. at[q] = "done" /\ (failed[q] \/ \E i \in 1..seen[q] : SameToMySQL(login[i].root, name[q]))
        BY <4>1 DEF SqlInv, RefusedWhy
      <4>3. \A i \in 1..seen[q] : i \in 1..n
        <5>1. seen[q] \in Nat /\ seen[q] <= n /\ n \in Nat
          BY <3>3, <3>12
        <5> QED
          BY <5>1, Within, Zenon
      <4> QED
        BY <2>1, <3>3, <4>1, <4>2, <4>3
    <3> QED
      BY <3>5, <3>7, <3>8, <3>9, <3>10 DEF SqlInv
  <2> QED
    BY <1>4, <2>2, <2>3 DEF Insert
<1>5. CASE UNCHANGED vars
  <2>1. SqlTypes' /\ Added' /\ KeptUnique' /\ RefusedWhy'
    BY <1>5 DEF vars, SqlInv, SqlTypes, Added, KeptUnique, RefusedWhy
  <2>2. ASSUME NEW q \in Programs
        PROVE  Excused(q)' <=> Excused(q)
    BY <1>5 DEF vars, result, Excused
  <2>3. Looked'
    BY <1>5, <2>2 DEF vars, SqlInv, Looked
  <2> QED
    BY <2>1, <2>3 DEF SqlInv
<1> QED
  BY <1>1, <1>2, <1>3, <1>4, <1>5 DEF Next

(* SqlInv holds in every reachable state.                                  *)
LEMMA SqlInvariant == Spec => []SqlInv
  BY SqlInvInit, SqlInvNext, PTL DEF Spec

(* A name is there twice only if the schema allows it and the second of    *)
(* the two had looked before the first was added, or got no result, or one *)
(* whose first row does not read like the name, whatever row the server    *)
(* puts first (sql_agi.cpp:31-46, 78-92).                                  *)
THEOREM DuplicatesHaveCause == Spec => []DuplicateHasCause
<1>1. SqlInv => DuplicateHasCause
  <2> SUFFICES ASSUME SqlInv, NEW i \in DOMAIN login, NEW j \in DOMAIN login, i < j,
                      SameToMySQL(login[i].root, login[j].root)
               PROVE  /\ ~unique
                      /\ LET p == login[j].by IN
                           \/ seen[p] < i \/ failed[p]
                           \/ ~root_first \/ login[first[p]].root # name[p]
    BY DEF DuplicateHasCause
  <2>1. ~unique
    BY DEF SqlInv, KeptUnique
  <2>2. login[j].by \in Programs
    BY RowsHave DEF SqlInv
  <2>3. Excused(login[j].by) /\ SameToMySQL(login[j].root, name[login[j].by])
    BY <2>2 DEF SqlInv, Looked, Added
  <2>4. SameToMySQL(login[i].root, name[login[j].by])
    BY <2>3 DEF SameToMySQL
  <2>5. ~(seen[login[j].by] < i) => i \in 1..seen[login[j].by]
    <3>1. i \in Nat \ {0} /\ seen[login[j].by] \in Nat
      <4>1. Len(login) \in Nat /\ DOMAIN login = 1..Len(login)
        BY RowsHave DEF SqlInv
      <4>2. seen[login[j].by] \in Nat
        BY <2>2 DEF SqlInv, SqlTypes
      <4> QED
        BY <4>1, <4>2
    <3> QED
      BY <3>1
  <2> QED
    BY <2>1, <2>3, <2>4, <2>5 DEF Excused
<1> QED
  BY <1>1, SqlInvariant, PTL

(* Who is told that the name is taken could see a user of that name, or    *)
(* got no result (sql_agi.cpp:31-46, 78-83).                               *)
THEOREM RefusedForCause == Spec => []RefusedRightly
<1>1. SqlInv => RefusedRightly
  BY DEF SqlInv, RefusedWhy, RefusedRightly
<1> QED
  BY <1>1, SqlInvariant, PTL
=============================================================================
