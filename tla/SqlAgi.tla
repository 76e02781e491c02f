------------------------------- MODULE SqlAgi -------------------------------
(***************************************************************************)
(* The CGI programs over MySQL (httpd/sql_connect): insert_login signs a   *)
(* user up in two queries, insert_info and select_cgi add to and print     *)
(* another table.  httpd runs each in a process of its own, so that their  *)
(* queries interleave; every query may fail.                               *)
(*                                                                         *)
(* The programs paste what they are sent between the quotes of their       *)
(* statements.  The names and passwords here are ordinary text, without    *)
(* quotes and backslashes (a browser's form sends neither: it encodes      *)
(* them, and nothing decodes them), so that a statement is the one written *)
(* in the source; and the columns are wide enough to hold them.            *)
(***************************************************************************)
EXTENDS Naturals, Sequences, FiniteSets

CONSTANTS
  Programs,      \* the processes httpd starts
  Words          \* names, up to what MySQL's = takes for equal

(* MySQL's = ignores trailing blanks and accents, strcasecmp() does not.   *)
(* A column may give a name back without its blanks.                       *)
Names == [word : Words, plain : BOOLEAN]
SameToMySQL(a, b) == a.word = b.word
KeptAs(n) == {k \in Names : SameToMySQL(k, n)}

VARIABLES
  login, hr_info,        \* the tables: names and who added them; how many rows
  root_first, unique,    \* the schema, which is not in src/: whether root is
                         \* the first column of login, and declared unique
  at, connected,         \* of each program: where it is; whether myConnect()
                         \* succeeded
  name,                  \* insert_login: the name it was sent
  seen, failed,          \* Find_Root(): the rows there were; no result
  first,                 \* Find_Root(): the row its result began with, or 0
  told                   \* what its client is told

vars == <<login, hr_info, root_first, unique, at, connected, name, seen,
          failed, first, told>>
tables == <<login, hr_info>>
given == <<root_first, unique, connected, name>>
result == <<seen, failed, first>>

Go(p, where) == at' = [at EXCEPT ![p] = where]
Tell(p, what) == told' = [told EXCEPT ![p] = what]

(* Slip: the query lost its condition.                                     *)
EveryRow(n) == DOMAIN login

(* The rows the query of Find_Root() selects.  It asks for no order: which *)
(* of them comes first is up to the server and to the keys of the table.   *)
Matching(n) == {i \in DOMAIN login : SameToMySQL(login[i].root, n)}
MayComeFirst(n) == IF Matching(n) = {} THEN {0} ELSE Matching(n)

-----------------------------------------------------------------------------
(* myConnect() only reports its failure.                                   *)
Starts(p, there) ==
  /\ at[p] = "start" /\ Go(p, there)
  /\ \E ok \in BOOLEAN : connected' = [connected EXCEPT ![p] = ok]
  /\ UNCHANGED <<tables, root_first, unique, result, told>>

(* insert_login: every value between = and & is a field, and name the      *)
(* first of them.  A null pointer for want of an argument or a field ends  *)
(* the program; one field too many is written past the end of argv_buf,    *)
(* and may end it as well.                                                 *)
StartLogin(p) ==
  \/ Starts(p, "find") /\ \E n \in Names : name' = [name EXCEPT ![p] = n]
  \/ Starts(p, "dead") /\ UNCHANGED name

(* insert_info, whose six fields end it in the same ways.                  *)
StartInfo(p) ==
  (Starts(p, "add") \/ Starts(p, "dead")) /\ UNCHANGED name

(* select_cgi, which does not look at its argument.                        *)
StartSelect(p) == Starts(p, "select") /\ UNCHANGED name

(* Slip: strcasecmp() taken for a test of equality.                        *)
RefusedByOthers(n, f) == root_first /\ f # 0 /\ login[f].root # n

(* Row i of the result is compared in column i, which holds the name if    *)
(* root is the first column and i the first row, row f of the table.       *)
Refused(n, f) == root_first /\ f # 0 /\ login[f].root = n

(* Elsewhere the name is compared with something else, or with what is not *)
(* a column.                                                               *)
ComparedElsewhere(n, f) ==
  ~Refused(n, f) /\ (Cardinality(Matching(n)) > 1 \/ (~root_first /\ f # 0))

(* Find_Root(): one query, whose rows are looked through afterwards.       *)
(* Without a result it returns nothing, and Insert_Login() tests what is   *)
(* there.  A column that is null, or is none, ends the program.            *)
FindRoot(p) ==
  /\ at[p] = "find"
  /\ seen' = [seen EXCEPT ![p] = Len(login)]
  /\ \E ok \in {connected[p], FALSE} :
       \E f \in IF ok THEN MayComeFirst(name[p]) ELSE {0} :
         /\ failed' = [failed EXCEPT ![p] = ~ok]
         /\ first' = [first EXCEPT ![p] = f]
         /\ \/ (ok => ~Refused(name[p], f)) /\ Go(p, "insert") /\ UNCHANGED told
            \/ /\ ok => Refused(name[p], f) \/ ComparedElsewhere(name[p], f)
               /\ Go(p, "done") /\ Tell(p, "root has login")
            \/ ok /\ ComparedElsewhere(name[p], f) /\ Go(p, "dead") /\ UNCHANGED told
  /\ UNCHANGED <<tables, given>>

(* The second query of Insert_Login().                                     *)
Insert(p) ==
  /\ at[p] = "insert"
  /\ \/ /\ connected[p] /\ (unique => Matching(name[p]) = {})
        /\ \E n \in KeptAs(name[p]) : login' = Append(login, [root |-> n, by |-> p])
        /\ Tell(p, "insert ok")
     \/ UNCHANGED login /\ Tell(p, "insert failed")
  /\ Go(p, "done")
  /\ UNCHANGED <<hr_info, given, result>>

(* myInsert(), which reports only a failure.                               *)
MyInsert(p) ==
  /\ at[p] = "add"
  /\ \/ connected[p] /\ hr_info' = hr_info + 1 /\ UNCHANGED told
     \/ UNCHANGED hr_info /\ Tell(p, "insert failed")
  /\ Go(p, "done")
  /\ UNCHANGED <<login, given, result>>

(* mySelect(): the rows there are, or nothing at all.                      *)
MySelect(p) ==
  /\ at[p] = "select"
  /\ (connected[p] /\ Tell(p, "rows")) \/ UNCHANGED told
  /\ Go(p, "done")
  /\ UNCHANGED <<tables, given, result>>

-----------------------------------------------------------------------------
Init ==
  /\ login = <<>> /\ hr_info = 0
  /\ root_first \in BOOLEAN /\ unique \in BOOLEAN
  /\ at = [p \in Programs |-> "start"] /\ connected = [p \in Programs |-> FALSE]
  /\ name = [p \in Programs |-> "none"]
  /\ seen = [p \in Programs |-> 0] /\ failed = [p \in Programs |-> FALSE]
  /\ first = [p \in Programs |-> 0] /\ told = [p \in Programs |-> "nothing"]

Next ==
  \E p \in Programs :
    \/ StartLogin(p) \/ StartInfo(p) \/ StartSelect(p)
    \/ FindRoot(p) \/ Insert(p) \/ MyInsert(p) \/ MySelect(p)

Spec == Init /\ [][Next]_vars

-----------------------------------------------------------------------------
(* Two users share a name only if the schema allows it and the program of  *)
(* the second one asked before the first was added, or got no result, or   *)
(* got one whose first row does not read like the name it was sent         *)
(* (sql_agi.cpp:31-46, 78-92).                                             *)
DuplicateHasCause ==
  \A i, j \in DOMAIN login :
    i < j /\ SameToMySQL(login[i].root, login[j].root) =>
      /\ ~unique
      /\ LET p == login[j].by IN
           \/ seen[p] < i \/ failed[p]
           \/ ~root_first \/ login[first[p]].root # name[p]

(* Whoever is told that the name is taken could see a user of that name,   *)
(* unless there was no result (sql_agi.cpp:31-46, 78-83).                  *)
RefusedRightly ==
  \A p \in Programs :
    told[p] = "root has login" /\ ~failed[p] =>
      \E i \in 1 .. seen[p] : SameToMySQL(login[i].root, name[p])
=============================================================================
