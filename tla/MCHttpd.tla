------------------------------ MODULE MCHttpd ------------------------------
(* Instances of Httpd for TLC: the requests of each run.                   *)
EXTENDS HttpdProps, TLC

Get(target, len) ==
  [method |-> "GET", query |-> FALSE, target |-> target, clen |-> -1, len |-> len]
Query(target, len) == [Get(target, len) EXCEPT !.query = TRUE]
Post(target, body, len) ==
  [Get(target, len) EXCEPT !.method = "POST", !.clen = body]

(* Every way through the handler.                                          *)
AllRequests ==
  {[Get("file", 1) EXCEPT !.method = "other"], Get("missing", 1), Get("file", 2),
   Get("dir", 2), Get("bare", 1), Query("file", 1), Get("exec", 2), Query("exec", 0),
   Post("exec", -1, 1), Post("exec", 0, 1), Post("exec", 2, 2),
   Post("file", 0, 1), Post("file", 1, 1)}

(* The connections of the paths run are alike.                             *)
Alike == Permutations(Conns)

(* A program that is fed one byte and writes one.                          *)
PostRequests == {Post("exec", 1, 1)}
=============================================================================
