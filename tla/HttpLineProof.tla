---------------------------- MODULE HttpLineProof ----------------------------
(***************************************************************************)
(* get_line() never writes past the end of the caller's buffer, loses      *)
(* nothing, and lets the headers end where they end, whatever the size of  *)
(* the buffer, whatever the client sends and whenever it arrives.          *)
(***************************************************************************)
EXTENDS HttpLine, TLAPS, WellFoundedInduction

IInv == TypeOK /\ BufferHolds

(* The two line ends are bytes, and '\n' is not what c starts as.          *)
LEMMA CharNotNul == LF \in Char /\ CR \in Char /\ LF # Nul
  BY HttpLineAssumption DEF Char

(* A longer line is still a line.                                          *)
LEMMA Longer ==
  ASSUME TypeOK, NEW x \in Char
  PROVE  Append(line, x) \in Seq(Char) /\ Len(Append(line, x)) = Len(line) + 1
<1>1. line \in Seq(Char)  BY DEF TypeOK
<1> QED  BY <1>1

(* The initial states have the types, and an empty line fits.              *)
LEMMA Start == Init => IInv
<1> SUFFICES ASSUME Init PROVE IInv  OBVIOUS
<1>1. stream \in Seq(Char)
  <2>1. PICK n \in 0..MaxLen : stream \in [1..n -> Char]  BY DEF Init
  <2> QED  BY <2>1, HttpLineAssumption
<1>2. Len(stream) \in Nat  BY <1>1
<1>3. line \in Seq(Char) /\ lines \in Seq(Seq(Char))  BY DEF Init
<1>4. arrived \in 0..Len(stream) /\ pos \in 0..arrived  BY <1>2 DEF Init
<1>5. TypeOK  BY <1>1, <1>3, <1>4 DEF Init, TypeOK
<1>6. BufferHolds  BY HttpLineAssumption DEF Init, BufferHolds
<1> QED  BY <1>5, <1>6 DEF IInv

(* Every step keeps the types.                                             *)
LEMMA StepKeepsTypes == TypeOK /\ [Next]_vars => TypeOK'
<1> SUFFICES ASSUME TypeOK, [Next]_vars PROVE TypeOK'  OBVIOUS
<1> USE DEF TypeOK
<1>1. CASE Arrive
  BY <1>1 DEF Arrive
<1>2. CASE HangUp
  BY <1>2 DEF HangUp
<1>3. CASE Recv
  <2>1. pos + 1 \in 0..arrived /\ pos + 1 \in 1..Len(stream)
    BY <1>3 DEF Recv, Available
  <2>2. stream[pos + 1] \in Char  BY <2>1
  <2>3. line' \in Seq(Char)  BY <1>3, <2>2, Longer DEF Recv
  <2> QED  BY <1>3, <2>1, <2>2, <2>3 DEF Recv, client
<1>4. CASE RecvEnd
  BY <1>4, CharNotNul DEF RecvEnd, client
<1>5. CASE Peek
  <2>1. pos' \in 0..arrived  BY <1>5 DEF Peek, Available
  <2>2. line' \in Seq(Char)  BY <1>5, Longer, CharNotNul DEF Peek
  <2> QED  BY <1>5, <2>1, <2>2, CharNotNul DEF Peek, client
<1>6. CASE PeekEnd
  <2>1. line' \in Seq(Char)  BY <1>6, Longer, CharNotNul DEF PeekEnd
  <2> QED  BY <1>6, <2>1 DEF PeekEnd, client
<1>7. CASE ReturnLine
  <2>1. lines' \in Seq(Seq(Char))  BY <1>7 DEF ReturnLine
  <2>2. line' \in Seq(Char) /\ c' \in Char \cup {Nul}  BY <1>7 DEF ReturnLine
  <2>3. stage' \in {"request", "headers", "done", "refused"}
    BY <1>7 DEF ReturnLine, NextStage
  <2> QED  BY <1>7, <2>1, <2>2, <2>3 DEF ReturnLine, client
<1>8. CASE UNCHANGED vars
  BY <1>8 DEF vars
<1> QED
  BY <1>1, <1>2, <1>3, <1>4, <1>5, <1>6, <1>7, <1>8 DEF Next, GetLine, Waiting

(* Every step keeps room for the '\0' and for what a peek stands for.      *)
LEMMA StepKeepsBuffer == IInv /\ [Next]_vars => BufferHolds'
<1> SUFFICES ASSUME TypeOK, BufferHolds, [Next]_vars PROVE BufferHolds'
  BY DEF IInv
<1>1. Len(line) \in Nat /\ Size \in Nat /\ Size >= 2
  BY HttpLineAssumption DEF TypeOK
<1>2. CASE UNCHANGED <<line, at>>
  BY <1>2 DEF BufferHolds
<1>3. CASE Recv
  <2>1. stream[pos + 1] \in Char
    BY <1>3 DEF Recv, Available, TypeOK
  <2>2. Len(line) + 2 <= Size
    BY <1>1, <1>3 DEF Recv, Receiving, Looping
  <2>3. CASE UNCHANGED line
    BY <1>1, <2>2, <2>3 DEF BufferHolds
  <2>4. CASE line' = Append(line, c') /\ UNCHANGED at
    BY <1>1, <1>3, <2>1, <2>2, <2>4, Longer DEF BufferHolds, Recv, Receiving
  <2> QED  BY <1>3, <2>3, <2>4 DEF Recv
<1>4. CASE Peek
  BY <1>1, <1>4, Longer, CharNotNul DEF Peek, Peeking, BufferHolds
<1>5. CASE PeekEnd
  BY <1>1, <1>5, Longer, CharNotNul DEF PeekEnd, Peeking, BufferHolds
<1>6. CASE ReturnLine
  BY <1>1, <1>6 DEF ReturnLine, BufferHolds
<1> QED
  BY <1>2, <1>3, <1>4, <1>5, <1>6
  DEF Next, GetLine, Waiting, Arrive, HangUp, RecvEnd, vars

(* Both hold in every reachable state.                                     *)
LEMMA Invariance == Spec => []IInv
<1>1. IInv /\ [Next]_vars => IInv'
  BY StepKeepsTypes, StepKeepsBuffer DEF IInv
<1> QED  BY Start, <1>1, PTL DEF Spec

(* get_line() and the socket it reads keep their types (httpd.c:56-88).    *)
THEOREM LineTypes == Spec => []TypeOK
<1>1. IInv => TypeOK  BY DEF IInv
<1> QED  BY Invariance, <1>1, PTL

(* The buffer holds the line and its '\0', and the byte that a peek stands *)
(* for, at every moment of get_line() (httpd.c:61, 79, 86).                *)
THEOREM LineFits == Spec => []BufferHolds
<1>1. IInv => BufferHolds  BY DEF IInv
<1> QED  BY Invariance, <1>1, PTL

-----------------------------------------------------------------------------
(* The order of the natural numbers, as the library's theorem has it.      *)
Less == {p \in Nat \X Nat : p[1] < p[2]}

(* The least of a set of numbers.                                          *)
LEMMA Least ==
  ASSUME NEW T \in SUBSET Nat, T # {}
  PROVE  \E x \in T : \A y \in T : x <= y
<1>1. OpToRel(<, Nat) = Less
  BY DEF OpToRel, Less
<1>2. IsWellFoundedOn(Less, Nat)
  BY <1>1, NatLessThanWellFounded
<1>3. PICK x \in T : \A y \in T : ~(<<y, x>> \in Less)
  BY <1>2, WFMin
<1>4. ASSUME NEW y \in T
      PROVE  x <= y
  <2>1. <<y, x>> \notin Less /\ y \in Nat /\ x \in Nat
    BY <1>3
  <2> QED
    BY <2>1 DEF Less
<1> QED
  BY <1>3, <1>4

(* The text of a prefix, from that of the one before it.                   *)
TextOf(s, N, k) ==
  IF k = 0 THEN <<>>
  ELSE IF k > 1 /\ s[k] = LF /\ s[k - 1] = CR THEN N[k - 1]
  ELSE Append(N[k - 1], IF s[k] = CR THEN LF ELSE s[k])

(* N holds the texts of the first m prefixes of s.                         *)
Texts(s, N, m) ==
  N \in [0..m -> Seq(Char)] /\ \A k \in 0..m : N[k] = TextOf(s, N, k)

(* Every stream has a text for each of its prefixes.                       *)
LEMMA TextExists ==
  ASSUME NEW s \in Seq(Char)
  PROVE  \E N : Texts(s, N, Len(s))
<1> DEFINE T == {k \in 0..Len(s) : ~ \E N : Texts(s, N, k)}
<1>0. Len(s) \in Nat /\ T \in SUBSET Nat /\ LF \in Char
  BY DEF Char
<1> SUFFICES ASSUME T # {}
             PROVE  FALSE
  BY <1>0
<1>1. PICK x \in T : \A y \in T : x <= y
  <2> HIDE DEF T
  <2> QED
    BY <1>0, Least
<1>2. x \in 0..Len(s) /\ ~ \E N : Texts(s, N, x)
  BY <1>1
<1>3. CASE x = 0
  <2> DEFINE N == [k \in 0..0 |-> <<>>]
  <2>1. Texts(s, N, 0)
    BY DEF TextOf, Texts
  <2> QED
    BY <1>2, <1>3, <2>1
<1>4. CASE x # 0
  <2>1. x - 1 \in 0..Len(s) /\ x - 1 \notin T /\ x \in 1..Len(s)
    BY <1>0, <1>1, <1>2, <1>4
  <2>2. PICK N : Texts(s, N, x - 1)
    BY <2>1
  <2> DEFINE M == [i \in 0..x |-> IF i = x THEN TextOf(s, N, x) ELSE N[i]]
  <2>3. TextOf(s, N, x) \in Seq(Char)
    <3>1. N[x - 1] \in Seq(Char) /\ s[x] \in Char
      BY <1>0, <2>1, <2>2 DEF Texts
    <3> QED
      BY <1>0, <1>4, <3>1 DEF TextOf
  <2>4. M \in [0..x -> Seq(Char)]
    <3>1. \A i \in 0..x : i # x => i \in 0 .. x - 1
      BY <1>0, <1>2
    <3>2. \A i \in 0 .. x - 1 : N[i] \in Seq(Char)
      BY <2>2 DEF Texts
    <3> QED
      BY <2>3, <3>1, <3>2
  <2>5. ASSUME NEW i \in 0..x
        PROVE  M[i] = TextOf(s, M, i)
    <3>1. i # 0 => M[i - 1] = N[i - 1]
      BY <1>0, <1>2
    <3>2. TextOf(s, M, i) = TextOf(s, N, i)
      BY <3>1 DEF TextOf
    <3>3. i # x => N[i] = TextOf(s, N, i)
      <4>1. i # x => i \in 0 .. x - 1
        BY <1>0, <1>2
      <4> HIDE DEF M
      <4> QED
        BY <2>2, <4>1 DEF Texts
    <3> QED
      BY <3>2, <3>3
  <2>6. Texts(s, M, x)
    BY <2>4, <2>5 DEF Texts
  <2> HIDE DEF M
  <2> QED
    BY <1>2, <2>6
<1> QED
  BY <1>3, <1>4

(* Normal's equations.                                                     *)
LEMMA NormalIs ==
  ASSUME NEW s \in Seq(Char)
  PROVE  /\ Normal(s, 0) = <<>>
         /\ \A k \in 0..Len(s) : Normal(s, k) \in Seq(Char)
         /\ \A k \in 1..Len(s) :
              Normal(s, k) =
                IF k > 1 /\ s[k] = LF /\ s[k - 1] = CR THEN Normal(s, k - 1)
                ELSE Append(Normal(s, k - 1), IF s[k] = CR THEN LF ELSE s[k])
<1> DEFINE P(N) == N = [k \in 0..Len(s) |-> TextOf(s, N, k)]
           C == CHOOSE N : P(N)
<1>0. Len(s) \in Nat
  OBVIOUS
<1>1. \A k : Normal(s, k) = C[k]
  BY DEF Normal, TextOf
<1>2. P(C)
  <2>1. \E N : P(N)
    <3>1. PICK N : Texts(s, N, Len(s))
      BY TextExists
    <3>2. P(N)
      BY <3>1 DEF Texts
    <3> QED
      BY <3>2
  <2> HIDE DEF P
  <2> QED
    BY <2>1
<1> HIDE DEF C
<1>3. \A k \in 0..Len(s) : C[k] = TextOf(s, C, k)
  BY <1>2
<1>4. \A k \in 0..Len(s) : C[k] \in Seq(Char)
  <2> DEFINE T == {k \in 0..Len(s) : C[k] \notin Seq(Char)}
  <2> SUFFICES ASSUME T # {}
               PROVE  FALSE
    OBVIOUS
  <2>1. PICK x \in T : \A y \in T : x <= y
    <3>1. T \in SUBSET Nat
      BY <1>0
    <3> HIDE DEF T
    <3> QED
      BY <3>1, Least
  <2>2. x \in 0..Len(s) /\ C[x] = TextOf(s, C, x) /\ C[x] \notin Seq(Char)
    BY <1>3, <2>1
  <2>3. x # 0 => x - 1 \in 0..Len(s) /\ x - 1 \notin T /\ s[x] \in Char
    BY <1>0, <2>1, <2>2
  <2>4. x # 0 => C[x - 1] \in Seq(Char)
    BY <2>3
  <2>5. LF \in Char /\ ((IF s[x] = CR THEN LF ELSE s[x]) \in Char \/ x = 0)
    BY <2>3 DEF Char
  <2>6. TextOf(s, C, x) \in Seq(Char)
    BY <2>2, <2>4, <2>5 DEF TextOf
  <2> QED
    BY <2>2, <2>6
<1>5. C[0] = <<>>
  BY <1>0, <1>3 DEF TextOf
<1>6. \A k \in 1..Len(s) : C[k] = TextOf(s, C, k)
  BY <1>0, <1>3
<1>7. ASSUME NEW k \in 1..Len(s)
      PROVE  Normal(s, k) =
               IF k > 1 /\ s[k] = LF /\ s[k - 1] = CR THEN Normal(s, k - 1)
               ELSE Append(Normal(s, k - 1), IF s[k] = CR THEN LF ELSE s[k])
  <2>1. Normal(s, k) = TextOf(s, C, k) /\ Normal(s, k - 1) = C[k - 1] /\ k # 0
    BY <1>1, <1>6
  <2> QED
    BY <2>1 DEF TextOf
<1> QED
  BY <1>1, <1>4, <1>5, <1>7

-----------------------------------------------------------------------------
(* The first k of ss put together, from the first k - 1 of them.           *)
JoinOf(ss, F, k) == IF k = 0 THEN <<>> ELSE F[k - 1] \o ss[k]

(* F holds the first k of ss, for each k up to m, put together.            *)
Joins(ss, F, m) ==
  \A k \in 0..m : F[k] \in Seq(Char) /\ F[k] = JoinOf(ss, F, k)

(* Lines can be put together.                                              *)
LEMMA JoinsExist ==
  ASSUME NEW ss, Len(ss) \in Nat, \A k \in 1..Len(ss) : ss[k] \in Seq(Char)
  PROVE  \E F : Joins(ss, F, Len(ss))
<1> DEFINE Has(k) == \E F : Joins(ss, F, k)
           T == {k \in 0..Len(ss) : ~Has(k)}
<1> HIDE DEF Has
<1>0. Len(ss) \in Nat /\ T \in SUBSET Nat
  OBVIOUS
<1> SUFFICES ASSUME T # {}
             PROVE  FALSE
  BY <1>0 DEF Has
<1>1. PICK x \in T : \A y \in T : x <= y
  <2> HIDE DEF T
  <2> QED
    BY <1>0, Least
<1>2. x \in 0..Len(ss) /\ ~Has(x) /\ \A y \in 0..Len(ss) : ~Has(y) => x <= y
  BY <1>1
<1> HIDE DEF T
<1>3. CASE x = 0
  <2> DEFINE F == [k \in 0..0 |-> <<>>]
  <2>1. F[0] = <<>> /\ <<>> \in Seq(Char) /\ JoinOf(ss, F, 0) = <<>>
    BY DEF JoinOf
  <2> HIDE DEF F
  <2>2. ASSUME NEW k \in 0..0
        PROVE  F[k] \in Seq(Char) /\ F[k] = JoinOf(ss, F, k)
    <3>1. k = 0
      OBVIOUS
    <3> QED
      BY ONLY <2>1, <3>1, Zenon
  <2>3. Joins(ss, F, 0)
    BY <2>2, Zenon DEF Joins
  <2> QED
    BY <1>2, <1>3, <2>3, Zenon DEF Has
<1>4. CASE x # 0
  <2>1. x - 1 \in 0..Len(ss) /\ Has(x - 1) /\ x \in 1..Len(ss)
    BY <1>0, <1>2, <1>4
  <2>2. PICK F : Joins(ss, F, x - 1)
    BY <2>1 DEF Has
  <2> DEFINE G == [i \in 0..x |-> IF i = x THEN F[x - 1] \o ss[x] ELSE F[i]]
  <2>3. \A i \in 0..x : i # x => i \in 0 .. x - 1
    BY <1>0, <1>2
  <2>4. ASSUME NEW i \in 0..x
        PROVE  G[i] \in Seq(Char)
    <3>1. F[x - 1] \in Seq(Char) /\ ss[x] \in Seq(Char)
      BY <1>0, <2>1, <2>2 DEF Joins
    <3>2. F[x - 1] \o ss[x] \in Seq(Char)
      BY <3>1
    <3>3. \A j \in 0 .. x - 1 : F[j] \in Seq(Char)
      BY <2>2 DEF Joins
    <3> QED
      BY <2>3, <3>2, <3>3
  <2>5. ASSUME NEW i \in 0..x
        PROVE  G[i] = JoinOf(ss, G, i)
    <3>1. i # 0 => G[i - 1] = F[i - 1]
      BY <1>0, <1>2
    <3>2. JoinOf(ss, G, i) = JoinOf(ss, F, i)
      BY <3>1 DEF JoinOf
    <3>3. i # x => G[i] = F[i] /\ F[i] = JoinOf(ss, F, i)
      BY <2>2, <2>3 DEF Joins
    <3>4. i = x => G[i] = JoinOf(ss, F, i)
      BY <1>4 DEF JoinOf
    <3> HIDE DEF G
    <3> QED
      BY <3>2, <3>3, <3>4
  <2>6. Joins(ss, G, x)
    <3> HIDE DEF G
    <3> QED
      BY <2>4, <2>5 DEF Joins
  <2> HIDE DEF G
  <2> QED
    BY <1>2, <2>6 DEF Has
<1> QED
  BY <1>3, <1>4

(* There is one way to.                                                    *)
LEMMA JoinsAgree ==
  ASSUME NEW ss, NEW tt, NEW F, NEW G, NEW m \in Nat, Joins(ss, F, m), Joins(tt, G, m),
         \A k \in 1..m : ss[k] = tt[k]
  PROVE  F[m] = G[m]
<1> DEFINE T == {k \in 0..m : F[k] # G[k]}
<1> SUFFICES ASSUME T # {}
             PROVE  FALSE
  OBVIOUS
<1>1. PICK x \in T : \A y \in T : x <= y
  <2>1. T \in SUBSET Nat
    OBVIOUS
  <2> HIDE DEF T
  <2> QED
    BY <2>1, Least
<1>2. x \in 0..m /\ F[x] # G[x]
  BY <1>1
<1>3. x # 0 => x - 1 \in 0..m /\ x \in 1..m /\ x - 1 \notin T
  BY <1>1, <1>2
<1>4. x # 0 => F[x - 1] = G[x - 1] /\ ss[x] = tt[x]
  BY <1>3
<1>5. F[x] = JoinOf(ss, F, x) /\ G[x] = JoinOf(tt, G, x)
  BY <1>2 DEF Joins
<1>6. JoinOf(ss, F, x) = JoinOf(tt, G, x)
  BY <1>4 DEF JoinOf
<1> HIDE DEF T
<1> QED
  BY <1>2, <1>5, <1>6

(* Flat puts them together.                                                *)
LEMMA FlatJoins ==
  ASSUME NEW ss, Len(ss) \in Nat, \A k \in 1..Len(ss) : ss[k] \in Seq(Char)
  PROVE  \E F : Joins(ss, F, Len(ss)) /\ Flat(ss) = F[Len(ss)]
<1> DEFINE P(F) == F = [n \in 0..Len(ss) |-> JoinOf(ss, F, n)]
           C == CHOOSE F : P(F)
<1>0. Len(ss) \in Nat
  OBVIOUS
<1>1. Flat(ss) = C[Len(ss)]
  BY DEF Flat, JoinOf
<1>2. PICK F : Joins(ss, F, Len(ss))
  BY JoinsExist
<1>3. P(C)
  <2> DEFINE H == [n \in 0..Len(ss) |-> F[n]]
  <2>1. \A n \in 0..Len(ss) : n # 0 => n - 1 \in 0..Len(ss)
    BY <1>0
  <2>2. \A n \in 0..Len(ss) : JoinOf(ss, H, n) = JoinOf(ss, F, n)
    BY <2>1 DEF JoinOf
  <2>3. H = [n \in 0..Len(ss) |-> JoinOf(ss, H, n)]
    <3>1. \A n \in 0..Len(ss) : F[n] = JoinOf(ss, F, n)
      BY <1>2 DEF Joins
    <3> QED
      BY <2>2, <3>1
  <2>4. P(H)
    BY <2>3
  <2> HIDE DEF P
  <2> QED
    BY <2>4
<1> HIDE DEF C
<1>4. ASSUME NEW k \in 0..Len(ss)
      PROVE  C[k] = JoinOf(ss, C, k)
  BY <1>3
<1> DEFINE T == {k \in 0..Len(ss) : C[k] # F[k]}
<1>5. T = {}
  <2> SUFFICES ASSUME T # {}
               PROVE  FALSE
    OBVIOUS
  <2>1. PICK x \in T : \A y \in T : x <= y
    <3>1. T \in SUBSET Nat
      BY <1>0
    <3> HIDE DEF T
    <3> QED
      BY <3>1, Least
  <2>2. x \in 0..Len(ss) /\ C[x] # F[x]
    BY <2>1
  <2>3. x # 0 => x - 1 \in 0..Len(ss) /\ x - 1 \notin T
    BY <1>0, <2>1, <2>2
  <2>4. x # 0 => C[x - 1] = F[x - 1]
    BY <2>3
  <2>5. F[x] = JoinOf(ss, F, x) /\ JoinOf(ss, F, x) = JoinOf(ss, C, x)
    <3>1. JoinOf(ss, F, x) = JoinOf(ss, C, x)
      BY <2>4 DEF JoinOf
    <3> QED
      BY <1>2, <2>2, <3>1 DEF Joins
  <2> HIDE DEF T
  <2> QED
    BY <1>4, <2>2, <2>5
<1>6. Flat(ss) = F[Len(ss)]
  BY <1>0, <1>1, <1>5
<1> QED
  BY <1>2, <1>6

(* What Flat computes: nothing of no lines, and a line more at the end.    *)
LEMMA FlatIs ==
  /\ Flat(<<>>) = <<>>
  /\ \A ss \in Seq(Seq(Char)) :
       /\ Flat(ss) \in Seq(Char)
       /\ \A l \in Seq(Char) : Flat(Append(ss, l)) = Flat(ss) \o l
<1>1. Flat(<<>>) = <<>>
  <2>1. <<>> \in Seq(Seq(Char)) /\ Len(<<>>) = 0
    OBVIOUS
  <2>2. PICK F : Joins(<<>>, F, 0) /\ Flat(<<>>) = F[0]
    BY <2>1, FlatJoins
  <2> QED
    BY <2>2 DEF Joins, JoinOf
<1>2. ASSUME NEW ss \in Seq(Seq(Char))
      PROVE  Flat(ss) \in Seq(Char)
  <2>0. Len(ss) \in Nat /\ \A k \in 1..Len(ss) : ss[k] \in Seq(Char)
    OBVIOUS
  <2>1. PICK F : Joins(ss, F, Len(ss)) /\ Flat(ss) = F[Len(ss)]
    BY <2>0, FlatJoins
  <2>2. Len(ss) \in 0..Len(ss)
    BY <2>0
  <2> QED
    BY <2>1, <2>2 DEF Joins
<1>3. ASSUME NEW ss \in Seq(Seq(Char)), NEW l \in Seq(Char)
      PROVE  Flat(Append(ss, l)) = Flat(ss) \o l
  <2> DEFINE tt == Append(ss, l)
             n == Len(ss)
  <2>0. /\ tt \in Seq(Seq(Char)) /\ Len(tt) = n + 1 /\ n \in Nat
        /\ tt[n + 1] = l /\ \A k \in 1..n : ss[k] = tt[k] /\ ss[k] \in Seq(Char)
    OBVIOUS
  <2>n. \A k \in 1 .. n + 1 : tt[k] \in Seq(Char)
    BY <2>0
  <2> HIDE DEF tt
  <2>1. PICK F : Joins(ss, F, n) /\ Flat(ss) = F[n]
    BY <2>0, FlatJoins
  <2>2. PICK G : Joins(tt, G, n + 1) /\ Flat(tt) = G[n + 1]
    <3>1. Len(tt) \in Nat /\ \A k \in 1..Len(tt) : tt[k] \in Seq(Char)
      BY <2>0, <2>n
    <3>2. \E G : Joins(tt, G, Len(tt)) /\ Flat(tt) = G[Len(tt)]
      BY <3>1, FlatJoins
    <3> QED
      BY <2>0, <3>2, Zenon
  <2>3. Joins(tt, G, n)
    <3>1. \A k \in 0..n : k \in 0 .. n + 1
      BY <2>0
    <3> QED
      BY <2>2, <3>1, Zenon DEF Joins
  <2>4. F[n] = G[n]
    <3>1. n \in Nat /\ \A k \in 1..n : ss[k] = tt[k]
      BY <2>0
    <3> HIDE DEF n
    <3> QED
      BY ONLY <2>1, <2>3, <3>1, JoinsAgree
  <2>5. G[n + 1] = G[n] \o tt[n + 1]
    <3>1. n + 1 \in 0 .. n + 1 /\ n + 1 # 0 /\ (n + 1) - 1 = n
      BY <2>0
    <3>2. G[n + 1] = JoinOf(tt, G, n + 1)
      BY <2>2, <3>1, Zenon DEF Joins
    <3> QED
      BY <3>1, <3>2 DEF JoinOf
  <2>6. Flat(tt) = Flat(ss) \o l
    BY <2>0, <2>1, <2>2, <2>4, <2>5
  <2> QED
    BY <2>6 DEF tt
<1> QED
  BY <1>1, <1>2, <1>3

-----------------------------------------------------------------------------
(* The lines and the one being read, as text, and what was taken out.      *)
Said == Flat(lines) \o line
Taken == Normal(stream, pos)

(* A '\r' that was taken out is being looked behind, was followed by a     *)
(* byte other than '\n', or was the last thing a client sent.              *)
LookedBehind ==
  /\ at = "peek" => pos > 0 /\ stream[pos] = CR /\ c = CR
  /\ at = "recv" /\ pos > 0 /\ stream[pos] = CR =>
       (pos < arrived /\ stream[pos + 1] # LF) \/ (gone /\ pos = arrived)

(* NothingLost, where the client that hung up has nothing more to come.    *)
AllSaid ==
  IF at = "peek" THEN Taken = Append(Said, LF)
  ELSE \/ Taken = Said
       \/ gone /\ pos = arrived /\ pos > 0 /\ Said = [Taken EXCEPT ![Len(Taken)] = CR]

(* Putting a byte at the end of a line, and returning it.                  *)
LEMMA SaidIs ==
  ASSUME TypeOK
  PROVE  /\ Said \in Seq(Char)
         /\ \A x \in Char : line' = Append(line, x) /\ UNCHANGED lines => Said' = Append(Said, x)
         /\ line' = <<>> /\ lines' = Append(lines, line) => Said' = Said
         /\ UNCHANGED <<line, lines>> => Said' = Said
<1>0. line \in Seq(Char) /\ lines \in Seq(Seq(Char)) /\ Flat(lines) \in Seq(Char)
  BY FlatIs DEF TypeOK
<1>1. Said \in Seq(Char)
  BY <1>0 DEF Said
<1>2. ASSUME NEW x \in Char, line' = Append(line, x), UNCHANGED lines
      PROVE  Said' = Append(Said, x)
  <2>1. ASSUME NEW f \in Seq(Char), NEW l \in Seq(Char)
        PROVE  f \o Append(l, x) = Append(f \o l, x)
    OBVIOUS
  <2>2. Said' = Flat(lines) \o Append(line, x)
    BY <1>2 DEF Said
  <2> QED
    BY <1>0, <2>1, <2>2 DEF Said
<1>3. ASSUME line' = <<>>, lines' = Append(lines, line)
      PROVE  Said' = Said
  <2>1. Said' = Flat(Append(lines, line)) \o <<>>
    BY <1>3 DEF Said
  <2>2. Flat(Append(lines, line)) = Said
    BY <1>0, FlatIs DEF Said
  <2>3. \A f \in Seq(Char) : f \o <<>> = f
    OBVIOUS
  <2> QED
    BY <1>1, <2>1, <2>2, <2>3
<1>4. UNCHANGED <<line, lines>> => Said' = Said
  BY DEF Said
<1> QED
  BY <1>1, <1>2, <1>3, <1>4

(* Taking out a byte.                                                      *)
LEMMA TakenIs ==
  ASSUME TypeOK, UNCHANGED stream
  PROVE  /\ Taken \in Seq(Char)
         /\ pos' = pos => Taken' = Taken
         /\ pos' = pos + 1 /\ pos < arrived =>
              Taken' = IF pos > 0 /\ stream[pos + 1] = LF /\ stream[pos] = CR THEN Taken
                       ELSE Append(Taken, IF stream[pos + 1] = CR THEN LF ELSE stream[pos + 1])
<1>0. /\ stream \in Seq(Char) /\ Len(stream) \in Nat /\ pos \in 0..Len(stream)
      /\ arrived \in 0..Len(stream) /\ pos \in 0..arrived
  <2>1. stream \in Seq(Char) /\ arrived \in 0..Len(stream) /\ pos \in 0..arrived
    BY DEF TypeOK
  <2>2. Len(stream) \in Nat
    BY <2>1
  <2> QED
    BY <2>1, <2>2
<1>1. Taken \in Seq(Char)
  BY <1>0, NormalIs DEF Taken
<1>2. pos' = pos => Taken' = Taken
  BY DEF Taken
<1>3. ASSUME pos' = pos + 1, pos < arrived
      PROVE  Taken' = IF pos > 0 /\ stream[pos + 1] = LF /\ stream[pos] = CR THEN Taken
                      ELSE Append(Taken, IF stream[pos + 1] = CR THEN LF ELSE stream[pos + 1])
  <2>1. PICK k \in 1..Len(stream) : k = pos + 1
    BY <1>0, <1>3
  <2>2. Taken' = Normal(stream, k)
    BY <1>3, <2>1 DEF Taken
  <2>3. k - 1 = pos /\ (k > 1 <=> pos > 0)
    BY <1>0, <2>1
  <2>4. Normal(stream, k - 1) = Taken
    BY <2>3 DEF Taken
  <2>5. Normal(stream, k) = IF k > 1 /\ stream[k] = LF /\ stream[k - 1] = CR THEN Normal(stream, k - 1)
                            ELSE Append(Normal(stream, k - 1), IF stream[k] = CR THEN LF ELSE stream[k])
    BY <1>0, NormalIs
  <2> QED
    BY <2>1, <2>2, <2>3, <2>4, <2>5
<1> QED
  BY <1>1, <1>2, <1>3

(* Every step keeps LookedBehind: a '\r' is followed by a peek, and a '\n' *)
(* behind it is taken out with it.                                         *)
LEMMA LookedNext ==
  ASSUME TypeOK, LookedBehind, [Next]_vars
  PROVE  LookedBehind'
<1>0. /\ stream \in Seq(Char) /\ arrived \in Nat /\ pos \in Nat /\ pos <= arrived
      /\ at \in {"recv", "peek"} /\ CR # LF
  BY HttpLineAssumption DEF TypeOK
<1> USE DEF LookedBehind
<1>1. CASE Arrive
  BY <1>0, <1>1 DEF Arrive
<1>2. CASE HangUp
  BY <1>0, <1>2 DEF HangUp
<1>3. CASE Recv
  <2>1. /\ pos' = pos + 1 /\ c' = stream[pos + 1] /\ UNCHANGED <<stream, arrived, gone>>
        /\ (c' = CR /\ at' = "peek") \/ (c' # CR /\ at' = at)
        /\ at = "recv"
    BY <1>3 DEF Recv, client, Receiving
  <2> QED
    BY <1>0, <2>1
<1>4. CASE RecvEnd
  BY <1>0, <1>4 DEF RecvEnd, Receiving, client
<1>5. CASE Peek
  <2>1. /\ at' = "recv" /\ at = "peek" /\ pos < arrived /\ UNCHANGED <<stream, arrived, gone>>
        /\ pos' = IF stream[pos + 1] = LF THEN pos + 1 ELSE pos
    BY <1>5 DEF Peek, Peeking, Available, client
  <2> QED
    BY <1>0, <2>1
<1>6. CASE PeekEnd
  BY <1>0, <1>6 DEF PeekEnd, Peeking, AtEnd, client
<1>7. CASE ReturnLine
  BY <1>0, <1>7 DEF ReturnLine, client
<1>8. CASE UNCHANGED vars
  BY <1>8 DEF vars
<1> QED
  BY <1>1, <1>2, <1>3, <1>4, <1>5, <1>6, <1>7, <1>8 DEF Next, GetLine, Waiting

(* Every step adds to the lines what it takes out of the socket.           *)
LEMMA SaidNext ==
  ASSUME TypeOK, LookedBehind, AllSaid, [Next]_vars
  PROVE  AllSaid'
<1>0. /\ stream \in Seq(Char) /\ arrived \in Nat /\ pos \in Nat /\ pos <= arrived
      /\ at \in {"recv", "peek"} /\ CR # LF /\ CR \in Char /\ LF \in Char
      /\ \A i \in 1..arrived : stream[i] \in Char
  BY HttpLineAssumption, CharNotNul DEF TypeOK
<1>s. Said \in Seq(Char) /\ Taken \in Seq(Char) /\ UNCHANGED stream
  <2>1. UNCHANGED stream
    BY DEF Next, Arrive, HangUp, GetLine, Recv, RecvEnd, Peek, PeekEnd, ReturnLine, Waiting, client, vars
  <2> QED
    BY <2>1, SaidIs, TakenIs
<1>1. CASE Arrive \/ HangUp
  <2>1. /\ Said' = Said /\ Taken' = Taken /\ UNCHANGED <<at, pos>>
        /\ ~gone
    BY <1>1, <1>s, SaidIs, TakenIs DEF Arrive, HangUp
  <2> QED
    BY <2>1 DEF AllSaid
<1>2. CASE RecvEnd \/ ReturnLine
  <2>1. Said' = Said /\ Taken' = Taken /\ UNCHANGED <<at, pos, gone, arrived>>
    BY <1>2, <1>s, SaidIs, TakenIs DEF RecvEnd, ReturnLine, client
  <2> QED
    BY <2>1 DEF AllSaid
<1>3. CASE Recv
  <2>1. /\ at = "recv" /\ pos < arrived /\ pos' = pos + 1 /\ c' = stream[pos + 1]
        /\ UNCHANGED lines
        /\ \/ c' = CR /\ at' = "peek" /\ UNCHANGED line
           \/ c' # CR /\ line' = Append(line, c') /\ UNCHANGED at
    BY <1>3 DEF Recv, Receiving, Available
  <2>2. Taken = Said
    BY <1>0, <2>1 DEF AllSaid
  <2>3. Taken' = Append(Taken, IF stream[pos + 1] = CR THEN LF ELSE stream[pos + 1])
    BY <1>0, <1>s, <2>1, TakenIs DEF LookedBehind
  <2>4. c' \in Char
    BY <1>0, <2>1
  <2>5. c' # CR => Said' = Append(Said, c')
    BY <2>1, <2>4, SaidIs
  <2>6. c' = CR => Said' = Said
    BY <2>1, SaidIs
  <2> QED
    BY <2>1, <2>2, <2>3, <2>5, <2>6 DEF AllSaid
<1>4. CASE Peek
  <2>1. /\ at = "peek" /\ at' = "recv" /\ pos < arrived /\ UNCHANGED lines
        /\ line' = Append(line, LF)
        /\ pos' = IF stream[pos + 1] = LF THEN pos + 1 ELSE pos
    BY <1>4 DEF Peek, Peeking, Available
  <2>2. Taken = Append(Said, LF)
    BY <2>1 DEF AllSaid
  <2>3. Said' = Append(Said, LF)
    BY <1>0, <2>1, SaidIs
  <2>4. Taken' = Taken
    BY <1>0, <1>s, <2>1, TakenIs DEF LookedBehind
  <2> QED
    BY <2>1, <2>2, <2>3, <2>4 DEF AllSaid
<1>5. CASE PeekEnd
  <2>1. /\ at = "peek" /\ at' = "recv" /\ pos = arrived /\ gone /\ UNCHANGED lines
        /\ line' = Append(line, CR) /\ UNCHANGED <<pos, arrived, gone>>
    BY <1>5 DEF PeekEnd, Peeking, AtEnd, client
  <2>2. Taken = Append(Said, LF) /\ pos > 0
    BY <2>1 DEF AllSaid, LookedBehind
  <2>3. Said' = Append(Said, CR) /\ Taken' = Taken
    BY <1>0, <1>s, <2>1, SaidIs, TakenIs
  <2>4. Append(Said, CR) = [Append(Said, LF) EXCEPT ![Len(Append(Said, LF))] = CR]
    <3>1. PICK n \in Nat : n = Len(Said)
      BY <1>s
    <3>2. ASSUME NEW x \in Char
          PROVE  /\ Append(Said, x) \in [1 .. n + 1 -> Char] /\ Len(Append(Said, x)) = n + 1
                 /\ Append(Said, x)[n + 1] = x
                 /\ \A i \in 1..n : Append(Said, x)[i] = Said[i]
      <4>1. Append(Said, x) \in Seq(Char) /\ Len(Append(Said, x)) = n + 1
        BY <1>s, <3>1
      <4>2. \A s \in Seq(Char) : s \in [1..Len(s) -> Char]
        OBVIOUS
      <4>3. Append(Said, x)[n + 1] = x /\ \A i \in 1..n : Append(Said, x)[i] = Said[i]
        BY <1>s, <3>1
      <4> QED
        BY <4>1, <4>2, <4>3
    <3>3. \A s, t : s \in [1 .. n + 1 -> Char] /\ t \in [1 .. n + 1 -> Char]
                  /\ s[n + 1] = CR /\ (\A i \in 1..n : s[i] = t[i])
                    => s = [t EXCEPT ![n + 1] = CR]
      BY <3>1
    <3> DEFINE S == Append(Said, CR)
               U == Append(Said, LF)
    <3>4. /\ S \in [1 .. n + 1 -> Char] /\ U \in [1 .. n + 1 -> Char]
          /\ S[n + 1] = CR /\ (\A i \in 1..n : S[i] = U[i]) /\ Len(U) = n + 1
      BY <1>0, <3>2
    <3> HIDE DEF S, U
    <3>5. S = [U EXCEPT ![n + 1] = CR] /\ Len(U) = n + 1
      BY ONLY <3>3, <3>4
    <3> QED
      BY <3>5, Zenon DEF S, U
  <2> QED
    BY <2>1, <2>2, <2>3, <2>4 DEF AllSaid
<1>6. CASE UNCHANGED vars
  <2>1. Said' = Said /\ Taken' = Taken /\ UNCHANGED <<at, pos, gone, arrived>>
    BY <1>6, <1>s, SaidIs, TakenIs DEF vars
  <2> QED
    BY <2>1 DEF AllSaid
<1> QED
  BY <1>1, <1>2, <1>3, <1>4, <1>5, <1>6 DEF Next, GetLine, Waiting

(* Whatever was taken out of the socket is in the lines, once and in       *)
(* order, '\r' and '\r\n' as '\n' (httpd.c:61-85).                         *)
THEOREM LinesSayAll == Spec => []NothingLost
<1>1. Init => LookedBehind /\ AllSaid
  <2> SUFFICES ASSUME Init
               PROVE  LookedBehind /\ AllSaid
    OBVIOUS
  <2>1. Taken = <<>>
    <3>1. pos = 0 /\ stream \in Seq(Char)
      BY Start DEF Init, IInv, TypeOK
    <3> QED
      BY <3>1, NormalIs DEF Taken
  <2>2. Said = <<>>
    BY FlatIs DEF Init, Said
  <2> QED
    BY <2>1, <2>2 DEF Init, LookedBehind, AllSaid
<1>2. TypeOK /\ LookedBehind /\ AllSaid /\ [Next]_vars => (LookedBehind /\ AllSaid)'
  BY LookedNext, SaidNext
<1>3. AllSaid => NothingLost
  BY DEF AllSaid, NothingLost, Said, Taken
<1> QED
  BY <1>1, <1>2, <1>3, LineTypes, PTL DEF Spec

-----------------------------------------------------------------------------
(* A '\n' ends its line, and c tells; while the client stays, nothing else *)
(* makes c a '\n'.                                                         *)
LinesEnd ==
  /\ \A i \in 1..Len(line) : line[i] = LF => i = Len(line) /\ c = LF
  /\ ~gone /\ c = LF => line # <<>> /\ line[Len(line)] = LF

(* Two in a row are the last of the text, and the end of the headers.      *)
PairEnds ==
  \A n \in 2..Len(Said) :
    Said[n] = LF /\ Said[n - 1] = LF => n = Len(Said) /\ (line = <<LF>> \/ ~Reading)

(* A client that stays: the line before a header ended, or filled the      *)
(* buffer.                                                                 *)
HeaderFollows ==
  /\ stage = "headers" /\ ~gone =>
       /\ lines # <<>>
       /\ \/ Len(lines[Len(lines)]) = Size - 1
          \/ Flat(lines) # <<>> /\ Flat(lines)[Len(Flat(lines))] = LF
  /\ stage = "done" /\ ~gone =>
       Blank(Said) \/ Len(lines[Len(lines) - 1]) = Size - 1

(* Every step keeps LinesEnd: once c is a '\n' nothing is added to the     *)
(* line.                                                                   *)
LEMMA LinesEndNext ==
  ASSUME TypeOK, LookedBehind, LinesEnd, [Next]_vars
  PROVE  LinesEnd'
<1>0. line \in Seq(Char) /\ Len(line) \in Nat /\ CR # LF /\ Nul # LF /\ LF \in Char /\ CR \in Char
      /\ gone \in BOOLEAN
  BY HttpLineAssumption, CharNotNul DEF TypeOK
<1>a. ASSUME NEW x \in Char, c # LF, line' = Append(line, x), x = LF => c' = LF,
             ~gone' /\ c' = LF => x = LF
      PROVE  LinesEnd'
  <2>1. /\ Len(line') = Len(line) + 1 /\ line'[Len(line) + 1] = x
        /\ \A i \in 1..Len(line) : line'[i] = line[i] /\ line[i] # LF
    BY <1>0, <1>a DEF LinesEnd
  <2>2. line' # <<>>
    BY <1>0, <2>1
  <2> QED
    BY <1>0, <1>a, <2>1, <2>2 DEF LinesEnd
<1>1. CASE Arrive \/ HangUp
  BY <1>0, <1>1 DEF Arrive, HangUp, LinesEnd
<1>2. CASE Recv
  <2>1. /\ c # LF /\ UNCHANGED gone /\ c' = stream[pos + 1] /\ stream[pos + 1] \in Char
        /\ \/ c' = CR /\ UNCHANGED line
           \/ c' # CR /\ line' = Append(line, c')
    BY <1>2 DEF Recv, Receiving, Looping, client, Available, TypeOK
  <2>2. CASE c' = CR /\ UNCHANGED line
    BY <1>0, <2>1, <2>2 DEF LinesEnd
  <2> QED
    BY <1>a, <2>1, <2>2
<1>3. CASE RecvEnd
  BY <1>0, <1>3 DEF RecvEnd, AtEnd, client, LinesEnd
<1>4. CASE Peek
  BY <1>0, <1>4, <1>a DEF Peek, Peeking, LookedBehind
<1>5. CASE PeekEnd
  BY <1>0, <1>5, <1>a DEF PeekEnd, Peeking, LookedBehind
<1>6. CASE ReturnLine
  BY <1>0, <1>6 DEF ReturnLine, LinesEnd
<1>7. CASE UNCHANGED vars
  BY <1>7 DEF vars, LinesEnd
<1> QED
  BY <1>1, <1>2, <1>3, <1>4, <1>5, <1>6, <1>7 DEF Next, GetLine, Waiting

(* Every step keeps PairEnds: a '\n' after another is a line of its own,   *)
(* which ends the headers when it is returned.                             *)
LEMMA PairNext ==
  ASSUME TypeOK, LookedBehind, LinesEnd, PairEnds, [Next]_vars
  PROVE  PairEnds'
<1>0. line \in Seq(Char) /\ Len(line) \in Nat /\ CR # LF /\ Nul # LF /\ LF \in Char /\ CR \in Char
      /\ Said \in Seq(Char) /\ Len(Said) \in Nat /\ Flat(lines) \in Seq(Char)
  <2>1. line \in Seq(Char) /\ lines \in Seq(Seq(Char))
    BY DEF TypeOK
  <2>2. Said \in Seq(Char) /\ Flat(lines) \in Seq(Char)
    BY <2>1, SaidIs, FlatIs
  <2> QED
    BY <2>1, <2>2, HttpLineAssumption, CharNotNul
<1>a. ASSUME NEW x \in Char, Reading, c # LF, line' = Append(line, x), UNCHANGED lines
      PROVE  PairEnds'
  <2>1. /\ Said' = Append(Said, x)
        /\ Len(Said') = Len(Said) + 1 /\ Said'[Len(Said) + 1] = x
        /\ \A i \in 1..Len(Said) : Said'[i] = Said[i]
    <3>1. Said' = Append(Said, x)
      BY <1>a, SaidIs
    <3> QED
      BY <1>0, <3>1
  <2>2. \A i \in 1..Len(line) : line[i] # LF
    BY <1>a DEF LinesEnd
  <2>3. \A n \in 2..Len(Said) : ~(Said[n] = LF /\ Said[n - 1] = LF)
    <3>1. line # <<LF>>
      BY <2>2
    <3> QED
      BY <1>a, <3>1 DEF PairEnds
  <2>4. x = LF /\ line # <<>> => Said[Len(Said)] # LF
    <3> SUFFICES ASSUME line # <<>>
                 PROVE  Said[Len(Said)] # LF
      OBVIOUS
    <3>1. Said[Len(Said)] = line[Len(line)] /\ Len(line) \in 1..Len(line)
      BY <1>0 DEF Said
    <3> QED
      BY <2>2, <3>1
  <2>5. line = <<>> => line' = <<x>>
    BY <1>a
  <2>6. ASSUME NEW n \in 2..Len(Said'), Said'[n] = LF, Said'[n - 1] = LF
        PROVE  n = Len(Said') /\ line' = <<LF>>
    <3>1. n = Len(Said) + 1
      <4>1. CASE n \in 2..Len(Said)
        <5>1. n \in 1..Len(Said) /\ n - 1 \in 1..Len(Said)
          BY <1>0, <4>1
        <5> QED
          BY <2>1, <2>3, <2>6, <4>1, <5>1
      <4> QED
        BY <1>0, <2>1, <4>1
    <3>2. x = LF /\ Said[Len(Said)] = LF
      <4>1. n - 1 = Len(Said) /\ n - 1 \in 1..Len(Said)
        BY <1>0, <3>1
      <4> QED
        BY <2>1, <2>6, <3>1, <4>1
    <3> QED
      BY <2>1, <2>4, <2>5, <3>1, <3>2
  <2> QED
    BY <2>6 DEF PairEnds
<1>1. CASE Arrive \/ HangUp \/ RecvEnd \/ UNCHANGED vars
  <2>1. Said' = Said /\ UNCHANGED <<line, stage>>
    BY <1>1, SaidIs DEF Arrive, HangUp, RecvEnd, vars
  <2> QED
    BY <2>1 DEF PairEnds, Reading
<1>2. CASE Recv
  <2>1. /\ Reading /\ c # LF /\ stream[pos + 1] \in Char /\ c' = stream[pos + 1]
        /\ UNCHANGED <<stage, lines>>
        /\ \/ c' = CR /\ UNCHANGED line
           \/ c' # CR /\ line' = Append(line, c')
    BY <1>2 DEF Recv, Receiving, Looping, Available, TypeOK
  <2>2. CASE UNCHANGED line
    <3>1. Said' = Said
      BY <2>1, <2>2, SaidIs
    <3> QED
      BY <2>1, <2>2, <3>1 DEF PairEnds, Reading
  <2> QED
    BY <1>a, <2>1, <2>2
<1>3. CASE Peek
  BY <1>0, <1>3, <1>a DEF Peek, Peeking, LookedBehind
<1>4. CASE PeekEnd
  BY <1>0, <1>4, <1>a DEF PeekEnd, Peeking, LookedBehind
<1>5. CASE ReturnLine
  <2>1. Said' = Said
    BY <1>5, SaidIs DEF ReturnLine
  <2>2. line = <<LF>> => ~Reading'
    BY <1>5 DEF ReturnLine, NextStage, Reading
  <2>3. Reading
    BY <1>5 DEF ReturnLine
  <2> QED
    BY <2>1, <2>2, <2>3 DEF PairEnds
<1> QED
  BY <1>1, <1>2, <1>3, <1>4, <1>5 DEF Next, GetLine, Waiting

(* Every step keeps HeaderFollows: a line is returned at its end or when   *)
(* it fills the buffer.                                                    *)
LEMMA FollowsNext ==
  ASSUME TypeOK, BufferHolds, LookedBehind, LinesEnd, HeaderFollows, [Next]_vars
  PROVE  HeaderFollows'
<1>0. /\ line \in Seq(Char) /\ Len(line) \in Nat /\ gone \in BOOLEAN /\ Flat(lines) \in Seq(Char)
      /\ lines \in Seq(Seq(Char)) /\ Len(lines) \in Nat
      /\ stage \in {"request", "headers", "done", "refused"}
  BY FlatIs DEF TypeOK
<1>1. CASE Arrive \/ HangUp \/ UNCHANGED vars
  <2>1. Said' = Said /\ UNCHANGED <<stage, lines>> /\ (~gone' => ~gone)
    BY <1>0, <1>1, SaidIs DEF Arrive, HangUp, vars
  <2> QED
    BY <2>1 DEF HeaderFollows
<1>2. CASE Recv \/ RecvEnd \/ Peek \/ PeekEnd
  <2>1. UNCHANGED <<stage, lines, gone>> /\ stage # "done"
    BY <1>2 DEF Recv, RecvEnd, Peek, PeekEnd, Receiving, Peeking, Reading, client
  <2> QED
    BY <2>1 DEF HeaderFollows
<1>3. CASE ReturnLine
  <2>0. /\ Reading /\ UNCHANGED gone /\ lines' = Append(lines, line) /\ stage' = NextStage /\ line' = <<>>
        /\ at = "recv" /\ ~Looping
    BY <1>3 DEF ReturnLine, client
  <2>1. /\ Len(lines') = Len(lines) + 1 /\ lines'[Len(lines')] = line /\ lines' # <<>>
        /\ lines # <<>> => lines'[Len(lines') - 1] = lines[Len(lines)]
    BY <1>0, <2>0
  <2>2. Flat(lines') = Flat(lines) \o line /\ Said' = Said
    BY <1>0, <2>0, FlatIs, SaidIs
  <2>3. c = LF \/ Len(line) = Size - 1
    BY <1>0, <2>0, HttpLineAssumption DEF Looping, BufferHolds
  <2>4. ~gone /\ c = LF =>
          Flat(lines') # <<>> /\ Flat(lines')[Len(Flat(lines'))] = LF
    <3> SUFFICES ASSUME ~gone, c = LF
                 PROVE  Flat(lines') # <<>> /\ Flat(lines')[Len(Flat(lines'))] = LF
      OBVIOUS
    <3>1. line # <<>> /\ line[Len(line)] = LF
      BY DEF LinesEnd
    <3>2. ASSUME NEW f \in Seq(Char)
          PROVE  f \o line # <<>> /\ (f \o line)[Len(f \o line)] = line[Len(line)]
      BY <1>0, <3>1
    <3> QED
      BY <1>0, <2>2, <3>1, <3>2
  <2>5. CASE stage' = "headers"
    BY <2>0, <2>1, <2>3, <2>4, <2>5 DEF HeaderFollows
  <2>6. CASE stage' = "done"
    <3>1. stage = "headers" /\ line \in {<<>>, <<LF>>}
      BY <2>0, <2>6 DEF NextStage, Reading
    <3> SUFFICES ASSUME ~gone
                 PROVE  Blank(Said) \/ Len(lines[Len(lines)]) = Size - 1
      BY <2>0, <2>1, <2>2, <2>6, <3>1 DEF HeaderFollows
    <3>2. line = <<LF>>
      <4>1. Size \in Nat /\ Size >= 2
        BY HttpLineAssumption
      <4>2. line = <<>> => Len(line) = 0
        OBVIOUS
      <4>3. ~(c = LF /\ line = <<>>)
        BY DEF LinesEnd
      <4> QED
        BY <2>3, <3>1, <4>1, <4>2, <4>3
    <3>3. CASE Flat(lines) # <<>> /\ Flat(lines)[Len(Flat(lines))] = LF
      <4>1. ASSUME NEW f \in Seq(Char), f # <<>>
            PROVE  /\ Len(f \o <<LF>>) = Len(f) + 1 /\ Len(f) > 0
                   /\ (f \o <<LF>>)[Len(f) + 1] = LF /\ (f \o <<LF>>)[Len(f)] = f[Len(f)]
        BY <1>0, <4>1
      <4>2. /\ Len(Said) = Len(Flat(lines)) + 1 /\ Len(Flat(lines)) > 0
            /\ Said[Len(Flat(lines)) + 1] = LF /\ Said[Len(Flat(lines))] = LF
        BY <1>0, <3>2, <3>3, <4>1 DEF Said
      <4>3. Len(Flat(lines)) \in Nat
        BY <1>0
      <4> QED
        BY <4>2, <4>3 DEF Blank
    <3> QED
      BY <3>1, <3>3 DEF HeaderFollows
  <2>7. CASE stage' \notin {"headers", "done"}
    BY <2>7 DEF HeaderFollows
  <2> QED
    BY <2>5, <2>6, <2>7
<1> QED
  BY <1>1, <1>2, <1>3 DEF Next, GetLine, Waiting

(* The loop over the headers takes everything up to the first blank line   *)
(* and nothing after it, but for the rest of a line that just filled the   *)
(* buffer (httpd.c:61, 125, 150).                                          *)
THEOREM HeadersEndRight == Spec => []HeadersEndAtBlankLine
<1> DEFINE I == LookedBehind /\ LinesEnd /\ PairEnds /\ HeaderFollows
<1>1. Init => I
  <2> SUFFICES ASSUME Init
               PROVE  I
    OBVIOUS
  <2>1. Said = <<>>
    BY FlatIs DEF Init, Said
  <2> QED
    BY <2>1, HttpLineAssumption DEF Init, LookedBehind, LinesEnd, PairEnds, HeaderFollows
<1>2. IInv /\ I /\ [Next]_vars => I'
  BY LookedNext, LinesEndNext, PairNext, FollowsNext DEF IInv
<1>3. IInv /\ I => HeadersEndAtBlankLine
  <2> SUFFICES ASSUME IInv, I
               PROVE  HeadersEndAtBlankLine
    OBVIOUS
  <2>0. Said \in Seq(Char) /\ Len(Said) \in Nat
    BY SaidIs DEF IInv
  <2>1. ASSUME NEW n \in 1 .. Len(Said) - 1
        PROVE  ~Blank(SubSeq(Said, 1, n))
    <3>1. ASSUME n > 1
          PROVE  /\ Len(SubSeq(Said, 1, n)) = n
                 /\ SubSeq(Said, 1, n)[n] = Said[n] /\ SubSeq(Said, 1, n)[n - 1] = Said[n - 1]
      BY <2>0, <3>1
    <3>2. n > 1 => n \in 2..Len(Said) /\ n # Len(Said)
      BY <2>0
    <3>3. n > 1 => ~(Said[n] = LF /\ Said[n - 1] = LF)
      BY <3>2 DEF PairEnds
    <3>4. Len(SubSeq(Said, 1, n)) = n
      BY <2>0
    <3> QED
      BY <3>1, <3>3, <3>4 DEF Blank
  <2> QED
    BY <2>1 DEF HeadersEndAtBlankLine, HeaderFollows, Said
<1> QED
  BY <1>1, <1>2, <1>3, Invariance, PTL DEF Spec
=============================================================================
