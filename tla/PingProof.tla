------------------------------ MODULE PingProof ------------------------------
(***************************************************************************)
(* For any number of slots, any width of a short, any number of packets    *)
(* and signals: what ping.c promises of its statistics.                    *)
(***************************************************************************)
EXTENDS Ping, TLAPS, FiniteSetTheorems

(* The packets sent, the one that is not counted yet left out.             *)
Number == IF spc = "count" THEN sent - 1 ELSE sent

Tries == spc \in {"scan", "seq", "flag", "time", "sendto"}
InHand == rpc \in {"scan", "clear", "rtt"}

(* What each thread's place tells.                                         *)
Placed ==
  /\ Tries => tries < MaxTries
  /\ spc = "count" => sent > 0
  /\ spc \in {"seq", "flag"} => flag[packet] = 0
  /\ spc \in {"flag", "time", "sendto"} /\ packet # None => seq[packet] = packetSend
  /\ tvBegin <=> spc \notin {"off", "begin"}
  /\ ~tvBegin => tries = 0
  /\ rpc \in {"off", "select"} => msg = NoReply /\ found = 0 /\ tvSend = 0
  /\ mpc \in {"start", "create"} => spc = "off"
  /\ mpc \in {"start", "create", "create2"} => rpc = "off"

(* No time lies in the future.                                             *)
InTime ==
  /\ first <= tries + 1
  /\ \A s \in Slot : begin[s] <= tries + 1
  /\ msg.first <= tries /\ \A r \in wire : r.first <= tries

(* When a thread has ended the signal has come, and when main() is past    *)
(* the joins no handler is left; if the time was taken before tv_begin was *)
(* nothing was sent.                                                       *)
Ending ==
  /\ mpc = "start" => handler \in {"none", "main"}
  /\ spc = "ended" \/ rpc = "ended" => ~alive /\ mpc # "start"
  /\ handler = "send" => spc \notin {"off", "ended"}
  /\ handler = "recv" => rpc \notin {"off", "ended"}
  /\ mpc \in {"printed", "crashed"} =>
       spc \in {"off", "ended"} /\ rpc \in {"off", "ended"} /\ handler = "none"
  /\ mpc = "printed" => packetSend # 0
  /\ mpc = "crashed" => packetSend = 0
  /\ ~alive /\ mpc # "start" /\ handler = "none" =>
       \/ tvInterval = "right"
       \/ spc \in {"off", "begin", "test", "ended"} /\ sent = 0

(* packet_send is the number of packets, modulo the range of a short.      *)
Numbered ==
  /\ \E k \in Int : Number = packetSend + Modulus * k
  /\ tries <= Modulus =>
       packetSend = IF Number < Half THEN Number
                    ELSE IF Number < Modulus THEN Number - Modulus ELSE 0

(* No more replies than packets.                                           *)
Counted ==
  /\ IsFiniteSet(wire)
  /\ ~doubled /\ sent < Half =>
       /\ packetRecv >= 0
       /\ packetRecv + Cardinality(wire) + (IF InHand THEN 1 ELSE 0) <= sent

(* The replies that are looked for have numbers of their own, older than   *)
(* the current one.                                                        *)
Distinct ==
  Unrepeated =>
    /\ \A r \in wire : r.seq < sent
    /\ \A r, q \in wire : r.seq = q.seq => r = q
    /\ InHand => msg.seq < sent /\ \A r \in wire : r.seq # msg.seq

(* Until it is found a reply's slots stay its own, with a time that is not *)
(* too old.  The first packet has slot 0, whose number the slots never     *)
(* used have too.                                                          *)
Outstanding == wire \cup (IF rpc = "scan" THEN {msg} ELSE {})

Keeps(r) ==
  /\ \A s \in Slot : seq[s] = r.seq /\ r.seq # 0 => flag[s] = 1 /\ begin[s] >= r.first
  /\ r.seq = 0 => seq[0] = 0 /\ flag[0] = 1 /\ begin[0] >= r.first

Slotted(r, from) ==
  r.kept /\ r.seq # 0 /\ r.seq < Half => \E s \in from .. N - 1 : seq[s] = r.seq

Kept ==
  Unrepeated =>
    /\ \A r \in Outstanding : Keeps(r)
    /\ \A r \in wire : Slotted(r, 0)
    /\ rpc = "scan" => Slotted(msg, found) /\ (msg.seq = 0 => found = 0)
    /\ rpc = "clear" => flag[found] = 1 /\ seq[found] = msg.seq
    /\ rpc \in {"clear", "rtt"} => begin[found] >= msg.first

(* So do those of the packet that is being sent.                           *)
Marked(s) ==
  \/ spc = "flag" /\ s = packet
  \/ flag[s] = 1 /\ ((spc = "time" /\ s = packet) \/ begin[s] >= first)

FirstKept ==
  /\ first = 1
  /\ \A s \in Slot : seq[s] = 0
  /\ \/ /\ tries = 0 /\ flag[0] = 0
        /\ spc \in {"off", "begin", "test", "scan", "seq", "flag", "ended"}
        /\ (spc \in {"scan", "seq", "flag"} => packet = 0)
     \/ flag[0] = 1 /\ ((spc = "time" /\ packet = 0) \/ begin[0] >= first)

CurrentKept ==
  Unrepeated =>
    /\ \A s \in Slot : seq[s] <= Number
    /\ sent = 0 => FirstKept
    /\ sent # 0 /\ spc # "count" => \A s \in Slot : seq[s] = sent => Marked(s)

IInv ==
  /\ TypeOK /\ Placed /\ InTime /\ Ending /\ Numbered /\ Counted /\ Distinct
  /\ Kept /\ CurrentKept /\ CountedIfKept /\ NeverMeasuredFromBefore

-----------------------------------------------------------------------------
(* What a multiple of m and a rest leave is the rest.                      *)
LEMMA ModPlus ==
  ASSUME NEW m \in Nat \ {0}, NEW q \in Int, NEW r \in 0 .. m - 1
  PROVE  (m * q + r) % m = r
  OBVIOUS

(* A multiple of m leaves nothing.                                         *)
LEMMA ModMultiple ==
  ASSUME NEW m \in Nat \ {0}, NEW q \in Int
  PROVE  (m * q) % m = 0
  OBVIOUS

(* A number smaller than m leaves itself.                                  *)
LEMMA ModSmall ==
  ASSUME NEW m \in Nat \ {0}, NEW n \in 0 .. m - 1
  PROVE  n % m = n
  OBVIOUS

(* A short goes up by one, or round to the least.                          *)
LEMMA ShortNext ==
  ASSUME NEW n \in Shorts
  PROVE  Short(n + 1) = IF n = Half - 1 THEN -Half ELSE n + 1
<1>0. Half \in Nat \ {0} /\ Modulus \in Nat \ {0} /\ Modulus = Half + Half /\ n \in Int
  BY PingAssumption DEF Modulus, Shorts
<1> DEFINE x == n + 1 + Half
<1>1. x \in Int /\ 0 <= x /\ x <= Modulus /\ Short(n + 1) = (x % Modulus) - Half
  BY <1>0 DEF Shorts, Short
<1>2. CASE n = Half - 1
  <2>1. x = Modulus
    BY <1>0, <1>2
  <2>2. Modulus % Modulus = 0
    BY <1>0
  <2> QED
    BY <1>0, <1>1, <1>2, <2>1, <2>2
<1>3. CASE n # Half - 1
  <2>1. x \in 0 .. Modulus - 1
    BY <1>0, <1>1, <1>3 DEF Shorts
  <2>2. x % Modulus = x
    BY <1>0, <2>1, ModSmall
  <2> QED
    BY <1>0, <1>1, <1>3, <2>2
<1> QED
  BY <1>2, <1>3

(* It is a short again.                                                    *)
LEMMA ShortType ==
  ASSUME NEW n \in Shorts
  PROVE  Short(n + 1) \in Shorts
<1>1. Half \in Nat \ {0}
  BY PingAssumption
<1> QED
  BY <1>1, ShortNext DEF Shorts

(* A negative short is a large number when it is read as unsigned.         *)
LEMMA UnsignedIs ==
  ASSUME NEW n \in Shorts
  PROVE  /\ Unsigned(n) = IF n >= 0 THEN n ELSE n + Modulus
         /\ Unsigned(n) \in 0 .. Modulus - 1
<1>0. Half \in Nat \ {0} /\ Modulus \in Nat \ {0} /\ Modulus = Half + Half /\ n \in Int
  BY PingAssumption DEF Modulus, Shorts
<1>1. CASE n >= 0
  <2>1. n \in 0 .. Modulus - 1
    BY <1>0, <1>1 DEF Shorts
  <2> QED
    BY <1>0, <1>1, <2>1, ModSmall DEF Unsigned
<1>2. CASE n < 0
  <2>1. n + Modulus \in 0 .. Modulus - 1 /\ -1 \in Int /\ Modulus * (-1) + (n + Modulus) = n
    BY <1>0, <1>2 DEF Shorts
  <2>2. (Modulus * (-1) + (n + Modulus)) % Modulus = n + Modulus
    BY <1>0, <2>1, ModPlus
  <2> QED
    BY <1>0, <1>2, <2>1, <2>2 DEF Unsigned
<1> QED
  BY <1>0, <1>1, <1>2

(* What the assumptions say of the sizes.                                  *)
LEMMA Sizes == /\ Half \in Nat \ {0} /\ Modulus \in Nat \ {0} /\ Modulus = Half + Half
               /\ N \in Nat \ {0} /\ None = N /\ 0 \in Slot /\ None \notin Slot
               /\ MaxTries \in Nat /\ MaxSignals \in Nat /\ 0 \in Shorts /\ NoReply \in Reply
  BY PingAssumption DEF Modulus, None, Slot, Shorts, NoReply, Reply

-----------------------------------------------------------------------------
(* The invariant holds before the threads are made.                        *)
LEMMA StartsRight == Init => IInv
<1> SUFFICES ASSUME Init
             PROVE  IInv
  OBVIOUS
<1> USE Sizes DEF Init
<1>0. NoReply.seq = 0 /\ NoReply.kept = FALSE /\ NoReply.first = 0
  BY DEF NoReply
<1>1. TypeOK
  <2>1. /\ 0 \in 0..MaxTries /\ 1 \in 1 .. MaxTries + 1 /\ 0 \in 0..MaxSignals /\ 0 \in 0..0
        /\ 0 \in Slot \cup {None}
    OBVIOUS
  <2>2. seq \in [Slot -> Shorts] /\ flag \in [Slot -> {0, 1}] /\ begin \in [Slot -> 0..MaxTries]
    BY <2>1
  <2> QED
    BY <2>1, <2>2 DEF TypeOK
<1>2. Placed /\ InTime /\ Ending /\ CountedIfKept /\ NeverMeasuredFromBefore
  BY <1>0 DEF Placed, InTime, Ending, CountedIfKept, NeverMeasuredFromBefore, Tries
<1>3. Numbered
  <2>1. 0 \in Int /\ 0 = 0 + Modulus * 0 /\ Number = 0
    BY DEF Number
  <2> QED
    BY <2>1 DEF Numbered
<1>4. Counted
  <2>1. IsFiniteSet(wire) /\ Cardinality(wire) = 0
    BY FS_EmptySet
  <2> QED
    BY <2>1 DEF Counted, InHand
<1>5. Distinct /\ Kept
  BY DEF Distinct, Kept, InHand, Outstanding
<1>6. CurrentKept
  BY DEF CurrentKept, FirstKept, Number
<1> QED
  BY <1>1, <1>2, <1>3, <1>4, <1>5, <1>6 DEF IInv

(* main()'s steps keep every type.                                         *)
LEMMA MainTypes ==
  ASSUME TypeOK, Main
  PROVE  TypeOK'
<1> USE DEF slots, sender, receiver, signal, network, TypeOK
<1>1. CASE SetAlive
  BY <1>1 DEF SetAlive
<1>2. CASE CreateSend
  BY <1>2, Sizes DEF CreateSend
<1>3. CASE CreateRecv
  BY <1>3 DEF CreateRecv
<1>4. CASE Statistics \/ JoinMissing
  BY <1>4 DEF Statistics, JoinMissing
<1> QED
  BY <1>1, <1>2, <1>3, <1>4 DEF Main

(* The sender's steps keep every type.                                     *)
LEMMA SendTypes ==
  ASSUME TypeOK, Placed, InTime, Numbered, Send
  PROVE  TypeOK'
<1> USE DEF slots, receiver, signal, network, TypeOK
<1>0. tries \in Int /\ sent \in Int /\ packetSend \in Int /\ packet \in Int /\ first \in Int
  BY Sizes DEF Shorts, Slot
<1>1. CASE Begin
  BY <1>1 DEF Begin
<1>2. CASE TestSend
  BY <1>2, Sizes DEF TestSend
<1>3. CASE FindFree
  <2>1. packet + 1 \in Slot \cup {None}
    BY <1>3, Sizes DEF FindFree, Slot
  <2> QED
    BY <1>3, <2>1, Sizes DEF FindFree
<1>4. CASE MarkSeq
  BY <1>4, Sizes DEF MarkSeq
<1>5. CASE MarkFlag
  BY <1>5, Sizes DEF MarkFlag
<1>6. CASE MarkTime
  <2>1. tries + 1 \in 0..MaxTries
    BY <1>0, <1>6, Sizes DEF MarkTime, Placed, Tries
  <2> QED
    BY <1>6, <2>1, Sizes DEF MarkTime
<1>7. CASE SendTo
  <2>1. tries + 1 \in 0..MaxTries /\ sent + 1 \in 0 .. tries + 1 /\ first \in 0..MaxTries
    BY <1>0, <1>7, Sizes DEF SendTo, Placed, Tries, InTime
  <2>2. Unsigned(packetSend) \in 0 .. Modulus - 1
    BY UnsignedIs
  <2>3. [seq |-> Unsigned(packetSend), kept |-> packet # None, first |-> first, at |-> tries + 1] \in Reply
    BY <2>1, <2>2 DEF Reply
  <2> QED
    BY <1>7, <2>1, <2>3 DEF SendTo
<1>8. CASE SendToFails
  <2>1. tries + 1 \in 0..MaxTries /\ sent \in 0 .. tries + 1
    BY <1>0, <1>8, Sizes DEF SendToFails, Placed, Tries
  <2> QED
    BY <1>8, <2>1 DEF SendToFails
<1>9. CASE CountSent
  <2>1. Short(packetSend + 1) \in Shorts
    BY ShortType
  <2>2. tries + 1 \in 1 .. MaxTries + 1
    BY <1>0, Sizes
  <2> QED
    BY <1>9, <2>1, <2>2 DEF CountSent
<1> QED
  BY <1>1, <1>2, <1>3, <1>4, <1>5, <1>6, <1>7, <1>8, <1>9 DEF Send

(* The receiver's steps keep every type.                                   *)
LEMMA ReceiveTypes ==
  ASSUME TypeOK, Placed, Receive
  PROVE  TypeOK'
<1> USE DEF slots, sender, signal, network, TypeOK
<1>1. CASE TestRecv
  BY <1>1, Sizes DEF TestRecv, Forget
<1>2. CASE Timeout
  BY <1>2 DEF Timeout
<1>3. CASE Recv
  <2>1. /\ UNCHANGED <<slots, sender, packetRecv, found, tvSend, signal, mpc>>
        /\ rpc = "select" /\ rpc' = "scan" /\ msg' \in wire /\ wire' \subseteq wire /\ doubled' \in BOOLEAN
    BY <1>3 DEF Recv
  <2>2. found # None
    BY <2>1, Sizes DEF Placed
  <2> QED
    BY <2>1, <2>2
<1>4. CASE FindSeq
  <2>1. found + 1 \in Slot \cup {None}
    BY <1>4, Sizes DEF FindSeq, Slot
  <2> QED
    BY <1>4, <2>1, Sizes DEF FindSeq
<1>5. CASE ClearFlag
  BY <1>5, Sizes DEF ClearFlag
<1>6. CASE CountReply
  <2>1. Short(packetRecv + 1) \in Shorts
    BY ShortType
  <2> QED
    BY <1>6, <2>1, Sizes DEF CountReply
<1> QED
  BY <1>1, <1>2, <1>3, <1>4, <1>5, <1>6 DEF Receive

(* So does every step.                                                     *)
LEMMA StepKeepsTypes == IInv /\ [Next]_vars => TypeOK'
<1> SUFFICES ASSUME IInv, [Next]_vars
             PROVE  TypeOK'
  OBVIOUS
<1>0. TypeOK /\ Placed /\ InTime /\ Numbered
  BY DEF IInv
<1>1. CASE Lose
  BY <1>0, <1>1 DEF Lose, TypeOK, slots, sender, receiver, signal
<1>2. CASE SigintEnds
  BY <1>0, <1>2 DEF SigintEnds, TypeOK, slots, sender, receiver, network
<1>3. ASSUME NEW t \in Threads, Sigint(t)
      PROVE  TypeOK'
  <2>1. signals + 1 \in 0..MaxSignals
    BY <1>0, <1>3, Sizes DEF Sigint, TypeOK
  <2>2. UNCHANGED <<slots, sender, receiver, tvInterval, mpc, network>> /\ alive' = FALSE /\ handler' = t
        /\ signals' = signals + 1
    BY <1>3 DEF Sigint
  <2> QED
    <3>1. handler' \in Threads \cup {"none"} /\ alive' \in BOOLEAN /\ signals' \in 0..MaxSignals
      BY <1>3, <2>1, <2>2
    <3>2. UNCHANGED <<seq, flag, begin, packetSend, tvBegin, spc, packet, tries, sent, first, packetRecv, rpc, msg, found, tvSend, tvInterval, mpc, wire, doubled>>
      BY <2>2 DEF slots, sender, receiver, network
    <3> QED
      BY <1>0, <3>1, <3>2 DEF TypeOK
<1>4. CASE UNCHANGED vars
  BY <1>0, <1>4 DEF vars, TypeOK
<1> QED
  BY <1>0, <1>1, <1>2, <1>3, <1>4, MainTypes, SendTypes, ReceiveTypes DEF Next, Finished

(* No step takes a thread to a place it should not be at.                  *)
LEMMA StepKeepsPlaced ==
  ASSUME TypeOK, Placed, [Next]_vars
  PROVE  Placed'
<1> USE Sizes DEF slots, sender, receiver, signal, network, Placed, Tries
<1>0. /\ seq \in [Slot -> Shorts] /\ flag \in [Slot -> {0, 1}] /\ None \notin Slot
      /\ (spc \in {"scan", "seq", "flag", "time"} => packet \in Slot) /\ tries \in Int /\ sent \in Nat
      /\ (rpc \in {"scan", "clear", "rtt"} => found \in Slot)
  BY DEF TypeOK
<1>1. CASE Main
  BY <1>1 DEF Main, SetAlive, CreateSend, CreateRecv, Statistics, JoinMissing
<1>2. CASE Begin \/ TestSend \/ FindFree \/ SendTo \/ SendToFails \/ CountSent
  BY <1>0, <1>2 DEF Begin, TestSend, FindFree, SendTo, SendToFails, CountSent
<1>3. CASE MarkSeq
  BY <1>0, <1>3 DEF MarkSeq
<1>4. CASE MarkFlag
  BY <1>0, <1>4 DEF MarkFlag
<1>5. CASE MarkTime
  BY <1>0, <1>5 DEF MarkTime
<1>6. CASE Receive /\ ~ClearFlag
  BY <1>6 DEF Receive, TestRecv, Timeout, Recv, FindSeq, CountReply, Forget
<1>7. CASE ClearFlag
  BY <1>0, <1>7 DEF ClearFlag
<1>8. CASE Lose \/ SigintEnds \/ UNCHANGED vars \/ \E t \in Threads : Sigint(t)
  BY <1>8 DEF Lose, SigintEnds, vars, Sigint
<1> QED
  BY <1>1, <1>2, <1>3, <1>4, <1>5, <1>6, <1>7, <1>8 DEF Next, Send, Finished

(* No step brings a time from the future.                                  *)
LEMMA StepKeepsInTime ==
  ASSUME TypeOK, Placed, InTime, [Next]_vars
  PROVE  InTime'
<1> USE DEF slots, sender, receiver, signal, network, InTime
<1>0. /\ begin \in [Slot -> 0..MaxTries] /\ tries \in Nat /\ msg.first \in Nat /\ first \in Nat
      /\ \A r \in wire : r.first \in Nat
      /\ (spc = "time" => packet \in Slot)
  BY Sizes DEF TypeOK, Reply
<1>1. CASE UNCHANGED <<begin, tries, first, wire>> /\ (msg' = msg \/ msg' \in wire \/ msg' = NoReply)
  BY <1>0, <1>1 DEF NoReply
<1>2. CASE MarkTime
  BY <1>0, <1>2 DEF MarkTime
<1>3. CASE SendTo
  <2>1. \A s \in Slot : begin'[s] <= tries' + 1
    BY <1>0, <1>3, Sizes DEF SendTo
  <2> QED
    BY <1>0, <1>3, <2>1, UnsignedIs DEF SendTo, Placed
<1>4. CASE SendToFails
  BY <1>0, <1>4, Sizes DEF SendToFails
<1>5. CASE CountSent
  BY <1>0, <1>5, Sizes DEF CountSent
<1>6. CASE Recv
  BY <1>0, <1>6 DEF Recv
<1>7. CASE Lose
  BY <1>0, <1>7 DEF Lose
<1> QED
  BY <1>1, <1>2, <1>3, <1>4, <1>5, <1>6, <1>7
  DEF Next, Finished, Main, SetAlive, CreateSend, CreateRecv, Statistics, JoinMissing, Send, Begin, TestSend,
      FindFree, MarkSeq, MarkFlag, Receive, TestRecv, Timeout, FindSeq, ClearFlag, CountReply,
      Forget, SigintEnds, Sigint, vars

(* No step ends a thread before the signal, or the ping before its         *)
(* handlers.                                                               *)
LEMMA StepKeepsEnding ==
  ASSUME TypeOK, Placed, Numbered, Ending, [Next]_vars
  PROVE  Ending'
<1> USE DEF slots, sender, receiver, signal, network, Ending, Running, Placed, Tries
<1>0. handler \in Threads \cup {"none"} /\ sent \in Int /\ packetSend \in Int
      /\ (sent = 0 /\ spc # "count" => packetSend = 0)
  BY Sizes DEF TypeOK, Shorts, Numbered, Number
<1>1. CASE SetAlive \/ CreateSend \/ CreateRecv
  BY <1>0, <1>1 DEF SetAlive, CreateSend, CreateRecv, Threads
<1>2. CASE Statistics \/ JoinMissing
  BY <1>0, <1>2 DEF Statistics, JoinMissing, Threads
<1>3. CASE Send
  BY <1>0, <1>3 DEF Send, Begin, TestSend, FindFree, MarkSeq, MarkFlag, MarkTime, SendTo,
                    SendToFails, CountSent
<1>4. CASE Receive
  BY <1>0, <1>4 DEF Receive, TestRecv, Timeout, Recv, FindSeq, ClearFlag, CountReply
<1>5. CASE Lose \/ UNCHANGED vars
  BY <1>5 DEF Lose, vars
<1>6. CASE SigintEnds
  BY <1>0, <1>6, Sizes DEF SigintEnds, TypeOK
<1>7. CASE \E t \in Threads : Sigint(t)
  BY <1>0, <1>7 DEF Sigint, Threads
<1> QED
  BY <1>1, <1>2, <1>3, <1>4, <1>5, <1>6, <1>7 DEF Next, Main, Finished

(* No step loses count of the packets, modulo the range of a short.        *)
LEMMA StepKeepsNumbered ==
  ASSUME TypeOK, Placed, Numbered, [Next]_vars
  PROVE  Numbered'
<1> USE DEF slots, sender, receiver, signal, network
<1>0. /\ sent \in Nat /\ tries \in Nat /\ packetSend \in Shorts /\ sent <= tries /\ packetSend \in Int
      /\ (spc = "count" => sent > 0) /\ Number \in Nat
  BY Sizes DEF TypeOK, Shorts, Placed, Number
<1>1. CASE UNCHANGED packetSend /\ Number' = Number /\ tries' >= tries /\ tries' \in Nat
  BY <1>0, <1>1, Sizes DEF Numbered
<1>2. CASE CountSent
  <2>1. packetSend' = Short(packetSend + 1) /\ Number' = Number + 1 /\ tries' = tries /\ Number + 1 <= tries
    BY <1>0, <1>2 DEF CountSent, Number
  <2>2. PICK k \in Int : Number = packetSend + Modulus * k
    BY DEF Numbered
  <2>3. CASE packetSend = Half - 1
    <3>1. packetSend' = -Half
      BY <1>0, <2>1, <2>3, ShortNext
    <3>2. Modulus * (k + 1) = Modulus * k + Modulus
      BY Sizes
    <3>3. Number' = packetSend' + Modulus * (k + 1) /\ k + 1 \in Int
      BY <1>0, <2>1, <2>2, <2>3, <3>1, <3>2, Sizes
    <3>4. tries <= Modulus => Number = Half - 1
      BY <1>0, <2>1, <2>3, Sizes DEF Numbered
    <3>5. tries <= Modulus => packetSend' = Number' - Modulus /\ Number' = Half
      BY <1>0, <2>1, <3>1, <3>4, Sizes
    <3>6. tries <= Modulus => ~(Number' < Half) /\ Number' < Modulus
      BY <1>0, <2>1, <3>5, Sizes
    <3> QED
      BY ONLY <2>1, <3>3, <3>5, <3>6 DEF Numbered
  <2>4. CASE packetSend # Half - 1
    <3>1. packetSend' = packetSend + 1
      BY <1>0, <2>1, <2>4, ShortNext
    <3>2. Number' = packetSend' + Modulus * k
      BY <1>0, <2>1, <2>2, <3>1, Sizes
    <3>3. tries <= Modulus => packetSend' = IF Number' < Half THEN Number'
                    ELSE IF Number' < Modulus THEN Number' - Modulus ELSE 0
      BY <1>0, <2>1, <2>4, <3>1, Sizes DEF Numbered
    <3> QED
      BY ONLY <2>1, <3>2, <3>3 DEF Numbered
  <2> QED
    BY <2>3, <2>4
<1>3. CASE SendTo
  <2>1. UNCHANGED packetSend /\ Number' = Number /\ tries' = tries + 1
    BY <1>0, <1>3 DEF SendTo, Number
  <2> QED
    BY <1>0, <1>1, <2>1
<1>4. CASE SendToFails
  <2>1. UNCHANGED packetSend /\ Number' = Number /\ tries' = tries + 1
    BY <1>0, <1>4 DEF SendToFails, Number
  <2> QED
    BY <1>0, <1>1, <2>1
<1>5. CASE UNCHANGED <<packetSend, sent, tries>> /\ spc # "count" /\ spc' # "count"
  BY <1>0, <1>1, <1>5 DEF Number
<1>6. CASE UNCHANGED <<packetSend, sent, tries, spc>>
  BY <1>0, <1>1, <1>6 DEF Number
<1> QED
  BY <1>2, <1>3, <1>4, <1>5, <1>6
  DEF Next, Finished, Main, SetAlive, CreateSend, CreateRecv, Statistics, JoinMissing, Send, Begin, TestSend,
      FindFree, MarkSeq, MarkFlag, MarkTime, Receive, TestRecv, Timeout, Recv, FindSeq, ClearFlag,
      CountReply, Lose, SigintEnds, Sigint, vars, Placed

(* What a step does to the replies: it leaves them alone, or is one of     *)
(* five.                                                                   *)
LEMMA ReplySteps ==
  ASSUME [Next]_vars
  PROVE  \/ UNCHANGED <<wire, sent, doubled, packetRecv>> /\ (InHand' => InHand /\ UNCHANGED msg)
         \/ SendTo \/ Recv \/ CountReply \/ Lose
  BY DEF Next, Finished, Main, SetAlive, CreateSend, CreateRecv, Statistics, JoinMissing, Send, Begin, TestSend,
         FindFree, MarkSeq, MarkFlag, MarkTime, SendToFails, CountSent, Receive, TestRecv, Timeout,
         FindSeq, ClearFlag, Forget, SigintEnds, Sigint, vars, slots, sender, receiver, signal,
         network, InHand

(* No step brings more replies than packets.                               *)
LEMMA StepKeepsCounted ==
  ASSUME TypeOK, Placed, Counted, [Next]_vars
  PROVE  Counted'
<1> USE DEF slots, sender, receiver, signal, network, Counted
<1> DEFINE hand == IF InHand THEN 1 ELSE 0
<1>0. /\ IsFiniteSet(wire) /\ Cardinality(wire) \in Nat /\ sent \in Nat /\ packetRecv \in Int
      /\ hand \in {0, 1}
  BY FS_CardinalityType DEF TypeOK, Shorts
<1>1. CASE UNCHANGED <<wire, sent, doubled, packetRecv>> /\ (InHand' => InHand /\ UNCHANGED msg)
  BY <1>0, <1>1
<1>2. CASE SendTo
  <2>1. PICK r : wire' = wire \cup {r}
    BY <1>2 DEF SendTo
  <2>2. IsFiniteSet(wire') /\ Cardinality(wire') <= Cardinality(wire) + 1 /\ Cardinality(wire') \in Nat
    BY <1>0, <2>1, FS_AddElement, FS_CardinalityType
  <2>3. sent' = sent + 1 /\ UNCHANGED <<packetRecv, doubled, rpc>>
    BY <1>2 DEF SendTo
  <2> QED
    BY <1>0, <2>2, <2>3, Sizes DEF InHand
<1>3. CASE Recv
  <2>0. UNCHANGED <<packetRecv, sent>> /\ hand = 0 /\ hand' = 1
    BY <1>3 DEF Recv, InHand
  <2>1. PICK r \in wire : \/ wire' = wire \ {r} /\ UNCHANGED doubled
                          \/ doubled' = TRUE /\ UNCHANGED wire
    BY <1>3 DEF Recv
  <2>2. CASE doubled' = TRUE /\ UNCHANGED wire
    BY <1>0, <2>2
  <2>3. CASE wire' = wire \ {r} /\ UNCHANGED doubled
    <3>1. IsFiniteSet(wire') /\ Cardinality(wire') = Cardinality(wire) - 1
      BY <1>0, <2>3, FS_RemoveElement
    <3> QED
      BY <1>0, <2>0, <2>3, <3>1, Sizes
  <2> QED
    BY <2>1, <2>2, <2>3
<1>4. CASE CountReply
  <2>1. packetRecv' = Short(packetRecv + 1) /\ hand = 1 /\ hand' = 0 /\ UNCHANGED <<wire, sent, doubled>>
    BY <1>4 DEF CountReply, InHand
  <2>2. ~doubled /\ sent < Half => packetRecv < Half - 1
    BY <1>0, <2>1, Sizes
  <2>3. packetRecv < Half - 1 => packetRecv' = packetRecv + 1
    BY <1>0, <2>1, ShortNext DEF TypeOK
  <2> QED
    BY <1>0, <2>1, <2>2, <2>3, Sizes
<1>5. CASE Lose
  <2>0. UNCHANGED <<packetRecv, sent, doubled, rpc>>
    BY <1>5 DEF Lose
  <2>1. PICK r \in wire : wire' = wire \ {r}
    BY <1>5 DEF Lose
  <2>2. IsFiniteSet(wire') /\ Cardinality(wire') = Cardinality(wire) - 1
    BY <1>0, <2>1, FS_RemoveElement
  <2> QED
    BY <1>0, <2>0, <2>2, Sizes DEF InHand
<1> QED
  BY <1>1, <1>2, <1>3, <1>4, <1>5, ReplySteps

(* As long as no number came twice, the next one has not been used.        *)
LEMMA NewNumber ==
  ASSUME TypeOK, Placed, Numbered, Unrepeated, Tries
  PROVE  /\ sent \in Nat /\ sent <= Modulus
         /\ sent < Modulus => Unsigned(packetSend) = sent
         /\ packetSend >= 0 => packetSend = 0 \/ packetSend = sent
         /\ packetSend \in Int /\ packetSend <= sent
         /\ sent < Half => packetSend = sent
<1>0. sent \in Nat /\ sent <= tries /\ tries \in Nat /\ packetSend \in Shorts /\ packetSend \in Int /\ Number = sent
  BY Sizes DEF TypeOK, Shorts, Number, Tries
<1> QED
  BY <1>0, Sizes, UnsignedIs DEF Numbered, Unrepeated

(* Where no number came twice after a step, none had before it.            *)
LEMMA UnrepeatedBefore ==
  ASSUME TypeOK, [Next]_vars, Unrepeated'
  PROVE  Unrepeated /\ (SendTo => sent < Modulus)
<1>0. tries \in Nat /\ sent \in Nat /\ sent <= tries
  BY DEF TypeOK
<1>1. tries' = tries \/ tries' = tries + 1
  BY DEF Next, Finished, Main, SetAlive, CreateSend, CreateRecv, Statistics, JoinMissing, Send, Begin, TestSend,
         FindFree, MarkSeq, MarkFlag, MarkTime, SendTo, SendToFails, CountSent, Receive, TestRecv, Timeout,
         Recv, FindSeq, ClearFlag, CountReply, Lose, SigintEnds, Sigint, vars, sender
<1>2. doubled => doubled'
  BY ReplySteps DEF SendTo, Recv, CountReply, Lose, network
<1>3. SendTo => tries' = tries + 1
  BY DEF SendTo
<1> QED
  BY <1>0, <1>1, <1>2, <1>3, Sizes DEF Unrepeated

(* No step gives a number to two replies.                                  *)
LEMMA StepKeepsDistinct ==
  ASSUME TypeOK, Placed, Numbered, Distinct, [Next]_vars
  PROVE  Distinct'
<1> SUFFICES ASSUME Unrepeated'
             PROVE  /\ \A r \in wire' : r.seq < sent'
                    /\ \A r, q \in wire' : r.seq = q.seq => r = q
                    /\ InHand' => msg'.seq < sent' /\ \A r \in wire' : r.seq # msg'.seq
  BY DEF Distinct
<1> USE DEF slots, sender, receiver, signal, network
<1>0. /\ Unrepeated /\ sent \in Nat /\ \A r \in wire \cup {msg} : r.seq \in Nat
      /\ \A r \in wire : r.seq < sent
      /\ \A r, q \in wire : r.seq = q.seq => r = q
      /\ InHand => msg.seq < sent /\ \A r \in wire : r.seq # msg.seq
  BY UnrepeatedBefore, Sizes DEF TypeOK, Reply, Distinct
<1>1. CASE UNCHANGED <<wire, sent, doubled, packetRecv>> /\ (InHand' => InHand /\ UNCHANGED msg)
  BY <1>0, <1>1
<1>2. CASE SendTo
  <2> DEFINE new == [seq |-> Unsigned(packetSend), kept |-> packet # None, first |-> first, at |-> tries + 1]
  <2>1. wire' = wire \cup {new} /\ new.seq = Unsigned(packetSend)
    BY <1>2 DEF SendTo
  <2> HIDE DEF new
  <2>2. new.seq = sent
    BY <1>0, <1>2, <2>1, UnrepeatedBefore, NewNumber DEF SendTo, Tries
  <2>3. sent' = sent + 1 /\ UNCHANGED <<msg, rpc>>
    BY <1>2 DEF SendTo
  <2> QED
    BY <1>0, <2>1, <2>2, <2>3 DEF InHand
<1>3. CASE Recv
  <2>1. PICK r \in wire : msg' = r /\ (wire' = wire \ {r} \/ doubled')
    BY <1>3 DEF Recv
  <2>2. wire' = wire \ {r} /\ UNCHANGED sent
    BY <1>3, <2>1 DEF Recv, Unrepeated
  <2> QED
    BY <1>0, <2>1, <2>2
<1>4. CASE CountReply
  BY <1>0, <1>4 DEF CountReply, InHand
<1>5. CASE Lose
  <2>1. UNCHANGED <<sent, msg, rpc>> /\ wire' \subseteq wire
    BY <1>5 DEF Lose
  <2> QED
    BY <1>0, <2>1 DEF InHand
<1> QED
  BY <1>1, <1>2, <1>3, <1>4, <1>5, ReplySteps

-----------------------------------------------------------------------------
(* What the parts of the invariant say of the replies that are looked for. *)
LEMMA KeptFacts ==
  ASSUME IInv, [Next]_vars, Unrepeated'
  PROVE  /\ seq \in [Slot -> Int] /\ flag \in [Slot -> {0, 1}] /\ begin \in [Slot -> Nat]
         /\ tries \in Nat /\ sent \in Nat /\ first \in Nat /\ Slot = 0 .. N - 1
         /\ \A r \in wire \cup {msg} : r.seq \in Nat /\ r.first \in Nat /\ r.first <= tries
         /\ \A r \in Outstanding : r.seq \in Nat /\ r.seq < sent /\ Keeps(r)
         /\ \A r \in wire : Slotted(r, 0)
         /\ rpc \in {"scan", "clear", "rtt"} => found \in Slot
         /\ rpc = "scan" => Slotted(msg, found) /\ (msg.seq = 0 => found = 0)
         /\ rpc = "clear" => flag[found] = 1 /\ seq[found] = msg.seq
         /\ rpc \in {"clear", "rtt"} => begin[found] >= msg.first
<1>1. Unrepeated
  BY UnrepeatedBefore DEF IInv
<1>2. Shorts \subseteq Int /\ 0..MaxTries \subseteq Nat /\ Slot = 0 .. N - 1
  BY Sizes DEF Shorts, Slot
<1>3. seq \in [Slot -> Int] /\ flag \in [Slot -> {0, 1}] /\ begin \in [Slot -> Nat]
  BY <1>2 DEF IInv, TypeOK
<1>4. /\ tries \in Nat /\ sent \in Nat /\ first \in Nat
      /\ (rpc \in {"scan", "clear", "rtt"} => found \in Slot)
      /\ \A r \in wire \cup {msg} : r.seq \in Nat /\ r.first \in Nat
  BY Sizes DEF IInv, TypeOK, Reply
<1>5. \A r \in wire \cup {msg} : r.first <= tries
  BY DEF IInv, InTime
<1>6. \A r \in Outstanding : r.seq \in Nat /\ r.seq < sent
  BY <1>1, <1>4 DEF IInv, Distinct, Outstanding, InHand
<1> QED
  BY <1>1, <1>2, <1>3, <1>4, <1>5, <1>6 DEF IInv, Kept

(* A step that leaves the slots alone and brings no reply.                 *)
LEMMA IdleKeeps ==
  ASSUME IInv, [Next]_vars, UNCHANGED slots, wire' \subseteq wire,
         UNCHANGED <<rpc, msg, found>> \/ rpc' \notin {"scan", "clear", "rtt"}
  PROVE  Kept'
<1> SUFFICES ASSUME Unrepeated'
             PROVE  Kept'
  BY DEF Kept
<1> QED
  BY KeptFacts DEF Kept, Keeps, Slotted, Outstanding, slots

(* A slot that gets a new number was no reply's.                           *)
LEMMA MarkSeqKeeps ==
  ASSUME IInv, [Next]_vars, MarkSeq
  PROVE  Kept'
<1> SUFFICES ASSUME Unrepeated'
             PROVE  Kept'
  BY DEF Kept
<1>0. /\ packet \in Slot /\ flag[packet] = 0 /\ seq' = [seq EXCEPT ![packet] = packetSend]
      /\ UNCHANGED <<flag, begin, wire, rpc, msg, found>>
  BY DEF MarkSeq, IInv, TypeOK, Placed, receiver, network
<1>1. packetSend \in Int /\ (packetSend >= 0 => packetSend = 0 \/ packetSend = sent)
  BY NewNumber, UnrepeatedBefore DEF IInv, MarkSeq, Tries
<1>2. /\ \A s \in Slot : s # packet => seq'[s] = seq[s]
      /\ seq'[packet] = packetSend
  BY <1>0, KeptFacts
<1>3. \A r \in Outstanding : Keeps(r)'
  <2> SUFFICES ASSUME NEW r \in Outstanding
               PROVE  Keeps(r)'
    OBVIOUS
  <2>1. r.seq \in Nat /\ r.seq < sent /\ Keeps(r) /\ sent \in Nat
    BY KeptFacts
  <2>2. r.seq # 0 => packetSend # r.seq
    BY <1>1, <2>1
  <2> QED
    BY <1>0, <1>2, <2>1, <2>2, Sizes DEF Keeps
<1>4. Outstanding' = Outstanding
  BY <1>0 DEF Outstanding
<1>5. ASSUME NEW r \in Outstanding, NEW i \in Slot, Slotted(r, i)
      PROVE  Slotted(r, i)'
  <2>1. ASSUME NEW s \in i .. N - 1, seq[s] = r.seq, r.seq # 0
        PROVE  s \in Slot /\ seq'[s] = r.seq
    <3>1. s \in Slot
      BY KeptFacts, Sizes
    <3>2. flag[s] = 1
      BY <2>1, <3>1, KeptFacts DEF Keeps
    <3> QED
      BY <1>0, <1>2, <2>1, <3>1, <3>2
  <2> QED
    BY <1>5, <2>1 DEF Slotted
<1>6. \A r \in wire : Slotted(r, 0)'
  BY <1>5, KeptFacts, Sizes DEF Outstanding
<1>7. rpc = "scan" => Slotted(msg, found)' /\ (msg.seq = 0 => found = 0)
  BY <1>0, <1>5, KeptFacts DEF Outstanding
<1>8. rpc = "clear" => seq'[found] = msg.seq
  BY <1>0, <1>2, KeptFacts
<1> QED
  BY <1>0, <1>3, <1>4, <1>6, <1>7, <1>8, KeptFacts DEF Kept, Slotted

(* Marking a slot as used takes none from a reply.                         *)
LEMMA MarkFlagKeeps ==
  ASSUME IInv, [Next]_vars, MarkFlag
  PROVE  Kept'
<1> SUFFICES ASSUME Unrepeated'
             PROVE  Kept'
  BY DEF Kept
<1>0. /\ packet \in Slot /\ flag' = [flag EXCEPT ![packet] = 1]
      /\ UNCHANGED <<seq, begin, wire, rpc, msg, found>>
  BY DEF MarkFlag, IInv, TypeOK, receiver, network
<1>1. \A s \in Slot : flag[s] = 1 => flag'[s] = 1
  BY <1>0, KeptFacts
<1>2. ASSUME NEW r, Keeps(r)
      PROVE  Keeps(r)'
  BY <1>0, <1>1, <1>2, Sizes DEF Keeps
<1>3. ASSUME NEW r, NEW i, Slotted(r, i)
      PROVE  Slotted(r, i)'
  BY <1>0, <1>3 DEF Slotted
<1> QED
  BY <1>0, <1>1, <1>2, <1>3, KeptFacts DEF Kept, Outstanding

(* A time taken again is only later.                                       *)
LEMMA MarkTimeKeeps ==
  ASSUME IInv, [Next]_vars, MarkTime
  PROVE  Kept'
<1> SUFFICES ASSUME Unrepeated'
             PROVE  Kept'
  BY DEF Kept
<1>0. /\ packet \in Slot /\ begin' = [begin EXCEPT ![packet] = tries + 1]
      /\ UNCHANGED <<seq, flag, wire, rpc, msg, found>>
  BY DEF MarkTime, IInv, TypeOK, receiver, network
<1>1. \A s \in Slot : begin'[s] \in Nat /\ begin'[s] >= begin[s]
  <2>1. \A s \in Slot : begin[s] <= tries + 1
    BY DEF IInv, InTime
  <2> QED
    BY <1>0, <2>1, KeptFacts
<1>2. ASSUME NEW r \in Outstanding, Keeps(r)
      PROVE  Keeps(r)'
  <2>1. r.first \in Nat
    BY KeptFacts DEF Outstanding
  <2>2. \A s \in Slot : begin[s] >= r.first => begin'[s] >= r.first
    BY <1>1, <2>1, KeptFacts
  <2>3. 0 \in Slot
    BY Sizes
  <2> QED
    BY <1>0, <1>2, <2>2, <2>3 DEF Keeps
<1>3. ASSUME NEW r, NEW i, Slotted(r, i)
      PROVE  Slotted(r, i)'
  BY <1>0, <1>3 DEF Slotted
<1>4. rpc \in {"clear", "rtt"} => begin'[found] >= msg.first
  BY <1>1, KeptFacts
<1> QED
  BY <1>0, <1>2, <1>3, <1>4, KeptFacts DEF Kept, Outstanding

(* The new packet's reply has its slots, and its slot if it got one.       *)
LEMMA SendToKeeps ==
  ASSUME IInv, [Next]_vars, SendTo
  PROVE  Kept'
<1> SUFFICES ASSUME Unrepeated'
             PROVE  Kept'
  BY DEF Kept
<1> DEFINE new == [seq |-> Unsigned(packetSend), kept |-> packet # None, first |-> first, at |-> tries + 1]
<1>0. /\ wire' = wire \cup {new}
      /\ new.seq = Unsigned(packetSend) /\ new.kept = (packet # None) /\ new.first = first
      /\ spc = "sendto" /\ UNCHANGED <<seq, flag, begin, rpc, msg, found>>
  BY DEF SendTo, slots, receiver
<1> HIDE DEF new
<1>1. Unrepeated /\ sent \in Nat /\ new.seq = sent /\ (sent < Half => packetSend = sent)
  BY <1>0, NewNumber, UnrepeatedBefore DEF IInv, Tries
<1>2. Keeps(new)
  <2>1. CASE sent = 0
    <3>1. FirstKept
      BY <1>1, <2>1 DEF IInv, CurrentKept
    <3> QED
      BY <1>0, <1>1, <2>1, <3>1, Sizes DEF Keeps, FirstKept
  <2>2. CASE sent # 0
    <3>1. \A s \in Slot : seq[s] = sent => Marked(s)
      BY <1>0, <1>1, <2>2 DEF IInv, CurrentKept
    <3> QED
      BY <1>0, <1>1, <2>2, <3>1 DEF Keeps, Marked
  <2> QED
    BY <2>1, <2>2
<1>3. Slotted(new, 0)
  <2>1. packet # None => packet \in 0 .. N - 1 /\ seq[packet] = packetSend
    BY <1>0, KeptFacts DEF IInv, Placed, TypeOK
  <2> QED
    BY <1>0, <1>1, <2>1 DEF Slotted
<1>4. ASSUME NEW r, Keeps(r)
      PROVE  Keeps(r)'
  BY <1>0, <1>4 DEF Keeps
<1>5. ASSUME NEW r, NEW i, Slotted(r, i)
      PROVE  Slotted(r, i)'
  BY <1>0, <1>5 DEF Slotted
<1> QED
  BY <1>0, <1>2, <1>3, <1>4, <1>5, KeptFacts DEF Kept, Outstanding

(* The reply received is looked for from the first slot on.                *)
LEMMA RecvKeeps ==
  ASSUME IInv, [Next]_vars, Recv
  PROVE  Kept'
<1> SUFFICES ASSUME Unrepeated'
             PROVE  Kept'
  BY DEF Kept
<1>0. /\ msg' \in wire /\ wire' \subseteq wire /\ found' = 0 /\ rpc' = "scan"
      /\ UNCHANGED <<seq, flag, begin>>
  BY DEF Recv, slots, IInv, Placed
<1>1. Outstanding' \subseteq wire /\ wire \subseteq Outstanding
  BY <1>0 DEF Outstanding
<1>2. ASSUME NEW r, Keeps(r)
      PROVE  Keeps(r)'
  BY <1>0, <1>2 DEF Keeps
<1>3. ASSUME NEW r \in wire
      PROVE  Slotted(r, 0)'
  BY <1>0, KeptFacts DEF Slotted
<1>4. Slotted(msg, found)'
  BY <1>0, <1>3 DEF Slotted
<1> QED
  BY <1>0, <1>1, <1>2, <1>3, <1>4, KeptFacts DEF Kept

(* The slot found is the reply's; the slots passed are not.                *)
LEMMA FindSeqKeeps ==
  ASSUME IInv, [Next]_vars, FindSeq
  PROVE  Kept'
<1> SUFFICES ASSUME Unrepeated'
             PROVE  Kept'
  BY DEF Kept
<1>0. rpc = "scan" /\ found \in Slot /\ UNCHANGED <<seq, flag, begin, wire, msg>> /\ msg \in Outstanding
  BY KeptFacts DEF FindSeq, slots, network, Outstanding
<1>k. Keeps(msg) /\ Slotted(msg, found) /\ (msg.seq = 0 => found = 0)
  BY <1>0, KeptFacts
<1>1. CASE seq[found] = msg.seq
  <2>1. rpc' = "clear" /\ found' = found
    BY <1>1 DEF FindSeq
  <2>2. flag[found] = 1 /\ begin[found] >= msg.first
    BY <1>0, <1>1, <1>k DEF Keeps
  <2> QED
    BY <1>0, <1>1, <2>1, <2>2, KeptFacts DEF Kept, Outstanding, Keeps, Slotted
<1>2. CASE seq[found] # msg.seq
  <2>1. found' = found + 1 /\ rpc' \in {"test", "scan"} /\ msg.seq # 0
    BY <1>0, <1>2, <1>k DEF FindSeq, Keeps
  <2>2. Slotted(msg, found + 1)
    <3>1. ASSUME NEW s \in found .. N - 1, seq[s] = msg.seq
          PROVE  s \in found + 1 .. N - 1
      BY <1>0, <1>2, <3>1, KeptFacts, Sizes
    <3> QED
      BY <1>k, <3>1 DEF Slotted
  <2>3. Slotted(msg, found)'
    BY <1>0, <2>1, <2>2 DEF Slotted
  <2>4. Outstanding' \subseteq Outstanding
    BY <1>0 DEF Outstanding
  <2>5. \A r \in Outstanding : Keeps(r)'
    BY <1>0, KeptFacts DEF Keeps
  <2>6. \A r \in wire' : Slotted(r, 0)'
    BY <1>0, KeptFacts DEF Slotted
  <2> QED
    BY <1>0, <2>1, <2>3, <2>4, <2>5, <2>6 DEF Kept
<1> QED
  BY <1>1, <1>2

(* The slot freed belongs to no other reply.                               *)
LEMMA ClearFlagKeeps ==
  ASSUME IInv, [Next]_vars, ClearFlag
  PROVE  Kept'
<1> SUFFICES ASSUME Unrepeated'
             PROVE  Kept'
  BY DEF Kept
<1>0. /\ found \in Slot /\ flag' = [flag EXCEPT ![found] = 0] /\ rpc = "clear" /\ rpc' = "rtt"
      /\ UNCHANGED <<seq, begin, wire, msg, found>> /\ seq[found] = msg.seq /\ begin[found] >= msg.first
  BY KeptFacts DEF ClearFlag, network
<1>1. \A s \in Slot : s # found => flag'[s] = flag[s]
  BY <1>0, KeptFacts
<1>2. \A r \in wire : r.seq # msg.seq /\ Keeps(r)
  <2>1. Distinct /\ Unrepeated /\ wire \subseteq Outstanding
    BY UnrepeatedBefore DEF IInv, Outstanding
  <2> QED
    BY <1>0, <2>1, KeptFacts DEF Distinct, InHand
<1>3. ASSUME NEW r \in wire
      PROVE  Keeps(r)'
  BY <1>0, <1>1, <1>2, Sizes DEF Keeps
<1>4. \A r \in wire : Slotted(r, 0)'
  BY <1>0, KeptFacts DEF Slotted
<1> QED
  BY <1>0, <1>3, <1>4 DEF Kept, Outstanding

(* No step takes its slots from a reply that is looked for.                *)
LEMMA StepKeepsKept ==
  ASSUME IInv, [Next]_vars
  PROVE  Kept'
<1>1. CASE MarkSeq \/ MarkFlag \/ MarkTime \/ SendTo \/ Recv \/ FindSeq \/ ClearFlag
  BY <1>1, MarkSeqKeeps, MarkFlagKeeps, MarkTimeKeeps, SendToKeeps, RecvKeeps, FindSeqKeeps,
     ClearFlagKeeps
<1>2. CASE ~(MarkSeq \/ MarkFlag \/ MarkTime \/ SendTo \/ Recv \/ FindSeq \/ ClearFlag)
  <2>1. /\ UNCHANGED slots /\ wire' \subseteq wire
        /\ UNCHANGED <<rpc, msg, found>> \/ rpc' \notin {"scan", "clear", "rtt"}
    BY <1>2 DEF Next, Finished, Main, SetAlive, CreateSend, CreateRecv, Statistics, JoinMissing, Send, Begin,
         TestSend, FindFree, SendToFails, CountSent, Receive, TestRecv, Timeout,
         CountReply, Lose, SigintEnds, Sigint, vars, slots, receiver, network
  <2> QED
    BY <2>1, IdleKeeps
<1> QED
  BY <1>1, <1>2

(* What the invariant says of the packet being sent.                       *)
LEMMA CurrentFacts ==
  ASSUME IInv, [Next]_vars, Unrepeated'
  PROVE  /\ \A s \in Slot : seq[s] <= Number
         /\ sent = 0 => FirstKept
         /\ sent # 0 /\ spc # "count" => \A s \in Slot : seq[s] = sent => Marked(s)
         /\ spc \in {"scan", "seq", "flag", "time"} => packet \in Slot
  BY UnrepeatedBefore DEF IInv, CurrentKept, TypeOK

(* A step that leaves the slots alone and is not about sending one packet. *)
LEMMA IdleCurrent ==
  ASSUME IInv, [Next]_vars, UNCHANGED <<slots, first, sent, tries>>,
         \/ UNCHANGED <<spc, packet>>
         \/ spc = "off" /\ spc' = "begin" /\ UNCHANGED packet
         \/ Begin \/ TestSend \/ FindFree
  PROVE  CurrentKept'
<1> SUFFICES ASSUME Unrepeated'
             PROVE  CurrentKept'
  BY DEF CurrentKept
<1>0. UNCHANGED <<seq, flag, begin, first, sent, tries>>
  BY DEF slots
<1>1. Number' = Number
  BY <1>0 DEF Number, Begin, TestSend, FindFree
<1>2. CASE UNCHANGED <<spc, packet>>
  BY <1>0, <1>1, <1>2, CurrentFacts DEF CurrentKept, FirstKept, Marked
<1>3. CASE spc = "off" /\ spc' = "begin" /\ UNCHANGED packet
  BY <1>0, <1>1, <1>3, CurrentFacts DEF CurrentKept, FirstKept, Marked
<1>4. CASE Begin \/ TestSend \/ FindFree
  <2>1. spc \notin {"flag", "time"} /\ spc # "count"
    BY <1>4 DEF Begin, TestSend, FindFree
  <2>2. ASSUME sent = 0
        PROVE  FirstKept'
    <3>1. FirstKept
      BY <2>2, CurrentFacts
    <3>2. CASE Begin \/ TestSend
      BY <1>0, <2>1, <3>1, <3>2 DEF FirstKept, Begin, TestSend
    <3>3. CASE FindFree
      BY <1>0, <2>1, <3>1, <3>3 DEF FirstKept, FindFree
    <3> QED
      BY <1>4, <3>2, <3>3
  <2>3. \A s \in Slot : Marked(s) => Marked(s)'
    BY <1>0, <2>1 DEF Marked
  <2> QED
    BY <1>0, <1>1, <2>1, <2>2, <2>3, CurrentFacts DEF CurrentKept
<1> QED
  BY <1>2, <1>3, <1>4

(* No step takes its slots from the packet that is being sent.             *)
LEMMA StepKeepsCurrent ==
  ASSUME IInv, [Next]_vars
  PROVE  CurrentKept'
<1> SUFFICES ASSUME Unrepeated'
             PROVE  CurrentKept'
  BY DEF CurrentKept
<1>s. Slot = 0 .. N - 1 /\ 0 \in Slot
  BY Sizes DEF Slot
<1>1. CASE MarkSeq
  <2>1. /\ spc = "seq" /\ spc' = "flag" /\ seq' = [seq EXCEPT ![packet] = packetSend]
        /\ UNCHANGED <<flag, begin, packet, sent, first, tries>> /\ packet \in Slot
    BY <1>1, CurrentFacts DEF MarkSeq
  <2>2. packetSend \in Int /\ packetSend <= sent /\ (sent = 0 => packetSend = 0) /\ Number = sent /\ Number' = sent
    BY <2>1, NewNumber, UnrepeatedBefore, Sizes DEF IInv, Number, Tries
  <2>3. \A s \in Slot : seq'[s] = IF s = packet THEN packetSend ELSE seq[s]
    BY <2>1, KeptFacts
  <2>4. \A s \in Slot : seq'[s] <= Number'
    BY <2>2, <2>3, CurrentFacts
  <2>5. sent = 0 => FirstKept'
    BY <2>1, <2>2, <2>3, CurrentFacts DEF FirstKept
  <2>6. sent # 0 => \A s \in Slot : seq'[s] = sent => Marked(s)'
    BY <2>1, <2>3, CurrentFacts DEF Marked
  <2> QED
    BY <2>1, <2>4, <2>5, <2>6 DEF CurrentKept
<1>2. CASE MarkFlag
  <2>1. /\ spc = "flag" /\ spc' = "time" /\ flag' = [flag EXCEPT ![packet] = 1]
        /\ UNCHANGED <<seq, begin, packet, sent, first, tries>> /\ packet \in Slot
    BY <1>2, CurrentFacts DEF MarkFlag
  <2>2. \A s \in Slot : flag'[s] = IF s = packet THEN 1 ELSE flag[s]
    BY <2>1, KeptFacts
  <2>3. Number' = Number
    BY <2>1 DEF Number
  <2>4. sent = 0 => FirstKept'
    BY <1>s, <2>1, <2>2, CurrentFacts DEF FirstKept
  <2>5. sent # 0 => \A s \in Slot : seq'[s] = sent => Marked(s)'
    BY <2>1, <2>2, CurrentFacts DEF Marked
  <2> QED
    BY <2>1, <2>3, <2>4, <2>5, CurrentFacts DEF CurrentKept
<1>3. CASE MarkTime
  <2>1. /\ spc = "time" /\ spc' = "sendto" /\ begin' = [begin EXCEPT ![packet] = tries + 1]
        /\ UNCHANGED <<seq, flag, packet, sent, first, tries>> /\ packet \in Slot
    BY <1>3, CurrentFacts DEF MarkTime
  <2>2. \A s \in Slot : begin'[s] = IF s = packet THEN tries + 1 ELSE begin[s]
    BY <2>1, KeptFacts
  <2>3. Number' = Number /\ tries + 1 >= first
    BY <2>1, KeptFacts DEF Number, IInv, InTime
  <2>4. sent = 0 => FirstKept'
    BY <1>s, <2>1, <2>2, <2>3, CurrentFacts DEF FirstKept
  <2>5. sent # 0 => \A s \in Slot : seq'[s] = sent => Marked(s)'
    BY <2>1, <2>2, <2>3, CurrentFacts DEF Marked
  <2> QED
    BY <2>1, <2>3, <2>4, <2>5, CurrentFacts DEF CurrentKept
<1>4. CASE SendTo
  <2>1. spc = "sendto" /\ spc' = "count" /\ sent' = sent + 1 /\ UNCHANGED seq /\ sent \in Nat
    BY <1>4, KeptFacts DEF SendTo, slots
  <2>2. Number' = Number
    BY <2>1 DEF Number
  <2> QED
    BY <2>1, <2>2, CurrentFacts DEF CurrentKept
<1>5. CASE SendToFails
  <2>1. /\ spc = "sendto" /\ spc' = "test" /\ tries' = tries + 1
        /\ UNCHANGED <<seq, flag, begin, packet, sent, first>>
    BY <1>5 DEF SendToFails, slots
  <2>2. Number' = Number
    BY <2>1 DEF Number
  <2>3. sent = 0 => FirstKept'
    BY <2>1, CurrentFacts DEF FirstKept
  <2>4. \A s \in Slot : Marked(s) => Marked(s)'
    BY <2>1 DEF Marked
  <2> QED
    BY <2>1, <2>2, <2>3, <2>4, CurrentFacts DEF CurrentKept
<1>6. CASE CountSent
  <2>1. spc = "count" /\ spc' = "test" /\ UNCHANGED <<seq, sent>> /\ sent > 0 /\ sent \in Nat
    BY <1>6, KeptFacts DEF CountSent, slots, IInv, Placed
  <2>2. Number' = sent /\ \A s \in Slot : seq[s] \in Int /\ seq[s] <= sent - 1
    BY <2>1, CurrentFacts, KeptFacts DEF Number
  <2> QED
    BY <2>1, <2>2 DEF CurrentKept
<1>7. CASE ClearFlag
  <2>1. /\ UNCHANGED <<spc, packet, first, sent, tries, seq, begin>> /\ flag' = [flag EXCEPT ![found] = 0]
        /\ found \in Slot /\ seq[found] = msg.seq
    BY <1>7, KeptFacts DEF ClearFlag, sender
  <2>2. msg.seq \in Nat /\ msg.seq < sent /\ sent \in Nat
    BY <1>7, KeptFacts, UnrepeatedBefore DEF ClearFlag, IInv, Distinct, InHand
  <2>3. \A s \in Slot : seq[s] = sent => flag'[s] = flag[s]
    BY <2>1, <2>2, KeptFacts
  <2>4. Number' = Number
    BY <2>1 DEF Number
  <2>5. sent # 0 /\ spc # "count" => \A s \in Slot : seq[s] = sent => Marked(s)'
    BY <2>1, <2>3, CurrentFacts DEF Marked
  <2> QED
    BY <2>1, <2>2, <2>4, <2>5, CurrentFacts DEF CurrentKept
<1>8. CASE Begin \/ TestSend \/ FindFree
  <2>1. UNCHANGED <<slots, first, sent, tries>>
    BY <1>8 DEF Begin, TestSend, FindFree
  <2> QED
    BY <1>8, <2>1, IdleCurrent
<1>9. CASE ~Send /\ ~ClearFlag
  <2>1. /\ UNCHANGED <<slots, first, sent, tries>>
        /\ \/ UNCHANGED <<spc, packet>>
           \/ spc = "off" /\ spc' = "begin" /\ UNCHANGED packet
    BY <1>9 DEF Next, Finished, Main, SetAlive, CreateSend, CreateRecv, Statistics, JoinMissing,
         Receive, TestRecv, Timeout, Recv, FindSeq,
         CountReply, Lose, SigintEnds, Sigint, vars, slots, sender, IInv, Placed
  <2> QED
    BY <2>1, IdleCurrent
<1> QED
  BY <1>1, <1>2, <1>3, <1>4, <1>5, <1>6, <1>7, <1>8, <1>9 DEF Send

(* No step gives up a reply whose request had a slot.                      *)
LEMMA StepKeepsCounts ==
  ASSUME IInv, [Next]_vars
  PROVE  CountedIfKept'
<1> SUFFICES ASSUME Unrepeated', rpc' = "test", found' = None, msg'.seq < Half
             PROVE  ~msg'.kept
  BY DEF CountedIfKept
<1>0. Unrepeated /\ CountedIfKept /\ NoReply.kept = FALSE /\ None # 0 /\ None \notin Slot
      /\ (rpc \in {"off", "select"} => msg = NoReply /\ found = 0)
      /\ (rpc \in {"scan", "clear", "rtt"} => found \in Slot)
  BY UnrepeatedBefore, KeptFacts, Sizes DEF IInv, NoReply, Placed
<1>1. CASE FindSeq
  <2>1. rpc = "scan" /\ msg' = msg /\ seq[found] # msg.seq /\ found + 1 = None /\ found \in Slot
        /\ msg \in Outstanding
    BY <1>0, <1>1 DEF FindSeq, Outstanding
  <2>2. Keeps(msg) /\ Slotted(msg, found) /\ (msg.seq = 0 => found = 0)
    BY <2>1, KeptFacts
  <2>3. msg.seq # 0
    BY <2>1, <2>2 DEF Keeps
  <2>4. \A s \in found .. N - 1 : s = found
    BY <2>1, KeptFacts, Sizes
  <2> QED
    BY <2>1, <2>2, <2>3, <2>4 DEF Slotted
<1>2. CASE UNCHANGED <<rpc, found, msg>>
  BY <1>0, <1>2 DEF CountedIfKept
<1>3. CASE CreateRecv
  BY <1>0, <1>3 DEF CreateRecv, IInv, Placed
<1>4. CASE Timeout \/ CountReply
  BY <1>0, <1>4 DEF Timeout, CountReply
<1> QED
  BY <1>1, <1>2, <1>3, <1>4
  DEF Next, Finished, Main, SetAlive, CreateSend, Statistics, JoinMissing, Send, Begin, TestSend,
      FindFree, MarkSeq, MarkFlag, MarkTime, SendTo, SendToFails, CountSent, Receive, TestRecv,
      Recv, ClearFlag, Lose, SigintEnds, Sigint, vars, receiver

(* No step measures from before the packet was first tried.                *)
LEMMA StepKeepsMeasures ==
  ASSUME IInv, [Next]_vars
  PROVE  NeverMeasuredFromBefore'
<1> SUFFICES ASSUME Unrepeated', rpc' = "test", found' # None
             PROVE  tvSend' >= msg'.first
  BY DEF NeverMeasuredFromBefore
<1>0. Unrepeated /\ NeverMeasuredFromBefore /\ NoReply.first = 0
      /\ (rpc \in {"off", "select"} => msg = NoReply /\ tvSend = 0)
  BY UnrepeatedBefore DEF IInv, NoReply, Placed
<1>1. CASE CountReply
  BY <1>0, <1>1, KeptFacts DEF CountReply
<1>2. CASE UNCHANGED <<rpc, found, msg, tvSend>>
  BY <1>0, <1>2 DEF NeverMeasuredFromBefore
<1>3. CASE CreateRecv
  BY <1>0, <1>3 DEF CreateRecv, IInv, Placed
<1>4. CASE Timeout
  BY <1>0, <1>4 DEF Timeout
<1> QED
  BY <1>1, <1>2, <1>3, <1>4
  DEF Next, Finished, Main, SetAlive, CreateSend, Statistics, JoinMissing, Send, Begin, TestSend,
      FindFree, MarkSeq, MarkFlag, MarkTime, SendTo, SendToFails, CountSent, Receive, TestRecv,
      Recv, FindSeq, ClearFlag, Lose, SigintEnds, Sigint, vars, receiver

(* The invariant holds in every reachable state.                           *)
LEMMA Invariance == Spec => []IInv
<1>1. IInv /\ [Next]_vars => IInv'
  <2> SUFFICES ASSUME IInv, [Next]_vars
               PROVE  IInv'
    OBVIOUS
  <2>1. TypeOK /\ Placed /\ InTime /\ Ending /\ Numbered /\ Counted /\ Distinct
    BY DEF IInv
  <2>2. TypeOK' /\ Placed' /\ InTime' /\ Ending'
    BY <2>1, StepKeepsTypes, StepKeepsPlaced, StepKeepsInTime, StepKeepsEnding
  <2>3. Numbered' /\ Counted' /\ Distinct'
    BY <2>1, StepKeepsNumbered, StepKeepsCounted, StepKeepsDistinct
  <2>4. Kept' /\ CurrentKept' /\ CountedIfKept' /\ NeverMeasuredFromBefore'
    BY StepKeepsKept, StepKeepsCurrent, StepKeepsCounts, StepKeepsMeasures
  <2> QED
    BY <2>2, <2>3, <2>4 DEF IInv
<1> QED
  BY <1>1, StartsRight, PTL DEF Spec

-----------------------------------------------------------------------------
(* Every variable keeps its type: no slot outside pingpacket[] is read or  *)
(* written, for any number of slots, packets and signals and any width of  *)
(* a short.                                                                *)
THEOREM PingTypes == Spec => []TypeOK
<1>1. IInv => TypeOK
  BY DEF IInv
<1> QED
  BY <1>1, Invariance, PTL

(* However the two threads interleave, a reply to a request that had a     *)
(* slot is counted until packet_send turns negative: for any number of     *)
(* slots and any losses and failures.                                      *)
THEOREM RepliesCounted == Spec => []CountedIfKept
<1>1. IInv => CountedIfKept
  BY DEF IInv
<1> QED
  BY <1>1, Invariance, PTL

(* And its round trip is never measured from before the packet was first   *)
(* tried.                                                                  *)
THEOREM TimesRight == Spec => []NeverMeasuredFromBefore
<1>1. IInv => NeverMeasuredFromBefore
  BY DEF IInv
<1> QED
  BY <1>1, Invariance, PTL

(* The statistics are taken over a time that both ends were set for, the   *)
(* loss is between 0 and 100 percent, and the division by zero comes only  *)
(* when nothing was sent or the count is zero again.                       *)
THEOREM StatisticsRight == Spec => []FiguresRight
<1>1. IInv => FiguresRight
  <2> SUFFICES ASSUME IInv
               PROVE  FiguresRight
    OBVIOUS
  <2>0. TypeOK /\ Placed /\ Ending /\ Numbered /\ Counted
    BY DEF IInv
  <2>1. sent \in Nat /\ sent <= tries /\ packetSend \in Int /\ packetRecv \in Int
        /\ (mpc \in {"printed", "crashed"} =>
              Number = sent /\ spc \in {"off", "ended"} /\ rpc \in {"off", "ended"})
    BY <2>0 DEF TypeOK, Shorts, Ending, Number
  <2>2. PICK k \in Int : Number = packetSend + Modulus * k
    BY <2>0 DEF Numbered
  <2>3. mpc = "crashed" => sent % Modulus = 0
    <3>1. mpc = "crashed" => sent = Modulus * k
      BY <2>0, <2>1, <2>2, Sizes DEF Ending
    <3>2. (Modulus * k) % Modulus = 0
      BY <2>2, Sizes, ModMultiple
    <3> QED
      BY <3>1, <3>2
  <2>4. ASSUME mpc = "printed", sent < Half, ~doubled
        PROVE  packetRecv \in 0..packetSend
    <3>1. packetRecv >= 0 /\ packetRecv <= sent
      BY <2>0, <2>1, <2>4, FS_CardinalityType DEF Counted, InHand
    <3>2. packetSend = sent
      <4>1. packetSend \in -Half .. Half - 1
        BY <2>0 DEF TypeOK, Shorts
      <4>2. k = 0
        BY <2>1, <2>2, <2>4, <4>1, Sizes
      <4> QED
        BY <2>1, <2>2, <2>4, <4>2, Sizes
    <3> QED
      BY <2>1, <3>1, <3>2
  <2>5. mpc = "printed" => tvInterval = "right"
    <3>1. sent = 0 /\ mpc = "printed" => packetSend = 0
      <4>1. packetSend \in -Half .. Half - 1
        BY <2>0 DEF TypeOK, Shorts
      <4>2. sent = 0 /\ mpc = "printed" => k = 0
        BY <2>1, <2>2, <4>1, Sizes
      <4> QED
        BY <2>1, <2>2, <4>2, Sizes
    <3>2. spc = "off" => sent = 0
      BY <2>0, <2>1, Sizes DEF Placed, TypeOK
    <3> QED
      BY <2>0, <2>1, <3>1, <3>2 DEF Ending
  <2> QED
    BY <2>3, <2>4, <2>5 DEF FiguresRight
<1> QED
  BY <1>1, Invariance, PTL
=============================================================================
