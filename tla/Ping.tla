-------------------------------- MODULE Ping --------------------------------
(***************************************************************************)
(* ping/ping.c: a thread sends echo requests, one counts the replies, and  *)
(* both use the slots of pingpacket[] without a lock; SIGINT, handled by   *)
(* any of the three threads, ends them.  Every access to shared memory is  *)
(* a step.  A time is the number of the sendto() it was taken for.         *)
(***************************************************************************)
EXTENDS Integers, FiniteSets

CONSTANTS
  N,           \* the slots of pingpacket[] (128 in the code)
  Half,        \* half the numbers of a short (2^15)
  Faults,      \* what goes wrong: "thread", "send", "lose", "duplicate"
  MaxTries,    \* bound: the calls of sendto()
  MaxSignals   \* bound: the SIGINTs

ASSUME PingAssumption ==
  /\ N \in Nat \ {0} /\ Half \in Nat \ {0}
  /\ MaxTries \in Nat /\ MaxSignals \in Nat
  /\ Faults \subseteq {"thread", "send", "lose", "duplicate"}

Modulus == 2 * Half
Unsigned(n) == n % Modulus
Short(n) == ((n + Half) % Modulus) - Half
Shorts == -Half .. Half - 1

Slot == 0 .. N - 1
None == N    \* no slot is free, none matches
Threads == {"main", "send", "recv"}

VARIABLES
  seq, flag, begin,           \* the fields of pingpacket[]
  packetSend, packetRecv, alive,
  tvBegin, tvInterval,        \* tv_begin is set; what tv_interval is
  mpc,                        \* main()
  spc, packet,                \* icmp_send(): where it is; its packet
  rpc, msg, found, tvSend,    \* icmp_recv(): where it is, what it received,
                              \*   the packet and tv_send in icmp_unpack()
  handler,                    \* the thread in icmp_sigint(), or "none"
  wire,                       \* the replies on their way or in the socket:
                              \*   was the request in a slot (kept), when was
                              \*   it first tried, when sent (at)
  tries, sent, signals,       \* how often sendto() was called, and succeeded;
                              \*   how many SIGINTs came
  first,                      \* the first try to send the current packet
  doubled                     \* the network delivered a reply twice

vars == <<seq, flag, begin, packetSend, packetRecv, alive, tvBegin, tvInterval,
          mpc, spc, packet, rpc, msg, found, tvSend, handler, wire, tries, sent,
          signals, first, doubled>>

slots == <<seq, flag, begin>>
sender == <<packetSend, tvBegin, spc, packet, tries, sent, first>>
receiver == <<packetRecv, rpc, msg, found, tvSend>>
signal == <<alive, tvInterval, handler, signals>>
network == <<wire, doubled>>

(* A thread in the handler does nothing else; a fault ends all of them.    *)
Running(t) == handler # t /\ mpc # "faulted"

NoReply == [seq |-> 0, kept |-> FALSE, first |-> 0, at |-> 0]

-----------------------------------------------------------------------------
(* main() after signal(SIGINT, icmp_sigint).                               *)
SetAlive ==
  /\ mpc = "start" /\ Running("main")
  /\ alive' = TRUE
  /\ mpc' = "create"
  /\ UNCHANGED <<slots, sender, receiver, tvInterval, handler, signals, network>>

(* pthread_create() returns a positive number when it fails, which err<0   *)
(* does not see: main() goes on without the thread.                        *)
CreateSend ==
  /\ mpc = "create" /\ Running("main")
  /\ spc' = "begin" \/ ("thread" \in Faults /\ UNCHANGED spc)
  /\ mpc' = "create2"
  /\ UNCHANGED <<slots, packetSend, tvBegin, packet, tries, sent, first,
                 receiver, signal, network>>

CreateRecv ==
  /\ mpc = "create2" /\ Running("main")
  /\ rpc' = "test" \/ ("thread" \in Faults /\ UNCHANGED rpc)
  /\ mpc' = "join"
  /\ UNCHANGED <<slots, sender, packetRecv, msg, found, tvSend, signal, network>>

(* Slip: only the sender is waited for.                                    *)
StatisticsEarly ==
  /\ mpc = "join" /\ Running("main")
  /\ spc \in {"ended", "off"}
  /\ mpc' = IF packetSend = 0 THEN "crashed" ELSE "printed"
  /\ UNCHANGED <<slots, sender, receiver, signal, network>>

(* Both joins, and icmp_statistics(), which divides by packet_send.  The   *)
(* join of a thread that is not there may return at once ...               *)
Statistics ==
  /\ mpc = "join" /\ Running("main")
  /\ spc \in {"ended", "off"} /\ rpc \in {"ended", "off"}
  /\ mpc' = IF packetSend = 0 THEN "crashed" ELSE "printed"
  /\ UNCHANGED <<slots, sender, receiver, signal, network>>

(* ... or, with an id that was never set, end the process with a fault, or *)
(* wait for ever.                                                          *)
JoinMissing ==
  /\ mpc = "join" /\ Running("main")
  /\ spc = "off" \/ (spc = "ended" /\ rpc = "off")
  /\ mpc' \in {"faulted", "stuck"}
  /\ UNCHANGED <<slots, sender, receiver, signal, network>>

-----------------------------------------------------------------------------
Begin ==
  /\ spc = "begin" /\ Running("send")
  /\ tvBegin' = TRUE
  /\ spc' = "test"
  /\ UNCHANGED <<slots, packetSend, packet, tries, sent, first,
                 receiver, signal, mpc, network>>

TestSend ==
  /\ spc = "test" /\ Running("send")
  /\ IF alive THEN tries < MaxTries /\ spc' = "scan" /\ packet' = 0
              ELSE spc' = "ended" /\ UNCHANGED packet
  /\ UNCHANGED <<slots, packetSend, tvBegin, tries, sent, first,
                 receiver, signal, mpc, network>>

(* icmp_findpacket(-1), one slot at a step.                                *)
FindFree ==
  /\ spc = "scan" /\ Running("send")
  /\ IF flag[packet] = 0 THEN spc' = "seq" /\ UNCHANGED packet
     ELSE /\ packet' = packet + 1
          /\ spc' = IF packet + 1 = None THEN "sendto" ELSE "scan"
  /\ UNCHANGED <<slots, packetSend, tvBegin, tries, sent, first,
                 receiver, signal, mpc, network>>

MarkSeq ==
  /\ spc = "seq" /\ Running("send")
  /\ seq' = [seq EXCEPT ![packet] = packetSend]
  /\ spc' = "flag"
  /\ UNCHANGED <<flag, begin, packetSend, tvBegin, packet, tries, sent, first,
                 receiver, signal, mpc, network>>

(* Slip: the slot is not marked as used.                                   *)
MarkFlagForgotten ==
  /\ spc = "flag" /\ Running("send")
  /\ spc' = "time"
  /\ UNCHANGED <<slots, packetSend, tvBegin, packet, tries, sent, first,
                 receiver, signal, mpc, network>>

MarkFlag ==
  /\ spc = "flag" /\ Running("send")
  /\ flag' = [flag EXCEPT ![packet] = 1]
  /\ spc' = "time"
  /\ UNCHANGED <<seq, begin, packetSend, tvBegin, packet, tries, sent, first,
                 receiver, signal, mpc, network>>

(* Slip: the time is taken only for a slot that has none.                  *)
MarkTimeOnce ==
  /\ spc = "time" /\ Running("send")
  /\ begin' = [begin EXCEPT ![packet] = IF @ = 0 THEN tries + 1 ELSE @]
  /\ spc' = "sendto"
  /\ UNCHANGED <<seq, flag, packetSend, tvBegin, packet, tries, sent, first,
                 receiver, signal, mpc, network>>

MarkTime ==
  /\ spc = "time" /\ Running("send")
  /\ begin' = [begin EXCEPT ![packet] = tries + 1]
  /\ spc' = "sendto"
  /\ UNCHANGED <<seq, flag, packetSend, tvBegin, packet, tries, sent, first,
                 receiver, signal, mpc, network>>

SendTo ==
  /\ spc = "sendto" /\ Running("send")
  /\ tries' = tries + 1
  /\ sent' = sent + 1
  /\ wire' = wire \cup {[seq |-> Unsigned(packetSend), kept |-> packet # None,
                         first |-> first, at |-> tries + 1]}
  /\ spc' = "count"
  /\ UNCHANGED <<slots, packetSend, tvBegin, packet, first,
                 receiver, signal, mpc, doubled>>

(* continue: the packet is tried again, in another slot.                   *)
SendToFails ==
  /\ spc = "sendto" /\ Running("send")
  /\ "send" \in Faults
  /\ tries' = tries + 1
  /\ spc' = "test"
  /\ UNCHANGED <<slots, packetSend, tvBegin, packet, sent, first,
                 receiver, signal, mpc, network>>

(* packet_send++; sleep(1);                                                *)
CountSent ==
  /\ spc = "count" /\ Running("send")
  /\ packetSend' = Short(packetSend + 1)
  /\ first' = tries + 1
  /\ spc' = "test"
  /\ UNCHANGED <<slots, tvBegin, packet, tries, sent,
                 receiver, signal, mpc, network>>

-----------------------------------------------------------------------------
(* The locals of icmp_unpack() and the buffer are forgotten.               *)
Forget == msg' = NoReply /\ found' = 0 /\ tvSend' = 0

(* Slip: while(1).                                                         *)
TestRecvNot ==
  /\ rpc = "test" /\ Running("recv")
  /\ rpc' = "select"
  /\ Forget
  /\ UNCHANGED <<slots, sender, packetRecv, signal, mpc, network>>

TestRecv ==
  /\ rpc = "test" /\ Running("recv")
  /\ rpc' = IF alive THEN "select" ELSE "ended"
  /\ Forget
  /\ UNCHANGED <<slots, sender, packetRecv, signal, mpc, network>>

(* select() times out, or a signal interrupts it.                          *)
Timeout ==
  /\ rpc = "select" /\ Running("recv")
  /\ rpc' = "test"
  /\ UNCHANGED <<slots, sender, packetRecv, msg, found, tvSend, signal, mpc, network>>

(* A reply to one of this process's requests; the network may deliver one  *)
(* of them again (bound: one).                                             *)
Recv ==
  /\ rpc = "select" /\ Running("recv")
  /\ \E r \in wire :
       /\ msg' = r
       /\ \/ wire' = wire \ {r} /\ UNCHANGED doubled
          \/ "duplicate" \in Faults /\ ~doubled /\ doubled' = TRUE /\ UNCHANGED wire
  /\ rpc' = "scan"
  /\ UNCHANGED <<slots, sender, packetRecv, found, tvSend, signal, mpc>>

(* Slip: i <= 128.                                                         *)
FindSeqOver ==
  /\ rpc = "scan" /\ Running("recv")
  /\ IF seq[found] = msg.seq THEN rpc' = "clear" /\ UNCHANGED found
     ELSE found' = found + 1 /\ UNCHANGED rpc
  /\ UNCHANGED <<slots, sender, packetRecv, msg, tvSend, signal, mpc, network>>

(* icmp_findpacket(icmp_seq), one slot at a step: a short is compared with *)
(* an unsigned short.                                                      *)
FindSeq ==
  /\ rpc = "scan" /\ Running("recv")
  /\ IF seq[found] = msg.seq THEN rpc' = "clear" /\ UNCHANGED found
     ELSE /\ found' = found + 1
          /\ rpc' = IF found + 1 = None THEN "test" ELSE "scan"
  /\ UNCHANGED <<slots, sender, packetRecv, msg, tvSend, signal, mpc, network>>

ClearFlag ==
  /\ rpc = "clear" /\ Running("recv")
  /\ flag' = [flag EXCEPT ![found] = 0]
  /\ rpc' = "rtt"
  /\ UNCHANGED <<seq, begin, sender, packetRecv, msg, found, tvSend, signal, mpc,
                 network>>

(* tv_send = packet->tv_begin, and what follows from it: the rest of       *)
(* icmp_unpack() is the receiver's own.                                    *)
CountReply ==
  /\ rpc = "rtt" /\ Running("recv")
  /\ tvSend' = begin[found]
  /\ packetRecv' = Short(packetRecv + 1)
  /\ rpc' = "test"
  /\ UNCHANGED <<slots, sender, msg, found, signal, mpc, network>>

Lose ==
  /\ "lose" \in Faults
  /\ \E r \in wire : wire' = wire \ {r}
  /\ UNCHANGED <<slots, sender, receiver, signal, mpc, doubled>>

-----------------------------------------------------------------------------
(* icmp_sigint(), in the thread the signal is delivered to; first alive,   *)
(* then the time.                                                          *)
Sigint(t) ==
  /\ handler = "none" /\ signals < MaxSignals /\ mpc # "faulted"
  /\ \/ t = "main" /\ mpc \notin {"printed", "crashed"}
     \/ t = "send" /\ spc \notin {"off", "ended"}
     \/ t = "recv" /\ rpc \notin {"off", "ended"}
  /\ signals' = signals + 1
  /\ alive' = FALSE
  /\ handler' = t
  /\ UNCHANGED <<slots, sender, receiver, tvInterval, mpc, network>>

SigintEnds ==
  /\ handler # "none" /\ mpc # "faulted"
  /\ tvInterval' = IF tvBegin THEN "right" ELSE "wrong"
  /\ handler' = "none"
  /\ UNCHANGED <<slots, sender, receiver, alive, signals, mpc, network>>

-----------------------------------------------------------------------------
(* All of it is zero: memset() in main().                                  *)
Init ==
  /\ seq = [s \in Slot |-> 0] /\ flag = [s \in Slot |-> 0]
  /\ begin = [s \in Slot |-> 0]
  /\ packetSend = 0 /\ packetRecv = 0 /\ alive = FALSE
  /\ tvBegin = FALSE /\ tvInterval = "unset"
  /\ mpc = "start"
  /\ spc = "off" /\ packet = 0
  /\ rpc = "off" /\ msg = NoReply /\ found = 0 /\ tvSend = 0
  /\ handler = "none" /\ wire = {}
  /\ tries = 0 /\ sent = 0 /\ signals = 0 /\ first = 1
  /\ doubled = FALSE

Main == SetAlive \/ CreateSend \/ CreateRecv \/ Statistics \/ JoinMissing

Send == Begin \/ TestSend \/ FindFree \/ MarkSeq \/ MarkFlag \/ MarkTime
          \/ SendTo \/ SendToFails \/ CountSent

Receive == TestRecv \/ Timeout \/ Recv \/ FindSeq \/ ClearFlag \/ CountReply

(* main() does nothing any more, or the sender would, but for the bound.   *)
Finished ==
  /\ \/ mpc \in {"printed", "crashed", "faulted", "stuck"}
     \/ spc = "test" /\ alive /\ tries = MaxTries
  /\ UNCHANGED vars

Next ==
  \/ Main \/ Send \/ Receive \/ Lose \/ SigintEnds \/ Finished
  \/ \E t \in Threads : Sigint(t)

Spec == Init /\ [][Next]_vars

(* The threads are scheduled and a handler runs to its end; nobody needs   *)
(* to press ^C.                                                            *)
FairSpec ==
  Spec /\ WF_vars(Main) /\ WF_vars(Send) /\ WF_vars(Receive) /\ WF_vars(SigintEnds)

-----------------------------------------------------------------------------
Reply == [seq : 0 .. Modulus - 1, kept : BOOLEAN, first : 0..MaxTries, at : 0..MaxTries]

TypeOK ==
  /\ seq \in [Slot -> Shorts] /\ flag \in [Slot -> {0, 1}]
  /\ begin \in [Slot -> 0..MaxTries]
  /\ packetSend \in Shorts /\ packetRecv \in Shorts
  /\ alive \in BOOLEAN /\ tvBegin \in BOOLEAN
  /\ tvInterval \in {"unset", "right", "wrong"}
  /\ mpc \in {"start", "create", "create2", "join", "printed", "crashed",
              "faulted", "stuck"}
  /\ spc \in {"off", "begin", "test", "scan", "seq", "flag", "time", "sendto",
              "count", "ended"}
  /\ packet \in Slot \cup {None}
  /\ (spc \in {"scan", "seq", "flag", "time"} => packet # None)
  /\ rpc \in {"off", "test", "select", "scan", "clear", "rtt", "ended"}
  /\ msg \in Reply /\ tvSend \in 0..MaxTries
  /\ found \in Slot \cup {None} /\ (rpc \in {"scan", "clear", "rtt"} => found # None)
  /\ handler \in Threads \cup {"none"} /\ doubled \in BOOLEAN
  /\ wire \subseteq Reply
  /\ tries \in 0..MaxTries /\ sent \in 0..tries /\ signals \in 0..MaxSignals
  /\ first \in 1 .. MaxTries + 1

(* No number came twice yet: at most 65536 packets were tried, and the     *)
(* network doubled no reply (a second reply to packet 0 matches any slot   *)
(* that was never used, and has no time).                                  *)
Unrepeated == tries <= Modulus /\ ~doubled

(* A reply to a request that had a slot is counted, as long as packet_send *)
(* has not turned negative: however the threads interleave, no slot is     *)
(* lost (ping.c:68-78, 173-175, 201-207).                                  *)
CountedIfKept ==
  Unrepeated /\ rpc = "test" /\ found = None /\ msg.seq < Half => ~msg.kept

(* No round trip is measured from before the packet was first tried: the   *)
(* threads' races can only make it look shorter, failed sends only as long *)
(* as the packet waited (ping.c:177-182, 204-206).                         *)
NeverMeasuredFromBefore ==
  Unrepeated /\ rpc = "test" /\ found # None => tvSend >= msg.first

(* What is printed at the end is a loss between 0 and 100 percent until    *)
(* packet_send overflows or a reply is doubled, over a time taken after    *)
(* both its ends were, though a handler in any thread sets the second one; *)
(* only a ping that sent nothing, or so many packets that their count is   *)
(* zero again, ends in the division instead (ping.c:11-15, 48-50, 195,     *)
(* 211-216, 338-342).                                                      *)
FiguresRight ==
  /\ mpc = "printed" =>
       /\ tvInterval = "right"
       /\ sent < Half /\ ~doubled => packetRecv \in 0..packetSend
  /\ mpc = "crashed" => sent % Modulus = 0

(* Once the threads are told to end by a signal after alive was set, they  *)
(* do, and main() gets past the joins, whatever the network does; only the *)
(* join of a thread that could not be created may fault or wait for ever   *)
(* instead (ping.c:196, 228, 326-342).                                     *)
EndsOnceTold ==
  (~alive /\ mpc # "start") ~>
    \/ mpc \in {"printed", "crashed"}
    \/ mpc \in {"faulted", "stuck"} /\ "off" \in {spc, rpc}

-----------------------------------------------------------------------------
(* ping.h:39: alive tells whether the signal to exit has come.             *)
SignalRemembered == signals > 0 => ~alive
=============================================================================
