# Verification of the linux_project programs

TLA+ models, TLC runs and TLAPS proofs for the programs of this repository: a dozen small,
independent Linux programs in C and C++, of which a threaded web server is the largest. The build
targets 32-bit x86 Linux with glibc, without optimisation; `short` has 16 bits and `int` 32.

Contents: [the system](#the-system) · [the modules](#the-modules) · [the runs](#the-runs) ·
[fairness](#fairness) · [what disagrees with its comments](#what-the-models-say-against-the-comments) ·
[what is proved](#what-is-proved) · [what is not modelled](#what-is-not-modelled) · [the plan](#the-plan)

## The system

There is no process in which all programs meet: each directory is a program, or a server with its
client. They share idioms rather than code, and so most models are independent of each other. Three compose:
`httpd/`, where the accept loop, the handler threads, the CGI programs and the clients interact over a descriptor
table, pipes and sockets; the CGI programs with each other over the database; and `my_shell`, which runs other
programs and waits for them.

| Program | State it keeps | Operations | What is hard about it |
|---|---|---|---|
| `httpd/main.c`, `httpd.c` | listening socket, descriptor table, per thread: line buffer, pipe ends, `content_len` | accept, start a thread, read request line and headers, send a file, run a program, relay its body and output | threads share one descriptor table; `fork()` copies all of it into a program; SIGPIPE ends everybody; failed calls leak |
| `httpd/httpd.c: get_line` | line buffer, the byte in hand, the byte peeked at | `recv` one byte, peek after `\r` | bytes arrive in any pieces, the client leaves anywhere, the buffer fills |
| CGI programs (`sql_connect/*.cpp`, `cgi-bin/math_cgi.c`) | the body, a MySQL connection | read the body, query or insert, print | end of file on their pipes depends on every other process; two sign-ups of one name |
| `mycp/mycp.c` | ring of 64, two semaphores, an index per thread | store, take | no lock: two counts and two private indices must agree |
| `cp/listcp.c` | linked list, mutex, condition variable | push, pop, allocate, free | signal after unlock, spurious wake-ups, `malloc` failing inside the lock |
| `ping/` | 128 packet slots, counters, `alive`, times | send, receive, match a reply, SIGINT, statistics | no lock at all between sender, receiver and a handler that runs in any thread; lost and doubled replies; a 16-bit count |
| `MsgQueue/` | a System V queue that outlives the processes | create, send, receive, destroy | who waits for which type; a killed server leaves the queue behind |
| `tcp/`, `tcp_mul/`, `tcp_thread/` | listening socket, connection descriptors | accept, echo until the end of file | one client at a time; double fork, zombies; a descriptor that is never closed; clients that do not read |
| `signal/mysleep.c` and others | SIGALRM's handler, an alarm | `alarm`, `pause` | the alarm before the pause |
| `pipe.c` | a pipe | write and read messages | message boundaries |
| `my_shell.c` | command buffer | read, split, fork, exec, wait | a failed read leaves the old command |
| `bar.c`, `*.sh` | loop counters | print, sort, compare | - |

What makes each correct is listed with its runs below. The hazards, each with the line where it bites
and the properties that watch it, are in `PROJECT.json` under `hazards`. Where the code does go wrong, the property says exactly when, and its note that it does.

## The modules

| Module | Stands for |
|---|---|
| `Httpd` | accept loop, handler threads, CGI programs, clients, the kernel's descriptors and pipes |
| `HttpdProps` | what the server must never do and must eventually do; the mapping onto `HttpService` |
| `HttpService` | abstract: what a client of the server is promised |
| `MCHttpd` | the requests of the runs |
| `HttpdProof` | proofs about `Httpd` |
| `HttpLine`, `HttpLineProof` | `get_line()` and the loops that call it |
| `Mycp`, `BoundedFifo`, `MycpProof` | the ring, the queue it implements, the proof that it does |
| `Listcp`, `LifoList`, `ListcpProof` | the list, the stack it implements, the proof that it does |
| `Ping`, `PingProof` | the threads of `ping`, its signal handler, and the network |
| `Echo`, `EchoProof` | the servers and clients of `tcp/`, `tcp_mul/` and `tcp_thread/` |
| `MsgQueue`, `MsgQueueProof` | server and client over a System V queue |
| `SqlAgi` | the CGI programs over the database |
| `Pipe` | `pipe.c` |
| `Mysleep` | `signal/mysleep.c` |
| `Session` | `my_shell.c`, composed with `Pipe` and `Mysleep` as programs it runs |
| `ProcessesProof` | proofs about the programs that are processes of their own: `Pipe`, alone and in `Session`, and `SqlAgi` |

In every component module, a definition preceded by a comment that begins *Slip* is a wrong version of the
definition after it, with the error a programmer might have made. No specification uses it; putting it
in the place of the right one must break a property, which is how each property is shown to be able to fail.

### Httpd

A connection `c` is also the name of its client, of the thread that serves it and of the program that
thread forks. `fdtab` is the descriptor table of the server process: a number is `None` or the open
object it names, a pair of a kind (`sock`, `file`, and the four pipe ends) and a connection.
`local[c]` is the thread's variables `sock`, `fd`, `input[2]`, `output[2]`, each a *number*. The distinction is the
point: a number closed too early is handed out again (always the lowest, as the kernel does), and the
thread that still holds it then works on somebody else's object. `cfds[c]` is the set of objects the program
holds after `fork()`: all that were in the table at that moment, until the two `close()` calls of the child and `execl()`,
which closes nothing.

`pc[c]` follows `handler_request()`, `echo_www()` and `exe_cgi()` (httpd.c:92-394) call by call; the comment
above each action says which. Runs of code with no call another actor could observe are one step. A
return code is kept in `code[c]`, because each failing return leaves something open. `clen[c]` and
`i[c]` are the loop that copies the body, `inbuf` and `outbuf` the contents of the two pipes, of capacity
`PipeCap`. `Sigpipe` is what the default action does to the whole process. `main()` passes the number
itself to the thread (main.c:33), so `new_fd` is modelled as well.

Calls fail where the system can make them fail. `accept()`, `open()` and `pipe()` fail when the table has no number left, which is
part of the state; `Faults` says what else may: `"thread"` and `"fork"` that no thread or process can be made, `"files"` that the
system as a whole has no file left, which fails the same three calls with numbers to spare.

Abstractions: a request is a record of what the code tells apart (method, a `?`, what the path names,
`Content-Length`, a length); the request line and the headers arrive whole, since cutting them is the
business of `HttpLine`. Bytes are numbered by their place, so that a lost, repeated or reordered byte is
visible. A program reads its whole body before it prints, as all those of the repository do; what it
asks MySQL is in `SqlAgi`. A directory answers its `GET` with at most `DirSize` bytes of its index, however long that is, since
`st_size` is the directory's (httpd.c:357, 387); that cut answer is the one `HttpService` calls complete.

### HttpLine

One `recv()` is a step, and `MSG_PEEK` after a `\r` another. `stream` is what the client means to send,
`arrived` how much of it is in the socket. `stage` stands for the caller: `handler_request()` for the
request line, then the loop of `drop_header()` or of `exe_cgi()`, which differ in what they do with a line and not
in when they stop. `Size` is the 1024 of the buffers.

### Mycp and BoundedFifo

Each thread's `sem_wait`, access to `buf`, and `sem_post` are steps. The indices are private, so nothing in the program
says that they fit together; `SlotsExclusive` and the refinement of a bounded queue do. The queue is
read off the ring by `queue == [k \in 1..Filled |-> buf[Ahead(k - 1)]]`.

### Listcp and LifoList

The heap is explicit: nodes, their two fields, and the set `malloc` gave out. A push and a pop take
two and three accesses to it, each a step. The mutex and the condition variable behave as POSIX says,
with wake-ups nobody signalled; a `malloc` that fails exits the process in the middle of a push.

### Ping

Every access to `pingpacket[]` and to the shared scalars is a step, those of the two searches included. A
time is the number of the `sendto()` it was taken for, which is all the properties compare. `SIGINT` may arrive at
any of the three threads, which then runs the handler before it goes on. A `short` goes from `-Half` to `Half - 1` (32768 in
the code), `packet_send` wraps, and is compared with the unsigned `icmp_seq` as C does. The network loses
replies, reorders them, and delivers one of them twice. `pthread_create()` fails with a positive number, which the test for a negative one
(ping.c:326-336) never sees: `main()` goes on with a thread that is not there and joins an identifier that was never set, which may return at once, fault,
or wait for ever (`JoinMissing`).

### Echo

The three servers are one loop with one line changed: who serves an accepted connection. `variant`, chosen in `Init`, is
that line: `main()` itself, a process forked twice, or a detached thread. `room` is how many processes or
threads the system has left and `fds` how many connections a server may hold. `worker[c]` is whoever runs the loop of `read()` and
`write()` for connection `c`, `child[c]` the process that `tcp_mul` forks first, which becomes a
zombie for good, because nobody calls `wait()`. The three failures of `startup()` are there because that of `tcp_thread`
returns its error code, which `main()` then passes to `accept()`.

Bytes are counted and not named: what is echoed is what was read, in order. A socket holds `SockCap` bytes in
each direction, so that a client that does not read its echoes (that of `tcp_mul`) fills it. A `read()` takes any part of
what has come. A `write()` to a client that has gone succeeds once, and is answered by a reset; the next one
is told of the reset, or raises SIGPIPE, which nobody ignores. A client that leaves echoes unread has its
connection reset at once. The clients differ too: that of `tcp_thread` cuts off the line's end and never reads, that of `tcp` does
both, and a line of nothing but its end sends no byte.

### MsgQueue

A message is its type, for nothing else decides what happens: both programs send type 1 and wait for type 2. An
identifier that was removed is never given out again (the kernel counts a sequence number into it); `made` bounds how
many there are. `sendMsg()` waits while the queue is full, and both calls fail once it is removed. Kills and `ipcrm` may come at any
moment. `struct Msgbuf` starts with an `int` where the system calls take a `long`; the model follows the 32-bit binaries
the repository holds, where they are alike.

### SqlAgi

Each program is a process that `httpd` started, and each query a step, so that `Find_Root()` and the insert of another
program interleave. Any query may fail, and then `Find_Root()` runs off its end: its result is whatever was in the
register, and `Insert_Login()` goes on or not. The schema is not in the repository; of it `root_first` (whether `root` is the first column) and `unique` (whether it is declared so) take
every value. A name is a word and whether it is written plainly: MySQL's `=` takes names of one word for the same
(it ignores trailing blanks and accents), `strcasecmp()` does not; a column may give a name back without its blanks (`KeptAs`). `Find_Root()`
compares row `i` in *column* `i` (sql_agi.cpp:38), so only the first row is compared with what may be a name. The query asks for no order
(sql_agi.cpp:19), so any matching row may be that first one (`MayComeFirst`), whichever was added first; `first[p]` keeps which it was. What the
other rows are compared with is a column that may hold anything, be null, or not be there: no match, a match, or the end of the program.

Names and passwords are ordinary text: no quotes, no backslashes, and no longer than their columns. The programs paste them into their statements
unescaped (sql_agi.cpp:19, 85-89), so text with a quote in it would make another statement; a statement that merely
becomes wrong is a query that fails, one that says something else is not modelled. A browser's form sends neither character as it is, and the programs decode nothing.

### Pipe, Mysleep, Session

`Pipe` counts bytes: a `read()` takes all there are up to the buffer, which may be several messages, and `printf("%s")` stops at
the first one's end. `Mysleep` lets the alarm ring as soon as it is set. `Session` is the shell: a line is the program it
names, and at the end of its input `buf` still names the last one. `execvp()` of `pipe` or `mysleep` starts that
module's program; `"true"` is any other program, which may run for ever or be killed, and `"none such"` what is not found.
A signal comes from `kill` to the sleeping program alone. A `^C` at the terminal reaches the shell too, which does not
catch it and ends; what is left is then no session, and is not modelled.

## The runs

| Run | Properties | Instance | Shows |
|---|---|---|---|
| `httpd_paths` | `TypeOK`, `LeaksAccounted`, `BodyIntact`, `ImplementsService` | two connections at once, each with any of 13 kinds of request; five descriptors, as many as one of them needs, so that `accept()`, `open()` and both `pipe()` calls run out of them; a system without files, threads or processes; clients that may leave | what each way out of the handler leaks and sends, beside another that takes its numbers |
| `httpd_serve` | `DescriptorsValid`, `ProgramReaped`, `EveryConnectionEnds`, `ImplementsService` | two POSTs to programs, one descriptor short, one client that may hang up and take the server with it | no number is used after it is recycled; no relay loop ends early; what was sent is a prefix of a right answer; every connection ends for its client, unless programs that outlive the server hold each other's pipes |
| `line_read` | `TypeOK`, `BufferHolds`, `NothingLost`, `HeadersEndAtBlankLine`, `HeadersEnd` | every stream up to 6 bytes over CR, LF and another, buffer of 4 | lines are cut right and completely, however bytes arrive |
| `line_comment` | `HeadersReadThrough` (violated) | the same, up to 5 bytes | the comment at httpd.c:158 |
| `mycp_ring` | `TypeOK`, `SlotsExclusive`, `ImplementsFifo`, `BothGoOn` | ring of 4, three values | a bounded queue without a lock, and nobody starves |
| `listcp_stack` | `TypeOK`, `WakeUpComes`, `HeapSound`, `ImplementsLifo`, `ListIsServed` | three nodes, two values | a stack; no node lost or freed while linked; no wake-up lost |
| `ping_run` | `TypeOK`, `CountedIfKept`, `NeverMeasuredFromBefore`, `FiguresRight`, `EndsOnceTold` | two slots, four sends, one SIGINT, a `short` of four values; threads that cannot be created, sends that fail, replies lost and doubled | what still holds of the counts and times without any lock |
| `ping_alive` | `SignalRemembered` (violated) | one slot, one SIGINT | the comment at ping.h:39 |
| `echo_servers` | `DescriptorsKept`, `OneEndsAlone`, `Answered`, `GoneIsNoticed` | each server with two clients, lines up to 2 bytes, sockets of 1, room for 1 or 3 processes, descriptors for 1 or 2 | what stays open; who can lose a connection to somebody else's fault; who waits for ever, and that nobody else does; that whoever served a client that went away is free again |
| `msgqueue` | `QueueOutlives`, `NobodyIsAnswered`, `RemovalEndsAll` | two servers, two clients, room for 2 messages, three queues one after another | nobody is ever answered; the programs never remove a queue; whoever waits over one that is removed ends |
| `sign_up` | `DuplicateHasCause`, `RefusedRightly` | three programs, four names, `root` the first column or not and unique or not, rows in any order | the causes of two users of one name, and that there are no others; nobody is refused a name that was free |
| `session` | `ChildWritesAll`, `PrintedUnlessLate`, `WakesUp`, `PromptComesBack` | six messages of three bytes in a buffer of seven | no message is lost to a reader in time, the writer is never killed, a sleep ends unless its alarm rang too early, and the shell comes back from whatever ends |

### The bounds, and why they are enough

*Httpd.* Two connections suffice for interference, which is always between a thread and a program forked by
another: a third holder of a pipe end adds to the set of holders and nothing new. Numbers are few so that they
are recycled at once. Two programs at a time need ten numbers at most (a socket and four pipe ends each);
`httpd_serve` has nine, so that only a second `pipe()` can fail. In `httpd_paths` one connection needs five and two of
them have five between them, so that every call that opens something fails for want of a number at some point, the leaks of one connection included in what the other
lacks: every return code the model has occurs (-1 and 5 to 13), those of the failed `open()` and `pipe()` calls, 8, 11 and 12, also without the fault `"files"`. The connections are alike there, so `Alike`
makes them symmetric; a permutation of them is sound because the properties of that run quantify over all of them and none is about liveness. `PipeCap` is 1 or 2, less than a body or an output, so that both sides block.
All safety properties and the refinement are proved for every number of
connections and descriptors; the runs are what liveness rests on.

*HttpLine.* A buffer of 4 holds three bytes: a line that fills it, one that fills it
with its `\r` last, and one that is longer than it, all fit in six bytes with bytes to follow. The three safety properties are proved for every size and every stream.

*Mycp.* Four slots distinguish the wrap of the indices from their order; the refinement is proved for every `N`.

*Listcp.* Two nodes in the list and one in a thread's hands is every way an access to
one node can disturb another. The safety properties and the refinement are proved for every finite heap.

*Ping.* Two slots let one be lost while another is in use, and both be taken. Four sends with a `short` of four values
take `packet_send` through positive, negative and back to zero, so that all that happens at 32767 and at 65536 packets
happens. Either thread or both may be missing. What is stated only up to a wrap says so in the property. Six sends without doubling were also
tried once, with the same result. The safety properties are proved for any number of slots and sends and any range of a `short`.

*Echo.* Two clients are the one a property is about and the one that interferes; one more of either kind changes no guard. One descriptor
or one process makes every `accept()`, `fork()` and `pthread_create()` fail somewhere; three processes are one more than a
first child and its grandchild, so that zombies use up the rest. Lines of 0, 1 and 2 bytes over sockets of 1 are
nothing to send, what fits, and what blocks. Both safety properties are proved for any number of clients.

*MsgQueue.* Two of each, so that a server can find another's queue and two clients wait for one. Three queues
are enough to be made, removed and made again while an old identifier is still held. The two safety properties are proved without bounds.

*SqlAgi.* Three programs: two that race and one that was there before or adds a row between; two words, each in two spellings.
Both properties are proved for any number of programs and names.

*Pipe, Session.* A buffer of two messages and a third of one splits messages over `read()`s in every way. The
properties of the pipe are proved for every number and length, alone and under the shell.

## Fairness

* `Httpd`: weak fairness of *some* step of a client in the middle of its request, the accept loop, a thread
  or a program, with no order among them. That is the least a kernel gives. It suffices because all of them but the accept loop end.
  A client need not connect and need not hang up.
* `HttpLine`: bytes that are sent arrive; the handler's thread runs. A client may stop sending for ever.
* `Mycp`: both threads run. Both only ever sleep and wait for a semaphore.
* `Listcp`: the threads run once they are in a round. The consumer's locking is *strongly* fair: the
  producer sleeps a second outside the mutex in every round (listcp.c:122), which leaves the mutex free long enough to be taken; without the sleep this would not be
  justified, as a mutex promises no order. Nothing obliges the producer to begin another round, and no
  spurious wake-up is counted on.
* `Ping`: the three threads run and a handler returns. Nobody needs to press ^C and nothing needs to arrive: `select()` times out.

* `Echo`: `main()` runs, and so does whoever serves a connection; a client that is sending or waiting goes on. A user need not type, leave, or
  connect, and `accept()` that fails need not stop failing.
* `MsgQueue`: a process that can send, receive or destroy does. Nobody needs to type, kill, or remove the queue.
* `Session`: processes run and alarms ring; nobody needs to type, and a program other than `pipe` and `mysleep` need not end.

Deadlock is checked in the runs of `HttpLine`, `Mycp`, `Listcp`, `Ping` and `Session` and in `httpd_paths`. It is not in `httpd_serve`, where two programs that outlive the server
may wait for each other for ever, nor in `echo_servers`, `msgqueue` and `sign_up`, where nothing is left to do once all have ended or wait for a
message nobody will send.

## What the models say against the comments

* **httpd.c:158** says that the headers and the blank line have been read when the loop over them ends. A line of just
  the buffer's length leaves its `\n` to the next call, which looks like the blank line; the headers that
  remain are then read as the body. `HeadersEndAtBlankLine` shows that this is the only exception.
* **ping.h:39** says that `alive` tells whether the signal to exit was received. The handler is installed before
  `main()` sets `alive` (ping.c:321-323); a signal between the two is forgotten.

The comment at httpd.c:252 says of the relay loop's `read()` that descriptors go with the process, and that it reads 0 when
the process ends. That is so for its own program only: one forked for another connection between `pipe()` and the father's
`close(output[1])` holds the write end as well (nothing is `O_CLOEXEC`), and the loop waits for it too.
`EveryConnectionEnds` shows that this delays a response and does not hang it, as long as the server lives.

Other comments of `ping.h` do not hold either; they are worked into the properties of `ping_run` rather than given runs of their own.
A `sendto()` that fails leaves its slot marked as sent (ping.c:205, 214; ping.h:27). A lost packet keeps its slot for ever,
and once all are kept, packets are sent without one and their replies are not counted (ping.c:174, 202; ping.h:41), so
`CountedIfKept` speaks of packets that had a slot. The receiver frees a slot before it reads
the time from it (ping.c:177-178), so a round trip may be measured from the *next* packet; `NeverMeasuredFromBefore` shows that it is never measured
from an earlier time than the packet's own first try. `packet_send` overflows (ping.c:216; ping.h:40), after which replies are no longer matched, and a ping
stopped after 65536 packets divides by zero, as does one stopped before the first (`FiguresRight`). A doubled reply is counted twice, and a second
reply to packet 0 also matches every slot that was never used, whose time is zero; `Unrepeated` excludes it.

## What is proved

Every safety property that a run checks, and the three refinements, for every value of the constants, under the assumptions of the
module proved about (`HttpdAssumption`, `HttpLineAssumption`, `MycpAssumption`, `ListcpAssumption`, `PingAssumption`, `EchoAssumption`,
`MsgQueueAssumption`, `PipeAssumption`: the types of the constants, what is finite, and model values that differ). `SqlAgi` assumes nothing. The bounds of the runs
(`MaxTries`, `MaxSignals`, `MaxLen` and the like) stay in the models, and the theorems hold whatever they are.

### The server: `HttpdProof`

* `TypeCorrect` (`[]TypeOK`) and `DescriptorsStayValid` (`[]DescriptorsValid`). `DescriptorsValid` is not inductive alone: that
  two threads never hold one number needs that a number handed out was free, and that a thread not yet started holds
  none. The invariant is `IInv == TypeOK /\ Asked /\ NotStarted /\ DescriptorsValid`, where `Asked` gives every queued, accepted or served connection a
  request, and `NotStarted` says that a queued connection has neither a thread nor a descriptor. Lemmas
  give the type of what each action assigns, then the effect of opening and of closing on the descriptor facts, once each.
* All that follows is about one connection at a time. `OwnState(c)` is what belongs to connection `c`; lemma `Steps` says that a step of the server is a step of one
  connection (`OwnStep(c)`) or the signal that ends the process, and `OthersUntouched` that the first leaves every other connection's state alone. A fact about
  `OwnState(c)` then only has to survive the steps of `c`.
* `ProgramsReaped` (`[]ProgramReaped`), from `ProgramAlong`: the stage of the handler tells that of its program. Its last conjunct carries the argument: a program that has
  been forked and has not exited holds the write end of its own output pipe, so the relay loop cannot see the end of the file before the program is a zombie, whoever else
  holds that pipe.
* `BodiesIntact` (`[]BodyIntact`), from `Fed`: what the program read and what is still in its pipe are together exactly the `i` bytes copied so far, each in its place.
* `LeaksAreAccounted` (`[]LeaksAccounted`), from `AllDue`: at each stage the table holds for a connection exactly the descriptors `Due` names, which depends on the stage and, once the handler
  has returned, on its return code; `OpenOnce`: no object has two numbers; and `CodeLate`: the code is set by the step that returns.
* `ServiceImplemented` (`Spec => ImplementsService`). `Routed` says what a stage tells of the request, `SentSoFar` what has been sent at each stage to a client that stayed. Then every action is
  mapped: a client's request to `Ask`, a `send()` to a `Write` that continues a complete answer, `close()` of the socket to an end, SIGPIPE to the service's crash, everything else to a stutter or
  an excuse. The mapped state depends on `OwnState(c)` only, so the steps of a connection are those of the service for it.

### Lines: `HttpLineProof`

* `LineTypes` and `LineFits` (`[]BufferHolds`), with `TypeOK /\ BufferHolds` as the invariant: that a peek still has room for its byte makes it inductive.
* `LinesSayAll` (`[]NothingLost`). `AllSaid`, that the text of what was taken out is the lines so far and the current one, needs `LookedBehind`: a `\r` that was taken out is being
  looked behind, was followed by something other than `\n`, or was the last byte of a client that left; otherwise the next `\n` might belong to it.
* `HeadersEndRight` (`[]HeadersEndAtBlankLine`), from three more: a `\n` ends its line (`LinesEnd`); two in a row are the last of the text and end the headers (`PairEnds`); and, while the client stays, the line
  before a header ended or filled the buffer (`HeaderFollows`).
* `NormalIs` and `FlatIs` give the equations of the two recursive functions, the text of a prefix of a stream and the concatenation of lines.

### Two threads: `MycpProof`, `ListcpProof`

* `SlotsStayExclusive` (`[]SlotsExclusive`), `RingTypes` (`[]TypeOK`) and `RingIsFifo` (`Spec => ImplementsFifo`), the whole refinement. The invariant relates
  the counts (`Balance`: slots free, filled and in hand add up to `N`) and the indices (`Position`: the producer is exactly `Filled` slots ahead of the
  consumer, around the ring). The refinement then has two steps that are not stutters: a store appends to the queue, a take removes its head.
* `NoWakeUpLost` (`[]WakeUpComes`) and `ListTypes` (`[]TypeOK`), from the exclusion the mutex gives (`Exclusive`).
* `HeapStaysSound` (`[]HeapSound`). The invariant `HeapKept` says that there is *some* sequence of distinct nodes that is the list (`IsList`) and that the threads hold exactly the rest of what `malloc()` gave out (`Owned`): `Push`
  puts its node in front, `Unlink` takes the first away, nothing else touches a link in the list. `ChainUnique` and `ChainFits` then make that sequence the one `Chain` computes.
* `ListIsStack` (`Spec => ImplementsLifo`): with the same sequence, the link that completes a push is the stack's push, the one that completes a pop its pop, and every other step, the exit
  included, a stutter.

### Three threads and no lock: `PingProof`

One invariant gives `PingTypes`, `RepliesCounted`, `TimesRight` and `StatisticsRight` (`[]` of `TypeOK`, `CountedIfKept`, `NeverMeasuredFromBefore` and `FiguresRight`). Its parts:

* `Placed`, `InTime`: what each thread's place tells of its variables; no time lies in the future.
* `Ending`: a thread has ended only after the signal, a handler is left only while its thread is; so `main()`, which gets past the joins only when each thread has ended or never was, prints with both times taken.
* `Numbered`: `packet_send` is the number of packets sent modulo the range of a `short`, and which one it is until the range is used up.
* `Counted`: replies counted, in hand and on their way are no more than packets sent, as long as none is doubled (`wire` is finite).
* `Distinct`, `Kept`, `CurrentKept`: as long as numbers do not repeat (`Unrepeated`), no two outstanding replies have one number; every slot that carries an outstanding reply's number is in use with a time not
  before the packet's first try (`Keeps`), and the packet that had a slot still has one at or after the place the search has reached (`Slotted`); and the same for the packet between its marks and its `sendto()`. Packet
  0 is the exception all three have to make, because a slot never used also carries number 0 (`FirstKept`).

### Processes: `EchoProof`, `MsgQueueProof`, `ProcessesProof`

* `DescriptorsAreKept` (`[]DescriptorsKept`). Beside the two halves of the property the invariant needs that `tcp` serves one connection at a
  time, by `main()`, which is in its loop meanwhile (`OneAtATime`): otherwise a `main()` that had died could come back to `accept()`.
* `OthersStayServed` (`Spec => OneEndsAlone`), an action property: no step of one connection ends another's but in the cases it names. It needs that a connection that is reset, or in `tcp_mul` no longer served,
  is one whose client has gone (`Gone`), that it was accepted before it had a process (`Come`), and that a worker has a name as soon as it exists (`Named`).
* `NeverAnswered` (`Spec => NobodyIsAnswered`) and `OnlyUsersRemove` (`Spec => QueueOutlives`). The invariant says that the queue holds nothing but
  `SERVER_TYPE`, and that whoever has reached `destoryMsg()` holds no queue that is there; the first makes `recvMsg()` return only without a message,
  which makes the second inductive.
* `ChildSurvives` (`PipeSpec => []ChildWritesAll`) and `NothingLostInTime` (`[]PrintedUnlessLate`), for every number and length of messages and every buffer that
  holds one. The invariant (`KeepsUp`) is that the bytes read are between those of as many messages as there were `read()`s and those written, and exactly the first as
  long as no `read()` found two. Products of two variables are settled in two lemmas first. `PipeUnderShell` (`SessionSpec => PipeSpec`) carries both over to the shell (`PipeRunsFromShell`).
* `DuplicatesHaveCause` (`Spec => []DuplicateHasCause`) and `RefusedForCause` (`[]RefusedRightly`). The heart of the invariant is `Excused(p)`: what `Find_Root()` saw was no reason to refuse the name. It holds of every
  program between its two queries and of every one that has a row, and stays true although other rows are added, because rows are only appended and never change: the row
that came first for `p`, whichever the server chose, keeps its name, and a row added after `p` looked has a
number beyond those `p` saw. Nothing in the proof depends on which of the matching rows came first.

### How far the prover goes

Only model-checked are the liveness properties, which rest on fairness: `EveryConnectionEnds`, `HeadersEnd`, `BothGoOn`, `ListIsServed`, `EndsOnceTold`, `Answered`, `GoneIsNoticed`, `RemovalEndsAll`, `WakesUp` and
`PromptComesBack`. The library's induction theorems take an operator as a parameter, which the installed provers cannot instantiate. What a recursive function over data computes (`Chain`, `Normal`, `Flat`) is
proved without them, by least counterexample: the lengths at which the claim fails are a set of numbers, which has a least element (`Least`, from `WFMin` and the order of the naturals), and that one is refuted from
the one before it.

## What is not modelled

* `startup()` of `httpd`: a sequence of calls before any client; a failure exits. That of the echo servers is modelled, because one of them does not exit.
* Statements to the database other than those written in the source, which text with quotes in it could make (see `SqlAgi`).
* What is printed, and the contents of pages, headers and queries.
* `icmp_pack`, the checksum, and the arithmetic of `icmp_tvsub`: sequential arithmetic on one packet. The place `tmp_rtt[10000]` has no test for is listed as a hazard
  without a property.
* `Destory()` in listcp.c and the joins in mycp.c, which come after endless loops; `ShowList()`, never called.
* `sqlAgi::Login()`, which at this commit holds bare HTML and lacks a brace and so does not compile, and `login.cpp`, its only caller, whose `main()` reads the request (56-64) and does nothing with it, the call at line 66 being commented out; `insert_cgi.cpp`,
  which calls `myInsert()` with five arguments of six.
* `bar.c`, `bar.sh`, `add.sh`, `maxmin.sh`, `shellsort.sh`, `ping.sh`: sequential, over a counter, their arguments or a file; `signal/alarm.c`, `pend.c`, `test.c`: one call each.
* `httpd/sql_connect/lib`: the vendored MySQL headers. They are 18,800 of the 21,400 lines a count of the C files gives, declarations of a library the programs
  call through six functions; what is left is about 2,600 lines, of which more than half are code that changes state and is mapped here, and the rest includes, error
  messages, web pages and the programs listed above.

## The plan

Done, in this order: `Httpd` with its service and its first proofs; `HttpLine`; `Mycp`; `Listcp`; `Ping`; `Echo`; `MsgQueue`; `SqlAgi`; `Pipe`, `Mysleep` and the shell over them;
the proofs about `Pipe`, `MsgQueue` and `Echo`; the remaining safety properties of all of them, and the refinements of the service and of the stack. Left:

1. An abstract echo service that the three servers of `Echo` implement, checked and then proved step by step.
2. Pure algorithms against reference definitions, should the programs come to use them for more than printing: `icmp_cksum`, `icmp_tvsub`, `shellsort.sh`.

The runs of one program that ask about the same instance are kept together in one `.cfg`; new
programs get one run each.
