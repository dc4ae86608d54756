# A TLA+ verification of APNP

APNP is a collection of network programs that follow a book on Linux server
programming, chapter by chapter. It is not one system: most files are single
programs that share no code. What carries logic of its own are a few servers
built the same way: an event loop around epoll, signals turned into bytes of a
pipe, and several processes or threads that have to agree. This project models
those, checks them with TLC on small instances, and proves the results that
matter most with TLAPS.

## 1. Inventory

| Component | Source | State | Operations | Hard because | Status |
|---|---|---|---|---|---|
| Chat room server with shared memory | `chapter13/13.6/chatroom_shm_serv.c` | `users[]`, `process_user[]`, `user_count`, `terminate`, the epoll sets, the signal pipe, one socketpair per child, the shared segments | accept and fork, a notice from a child, SIGCHLD, SIGTERM, the kill loop; in the child: client data, end of file, a notice, SIGTERM | main, up to `USER_LIMIT` children, asynchronous handlers, edge triggered events that come once, inherited handlers and descriptors, memory shared without a lock | modelled |
| Ascending timer list | `chapter11/11.2/lst_timer.h` | `head`, `tail`, `next`, `prev`, `expire` | add, adjust, delete, tick | pointer cases at the two ends; time passes between operations | modelled |
| HTTP request reader | `chapter8/8.6/httprecv.c` | the buffer, `checked_index`, `read_index`, `start_line`, the main state | recv, `parse_line`, `parse_requestline`, `parse_headers` | the request arrives in pieces cut anywhere; the parser writes into the buffer it reads | modelled |
| Unified event source | `chapter10/10.4/test_UnifiedEventSource.cpp` | the socketpair, `errno`, `stop_server`, the descriptors | install handlers, handle a signal, the loop, closing | a handler runs between any two steps, `errno` is shared with it, the socketpair can be full or half closed | modelled |
| Multithreaded one-shot server | `chapter9/9.4/test_oneshot.c` | epoll registrations, one `fds` struct on main's stack, the threads | accept, start a thread, recv, `reset_oneshot`, close | data that arrives between the last recv and `reset_oneshot`; the struct is filled again before a thread has read it, or between its two loads; calls whose result is ignored | modelled |
| Server that closes inactive connections | `chapter11/11.2/close_inactive_conn.cpp` | the connections, `users[]` with their timers, the timer list, the alarm | accept, data, end of file, SIGALRM, SIGTERM | timers against connections that close by themselves; descriptors and heap addresses used again; a list that `adjust_timer` spoils | modelled |
| Chat room client | `chapter13/13.6/chatroom_shm_clnt.c` | two processes, their flags, a socketpair | `sendProcess`, `recvProcess`, quit, the end of the server | each process waits for the other, unless an interruption lets one go on; a fork whose failure is not looked at; one byte of an `int` is sent and four are compared | modelled |
| Chat room server without shared memory | `chapter9/9.6/chatroom_epoll_server.c` | `user_fds`, `user_count`, one-shot registrations | accept, refuse, read | entries that outlive their connections, the wrong index in the inner loop | modelled, as far as it is written |
| TCP and UDP on one port | `chapter9/9.7/testTCP_UDP.c` | the epoll sets | accept, echo | edge triggered reading against data that goes on arriving | modelled; the UDP half never runs |
| Level and edge triggered demonstration | `chapter9/9.3/test_LTET.c` | the epoll sets | accept, read | one short recv for an event | modelled; `et` is not called |
| Mutex and fork | `chapter14/14.8/multi_thread_fork.c`, `multi_thread_fork_resolved.c` | a mutex and its copy | lock, fork, `pthread_atfork` handlers, wait, join | a lock copied in the locked state; a fork that fails | modelled |
| Semaphore demonstration | `chapter13/13.5/sem_IPC_PRIVATE.c` | a System V semaphore | `pv` in parent and child | a process killed between the two calls; a `semop` that fails and goes unnoticed | modelled |
| Two mutexes in opposite order; wrappers; signal thread; zombies; ids | `chapter14/14.5`, `14.7`, `14.8`, `chapter13/13.3`, `13.9`, `chapter7` | at most a lock | a few calls | written to show one effect | not modelled |
| Out of band data; socket and I/O call demonstrations | `chapter9/9.1`, `chapter5`, `chapter6` | none | system calls | - | not modelled |

How parts interact:

* In the **chat room server** main and the children meet in four places: the
  socketpairs (a child writes the number of its slot, main passes it on to the
  other children), the shared segments (a child writes its own and, on a
  notice, reads another's), signals (main sends SIGTERM, the kernel sends
  SIGCHLD), and the end of a process (end of file on its socketpair). Main
  meets its own signal handler in the signal pipe.
* The **timer list** is called by the **server that closes inactive
  connections**, which alone decides when `expire` changes: on data, to
  `3 * TIMESLOT` from then. `CloseInactiveConn` composes the two.
* The **chat room client** meets the chat room server through one TCP
  connection. Each of the two is modelled with what it can see of the other: the
  server may send, close or reset at any time, and so may a client.
* The other modelled programs are complete in themselves; they talk to their
  clients and to the kernel. Four single-threaded epoll servers do so through the
  same calls, which are one module, `EpollSockets`.

What makes each correct is listed as properties in section 3; where it can go
wrong is listed, line by line, under `hazards` in `PROJECT.json`.

## 2. Modules

| Module | Role |
|---|---|
| `ChatroomShmServ` | the chat room server: main, children, kernel, clients |
| `MCChatroomShmServ` | adds the symmetry set and a bound for TLC |
| `ChatroomShmServProofs` | its theorems |
| `TimerQueue` | abstract: what a timer container promises |
| `SortTimerLst` | the pointer list, and the mapping to `TimerQueue` |
| `SortTimerLstProofs` | its theorems, the refinement among them |
| `HttpRecv` | the request reader |
| `MCHttpRecv` | the streams a client sends, put together from pieces |
| `HttpRecvProofs` | its theorems |
| `Recursion` | what the proofs about recursive functions rest on |
| `UnifiedEventSource` | the program around the signal socketpair |
| `UnifiedEventSourceProofs` | its theorems |
| `TestOneshot` | main, threads and one-shot registrations |
| `TestOneshotProofs` | its theorems |
| `EpollSockets` | the kernel under the four servers that follow: clients, connections, epoll; and lemmas about what every call keeps |
| `CloseInactiveConn` | the server that closes inactive connections, on `EpollSockets` and `SortTimerLst` |
| `TestTcpUdp`, `TestLtEt`, `ChatroomEpollServer` | three servers on `EpollSockets` |
| `ChatroomShmClnt` | the chat room client |
| `ForkMutex` | both programs about a mutex and fork |
| `SemIpcPrivate` | the semaphore |
| `MCPrograms` | the programs from `CloseInactiveConn` on, one at a time, for TLC |
| `MCProgramsProofs` | the theorems about them |
| `MCSortTimerLst`, `MCUnifiedEventSource`, `MCTestOneshot`, `MCCloseInactiveConn` | the modules TLC is started on |

### 2.1 ChatroomShmServ

A member of `Conn` stands for a client connection, the child that serves it,
the child's pid and main's end of its socketpair.

| Model | Code |
|---|---|
| `userCount`, `users`, `processUser`, `terminate`, `stopServer` | `user_count`, `users[].pid`, `process_user[]`, `terminate`, `stop_server` |
| `interest`, `ready`, `batch` | the descriptors in `epollfd`, its ready list, `events[]` |
| `signalPipe`, `sigs`, `pendSig` | the bytes in `signal_pipefd`, `signals[]`, the pending signals of main |
| `cpc`, `slot`, `stopChild`, `cready`, `cevents` | a child: where it is in `run_child`, its argument `user_count`, `stop_child`, its own epoll |
| `shm`, `pipeUp`, `pipeDown` | the segments, the two directions of the socketpairs |
| `AcceptRefuse`, `AcceptFork`, `AcceptFail`, `AcceptForkFail`, `AcceptAbort` | the branch for the listening socket with its early returns, and the assertion on `socketpair` |
| `EpollFail` | the `break` when `epoll_wait` fails otherwise than with EINTR |
| `PipeEvent` | the branch for a child's socketpair: one number read, passed to all others |
| `SignalEvent`, `SigChld`, `Reap`, `ReapDone`, `SigTermIdle`, `SigTermKill`, `Kill`, `KillFail`, `KillDone` | the branch for the signal pipe |
| `Detach`, `Register`, `ChildContinue`, `ChildEpollWait`, `RecvClient`, `RecvNotice`, `ChildBatchDone`, `ChildExit` | the code behind fork, and `run_child` |
| `Term...` | `child_term_handler`, and the inherited handler that a signal meets before it is replaced |

Three facts about the code shape the model and are kept as they are.

1. `pid = waitpid(-1, &stat, WNOHANG) > 0` stores a truth value. The body of
   the loop therefore looks up the entry of pid 1, which is -1, and does
   nothing: no exit is ever taken out of the tables (`ReapedPid`).
2. `else if (ret)` stops the child on data. Only on `ret == 0` does it announce
   its slot (`StopsOn`).
3. A SIGTERM that reaches a child after fork but before its own handler is
   installed runs the handler of main: it writes into main's signal pipe, or is
   lost once that has been closed.

Abstractions: pids are not reused. `accept`, `socketpair`, `fork` and the
parent's bookkeeping are one step; what the child does meanwhile touches none of
it. Queued connections are accepted in any order. A segment holds whose message
it is, not the text. SIGINT and SIGTERM are treated alike by main and are one
signal; a SIGINT from a terminal, which would reach the children as well, is
not modelled. The signal pipe of this server never fills (the buffer of the
kernel takes more one-byte messages than can be pending here). Main's ends of
the socketpairs and the resources freed by `del_resource` end with the
process. `Connect` stops once main has ended.

### 2.2 TimerQueue and SortTimerLst

`SortTimerLst` keeps the four pointers as functions and follows `add_timer`
(both overloads), `adjust_timer`, `delete_timer` and `tick` case by case. `tick`
is several steps (`TickBegin`, `TickFire`, `TickEnd`) because it takes the time
once and the clock goes on. The user creates a timer with a future `expire`,
moves it to a later time only, and deletes what it created, as
`close_inactive_conn.cpp` does; callbacks do not call the list, as there.

`AdjustCases` says which cases of `adjust_timer` the user brings about. The
three cases beyond "in place" do not work (section 4), so the passing run takes
"inplace" alone: what it shows is that the rest of the list is right, and that it
implements `TimerQueue` under `pending <- allocated, deadline <- expire`.
`adjust_timer` may be called with the time unchanged, as happens when data
arrives twice in a second. A deleted node's own pointers are forgotten (`Freed`);
nothing may read them.

### 2.3 HttpRecv

The buffer holds tokens in the place of characters: the separators, the words
the code compares with, and other text; `"path"` is text with a leading slash. `Judge` is the verdict on a whole text, one
line after the other, which `ParseIsIncremental` compares with.
Each recv takes any number of tokens there is room for. `parse_content` is
inlined: `RequestLine`, `Header`, `LineBad` and `LineOpen` are one turn of its
loop each. The terminating zeros `parse_line` writes are in the model; those
`parse_requestline` writes inside a line that has been judged are not. The
method is ended by a tab, as `strpbrk(buffer, "\t")` has it.

### 2.4 UnifiedEventSource

One process: `Main` is the code of `main` from the first `addsig` to the last
`close`, `Deliver` the signals. `SigHandler` runs between any two steps of main
and saves and restores `errno`; `Interrupt` is the handler that ends a blocking
`epoll_wait`. A signal whose handler is not installed has its default action. A
byte that does not fit into the socketpair is dropped, since the descriptor is
non-blocking and the result of `send` is ignored. Accepted connections are
registered by the code and their events ignored: they are one descriptor,
`"client"`.

### 2.5 TestOneshot

`fdsForNew` is the one struct on main's stack that all threads get a pointer to, with its
fields `epollfd` and `sockfd`. A thread copies them in two loads, `ReadSockfd` (line 53)
and then `ReadEpollfd` (line 54); before the first and between the two main may fill the
struct for another thread, or overwrite either field with the locals of another
block (`AcceptClobbers`, `Garbage`). `Arm` is `EPOLL_CTL_ADD`/`MOD`, which looks at the socket
at once; `EpollWait` disables what it reports. `Worker` bounds the number of
threads; when all are busy, or for another reason (a budgeted fault),
`pthread_create` fails, and the code ignores it. `epoll_wait` may fail, which ends main and
every thread with it. `meant`, `mixed` and `abandoned` are history variables.

The defects this makes visible are conditions of the properties rather than hidden.
Once a thread has read another's `sockfd` or a clobbered one (`mixed`) nothing is promised
any longer. Of a connection in `abandoned` it is not promised that its data is noticed:
its thread could not be started, or read a wrong `epollfd`, so that `reset_oneshot` failed
and it is never armed again. Main writes the two fields in one
step (`FillStruct`): `epollfd` is stored first and loaded last, so a thread that loads `sockfd`
between the two stores gets what it gets when it loads it before both. Descriptor numbers are not used again
in the model; the kernel may reuse one after `close`.

### 2.6 EpollSockets

None of this is code of the repository; it is what its servers use. A
connection is its descriptor, and the kernel gives the lowest that is free, so that
descriptors are used again. `ready` holds what something has arrived at since it
was last reported; `epoll_wait` looks again and reports only what can still be
read. What has been left unread is not in `ready`: an edge-triggered server hears
of it with the next arrival only, a level-triggered one names it again as a
candidate of `Wait`. Data is counted in pieces, and a recv takes any number of
them. A close and a reset by the client are one state, `ended`; where it matters
what recv then returns, the server's action has both outcomes. What a client
sends before its connection is accepted is modelled as sent just after.

### 2.7 CloseInactiveConn

| Model | Code |
|---|---|
| `timer`, `allocated`, `list` | `users[].timer`, the `util_timer` objects on the heap, `timer_lst` |
| `Accept` | the branch for `listenfd`: accept, `addfd`, a new timer, `add_timer` |
| `ReadEnd` | `ret == 0` or an error: `cb_func`, `delete_timer` |
| `ReadData` | `ret > 0`: a new `expire`, `adjust_timer` |
| `Second`, `Alarmed`, `Killed` | the clock, the SIGALRM of `alarm`, and SIGTERM |
| `EpollFail` | the `break` when `epoll_wait` fails |

`addsig` fills a `sigaction` and never hands it to the kernel. `sig_handler`, the
branch for the signal pipe and `timer_handler` therefore never run and have no
action; SIGALRM ends the process after `TIMESLOT`, and SIGTERM at any time.
`epoll_ctl` in `cb_func` works on descriptor 0, because the `epollfd` of `main`
hides the global one; it fails, and close takes the registration out all the same.

`adjust_timer` spoils the list (section 4), and this server goes on with it. The
model keeps the list as it is and says what a later walk meets: the null
pointer of the last timer ("crashed"), a cycle ("spinning") or freed memory
("undefined", after which nothing is said). `AddWalk`, `AdjustWalk` and
`Relinked` name the nodes each operation reads or writes. `new` gives the lowest
free address, so that memory is used again as early as it can be. A failing
accept, for want of descriptors or otherwise, trips the assertion in `addfd` ("aborted"). `server`
says how the process has ended; of the rest nothing is kept then.

### 2.8 TestTcpUdp, TestLtEt, ChatroomEpollServer

`TestTcpUdp`: `serving` is the connection `tcp_func` is at, and every turn of its loop
is a step, so that clients act in between. The UDP socket is bound and never
registered, so `udp_func` does not run. A failing `epoll_wait` or accept and a send into a
connection that has been reset end the server.

`TestLtEt`: `main` calls `lt`; nothing calls `et`. A failing accept goes unnoticed,
because `addfd` ignores the result of `epoll_ctl`, and a failing `epoll_wait` only leads to the
next one.

`ChatroomEpollServer`: connections are one-shot and never armed again (`armed`), a
user over the limit is told so (which may end the process by SIGPIPE, "killed") and closed,
entries stay for good. A failing accept trips the assertion ("aborted"), a failing `epoll_wait`
ends the loop ("ended"). The loop over the
users runs `j` and looks at `user_fds[i]`, with `i` the index of the event: inside the
table that has no effect that anything reads, beyond it (`ReadBeyond`) the
behaviour is undefined, and the model stops there.

### 2.9 ChatroomShmClnt

Parent (`sender`), child (`receiver`), a socketpair that is two counters, and the
server as far as the client can tell. One byte of an `int` is sent and received, and
all four are compared with SIGTERM: three of them are uninitialized, so the
comparison may succeed or not (`stopSend' \in {stopSend, TRUE}`). At the end of stdin
`fgets` leaves `buf` as it was, and the line is sent again (`SendsAgain`).
Sending to a server that has gone, or into a socketpair nobody reads, ends the
process by SIGPIPE.

Two ways lead past `epoll_wait` that have nothing to do with the child's byte. A process that is
stopped and continued gets EINTR on Linux though it has no handler; line 67 takes that
for no failure, `ret > 0` does not hold either, and `fgets` is next (`SenderResumes`, `resumed`).
And where `fork` fails main takes the branch of the parent, closes the only other end of
the socketpair and goes on without a child (`receiver = "none"` in `Init`). Any other failure of
`epoll_wait` is `SenderFails`.

### 2.10 ForkMutex, SemIpcPrivate

`ForkMutex` is both programs; `atfork` says which. A mutex that is destroyed can still
be "locked": the call returns an error nobody looks at. The sleeps order nothing. When fork
fails (`ForkFails`) the handler of the parent runs all the same, the thread may lock the mutex
after it, and main destroys the mutex and joins the thread as it does without a failure.
That `pthread_create` and `pthread_atfork` succeed is assumed: without a thread nothing is left to
lock against, and without the handlers the second program is the first.

`SemIpcPrivate`: the flags of `semget` are joined with `&`, which makes the mode 0: an
unprivileged process has no permission for its own semaphore, all calls fail, and
nobody looks. With privileges the semaphore works, and `SEM_UNDO` gives it back when its
holder is killed. A `semop` may fail all the same (`PvFails`: EINTR after a stop and continue, or no
memory for the undo), and the process goes on as if it held the semaphore. To release a semaphore
that is held fails for neither reason. Where fork fails, the program has ended in `Init`.

### 2.11 MCPrograms

The programs of 2.7 to 2.10 have nothing to do with each other; `program`,
chosen in the initial state, says which one runs, and the variables of the others do
not move. `CloseInactiveConn` occurs twice, with different bounds. The fairness
conditions are those of the modules, each for its own program. The client is the
module that is extended, so its definitions are used as they are; the others are
instances, and their properties are repeated under the same names
(`ProgramTypeOK` joins the type invariants). `FewOpen`, `FewBacklog`, `FewConnects` and
`FewUnread` are the smaller of two bounds, for the programs that need no more.

## 3. Runs

All runs are complete explorations, `serv_safety` under a constraint stated below.
"Mutant" means a definition replaced by a plausible mistake, after which TLC finds the property violated; every
property of a passing run has one in `PROJECT.json`.

| Run | Instance | What it shows |
|---|---|---|
| `serv_safety` | 3 connections, 2 slots, one SIGTERM, one failing call, symmetry, `FewDisturbed`; 1,565,694 distinct states | Three clients at two slots is the smallest case in which a child leaves, a later one is refused or admitted, and a third listens. Two children never write one segment (`SegmentSingleWriter`), the tables agree (`RegistryAgrees`), no byte waits unannounced (`SignalNotStuck`), no zombie is forgotten although signals coalesce (`ZombieNotForgotten`), notices come from others whose client has closed (`NotificationsFromOthers`), and a relayed segment is blank (`RelayedSegmentBlank`). The kill loop reaches every live child, whatever exits meanwhile (`SigtermReachesEveryChild`) |
| `serv_live` | 2 connections, 1 slot, one SIGTERM, fairness, no symmetry | Zombies are reaped (`ZombiesReaped`); a terminating server that counts no user and has no child ends, unless a late connection is admitted (`ShutdownProgress`) |
| `timer_list` | 3 timers, spans 1 to 3, time to 4 | The list stays ascending and doubly linked, with exactly the live timers in it (`AscendingDoublyLinked`), and implements the abstract queue (`ImplementsQueue`). Three nodes give a head, an inner node and a tail; equal and different deadlines both occur |
| `http_parser` | 512 streams of three of eight pieces, each cut in every way, a buffer of 14 tokens | The verdict does not depend on where the request was cut (`ParseIsIncremental`); the branch for a LF whose CR was seen in an earlier call is never needed (`NoCrLeftBehind`); zeros are never written into what is still to be judged (`UnjudgedAsSent`). The buffer is shorter than some streams, so that it also fills |
| `unified_events` | a socketpair of 2, a read of 3, 4 signals, 2 connections, one failing accept, fairness | The loop is left because of SIGINT only (`LeavesOnlyOnInt`), bytes are announced (`ByteHasEvent`), closing never breaks the pipe under a handler (`NoBrokenPipe`), SIGINT ends the process unless its byte was dropped (`InterruptStops`). Four signals overflow a socketpair of two |
| `oneshot` | 2 connections, 2 threads, 1 piece of data at a time, one fault, fairness; 159,444 distinct states | One thread per connection (`OneWorkerPerConnection`), no arrival lost between the last recv and `reset_oneshot` (`ArrivalNotOverlooked`), what clients close is closed (`ClosedConnectionsReleased`), with the exceptions of 2.5. Two threads are what it takes for one to load the fields that were meant for the other, before or between its loads |
| `programs` | below, program by program; 364,079 distinct states | what eight small instances keep up, and what four of them bring to an end |

The run `programs`:

| `program` | Instance | What it shows |
|---|---|---|
| `inactive3` | 3 connections at once, 3 made, 1 piece of data each, `TIMESLOT` 1 | Every open connection has a timer of its own and no timer outlives its connection (`TimersOfConnections`), with three nodes in the list, which is what it takes to have one in the middle. Without data the list stays sound and the process alive (`SilenceHarmless`). |
| `inactive2` | 2 connections at once of 4 made, a backlog of 2, 2 pieces of data | The same where descriptors and addresses are used again, accept fails, and data waits behind data |
| `echo` | 2 connections, a backlog of 2, 2 pieces of data | A connection with something to read is being read or has an event to come (`EdgeDrained`) |
| `levels` | the same | A connection its client has ended is read to the end and closed (`EndedIsClosed`) |
| `room` | a table of 2, 3 descriptors, 4 connections, 1 piece of data | Every open connection is in the table (`OpenIsListed`), although it fills up and the third descriptor is refused and used again |
| `client` | 2 messages that wait | Unless `epoll_wait` is interrupted or the fork has failed, the user is asked for input only after the end of the connection (`InputOnlyAfterTheEnd`); after one message neither process gets on, however often interruptions let the user send a line (`SilentAfterMessage`); the end of the child, or its absence, wakes the parent (`ReceiverEndNoticed`). After the first message the child reads none, so a second one is enough |
| `fork` | both programs, with a fork that fails | The program ends unless the mutex was copied while the other thread held it (`EndsUnlessCopiedLocked`) |
| `sem` | with and without permission, any call failing | The two never hold the semaphore at once, and it has its value back in the end (`HoldersApart`); both processes end, whoever is killed wherever (`BothEnd`) |

`FewDisturbed` is a constraint of `serv_safety`. Of three complications no two are taken
together: a third connection, a SIGTERM or a failed call, and a client that resets a connection
it has closed. Each is explored to the end with everything else. What a combination adds is
covered by the theorems of 5.1, which state these properties for any number of connections and
slots, signals and failures, without the constraint.

Bounds are constants: `MaxTerm`, `MaxFault`, `MaxTime`, `MaxSig`, `MaxConn`,
`MaxData`, `MaxConnects`, `MaxBacklog`, `MaxUnread` and `MaxInbox`, some with a
smaller twin `Few...`; `MaxOpen` and `FewOpen` are the process's limit of descriptors. Their budgets are used up by the environment
(the operator, the clients, the clock, failing calls), never by the programs.
`CHECK_DEADLOCK` is off because every program may come to rest: a server waits when
its clients and the operator do nothing, and a program may end. Symmetry is used in
`serv_safety`, which checks no liveness; the connections are interchangeable there.

Fairness. `FairSpec` asks that main, every child and every thread take a step
when one is possible for good, and that the kernel delivers pending signals.
That is what a scheduler and a kernel do. Nothing is asked of clients, of the
operator, of failing calls or of interruptions. In `programs` the conditions are those of the server
of `TestLtEt` (`ServerStep`), of `ReceiverStep` and `SenderWakes` of the client (not
of the user at its keyboard), of the two threads and the child of `ForkMutex`, and of
the two processes at the semaphore. All conditions are weak fairness of whole
processes: no branch of a process is favoured.

## 4. What the code does not keep

Five runs end in a violation, each of one property that a comment or a log line
of the repository states. They are the `findings` of `PROJECT.json`.

* `serv_notice` - the comment at line 146 of `chatroom_shm_serv.c` says that a
  notice means a message in the shared memory. Notices are only sent when a
  client has closed and the segment has just been cleared. `RelayedSegmentBlank`
  is the other side: no message ever reaches another client.
* `serv_still_alive` - line 353 logs `user_count` after the kill loop as
  children still alive. An entry of a child that was reaped before is counted:
  it was never taken out, and `kill` fails on it.
* `timer_adjust_tail` - `!tmp | timer->expire < tmp->expire` evaluates both
  sides; the last timer, of which the comment says nothing changes, has no `tmp`.
* `timer_adjust_order` - the branch of `adjust_timer` for the head inserts the timer twice: that
  is what the run shows. Reading line 126 says that any other timer is inserted without having
  been taken out.
* `close_alarm` - line 52 of `lst_timer.h` says that every SIGALRM leads to a call of `tick`, which
  closes what is due; line 216 of `close_inactive_conn.cpp` says that data puts off the time at
  which a connection is closed. `addsig` (line 51) never calls `sigaction`: the run, 2 connections
  and `TIMESLOT` 1, shows the first alarm ending the process and with it a connection that was
  not due. `InactiveNeverClosed` (5.7) is the other side: no timer is ever due.

`SegmentSingleWriter` and `RegistryAgrees` hold *because* of the first of the
three facts in 2.1: with `pid` as intended, the last entry would be moved to the
freed index while its child went on writing its old segment. The mutants show
that.

## 5. Proofs

Each theorem holds for every value of the constants that satisfies the
module's assumption. TLC evaluates the assumptions in the runs.

### 5.1 ChatroomShmServProofs

`ServAssumption`: at least one slot, natural budgets, and names that do not
collide. Nothing is assumed of `Conn`, not even that it is finite.

| Theorem | Statement | Inductive invariant |
|---|---|---|
| `TypeCorrect` | `Spec => []TypeOK` | `Shape` |
| `RegistryConsistent`, `SingleWriter` | `RegistryAgrees`, `SegmentSingleWriter` | `Shape`, `Registry` |
| `SigtermReaches` | `SigtermReachesEveryChild` | `Shape`, `KillProgress` |
| `SignalPipeWatched`, `ZombiesRemembered` | `SignalNotStuck`, `ZombieNotForgotten` | `Shape`, `SignalsInv` |
| `NoticesFromOthers` | `NotificationsFromOthers` | `Shape`, `NoticeInv` |
| `NoMessageRelayed` | `RelayedSegmentBlank` | `Shape`, `Registry`, `NoticeInv`, `QuietInv` |

* `Shape` adds to the types what keeps the indices in range: entries below
  `user_count` have been written, the kill loop stays below `user_count`, a
  child has a slot exactly when it was forked, pid 1 is never registered. Types
  alone are not inductive: `users[killIdx]` has to be a child.
* `Registry` says that until the kill loop every child ever forked is still in
  the tables at its own slot. It is stronger than `RegistryAgrees`, which speaks
  of entries only and does not tell that a new child gets a slot nobody has.
  Its proof rests on `ReapIgnored`: the body of the waitpid loop changes no
  table.
* `KillProgress` is the loop invariant of the kill loop: every live child has
  been signalled or is at an index still ahead.
* `SignalsInv` adds where `sigs` is empty. The step that consumes a SIGCHLD is
  enabled only when waitpid has found no zombie, which is what `while` (and not
  `if`) is for.
* `NoticeInv` follows a number from the child to main (`UpOK`: it is the
  sender's own slot and the sender's client has closed) and on to the receivers,
  of which the sender is not one.
* `QuietInv` says of every slot on its way over a socketpair that its child has
  read all its client sent before closing and that its segment is blank
  (`Quiet`). A quiet slot stays quiet (`QuietStays`): the client sends nothing
  more, and by `Registry` no other child writes that segment. What is on its
  way after a step was so before or is quiet (`AnnouncedStep`).

Each invariant is shown to hold initially, to be kept by every step (one case
per action, or per group of actions that leave it alone), and to imply the
property; temporal steps are PTL.

### 5.2 UnifiedEventSourceProofs

`EventAssumption`: `PipeCap <= ReadSize`, one recv can take all the socketpair
holds. The kernel's default buffer takes 278 messages of one byte, and `signals`
has 1024 places. `EventTypeCorrect`, `OnlyIntLeaves`, `BytesWatched` and
`PipeNeverBroken` follow from one inductive invariant, `Inv`: the types; that an
interrupted `epoll_wait` leaves EINTR in `errno` until main looks (`ErrnoInv`,
kept because the handler restores `errno`); that the writing end is closed first
(`FdsInv`); and that `events[]` is empty outside the dispatch (`BatchInv`).

### 5.3 TestOneshotProofs

`OneshotAssumption`: names do not collide. Nothing is assumed of `Conn` and `Worker`.

| Theorem | Statement | Inductive invariant |
|---|---|---|
| `OneshotTypeCorrect` | `TypeOK` | itself |
| `OneWorker`, `NothingOverlooked` | `OneWorkerPerConnection`, `ArrivalNotOverlooked` | `Known`, and `OwnInv` until `mixed` |

* `Known`: epoll's ready list holds every armed connection that can be read and no
  connection that is not armed (`ReadyInv`; this is why `EPOLL_CTL_MOD` has to look
  at the socket), and events and threads concern accepted connections (`BatchInv`).
* `OwnInv`: a connection that is open is at exactly one place: armed, in the batch,
  or with one thread. `ApartInv` says at most one, `SomewhereInv` at least one unless
  it is `abandoned` (its thread could not be started, or has a wrong `epollfd`), and `WorkerInv`
  that a thread that has made its first load works on the connection it was started for. The
  last is what the race for `sockfd` breaks; from then on nothing of it can be proved, and
  nothing is claimed. The race for `epollfd` breaks `SomewhereInv` for the one connection only.

### 5.4 Recursion

The library's induction theorems cannot be used here, because they take an operator as
a parameter. `Recursion` gets by without them. A set of natural numbers that is not
empty has a least element (`Least`, from the well-foundedness of `<`); where an induction
is wanted, the proofs take the least index at which a claim fails and look at the one
before. And a function that calls itself last is defined by its equation, even where
its loop runs in a circle (`LoopDefined`): outside the circles it is the value where the
walk ends, which is unique, and inside them any value will do. With this,
`InsertPlace`, `FirstFrom` and `Judge` can be unfolded one call at a time.

### 5.5 SortTimerLstProofs

`TimerAssumption`: `NULL` is no node, spans are positive. The theorems have one hypothesis
more, `OrderKept`: `adjust_timer` is called in the cases "inplace" and "tail" only. The
other two cases do not keep the list (section 4), so there is nothing to prove of
them; "tail" ends the program and is included. `Spans`, `MaxTime` and `Timer` are arbitrary, except that
`ListAscending` asks for finitely many nodes, since `Reachable` counts them.

| Theorem | Statement |
|---|---|
| `ListTypeCorrect` | `Spec => []TypeOK` |
| `ListAscending` | `Spec => []AscendingDoublyLinked` |
| `ListImplementsQueue` | `Spec => ImplementsQueue`, the refinement of `TimerQueue` |

The invariant is `HoldsAll`: there are `n` and `at` such that `at[1]`, ..., `at[n]`
are the allocated nodes, each once, sorted by `expire`, with `next` and `prev`
pointing along the row and nobody else pointing anywhere. `AscendingDoublyLinked` is
not inductive as it stands: it does not say that nodes that are free point
nowhere, and it says in terms of `Reachable` what every step would have to recompute.
Each operation is shown to lead from one row to another:
`AddedHolds` (with `InsertPlaceFound`: the search stops behind the last node
that does not expire later), `DeletedHolds`, `HeadFiredHolds` and `MovedInPlace`.
`HeldIsAscending` reads the property off the row: what `Reachable` collects in
`Cardinality(Timer)` rounds is the row (`ReachableHeld`), because no more than that many
nodes fit into it (`RowFits`).

For the refinement, `NextRefines` maps each action to one of `TimerQueue`: a tick
that fires takes the head, which by the order is the first to expire (`HeadFirst`), and a
tick that ends leaves nothing that is due.

The last section of lemmas (`InsertPlaceEnds`, `AddedTyped`, `HeadMovedTyped`, `OtherMovedTyped`,
`DeletedTyped`) needs no order: on any list of pointers from which the walk ends
(`Ending`) the operations leave a list of pointers. 5.7 uses it for the server.

### 5.6 HttpRecvProofs

`HttpAssumption` only: a buffer of at least one token, and inputs that are sequences of
tokens. Nothing is assumed of how long or how many they are or how they are cut.

| Theorem | Statement |
|---|---|
| `IndicesInOrder` | `TypeOK`: `start_line <= checked_index <= read_index`, within the buffer |
| `AnswerOfWholeText` | `ParseIsIncremental`: the answer is the verdict on the text in one piece |
| `NoCrPassed` | `NoCrLeftBehind`, and that the branch it is about is never taken |
| `CutsStayBehind` | `UnjudgedAsSent` |

The invariant `IInv` adds to the properties: what has been checked of the open line holds no
line break (`NoBreakChecked`), the request line comes first (`FirstLineFirst`), an
answer has been given only at the end (`AnsweredAtTheEnd`), and, above all,
`JudgedFromHere`: the verdict on the whole text is the verdict on what follows
`start_line`, begun in the present state of the parser. This is what makes the parser
incremental, and each parsed line keeps it by one unfolding of `Judge`
(`JudgeLine`). `NoBreakChecked` in turn needs `NoCrLeftBehind`, since a break that was cut in
two would have its first half behind `checked_index`.
TLC has checked the whole of `IInv` on the instance of `http_parser`.

### 5.7 MCProgramsProofs

The theorems are about `ProgramsSpec`, the specification the run `programs` checks, and
state its properties. `ProgramsAssumption` is all that is assumed; TLC evaluates it in
that run. For the timers it says that `NULL` is the address of none, that there are finitely
many but enough for the connections, and that `TIMESLOT` is positive.

| Theorem | Statement | Inductive invariant |
|---|---|---|
| `ProgramsTypeCorrect` | `ProgramTypeOK`: the types of every program | `ProgramsInv`: all that follows, and `ForkInv`, `SemInv`, `PointersInv` |
| `EchoLeavesNothing` | `EdgeDrained` | `EchoInv`: `SocketsInv`, the types and the property itself |
| `RoomTypeCorrect`, `RoomListsOpen` | `TypeOK` of `ChatroomEpollServer`, `OpenIsListed` | `RoomInv`: `SocketsInv`, these, and `BatchFits`: events handled and events to come are together no more than the descriptors |
| `TimersMatchConnections`, `InactiveNeverClosed` | `TimersOfConnections`, `NoTimerEverDue` | `SocketsInv` and `HeapInv`: `OneTimerEach`, `ClockInv`, `ExpireInv` |
| `SemaphoreExcludes` | `HoldersApart` | `SemInv` |
| `SilenceKeepsList` | `SilenceHarmless` | `SilentInv`, of which `HoldsAll` of 5.5 is the main part, and `HeapInv` |
| `ClientTypeCorrect`, `InputComesLate`, `MessageSilences` | `TypeOK` of the client, `InputOnlyAfterTheEnd`, `SilentAfterMessage` | `ClientInv`: these, `BytesInv`, `EndInv` |

* `EpollSockets` shows once that every call keeps `SocketsInv`: the types, that a closed
  descriptor holds no data, and that the listening socket is reported only while
  somebody waits. The proofs about the servers cite these lemmas through their
  instances, call by call.
* `HeapInv` says that open connections have one timer each, that none was set for earlier
  than `3 * TIMESLOT`, and that the clock stops at `TIMESLOT`. It says nothing of the
  pointers of the list and needs nothing of them. Both instances of `CloseInactiveConn`
  take the same steps as far as the timers are concerned (`HeapStep`), so that the bounds
  of the sockets matter only in `Inactive3Steps` and `Inactive2Steps`.
* `SilentInv` says that until data has moved a timer the list is one `HoldsAll` describes. `Lst`
  is `SortTimerLstProofs` with the constants of this program, so that `AddedHolds` and
  `DeletedHolds` are cited and not proved again. To them comes that the operations of the server
  meet with nothing on the way that would end it: `add_timer` walks over allocated
  timers to the end (`AddWalks`), and `del_timer` writes to allocated timers (`DeleteReaches`).
  Both rest on `MetFound`: what `Met` collects from the head of a sound list is its
  timers and `NULL`.
* `PointersInv` holds of the list in any shape, after `adjust_timer` has spoilt it too. The
  search for a place (`InsertPlace`) is a function that calls itself, so that its value is a
  node only where the walk ends. The server adds and moves timers only where `AddWalk` or
  `AdjustWalk` has found that the walk ends; otherwise it is "spinning" or its behaviour is
  "undefined", and the list is not looked at any more. That this is the same walk is `WalkEnding`, and that a walk that
  ends gives a node is `InsertPlaceEnds` in `SortTimerLstProofs`.
* `ForkInv`: the mutex is not destroyed before the child has its copy. `SemInv`: with permission
  the value of the semaphore and what the ends of the processes would give back or take are
  1 together (`Balance`), whoever is killed and whichever call fails. Two holders would have to be
  owed one each, and the value would be below 0.
* `BytesInv`: a byte comes only from a process of the client past its loop. `EndInv`: without an
  interruption the parent gets past its `epoll_wait` only after the child has left its loop, or
  where there is none; and as long as neither is killed the child leaves first only after the
  server has ended.
* `ProgramsInv` is the invariant of the program that runs. A step is one of that program
  (`EchoMoves` and its like); `ProgramsStep` cites the lemma of the program.

### 5.8 Only model-checked

Liveness (`ZombiesReaped`, `ShutdownProgress`, `InterruptStops`,
`ClosedConnectionsReleased`, `ReceiverEndNoticed`, `EndedIsClosed`,
`EndsUnlessCopiedLocked`, `BothEnd`) needs fairness and ENABLED, which the prover does
not handle. Every other property of the
passing runs, invariants and the refinement alike, is stated by a theorem above. The five
runs that expect a violation show what is false, and there is nothing to prove of them.

## 6. Not modelled, and why

Programs that show one system call have no state that could be wrong; the three about
out of band data are straight lines of send and recv. `test_deadlock.c` is written in
order to deadlock. `locker.h` wraps one library call per method and has no user.
`signal_thread.cpp` prints what `sigwait` returns. `zombie_process.c`, `test_uid.c`
and the empty `process_transfor_fd.c` have nothing to check.

Within the modelled programs: setup before the first event is the initial state, and apart
from fork it is taken to have succeeded;
logging is left out, and the content of messages is left out except for whose it is.
Code that never runs has no action: `et` of `test_LTET.c`, `udp_func` of
`testTCP_UDP.c`, and behind the `addsig` of `close_inactive_conn.cpp` its signal
handler, `timer_handler` and the branch for the signal pipe; `tick` itself is checked in
`SortTimerLst`. Lengths in bytes are not modelled: whether a recv fills its buffer and
leaves no room for the terminating zero, or a send is given more than was read, is not
seen by any of these models.

## 7. Order of work, and what is left

The chat room server came first, since it has the most processes and the most
state to agree on; then the timer list; then the event loops; then the server that
uses the list, and the small programs. What is left:

1. The lemmas about `Inactive3` and `Inactive2` differ in the bounds of the sockets only,
   and are written down twice.
2. `locker.h`, if something comes to use it: `cond::wait` has no predicate.
