--------------------------- MODULE ChatroomShmServ ---------------------------
(***************************************************************************)
(* The chat room server of chapter13/13.6/chatroom_shm_serv.c: one process *)
(* that accepts connections and relays notices, and one forked child per   *)
(* accepted connection.  They share a memory object with one segment per   *)
(* user slot, and each child has a socketpair to the main process.         *)
(*                                                                         *)
(* A member of Conn names a client connection, the child that serves it,   *)
(* that child's pid and the main process's end of its socketpair.  Pids are *)
(* never reused.                                                           *)
(*                                                                         *)
(* epoll is edge triggered: an arrival puts a descriptor on the ready list, *)
(* epoll_wait takes the list, keeps what is still readable, and nothing     *)
(* comes back until the next arrival.                                      *)
(***************************************************************************)
EXTENDS Integers, Sequences, FiniteSets

CONSTANTS Conn,       \* the connections that may arrive
          UserLimit,  \* USER_LIMIT, the number of segments
          NoConn,     \* an entry of users[] nobody has written; no message
          PidOne,     \* the number 1 used as a pid: no child has it
          Endings,    \* the ways in which clients end their connection
          MaxTerm,    \* bound: SIGTERM and SIGINT the operator sends
          MaxFault    \* bound: failing calls of epoll_wait, accept, socketpair and fork

ASSUME ServAssumption ==
    /\ UserLimit \in Nat \ {0}
    /\ Endings \subseteq {"fin", "rst", "finrst"}
    /\ MaxTerm \in Nat
    /\ MaxFault \in Nat
    /\ NoConn \notin Conn
    /\ PidOne \notin Conn
    /\ {"listen", "signal"} \cap Conn = {}

VARIABLES
    \* the main process
    mpc,          \* where it is in its loop
    batch,        \* events[] still to be dispatched
    sigs,         \* signals[] still to be handled
    killIdx,      \* j of the kill loop
    userCount, users, processUser, terminate, stopServer,
    interest,     \* descriptors registered with epollfd
    ready,        \* those with an arrival since the last epoll_wait
    \* signals
    pendSig,      \* pending for the main process; a kind is pending once
    signalPipe,   \* bytes between signal_pipefd[1] and signal_pipefd[0]
    pendTerm,     \* [Conn -> BOOLEAN] SIGTERM pending for the child
    \* the children
    cpc,          \* [Conn -> where the connection or its child is]
    slot,         \* [Conn -> the user_count argument of run_child, or -1]
    stopChild, cready, cevents,
    shm,          \* [slot -> whose message the segment holds, or NoConn]
    pipeUp,       \* numbers from the child to the main process
    pipeDown,     \* numbers from the main process to the child
    \* the clients
    unread,       \* [Conn -> BOOLEAN] data waits in the child's socket
    peer,         \* what the client has done to its connection
    \* budgets
    termsLeft, faultsLeft

mainVars == <<mpc, batch, sigs, killIdx>>
tableVars == <<userCount, users, processUser, terminate, stopServer>>
epollVars == <<interest, ready>>
sigVars == <<pendSig, signalPipe, pendTerm>>
childVars == <<cpc, slot, stopChild, cready, cevents>>
commVars == <<shm, pipeUp, pipeDown>>
clientVars == <<unread, peer>>
budgetVars == <<termsLeft, faultsLeft>>
vars == <<mainVars, tableVars, epollVars, sigVars, childVars, commVars,
          clientVars, budgetVars>>

Slots == 0 .. UserLimit - 1
Fds == {"listen", "signal"} \cup Conn
MainPc == {"epoll_wait", "dispatch", "signals", "reap", "kill", "stopped"}
Running == {"forked", "detached", "check", "epoll_wait", "dispatch"}
ChildPc == Running \cup {"none", "queued", "zombie", "reaped", "refused", "failed"}

Init ==
    /\ mpc = "epoll_wait" /\ batch = {} /\ sigs = <<>> /\ killIdx = -1
    /\ userCount = 0 /\ terminate = FALSE /\ stopServer = FALSE
    /\ users = [i \in Slots |-> NoConn]
    /\ processUser = [p \in Conn \cup {PidOne} |-> -1]
    /\ interest = {"listen", "signal"} /\ ready = {}
    /\ pendSig = {} /\ signalPipe = <<>> /\ pendTerm = [c \in Conn |-> FALSE]
    /\ cpc = [c \in Conn |-> "none"] /\ slot = [c \in Conn |-> -1]
    /\ stopChild = [c \in Conn |-> FALSE]
    /\ cready = [c \in Conn |-> {}] /\ cevents = [c \in Conn |-> {}]
    /\ shm = [i \in Slots |-> NoConn]
    /\ pipeUp = [c \in Conn |-> <<>>] /\ pipeDown = [c \in Conn |-> <<>>]
    /\ unread = [c \in Conn |-> FALSE] /\ peer = [c \in Conn |-> "open"]
    /\ termsLeft = MaxTerm /\ faultsLeft = MaxFault

-----------------------------------------------------------------------------
(* The kernel: edges, signals and what is readable.                         *)

\* An arrival on fd of the main process.
Edge(fd) == ready' = IF fd \in interest THEN ready \cup {fd} ELSE ready

Alive(c) == cpc[c] \in Running

Readable(fd) ==
    \/ fd = "listen" /\ \E c \in Conn : cpc[c] = "queued"
    \/ fd = "signal" /\ signalPipe # <<>>
    \/ fd \in Conn /\ (pipeUp[fd] # <<>> \/ ~Alive(fd))

\* handler: a signal caught by the main process becomes one byte in the pipe.
Handler(s) ==
    /\ mpc # "stopped"
    /\ s \in pendSig
    /\ pendSig' = pendSig \ {s}
    /\ signalPipe' = Append(signalPipe, s)
    /\ Edge("signal")
    /\ UNCHANGED <<mainVars, tableVars, interest, pendTerm, childVars, commVars,
                   clientVars, budgetVars>>

\* The operator sends SIGTERM or SIGINT, which main treats alike.
RaiseTerm ==
    /\ termsLeft > 0
    /\ mpc # "stopped"
    /\ termsLeft' = termsLeft - 1
    /\ pendSig' = pendSig \cup {"TERM"}
    /\ UNCHANGED <<mainVars, tableVars, epollVars, signalPipe, pendTerm, childVars,
                   commVars, clientVars, faultsLeft>>

-----------------------------------------------------------------------------
(* The main process.                                                        *)

EpollWait ==
    /\ mpc = "epoll_wait"
    /\ \E got \in {{fd \in ready : Readable(fd)}} :
           /\ got # {}
           /\ batch' = got
    /\ ready' = {}
    /\ mpc' = "dispatch"
    /\ UNCHANGED <<sigs, killIdx, tableVars, interest, sigVars, childVars,
                   commVars, clientVars, budgetVars>>

\* epoll_wait fails otherwise than with EINTR: the loop is left.
EpollFail ==
    /\ mpc = "epoll_wait"
    /\ faultsLeft > 0
    /\ faultsLeft' = faultsLeft - 1
    /\ mpc' = "stopped"
    /\ UNCHANGED <<batch, sigs, killIdx, tableVars, epollVars, sigVars, childVars,
                   commVars, clientVars, termsLeft>>

\* accept fails (the connection stays queued) and the event is consumed.
AcceptFail ==
    /\ mpc = "dispatch" /\ "listen" \in batch
    /\ faultsLeft > 0
    /\ faultsLeft' = faultsLeft - 1
    /\ batch' = batch \ {"listen"}
    /\ UNCHANGED <<mpc, sigs, killIdx, tableVars, epollVars, sigVars, childVars,
                   commVars, clientVars, termsLeft>>

\* Mutation: the test lets one user too many in.
FullOffByOne == userCount > UserLimit

Full == userCount >= UserLimit

\* One accept per event.  Which queued connection comes first is left open.
Accept(c) ==
    /\ mpc = "dispatch" /\ "listen" \in batch
    /\ cpc[c] = "queued"
    /\ batch' = batch \ {"listen"}

AcceptRefuse(c) ==
    /\ Accept(c)
    /\ Full
    /\ cpc' = [cpc EXCEPT ![c] = "refused"]
    /\ UNCHANGED <<mpc, sigs, killIdx, tableVars, epollVars, sigVars, slot, stopChild,
                   cready, cevents, commVars, clientVars, budgetVars>>

\* socketpair fails, and so does the assertion: the main process is gone, the
\* children are not.
AcceptAbort(c) ==
    /\ Accept(c)
    /\ ~Full
    /\ faultsLeft > 0
    /\ faultsLeft' = faultsLeft - 1
    /\ cpc' = [cpc EXCEPT ![c] = "failed"]
    /\ mpc' = "stopped"
    /\ UNCHANGED <<sigs, killIdx, tableVars, epollVars, sigVars, slot, stopChild,
                   cready, cevents, commVars, clientVars, termsLeft>>

AcceptForkFail(c) ==
    /\ Accept(c)
    /\ ~Full
    /\ faultsLeft > 0
    /\ faultsLeft' = faultsLeft - 1
    /\ cpc' = [cpc EXCEPT ![c] = "failed"]
    /\ UNCHANGED <<mpc, sigs, killIdx, tableVars, epollVars, sigVars, slot, stopChild,
                   cready, cevents, commVars, clientVars, termsLeft>>

\* Mutation: the count is advanced before it is recorded.
RegisteredAsNext == userCount + 1

RegisteredAs == userCount

\* accept, socketpair, fork and the parent's bookkeeping.  What the child
\* does meanwhile commutes with the bookkeeping.
AcceptFork(c) ==
    /\ Accept(c)
    /\ ~Full
    /\ cpc' = [cpc EXCEPT ![c] = "forked"]
    /\ slot' = [slot EXCEPT ![c] = userCount]
    /\ users' = [users EXCEPT ![userCount] = c]
    /\ processUser' = [processUser EXCEPT ![c] = RegisteredAs]
    /\ userCount' = userCount + 1
    /\ interest' = interest \cup {c}
    /\ UNCHANGED <<mpc, sigs, killIdx, terminate, stopServer, ready, sigVars, stopChild,
                   cready, cevents, commVars, clientVars, budgetVars>>

\* Mutation: the child that announced is not left out.
ReceiversAll(c) == {users[j] : j \in 0 .. userCount - 1}

\* The children that a notice from c is passed on to.
Receivers(c) == {users[j] : j \in 0 .. userCount - 1} \ {c}

\* A number, or the end of file, from child c.  One number is read per event.
PipeEvent(c) ==
    /\ mpc = "dispatch" /\ c \in batch
    /\ batch' = batch \ {c}
    /\ IF pipeUp[c] = <<>>
       THEN UNCHANGED <<pipeUp, pipeDown, cready>>
       ELSE /\ pipeUp' = [pipeUp EXCEPT ![c] = Tail(@)]
            /\ pipeDown' = [d \in Conn |->
                   IF d \in Receivers(c) /\ Alive(d)
                   THEN Append(pipeDown[d], Head(pipeUp[c])) ELSE pipeDown[d]]
            /\ cready' = [d \in Conn |->
                   IF d \in Receivers(c) /\ Alive(d)
                   THEN cready[d] \cup {"pipe"} ELSE cready[d]]
    /\ UNCHANGED <<mpc, sigs, killIdx, tableVars, epollVars, sigVars, cpc, slot,
                   stopChild, cevents, shm, clientVars, budgetVars>>

\* Mutation: the handler of the event reads one byte only.
ReceivedOne(pipe) == SubSeq(pipe, 1, 1)

\* What one recv of sizeof(signals) bytes takes from the signal pipe, which
\* the kernel never lets grow to that size.
Received(pipe) == pipe

SignalEvent ==
    /\ mpc = "dispatch" /\ "signal" \in batch
    /\ batch' = batch \ {"signal"}
    /\ sigs' = Received(signalPipe)
    /\ signalPipe' = SubSeq(signalPipe, Len(Received(signalPipe)) + 1, Len(signalPipe))
    /\ mpc' = "signals"
    /\ UNCHANGED <<killIdx, tableVars, epollVars, pendSig, pendTerm, childVars,
                   commVars, clientVars, budgetVars>>

SigChld ==
    /\ mpc = "signals" /\ sigs # <<>> /\ Head(sigs) = "CHLD"
    /\ mpc' = "reap"
    /\ UNCHANGED <<batch, sigs, killIdx, tableVars, epollVars, sigVars, childVars,
                   commVars, clientVars, budgetVars>>

\* Mutation: pid is what waitpid returned.
ReapedPidIntended(c) == c

\* The value of pid in the loop.  The source writes pid = waitpid(...) > 0, so
\* pid is the truth value of the comparison and never the pid of the child.
ReapedPid(c) == PidOne

\* waitpid returns child c: the body of the loop.
Reap(c) ==
    /\ mpc = "reap"
    /\ cpc[c] = "zombie"
    /\ cpc' = [cpc EXCEPT ![c] = "reaped"]
    /\ LET pid == ReapedPid(c)
           delUser == processUser[pid]
       IN IF delUser < 0 \/ delUser >= UserLimit
          THEN /\ processUser' = [processUser EXCEPT ![pid] = -1]
               /\ UNCHANGED <<interest, ready, pipeUp, userCount, users>>
          ELSE /\ interest' = interest \ {users[delUser]}
               /\ ready' = ready \ {users[delUser]}
               /\ pipeUp' = [pipeUp EXCEPT ![users[delUser]] = <<>>]
               /\ userCount' = userCount - 1
               /\ users' = [users EXCEPT ![delUser] = users[userCount - 1]]
               /\ processUser' = [processUser EXCEPT ![pid] = -1,
                                                     ![users[userCount - 1]] = delUser]
    /\ UNCHANGED <<mainVars, terminate, stopServer, sigVars, slot, stopChild,
                   cready, cevents, shm, pipeDown, clientVars, budgetVars>>

\* Mutation: an if in the place of the while.
NoZombieLeftIf == TRUE

\* The loop condition: waitpid has no zombie left to return.
NoZombieLeft == \A c \in Conn : cpc[c] # "zombie"

\* Mutation: the test for the end is only made when SIGTERM finds no user.
LastChildGoneNever == FALSE

\* The test after the loop.
LastChildGone == terminate /\ userCount = 0

ReapDone ==
    /\ mpc = "reap"
    /\ NoZombieLeft
    /\ stopServer' = (stopServer \/ LastChildGone)
    /\ sigs' = Tail(sigs)
    /\ mpc' = "signals"
    /\ UNCHANGED <<batch, killIdx, userCount, users, processUser, terminate, epollVars,
                   sigVars, childVars, commVars, clientVars, budgetVars>>

SigTermIdle ==
    /\ mpc = "signals" /\ sigs # <<>> /\ Head(sigs) = "TERM"
    /\ userCount = 0
    /\ stopServer' = TRUE
    /\ sigs' = Tail(sigs)
    /\ UNCHANGED <<mpc, batch, killIdx, userCount, users, processUser, terminate,
                   epollVars, sigVars, childVars, commVars, clientVars, budgetVars>>

\* Mutation: the kill loop starts one entry too low.
LastUserLow == userCount - 2

LastUser == userCount - 1

SigTermKill ==
    /\ mpc = "signals" /\ sigs # <<>> /\ Head(sigs) = "TERM"
    /\ userCount # 0
    /\ killIdx' = LastUser
    /\ mpc' = "kill"
    /\ UNCHANGED <<batch, sigs, tableVars, epollVars, sigVars, childVars, commVars,
                   clientVars, budgetVars>>

\* kill fails: the pid was reaped before.  The entry stays counted.
KillFail ==
    /\ mpc = "kill" /\ killIdx >= 0
    /\ cpc[users[killIdx]] = "reaped"
    /\ killIdx' = killIdx - 1
    /\ UNCHANGED <<mpc, batch, sigs, tableVars, epollVars, sigVars, childVars, commVars,
                   clientVars, budgetVars>>

\* kill succeeds, on a zombie too.
Kill ==
    /\ mpc = "kill" /\ killIdx >= 0
    /\ LET c == users[killIdx]
       IN /\ cpc[c] # "reaped"
          /\ pendTerm' = [pendTerm EXCEPT ![c] = Alive(c)]
          /\ processUser' = [processUser EXCEPT ![c] = -1]
          /\ interest' = interest \ {c}
          /\ ready' = ready \ {c}
    /\ userCount' = userCount - 1
    /\ killIdx' = killIdx - 1
    /\ UNCHANGED <<mpc, batch, sigs, users, terminate, stopServer, pendSig, signalPipe,
                   childVars, commVars, clientVars, budgetVars>>

KillDone ==
    /\ mpc = "kill" /\ killIdx = -1
    /\ terminate' = TRUE
    /\ sigs' = Tail(sigs)
    /\ mpc' = "signals"
    /\ UNCHANGED <<batch, killIdx, userCount, users, processUser, stopServer, epollVars,
                   sigVars, childVars, commVars, clientVars, budgetVars>>

SignalsDone ==
    /\ mpc = "signals" /\ sigs = <<>>
    /\ mpc' = "dispatch"
    /\ UNCHANGED <<batch, sigs, killIdx, tableVars, epollVars, sigVars, childVars,
                   commVars, clientVars, budgetVars>>

\* The end of the for loop and the test of the while loop.
BatchDone ==
    /\ mpc = "dispatch" /\ batch = {}
    /\ mpc' = IF stopServer THEN "stopped" ELSE "epoll_wait"
    /\ UNCHANGED <<batch, sigs, killIdx, tableVars, epollVars, sigVars, childVars,
                   commVars, clientVars, budgetVars>>

-----------------------------------------------------------------------------
(* A child process: the code after fork, run_child, exit.                   *)

\* It closes its copies of the main process's descriptors.
Detach(c) ==
    /\ cpc[c] = "forked"
    /\ cpc' = [cpc EXCEPT ![c] = "detached"]
    /\ UNCHANGED <<mainVars, tableVars, epollVars, sigVars, slot, stopChild, cready,
                   cevents, commVars, clientVars, budgetVars>>

\* It registers its descriptors and installs child_term_handler.  What arrived
\* before is on its ready list: nothing has been read yet.
Register(c) ==
    /\ cpc[c] = "detached"
    /\ cpc' = [cpc EXCEPT ![c] = "check"]
    /\ UNCHANGED <<mainVars, tableVars, epollVars, sigVars, slot, stopChild, cready,
                   cevents, commVars, clientVars, budgetVars>>

ChildContinue(c) ==
    /\ cpc[c] = "check" /\ ~stopChild[c]
    /\ cpc' = [cpc EXCEPT ![c] = "epoll_wait"]
    /\ UNCHANGED <<mainVars, tableVars, epollVars, sigVars, slot, stopChild, cready,
                   cevents, commVars, clientVars, budgetVars>>

\* The loop ends: close, exit(0), SIGCHLD to the parent, end of file on the
\* socketpair.  What the child had not read is gone.
ChildExit(c) ==
    /\ cpc[c] = "check" /\ stopChild[c]
    /\ cpc' = [cpc EXCEPT ![c] = "zombie"]
    /\ pendSig' = pendSig \cup {"CHLD"}
    /\ Edge(c)
    /\ pendTerm' = [pendTerm EXCEPT ![c] = FALSE]
    /\ cready' = [cready EXCEPT ![c] = {}]
    /\ pipeDown' = [pipeDown EXCEPT ![c] = <<>>]
    /\ unread' = [unread EXCEPT ![c] = FALSE]
    /\ UNCHANGED <<mainVars, tableVars, interest, signalPipe, slot, stopChild, cevents,
                   shm, pipeUp, peer, budgetVars>>

ChildReadable(c, e) ==
    \/ e = "conn" /\ (unread[c] \/ peer[c] # "open")
    \/ e = "pipe" /\ pipeDown[c] # <<>>

ChildEpollWait(c) ==
    /\ cpc[c] = "epoll_wait"
    /\ \E got \in {{e \in cready[c] : ChildReadable(c, e)}} :
           /\ got # {}
           /\ cevents' = [cevents EXCEPT ![c] = got]
    /\ cready' = [cready EXCEPT ![c] = {}]
    /\ cpc' = [cpc EXCEPT ![c] = "dispatch"]
    /\ UNCHANGED <<mainVars, tableVars, epollVars, sigVars, slot, stopChild, commVars,
                   clientVars, budgetVars>>

\* What recv on connfd returns: queued data first, then 0 after a FIN (also when
\* a reset followed it), then -1.
RecvResult(c) == IF unread[c] THEN 1 ELSE IF peer[c] = "rst" THEN -1 ELSE 0

\* Mutation: the branch as it was meant, data announced and end of file a stop.
StopsOnIntended(ret) == ret <= 0

\* The branch of run_child on the result: TRUE is stop_child = true.
StopsOn(ret) == ret # 0

\* memset, recv and the branch.  On 0 the child announces its slot.
RecvClient(c) ==
    /\ cpc[c] = "dispatch" /\ "conn" \in cevents[c]
    /\ cevents' = [cevents EXCEPT ![c] = @ \ {"conn"}]
    /\ shm' = [shm EXCEPT ![slot[c]] = IF RecvResult(c) > 0 THEN c ELSE NoConn]
    /\ unread' = [unread EXCEPT ![c] = FALSE]
    /\ IF StopsOn(RecvResult(c))
       THEN /\ stopChild' = [stopChild EXCEPT ![c] = TRUE]
            /\ UNCHANGED <<pipeUp, ready>>
       ELSE /\ pipeUp' = [pipeUp EXCEPT ![c] = Append(@, slot[c])]
            /\ Edge(c)
            /\ UNCHANGED stopChild
    /\ UNCHANGED <<mainVars, tableVars, interest, sigVars, cpc, slot, cready, pipeDown,
                   peer, budgetVars>>

\* One number is read from the pipe and that segment is sent to the client.
RecvNotice(c) ==
    /\ cpc[c] = "dispatch" /\ "pipe" \in cevents[c]
    /\ cevents' = [cevents EXCEPT ![c] = @ \ {"pipe"}]
    /\ pipeDown' = [pipeDown EXCEPT ![c] = IF @ = <<>> THEN @ ELSE Tail(@)]
    /\ UNCHANGED <<mainVars, tableVars, epollVars, sigVars, cpc, slot, stopChild, cready,
                   shm, pipeUp, clientVars, budgetVars>>

ChildBatchDone(c) ==
    /\ cpc[c] = "dispatch" /\ cevents[c] = {}
    /\ cpc' = [cpc EXCEPT ![c] = "check"]
    /\ UNCHANGED <<mainVars, tableVars, epollVars, sigVars, slot, stopChild, cready,
                   cevents, commVars, clientVars, budgetVars>>

\* SIGTERM with the inherited handler and the inherited signal pipe: the byte
\* goes to the main process.
TermForked(c) ==
    /\ pendTerm[c] /\ cpc[c] = "forked"
    /\ pendTerm' = [pendTerm EXCEPT ![c] = FALSE]
    /\ signalPipe' = Append(signalPipe, "TERM")
    /\ Edge("signal")
    /\ UNCHANGED <<mainVars, tableVars, interest, pendSig, childVars, commVars,
                   clientVars, budgetVars>>

\* SIGTERM with the inherited handler after the pipe was closed: lost.
TermDetached(c) ==
    /\ pendTerm[c] /\ cpc[c] = "detached"
    /\ pendTerm' = [pendTerm EXCEPT ![c] = FALSE]
    /\ UNCHANGED <<mainVars, tableVars, epollVars, pendSig, signalPipe, childVars,
                   commVars, clientVars, budgetVars>>

\* child_term_handler runs outside the blocking call, just before it included:
\* a child about to block does not look at the flag again.
TermFlag(c) ==
    /\ pendTerm[c] /\ cpc[c] \in {"check", "epoll_wait", "dispatch"}
    /\ pendTerm' = [pendTerm EXCEPT ![c] = FALSE]
    /\ stopChild' = [stopChild EXCEPT ![c] = TRUE]
    /\ UNCHANGED <<mainVars, tableVars, epollVars, pendSig, signalPipe, cpc, slot, cready,
                   cevents, commVars, clientVars, budgetVars>>

\* child_term_handler interrupts the blocked epoll_wait, which fails with EINTR.
TermInterrupt(c) ==
    /\ pendTerm[c] /\ cpc[c] = "epoll_wait"
    /\ pendTerm' = [pendTerm EXCEPT ![c] = FALSE]
    /\ stopChild' = [stopChild EXCEPT ![c] = TRUE]
    /\ cpc' = [cpc EXCEPT ![c] = "check"]
    /\ UNCHANGED <<mainVars, tableVars, epollVars, pendSig, signalPipe, slot, cready,
                   cevents, commVars, clientVars, budgetVars>>

-----------------------------------------------------------------------------
(* The clients.                                                             *)

Connected(c) == cpc[c] = "queued" \/ Alive(c)

Connect(c) ==
    /\ cpc[c] = "none" /\ mpc # "stopped"
    /\ cpc' = [cpc EXCEPT ![c] = "queued"]
    /\ Edge("listen")
    /\ UNCHANGED <<mainVars, tableVars, interest, sigVars, slot, stopChild, cready,
                   cevents, commVars, clientVars, budgetVars>>

ClientSend(c) ==
    /\ Connected(c) /\ peer[c] = "open" /\ ~unread[c]
    /\ unread' = [unread EXCEPT ![c] = TRUE]
    /\ cready' = [cready EXCEPT ![c] = @ \cup {"conn"}]
    /\ UNCHANGED <<mainVars, tableVars, epollVars, sigVars, cpc, slot, stopChild, cevents,
                   commVars, peer, budgetVars>>

\* An orderly close, or a reset; a reset after a close answers what the child
\* sends to a client that is gone.
ClientEnd(c, how) ==
    /\ Connected(c)
    /\ \/ peer[c] = "open" /\ how \in {"fin", "rst"}
       \/ peer[c] = "fin" /\ how = "finrst"
    /\ peer' = [peer EXCEPT ![c] = how]
    /\ cready' = [cready EXCEPT ![c] = @ \cup {"conn"}]
    /\ UNCHANGED <<mainVars, tableVars, epollVars, sigVars, cpc, slot, stopChild, cevents,
                   commVars, unread, budgetVars>>

-----------------------------------------------------------------------------

Deliver == \E s \in {"CHLD", "TERM"} : Handler(s)

Main ==
    \/ EpollWait
    \/ EpollFail
    \/ AcceptFail
    \/ \E c \in Conn : AcceptRefuse(c) \/ AcceptAbort(c) \/ AcceptForkFail(c) \/ AcceptFork(c)
    \/ \E c \in Conn : PipeEvent(c)
    \/ SignalEvent
    \/ SigChld
    \/ \E c \in Conn : Reap(c)
    \/ ReapDone
    \/ SigTermIdle
    \/ SigTermKill
    \/ KillFail
    \/ Kill
    \/ KillDone
    \/ SignalsDone
    \/ BatchDone

Child(c) ==
    \/ Detach(c)
    \/ Register(c)
    \/ ChildContinue(c)
    \/ ChildExit(c)
    \/ ChildEpollWait(c)
    \/ RecvClient(c)
    \/ RecvNotice(c)
    \/ ChildBatchDone(c)
    \/ TermForked(c)
    \/ TermDetached(c)
    \/ TermFlag(c)
    \/ TermInterrupt(c)

Client(c) ==
    \/ Connect(c)
    \/ ClientSend(c)
    \/ \E how \in Endings : ClientEnd(c, how)

Next ==
    \/ Deliver
    \/ RaiseTerm
    \/ Main
    \/ \E c \in Conn : Child(c)
    \/ \E c \in Conn : Client(c)

Spec == Init /\ [][Next]_vars

\* The scheduler runs the main process and every child, and the kernel
\* delivers pending signals.  Clients and the operator owe nothing.
Fairness ==
    /\ WF_vars(Main)
    /\ WF_vars(Deliver)
    /\ \A c \in Conn : WF_vars(Child(c))

FairSpec == Spec /\ Fairness
-----------------------------------------------------------------------------
(* Properties.                                                              *)

MainTypeOK ==
    /\ mpc \in MainPc /\ batch \subseteq Fds /\ sigs \in Seq({"CHLD", "TERM"})
    /\ killIdx \in -1 .. UserLimit - 1
    /\ terminate \in BOOLEAN /\ stopServer \in BOOLEAN

TableTypeOK ==
    /\ userCount \in 0 .. UserLimit
    /\ users \in [Slots -> Conn \cup {NoConn}]
    /\ processUser \in [Conn \cup {PidOne} -> -1 .. UserLimit - 1]

KernelTypeOK ==
    /\ interest \subseteq Fds /\ ready \subseteq interest
    /\ pendSig \subseteq {"CHLD", "TERM"} /\ signalPipe \in Seq({"CHLD", "TERM"})
    /\ pendTerm \in [Conn -> BOOLEAN]
    /\ termsLeft \in 0 .. MaxTerm /\ faultsLeft \in 0 .. MaxFault

ChildTypeOK ==
    /\ cpc \in [Conn -> ChildPc] /\ slot \in [Conn -> -1 .. UserLimit - 1]
    /\ stopChild \in [Conn -> BOOLEAN]
    /\ cready \in [Conn -> SUBSET {"conn", "pipe"}]
    /\ cevents \in [Conn -> SUBSET {"conn", "pipe"}]

CommTypeOK ==
    /\ shm \in [Slots -> Conn \cup {NoConn}]
    /\ pipeUp \in [Conn -> Seq(Slots)] /\ pipeDown \in [Conn -> Seq(Slots)]
    /\ unread \in [Conn -> BOOLEAN]
    /\ peer \in [Conn -> {"open", "fin", "rst", "finrst"}]

\* Every variable keeps its type: the program counters, the tables and the
\* counters of the code stay in range (userCount <= UserLimit among them).
TypeOK == MainTypeOK /\ TableTypeOK /\ KernelTypeOK /\ ChildTypeOK /\ CommTypeOK

\* SIGTERM has been taken up: the kill loop has begun.
Terminating == terminate \/ mpc = "kill"

\* Until the kill loop begins no two live children write the same segment of
\* the shared memory (run_child clears and fills segment user_count without a
\* lock).  The deregistration in the SIGCHLD branch would break this: the last
\* entry is moved to the freed index while its child keeps its old segment.
SegmentSingleWriter ==
    ~Terminating =>
        \A c, d \in Conn : Alive(c) /\ Alive(d) /\ c # d => slot[c] # slot[d]

\* Until the kill loop begins users[] and process_user[] describe the same
\* children, each at the index whose segment it was given.
RegistryAgrees ==
    ~Terminating =>
        \A i \in 0 .. userCount - 1 :
            /\ users[i] \in Conn
            /\ slot[users[i]] = i
            /\ processUser[users[i]] = i

\* When main first sets terminate, kill has succeeded on every child that is
\* alive (line 349 clears its process_user entry after that kill), whatever
\* exited or was reaped while the loop ran.
SigtermReachesEveryChild ==
    [][~terminate /\ terminate' =>
           \A c \in Conn : Alive(c) => processUser[c] = -1]_vars

\* A byte of a signal handler never stays behind in the signal pipe without an
\* event that will make main read it (edge triggered, one recv per event).
SignalNotStuck ==
    signalPipe # <<>> => "signal" \in ready \cup batch

InSeq(x, s) == \E i \in DOMAIN s : s[i] = x

\* As long as main runs, a zombie child has a SIGCHLD on its way: pending, in
\* the pipe, or among the signals main is handling.  Pending signals coalesce,
\* so one byte may stand for several children.
ZombieNotForgotten ==
    (\E c \in Conn : cpc[c] = "zombie") =>
        \/ mpc = "stopped"
        \/ "CHLD" \in pendSig
        \/ InSeq("CHLD", signalPipe)
        \/ InSeq("CHLD", sigs)

Gone(c) == peer[c] \in {"fin", "finrst"}

\* A child is only ever told about a slot of another child, one whose client
\* has closed its connection: what lines 141 and 383 send is a disconnection.
NotificationsFromOthers ==
    \A c \in Conn : \A i \in DOMAIN pipeDown[c] :
        \E d \in Conn \ {c} : slot[d] = pipeDown[c][i] /\ Gone(d)

\* Until the kill loop begins the segment a child is told to relay is blank: no
\* message of a client ever reaches another client.
RelayedSegmentBlank ==
    ~Terminating =>
        \A c \in Conn : \A i \in DOMAIN pipeDown[c] : shm[pipeDown[c][i]] = NoConn

\* Every zombie is reaped, or the main process ends.
ZombiesReaped ==
    \A c \in Conn : cpc[c] = "zombie" ~> (cpc[c] = "reaped" \/ mpc = "stopped")

\* Once main is terminating, counts no user and has no live child, it stops,
\* unless a late connection is accepted and counted.
ShutdownProgress ==
    (terminate /\ userCount = 0 /\ \A c \in Conn : ~Alive(c))
        ~> (mpc = "stopped" \/ userCount > 0)

\* Line 146 says of a notice that there is a message in the shared memory.
NotificationMeansMessage ==
    \A c \in Conn :
        cpc[c] = "dispatch" /\ "pipe" \in cevents[c] => shm[Head(pipeDown[c])] # NoConn

\* Line 353 logs user_count after the kill loop as children still alive.
StillAliveCount ==
    mpc = "kill" /\ killIdx = -1 => userCount <= Cardinality({c \in Conn : Alive(c)})
=============================================================================
