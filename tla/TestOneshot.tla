----------------------------- MODULE TestOneshot -----------------------------
(***************************************************************************)
(* The multithreaded server of chapter9/9.4/test_oneshot.c: main waits for  *)
(* events and starts one thread per event; EPOLLONESHOT is to keep two      *)
(* threads from serving the same connection.                                *)
(*                                                                         *)
(* A member of Conn is a connection and its descriptor; descriptor numbers  *)
(* are not used again.  A member of Worker is a thread; it is free again    *)
(* when worker has returned.                                                *)
(***************************************************************************)
EXTENDS Integers, FiniteSets

CONSTANTS Conn,      \* the connections that may arrive
          Worker,    \* the threads the system lets the process have
          Garbage,   \* a value in the struct that is no descriptor
          MaxData,   \* bound: pieces of at most BUFSIZE bytes waiting in a socket
          MaxFault   \* bound: failing calls of accept, epoll_wait and pthread_create

ASSUME OneshotAssumption ==
    /\ Garbage \notin Conn \cup {"epoll"} /\ "listen" \notin Conn
    /\ MaxData \in Nat /\ MaxFault \in Nat

VARIABLES
    pc,          \* main: "epoll_wait", "dispatch" or "exit"
    batch,       \* events[] still to be dispatched
    ready,       \* epoll's ready list
    armed,       \* connections whose registration is not disabled by oneshot
    fdsForNew,   \* fds_for_new_worker, one place on main's stack; "epoll" is the
                 \* descriptor of main's epoll set
    wpc,         \* [Worker -> where it is]
    wfd, wep,    \* [Worker -> its local sockfd], [Worker -> its local epollfd]
    meant,       \* [Worker -> the connection main started it for]
    mixed,       \* history: a worker has read another descriptor than it was meant to
    abandoned,   \* history: connections left disabled, because pthread_create failed
                 \* or because reset_oneshot was called with a wrong epollfd
    cs, unread, peer,  \* [Conn -> state, pieces to be read, what the client did]
    faultsLeft

mainVars == <<pc, batch, fdsForNew>>
epollVars == <<ready, armed>>
workerVars == <<wpc, wfd, wep, meant>>
historyVars == <<mixed, abandoned>>
connVars == <<cs, unread, peer>>
vars == <<mainVars, epollVars, workerVars, historyVars, connVars, faultsLeft>>

Init ==
    /\ pc = "epoll_wait" /\ batch = {}
    /\ fdsForNew = [epollfd |-> Garbage, sockfd |-> Garbage]
    /\ ready = {} /\ armed = {}
    /\ wpc = [w \in Worker |-> "free"]
    /\ wfd = [w \in Worker |-> Garbage] /\ wep = [w \in Worker |-> Garbage]
    /\ meant = [w \in Worker |-> Garbage]
    /\ mixed = FALSE /\ abandoned = {}
    /\ cs = [c \in Conn |-> "none"] /\ unread = [c \in Conn |-> 0]
    /\ peer = [c \in Conn |-> "open"]
    /\ faultsLeft = MaxFault

-----------------------------------------------------------------------------
(* epoll.                                                                   *)

Readable(fd) ==
    \/ fd = "listen" /\ \E c \in Conn : cs[c] = "queued"
    \/ fd \in Conn /\ (unread[fd] > 0 \/ peer[fd] # "open")

\* An arrival on connection c puts an armed registration on the ready list.
Arrival(c) == ready' = IF c \in armed THEN ready \cup {c} ELSE ready

\* EPOLL_CTL_ADD and EPOLL_CTL_MOD look at what is readable there and then.
Arm(c) ==
    /\ armed' = armed \cup {c}
    /\ ready' = IF Readable(c) THEN ready \cup {c} ELSE ready

-----------------------------------------------------------------------------
(* main.                                                                    *)

\* Mutation: connections are registered like the listening socket.
EnableOneshotNever == FALSE

\* The flag main passes to addfd for connections, and reset_oneshot sets again.
EnableOneshot == TRUE

\* epoll_wait disables every registration it reports that has EPOLLONESHOT.
EpollWait ==
    /\ pc = "epoll_wait"
    /\ \E fd \in ready : Readable(fd)
    /\ batch' = {fd \in ready : Readable(fd)}
    /\ ready' = {}
    /\ armed' = IF EnableOneshot THEN armed \ batch' ELSE armed
    /\ pc' = "dispatch"
    /\ UNCHANGED <<fdsForNew, workerVars, historyVars, connVars, faultsLeft>>

\* epoll_wait returns -1, for instance because the process was stopped and
\* continued: main returns, and the threads end with it.
EpollFail ==
    /\ pc = "epoll_wait" /\ faultsLeft > 0
    /\ faultsLeft' = faultsLeft - 1
    /\ pc' = "exit"
    /\ UNCHANGED <<batch, fdsForNew, epollVars, workerVars, historyVars, connVars>>

\* client_addr and its size may share their place on the stack with
\* fds_for_new_worker: their scopes do not overlap.  Each field is hit or not.
AcceptClobbers ==
    fdsForNew' \in [epollfd : {fdsForNew.epollfd, Garbage}, sockfd : {fdsForNew.sockfd, Garbage}]

\* One connection per event.
Accept(c) ==
    /\ pc = "dispatch" /\ "listen" \in batch
    /\ cs[c] = "queued"
    /\ batch' = batch \ {"listen"}
    /\ cs' = [cs EXCEPT ![c] = "open"]
    /\ Arm(c)
    /\ AcceptClobbers
    /\ UNCHANGED <<pc, workerVars, historyVars, unread, peer, faultsLeft>>

\* accept fails unnoticed, and addfd fails on the descriptor -1.
AcceptFail ==
    /\ pc = "dispatch" /\ "listen" \in batch
    /\ faultsLeft > 0
    /\ faultsLeft' = faultsLeft - 1
    /\ batch' = batch \ {"listen"}
    /\ AcceptClobbers
    /\ UNCHANGED <<pc, epollVars, workerVars, historyVars, connVars>>

\* The two fields, written in one step: a thread that reads between the stores gets
\* what it gets when it reads sockfd before and epollfd after both.
FillStruct(c) == fdsForNew' = [epollfd |-> "epoll", sockfd |-> c]

\* The struct is filled and a thread is started that will read it.
StartWorker(c, w) ==
    /\ pc = "dispatch" /\ c \in batch
    /\ wpc[w] = "free"
    /\ batch' = batch \ {c}
    /\ FillStruct(c)
    /\ wpc' = [wpc EXCEPT ![w] = "start"]
    /\ meant' = [meant EXCEPT ![w] = c]
    /\ UNCHANGED <<pc, epollVars, wfd, wep, historyVars, connVars, faultsLeft>>

\* pthread_create fails, with no thread left or for another reason, and its
\* result is ignored.
StartFail(c) ==
    /\ pc = "dispatch" /\ c \in batch
    /\ LET fault == \E w \in Worker : wpc[w] = "free"
       IN /\ fault => faultsLeft > 0
          /\ faultsLeft' = IF fault THEN faultsLeft - 1 ELSE faultsLeft
    /\ batch' = batch \ {c}
    /\ FillStruct(c)
    /\ abandoned' = abandoned \cup {c}
    /\ UNCHANGED <<pc, epollVars, workerVars, mixed, connVars>>

BatchDone ==
    /\ pc = "dispatch" /\ batch = {}
    /\ pc' = "epoll_wait"
    /\ UNCHANGED <<batch, fdsForNew, epollVars, workerVars, historyVars, connVars, faultsLeft>>

-----------------------------------------------------------------------------
(* worker.  A recv on Garbage or on a closed descriptor fails for ever with  *)
(* EBADF, and the loop of worker never ends: no step.                        *)

At(w, place) == pc # "exit" /\ wpc[w] = place

\* The thread copies the struct in two loads, which main may have filled again or
\* clobbered before the first or between the two: sockfd
ReadSockfd(w) ==
    /\ At(w, "start")
    /\ wfd' = [wfd EXCEPT ![w] = fdsForNew.sockfd]
    /\ mixed' = (mixed \/ fdsForNew.sockfd # meant[w])
    /\ wpc' = [wpc EXCEPT ![w] = "load"]
    /\ UNCHANGED <<mainVars, epollVars, wep, meant, abandoned, connVars, faultsLeft>>

\* and epollfd.
ReadEpollfd(w) ==
    /\ At(w, "load")
    /\ wep' = [wep EXCEPT ![w] = fdsForNew.epollfd]
    /\ wpc' = [wpc EXCEPT ![w] = "recv"]
    /\ UNCHANGED <<mainVars, epollVars, wfd, meant, historyVars, connVars, faultsLeft>>

\* The worker calls recv on connection c.
Reads(w, c) == At(w, "recv") /\ wfd[w] = c /\ cs[c] = "open"

RecvData(w, c) ==
    /\ Reads(w, c)
    /\ unread[c] > 0 /\ peer[c] # "rst"
    /\ unread' = [unread EXCEPT ![c] = @ - 1]
    /\ wpc' = [wpc EXCEPT ![w] = "sleep"]
    /\ UNCHANGED <<mainVars, epollVars, wfd, wep, meant, historyVars, cs, peer, faultsLeft>>

SleepDone(w) ==
    /\ At(w, "sleep")
    /\ wpc' = [wpc EXCEPT ![w] = "recv"]
    /\ UNCHANGED <<mainVars, epollVars, wfd, wep, meant, historyVars, connVars, faultsLeft>>

\* recv returns 0: close, which also ends the registration.
RecvClosed(w, c) ==
    /\ Reads(w, c)
    /\ unread[c] = 0 /\ peer[c] = "fin"
    /\ cs' = [cs EXCEPT ![c] = "closed"]
    /\ ready' = ready \ {c} /\ armed' = armed \ {c}
    /\ wpc' = [wpc EXCEPT ![w] = "free"]
    /\ UNCHANGED <<mainVars, wfd, wep, meant, historyVars, unread, peer, faultsLeft>>

\* recv fails once with ECONNRESET: nothing is done, and the next recv returns 0.
RecvError(w, c) ==
    /\ Reads(w, c)
    /\ peer[c] = "rst"
    /\ peer' = [peer EXCEPT ![c] = "fin"]
    /\ UNCHANGED <<mainVars, epollVars, workerVars, historyVars, cs, unread, faultsLeft>>

RecvAgain(w, c) ==
    /\ Reads(w, c)
    /\ unread[c] = 0 /\ peer[c] = "open"
    /\ wpc' = [wpc EXCEPT ![w] = "again"]
    /\ UNCHANGED <<mainVars, epollVars, wfd, wep, meant, historyVars, connVars, faultsLeft>>

\* Mutation: the worker leaves the registration disabled.
RearmNever(c) == UNCHANGED <<ready, armed>>

\* Mutation: a descriptor another worker has closed is registered again.
RearmAlways(c) == Arm(c)

\* reset_oneshot on the right epoll set; epoll_ctl fails on a descriptor another
\* worker has closed.
Rearm(c) == IF cs[c] = "open" THEN Arm(c) ELSE UNCHANGED <<ready, armed>>

\* epoll_ctl also fails, unnoticed, when the thread has read a wrong epollfd.
Reset(w, c) ==
    /\ At(w, "again") /\ wfd[w] = c
    /\ \/ /\ wep[w] = "epoll"
          /\ Rearm(c)
          /\ UNCHANGED abandoned
       \/ /\ wep[w] = Garbage
          /\ abandoned' = abandoned \cup {c}
          /\ UNCHANGED epollVars
    /\ wpc' = [wpc EXCEPT ![w] = "free"]
    /\ UNCHANGED <<mainVars, wfd, wep, meant, mixed, connVars, faultsLeft>>

-----------------------------------------------------------------------------
(* The clients.                                                             *)

Connect(c) ==
    /\ pc # "exit" /\ cs[c] = "none"
    /\ cs' = [cs EXCEPT ![c] = "queued"]
    /\ ready' = ready \cup {"listen"}
    /\ UNCHANGED <<mainVars, armed, workerVars, historyVars, unread, peer, faultsLeft>>

ClientSend(c) ==
    /\ pc # "exit" /\ cs[c] \in {"queued", "open"}
    /\ peer[c] = "open" /\ unread[c] < MaxData
    /\ unread' = [unread EXCEPT ![c] = @ + 1]
    /\ Arrival(c)
    /\ UNCHANGED <<mainVars, armed, workerVars, historyVars, cs, peer, faultsLeft>>

\* A reset throws away what has not been read.
ClientEnd(c, how) ==
    /\ pc # "exit" /\ cs[c] \in {"queued", "open"}
    /\ peer[c] = "open"
    /\ peer' = [peer EXCEPT ![c] = how]
    /\ unread' = [unread EXCEPT ![c] = IF how = "rst" THEN 0 ELSE @]
    /\ Arrival(c)
    /\ UNCHANGED <<mainVars, armed, workerVars, historyVars, cs, faultsLeft>>

-----------------------------------------------------------------------------

Main ==
    \/ EpollWait
    \/ EpollFail
    \/ AcceptFail
    \/ \E c \in Conn : Accept(c)
    \/ \E c \in Conn, w \in Worker : StartWorker(c, w)
    \/ \E c \in Conn : StartFail(c)
    \/ BatchDone

Thread(w) ==
    \/ ReadSockfd(w)
    \/ ReadEpollfd(w)
    \/ SleepDone(w)
    \/ \E c \in Conn :
           RecvData(w, c) \/ RecvClosed(w, c) \/ RecvError(w, c) \/ RecvAgain(w, c) \/ Reset(w, c)

Client(c) ==
    \/ Connect(c)
    \/ ClientSend(c)
    \/ \E how \in {"fin", "rst"} : ClientEnd(c, how)

Next ==
    \/ Main
    \/ \E w \in Worker : Thread(w)
    \/ \E c \in Conn : Client(c)

Spec == Init /\ [][Next]_vars

\* The scheduler runs main and every thread.
FairSpec == Spec /\ WF_vars(Main) /\ \A w \in Worker : WF_vars(Thread(w))

-----------------------------------------------------------------------------
(* Properties.                                                              *)

\* Every variable keeps its type; only connections main has accepted are armed.
TypeOK ==
    /\ pc \in {"epoll_wait", "dispatch", "exit"}
    /\ batch \subseteq Conn \cup {"listen"} /\ ready \subseteq Conn \cup {"listen"}
    /\ fdsForNew \in [epollfd : {"epoll", Garbage}, sockfd : Conn \cup {Garbage}]
    /\ wpc \in [Worker -> {"free", "start", "load", "recv", "sleep", "again"}]
    /\ wfd \in [Worker -> Conn \cup {Garbage}] /\ wep \in [Worker -> {"epoll", Garbage}]
    /\ meant \in [Worker -> Conn \cup {Garbage}]
    /\ mixed \in BOOLEAN /\ abandoned \subseteq Conn
    /\ cs \in [Conn -> {"none", "queued", "open", "closed"}]
    /\ unread \in [Conn -> 0 .. MaxData] /\ peer \in [Conn -> {"open", "fin", "rst"}]
    /\ faultsLeft \in 0 .. MaxFault
    /\ armed \subseteq {c \in Conn : cs[c] = "open"}

Busy(w) == wpc[w] # "free"

\* EPOLLONESHOT keeps its promise (lines 110 and 126): no two threads are started
\* for one connection at a time, nor for one whose event is still to come, unless
\* a thread has read the sockfd of another (lines 53 and 129).
OneWorkerPerConnection ==
    ~mixed =>
        \A c \in Conn :
            /\ Cardinality({w \in Worker : Busy(w) /\ meant[w] = c}) <= 1
            /\ c \in batch \cup armed => \A w \in Worker : Busy(w) => meant[w] # c

\* Data or an end of file that waits on a connection is never overlooked: epoll
\* will report it, main is about to start a thread, or a thread is at it.  The
\* exceptions: a thread has read a wrong sockfd (line 53); and a connection whose
\* thread could not be started (line 132), or has read a wrong epollfd (line 54).
ArrivalNotOverlooked ==
    ~mixed =>
        \A c \in Conn \ abandoned :
            cs[c] = "open" /\ Readable(c) =>
                \/ c \in batch
                \/ c \in armed /\ c \in ready
                \/ \E w \in Worker : Busy(w) /\ meant[w] = c

\* A connection the client has closed is closed by the server, with the same
\* exceptions, as long as main runs.
ClosedConnectionsReleased ==
    \A c \in Conn :
        (cs[c] = "open" /\ peer[c] # "open")
            ~> (cs[c] = "closed" \/ mixed \/ c \in abandoned \/ pc = "exit")
=============================================================================
