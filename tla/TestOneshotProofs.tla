--------------------------- MODULE TestOneshotProofs ---------------------------
(***************************************************************************)
(* Theorems about TestOneshot, for any set of connections, any number of      *)
(* threads and any number of failing calls.                                 *)
(***************************************************************************)
EXTENDS TestOneshot, FiniteSetTheorems, TLAPS

USE OneshotAssumption

LEMMA InitTypes == Init => TypeOK
<1>. SUFFICES ASSUME Init PROVE TypeOK
  OBVIOUS
<1>1. faultsLeft = MaxFault /\ unread = [c \in Conn |-> 0]
  BY DEF Init
<1>2. faultsLeft \in 0 .. MaxFault /\ unread \in [Conn -> 0 .. MaxData]
  BY <1>1
<1>. QED  BY <1>2 DEF Init, TypeOK

\* Types: what main does.
LEMMA MainTypes ==
    ASSUME TypeOK, Main
    PROVE  TypeOK'
<1>. USE DEF TypeOK, epollVars, workerVars, historyVars, connVars
<1>1. CASE EpollWait
  BY <1>1 DEF EpollWait, EnableOneshot
<1>2. CASE EpollFail
  BY <1>2 DEF EpollFail
<1>3. CASE AcceptFail
  BY <1>3 DEF AcceptFail, AcceptClobbers
<1>4. ASSUME NEW c \in Conn, Accept(c) PROVE TypeOK'
  BY <1>4 DEF Accept, AcceptClobbers, Arm
<1>5. ASSUME NEW c \in Conn, NEW w \in Worker, StartWorker(c, w) PROVE TypeOK'
  BY <1>5 DEF StartWorker, FillStruct
<1>6. ASSUME NEW c \in Conn, StartFail(c) PROVE TypeOK'
  BY <1>6 DEF StartFail, FillStruct
<1>7. CASE BatchDone
  BY <1>7 DEF BatchDone
<1>. QED  BY <1>1, <1>2, <1>3, <1>4, <1>5, <1>6, <1>7 DEF Main

\* Types: what a thread does.
LEMMA ThreadTypes ==
    ASSUME TypeOK, NEW w \in Worker, Thread(w)
    PROVE  TypeOK'
<1>. USE DEF TypeOK, mainVars, epollVars, workerVars, historyVars, connVars, At, Reads
<1>1. CASE ReadSockfd(w)
  BY <1>1 DEF ReadSockfd
<1>8. CASE ReadEpollfd(w)
  BY <1>8 DEF ReadEpollfd
<1>2. CASE SleepDone(w)
  BY <1>2 DEF SleepDone
<1>3. ASSUME NEW c \in Conn, RecvData(w, c) PROVE TypeOK'
  BY <1>3 DEF RecvData
<1>4. ASSUME NEW c \in Conn, RecvClosed(w, c) PROVE TypeOK'
  BY <1>4 DEF RecvClosed
<1>5. ASSUME NEW c \in Conn, RecvError(w, c) PROVE TypeOK'
  BY <1>5 DEF RecvError
<1>6. ASSUME NEW c \in Conn, RecvAgain(w, c) PROVE TypeOK'
  BY <1>6 DEF RecvAgain
<1>7. ASSUME NEW c \in Conn, Reset(w, c) PROVE TypeOK'
  BY <1>7 DEF Reset, Rearm, Arm
<1>. QED  BY <1>1, <1>2, <1>3, <1>4, <1>5, <1>6, <1>7, <1>8 DEF Thread

\* Types: what a client does.
LEMMA ClientTypes ==
    ASSUME TypeOK, NEW c \in Conn, Client(c)
    PROVE  TypeOK'
<1>. USE DEF TypeOK, mainVars, workerVars, historyVars, Arrival
<1>1. CASE Connect(c)
  BY <1>1 DEF Connect
<1>2. CASE ClientSend(c)
  BY <1>2 DEF ClientSend
<1>3. ASSUME NEW how \in {"fin", "rst"}, ClientEnd(c, how) PROVE TypeOK'
  BY <1>3 DEF ClientEnd
<1>. QED  BY <1>1, <1>2, <1>3 DEF Client

LEMMA NextTypes == TypeOK /\ [Next]_vars => TypeOK'
<1>. SUFFICES ASSUME TypeOK, [Next]_vars PROVE TypeOK'
  OBVIOUS
<1>1. CASE UNCHANGED vars
  BY <1>1 DEF vars, mainVars, epollVars, workerVars, historyVars, connVars, TypeOK
<1>. QED  BY <1>1, MainTypes, ThreadTypes, ClientTypes DEF Next

-----------------------------------------------------------------------------
(* epoll.                                                                   *)

\* What epoll knows of an armed connection is never out of date, and it reports
\* none that is not armed.
ReadyInv ==
    /\ ready \cap Conn \subseteq armed
    /\ \A c \in armed : Readable(c) => c \in ready

\* events[] is empty while main waits, and it and the threads concern connections
\* that have been accepted.
BatchInv ==
    /\ pc = "epoll_wait" => batch = {}
    /\ \A c \in batch \cap Conn : cs[c] \in {"open", "closed"}
    /\ \A w \in Worker : Busy(w) => meant[w] \in Conn /\ cs[meant[w]] \in {"open", "closed"}

Known == TypeOK /\ ReadyInv /\ BatchInv

LEMMA InitKnown == Init => Known
<1>. SUFFICES ASSUME Init PROVE Known
  OBVIOUS
<1>1. ReadyInv
  BY DEF Init, ReadyInv
<1>2. BatchInv
  BY DEF Init, BatchInv, Busy
<1>. QED  BY <1>1, <1>2, InitTypes DEF Known

\* Arming looks at what can be read there and then.
LEMMA ArmKeepsReady ==
    ASSUME TypeOK, ReadyInv, NEW c \in Conn, Arm(c), UNCHANGED <<unread, peer>>
    PROVE  ReadyInv'
<1>1. armed \subseteq Conn
  BY DEF TypeOK
<1>2. \A d \in Conn : Readable(d)' <=> Readable(d)
  BY DEF Readable
<1>. QED  BY <1>1, <1>2 DEF ReadyInv, Arm

LEMMA MainKnown ==
    ASSUME Known, Main
    PROVE  ReadyInv' /\ BatchInv'
<1>. USE DEF Known
<1>1. CASE EpollWait
  BY <1>1 DEF EpollWait, EnableOneshot, ReadyInv, BatchInv, Busy, Readable, TypeOK, workerVars,
              connVars
<1>2. CASE EpollFail
  BY <1>2 DEF EpollFail, ReadyInv, BatchInv, Busy, Readable, epollVars, workerVars, connVars
<1>3. CASE AcceptFail
  BY <1>3 DEF AcceptFail, ReadyInv, BatchInv, Busy, Readable, epollVars, workerVars, connVars
<1>4. ASSUME NEW c \in Conn, Accept(c) PROVE ReadyInv' /\ BatchInv'
  <2>1. ReadyInv'
    BY <1>4, ArmKeepsReady DEF Accept
  <2>2. BatchInv'
    BY <1>4 DEF Accept, BatchInv, Busy, TypeOK, workerVars
  <2>. QED  BY <2>1, <2>2
<1>5. ASSUME NEW c \in Conn, NEW w \in Worker, StartWorker(c, w) PROVE ReadyInv' /\ BatchInv'
  <2>1. ReadyInv'
    BY <1>5 DEF StartWorker, ReadyInv, Readable, epollVars, connVars
  <2>2. BatchInv'
    BY <1>5 DEF StartWorker, BatchInv, Busy, TypeOK, connVars
  <2>. QED  BY <2>1, <2>2
<1>6. ASSUME NEW c \in Conn, StartFail(c) PROVE ReadyInv' /\ BatchInv'
  BY <1>6 DEF StartFail, ReadyInv, BatchInv, Busy, Readable, epollVars, workerVars, connVars
<1>7. CASE BatchDone
  BY <1>7 DEF BatchDone, ReadyInv, BatchInv, Busy, Readable, epollVars, workerVars, connVars
<1>. QED  BY <1>1, <1>2, <1>3, <1>4, <1>5, <1>6, <1>7 DEF Main

LEMMA ThreadKnown ==
    ASSUME Known, NEW w \in Worker, Thread(w)
    PROVE  ReadyInv' /\ BatchInv'
<1>. USE DEF Known
<1>1. CASE ReadSockfd(w)
  BY <1>1 DEF ReadSockfd, At, ReadyInv, BatchInv, Busy, Readable, TypeOK, mainVars, epollVars, connVars
<1>8. CASE ReadEpollfd(w)
  BY <1>8 DEF ReadEpollfd, At, ReadyInv, BatchInv, Busy, Readable, TypeOK, mainVars, epollVars, connVars
<1>2. CASE SleepDone(w)
  BY <1>2 DEF SleepDone, At, ReadyInv, BatchInv, Busy, Readable, TypeOK, mainVars, epollVars, connVars
<1>3. ASSUME NEW c \in Conn, RecvData(w, c) PROVE ReadyInv' /\ BatchInv'
  <2>1. \A d \in Conn : Readable(d)' => Readable(d)
    BY <1>3 DEF RecvData, Readable, TypeOK
  <2>2. ReadyInv'
    BY <1>3, <2>1 DEF RecvData, ReadyInv, TypeOK, epollVars
  <2>3. BatchInv'
    BY <1>3 DEF RecvData, Reads, At, BatchInv, Busy, TypeOK, mainVars
  <2>. QED  BY <2>2, <2>3
<1>4. ASSUME NEW c \in Conn, RecvClosed(w, c) PROVE ReadyInv' /\ BatchInv'
  <2>1. ReadyInv'
    BY <1>4 DEF RecvClosed, ReadyInv, Readable
  <2>2. BatchInv'
    BY <1>4 DEF RecvClosed, BatchInv, Busy, TypeOK, mainVars
  <2>. QED  BY <2>1, <2>2
<1>5. ASSUME NEW c \in Conn, RecvError(w, c) PROVE ReadyInv' /\ BatchInv'
  BY <1>5 DEF RecvError, ReadyInv, BatchInv, Busy, Readable, TypeOK, mainVars, epollVars, workerVars
<1>6. ASSUME NEW c \in Conn, RecvAgain(w, c) PROVE ReadyInv' /\ BatchInv'
  BY <1>6 DEF RecvAgain, Reads, At, ReadyInv, BatchInv, Busy, Readable, TypeOK, mainVars, epollVars,
              connVars
<1>7. ASSUME NEW c \in Conn, Reset(w, c) PROVE ReadyInv' /\ BatchInv'
  <2>1. ReadyInv'
    BY <1>7, ArmKeepsReady DEF Reset, Rearm, ReadyInv, Readable, epollVars, connVars
  <2>2. BatchInv'
    BY <1>7 DEF Reset, BatchInv, Busy, TypeOK, mainVars, connVars
  <2>. QED  BY <2>1, <2>2
<1>. QED  BY <1>1, <1>2, <1>3, <1>4, <1>5, <1>6, <1>7, <1>8 DEF Thread

LEMMA ClientKnown ==
    ASSUME Known, NEW c \in Conn, Client(c)
    PROVE  ReadyInv' /\ BatchInv'
<1>. USE DEF Known
<1>1. CASE Connect(c)
  BY <1>1 DEF Connect, ReadyInv, BatchInv, Busy, Readable, TypeOK, mainVars, workerVars
<1>2. CASE ClientSend(c)
  <2>1. ReadyInv'
    BY <1>2 DEF ClientSend, Arrival, ReadyInv, Readable, TypeOK
  <2>2. BatchInv'
    BY <1>2 DEF ClientSend, BatchInv, Busy, mainVars, workerVars
  <2>. QED  BY <2>1, <2>2
<1>3. ASSUME NEW how \in {"fin", "rst"}, ClientEnd(c, how) PROVE ReadyInv' /\ BatchInv'
  <2>1. ReadyInv'
    BY <1>3 DEF ClientEnd, Arrival, ReadyInv, Readable, TypeOK
  <2>2. BatchInv'
    BY <1>3 DEF ClientEnd, BatchInv, Busy, mainVars, workerVars
  <2>. QED  BY <2>1, <2>2
<1>. QED  BY <1>1, <1>2, <1>3 DEF Client

LEMMA NextKnown == Known /\ [Next]_vars => Known'
<1>. SUFFICES ASSUME Known, [Next]_vars PROVE Known'
  OBVIOUS
<1>1. TypeOK'
  BY NextTypes DEF Known
<1>2. CASE UNCHANGED vars
  BY <1>1, <1>2 DEF vars, mainVars, epollVars, workerVars, connVars, Known, ReadyInv, BatchInv, Busy,
                    Readable
<1>. QED  BY <1>1, <1>2, MainKnown, ThreadKnown, ClientKnown DEF Next, Known

-----------------------------------------------------------------------------
(* The threads and their connections, as long as no thread has read the struct *)
(* of another.                                                              *)

Serves(w, c) == Busy(w) /\ meant[w] = c

\* A thread works on the connection main has started it for.
WorkerInv ==
    \A w \in Worker : wpc[w] \in {"load", "recv", "sleep", "again"} => wfd[w] = meant[w]

\* No connection is at two places.
ApartInv ==
    \A c \in Conn :
        /\ \A v, w \in Worker : Serves(v, c) /\ Serves(w, c) => v = w
        /\ c \in batch \cup armed => \A w \in Worker : ~Serves(w, c)
        /\ ~(c \in batch /\ c \in armed)

\* And none is nowhere.
SomewhereInv ==
    \A c \in Conn \ abandoned :
        cs[c] = "open" => c \in batch \cup armed \/ \E w \in Worker : Serves(w, c)

OwnInv == WorkerInv /\ ApartInv /\ SomewhereInv

\* The inductive invariant.
Inv == Known /\ (~mixed => OwnInv)

LEMMA InitInv == Init => Inv
<1>. SUFFICES ASSUME Init PROVE Inv
  OBVIOUS
<1>1. OwnInv
  BY DEF Init, OwnInv, WorkerInv, ApartInv, SomewhereInv, Serves, Busy
<1>. QED  BY <1>1, InitKnown DEF Inv

\* What main does moves a connection on by one place.
LEMMA MainOwn ==
    ASSUME Known, OwnInv, Main
    PROVE  OwnInv'
<1>. USE DEF Known, OwnInv, Serves, Busy
<1>1. CASE EpollWait
  <2>1. batch' \cap Conn \subseteq armed /\ armed' = armed \ batch' /\ batch = {}
    BY <1>1 DEF EpollWait, EnableOneshot, ReadyInv, BatchInv
  <2>2. UNCHANGED <<wpc, wfd, meant, abandoned, cs>>
    BY <1>1 DEF EpollWait, workerVars, historyVars, connVars
  <2>. QED  BY <2>1, <2>2 DEF WorkerInv, ApartInv, SomewhereInv
<1>2. CASE EpollFail \/ AcceptFail \/ BatchDone
  <2>1. /\ UNCHANGED <<armed, wpc, wfd, meant, abandoned, cs>>
        /\ batch' = batch \/ batch' = batch \ {"listen"}
    BY <1>2 DEF EpollFail, AcceptFail, BatchDone, epollVars, workerVars, historyVars, connVars
  <2>. QED  BY <2>1 DEF WorkerInv, ApartInv, SomewhereInv
<1>3. ASSUME NEW c \in Conn, Accept(c) PROVE OwnInv'
  <2>1. /\ cs[c] = "queued" /\ cs' = [cs EXCEPT ![c] = "open"]
        /\ batch' = batch \ {"listen"} /\ armed' = armed \cup {c}
        /\ UNCHANGED <<wpc, wfd, meant, abandoned>>
    BY <1>3 DEF Accept, Arm, workerVars, historyVars
  <2>2. c \notin batch /\ \A w \in Worker : ~Serves(w, c)
    BY <2>1 DEF BatchInv
  <2>. QED  BY <2>1, <2>2 DEF WorkerInv, ApartInv, SomewhereInv, TypeOK
<1>4. ASSUME NEW c \in Conn, NEW w \in Worker, StartWorker(c, w) PROVE OwnInv'
  <2>1. /\ c \in batch /\ batch' = batch \ {c} /\ wpc[w] = "free"
        /\ wpc' = [wpc EXCEPT ![w] = "start"] /\ meant' = [meant EXCEPT ![w] = c]
        /\ UNCHANGED <<armed, wfd, abandoned, cs>>
    BY <1>4 DEF StartWorker, epollVars, historyVars, connVars
  <2>2. WorkerInv'
    BY <2>1 DEF WorkerInv, TypeOK
  <2>3. ApartInv'
    BY <2>1 DEF ApartInv, TypeOK
  <2>4. SomewhereInv'
    BY <2>1 DEF SomewhereInv, TypeOK
  <2>. QED  BY <2>2, <2>3, <2>4
<1>5. ASSUME NEW c \in Conn, StartFail(c) PROVE OwnInv'
  <2>1. /\ batch' = batch \ {c} /\ abandoned' = abandoned \cup {c}
        /\ UNCHANGED <<armed, wpc, wfd, meant, cs>>
    BY <1>5 DEF StartFail, epollVars, workerVars, connVars
  <2>. QED  BY <2>1 DEF WorkerInv, ApartInv, SomewhereInv
<1>. QED  BY <1>1, <1>2, <1>3, <1>4, <1>5 DEF Main

\* What a thread does concerns its own connection.
LEMMA ThreadOwn ==
    ASSUME Known, OwnInv, NEW w \in Worker, Thread(w), ~mixed'
    PROVE  OwnInv'
<1>. USE DEF Known, OwnInv, Serves, Busy
<1>1. CASE ReadSockfd(w)
  <2>1. fdsForNew.sockfd = meant[w]
    BY <1>1 DEF ReadSockfd
  <2>2. /\ wpc[w] = "start" /\ wpc' = [wpc EXCEPT ![w] = "load"]
        /\ wfd' = [wfd EXCEPT ![w] = fdsForNew.sockfd]
        /\ UNCHANGED <<batch, armed, meant, abandoned, cs>>
    BY <1>1 DEF ReadSockfd, At, mainVars, epollVars, connVars
  <2>. QED  BY <2>1, <2>2 DEF WorkerInv, ApartInv, SomewhereInv, TypeOK
<1>5. CASE ReadEpollfd(w)
  <2>1. /\ wpc[w] = "load" /\ wpc' = [wpc EXCEPT ![w] = "recv"]
        /\ UNCHANGED <<batch, armed, wfd, meant, abandoned, cs>>
    BY <1>5 DEF ReadEpollfd, At, mainVars, epollVars, historyVars, connVars
  <2>. QED  BY <2>1 DEF WorkerInv, ApartInv, SomewhereInv, TypeOK
<1>2. CASE SleepDone(w) \/ \E c \in Conn : RecvData(w, c) \/ RecvError(w, c) \/ RecvAgain(w, c)
  <2>. DEFINE Stays == UNCHANGED <<batch, armed, wfd, meant, abandoned, cs>>
              From(place, next) == wpc[w] = place /\ wpc' = [wpc EXCEPT ![w] = next]
  <2>1. Stays /\ (From("sleep", "recv") \/ \E next \in {"sleep", "recv", "again"} : From("recv", next))
    <3>1. CASE SleepDone(w)
      BY <3>1 DEF SleepDone, At, mainVars, epollVars, historyVars, connVars
    <3>2. ASSUME NEW c \in Conn, RecvData(w, c) PROVE Stays /\ From("recv", "sleep")
      BY <3>2 DEF RecvData, Reads, At, mainVars, epollVars, historyVars
    <3>3. ASSUME NEW c \in Conn, RecvError(w, c) PROVE Stays /\ From("recv", "recv")
      BY <3>3 DEF RecvError, Reads, At, mainVars, epollVars, workerVars, historyVars, TypeOK
    <3>4. ASSUME NEW c \in Conn, RecvAgain(w, c) PROVE Stays /\ From("recv", "again")
      BY <3>4 DEF RecvAgain, Reads, At, mainVars, epollVars, historyVars, connVars
    <3>. QED  BY <1>2, <3>1, <3>2, <3>3, <3>4
  <2>. QED  BY <2>1 DEF WorkerInv, ApartInv, SomewhereInv, TypeOK
<1>3. ASSUME NEW c \in Conn, RecvClosed(w, c) PROVE OwnInv'
  <2>1. /\ wpc[w] = "recv" /\ wfd[w] = c
        /\ cs' = [cs EXCEPT ![c] = "closed"] /\ armed' = armed \ {c}
        /\ wpc' = [wpc EXCEPT ![w] = "free"]
        /\ UNCHANGED <<batch, wfd, meant, abandoned>>
    BY <1>3 DEF RecvClosed, Reads, At, mainVars, historyVars
  <2>2. meant[w] = c
    BY <2>1 DEF WorkerInv
  <2>. QED  BY <2>1, <2>2 DEF WorkerInv, ApartInv, SomewhereInv, TypeOK
<1>4. ASSUME NEW c \in Conn, Reset(w, c) PROVE OwnInv'
  <2>1. /\ wpc[w] = "again" /\ wfd[w] = c
        /\ \/ armed' = armed \cup {c} /\ abandoned' = abandoned
           \/ armed' = armed /\ (cs[c] = "open" => abandoned' = abandoned \cup {c})
        /\ abandoned' \in {abandoned, abandoned \cup {c}}
        /\ wpc' = [wpc EXCEPT ![w] = "free"]
        /\ UNCHANGED <<batch, wfd, meant, cs>>
    BY <1>4 DEF Reset, Rearm, Arm, At, TypeOK, mainVars, epollVars, connVars
  <2>2. meant[w] = c /\ c \notin batch
    BY <2>1 DEF WorkerInv, ApartInv
  <2>3. WorkerInv'
    BY <2>1 DEF WorkerInv, TypeOK
  <2>4. ApartInv'
    BY <2>1, <2>2 DEF ApartInv, TypeOK
  <2>5. SomewhereInv'
    BY <2>1, <2>2 DEF SomewhereInv, TypeOK
  <2>. QED  BY <2>3, <2>4, <2>5
<1>. QED  BY <1>1, <1>2, <1>3, <1>4, <1>5 DEF Thread

\* A client moves its connection to the queue at the most.
LEMMA ClientOwn ==
    ASSUME Known, OwnInv, NEW c \in Conn, Client(c)
    PROVE  OwnInv'
<1>. USE DEF Known, OwnInv, Serves, Busy
<1>1. /\ UNCHANGED <<batch, armed, wpc, wfd, meant, abandoned>>
      /\ cs' = cs \/ cs' = [cs EXCEPT ![c] = "queued"]
  BY DEF Client, Connect, ClientSend, ClientEnd, mainVars, workerVars, historyVars
<1>. QED  BY <1>1 DEF WorkerInv, ApartInv, SomewhereInv, TypeOK

LEMMA NextInv == Inv /\ [Next]_vars => Inv'
<1>. SUFFICES ASSUME Inv, [Next]_vars PROVE Inv'
  OBVIOUS
<1>1. Known'
  BY NextKnown DEF Inv
<1>2. mixed => mixed'
  <2>1. CASE Main
    BY <2>1 DEF Main, EpollWait, EpollFail, AcceptFail, Accept, StartWorker, StartFail, BatchDone,
                historyVars
  <2>2. ASSUME NEW w \in Worker, Thread(w) PROVE mixed => mixed'
    BY <2>2 DEF Thread, ReadSockfd, ReadEpollfd, SleepDone, RecvData, RecvClosed, RecvError, RecvAgain, Reset,
                historyVars
  <2>3. ASSUME NEW c \in Conn, Client(c) PROVE mixed => mixed'
    BY <2>3 DEF Client, Connect, ClientSend, ClientEnd, historyVars
  <2>4. CASE UNCHANGED vars
    BY <2>4 DEF vars, historyVars
  <2>. QED  BY <2>1, <2>2, <2>3, <2>4 DEF Next
<1>3. ASSUME ~mixed' PROVE OwnInv'
  <2>1. OwnInv /\ Known
    BY <1>2, <1>3 DEF Inv
  <2>2. CASE UNCHANGED vars
    BY <2>1, <2>2 DEF vars, mainVars, epollVars, workerVars, historyVars, connVars, OwnInv,
                      WorkerInv, ApartInv, SomewhereInv, Serves, Busy
  <2>. QED  BY <1>3, <2>1, <2>2, MainOwn, ThreadOwn, ClientOwn DEF Next
<1>. QED  BY <1>1, <1>3 DEF Inv

\* Every variable keeps its type, and epoll_ctl arms only connections that are open
\* (addfd, reset_oneshot).
THEOREM OneshotTypeCorrect == Spec => []TypeOK
  BY InitTypes, NextTypes, PTL DEF Spec

\* A set without two different members has one at the most.
LEMMA AtMostOne ==
    ASSUME NEW S, \A x, y \in S : x = y
    PROVE  Cardinality(S) <= 1
<1>1. CASE S = {}
  BY <1>1, FS_EmptySet
<1>2. CASE S # {}
  <2>1. PICK x \in S : S = {x}
    BY <1>2
  <2>. QED  BY <2>1, FS_Singleton
<1>. QED  BY <1>1, <1>2

\* EPOLLONESHOT keeps its promise (lines 110 and 126) as long as no thread reads the
\* struct of another: one thread at a time for a connection.
THEOREM OneWorker == Spec => []OneWorkerPerConnection
<1>1. ASSUME Inv PROVE OneWorkerPerConnection
  <2>. SUFFICES ASSUME ~mixed, NEW c \in Conn
                PROVE  /\ Cardinality({w \in Worker : Busy(w) /\ meant[w] = c}) <= 1
                       /\ c \in batch \cup armed => \A w \in Worker : Busy(w) => meant[w] # c
    BY DEF OneWorkerPerConnection
  <2>1. ApartInv
    BY <1>1 DEF Inv, OwnInv
  <2>2. \A v, w \in {w \in Worker : Busy(w) /\ meant[w] = c} : v = w
    BY <2>1 DEF ApartInv, Serves
  <2>3. Cardinality({w \in Worker : Busy(w) /\ meant[w] = c}) <= 1
    BY <2>2, AtMostOne
  <2>. QED  BY <2>1, <2>3 DEF ApartInv, Serves
<1>. QED  BY <1>1, InitInv, NextInv, PTL DEF Spec

\* Nothing that arrives between the last recv of a thread and reset_oneshot is
\* overlooked, with the exceptions the property names: a sockfd read too late (line
\* 53), an epollfd read too late (line 54) and a thread that is not started (132).
THEOREM NothingOverlooked == Spec => []ArrivalNotOverlooked
<1>1. ASSUME Inv PROVE ArrivalNotOverlooked
  <2>. SUFFICES ASSUME ~mixed, NEW c \in Conn \ abandoned, cs[c] = "open", Readable(c)
                PROVE  \/ c \in batch
                       \/ c \in armed /\ c \in ready
                       \/ \E w \in Worker : Busy(w) /\ meant[w] = c
    BY DEF ArrivalNotOverlooked
  <2>. QED  BY <1>1 DEF Inv, Known, ReadyInv, OwnInv, SomewhereInv, Serves
<1>. QED  BY <1>1, InitInv, NextInv, PTL DEF Spec
=============================================================================
