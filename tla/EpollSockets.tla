----------------------------- MODULE EpollSockets -----------------------------
(***************************************************************************)
(* What the single-threaded epoll servers of the repository use of the      *)
(* kernel: a listening socket, the connections accepted from it, and the     *)
(* events epoll_wait reports for them.  External to the repository.          *)
(***************************************************************************)
EXTENDS Integers, FiniteSets, TLAPS

CONSTANTS Fd,           \* descriptors of connections, 1 .. n
          MaxOpen,      \* connections the process has descriptors for at once
          MaxBacklog,   \* connections that wait for accept
          MaxConnects,  \* bound on the connections made
          MaxUnread     \* pieces of data that wait on a connection

SocketsAssumption ==
    /\ Fd \subseteq Nat \ {0} /\ IsFiniteSet(Fd)
    /\ {MaxOpen, MaxBacklog, MaxConnects, MaxUnread} \subseteq Nat \ {0}
    /\ MaxOpen <= Cardinality(Fd)

\* listenfd; the connections have the descriptors above it.
listenfd == 0

VARIABLES
    open,      \* the connections not closed
    unread,    \* [Fd -> pieces that wait]
    ended,     \* the connections whose client has closed or reset
    backlog,   \* connections that wait for accept
    connects,  \* connections made so far
    ready,     \* descriptors something has arrived at since they were reported
    events     \* descriptors epoll_wait has returned, not yet handled

socketVars == <<open, unread, ended, backlog, connects, ready, events>>

SocketsInit ==
    /\ open = {} /\ ended = {}
    /\ unread = [fd \in Fd |-> 0]
    /\ backlog = 0 /\ connects = 0
    /\ ready = {} /\ events = {}

SocketsTypeOK ==
    /\ ended \subseteq open /\ open \subseteq Fd
    /\ unread \in [Fd -> 0 .. MaxUnread]
    /\ backlog \in 0 .. MaxBacklog /\ connects \in 0 .. MaxConnects
    /\ ready \cup events \subseteq open \cup {listenfd}

\* The process has ended and the kernel has closed everything.
SocketsGone ==
    /\ open' = {} /\ ended' = {}
    /\ unread' = [fd \in Fd |-> 0]
    /\ backlog' = 0 /\ connects' = 0
    /\ ready' = {} /\ events' = {}

-----------------------------------------------------------------------------
(* The clients.                                                             *)

Connect ==
    /\ backlog < MaxBacklog /\ connects < MaxConnects
    /\ backlog' = backlog + 1 /\ connects' = connects + 1
    /\ ready' = ready \cup {listenfd}
    /\ UNCHANGED <<open, unread, ended, events>>

Send(fd) ==
    /\ fd \in open \ ended /\ unread[fd] < MaxUnread
    /\ unread' = [unread EXCEPT ![fd] = @ + 1]
    /\ ready' = ready \cup {fd}
    /\ UNCHANGED <<open, ended, backlog, connects, events>>

\* A close or a reset: once the data is read recv returns 0 or fails.
Close(fd) ==
    /\ fd \in open \ ended
    /\ ended' = ended \cup {fd}
    /\ ready' = ready \cup {fd}
    /\ UNCHANGED <<open, unread, backlog, connects, events>>

Clients == Connect \/ \E fd \in Fd : Send(fd) \/ Close(fd)

-----------------------------------------------------------------------------
(* The calls.                                                               *)

\* recv would not fail with EAGAIN, accept would not.
Readable(fd) == IF fd = listenfd THEN backlog > 0 ELSE unread[fd] > 0 \/ fd \in ended

\* epoll_wait, once every event of the last call has been handled.  What has been
\* read since it arrived is not reported.
Wait(candidates) ==
    LET reported == {fd \in candidates : Readable(fd)}
    IN /\ events = {} /\ reported # {}
       /\ events' = reported
       /\ ready' = {}
       /\ UNCHANGED <<open, unread, ended, backlog, connects>>

\* accept fails when no descriptor is left, and else gives the lowest.
CanAccept == Cardinality(open) < MaxOpen

Lowest(fd, free) == fd \in free /\ \A g \in free : fd <= g

NextFd(fd) == CanAccept /\ Lowest(fd, Fd \ open)

\* The event of fd is done with and nothing else happens.
Ignore(fd) ==
    /\ events' = events \ {fd}
    /\ UNCHANGED <<open, unread, ended, backlog, connects, ready>>

\* One connection is taken from the backlog; opened is what stays open of it.
Accepted(opened) ==
    /\ open' = open \cup opened
    /\ backlog' = backlog - 1
    /\ events' = events \ {listenfd}
    /\ UNCHANGED <<unread, ended, connects, ready>>

\* recv returns what fits into the buffer, or all.
Received(fd) ==
    /\ unread[fd] > 0
    /\ \E n \in 1 .. unread[fd] : unread' = [unread EXCEPT ![fd] = @ - n]
    /\ UNCHANGED <<open, ended, backlog, connects, ready>>

\* close: what has not been read and the registration go with the descriptor.
Closed(fd) ==
    /\ open' = open \ {fd} /\ ended' = ended \ {fd}
    /\ unread' = [unread EXCEPT ![fd] = 0]
    /\ ready' = ready \ {fd} /\ events' = events \ {fd}
    /\ UNCHANGED <<backlog, connects>>

-----------------------------------------------------------------------------
(* What every call keeps, for the proofs about the servers.                  *)

\* A descriptor that is not open holds no data, and the listening socket is
\* reported only while somebody waits for accept.
SocketsInv ==
    /\ SocketsTypeOK
    /\ \A fd \in Fd \ open : unread[fd] = 0
    /\ listenfd \in events => backlog > 0

\* The listening socket is none of the connections.
LEMMA ListenApart ==
    ASSUME SocketsAssumption
    PROVE  listenfd \notin Fd
  BY DEF SocketsAssumption, listenfd

\* SocketsInv speaks of the variables of the sockets only.
LEMMA SocketsUnchanged ==
    ASSUME SocketsInv, UNCHANGED socketVars
    PROVE  SocketsInv'
  BY DEF SocketsInv, SocketsTypeOK, Readable, socketVars

\* Nothing is open at the start.
LEMMA SocketsStart ==
    ASSUME SocketsAssumption, SocketsInit
    PROVE  SocketsInv
  BY DEF SocketsAssumption, SocketsInit, SocketsInv, SocketsTypeOK, listenfd

\* Nothing is open after the end of the process.
LEMMA GoneKeeps ==
    ASSUME SocketsAssumption, SocketsGone
    PROVE  SocketsInv'
  BY DEF SocketsAssumption, SocketsGone, SocketsInv, SocketsTypeOK, listenfd

\* Connecting, sending and closing by a client.
LEMMA ClientsKeep ==
    ASSUME SocketsAssumption, SocketsInv, Clients
    PROVE  SocketsInv'
<1>. USE ListenApart DEF SocketsAssumption
<1>1. CASE Connect
  BY <1>1 DEF Connect, SocketsInv, SocketsTypeOK
<1>2. ASSUME NEW fd \in Fd, Send(fd) PROVE SocketsInv'
  BY <1>2 DEF Send, SocketsInv, SocketsTypeOK
<1>3. ASSUME NEW fd \in Fd, Close(fd) PROVE SocketsInv'
  BY <1>3 DEF Close, SocketsInv, SocketsTypeOK
<1>. QED  BY <1>1, <1>2, <1>3 DEF Clients

\* epoll_wait.
LEMMA WaitKeeps ==
    ASSUME SocketsAssumption, SocketsInv, NEW candidates, candidates \subseteq open \cup {listenfd},
           Wait(candidates)
    PROVE  SocketsInv'
  BY ListenApart DEF Wait, Readable, SocketsInv, SocketsTypeOK

\* An event that is passed over.
LEMMA IgnoreKeeps ==
    ASSUME SocketsInv, NEW fd, Ignore(fd)
    PROVE  SocketsInv'
  BY DEF Ignore, SocketsInv, SocketsTypeOK

\* accept.
LEMMA AcceptedKeeps ==
    ASSUME SocketsAssumption, SocketsInv, listenfd \in events, NEW opened, opened \subseteq Fd,
           Accepted(opened)
    PROVE  SocketsInv'
  BY DEF SocketsAssumption, Accepted, SocketsInv, SocketsTypeOK

\* recv, after which the event may be done with or not.
LEMMA ReceivedKeeps ==
    ASSUME SocketsAssumption, SocketsInv, NEW fd \in open, Received(fd), events' \subseteq events
    PROVE  SocketsInv'
<1>1. fd \in Fd  BY DEF SocketsInv, SocketsTypeOK
<1>2. PICK n \in 1 .. unread[fd] : unread' = [unread EXCEPT ![fd] = @ - n]
  BY DEF Received
<1>3. MaxUnread \in Nat
  BY DEF SocketsAssumption
<1>4. unread' \in [Fd -> 0 .. MaxUnread]
  BY <1>1, <1>2, <1>3 DEF SocketsInv, SocketsTypeOK
<1>5. \A g \in Fd \ open : unread'[g] = 0
  BY <1>1, <1>2 DEF SocketsInv, SocketsTypeOK
<1>. QED  BY <1>4, <1>5 DEF Received, SocketsInv, SocketsTypeOK

\* close.
LEMMA ClosedKeeps ==
    ASSUME SocketsAssumption, SocketsInv, NEW fd \in Fd, Closed(fd)
    PROVE  SocketsInv'
  BY ListenApart DEF SocketsAssumption, Closed, SocketsInv, SocketsTypeOK
=============================================================================
