------------------------------ MODULE TestTcpUdp ------------------------------
(***************************************************************************)
(* The echo server of chapter9/9.7/testTCP_UDP.c: edge-triggered events,     *)
(* one accept for each, and tcp_func, which reads a connection until recv    *)
(* fails with EAGAIN.  The UDP socket is bound but not registered with epoll  *)
(* (line 113 adds listenfd only), so udp_func never runs.                    *)
(***************************************************************************)
EXTENDS EpollSockets

VARIABLES
    running,  \* the process has not left its loop, nor been ended by an assertion or a signal
    serving   \* the descriptor tcp_func is reading, or listenfd for none

vars == <<socketVars, running, serving>>

Init ==
    /\ SocketsInit
    /\ running = TRUE
    /\ serving = listenfd

InLoop == running /\ serving = listenfd

Dies == running' = FALSE /\ serving' = listenfd /\ SocketsGone

ClientStep ==
    /\ running /\ Clients
    /\ UNCHANGED <<running, serving>>

EpollWait ==
    /\ InLoop /\ Wait(ready)
    /\ UNCHANGED <<running, serving>>

\* epoll_wait fails, for instance because the process was stopped and continued:
\* the loop ends.
EpollFail == InLoop /\ events = {} /\ Dies

\* accept may fail, for want of descriptors or otherwise.
ListenFunc ==
    /\ InLoop /\ listenfd \in events
    /\ \/ /\ \E fd \in Fd : NextFd(fd) /\ Accepted({fd})
          /\ UNCHANGED <<running, serving>>
       \/ Dies

TcpFunc(fd) ==
    /\ InLoop /\ fd \in events
    /\ serving' = fd
    /\ Ignore(fd)
    /\ UNCHANGED running

\* Mutation: one recv for an event.
StaysAfterEchoNot == FALSE

\* while (1) around recv.
StaysAfterEcho == TRUE

\* What has been read is sent back.  The send may fail, because the client reads
\* nothing or has reset: the assertion or SIGPIPE ends the server.
TcpEcho ==
    /\ running /\ serving # listenfd /\ unread[serving] > 0
    /\ \/ /\ Received(serving)
          /\ serving' = IF StaysAfterEcho THEN serving ELSE listenfd
          /\ UNCHANGED <<running, events>>
       \/ Dies

TcpDrained ==
    /\ running /\ serving # listenfd /\ ~Readable(serving)
    /\ serving' = listenfd
    /\ UNCHANGED <<socketVars, running>>

\* recv returns 0: close, and the loop goes on with a recv that fails with EBADF
\* and a second close that fails too.  After a reset it is left at once.
TcpClosed ==
    /\ running /\ serving # listenfd
    /\ unread[serving] = 0 /\ serving \in ended
    /\ Closed(serving)
    /\ serving' = listenfd
    /\ UNCHANGED running

Next ==
    \/ ClientStep
    \/ EpollWait
    \/ EpollFail
    \/ ListenFunc
    \/ \E fd \in Fd : TcpFunc(fd)
    \/ TcpEcho
    \/ TcpDrained
    \/ TcpClosed

Spec == Init /\ [][Next]_vars

-----------------------------------------------------------------------------
(* Properties.                                                              *)

\* The descriptor tcp_func reads is one of the open connections.
TypeOK ==
    /\ SocketsTypeOK
    /\ running \in BOOLEAN
    /\ serving \in open \cup {listenfd}

\* Edge triggering needs the reader to empty the socket (lines 55-70): whatever a
\* client sends or ends while tcp_func runs or a batch is handled, a connection
\* with something to read is being read or has an event to come.
EdgeDrained ==
    \A fd \in open : Readable(fd) => fd \in ready \cup events \cup {serving}
=============================================================================
