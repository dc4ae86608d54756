------------------------------- MODULE TestLtEt -------------------------------
(***************************************************************************)
(* chapter9/9.3/test_LTET.c as it is built: main registers the listening     *)
(* socket edge-triggered and calls lt, which registers connections           *)
(* level-triggered and reads a few bytes of them for an event.  et, the other *)
(* half of the demonstration, is not called (line 132).                      *)
(***************************************************************************)
EXTENDS EpollSockets

vars == socketVars

Init == SocketsInit

\* Mutation: connections are registered as et would register them.
LevelTriggeredNone == {}

\* addfd(epollfd, connfd, false).
LevelTriggered == open

\* When it fails lt has nothing to do, and it is called again: no step.
EpollWait == Wait(ready \cup LevelTriggered)

\* One accept for an event; when it fails, for want of descriptors or otherwise,
\* addfd fails unnoticed.
LtAccept ==
    /\ listenfd \in events
    /\ \/ \E fd \in Fd : NextFd(fd) /\ Accepted({fd})
       \/ Ignore(listenfd)

\* One recv for an event.
LtReceive(fd) ==
    /\ fd \in events
    /\ Received(fd) /\ events' = events \ {fd}

\* ret <= 0.
LtClose(fd) ==
    /\ fd \in events /\ unread[fd] = 0
    /\ Closed(fd)

ServerStep ==
    \/ EpollWait
    \/ LtAccept
    \/ \E fd \in Fd : LtReceive(fd) \/ LtClose(fd)

Next == Clients \/ ServerStep

\* The server is one process that always goes on.
Spec == Init /\ [][Next]_vars /\ WF_vars(ServerStep)

-----------------------------------------------------------------------------
(* Properties.                                                              *)

TypeOK == SocketsTypeOK

\* What level triggering is for (lines 47-54): although every event is answered
\* with a single short recv, a connection that its client has ended is read to
\* the end and closed.
EndedIsClosed == \A fd \in Fd : fd \in ended ~> fd \notin open
=============================================================================
