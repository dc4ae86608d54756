-------------------------- MODULE ChatroomEpollServer --------------------------
(***************************************************************************)
(* chapter9/9.6/chatroom_epoll_server.c: an unfinished chat room.  Users are *)
(* entered in user_fds and never taken out, their connections are registered *)
(* EPOLLONESHOT and never armed again, and what they send is put into fields  *)
(* nothing reads.                                                           *)
(***************************************************************************)
EXTENDS EpollSockets

CONSTANT USER_LIMIT

UserLimitAssumption == USER_LIMIT \in Nat \ {0}

VARIABLES
    status,      \* "running", or how the server ended
    user_fds,    \* [0 .. USER_LIMIT - 1 -> sockfd], -1 at first
    user_count,
    armed,       \* the connections whose one event is still to come
    i            \* index of the event that is handled

tableVars == <<user_fds, user_count>>
vars == <<socketVars, status, tableVars, armed, i>>

Init ==
    /\ SocketsInit
    /\ status = "running"
    /\ user_fds = [j \in 0 .. USER_LIMIT - 1 |-> -1]
    /\ user_count = 0
    /\ armed = {}
    /\ i = 0

Running == status = "running"

Stops(how) ==
    /\ status' = how
    /\ user_fds' = [j \in 0 .. USER_LIMIT - 1 |-> -1]
    /\ user_count' = 0 /\ armed' = {} /\ i' = 0
    /\ SocketsGone

ClientStep ==
    /\ Running /\ Clients
    /\ UNCHANGED <<status, tableVars, armed, i>>

\* An event reported for a connection is its last.
EpollWait ==
    /\ Running /\ Wait(ready \cap (armed \cup {listenfd}))
    /\ armed' = armed \ events'
    /\ i' = 0
    /\ UNCHANGED <<status, tableVars>>

\* epoll_wait fails, for instance because the process was stopped and continued:
\* the loop ends.
EpollFail == Running /\ events = {} /\ Stops("ended")

\* Mutation: the last index of the table is one too high.
RoomLeftOffByOne == user_count <= USER_LIMIT

RoomLeft == user_count < USER_LIMIT

Admit(fd) ==
    /\ RoomLeft
    /\ Accepted({fd})
    /\ user_fds' = [user_fds EXCEPT ![user_count] = fd]
    /\ user_count' = user_count + 1
    /\ armed' = armed \cup {fd}

\* Mutation: the refused connection is told and left open.
LeftOpenRefused(fd) == {fd}

\* One user too many is registered, told and closed.
LeftOpen(fd) == {}

Refuse(fd) ==
    /\ ~RoomLeft
    /\ Accepted(LeftOpen(fd))
    /\ UNCHANGED <<tableVars, armed>>

\* accept may fail, for want of descriptors or otherwise; and the user who is refused
\* may have reset the connection, so that the send of line 109 means SIGPIPE.
Accept ==
    /\ Running /\ listenfd \in events
    /\ \/ /\ \E fd \in Fd : NextFd(fd) /\ (Admit(fd) \/ Refuse(fd))
          /\ i' = i + 1
          /\ UNCHANGED status
       \/ Stops("aborted")
       \/ ~RoomLeft /\ CanAccept /\ Stops("killed")

\* The inner loop runs j over the users and looks at user_fds[i].
IndexInTable == i < USER_LIMIT

\* One recv; what it says is put into user_fds[i], which only says so of an entry
\* nothing reads.  After an error the connection is closed, after an end of file
\* it is not.
Read(fd) ==
    /\ Running /\ fd \in events \ {listenfd}
    /\ \/ /\ IndexInTable
          /\ \/ Received(fd) /\ events' = events \ {fd}
             \/ unread[fd] = 0 /\ Ignore(fd)
          /\ UNCHANGED armed
       \/ /\ unread[fd] = 0 /\ fd \in ended
          /\ Closed(fd)
          /\ armed' = armed \ {fd}
    /\ i' = i + 1
    /\ UNCHANGED <<status, tableVars>>

\* Beyond the table the read, and the write that may follow, are undefined.
ReadBeyond(fd) ==
    /\ Running /\ fd \in events \ {listenfd}
    /\ ~IndexInTable
    /\ Stops("undefined")

Next ==
    \/ ClientStep
    \/ EpollWait
    \/ EpollFail
    \/ Accept
    \/ \E fd \in Fd : Read(fd) \/ ReadBeyond(fd)

Spec == Init /\ [][Next]_vars

-----------------------------------------------------------------------------
(* Properties.                                                              *)

TypeOK ==
    /\ SocketsTypeOK
    /\ status \in {"running", "ended", "aborted", "killed", "undefined"}
    /\ user_fds \in [0 .. USER_LIMIT - 1 -> Fd \cup {-1}]
    /\ user_count \in 0 .. USER_LIMIT
    /\ armed \subseteq open
    /\ i \in 0 .. Cardinality(Fd) + 1

\* No connection is open that the table does not list (lines 103-112), although
\* entries outlive their connections, descriptors are used again, and the one
\* that is used again may be refused.
OpenIsListed ==
    \A fd \in open : \E j \in 0 .. user_count - 1 : user_fds[j] = fd
=============================================================================
