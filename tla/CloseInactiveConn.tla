--------------------------- MODULE CloseInactiveConn ---------------------------
(***************************************************************************)
(* The server of chapter11/11.2/close_inactive_conn.cpp: one edge-triggered *)
(* epoll loop that gives every connection a timer of sort_timer_lst and      *)
(* moves it on whenever data arrives.  The list is module SortTimerLst.      *)
(*                                                                         *)
(* addsig fills a sigaction and does not install it, so sig_handler,         *)
(* timer_handler and tick never run: SIGALRM and SIGTERM do what they do by  *)
(* default and end the process.                                             *)
(***************************************************************************)
EXTENDS EpollSockets

CONSTANTS Timer,    \* addresses of util_timer objects, 1 .. n
          NULL,     \* nullptr
          TIMESLOT  \* seconds to the alarm

TimersAssumption ==
    /\ NULL \notin Timer
    /\ Timer \subseteq Nat /\ IsFiniteSet(Timer)
    /\ Cardinality(Timer) >= MaxOpen
    /\ TIMESLOT \in Nat \ {0}

VARIABLES
    list, expire, allocated, now, pc, cur,   \* timer_lst and the clock
    server,    \* "running", or how it ended
    timer,     \* [Fd -> users[fd].timer], forgotten when fd is closed
    adjusted   \* history: a timer has been adjusted

listVars == <<list, expire, allocated, now, pc, cur>>
vars == <<listVars, socketVars, server, timer, adjusted>>

L == INSTANCE SortTimerLst WITH
         Spans <- {3 * TIMESLOT},
         AdjustCases <- {"inplace", "head", "middle"},
         MaxTime <- TIMESLOT

Init ==
    /\ L!Init
    /\ SocketsInit
    /\ server = "running"
    /\ timer = [fd \in Fd |-> NULL]
    /\ adjusted = FALSE

Running == server = "running"

\* The process is gone, or nothing can be said of it: of its state only how it
\* ended is kept.
Ends(how) ==
    /\ server' = how
    /\ list' = [head |-> NULL, tail |-> NULL,
                next |-> [t \in Timer |-> NULL], prev |-> [t \in Timer |-> NULL]]
    /\ expire' = [t \in Timer |-> 0]
    /\ allocated' = {}
    /\ now' = 0
    /\ UNCHANGED <<pc, cur>>
    /\ timer' = [fd \in Fd |-> NULL]
    /\ SocketsGone

-----------------------------------------------------------------------------

ClientStep ==
    /\ Running /\ Clients
    /\ UNCHANGED <<listVars, server, timer, adjusted>>

\* alarm( TIMESLOT ) before the loop.
AlarmDue == TIMESLOT

Second ==
    /\ Running /\ now < AlarmDue
    /\ now' = now + 1
    /\ UNCHANGED <<list, expire, allocated, pc, cur, socketVars, server, timer, adjusted>>

\* SIGALRM when it is due: addsig has installed nothing that would catch it.
Alarmed == Running /\ now = AlarmDue /\ Ends("alarmed") /\ UNCHANGED adjusted

\* SIGTERM at any time.
Killed == Running /\ Ends("killed") /\ UNCHANGED adjusted

EpollWait ==
    /\ Running /\ Wait(ready)
    /\ UNCHANGED <<listVars, server, timer, adjusted>>

\* epoll_wait fails otherwise than with EINTR, which leads back to it.
EpollFail == Running /\ events = {} /\ Ends("failed") /\ UNCHANGED adjusted

\* The nodes met from start by following next.
Met(next, start) ==
    LET within[n \in 0 .. Cardinality(Timer)] ==
            IF n = 0 THEN {start}
            ELSE within[n - 1] \cup ({next[t] : t \in within[n - 1] \ {NULL}} \cap Timer)
    IN within[Cardinality(Timer)]

\* How a walk to the end of the list goes, which is how far add_timer walks, for
\* no timer expires later than the one it inserts.  Where it meets freed memory
\* anything may follow.
Walk(next, start, alive) ==
    IF ~(Met(next, start) \subseteq alive) THEN "undefined"
    ELSE IF \A n \in Met(next, start) : next[n] # NULL THEN "spinning"
    ELSE "running"

AddWalk(t) ==
    IF list.head = NULL THEN "running"
    ELSE Walk([list.next EXCEPT ![t] = NULL], list.head, allocated \cup {t})

\* One accept for an event.  The timer expires after 3 * TIMESLOT.
AcceptWith(fd, t) ==
    \/ /\ AddWalk(t) = "running"
       /\ Accepted({fd})
       /\ L!AddTimer(t)
       /\ timer' = [timer EXCEPT ![fd] = t]
       /\ UNCHANGED <<server, adjusted>>
    \/ AddWalk(t) # "running" /\ Ends(AddWalk(t)) /\ UNCHANGED adjusted

\* Memory is used again as soon as it can be: new gives the lowest free address.
\* When accept fails, for want of descriptors or otherwise, so does the assertion
\* of addfd.
Accept ==
    /\ Running /\ listenfd \in events
    /\ \/ \E fd \in Fd, t \in Timer :
              NextFd(fd) /\ Lowest(t, Timer \ allocated) /\ AcceptWith(fd, t)
       \/ Ends("aborted") /\ UNCHANGED adjusted

\* The nodes delete_timer writes to beside t.
Relinked(t) ==
    CASE t = list.head /\ t = list.tail -> {}
      [] t = list.head /\ t # list.tail -> {list.next[t]}
      [] t # list.head /\ t = list.tail -> {list.prev[t]}
      [] OTHER -> {list.prev[t], list.next[t]}

\* Mutation: the timer of a closed connection is forgotten.
TimerDroppedNot(t) == UNCHANGED listVars

TimerDropped(t) == L!DeleteTimer(t)

\* ret == 0 or an error, which is not EAGAIN after an event: cb_func closes the descriptor, which
\* takes the registration with it (epoll_ctl names the wrong epoll instance and
\* fails), and delete_timer follows.
ReadEnd(fd) ==
    /\ Running /\ fd \in events
    /\ unread[fd] = 0 /\ fd \in ended
    /\ UNCHANGED adjusted
    /\ \/ /\ Relinked(timer[fd]) \subseteq allocated
          /\ Closed(fd)
          /\ TimerDropped(timer[fd])
          /\ timer' = [timer EXCEPT ![fd] = NULL]
          /\ UNCHANGED server
       \/ /\ ~(Relinked(timer[fd]) \subseteq allocated)
          /\ Ends("undefined")

\* What adjust_timer(t) meets before it inserts t again.
AdjustWalk(t) ==
    IF L!AdjustCase(t, now + 3 * TIMESLOT) = "tail" THEN "crashed"
    ELSE IF list.next[t] \notin allocated THEN "undefined"
    ELSE IF t = list.head
    THEN Walk([list.next EXCEPT ![t] = NULL], list.next[t], allocated)
    ELSE Walk(list.next, list.head, allocated)

\* One recv; the timer moves to 3 * TIMESLOT from now.
ReadData(fd) ==
    /\ Running /\ fd \in events
    /\ unread[fd] > 0
    /\ adjusted' = TRUE
    /\ \/ /\ AdjustWalk(timer[fd]) = "running"
          /\ Received(fd)
          /\ events' = events \ {fd}
          /\ L!Adjust(timer[fd], now + 3 * TIMESLOT)
          /\ UNCHANGED <<server, timer>>
       \/ /\ AdjustWalk(timer[fd]) # "running"
          /\ Ends(AdjustWalk(timer[fd]))

Next ==
    \/ ClientStep
    \/ Second
    \/ Alarmed
    \/ Killed
    \/ EpollWait
    \/ EpollFail
    \/ Accept
    \/ \E fd \in Fd : ReadEnd(fd) \/ ReadData(fd)

Spec == Init /\ [][Next]_vars

-----------------------------------------------------------------------------
(* Properties.                                                              *)

\* The lists hold descriptors and timers that exist.
TypeOK ==
    /\ L!TypeOK
    /\ server \in {"running", "alarmed", "killed", "failed", "aborted",
                   "crashed", "spinning", "undefined"}
    /\ SocketsTypeOK
    /\ timer \in [Fd -> Timer \cup {NULL}]
    /\ adjusted \in BOOLEAN

\* users[] and the heap agree (lines 148, 201 and 211): every open connection has a
\* timer of its own, and no timer outlives its connection, however descriptors
\* and addresses are used again and whatever state the list is in.
TimersOfConnections ==
    Running =>
        /\ allocated = {timer[fd] : fd \in open}
        /\ \A f, g \in open : timer[f] = timer[g] => f = g

\* Connections that come and go in silence do no harm: until a first piece of
\* data has moved a timer (line 222) the list is sound and the process lives.
SilenceHarmless ==
    ~adjusted =>
        L!AscendingDoublyLinked /\ server \notin {"crashed", "spinning", "undefined"}

\* SIGALRM leads to a call of tick (lines 60-65, lst_timer.h line 52), which closes
\* the connections whose timer is due (lines 67-74), and only those.
AlarmClosesInactive ==
    [][Alarmed => open' = {fd \in open : expire[timer[fd]] > now}]_vars

\* The inactive connections of the file's name are never closed: the process
\* ends by its own alarm (line 119) before any timer it has set is due.
NoTimerEverDue == \A t \in allocated : expire[t] > now
=============================================================================
