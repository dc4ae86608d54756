-------------------------- MODULE UnifiedEventSource --------------------------
(***************************************************************************)
(* The unified event source of chapter10/10.4/test_UnifiedEventSource.cpp:  *)
(* a signal handler turns each signal into one byte of a socketpair, and    *)
(* one edge triggered epoll loop serves the listening socket, the bytes and *)
(* the accepted connections, whose events it ignores.                       *)
(*                                                                         *)
(* Handlers run between any two steps of the loop, one at a time (sa_mask   *)
(* is full).  A kind of signal is pending at most once.  Until its handler  *)
(* is installed a signal has its default action.                            *)
(***************************************************************************)
EXTENDS Integers, Sequences

CONSTANTS PipeCap,   \* one-byte messages the socketpair holds
          ReadSize,  \* sizeof(signals)
          MaxSig,    \* bound: signals raised
          MaxConn,   \* bound: connections
          MaxFault   \* bound: failing calls of accept

\* The kernel's default socket buffer holds 278 messages of one byte; signals
\* has room for 1024.
ASSUME EventAssumption ==
    /\ PipeCap \in Nat \ {0} /\ ReadSize \in Nat /\ PipeCap <= ReadSize
    /\ MaxSig \in Nat /\ MaxConn \in Nat /\ MaxFault \in Nat

VARIABLES
    pc,          \* where main is, or how the process ended
    installed,   \* how many of the addsig calls have been made
    errno,
    batch,       \* events[] still to be dispatched
    stopServer,
    openFds,     \* of the descriptors closed at the end of main
    pend,        \* pending signals
    pipe,        \* bytes between pipefd[1] and pipefd[0]
    ready,       \* descriptors with an arrival since the last epoll_wait
    queued,      \* connections waiting for accept
    unread,      \* accepted connections hold data nobody reads
    dropped,     \* kinds whose byte did not fit into the pipe
    sigsLeft, connsLeft, faultsLeft

mainVars == <<pc, installed, errno, batch, stopServer, openFds>>
sigVars == <<pend, pipe, ready, dropped>>
connVars == <<queued, unread>>
budgetVars == <<sigsLeft, connsLeft, faultsLeft>>
vars == <<mainVars, sigVars, connVars, budgetVars>>

\* In the order of the addsig calls.
Kinds == <<"HUP", "CHLD", "TERM", "INT">>
Kind == {Kinds[i] : i \in 1 .. 4}
Installed == {Kinds[i] : i \in 1 .. installed}

Ends == {"exit", "killed", "aborted", "broken"}
Ended == pc \in Ends

Init ==
    /\ pc = "addsig" /\ installed = 0 /\ errno = "none"
    /\ batch = {} /\ stopServer = FALSE
    /\ openFds = {"listen", "write", "read"}
    /\ pend = {} /\ pipe = <<>> /\ ready = {} /\ dropped = {}
    /\ queued = 0 /\ unread = FALSE
    /\ sigsLeft = MaxSig /\ connsLeft = MaxConn /\ faultsLeft = MaxFault

-----------------------------------------------------------------------------
(* Signals.                                                                 *)

Raise(k) ==
    /\ ~Ended /\ sigsLeft > 0
    /\ sigsLeft' = sigsLeft - 1
    /\ pend' = pend \cup {k}
    /\ UNCHANGED <<mainVars, pipe, ready, dropped, connVars, connsLeft, faultsLeft>>

\* The default action: SIGCHLD is ignored, the others kill.
DefaultAction(k) ==
    /\ ~Ended /\ k \in pend \ Installed
    /\ pend' = pend \ {k}
    /\ pc' = IF k = "CHLD" THEN pc ELSE "killed"
    /\ UNCHANGED <<installed, errno, batch, stopServer, openFds, pipe, ready, dropped,
                   connVars, budgetVars>>

Fits == Len(pipe) < PipeCap

\* Mutation: errno is left as send set it.
ErrnoBehindSend == IF Fits THEN errno ELSE "EAGAIN"

\* What the handler leaves in errno: the value it saved.
ErrnoBehind == errno

\* The send of the handler and where it leaves main.
HandlerSends(k, next) ==
    IF "write" \notin openFds
    THEN pc' = next /\ UNCHANGED <<pipe, ready, dropped>>
    ELSE IF "read" \notin openFds
    THEN pc' = "broken" /\ UNCHANGED <<pipe, ready, dropped>>
    ELSE /\ pc' = next
         /\ IF Fits
            THEN pipe' = Append(pipe, k) /\ ready' = ready \cup {"signal"} /\ UNCHANGED dropped
            ELSE dropped' = dropped \cup {k} /\ UNCHANGED <<pipe, ready>>

\* sig_handler runs between two steps of main.
SigHandler(k) ==
    /\ ~Ended /\ k \in pend \cap Installed
    /\ pend' = pend \ {k}
    /\ HandlerSends(k, pc)
    /\ errno' = ErrnoBehind
    /\ UNCHANGED <<installed, batch, stopServer, openFds, connVars, budgetVars>>

\* sig_handler interrupts the blocked epoll_wait, which returns -1 with EINTR
\* (SA_RESTART does not apply to it).
Interrupt(k) ==
    /\ pc = "epoll_wait" /\ k \in pend \cap Installed
    /\ pend' = pend \ {k}
    /\ HandlerSends(k, "failed")
    /\ errno' = "EINTR"
    /\ UNCHANGED <<installed, batch, stopServer, openFds, connVars, budgetVars>>

-----------------------------------------------------------------------------
(* main.                                                                    *)

AddSig ==
    /\ pc = "addsig"
    /\ installed' = installed + 1
    /\ pc' = IF installed' = Len(Kinds) THEN "epoll_wait" ELSE pc
    /\ UNCHANGED <<errno, batch, stopServer, openFds, sigVars, connVars, budgetVars>>

Readable(fd) ==
    \/ fd = "listen" /\ queued > 0
    \/ fd = "signal" /\ pipe # <<>>
    \/ fd = "client" /\ unread

EpollWait ==
    /\ pc = "epoll_wait"
    /\ \E fd \in ready : Readable(fd)
    /\ batch' = {fd \in ready : Readable(fd)}
    /\ ready' = {}
    /\ pc' = "dispatch"
    /\ UNCHANGED <<installed, errno, stopServer, openFds, pend, pipe, dropped, connVars,
                   budgetVars>>

\* epoll_wait returned -1: only EINTR goes back to the loop.
EpollFailed ==
    /\ pc = "failed"
    /\ pc' = IF errno = "EINTR" THEN "dispatch" ELSE "close"
    /\ UNCHANGED <<installed, errno, batch, stopServer, openFds, sigVars, connVars, budgetVars>>

\* Mutation: the whole backlog is accepted at one event.
AcceptedBacklog == 5

\* Connections taken from the queue at one event of the listening socket.
Accepted == 1

AcceptEvent ==
    /\ pc = "dispatch" /\ "listen" \in batch
    /\ batch' = batch \ {"listen"}
    /\ queued' = queued - Accepted
    /\ UNCHANGED <<pc, installed, errno, stopServer, openFds, sigVars, unread, budgetVars>>

\* accept fails and the assertion ends the process.
AcceptAbort ==
    /\ pc = "dispatch" /\ "listen" \in batch
    /\ faultsLeft > 0
    /\ faultsLeft' = faultsLeft - 1
    /\ pc' = "aborted"
    /\ UNCHANGED <<installed, errno, batch, stopServer, openFds, sigVars, connVars,
                   sigsLeft, connsLeft>>

\* Mutation: one byte is read at an event.
ReceivedOne == 1

\* How many bytes one recv takes.
Received == IF Len(pipe) < ReadSize THEN Len(pipe) ELSE ReadSize

\* All bytes read are looked at; SIGINT alone stops the server.
SignalEvent ==
    /\ pc = "dispatch" /\ "signal" \in batch
    /\ batch' = batch \ {"signal"}
    /\ stopServer' = (stopServer \/ \E i \in 1 .. Received : pipe[i] = "INT")
    /\ pipe' = SubSeq(pipe, Received + 1, Len(pipe))
    /\ UNCHANGED <<pc, installed, errno, openFds, pend, ready, dropped, connVars, budgetVars>>

ClientEvent ==
    /\ pc = "dispatch" /\ "client" \in batch
    /\ batch' = batch \ {"client"}
    /\ UNCHANGED <<pc, installed, errno, stopServer, openFds, sigVars, connVars, budgetVars>>

\* The end of the for loop and the test of the while loop.
BatchDone ==
    /\ pc = "dispatch" /\ batch = {}
    /\ pc' = IF stopServer THEN "close" ELSE "epoll_wait"
    /\ UNCHANGED <<installed, errno, batch, stopServer, openFds, sigVars, connVars, budgetVars>>

\* Mutation: the reading end is closed before the writing end.
ClosedNextReadFirst ==
    IF "listen" \in openFds THEN "listen"
    ELSE IF "read" \in openFds THEN "read" ELSE "write"

ClosedNext ==
    IF "listen" \in openFds THEN "listen"
    ELSE IF "write" \in openFds THEN "write" ELSE "read"

CloseFd ==
    /\ pc = "close"
    /\ openFds' = openFds \ {ClosedNext}
    /\ pc' = IF openFds' = {} THEN "exit" ELSE pc
    /\ UNCHANGED <<installed, errno, batch, stopServer, sigVars, connVars, budgetVars>>

-----------------------------------------------------------------------------
(* The clients.                                                             *)

Connect ==
    /\ ~Ended /\ connsLeft > 0
    /\ connsLeft' = connsLeft - 1
    /\ queued' = queued + 1
    /\ ready' = ready \cup {"listen"}
    /\ UNCHANGED <<mainVars, pend, pipe, dropped, unread, sigsLeft, faultsLeft>>

\* A client whose connection was accepted sends.
ClientSend ==
    /\ ~Ended /\ queued + connsLeft < MaxConn
    /\ unread' = TRUE
    /\ ready' = ready \cup {"client"}
    /\ UNCHANGED <<mainVars, pend, pipe, dropped, queued, budgetVars>>

-----------------------------------------------------------------------------

Deliver == \E k \in Kind : DefaultAction(k) \/ SigHandler(k) \/ Interrupt(k)

Main ==
    \/ AddSig
    \/ EpollWait
    \/ EpollFailed
    \/ AcceptEvent
    \/ AcceptAbort
    \/ SignalEvent
    \/ ClientEvent
    \/ BatchDone
    \/ CloseFd

Next ==
    \/ \E k \in Kind : Raise(k)
    \/ Deliver
    \/ Main
    \/ Connect
    \/ ClientSend

Spec == Init /\ [][Next]_vars

\* The scheduler runs the process and the kernel delivers pending signals.
FairSpec == Spec /\ WF_vars(Main) /\ WF_vars(Deliver)

-----------------------------------------------------------------------------
(* Properties.                                                              *)

\* Every variable keeps its type; the queue never owes a connection.
TypeOK ==
    /\ pc \in Ends \cup {"addsig", "epoll_wait", "failed", "dispatch", "close"}
    /\ installed \in 0 .. 4
    /\ errno \in {"none", "EINTR", "EAGAIN"}
    /\ batch \subseteq {"listen", "signal", "client"}
    /\ ready \subseteq {"listen", "signal", "client"}
    /\ stopServer \in BOOLEAN /\ unread \in BOOLEAN
    /\ openFds \subseteq {"listen", "write", "read"}
    /\ pend \subseteq Kind /\ dropped \subseteq Kind
    /\ pipe \in Seq(Kind) /\ Len(pipe) <= PipeCap
    /\ queued \in 0 .. MaxConn
    /\ sigsLeft \in 0 .. MaxSig /\ connsLeft \in 0 .. MaxConn /\ faultsLeft \in 0 .. MaxFault

\* The loop is left because SIGINT was read and for no other reason: a handler
\* that runs between the return of epoll_wait and the test of errno (line 92),
\* and whose send fails, does not make the interruption look like a failure.
LeavesOnlyOnInt == pc \in {"close", "exit"} => stopServer

\* While the loop runs, bytes in the pipe have an event that will make main read
\* them, although events come once and one event reads once.
ByteHasEvent == pipe # <<>> /\ pc # "close" /\ ~Ended => "signal" \in ready \cup batch

\* A handler that still runs while main closes its descriptors never sends on a
\* socketpair whose reading end is gone, which would kill it with SIGPIPE.
NoBrokenPipe == pc # "broken"

\* SIGINT, once its handler is installed, ends the process, except when its byte
\* found the pipe full.
InterruptStops ==
    ("INT" \in pend /\ "INT" \in Installed) ~> (Ended \/ "INT" \in dropped)
=============================================================================
