---------------------------- MODULE ChatroomShmClnt ----------------------------
(***************************************************************************)
(* The client of chapter13/13.6/chatroom_shm_clnt.c: a process that sends    *)
(* what the user types and its child, which prints what the server sends,     *)
(* with one TCP socket and one socketpair between them.                      *)
(***************************************************************************)
EXTENDS Integers

CONSTANT MaxInbox   \* bound on the messages of the server that wait

InboxAssumption == MaxInbox \in Nat \ {0}

VARIABLES
    sender,      \* parent: "wait" in epoll_wait, "input" in fgets, "done"
    receiver,    \* child: "socket" or "pipe" in recv, "leaving", "done"; or "none"
    stopSend,    \* stopSendProcess of the parent
    stopRead,    \* stopReadProcess of the child
    toSender,    \* bytes in the socketpair for the parent
    toReceiver,  \* bytes in the socketpair for the child
    server,      \* "open", "closed", or "reset" once the socket is dead
    inbox,       \* messages of the server not yet read
    buf,         \* the parent's buffer: "" or a line
    typing,      \* stdin has not reached its end
    resumed,     \* history: the last epoll_wait was interrupted, and reported nothing
    heard,       \* history: the child has received a message
    harmed       \* history: a signal has ended one of the processes

vars == <<sender, receiver, stopSend, stopRead, toSender, toReceiver, server, inbox,
          buf, typing, resumed, heard, harmed>>

\* Where fork fails there is no child; main takes the branch of the parent all the
\* same, and closes the only other end of the socketpair.
Init ==
    /\ sender = "wait" /\ receiver \in {"socket", "none"}
    /\ stopSend = FALSE /\ stopRead = FALSE
    /\ toSender = 0 /\ toReceiver = 0
    /\ server = "open" /\ inbox = 0
    /\ buf = "" /\ typing = TRUE
    /\ resumed = FALSE /\ heard = FALSE /\ harmed = FALSE

-----------------------------------------------------------------------------
(* The server, and signals that end one process.                            *)

ServerSends ==
    /\ server = "open" /\ inbox < MaxInbox
    /\ inbox' = inbox + 1
    /\ UNCHANGED <<sender, receiver, stopSend, stopRead, toSender, toReceiver, server,
                   buf, typing, resumed, heard, harmed>>

ServerEnds ==
    /\ server = "open"
    /\ server' \in {"closed", "reset"}
    /\ UNCHANGED <<sender, receiver, stopSend, stopRead, toSender, toReceiver, inbox,
                   buf, typing, resumed, heard, harmed>>

Killed ==
    /\ \/ sender # "done" /\ sender' = "done" /\ UNCHANGED receiver
       \/ receiver \notin {"done", "none"} /\ receiver' = "done" /\ UNCHANGED sender
    /\ harmed' = TRUE
    /\ UNCHANGED <<stopSend, stopRead, toSender, toReceiver, server, inbox, buf, typing, resumed, heard>>

-----------------------------------------------------------------------------
(* sendProcess.                                                             *)

\* Mutation: epoll_wait watches stdin as well.
InputWakes == typing

\* The descriptors of send_epollfd that wake the parent beside the socketpair.
OthersWake == FALSE

\* Mutation: main does not close pipefd[1] in the parent (line 194), which then
\* holds the other end itself.
ReceiverEndHeld == FALSE

\* The child's end of the socketpair is closed: main has closed it in the parent,
\* and the child's exit, or its absence, does the rest.
ReceiverEndClosed == receiver \in {"done", "none"}

\* epoll_wait and the recv after it.  The recv fills one byte of the four of sig,
\* whose others nobody has set.  Whatever it finds, fgets is next.
SenderWakes ==
    /\ sender = "wait"
    /\ sender' = "input"
    /\ \/ toSender > 0 /\ toSender' = toSender - 1 /\ stopSend' \in {stopSend, TRUE}
       \/ toSender = 0 /\ (ReceiverEndClosed \/ OthersWake) /\ UNCHANGED <<toSender, stopSend>>
    /\ resumed' = FALSE
    /\ UNCHANGED <<receiver, stopRead, toReceiver, server, inbox, buf, typing, heard, harmed>>

\* The process is stopped and continued: epoll_wait fails with EINTR, which is not
\* a failure to the code, and fgets is next as well.
SenderResumes ==
    /\ sender = "wait"
    /\ sender' = "input"
    /\ resumed' = TRUE
    /\ UNCHANGED <<receiver, stopSend, stopRead, toSender, toReceiver, server, inbox, buf, typing,
                   heard, harmed>>

\* Any other error ends the loop.
SenderFails ==
    /\ sender = "wait"
    /\ sender' = "done"
    /\ UNCHANGED <<receiver, stopSend, stopRead, toSender, toReceiver, server, inbox, buf, typing,
                   resumed, heard, harmed>>

\* send(sockfd, ...) of line.  To a server that has closed the first line is lost
\* and answered with a reset, which may still be on its way when the next is sent;
\* nothing at all can always be sent to it.  A dead socket means SIGPIPE or the
\* break of line 107.
Sends(line) ==
    /\ \/ /\ server # "reset"
          /\ sender' = IF stopSend THEN "done" ELSE "wait"
          /\ server' \in IF server = "closed" /\ line # "" THEN {"closed", "reset"} ELSE {server}
       \/ server = "reset" /\ sender' = "done" /\ UNCHANGED server
    /\ UNCHANGED <<receiver, stopSend, stopRead, toSender, toReceiver, inbox, resumed, heard,
                   harmed>>

SendsLine ==
    /\ sender = "input" /\ typing
    /\ buf' = "line"
    /\ Sends("line")
    /\ UNCHANGED typing

\* fgets at the end of stdin leaves buf as it is.
SendsAgain ==
    /\ sender = "input"
    /\ typing' = FALSE
    /\ Sends(buf)
    /\ UNCHANGED buf

\* "quit": a byte for the child, or SIGPIPE when it is gone.
Quits ==
    /\ sender = "input" /\ typing
    /\ sender' = "done"
    /\ toReceiver' = IF ReceiverEndClosed THEN toReceiver ELSE toReceiver + 1
    /\ UNCHANGED <<receiver, stopSend, stopRead, toSender, server, inbox, buf, typing, resumed,
                   heard, harmed>>

-----------------------------------------------------------------------------
(* recvProcess.                                                             *)

\* A message is printed, and the socketpair is next.
ReceiverHears ==
    /\ receiver = "socket" /\ inbox > 0
    /\ inbox' = inbox - 1
    /\ heard' = TRUE
    /\ receiver' = "pipe"
    /\ UNCHANGED <<sender, stopSend, stopRead, toSender, toReceiver, server, buf, typing, resumed,
                   harmed>>

\* End of file: a byte for the parent, or SIGPIPE when it is gone.  An error: no byte.
ReceiverHearsEnd ==
    /\ receiver = "socket" /\ inbox = 0 /\ server # "open"
    /\ receiver' = "leaving"
    /\ toSender' = IF server = "closed" /\ sender # "done" THEN toSender + 1 ELSE toSender
    /\ UNCHANGED <<sender, stopSend, stopRead, toReceiver, server, inbox, buf, typing, resumed,
                   heard, harmed>>

\* Mutation: the child does not wait for the socketpair.
PipeWaitsNot == FALSE

\* recv on the socketpair blocks.
PipeWaits == TRUE

\* A byte, of which sig is made as in the parent, or the end of the parent.
ReceiverReadsPipe ==
    /\ receiver = "pipe"
    /\ \/ toReceiver > 0 /\ toReceiver' = toReceiver - 1 /\ stopRead' \in {stopRead, TRUE}
       \/ /\ toReceiver = 0 /\ (PipeWaits => sender = "done")
          /\ UNCHANGED <<toReceiver, stopRead>>
    /\ receiver' = IF stopRead' THEN "leaving" ELSE "socket"
    /\ UNCHANGED <<sender, stopSend, toSender, server, inbox, buf, typing, resumed, heard, harmed>>

ReceiverExits ==
    /\ receiver = "leaving"
    /\ receiver' = "done"
    /\ UNCHANGED <<sender, stopSend, stopRead, toSender, toReceiver, server, inbox, buf,
                   typing, resumed, heard, harmed>>

ReceiverStep == ReceiverHears \/ ReceiverHearsEnd \/ ReceiverReadsPipe \/ ReceiverExits

Next ==
    \/ ServerSends
    \/ ServerEnds
    \/ Killed
    \/ SenderWakes
    \/ SenderResumes
    \/ SenderFails
    \/ SendsLine
    \/ SendsAgain
    \/ Quits
    \/ ReceiverStep

\* The processes go on where nothing keeps them waiting; the user and the server
\* owe them nothing.
Spec == Init /\ [][Next]_vars /\ WF_vars(SenderWakes) /\ WF_vars(ReceiverStep)

-----------------------------------------------------------------------------
(* Properties.                                                              *)

TypeOK ==
    /\ sender \in {"wait", "input", "done"}
    /\ receiver \in {"socket", "pipe", "leaving", "done", "none"}
    /\ stopSend \in BOOLEAN /\ stopRead \in BOOLEAN /\ typing \in BOOLEAN
    /\ resumed \in BOOLEAN /\ heard \in BOOLEAN /\ harmed \in BOOLEAN
    /\ toSender \in 0 .. 1 /\ toReceiver \in 0 .. 1
    /\ server \in {"open", "closed", "reset"}
    /\ inbox \in 0 .. MaxInbox
    /\ buf \in {"", "line"}

\* Unless a stop and continue interrupts epoll_wait (line 67), the user is not
\* asked for a line (line 94) before the child has left its loop or where there is
\* none, and as long as the child has not been harmed that is after the server has
\* ended the connection: nothing that is typed then reaches a server that listens.
InputOnlyAfterTheEnd ==
    sender = "input" /\ ~resumed =>
        /\ receiver \in {"leaving", "done", "none"}
        /\ ~harmed /\ receiver # "none" => server # "open"

\* After one message the child waits for "quit" or the end of the parent (line
\* 141), and the parent for the end of the child (line 66): neither sends what the
\* other waits for, and however often interruptions let the user send a line, no
\* second message is read and no end of the connection noticed.
SilentAfterMessage ==
    heard /\ ~harmed /\ sender # "done" =>
        /\ receiver = "pipe" /\ toSender = 0 /\ toReceiver = 0
        /\ sender = "input" => resumed

\* The end of the child is noticed, with a byte or without one (lines 125, 132, 194),
\* and that there is none: the parent does not wait for it for ever.
ReceiverEndNoticed == receiver \in {"done", "none"} ~> sender # "wait"
=============================================================================
