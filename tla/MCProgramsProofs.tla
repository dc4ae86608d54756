--------------------------- MODULE MCProgramsProofs ---------------------------
(***************************************************************************)
(* Theorems about the small programs, for any number of connections, of       *)
(* clients that wait, of pieces of data, timers and messages, for any TIMESLOT *)
(* and USER_LIMIT.  Only ProgramsAssumption is assumed.  There is an invariant  *)
(* for each program, and the lemmas about its steps; at the end they are put    *)
(* together.                                                                 *)
(***************************************************************************)
EXTENDS MCPrograms, FiniteSetTheorems

-----------------------------------------------------------------------------
(* TestTcpUdp.                                                              *)

\* The bounds of this program.
LEMMA EchoBounds == Echo!SocketsAssumption
  BY ProgramsAssumption

\* The inductive invariant: the types, the sockets, and that nothing is left lying.
EchoInv ==
    /\ Echo!SocketsInv
    /\ Echo!TypeOK
    /\ Echo!EdgeDrained

\* Nothing is open and nobody is served at the start.
LEMMA EchoStarts == Echo!Init => EchoInv
<1>. SUFFICES ASSUME Echo!Init PROVE EchoInv
  OBVIOUS
<1>1. Echo!SocketsInv
  BY EchoBounds, Echo!SocketsStart DEF Echo!Init
<1>2. Echo!TypeOK /\ Echo!EdgeDrained
  BY <1>1 DEF Echo!Init, Echo!SocketsInit, Echo!SocketsInv, Echo!TypeOK, Echo!EdgeDrained
<1>. QED  BY <1>1, <1>2 DEF EchoInv

\* The end of the process leaves nothing open.
LEMMA DiesKeepsEcho ==
    ASSUME Echo!Dies
    PROVE  EchoInv'
<1>1. Echo!SocketsInv'
  BY EchoBounds, Echo!GoneKeeps DEF Echo!Dies
<1>. QED  BY <1>1
             DEF Echo!Dies, Echo!SocketsGone, Echo!SocketsInv, Echo!TypeOK, Echo!EdgeDrained,
                 EchoInv

\* One case per action.
LEMMA EchoSteps == EchoInv /\ [Echo!Next]_Echo!vars => EchoInv'
<1>. SUFFICES ASSUME EchoInv, [Echo!Next]_Echo!vars PROVE EchoInv'
  OBVIOUS
<1>. USE EchoBounds, Echo!ListenApart DEF EchoInv
<1>0. open \subseteq Fd
  BY DEF Echo!SocketsInv, Echo!SocketsTypeOK
<1>1. CASE Echo!ClientStep
  <2>1. Echo!SocketsInv'
    BY <1>1, EchoBounds, Echo!ClientsKeep DEF Echo!ClientStep
  <2>2. serving' \in open' \cup {Echo!listenfd}
    BY <1>1 DEF Echo!ClientStep, Echo!Clients, Echo!Connect, Echo!Send, Echo!Close, Echo!TypeOK
  <2>3. Echo!EdgeDrained'
    <3>1. CASE Echo!Connect
      BY <1>0, <1>1, <3>1 DEF Echo!ClientStep, Echo!Connect, Echo!EdgeDrained, Echo!Readable
    <3>2. ASSUME NEW fd \in Fd, Echo!Send(fd) PROVE Echo!EdgeDrained'
      BY <1>0, <1>1, <3>2
         DEF Echo!ClientStep, Echo!Send, Echo!EdgeDrained, Echo!Readable, Echo!SocketsInv,
             Echo!SocketsTypeOK
    <3>3. ASSUME NEW fd \in Fd, Echo!Close(fd) PROVE Echo!EdgeDrained'
      BY <1>0, <1>1, <3>3 DEF Echo!ClientStep, Echo!Close, Echo!EdgeDrained, Echo!Readable
    <3>. QED  BY <1>1, <3>1, <3>2, <3>3 DEF Echo!ClientStep, Echo!Clients
  <2>. QED  BY <1>1, <2>1, <2>2, <2>3 DEF Echo!ClientStep, Echo!TypeOK, Echo!SocketsInv
<1>2. CASE Echo!EpollWait
  <2>1. Echo!SocketsInv'
    BY <1>2, EchoBounds, Echo!WaitKeeps DEF Echo!EpollWait, Echo!SocketsInv, Echo!SocketsTypeOK
  <2>2. Echo!EdgeDrained'
    BY <1>0, <1>2 DEF Echo!EpollWait, Echo!InLoop, Echo!Wait, Echo!EdgeDrained, Echo!Readable
  <2>. QED  BY <1>2, <2>1, <2>2 DEF Echo!EpollWait, Echo!Wait, Echo!TypeOK, Echo!SocketsInv
<1>3. CASE Echo!ListenFunc
  <2>1. ASSUME NEW fd \in Fd, Echo!NextFd(fd), Echo!Accepted({fd}), UNCHANGED <<running, serving>>
        PROVE  EchoInv'
    <3>1. Echo!SocketsInv'
      BY <1>3, <2>1, EchoBounds, Echo!AcceptedKeeps DEF Echo!ListenFunc
    <3>2. Echo!EdgeDrained'
      <4>1. fd \in Fd \ open
        BY <2>1 DEF Echo!NextFd, Echo!Lowest
      <4>2. unread[fd] = 0 /\ fd \notin ended
        BY <4>1 DEF Echo!SocketsInv, Echo!SocketsTypeOK
      <4>. QED  BY <1>0, <2>1, <4>2 DEF Echo!Accepted, Echo!EdgeDrained, Echo!Readable
    <3>. QED  BY <2>1, <3>1, <3>2 DEF Echo!Accepted, Echo!TypeOK, Echo!SocketsInv
  <2>2. CASE Echo!Dies
    BY <2>2, DiesKeepsEcho
  <2>. QED  BY <1>3, <2>1, <2>2 DEF Echo!ListenFunc
<1>4. ASSUME NEW fd \in Fd, Echo!TcpFunc(fd) PROVE EchoInv'
  <2>1. Echo!SocketsInv'
    BY <1>4, Echo!IgnoreKeeps DEF Echo!TcpFunc
  <2>2. fd \in open
    BY <1>4 DEF Echo!TcpFunc, Echo!SocketsInv, Echo!SocketsTypeOK
  <2>3. Echo!EdgeDrained'
    BY <1>0, <1>4 DEF Echo!TcpFunc, Echo!InLoop, Echo!Ignore, Echo!EdgeDrained, Echo!Readable
  <2>. QED  BY <1>4, <2>1, <2>2, <2>3 DEF Echo!TcpFunc, Echo!Ignore, Echo!TypeOK, Echo!SocketsInv
<1>5. CASE Echo!TcpEcho
  <2>1. ASSUME Echo!Received(serving), serving' = serving, UNCHANGED <<running, events>>
        PROVE  EchoInv'
    <3>1. serving \in open
      BY <1>5 DEF Echo!TcpEcho, Echo!TypeOK
    <3>2. Echo!SocketsInv'
      BY <2>1, <3>1, EchoBounds, Echo!ReceivedKeeps
    <3>3. Echo!EdgeDrained'
      BY <1>0, <2>1, <3>1
         DEF Echo!Received, Echo!EdgeDrained, Echo!Readable, Echo!SocketsInv, Echo!SocketsTypeOK
    <3>. QED  BY <2>1, <3>2, <3>3 DEF Echo!Received, Echo!TypeOK, Echo!SocketsInv
  <2>2. CASE Echo!Dies
    BY <2>2, DiesKeepsEcho
  <2>. QED  BY <1>5, <2>1, <2>2 DEF Echo!TcpEcho, Echo!StaysAfterEcho
<1>6. CASE Echo!TcpDrained
  <2>1. Echo!SocketsInv'
    BY <1>6, Echo!SocketsUnchanged DEF Echo!TcpDrained
  <2>2. Echo!EdgeDrained'
    BY <1>0, <1>6 DEF Echo!TcpDrained, Echo!socketVars, Echo!EdgeDrained, Echo!Readable
  <2>. QED  BY <1>6, <2>1, <2>2 DEF Echo!TcpDrained, Echo!socketVars, Echo!TypeOK, Echo!SocketsInv
<1>7. CASE Echo!TcpClosed
  <2>1. serving \in open
    BY <1>7 DEF Echo!TcpClosed, Echo!TypeOK
  <2>2. Echo!SocketsInv'
    BY <1>0, <1>7, <2>1, EchoBounds, Echo!ClosedKeeps DEF Echo!TcpClosed
  <2>3. Echo!EdgeDrained'
    BY <1>0, <1>7, <2>1
       DEF Echo!TcpClosed, Echo!Closed, Echo!EdgeDrained, Echo!Readable, Echo!SocketsInv,
           Echo!SocketsTypeOK
  <2>. QED  BY <1>7, <2>2, <2>3 DEF Echo!TcpClosed, Echo!Closed, Echo!TypeOK, Echo!SocketsInv
<1>8. CASE UNCHANGED Echo!vars
  <2>1. Echo!SocketsInv'
    BY <1>8, Echo!SocketsUnchanged DEF Echo!vars
  <2>. QED  BY <1>8, <2>1
               DEF Echo!vars, Echo!socketVars, Echo!TypeOK, Echo!EdgeDrained, Echo!Readable,
                   Echo!SocketsInv
<1>9. CASE Echo!EpollFail
  BY <1>9, DiesKeepsEcho DEF Echo!EpollFail
<1>. QED  BY <1>1, <1>2, <1>3, <1>4, <1>5, <1>6, <1>7, <1>8, <1>9 DEF Echo!Next

-----------------------------------------------------------------------------
(* ChatroomEpollServer.                                                     *)

\* The bounds of this program, and the two names of Cardinality.
LEMMA RoomBounds ==
    /\ Room!SocketsAssumption /\ Room!UserLimitAssumption
    /\ Room!Cardinality(Fd) = Cardinality(Fd)
    /\ IsFiniteSet(Fd) /\ Cardinality(Fd) \in Nat
<1>1. Room!SocketsAssumption /\ Room!UserLimitAssumption
  BY ProgramsAssumption
<1>2. \A S : (Room!IsFiniteSet(S) <=> IsFiniteSet(S)) /\ Room!Cardinality(S) = Cardinality(S)
  BY DEF Room!IsFiniteSet, IsFiniteSet, Room!Cardinality, Cardinality
<1>3. IsFiniteSet(Fd)
  BY <1>1, <1>2 DEF Room!SocketsAssumption
<1>. QED  BY <1>1, <1>2, <1>3, FS_CardinalityType

\* The events still to be handled and those already handled fit into one batch.
BatchFits == i + Cardinality(events) <= Cardinality(Fd) + 1

\* The inductive invariant: the types, the sockets, and the table.
RoomInv ==
    /\ Room!SocketsInv
    /\ Room!TypeOK
    /\ Room!OpenIsListed
    /\ BatchFits

\* A batch holds each descriptor once.
LEMMA BatchFinite ==
    ASSUME NEW batch, batch \subseteq Fd \cup {Room!listenfd}
    PROVE  /\ IsFiniteSet(batch)
           /\ Cardinality(batch) \in Nat
           /\ Cardinality(batch) <= Cardinality(Fd) + 1
           /\ Cardinality(Fd) \in Nat
<1>1. /\ IsFiniteSet(Fd \cup {Room!listenfd})
      /\ Cardinality(Fd \cup {Room!listenfd}) = Cardinality(Fd) + 1
  BY RoomBounds, Room!ListenApart, FS_AddElement
<1>2. IsFiniteSet(batch) /\ Cardinality(batch) <= Cardinality(Fd \cup {Room!listenfd})
  BY RoomBounds, <1>1, FS_Subset
<1>. QED  BY <1>1, <1>2, RoomBounds, FS_CardinalityType

\* After an event has been handled the index is still within the batch.
LEMMA HandledFits ==
    ASSUME RoomInv, NEW fd \in events, events' = events \ {fd}, i' = i + 1
    PROVE  BatchFits' /\ i' \in 0 .. Cardinality(Fd) + 1
<1>1. IsFiniteSet(events) /\ Cardinality(events) \in Nat /\ Cardinality(Fd) \in Nat
  BY BatchFinite DEF RoomInv, Room!SocketsInv, Room!SocketsTypeOK
<1>2. Cardinality(events \ {fd}) = Cardinality(events) - 1 /\ IsFiniteSet(events \ {fd})
  BY RoomBounds, <1>1, FS_RemoveElement
<1>3. Cardinality(events \ {fd}) \in Nat
  BY RoomBounds, <1>2, FS_CardinalityType
<1>4. i \in Nat /\ i + Cardinality(events) <= Cardinality(Fd) + 1
  BY RoomBounds, <1>1 DEF RoomInv, Room!TypeOK, BatchFits
<1>. QED  BY RoomBounds, <1>1, <1>2, <1>3, <1>4 DEF BatchFits

\* An ended process has an empty table and nothing open.
LEMMA StopsKeepsRoom ==
    ASSUME NEW how \in {"ended", "aborted", "killed", "undefined"}, Room!Stops(how)
    PROVE  RoomInv'
<1>1. Room!SocketsInv'
  BY RoomBounds, Room!GoneKeeps DEF Room!Stops
<1>2. Cardinality({}) = 0 /\ Cardinality(Fd) \in Nat
  BY RoomBounds, FS_EmptySet, FS_CardinalityType
<1>. QED  BY RoomBounds, <1>1, <1>2
             DEF Room!Stops, Room!SocketsGone, Room!SocketsInv, Room!TypeOK, Room!OpenIsListed,
                 BatchFits, RoomInv, Room!UserLimitAssumption

\* The table is empty at the start.
LEMMA RoomStarts ==
    ASSUME Room!Init
    PROVE  RoomInv
<1>1. Room!SocketsInv
  BY RoomBounds, Room!SocketsStart DEF Room!Init
<1>2. Cardinality({}) = 0 /\ Cardinality(Fd) \in Nat
  BY RoomBounds, FS_EmptySet, FS_CardinalityType
<1>. QED  BY RoomBounds, <1>1, <1>2
             DEF Room!Init, Room!SocketsInit, Room!SocketsInv, Room!TypeOK, Room!OpenIsListed,
                 BatchFits, RoomInv, Room!UserLimitAssumption

\* A new connection gets the entry behind the last one, or is not kept.
LEMMA AcceptKeepsRoom ==
    ASSUME RoomInv, Room!Accept
    PROVE  RoomInv'
<1>1. ASSUME NEW fd \in Fd, Room!Admit(fd), i' = i + 1, UNCHANGED status
      PROVE  RoomInv'
  <2>1. Room!SocketsInv'
    BY <1>1, RoomBounds, Room!AcceptedKeeps DEF Room!Accept, Room!Admit, RoomInv
  <2>2. BatchFits' /\ i' \in 0 .. Cardinality(Fd) + 1
    BY <1>1, HandledFits DEF Room!Accept, Room!Admit, Room!Accepted
  <2>3. user_fds' \in [0 .. USER_LIMIT - 1 -> Fd \cup {-1}] /\ user_count' \in 0 .. USER_LIMIT
    BY RoomBounds, <1>1
       DEF Room!Admit, Room!RoomLeft, RoomInv, Room!TypeOK, Room!UserLimitAssumption
  <2>4. Room!OpenIsListed'
    BY RoomBounds, <1>1
       DEF Room!Admit, Room!Accepted, Room!RoomLeft, RoomInv, Room!TypeOK, Room!OpenIsListed,
           Room!UserLimitAssumption
  <2>. QED  BY RoomBounds, <1>1, <2>1, <2>2, <2>3, <2>4
            DEF Room!Admit, Room!Accepted, RoomInv, Room!TypeOK, Room!SocketsInv
<1>2. ASSUME NEW fd \in Fd, Room!Refuse(fd), i' = i + 1, UNCHANGED status
      PROVE  RoomInv'
  <2>1. Room!SocketsInv'
    BY <1>2, RoomBounds, Room!AcceptedKeeps DEF Room!Accept, Room!Refuse, Room!LeftOpen, RoomInv
  <2>2. BatchFits' /\ i' \in 0 .. Cardinality(Fd) + 1
    BY <1>2, HandledFits DEF Room!Accept, Room!Refuse, Room!Accepted
  <2>. QED  BY RoomBounds, <1>2, <2>1, <2>2
            DEF Room!Refuse, Room!LeftOpen, Room!Accepted, Room!tableVars, RoomInv, Room!TypeOK,
                Room!OpenIsListed, Room!SocketsInv
<1>3. CASE Room!Stops("aborted")
  BY <1>3, StopsKeepsRoom
<1>4. CASE Room!Stops("killed")
  BY <1>4, StopsKeepsRoom
<1>. QED  BY <1>1, <1>2, <1>3, <1>4 DEF Room!Accept

\* Reading touches no table, and closing only takes out of open.
LEMMA ReadKeepsRoom ==
    ASSUME RoomInv, NEW fd \in Fd, Room!Read(fd)
    PROVE  RoomInv'
<1>1. fd \in events /\ fd \in open
  BY RoomBounds, Room!ListenApart DEF Room!Read, RoomInv, Room!SocketsInv, Room!SocketsTypeOK
<1>2. events' = events \ {fd}
  BY DEF Room!Read, Room!Ignore, Room!Closed
<1>3. BatchFits' /\ i' \in 0 .. Cardinality(Fd) + 1
  BY <1>1, <1>2, HandledFits DEF Room!Read
<1>4. Room!SocketsInv' /\ open' \subseteq open /\ armed' \subseteq open'
  <2>1. CASE Room!Received(fd) /\ UNCHANGED armed
    BY <1>1, <1>2, <2>1, RoomBounds, Room!ReceivedKeeps DEF Room!Received, RoomInv, Room!TypeOK
  <2>2. CASE Room!Ignore(fd) /\ UNCHANGED armed
    BY <2>2, RoomBounds, Room!IgnoreKeeps DEF Room!Ignore, RoomInv, Room!TypeOK
  <2>3. CASE Room!Closed(fd) /\ armed' = armed \ {fd}
    BY <2>3, RoomBounds, Room!ClosedKeeps DEF Room!Closed, RoomInv, Room!TypeOK
  <2>. QED  BY <2>1, <2>2, <2>3 DEF Room!Read
<1>. QED  BY RoomBounds, <1>3, <1>4
             DEF Room!Read, Room!tableVars, RoomInv, Room!TypeOK, Room!OpenIsListed,
                 Room!SocketsInv

\* One case per action.
LEMMA RoomSteps ==
    RoomInv /\ [Room!Next]_Room!vars => RoomInv'
<1>. SUFFICES ASSUME RoomInv, [Room!Next]_Room!vars PROVE RoomInv'
  OBVIOUS
<1>1. CASE Room!ClientStep
  <2>1. Room!SocketsInv'
    BY <1>1, RoomBounds, Room!ClientsKeep DEF Room!ClientStep, RoomInv
  <2>2. UNCHANGED <<open, events>>
    BY <1>1 DEF Room!ClientStep, Room!Clients, Room!Connect, Room!Send, Room!Close
  <2>. QED  BY RoomBounds, <1>1, <2>1, <2>2
            DEF Room!ClientStep, Room!tableVars, RoomInv, Room!TypeOK, Room!OpenIsListed,
                BatchFits, Room!SocketsInv
<1>2. CASE Room!EpollWait
  <2>1. Room!SocketsInv'
    BY <1>2, RoomBounds, Room!WaitKeeps DEF Room!EpollWait, RoomInv, Room!TypeOK
  <2>2. Cardinality(events') \in Nat /\ Cardinality(Fd) \in Nat
        /\ Cardinality(events') <= Cardinality(Fd) + 1
    BY <2>1, BatchFinite DEF Room!SocketsInv, Room!SocketsTypeOK
  <2>3. BatchFits' /\ i' \in 0 .. Cardinality(Fd) + 1
    BY RoomBounds, <1>2, <2>2 DEF Room!EpollWait, BatchFits
  <2>. QED  BY RoomBounds, <1>2, <2>1, <2>3
            DEF Room!EpollWait, Room!Wait, Room!tableVars, RoomInv, Room!TypeOK,
                Room!OpenIsListed, Room!SocketsInv
<1>3. CASE Room!Accept
  BY <1>3, AcceptKeepsRoom
<1>4. ASSUME NEW fd \in Fd, Room!Read(fd) PROVE RoomInv'
  BY <1>4, ReadKeepsRoom
<1>5. ASSUME NEW fd \in Fd, Room!ReadBeyond(fd) PROVE RoomInv'
  BY <1>5, StopsKeepsRoom DEF Room!ReadBeyond
<1>6. CASE UNCHANGED Room!vars
  <2>1. Room!SocketsInv'
    BY <1>6, Room!SocketsUnchanged DEF Room!vars, RoomInv
  <2>. QED  BY RoomBounds, <1>6, <2>1
            DEF Room!vars, Room!socketVars, Room!tableVars, RoomInv, Room!TypeOK,
                Room!OpenIsListed, BatchFits, Room!SocketsInv
<1>7. CASE Room!EpollFail
  BY <1>7, StopsKeepsRoom DEF Room!EpollFail
<1>. QED  BY <1>1, <1>2, <1>3, <1>4, <1>5, <1>6, <1>7 DEF Room!Next

-----------------------------------------------------------------------------
(* ChatroomShmClnt.  Counting and the two processes are kept apart: the first are *)
(* facts about numbers, the second about Boolean variables, and no prover does    *)
(* both.                                                                    *)

Leaves == receiver \in {"leaving", "done", "none"}

Numbers == toSender \in 0 .. 1 /\ toReceiver \in 0 .. 1 /\ inbox \in 0 .. MaxInbox

\* A byte is on its way only from a process that is past its loop.
BytesInv ==
    /\ ~Leaves => toSender = 0
    /\ ~Leaves => ~stopRead
    /\ sender # "done" => toReceiver = 0

\* The parent is past its epoll_wait only when the child is past its loop, or by an
\* interruption; and the child leaves before the parent only because the server has
\* ended the connection, unless one was harmed.
EndInv ==
    /\ sender = "input" /\ ~resumed => Leaves
    /\ ~harmed /\ Leaves /\ receiver # "none" /\ sender # "done" => server # "open"

\* The inductive invariant.
ClientInv == TypeOK /\ BytesInv /\ EndInv /\ SilentAfterMessage

\* Nothing is on its way at the start.
LEMMA ClientStarts ==
    ASSUME InboxAssumption, Init
    PROVE  ClientInv
<1>1. toSender = 0 /\ toReceiver = 0 /\ inbox = 0
  BY DEF Init
<1>2. Numbers
  BY <1>1 DEF Numbers, InboxAssumption
<1>. QED  BY <1>2 DEF Numbers, Init, ClientInv, TypeOK, Leaves, BytesInv, EndInv, SilentAfterMessage

-----------------------------------------------------------------------------
(* Counting: how a step may change each number.                             *)

InboxStep ==
    \/ inbox' = inbox
    \/ inbox < MaxInbox /\ inbox' = inbox + 1
    \/ inbox > 0 /\ inbox' = inbox - 1

ToSenderStep ==
    \/ toSender' = toSender
    \/ receiver = "socket" /\ toSender' = toSender + 1
    \/ toSender > 0 /\ toSender' = toSender - 1

ToReceiverStep ==
    \/ toReceiver' = toReceiver
    \/ sender = "input" /\ toReceiver' = toReceiver + 1
    \/ toReceiver > 0 /\ toReceiver' = toReceiver - 1

\* Every action changes each number by one at the most.
LEMMA CountingSteps ==
    ASSUME [Next]_vars
    PROVE  InboxStep /\ ToSenderStep /\ ToReceiverStep
<1>. USE DEF InboxStep, ToSenderStep, ToReceiverStep
<1>1. CASE ServerSends \/ ServerEnds \/ Killed
  BY <1>1 DEF ServerSends, ServerEnds, Killed
<1>2. CASE SenderWakes
  BY <1>2 DEF SenderWakes
<1>3. CASE SenderResumes \/ SenderFails \/ SendsLine \/ SendsAgain
  BY <1>3 DEF SenderResumes, SenderFails, SendsLine, SendsAgain, Sends
<1>4. CASE Quits
  BY <1>4 DEF Quits
<1>5. CASE ReceiverHears \/ ReceiverExits
  BY <1>5 DEF ReceiverHears, ReceiverExits
<1>6. CASE ReceiverHearsEnd
  BY <1>6 DEF ReceiverHearsEnd
<1>7. CASE ReceiverReadsPipe
  BY <1>7 DEF ReceiverReadsPipe
<1>8. CASE UNCHANGED vars
  BY <1>8 DEF vars
<1>. QED  BY <1>1, <1>2, <1>3, <1>4, <1>5, <1>6, <1>7, <1>8 DEF Next, ReceiverStep

\* A socketpair that holds a byte gets no second one.
LEMMA CountsKept ==
    ASSUME InboxAssumption, ClientInv, [Next]_vars
    PROVE  Numbers'
<1>1. InboxStep /\ ToSenderStep /\ ToReceiverStep
  BY CountingSteps
<1>2. Numbers
  BY DEF ClientInv, TypeOK, Numbers
<1>3. /\ receiver = "socket" => toSender = 0
      /\ sender = "input" => toReceiver = 0
  BY DEF ClientInv, BytesInv, Leaves
<1>. QED  BY <1>1, <1>2, <1>3
          DEF InboxAssumption, Numbers, InboxStep, ToSenderStep, ToReceiverStep

\* A number is positive or zero, not both.
LEMMA PositiveIsNotZero ==
    /\ toSender > 0 => toSender # 0
    /\ toReceiver > 0 => toReceiver # 0
  OBVIOUS

-----------------------------------------------------------------------------
(* The processes.                                                           *)

\* What the server and signals do.
LEMMA OutsideKeepsClient ==
    ASSUME ClientInv, Numbers', ServerSends \/ ServerEnds \/ Killed
    PROVE  ClientInv'
<1>. USE DEF ClientInv, Numbers, TypeOK, Leaves, BytesInv, EndInv, SilentAfterMessage
<1>1. CASE ServerSends
  BY <1>1 DEF ServerSends
<1>2. CASE ServerEnds
  BY <1>2 DEF ServerEnds
<1>3. CASE Killed
  BY <1>3 DEF Killed
<1>. QED  BY <1>1, <1>2, <1>3

\* What the parent does.
LEMMA SenderKeepsClient ==
    ASSUME ClientInv, Numbers',
           SenderWakes \/ SenderResumes \/ SenderFails \/ SendsLine \/ SendsAgain \/ Quits
    PROVE  ClientInv'
<1>. USE DEF ClientInv, Numbers, TypeOK, Leaves, BytesInv, EndInv, SilentAfterMessage
<1>1. CASE SenderWakes
  <2>1. Leaves
    BY <1>1, PositiveIsNotZero DEF SenderWakes, ReceiverEndClosed, OthersWake
  <2>. QED  BY <1>1, <2>1, PositiveIsNotZero DEF SenderWakes
<1>2. CASE SendsLine
  BY <1>2 DEF SendsLine, Sends
<1>3. CASE SendsAgain
  BY <1>3 DEF SendsAgain, Sends
<1>4. CASE Quits
  BY <1>4, PositiveIsNotZero DEF Quits, ReceiverEndClosed
<1>5. CASE SenderResumes
  BY <1>5 DEF SenderResumes
<1>6. CASE SenderFails
  BY <1>6 DEF SenderFails
<1>. QED  BY <1>1, <1>2, <1>3, <1>4, <1>5, <1>6

\* What the child does.  It waits for the socketpair for good unless the parent
\* has ended.
LEMMA ReceiverKeepsClient ==
    ASSUME ClientInv, Numbers', ReceiverStep
    PROVE  ClientInv'
<1>. USE DEF ClientInv, Numbers, TypeOK, Leaves, BytesInv, EndInv, SilentAfterMessage
<1>1. CASE ReceiverHears
  BY <1>1 DEF ReceiverHears
<1>2. CASE ReceiverHearsEnd
  BY <1>2 DEF ReceiverHearsEnd
<1>3. CASE ReceiverReadsPipe
  <2>1. sender = "done"
    BY <1>3, PositiveIsNotZero DEF ReceiverReadsPipe, PipeWaits
  <2>. QED  BY <1>3, <2>1 DEF ReceiverReadsPipe
<1>4. CASE ReceiverExits
  BY <1>4 DEF ReceiverExits
<1>. QED  BY <1>1, <1>2, <1>3, <1>4 DEF ReceiverStep

\* One case per kind of step.
LEMMA ClientSteps ==
    ASSUME InboxAssumption
    PROVE  ClientInv /\ [Next]_vars => ClientInv'
<1>. SUFFICES ASSUME ClientInv, [Next]_vars PROVE ClientInv'
  OBVIOUS
<1>1. CASE UNCHANGED vars
  <2>1. UNCHANGED <<sender, receiver, stopSend, stopRead, toSender, toReceiver, server, inbox>>
    BY <1>1 DEF vars
  <2>2. UNCHANGED <<buf, typing, resumed, heard, harmed>>
    BY <1>1 DEF vars
  <2>3. TypeOK'
    BY <2>1, <2>2 DEF ClientInv, TypeOK
  <2>. QED  BY <2>1, <2>2, <2>3
            DEF ClientInv, Leaves, BytesInv, EndInv, SilentAfterMessage
<1>. QED  BY <1>1, CountsKept, OutsideKeepsClient, SenderKeepsClient, ReceiverKeepsClient DEF Next

-----------------------------------------------------------------------------
(* TestLtEt.                                                                *)

\* The bounds of this program.
LEMMA LevelsBounds == Levels!SocketsAssumption
  BY ProgramsAssumption

\* One case per action.
LEMMA LevelsSteps == Levels!SocketsInv /\ [Levels!Next]_Levels!vars => Levels!SocketsInv'
<1>. SUFFICES ASSUME Levels!SocketsInv, [Levels!Next]_Levels!vars PROVE Levels!SocketsInv'
  OBVIOUS
<1>1. CASE Levels!Clients
  BY <1>1, LevelsBounds, Levels!ClientsKeep
<1>2. CASE Levels!EpollWait
  <2>1. ready \cup open \subseteq open \cup {Levels!listenfd}
    BY DEF Levels!SocketsInv, Levels!SocketsTypeOK
  <2>. QED  BY <1>2, <2>1, LevelsBounds, Levels!WaitKeeps
            DEF Levels!EpollWait, Levels!LevelTriggered
<1>3. CASE Levels!LtAccept
  <2>1. ASSUME NEW fd \in Fd, Levels!Accepted({fd}) PROVE Levels!SocketsInv'
    BY <1>3, <2>1, LevelsBounds, Levels!AcceptedKeeps DEF Levels!LtAccept
  <2>. QED  BY <1>3, <2>1, Levels!IgnoreKeeps DEF Levels!LtAccept
<1>4. ASSUME NEW fd \in Fd, Levels!LtReceive(fd) \/ Levels!LtClose(fd) PROVE Levels!SocketsInv'
  <2>1. fd \in open
    BY <1>4, LevelsBounds, Levels!ListenApart
       DEF Levels!LtReceive, Levels!LtClose, Levels!SocketsInv, Levels!SocketsTypeOK
  <2>. QED  BY <1>4, <2>1, LevelsBounds, Levels!ReceivedKeeps, Levels!ClosedKeeps
            DEF Levels!LtReceive, Levels!LtClose
<1>5. CASE UNCHANGED Levels!vars
  BY <1>5, Levels!SocketsUnchanged DEF Levels!vars
<1>. QED  BY <1>1, <1>2, <1>3, <1>4, <1>5 DEF Levels!Next, Levels!ServerStep

-----------------------------------------------------------------------------
(* ForkMutex and SemIpcPrivate.                                              *)

\* The inductive invariant of the first: main destroys the mutex only after fork, so
\* that the child never gets a copy of a destroyed one.
ForkInv ==
    /\ Fork!TypeOK
    /\ main \in {"start", "prepared", "forked", "wait"} => mutex # "destroyed"

\* One case per process.
LEMMA ForkSteps == ForkInv /\ [Fork!Next]_Fork!vars => ForkInv'
<1>. SUFFICES ASSUME ForkInv, [Fork!Next]_Fork!vars PROVE ForkInv'
  OBVIOUS
<1>. USE DEF ForkInv, Fork!TypeOK
<1>1. CASE Fork!ThreadStep
  BY <1>1 DEF Fork!ThreadStep, Fork!ThreadLocks, Fork!ThreadUnlocks, Fork!Locks, Fork!Unlocks
<1>2. CASE Fork!ChildStep
  BY <1>2 DEF Fork!ChildStep, Fork!ChildStarts, Fork!ChildLocks, Fork!ChildExits
<1>3. CASE Fork!Prepare
  BY <1>3 DEF Fork!Prepare, Fork!Locks
<1>4. CASE Fork!Fork
  BY <1>4 DEF Fork!Fork
<1>5. CASE Fork!ForkFails
  BY <1>5 DEF Fork!ForkFails
<1>6. CASE Fork!Parent
  BY <1>6 DEF Fork!Parent, Fork!Unlocks
<1>7. CASE Fork!Waits \/ Fork!Joins
  BY <1>7 DEF Fork!Waits, Fork!Joins
<1>8. CASE UNCHANGED Fork!vars
  BY <1>8 DEF Fork!vars
<1>. QED  BY <1>1, <1>2, <1>3, <1>4, <1>5, <1>6, <1>7, <1>8 DEF Fork!Next, Fork!MainStep

\* The inductive invariant of the second: the value and what the ends of the
\* processes will give back or take away add up to 1, and who has not released
\* takes nothing away.
Balance == val + undo["parent"] + undo["child"]

SemInv ==
    /\ privileged \in BOOLEAN
    /\ semPc \in [Sem!Process -> {"start", "in", "out", "end"}]
    /\ val \in Nat /\ undo \in [Sem!Process -> -1 .. 1]
    /\ Balance = IF privileged THEN 1 ELSE 0
    /\ \A p \in Sem!Process :
           /\ semPc[p] \in {"start", "end"} => undo[p] = 0
           /\ semPc[p] = "in" => undo[p] \in 0 .. 1
           /\ ~privileged => undo[p] = 0

\* The value never leaves its range.
LEMMA SemTyped == SemInv => Sem!TypeOK
  BY DEF SemInv, Balance, Sem!TypeOK, Sem!Process

\* Who holds the semaphore has made its value 0 for the other; and nothing is left
\* to be given back at the end.
LEMMA SemHoldersApart == SemInv => Sem!HoldersApart
  BY DEF SemInv, Balance, Sem!HoldersApart, Sem!Holds, Sem!Process

\* The end of a process moves what it owes from one summand to the other.
LEMMA EndKeepsSem ==
    ASSUME SemInv, NEW p \in Sem!Process, Sem!Ends(p)
    PROVE  SemInv'
<1>. USE DEF SemInv, Balance, Sem!Process, Sem!Ends
<1>1. val + undo[p] \in Nat
  OBVIOUS
<1>. QED  BY <1>1

\* One case per action.
LEMMA SemSteps == SemInv /\ [Sem!Next]_Sem!vars => SemInv'
<1>. SUFFICES ASSUME SemInv, [Sem!Next]_Sem!vars PROVE SemInv'
  OBVIOUS
<1>. USE DEF SemInv, Balance, Sem!Process
<1>1. ASSUME NEW p \in Sem!Process, Sem!Enter(p) PROVE SemInv'
  BY <1>1 DEF Sem!Enter, Sem!Pv, Sem!Undone, Sem!Allowed
<1>2. ASSUME NEW p \in Sem!Process, Sem!Leave(p) PROVE SemInv'
  BY <1>2 DEF Sem!Leave, Sem!Pv, Sem!Undone, Sem!Allowed
<1>3. ASSUME NEW p \in Sem!Process, Sem!PvFails(p) PROVE SemInv'
  BY <1>3 DEF Sem!PvFails
<1>4. ASSUME NEW p \in Sem!Process, Sem!Exit(p) \/ Sem!Killed(p) PROVE SemInv'
  BY <1>4, EndKeepsSem DEF Sem!Exit, Sem!Killed
<1>5. CASE UNCHANGED Sem!vars
  BY <1>5 DEF Sem!vars
<1>. QED  BY <1>1, <1>2, <1>3, <1>4, <1>5 DEF Sem!Next, Sem!ProcessStep

-----------------------------------------------------------------------------
(* CloseInactiveConn, both instances.  What they do to the timers and the     *)
(* clock is the same whatever the bounds on the sockets: HeapStep.           *)

\* Nobody ticks, and the clock stops when the alarm is due.
ClockInv ==
    /\ pc = "idle"
    /\ now \in 0 .. TIMESLOT

\* Timers are allocated for the open connections, one for each.
OneTimerEach ==
    /\ timer \in [Fd -> Timer \cup {NULL}]
    /\ allocated \subseteq Timer
    /\ allocated = {timer[fd] : fd \in open}
    /\ \A f, g \in open : timer[f] = timer[g] => f = g

\* No timer was set for an earlier time than the first could be.
ExpireInv ==
    /\ expire \in [Timer -> Nat]
    /\ \A t \in allocated : expire[t] >= 3 * TIMESLOT

HeapInv == open \subseteq Fd /\ ClockInv /\ OneTimerEach /\ ExpireInv

\* A connection is accepted, or closed, or its timer is moved on, or a second
\* passes, or the process ends.
TimerAdded(fd, t) ==
    /\ fd \notin open /\ open' = open \cup {fd}
    /\ t \notin allocated /\ allocated' = allocated \cup {t}
    /\ timer' = [timer EXCEPT ![fd] = t]
    /\ expire' = [expire EXCEPT ![t] = now + 3 * TIMESLOT]
    /\ UNCHANGED <<now, pc>>

TimerDeleted(fd) ==
    /\ fd \in open /\ open' = open \ {fd}
    /\ allocated' = allocated \ {timer[fd]}
    /\ timer' = [timer EXCEPT ![fd] = NULL]
    /\ UNCHANGED <<expire, now, pc>>

TimerMoved(fd) ==
    /\ fd \in open
    /\ expire' = [expire EXCEPT ![timer[fd]] = now + 3 * TIMESLOT]
    /\ UNCHANGED <<open, allocated, timer, now, pc>>

SecondPasses ==
    /\ now' = now \/ (now < TIMESLOT /\ now' = now + 1)
    /\ UNCHANGED <<open, allocated, timer, expire, pc>>

NothingLeft ==
    /\ open' = {} /\ allocated' = {}
    /\ timer' = [fd \in Fd |-> NULL]
    /\ expire' = [t \in Timer |-> 0]
    /\ now' = 0 /\ pc' = pc

HeapStep ==
    \/ \E fd \in Fd, t \in Timer : TimerAdded(fd, t)
    \/ \E fd \in Fd : TimerDeleted(fd) \/ TimerMoved(fd)
    \/ SecondPasses
    \/ NothingLeft

\* The alarm is due after a second at the earliest.
LEMMA AlarmBounds == TIMESLOT \in Nat \ {0}
  BY ProgramsAssumption DEF Inactive3!TimersAssumption

\* A new connection gets a fresh timer.
LEMMA AddedKeepsHeap ==
    ASSUME HeapInv, NEW fd \in Fd, NEW t \in Timer, TimerAdded(fd, t)
    PROVE  HeapInv'
<1>1. open' \subseteq Fd
  BY DEF TimerAdded, HeapInv
<1>2. ClockInv'
  BY DEF TimerAdded, HeapInv, ClockInv
<1>3. OneTimerEach'
  <2>1. timer'[fd] = t /\ \A f \in open : timer'[f] = timer[f]
    BY DEF TimerAdded, HeapInv, OneTimerEach
  <2>2. allocated' = {timer'[f] : f \in open'}
    BY <2>1 DEF TimerAdded, HeapInv, OneTimerEach
  <2>3. \A f \in open : timer[f] # t
    BY DEF TimerAdded, HeapInv, OneTimerEach
  <2>4. \A f, g \in open' : timer'[f] = timer'[g] => f = g
    BY <2>1, <2>3 DEF TimerAdded, HeapInv, OneTimerEach
  <2>. QED  BY <2>2, <2>4 DEF TimerAdded, HeapInv, OneTimerEach
<1>4. ExpireInv'
  BY AlarmBounds DEF TimerAdded, HeapInv, ClockInv, OneTimerEach, ExpireInv
<1>. QED  BY <1>1, <1>2, <1>3, <1>4 DEF HeapInv

\* A connection that ends takes its timer, and no other, with it.
LEMMA DeletedKeepsHeap ==
    ASSUME HeapInv, NEW fd \in Fd, TimerDeleted(fd)
    PROVE  HeapInv'
<1>1. open' \subseteq Fd /\ ClockInv' /\ ExpireInv'
  BY DEF TimerDeleted, HeapInv, ClockInv, ExpireInv
<1>2. OneTimerEach'
  <2>1. \A f \in open' : timer'[f] = timer[f]
    BY DEF TimerDeleted, HeapInv, OneTimerEach
  <2>2. \A f \in open' : timer[f] # timer[fd]
    BY DEF TimerDeleted, HeapInv, OneTimerEach
  <2>3. allocated' = {timer'[f] : f \in open'}
    BY <2>1, <2>2 DEF TimerDeleted, HeapInv, OneTimerEach
  <2>. QED  BY <2>1, <2>3 DEF TimerDeleted, HeapInv, OneTimerEach
<1>. QED  BY <1>1, <1>2 DEF HeapInv

\* Data moves the timer of its connection on, and never back.
LEMMA MovedKeepsHeap ==
    ASSUME HeapInv, NEW fd \in Fd, TimerMoved(fd)
    PROVE  HeapInv'
<1>1. open' \subseteq Fd /\ ClockInv' /\ OneTimerEach'
  BY DEF TimerMoved, HeapInv, ClockInv, OneTimerEach
<1>2. ExpireInv'
  <2>1. timer[fd] \in Timer
    BY DEF TimerMoved, HeapInv, OneTimerEach
  <2>2. now + 3 * TIMESLOT \in Nat /\ now + 3 * TIMESLOT >= 3 * TIMESLOT
    BY AlarmBounds DEF HeapInv, ClockInv
  <2>3. expire' \in [Timer -> Nat]
    BY <2>1, <2>2 DEF TimerMoved, HeapInv, ExpireInv
  <2>4. \A t \in Timer : expire'[t] = IF t = timer[fd] THEN now + 3 * TIMESLOT ELSE expire[t]
    BY <2>1 DEF TimerMoved, HeapInv, ExpireInv
  <2>. QED  BY <2>2, <2>3, <2>4 DEF TimerMoved, HeapInv, OneTimerEach, ExpireInv
<1>. QED  BY <1>1, <1>2 DEF HeapInv

\* All there is to the timers, whatever becomes of the pointers of the list.
LEMMA StepKeepsHeap ==
    ASSUME HeapInv, HeapStep
    PROVE  HeapInv'
<1>1. CASE SecondPasses
  BY <1>1, AlarmBounds DEF SecondPasses, HeapInv, ClockInv, OneTimerEach, ExpireInv
<1>2. CASE NothingLeft
  BY <1>2, AlarmBounds DEF NothingLeft, HeapInv, ClockInv, OneTimerEach, ExpireInv
<1>. QED  BY <1>1, <1>2, AddedKeepsHeap, DeletedKeepsHeap, MovedKeepsHeap DEF HeapStep

-----------------------------------------------------------------------------
(* The steps of Inactive3.                                                   *)

\* The bounds of this program.
LEMMA Inactive3Bounds == Inactive3!SocketsAssumption
  BY ProgramsAssumption

\* Of an ended process nothing is left.
LEMMA Inactive3Ends ==
    ASSUME NEW how, Inactive3!Ends(how)
    PROVE  Inactive3!SocketsInv' /\ NothingLeft
  BY Inactive3Bounds, Inactive3!GoneKeeps DEF Inactive3!Ends, Inactive3!SocketsGone, NothingLeft

\* accept, and the failed assertion where it fails.
LEMMA Inactive3Accepts ==
    ASSUME Inactive3!SocketsInv, Inactive3!Accept
    PROVE  Inactive3!SocketsInv' /\ HeapStep
<1>1. ASSUME NEW fd \in Fd, NEW t \in Timer, Inactive3!NextFd(fd), Inactive3!AcceptWith(fd, t)
      PROVE  Inactive3!SocketsInv' /\ HeapStep
  <2>1. CASE Inactive3!Ends(Inactive3!AddWalk(t))
    BY <2>1, Inactive3Ends DEF HeapStep
  <2>2. ASSUME Inactive3!Accepted({fd}), Inactive3!L!AddTimer(t), timer' = [timer EXCEPT ![fd] = t]
        PROVE  Inactive3!SocketsInv' /\ HeapStep
    <3>1. fd \in Fd \ open
      BY <1>1 DEF Inactive3!NextFd, Inactive3!Lowest
    <3>2. TimerAdded(fd, t)
      BY <2>2, <3>1 DEF Inactive3!Accepted, Inactive3!L!AddTimer, TimerAdded
    <3>3. Inactive3!SocketsInv'
      BY <2>2, Inactive3Bounds, Inactive3!AcceptedKeeps DEF Inactive3!Accept
    <3>. QED  BY <3>2, <3>3 DEF HeapStep
  <2>. QED  BY <1>1, <2>1, <2>2 DEF Inactive3!AcceptWith
<1>2. CASE Inactive3!Ends("aborted")
  BY <1>2, Inactive3Ends DEF HeapStep
<1>. QED  BY <1>1, <1>2 DEF Inactive3!Accept

\* A connection is read, to its end or not.
LEMMA Inactive3Reads ==
    ASSUME Inactive3!SocketsInv, NEW fd \in Fd, Inactive3!ReadEnd(fd) \/ Inactive3!ReadData(fd)
    PROVE  Inactive3!SocketsInv' /\ HeapStep
<1>1. fd \in open
  BY Inactive3Bounds, Inactive3!ListenApart
     DEF Inactive3!ReadEnd, Inactive3!ReadData, Inactive3!SocketsInv, Inactive3!SocketsTypeOK
<1>2. ASSUME Inactive3!Closed(fd), Inactive3!TimerDropped(timer[fd]),
             timer' = [timer EXCEPT ![fd] = NULL]
      PROVE  Inactive3!SocketsInv' /\ HeapStep
  <2>1. TimerDeleted(fd)
    BY <1>1, <1>2
       DEF Inactive3!Closed, Inactive3!TimerDropped, Inactive3!L!DeleteTimer, TimerDeleted
  <2>. QED  BY <1>2, <2>1, Inactive3Bounds, Inactive3!ClosedKeeps DEF HeapStep
<1>3. ASSUME Inactive3!Received(fd), events' = events \ {fd}, UNCHANGED timer,
             Inactive3!L!Adjust(timer[fd], now + 3 * TIMESLOT), pc = "idle", pc' = "idle"
      PROVE  Inactive3!SocketsInv' /\ HeapStep
  <2>1. TimerMoved(fd)
    BY <1>1, <1>3 DEF Inactive3!Received, Inactive3!L!Adjust, TimerMoved
  <2>. QED  BY <1>1, <1>3, <2>1, Inactive3Bounds, Inactive3!ReceivedKeeps DEF HeapStep
<1>4. ASSUME NEW how, Inactive3!Ends(how)
      PROVE  Inactive3!SocketsInv' /\ HeapStep
  BY <1>4, Inactive3Ends DEF HeapStep
<1>5. ASSUME Inactive3!L!Adjust(timer[fd], now + 3 * TIMESLOT)
      PROVE  pc = "idle" /\ pc' = "idle"
  BY <1>5 DEF Inactive3!L!Adjust
<1>6. CASE Inactive3!ReadEnd(fd)
  BY <1>2, <1>4, <1>6 DEF Inactive3!ReadEnd
<1>7. CASE Inactive3!ReadData(fd)
  BY <1>3, <1>4, <1>5, <1>7 DEF Inactive3!ReadData
<1>. QED  BY <1>6, <1>7

\* One case per action.
LEMMA Inactive3Steps ==
    ASSUME Inactive3!SocketsInv, [Inactive3!Next]_Inactive3!vars
    PROVE  Inactive3!SocketsInv' /\ HeapStep
<1>1. CASE Inactive3!ClientStep
  <2>1. Inactive3!SocketsInv'
    BY <1>1, Inactive3Bounds, Inactive3!ClientsKeep DEF Inactive3!ClientStep
  <2>2. UNCHANGED open
    BY <1>1
       DEF Inactive3!ClientStep, Inactive3!Clients, Inactive3!Connect, Inactive3!Send,
           Inactive3!Close
  <2>. QED  BY <1>1, <2>1, <2>2 DEF Inactive3!ClientStep, Inactive3!listVars, HeapStep, SecondPasses
<1>2. CASE Inactive3!Second
  <2>1. Inactive3!SocketsInv'
    BY <1>2, Inactive3!SocketsUnchanged DEF Inactive3!Second
  <2>. QED  BY <1>2, <2>1
               DEF Inactive3!Second, Inactive3!AlarmDue, Inactive3!socketVars, HeapStep,
                   SecondPasses
<1>3. CASE Inactive3!Killed
  BY <1>3, Inactive3Ends DEF Inactive3!Killed, HeapStep
<1>4. CASE Inactive3!EpollWait
  <2>1. Inactive3!SocketsInv'
    BY <1>4, Inactive3Bounds, Inactive3!WaitKeeps
       DEF Inactive3!EpollWait, Inactive3!SocketsInv, Inactive3!SocketsTypeOK
  <2>. QED  BY <1>4, <2>1
               DEF Inactive3!EpollWait, Inactive3!Wait, Inactive3!listVars, HeapStep, SecondPasses
<1>5. CASE UNCHANGED Inactive3!vars
  <2>1. Inactive3!SocketsInv'
    BY <1>5, Inactive3!SocketsUnchanged DEF Inactive3!vars
  <2>. QED  BY <1>5, <2>1
            DEF Inactive3!vars, Inactive3!listVars, Inactive3!socketVars, HeapStep, SecondPasses
<1>6. CASE Inactive3!Alarmed
  BY <1>6, Inactive3Ends DEF Inactive3!Alarmed, HeapStep
<1>7. CASE Inactive3!EpollFail
  BY <1>7, Inactive3Ends DEF Inactive3!EpollFail, HeapStep
<1>. QED  BY <1>1, <1>2, <1>3, <1>4, <1>5, <1>6, <1>7, Inactive3Accepts, Inactive3Reads
          DEF Inactive3!Next

-----------------------------------------------------------------------------
(* The steps of Inactive2.                                                   *)

\* The bounds of this program.
LEMMA Inactive2Bounds == Inactive2!SocketsAssumption
  BY ProgramsAssumption

\* Of an ended process nothing is left.
LEMMA Inactive2Ends ==
    ASSUME NEW how, Inactive2!Ends(how)
    PROVE  Inactive2!SocketsInv' /\ NothingLeft
  BY Inactive2Bounds, Inactive2!GoneKeeps DEF Inactive2!Ends, Inactive2!SocketsGone, NothingLeft

\* accept, and the failed assertion where it fails.
LEMMA Inactive2Accepts ==
    ASSUME Inactive2!SocketsInv, Inactive2!Accept
    PROVE  Inactive2!SocketsInv' /\ HeapStep
<1>1. ASSUME NEW fd \in Fd, NEW t \in Timer, Inactive2!NextFd(fd), Inactive2!AcceptWith(fd, t)
      PROVE  Inactive2!SocketsInv' /\ HeapStep
  <2>1. CASE Inactive2!Ends(Inactive2!AddWalk(t))
    BY <2>1, Inactive2Ends DEF HeapStep
  <2>2. ASSUME Inactive2!Accepted({fd}), Inactive2!L!AddTimer(t), timer' = [timer EXCEPT ![fd] = t]
        PROVE  Inactive2!SocketsInv' /\ HeapStep
    <3>1. fd \in Fd \ open
      BY <1>1 DEF Inactive2!NextFd, Inactive2!Lowest
    <3>2. TimerAdded(fd, t)
      BY <2>2, <3>1 DEF Inactive2!Accepted, Inactive2!L!AddTimer, TimerAdded
    <3>3. Inactive2!SocketsInv'
      BY <2>2, Inactive2Bounds, Inactive2!AcceptedKeeps DEF Inactive2!Accept
    <3>. QED  BY <3>2, <3>3 DEF HeapStep
  <2>. QED  BY <1>1, <2>1, <2>2 DEF Inactive2!AcceptWith
<1>2. CASE Inactive2!Ends("aborted")
  BY <1>2, Inactive2Ends DEF HeapStep
<1>. QED  BY <1>1, <1>2 DEF Inactive2!Accept

\* A connection is read, to its end or not.
LEMMA Inactive2Reads ==
    ASSUME Inactive2!SocketsInv, NEW fd \in Fd, Inactive2!ReadEnd(fd) \/ Inactive2!ReadData(fd)
    PROVE  Inactive2!SocketsInv' /\ HeapStep
<1>1. fd \in open
  BY Inactive2Bounds, Inactive2!ListenApart
     DEF Inactive2!ReadEnd, Inactive2!ReadData, Inactive2!SocketsInv, Inactive2!SocketsTypeOK
<1>2. ASSUME Inactive2!Closed(fd), Inactive2!TimerDropped(timer[fd]),
             timer' = [timer EXCEPT ![fd] = NULL]
      PROVE  Inactive2!SocketsInv' /\ HeapStep
  <2>1. TimerDeleted(fd)
    BY <1>1, <1>2
       DEF Inactive2!Closed, Inactive2!TimerDropped, Inactive2!L!DeleteTimer, TimerDeleted
  <2>. QED  BY <1>2, <2>1, Inactive2Bounds, Inactive2!ClosedKeeps DEF HeapStep
<1>3. ASSUME Inactive2!Received(fd), events' = events \ {fd}, UNCHANGED timer,
             Inactive2!L!Adjust(timer[fd], now + 3 * TIMESLOT), pc = "idle", pc' = "idle"
      PROVE  Inactive2!SocketsInv' /\ HeapStep
  <2>1. TimerMoved(fd)
    BY <1>1, <1>3 DEF Inactive2!Received, Inactive2!L!Adjust, TimerMoved
  <2>. QED  BY <1>1, <1>3, <2>1, Inactive2Bounds, Inactive2!ReceivedKeeps DEF HeapStep
<1>4. ASSUME NEW how, Inactive2!Ends(how)
      PROVE  Inactive2!SocketsInv' /\ HeapStep
  BY <1>4, Inactive2Ends DEF HeapStep
<1>5. ASSUME Inactive2!L!Adjust(timer[fd], now + 3 * TIMESLOT)
      PROVE  pc = "idle" /\ pc' = "idle"
  BY <1>5 DEF Inactive2!L!Adjust
<1>6. CASE Inactive2!ReadEnd(fd)
  BY <1>2, <1>4, <1>6 DEF Inactive2!ReadEnd
<1>7. CASE Inactive2!ReadData(fd)
  BY <1>3, <1>4, <1>5, <1>7 DEF Inactive2!ReadData
<1>. QED  BY <1>6, <1>7

\* One case per action.
LEMMA Inactive2Steps ==
    ASSUME Inactive2!SocketsInv, [Inactive2!Next]_Inactive2!vars
    PROVE  Inactive2!SocketsInv' /\ HeapStep
<1>1. CASE Inactive2!ClientStep
  <2>1. Inactive2!SocketsInv'
    BY <1>1, Inactive2Bounds, Inactive2!ClientsKeep DEF Inactive2!ClientStep
  <2>2. UNCHANGED open
    BY <1>1
       DEF Inactive2!ClientStep, Inactive2!Clients, Inactive2!Connect, Inactive2!Send,
           Inactive2!Close
  <2>. QED  BY <1>1, <2>1, <2>2 DEF Inactive2!ClientStep, Inactive2!listVars, HeapStep, SecondPasses
<1>2. CASE Inactive2!Second
  <2>1. Inactive2!SocketsInv'
    BY <1>2, Inactive2!SocketsUnchanged DEF Inactive2!Second
  <2>. QED  BY <1>2, <2>1
               DEF Inactive2!Second, Inactive2!AlarmDue, Inactive2!socketVars, HeapStep,
                   SecondPasses
<1>3. CASE Inactive2!Killed
  BY <1>3, Inactive2Ends DEF Inactive2!Killed, HeapStep
<1>4. CASE Inactive2!EpollWait
  <2>1. Inactive2!SocketsInv'
    BY <1>4, Inactive2Bounds, Inactive2!WaitKeeps
       DEF Inactive2!EpollWait, Inactive2!SocketsInv, Inactive2!SocketsTypeOK
  <2>. QED  BY <1>4, <2>1
               DEF Inactive2!EpollWait, Inactive2!Wait, Inactive2!listVars, HeapStep, SecondPasses
<1>5. CASE UNCHANGED Inactive2!vars
  <2>1. Inactive2!SocketsInv'
    BY <1>5, Inactive2!SocketsUnchanged DEF Inactive2!vars
  <2>. QED  BY <1>5, <2>1
            DEF Inactive2!vars, Inactive2!listVars, Inactive2!socketVars, HeapStep, SecondPasses
<1>6. CASE Inactive2!Alarmed
  BY <1>6, Inactive2Ends DEF Inactive2!Alarmed, HeapStep
<1>7. CASE Inactive2!EpollFail
  BY <1>7, Inactive2Ends DEF Inactive2!EpollFail, HeapStep
<1>. QED  BY <1>1, <1>2, <1>3, <1>4, <1>5, <1>6, <1>7, Inactive2Accepts, Inactive2Reads
          DEF Inactive2!Next

-----------------------------------------------------------------------------
(* The list of timers until data moves one.                                  *)

\* The theorems about lists, at the constants of this program.
Lst == INSTANCE SortTimerLstProofs WITH
           Spans <- {3 * TIMESLOT},
           AdjustCases <- {"inplace", "head", "middle"},
           MaxTime <- TIMESLOT

\* The operations of the three instances are the same.
LEMMA SameOperations ==
    ASSUME NEW l, NEW ex, NEW t
    PROVE  /\ Inactive3!L!Added(l, ex, t) = Lst!Added(l, ex, t)
           /\ Inactive2!L!Added(l, ex, t) = Lst!Added(l, ex, t)
           /\ Inactive3!L!HeadMoved(l, ex, t) = Lst!HeadMoved(l, ex, t)
           /\ Inactive2!L!HeadMoved(l, ex, t) = Lst!HeadMoved(l, ex, t)
           /\ Inactive3!L!OtherMoved(l, ex, t) = Lst!OtherMoved(l, ex, t)
           /\ Inactive2!L!OtherMoved(l, ex, t) = Lst!OtherMoved(l, ex, t)
           /\ Inactive3!L!Deleted(l, t) = Lst!Deleted(l, t)
           /\ Inactive2!L!Deleted(l, t) = Lst!Deleted(l, t)
           /\ Inactive3!L!Freed(l, t) = Lst!Freed(l, t)
           /\ Inactive2!L!Freed(l, t) = Lst!Freed(l, t)
<1>1. ASSUME NEW m, NEW start
      PROVE  /\ Inactive3!L!InsertAfter(m, ex, t, start) = Lst!InsertAfter(m, ex, t, start)
             /\ Inactive2!L!InsertAfter(m, ex, t, start) = Lst!InsertAfter(m, ex, t, start)
  BY DEF Inactive3!L!InsertAfter, Inactive2!L!InsertAfter, Lst!InsertAfter,
         Inactive3!L!InsertPlace, Inactive2!L!InsertPlace, Lst!InsertPlace
<1>2. /\ Inactive3!L!Added(l, ex, t) = Lst!Added(l, ex, t)
      /\ Inactive2!L!Added(l, ex, t) = Lst!Added(l, ex, t)
  BY <1>1 DEF Inactive3!L!Added, Inactive2!L!Added, Lst!Added
<1>3. /\ Inactive3!L!HeadMoved(l, ex, t) = Lst!HeadMoved(l, ex, t)
      /\ Inactive2!L!HeadMoved(l, ex, t) = Lst!HeadMoved(l, ex, t)
  BY <1>1 DEF Inactive3!L!HeadMoved, Inactive2!L!HeadMoved, Lst!HeadMoved
<1>4. /\ Inactive3!L!OtherMoved(l, ex, t) = Lst!OtherMoved(l, ex, t)
      /\ Inactive2!L!OtherMoved(l, ex, t) = Lst!OtherMoved(l, ex, t)
  BY <1>1 DEF Inactive3!L!OtherMoved, Inactive2!L!OtherMoved, Lst!OtherMoved
<1>. QED  BY <1>2, <1>3, <1>4
             DEF Inactive3!L!Deleted, Inactive2!L!Deleted, Lst!Deleted,
                 Inactive3!L!Unlinked, Inactive2!L!Unlinked, Lst!Unlinked,
                 Inactive3!L!Freed, Inactive2!L!Freed, Lst!Freed

\* What module SortTimerLst assumes of its constants.
LEMMA ListConstants ==
    /\ NULL \notin Timer
    /\ {3 * TIMESLOT} \subseteq Nat \ {0}
    /\ {"inplace", "head", "middle"} \subseteq {"tail", "inplace", "head", "middle"}
    /\ TIMESLOT \in Nat
    /\ IsFiniteSet(Timer)
<1>1. NULL \notin Timer /\ TIMESLOT \in Nat \ {0} /\ Inactive3!IsFiniteSet(Timer)
  BY ProgramsAssumption DEF Inactive3!TimersAssumption
<1>2. IsFiniteSet(Timer)
  BY <1>1 DEF Inactive3!IsFiniteSet, IsFiniteSet
<1>3. {3 * TIMESLOT} \subseteq Nat \ {0}
  BY <1>1
<1>. QED  BY <1>1, <1>2, <1>3

\* list holds the timers that exist.
Sound == list \in Lst!ListType /\ Lst!HoldsAll(list, expire, allocated)

\* A new timer is linked where it belongs.
LEMMA AddedKeepsSound ==
    ASSUME HeapInv, Sound, NEW t \in Timer,
           Inactive3!L!AddTimer(t) \/ Inactive2!L!AddTimer(t)
    PROVE  Sound'
<1>1. /\ t \notin allocated /\ allocated' = allocated \cup {t}
      /\ expire' = [expire EXCEPT ![t] = now + 3 * TIMESLOT]
      /\ LET fresh == [list EXCEPT !.next[t] = NULL, !.prev[t] = NULL]
         IN list' = Lst!Added(fresh, expire', t)
  BY SameOperations DEF Inactive3!L!AddTimer, Inactive2!L!AddTimer
<1>2. expire' \in [Timer -> Nat] /\ \A u \in Timer \ {t} : expire'[u] = expire[u]
  BY <1>1, ListConstants DEF HeapInv, ClockInv, ExpireInv
<1>3. PICK n, at : Lst!Holds(list, expire, allocated, n, at)
  BY DEF Sound, Lst!HoldsAll
<1>4. \A k \in 1 .. n : at[k] \in Timer \ {t} /\ at[k] \in allocated
  BY <1>1, <1>3 DEF Lst!Holds, Lst!Row
<1>5. Lst!Holds(list, expire', allocated, n, at)
  BY <1>2, <1>3, <1>4 DEF Lst!Holds, Lst!Sorted
<1>6. [list EXCEPT !.next[t] = NULL, !.prev[t] = NULL] = list
  <2>1. list.next[t] = NULL /\ list.prev[t] = NULL
    BY <1>1, <1>3, <1>4 DEF Lst!Holds, Lst!Chain
  <2>. QED  BY <2>1 DEF Sound, Lst!ListType
<1>7. Lst!HoldsAll(list, expire', allocated) /\ list \in Lst!ListType
  BY <1>5 DEF Lst!HoldsAll, Sound
<1>8. list' = Lst!Added(list, expire', t)
  BY <1>1, <1>6
<1>9. list' \in Lst!ListType /\ Lst!HoldsAll(list', expire', allocated')
  <2>1. t \in Timer \ allocated
    BY <1>1
  <2>2. /\ Lst!Added(list, expire', t) \in Lst!ListType
        /\ Lst!HoldsAll(Lst!Added(list, expire', t), expire', allocated \cup {t})
    BY <1>2, <1>7, <2>1, ListConstants, Lst!AddedHolds
  <2>. QED  BY <1>1, <1>8, <2>2
<1>. QED  BY <1>9
          DEF Sound, Lst!ListType, Lst!Pointer, Lst!HoldsAll, Lst!Holds, Lst!Row, Lst!Chain,
              Lst!Sorted

\* A timer that is deleted leaves the others in order.
LEMMA DeletedKeepsSound ==
    ASSUME HeapInv, Sound, NEW t,
           Inactive3!L!DeleteTimer(t) \/ Inactive2!L!DeleteTimer(t)
    PROVE  Sound'
<1>1. /\ t \in allocated /\ allocated' = allocated \ {t} /\ expire' = expire
      /\ list' = Lst!Freed(Lst!Deleted(list, t), t)
  BY SameOperations DEF Inactive3!L!DeleteTimer, Inactive2!L!DeleteTimer
<1>2. list' \in Lst!ListType /\ Lst!HoldsAll(list', expire', allocated')
  BY <1>1, ListConstants, Lst!DeletedHolds DEF Sound, HeapInv, ExpireInv
<1>. QED  BY <1>2
          DEF Sound, Lst!ListType, Lst!Pointer, Lst!HoldsAll, Lst!Holds, Lst!Row, Lst!Chain,
              Lst!Sorted

\* A list without nodes holds no timers, whatever expire is.
LEMMA EmptyHolds ==
    ASSUME NEW ex
    PROVE  LET none == [head |-> NULL, tail |-> NULL,
                        next |-> [t \in Timer |-> NULL], prev |-> [t \in Timer |-> NULL]]
           IN  none \in Lst!ListType /\ Lst!HoldsAll(none, ex, {})
<1>. DEFINE none == [head |-> NULL, tail |-> NULL,
                     next |-> [t \in Timer |-> NULL], prev |-> [t \in Timer |-> NULL]]
            at == [k \in 0 .. 1 |-> NULL]
<1>1. /\ 0 \in Nat /\ 0 + 1 = 1 /\ 1 .. 0 = {} /\ at \in [0 .. 1 -> Lst!Pointer]
      /\ at[0] = NULL /\ at[1] = NULL
  BY DEF Lst!Pointer
<1>2. none \in Lst!ListType
  BY DEF Lst!ListType, Lst!Pointer
<1>. HIDE DEF at
<1>3. Lst!Holds(none, ex, {}, 0, at)
  BY <1>1 DEF Lst!Holds, Lst!Row, Lst!Chain, Lst!Sorted
<1>4. Lst!HoldsAll(none, ex, {})
  BY <1>3 DEF Lst!HoldsAll
<1>. QED  BY <1>2, <1>4

\* The list that is left of an ended process is empty.
LEMMA EmptyIsSound ==
    ASSUME list' = [head |-> NULL, tail |-> NULL,
                    next |-> [t \in Timer |-> NULL], prev |-> [t \in Timer |-> NULL]],
           allocated' = {}
    PROVE  Sound'
<1>1. list' \in Lst!ListType /\ Lst!HoldsAll(list', expire', allocated')
  BY EmptyHolds
<1>. QED  BY <1>1
          DEF Sound, Lst!ListType, Lst!Pointer, Lst!HoldsAll, Lst!Holds, Lst!Row, Lst!Chain,
              Lst!Sorted

\* The equation of within, in Met.
Meets(f, next, start) ==
    f = [n \in 0 .. Cardinality(Timer) |->
            IF n = 0 THEN {start}
            ELSE f[n - 1] \cup ({next[t] : t \in f[n - 1] \ {NULL}} \cap Timer)]

\* What the recursion of Met returns satisfies it.
LEMMA MetMeets ==
    ASSUME NEW next, NEW start
    PROVE  \E f : /\ Meets(f, next, start)
                  /\ Inactive3!Met(next, start) = f[Cardinality(Timer)]
                  /\ Inactive2!Met(next, start) = f[Cardinality(Timer)]
<1>. DEFINE C == Cardinality(Timer)
            More(S) == S \cup ({next[t] : t \in S \ {NULL}} \cap Timer)
            UpTo(m, f) == f = [k \in 0 .. m |-> IF k = 0 THEN {start} ELSE More(f[k - 1])]
            Fails == {m \in Nat : ~ \E f : UpTo(m, f)}
            within == CHOOSE f : Meets(f, next, start)
<1>1. C \in Nat
  BY ListConstants, FS_CardinalityType
<1>. HIDE DEF More
<1>2. Fails = {}
  <2>. SUFFICES ASSUME Fails # {} PROVE FALSE
    OBVIOUS
  <2>1. PICK m \in Fails : \A k \in Fails : m <= k
    <3>1. Fails \subseteq Nat
      OBVIOUS
    <3>. HIDE DEF Fails
    <3>. QED  BY <3>1, ListConstants, Lst!Least
  <2>2. m # 0
    <3>. DEFINE f == [k \in 0 .. 0 |-> {start}]
    <3>1. UpTo(0, f)
      OBVIOUS
    <3>. HIDE DEF f, UpTo
    <3>. QED  BY <2>1, <3>1
  <2>3. m - 1 \in Nat /\ ~(m <= m - 1)
    BY <2>1, <2>2
  <2>4. PICK f : UpTo(m - 1, f)
    <3>. HIDE DEF UpTo
    <3>. QED  BY <2>1, <2>3
  <2>. DEFINE g == [k \in 0 .. m |-> IF k < m THEN f[k] ELSE More(f[m - 1])]
  <2>5. ASSUME NEW k \in 0 .. m PROVE g[k] = IF k = 0 THEN {start} ELSE More(g[k - 1])
    <3>1. CASE k < m
      <4>1. k \in 0 .. m - 1 /\ (k # 0 => k - 1 \in 0 .. m /\ k - 1 < m)
        BY <2>3, <3>1
      <4>2. f[k] = IF k = 0 THEN {start} ELSE More(f[k - 1])
        BY <2>4, <4>1
      <4>3. g[k] = f[k] /\ (k # 0 => g[k - 1] = f[k - 1])
        BY <3>1, <4>1
      <4>. HIDE DEF g
      <4>. QED  BY <4>2, <4>3
    <3>2. CASE k = m
      <4>1. g[m] = More(f[m - 1]) /\ g[m - 1] = f[m - 1]
        BY <2>3
      <4>. HIDE DEF g
      <4>. QED  BY <2>2, <3>2, <4>1
    <3>. QED  BY <2>1, <3>1, <3>2
  <2>6. UpTo(m, g)
    BY <2>5
  <2>. HIDE DEF UpTo
  <2>. QED  BY <2>1, <2>6
<1>3. \E f : UpTo(C, f)
  <2>. HIDE DEF UpTo
  <2>. QED  BY <1>1, <1>2
<1>4. Meets(within, next, start)
  BY <1>3 DEF Meets, More
<1>5. Inactive3!Met(next, start) = within[C] /\ Inactive2!Met(next, start) = within[C]
  BY DEF Inactive3!Met, Inactive2!Met, Meets, Inactive3!Cardinality, Inactive2!Cardinality,
         Cardinality
<1>. HIDE DEF within
<1>. QED  BY <1>4, <1>5

\* A walk that has come to the end of a list shows that there is one.
LEMMA MetEnding ==
    ASSUME NEW next, NEW start, NEW T, T \subseteq Timer,
           \/ /\ Inactive3!Met(next, start) \subseteq T
              /\ \E t \in Inactive3!Met(next, start) : next[t] = NULL
           \/ /\ Inactive2!Met(next, start) \subseteq T
              /\ \E t \in Inactive2!Met(next, start) : next[t] = NULL
    PROVE  start \in T /\ Lst!Ending(next, start)
<1>. DEFINE C == Cardinality(Timer)
<1>1. PICK f : /\ Meets(f, next, start)
               /\ Inactive3!Met(next, start) = f[C]
               /\ Inactive2!Met(next, start) = f[C]
  BY MetMeets
<1>2. C \in Nat
  BY ListConstants, FS_CardinalityType
<1>3. f[C] \subseteq T /\ \E t \in f[C] : next[t] = NULL
  BY <1>1
<1>4. ASSUME NEW k \in 0 .. C
      PROVE  f[k] = IF k = 0 THEN {start}
                    ELSE f[k - 1] \cup ({next[t] : t \in f[k - 1] \ {NULL}} \cap Timer)
  BY <1>1 DEF Meets
<1>5. start \in f[C]
  <2>. DEFINE Without == {k \in 0 .. C : start \notin f[k]}
  <2>. SUFFICES ASSUME Without # {} PROVE FALSE
    BY <1>2
  <2>1. PICK k \in Without : \A j \in Without : k <= j
    <3>1. Without \subseteq Nat
      BY <1>2
    <3>. HIDE DEF Without
    <3>. QED  BY <3>1, ListConstants, Lst!Least
  <2>2. k # 0
    BY <1>4, <2>1
  <2>3. k - 1 \in 0 .. C /\ ~(k <= k - 1)
    BY <1>2, <2>1, <2>2
  <2>. QED  BY <1>4, <2>1, <2>2, <2>3
<1>6. ASSUME NEW S \in SUBSET Timer, start \in S, \A u \in S : next[u] \in Timer => next[u] \in S
      PROVE  f[C] \subseteq S
  <2>. DEFINE Beyond == {k \in 0 .. C : ~(f[k] \subseteq S)}
  <2>. SUFFICES ASSUME Beyond # {} PROVE FALSE
    BY <1>2
  <2>1. PICK k \in Beyond : \A j \in Beyond : k <= j
    <3>1. Beyond \subseteq Nat
      BY <1>2
    <3>. HIDE DEF Beyond
    <3>. QED  BY <3>1, ListConstants, Lst!Least
  <2>2. k # 0
    BY <1>4, <1>6, <2>1
  <2>3. k - 1 \in 0 .. C /\ ~(k <= k - 1)
    BY <1>2, <2>1, <2>2
  <2>4. f[k - 1] \subseteq S
    BY <2>1, <2>3
  <2>5. f[k] = f[k - 1] \cup ({next[t] : t \in f[k - 1] \ {NULL}} \cap Timer)
    BY <1>4, <2>1, <2>2
  <2>6. {next[t] : t \in f[k - 1] \ {NULL}} \cap Timer \subseteq S
    BY <1>6, <2>4
  <2>. QED  BY <2>1, <2>4, <2>5, <2>6
<1>. QED  BY <1>3, <1>5, <1>6 DEF Lst!Ending

\* From the head of a list all its timers are met, and nothing else.
LEMMA MetFound ==
    ASSUME NEW l \in Lst!ListType, NEW ex, NEW S, NEW n, NEW at, Lst!Holds(l, ex, S, n, at),
           l.head # NULL, NEW next, \A t \in S : next[t] = l.next[t]
    PROVE  Inactive3!Met(next, l.head) = S /\ Inactive2!Met(next, l.head) = S
<1>. DEFINE C == Cardinality(Timer)
<1>1. PICK within :
          /\ Meets(within, next, l.head)
          /\ Inactive3!Met(next, l.head) = within[C] /\ Inactive2!Met(next, l.head) = within[C]
  BY MetMeets
<1>2. C \in Nat
  BY ListConstants, FS_CardinalityType
<1>3. /\ S = {at[k] : k \in 1 .. n} /\ S \subseteq Timer
      /\ \A t \in S : l.next[t] \in Lst!Pointer
      /\ l.head # NULL
  BY DEF Lst!Holds, Lst!Row, Lst!ListType
<1>4. Lst!First(C, n, at) = S
  <2>1. Lst!Row(n, at)
    BY DEF Lst!Holds
  <2>2. Lst!First(Lst!Cardinality(Timer), n, at) = {at[k] : k \in 1 .. n}
    BY <2>1, ListConstants, Lst!RowFits DEF Lst!IsFiniteSet, IsFiniteSet
  <2>. QED  BY <1>3, <2>2 DEF Lst!Cardinality, Cardinality
<1>5. \A k \in Nat : Lst!First(k, n, at) \subseteq S
  BY <1>3 DEF Lst!First
<1>6. Lst!First(0, n, at) = {l.head}
  BY ListConstants, Lst!FirstGrows
<1>7. ASSUME NEW k \in Nat, k # 0
      PROVE  Lst!First(k, n, at) = Lst!First(k - 1, n, at)
                 \cup ({next[t] : t \in Lst!First(k - 1, n, at) \ {NULL}} \cap Timer)
  <2>1. k - 1 \in Nat /\ (k - 1) + 1 = k
    BY <1>7
  <2>. DEFINE F == Lst!First(k - 1, n, at)
  <2>2. Lst!First((k - 1) + 1, n, at) = F \cup ({l.next[t] : t \in F} \ {NULL})
    BY <2>1, ListConstants, Lst!FirstGrows
  <2>3. F \subseteq S
    BY <1>5, <2>1
  <2>. HIDE DEF F
  <2>4. {l.next[t] : t \in F} \ {NULL} = {next[t] : t \in F \ {NULL}} \cap Timer
    BY <1>3, <2>3, ListConstants DEF Lst!Pointer
  <2>. QED  BY <2>1, <2>2, <2>4 DEF F
<1>8. ASSUME NEW k \in 0 .. C PROVE within[k] = Lst!First(k, n, at)
  <2>. DEFINE Wrong == {j \in 0 .. C : within[j] # Lst!First(j, n, at)}
  <2>. SUFFICES ASSUME Wrong # {} PROVE FALSE
    BY <1>8
  <2>1. PICK j \in Wrong : \A m \in Wrong : j <= m
    <3>1. Wrong \subseteq Nat
      BY <1>2
    <3>. HIDE DEF Wrong
    <3>. QED  BY <3>1, ListConstants, Lst!Least
  <2>2. j # 0
    BY <1>1, <1>2, <1>6, <2>1 DEF Meets
  <2>3. j - 1 \in 0 .. C /\ ~(j <= j - 1) /\ j \in 0 .. C /\ j \in Nat
    BY <1>2, <2>1, <2>2
  <2>4. within[j - 1] = Lst!First(j - 1, n, at)
    BY <2>1, <2>3
  <2>5. within[j] = within[j - 1] \cup ({next[t] : t \in within[j - 1] \ {NULL}} \cap Timer)
    BY <1>1, <2>2, <2>3 DEF Meets
  <2>. QED  BY <1>7, <2>1, <2>2, <2>3, <2>4, <2>5
<1>. QED  BY <1>1, <1>2, <1>4, <1>8

\* add_timer walks over the timers that exist and comes to the end.
LEMMA AddWalks ==
    ASSUME Sound, NEW t \in Timer \ allocated
    PROVE  Inactive3!AddWalk(t) = "running" /\ Inactive2!AddWalk(t) = "running"
<1>1. CASE list.head = NULL
  BY <1>1 DEF Inactive3!AddWalk, Inactive2!AddWalk
<1>2. CASE list.head # NULL
  <2>1. PICK n, at : Lst!Holds(list, expire, allocated, n, at)
    BY DEF Sound, Lst!HoldsAll
  <2>. DEFINE next == [list.next EXCEPT ![t] = NULL]
  <2>2. \A u \in allocated : next[u] = list.next[u]
    BY DEF Sound, Lst!ListType
  <2>3. /\ n \in Nat /\ at[n + 1] = NULL /\ list.head = at[1]
        /\ \A k \in 1 .. n : list.next[at[k]] = at[k + 1]
        /\ allocated = {at[k] : k \in 1 .. n}
    BY <2>1 DEF Lst!Holds, Lst!Row, Lst!Chain
  <2>4. n \in 1 .. n
    BY <1>2, <2>3
  <2>5. \E u \in allocated : next[u] = NULL
    BY <2>2, <2>3, <2>4
  <2>. HIDE DEF next
  <2>6. Inactive3!Met(next, list.head) = allocated /\ Inactive2!Met(next, list.head) = allocated
    BY <1>2, <2>1, <2>2, MetFound DEF Sound
  <2>7. /\ Inactive3!Walk(next, list.head, allocated \cup {t}) = "running"
        /\ Inactive2!Walk(next, list.head, allocated \cup {t}) = "running"
    BY <2>5, <2>6 DEF Inactive3!Walk, Inactive2!Walk
  <2>. QED  BY <1>2, <2>7 DEF Inactive3!AddWalk, Inactive2!AddWalk, next
<1>. QED  BY <1>1, <1>2

\* delete_timer writes to timers that exist.
LEMMA DeleteReaches ==
    ASSUME Sound, NEW t \in allocated
    PROVE  Inactive3!Relinked(t) \subseteq allocated /\ Inactive2!Relinked(t) \subseteq allocated
<1>1. PICK n, at : Lst!Holds(list, expire, allocated, n, at)
  BY DEF Sound, Lst!HoldsAll
<1>2. /\ n \in Nat /\ at[0] = NULL /\ at[n + 1] = NULL /\ list.head = at[1]
      /\ \A k \in 1 .. n : list.next[at[k]] = at[k + 1] /\ list.prev[at[k]] = at[k - 1]
      /\ n > 0 => list.tail = at[n]
      /\ \A j, k \in 1 .. n : at[j] = at[k] => j = k
      /\ allocated = {at[k] : k \in 1 .. n}
  BY <1>1 DEF Lst!Holds, Lst!Row, Lst!Chain
<1>3. PICK k \in 1 .. n : t = at[k]
  BY <1>2
<1>4. (t = list.head <=> k = 1) /\ (t = list.tail <=> k = n)
  BY <1>2, <1>3
<1>5. t # list.head => list.prev[t] \in allocated
  <2>1. k # 1 => k - 1 \in 1 .. n
    BY <1>2
  <2>. QED  BY <1>2, <1>3, <1>4, <2>1
<1>6. t # list.tail => list.next[t] \in allocated
  <2>1. k # n => k + 1 \in 1 .. n
    BY <1>2
  <2>. QED  BY <1>2, <1>3, <1>4, <2>1
<1>. QED  BY <1>5, <1>6 DEF Inactive3!Relinked, Inactive2!Relinked

\* Until data has moved a timer the list is sound and the process lives or has
\* been ended.
Quiet == {"running", "alarmed", "killed", "failed", "aborted"}

SilentInv == ~adjusted => Sound /\ fate \in Quiet

\* What touches no timer leaves the list as it is.
LEMMA SoundUnchanged ==
    ASSUME SilentInv, UNCHANGED <<list, expire, allocated, fate, adjusted>>
    PROVE  SilentInv'
  BY DEF SilentInv, Sound, Lst!ListType, Lst!Pointer, Lst!HoldsAll, Lst!Holds, Lst!Row, Lst!Chain,
         Lst!Sorted

\* A process that is ended in silence leaves an empty list.
LEMMA Inactive3EndsSilent ==
    ASSUME SilentInv, NEW how \in Quiet, Inactive3!Ends(how), UNCHANGED adjusted
    PROVE  SilentInv'
  BY EmptyIsSound DEF SilentInv, Inactive3!Ends

\* Of the actions only those that accept and read touch the list.  Adding and
\* deleting a timer find what they need; moving one is no longer silent.
LEMMA Inactive3Silent ==
    ASSUME Inactive3!SocketsInv, HeapInv, SilentInv, [Inactive3!Next]_Inactive3!vars
    PROVE  SilentInv'
<1>. SUFFICES ASSUME ~adjusted' PROVE Sound' /\ fate' \in Quiet
  BY DEF SilentInv
<1>1. CASE Inactive3!ClientStep \/ Inactive3!Second \/ Inactive3!EpollWait
             \/ UNCHANGED Inactive3!vars
  BY <1>1, SoundUnchanged
     DEF Inactive3!ClientStep, Inactive3!Second, Inactive3!EpollWait, Inactive3!vars,
         Inactive3!listVars, SilentInv
<1>2. CASE Inactive3!Alarmed \/ Inactive3!Killed \/ Inactive3!EpollFail
  BY <1>2, Inactive3EndsSilent
     DEF Inactive3!Alarmed, Inactive3!Killed, Inactive3!EpollFail, SilentInv, Quiet
<1>3. CASE Inactive3!Accept
  <2>1. ASSUME NEW fd \in Fd, NEW t \in Timer \ allocated, Inactive3!AcceptWith(fd, t)
        PROVE  Sound' /\ fate' \in Quiet
    <3>1. UNCHANGED adjusted
      BY <2>1 DEF Inactive3!AcceptWith
    <3>2. Inactive3!AddWalk(t) = "running"
      BY <3>1, AddWalks DEF SilentInv
    <3>3. Inactive3!L!AddTimer(t) /\ UNCHANGED fate
      BY <2>1, <3>2 DEF Inactive3!AcceptWith
    <3>. QED  BY <3>1, <3>3, AddedKeepsSound DEF SilentInv
  <2>2. CASE Inactive3!Ends("aborted") /\ UNCHANGED adjusted
    BY <2>2, Inactive3EndsSilent DEF SilentInv, Quiet
  <2>. QED  BY <1>3, <2>1, <2>2 DEF Inactive3!Accept, Inactive3!Lowest
<1>4. ASSUME NEW fd \in Fd, Inactive3!ReadEnd(fd)
      PROVE  Sound' /\ fate' \in Quiet
  <2>1. ~adjusted /\ UNCHANGED adjusted
    BY <1>4 DEF Inactive3!ReadEnd
  <2>2. fd \in open
    BY <1>4, Inactive3Bounds, Inactive3!ListenApart
       DEF Inactive3!ReadEnd, Inactive3!SocketsInv, Inactive3!SocketsTypeOK
  <2>3. timer[fd] \in allocated
    BY <2>2 DEF HeapInv, OneTimerEach
  <2>4. Inactive3!Relinked(timer[fd]) \subseteq allocated
    BY <2>1, <2>3, DeleteReaches DEF SilentInv
  <2>5. Inactive3!L!DeleteTimer(timer[fd]) /\ UNCHANGED fate
    BY <1>4, <2>4 DEF Inactive3!ReadEnd, Inactive3!TimerDropped
  <2>. QED  BY <2>1, <2>5, DeletedKeepsSound DEF SilentInv
<1>5. ASSUME NEW fd \in Fd, Inactive3!ReadData(fd)
      PROVE  FALSE
  BY <1>5 DEF Inactive3!ReadData
<1>. QED  BY <1>1, <1>2, <1>3, <1>4, <1>5 DEF Inactive3!Next

\* A process that is ended in silence leaves an empty list.
LEMMA Inactive2EndsSilent ==
    ASSUME SilentInv, NEW how \in Quiet, Inactive2!Ends(how), UNCHANGED adjusted
    PROVE  SilentInv'
  BY EmptyIsSound DEF SilentInv, Inactive2!Ends

\* Of the actions only those that accept and read touch the list.  Adding and
\* deleting a timer find what they need; moving one is no longer silent.
LEMMA Inactive2Silent ==
    ASSUME Inactive2!SocketsInv, HeapInv, SilentInv, [Inactive2!Next]_Inactive2!vars
    PROVE  SilentInv'
<1>. SUFFICES ASSUME ~adjusted' PROVE Sound' /\ fate' \in Quiet
  BY DEF SilentInv
<1>1. CASE Inactive2!ClientStep \/ Inactive2!Second \/ Inactive2!EpollWait
             \/ UNCHANGED Inactive2!vars
  BY <1>1, SoundUnchanged
     DEF Inactive2!ClientStep, Inactive2!Second, Inactive2!EpollWait, Inactive2!vars,
         Inactive2!listVars, SilentInv
<1>2. CASE Inactive2!Alarmed \/ Inactive2!Killed \/ Inactive2!EpollFail
  BY <1>2, Inactive2EndsSilent
     DEF Inactive2!Alarmed, Inactive2!Killed, Inactive2!EpollFail, SilentInv, Quiet
<1>3. CASE Inactive2!Accept
  <2>1. ASSUME NEW fd \in Fd, NEW t \in Timer \ allocated, Inactive2!AcceptWith(fd, t)
        PROVE  Sound' /\ fate' \in Quiet
    <3>1. UNCHANGED adjusted
      BY <2>1 DEF Inactive2!AcceptWith
    <3>2. Inactive2!AddWalk(t) = "running"
      BY <3>1, AddWalks DEF SilentInv
    <3>3. Inactive2!L!AddTimer(t) /\ UNCHANGED fate
      BY <2>1, <3>2 DEF Inactive2!AcceptWith
    <3>. QED  BY <3>1, <3>3, AddedKeepsSound DEF SilentInv
  <2>2. CASE Inactive2!Ends("aborted") /\ UNCHANGED adjusted
    BY <2>2, Inactive2EndsSilent DEF SilentInv, Quiet
  <2>. QED  BY <1>3, <2>1, <2>2 DEF Inactive2!Accept, Inactive2!Lowest
<1>4. ASSUME NEW fd \in Fd, Inactive2!ReadEnd(fd)
      PROVE  Sound' /\ fate' \in Quiet
  <2>1. ~adjusted /\ UNCHANGED adjusted
    BY <1>4 DEF Inactive2!ReadEnd
  <2>2. fd \in open
    BY <1>4, Inactive2Bounds, Inactive2!ListenApart
       DEF Inactive2!ReadEnd, Inactive2!SocketsInv, Inactive2!SocketsTypeOK
  <2>3. timer[fd] \in allocated
    BY <2>2 DEF HeapInv, OneTimerEach
  <2>4. Inactive2!Relinked(timer[fd]) \subseteq allocated
    BY <2>1, <2>3, DeleteReaches DEF SilentInv
  <2>5. Inactive2!L!DeleteTimer(timer[fd]) /\ UNCHANGED fate
    BY <1>4, <2>4 DEF Inactive2!ReadEnd, Inactive2!TimerDropped
  <2>. QED  BY <2>1, <2>5, DeletedKeepsSound DEF SilentInv
<1>5. ASSUME NEW fd \in Fd, Inactive2!ReadData(fd)
      PROVE  FALSE
  BY <1>5 DEF Inactive2!ReadData
<1>. QED  BY <1>1, <1>2, <1>3, <1>4, <1>5 DEF Inactive2!Next

-----------------------------------------------------------------------------
(* The pointers of the list, in order or not, after data has moved timers.    *)

\* A walk that goes well comes to an end.
LEMMA WalkEnding ==
    ASSUME NEW next, NEW start, NEW alive, alive \subseteq Timer,
           Inactive3!Walk(next, start, alive) = "running"
               \/ Inactive2!Walk(next, start, alive) = "running"
    PROVE  start \in Timer /\ Lst!Ending(next, start)
  BY MetEnding DEF Inactive3!Walk, Inactive2!Walk

\* A walk goes well, or does not end, or nobody knows.
LEMMA WalkResults ==
    ASSUME NEW next, NEW start, NEW alive
    PROVE  /\ Inactive3!Walk(next, start, alive) \in {"running", "spinning", "undefined"}
           /\ Inactive2!Walk(next, start, alive) \in {"running", "spinning", "undefined"}
  BY DEF Inactive3!Walk, Inactive2!Walk

\* add_timer writes pointers.
LEMMA AddedIsTyped ==
    ASSUME HeapInv, list \in Lst!ListType, NEW t \in Timer,
           \/ Inactive3!AddWalk(t) = "running" /\ Inactive3!L!AddTimer(t)
           \/ Inactive2!AddWalk(t) = "running" /\ Inactive2!L!AddTimer(t)
    PROVE  list' \in Lst!ListType /\ UNCHANGED cur
<1>. DEFINE fresh == [list EXCEPT !.next[t] = NULL, !.prev[t] = NULL]
<1>1. list' = Lst!Added(fresh, expire', t) /\ UNCHANGED cur
  BY SameOperations DEF Inactive3!L!AddTimer, Inactive2!L!AddTimer
<1>2. /\ fresh \in Lst!ListType /\ fresh.head = list.head
      /\ fresh.next = [list.next EXCEPT ![t] = NULL]
  BY DEF Lst!ListType, Lst!Pointer
<1>3. list.head # NULL => Lst!Ending([list.next EXCEPT ![t] = NULL], list.head)
  <2>1. allocated \cup {t} \subseteq Timer
    BY DEF HeapInv, OneTimerEach
  <2>. QED  BY <2>1, WalkEnding DEF Inactive3!AddWalk, Inactive2!AddWalk
<1>. HIDE DEF fresh
<1>. QED  BY <1>1, <1>2, <1>3, ListConstants, Lst!AddedTyped

\* del_timer writes pointers.
LEMMA DeletedIsTyped ==
    ASSUME list \in Lst!ListType, NEW t \in Timer,
           Inactive3!L!DeleteTimer(t) \/ Inactive2!L!DeleteTimer(t)
    PROVE  list' \in Lst!ListType /\ UNCHANGED cur
<1>1. list' = Lst!Freed(Lst!Deleted(list, t), t) /\ UNCHANGED cur
  BY SameOperations DEF Inactive3!L!DeleteTimer, Inactive2!L!DeleteTimer
<1>. QED  BY <1>1, ListConstants, Lst!DeletedTyped

\* What adjust_timer does depends on where the timer is.
LEMMA AdjustedList ==
    ASSUME NEW t, NEW e, Inactive3!L!Adjust(t, e) \/ Inactive2!L!Adjust(t, e)
    PROVE  /\ \/ list' = list
              \/ /\ t = list.head /\ list.next[t] # NULL
                 /\ list' = Lst!HeadMoved(list, expire', t)
              \/ /\ t # list.head /\ list.next[t] # NULL
                 /\ list' = Lst!OtherMoved(list, expire', t)
           /\ Inactive3!L!AdjustCase(t, e) # "tail" /\ Inactive2!L!AdjustCase(t, e) # "tail"
           /\ UNCHANGED cur
<1>. DEFINE how == IF list.next[t] = NULL THEN "tail"
                   ELSE IF e < expire[list.next[t]] THEN "inplace"
                   ELSE IF t = list.head THEN "head" ELSE "middle"
<1>1. Inactive3!L!AdjustCase(t, e) = how /\ Inactive2!L!AdjustCase(t, e) = how
  BY DEF Inactive3!L!AdjustCase, Inactive2!L!AdjustCase
<1>2. /\ how = "head" => t = list.head /\ list.next[t] # NULL
      /\ how = "middle" => t # list.head /\ list.next[t] # NULL
  OBVIOUS
<1>. HIDE DEF how
<1>3. /\ how \in {"inplace", "head", "middle"} /\ UNCHANGED cur
      /\ list' = CASE how = "head" -> Lst!HeadMoved(list, expire', t)
                   [] how = "middle" -> Lst!OtherMoved(list, expire', t)
                   [] OTHER -> list
  BY <1>1, SameOperations DEF Inactive3!L!Adjust, Inactive2!L!Adjust
<1>. QED  BY <1>1, <1>2, <1>3

\* adjust_timer writes pointers.
LEMMA AdjustedIsTyped ==
    ASSUME HeapInv, list \in Lst!ListType, NEW t \in Timer,
           LET e == now + 3 * TIMESLOT
           IN  \/ Inactive3!AdjustWalk(t) = "running" /\ Inactive3!L!Adjust(t, e)
               \/ Inactive2!AdjustWalk(t) = "running" /\ Inactive2!L!Adjust(t, e),
           expire' \in [Timer -> Nat]
    PROVE  list' \in Lst!ListType /\ UNCHANGED cur
<1>. DEFINE e == now + 3 * TIMESLOT
<1>. SUFFICES ASSUME list' # list PROVE list' \in Lst!ListType
  BY AdjustedList
<1>0. allocated \subseteq Timer
  BY DEF HeapInv, OneTimerEach
<1>1. \/ t = list.head /\ list' = Lst!HeadMoved(list, expire', t)
      \/ t # list.head /\ list' = Lst!OtherMoved(list, expire', t)
  BY AdjustedList
<1>2. /\ Inactive3!AdjustWalk(t) = "running" \/ Inactive2!AdjustWalk(t) = "running"
      /\ Inactive3!L!AdjustCase(t, e) # "tail" /\ Inactive2!L!AdjustCase(t, e) # "tail"
  BY AdjustedList
<1>. HIDE DEF e
<1>3. list.next[t] \in Timer
  BY <1>0, <1>2 DEF Inactive3!AdjustWalk, Inactive2!AdjustWalk, e
<1>4. CASE t = list.head
  <2>1. Lst!Ending([list.next EXCEPT ![t] = NULL], list.next[t])
    BY <1>0, <1>2, <1>4, WalkEnding DEF Inactive3!AdjustWalk, Inactive2!AdjustWalk, e
  <2>. QED  BY <1>1, <1>3, <1>4, <2>1, ListConstants, Lst!HeadMovedTyped
<1>5. CASE t # list.head
  <2>1. list.head \in Timer /\ Lst!Ending(list.next, list.head)
    BY <1>0, <1>2, <1>5, WalkEnding DEF Inactive3!AdjustWalk, Inactive2!AdjustWalk, e
  <2>. QED  BY <1>1, <1>5, <2>1, ListConstants, Lst!OtherMovedTyped
<1>. QED  BY <1>4, <1>5

\* How the server may have ended.
Fates == Quiet \cup {"crashed", "spinning", "undefined"}

\* The types of what HeapInv says nothing of.
PointersInv ==
    /\ list \in Lst!ListType
    /\ cur = 0
    /\ fate \in Fates
    /\ adjusted \in BOOLEAN

\* The invariant after a step, from what is true after it.
LEMMA PointersAfter ==
    ASSUME list' \in Lst!ListType, cur' = 0, adjusted' \in BOOLEAN,
           fate' \in Fates
    PROVE  PointersInv'
  BY DEF PointersInv, Lst!ListType, Lst!Pointer

\* However a process ends, its list is one of pointers.
LEMMA Inactive3EndsTyped ==
    ASSUME PointersInv, adjusted' \in BOOLEAN, NEW how \in Fates,
           Inactive3!Ends(how)
    PROVE  PointersInv'
<1>1. list' \in Lst!ListType
  BY EmptyHolds DEF Inactive3!Ends
<1>. QED  BY <1>1, PointersAfter DEF Inactive3!Ends, PointersInv

\* Whatever has become of the list, the operations that do not end the process write
\* pointers.
LEMMA Inactive3Typed ==
    ASSUME Inactive3!SocketsInv, HeapInv, PointersInv, HeapInv', [Inactive3!Next]_Inactive3!vars
    PROVE  PointersInv'
<1>1. CASE Inactive3!ClientStep \/ Inactive3!Second \/ Inactive3!EpollWait
             \/ UNCHANGED Inactive3!vars
  BY <1>1, PointersAfter
     DEF Inactive3!ClientStep, Inactive3!Second, Inactive3!EpollWait, Inactive3!vars,
         Inactive3!listVars, PointersInv
<1>2. CASE Inactive3!Alarmed \/ Inactive3!Killed \/ Inactive3!EpollFail
  BY <1>2, Inactive3EndsTyped
     DEF Inactive3!Alarmed, Inactive3!Killed, Inactive3!EpollFail, PointersInv, Fates, Quiet
<1>3. CASE Inactive3!Accept
  <2>1. ASSUME NEW fd \in Fd, NEW t \in Timer, Inactive3!AcceptWith(fd, t)
        PROVE  PointersInv'
    <3>1. CASE /\ Inactive3!AddWalk(t) = "running" /\ Inactive3!L!AddTimer(t)
               /\ UNCHANGED <<fate, adjusted>>
      BY <3>1, AddedIsTyped, PointersAfter DEF PointersInv
    <3>2. CASE /\ Inactive3!AddWalk(t) # "running" /\ Inactive3!Ends(Inactive3!AddWalk(t))
               /\ UNCHANGED adjusted
      <4>1. Inactive3!AddWalk(t) \in {"spinning", "undefined"}
        BY <3>2, WalkResults DEF Inactive3!AddWalk
      <4>. QED  BY <3>2, <4>1, Inactive3EndsTyped DEF PointersInv, Fates, Quiet
    <3>. QED  BY <2>1, <3>1, <3>2 DEF Inactive3!AcceptWith
  <2>2. CASE Inactive3!Ends("aborted") /\ UNCHANGED adjusted
    BY <2>2, Inactive3EndsTyped DEF PointersInv, Fates, Quiet
  <2>. QED  BY <1>3, <2>1, <2>2 DEF Inactive3!Accept
<1>4. ASSUME NEW fd \in Fd, Inactive3!ReadEnd(fd) \/ Inactive3!ReadData(fd)
      PROVE  PointersInv'
  <2>1. fd \in open
    BY <1>4, Inactive3Bounds, Inactive3!ListenApart
       DEF Inactive3!ReadEnd, Inactive3!ReadData, Inactive3!SocketsInv, Inactive3!SocketsTypeOK
  <2>2. timer[fd] \in Timer
    BY <2>1 DEF HeapInv, OneTimerEach
  <2>3. CASE Inactive3!ReadEnd(fd)
    <3>1. CASE Inactive3!TimerDropped(timer[fd]) /\ UNCHANGED <<fate, adjusted>>
      BY <2>2, <3>1, DeletedIsTyped, PointersAfter DEF Inactive3!TimerDropped, PointersInv
    <3>2. CASE Inactive3!Ends("undefined") /\ UNCHANGED adjusted
      BY <3>2, Inactive3EndsTyped DEF PointersInv, Fates, Quiet
    <3>. QED  BY <2>3, <3>1, <3>2 DEF Inactive3!ReadEnd
  <2>4. CASE Inactive3!ReadData(fd)
    <3>1. CASE /\ Inactive3!AdjustWalk(timer[fd]) = "running"
               /\ Inactive3!L!Adjust(timer[fd], now + 3 * TIMESLOT)
               /\ UNCHANGED fate /\ adjusted' = TRUE
      <4>1. expire' \in [Timer -> Nat]
        BY DEF HeapInv, ExpireInv
      <4>. QED  BY <2>2, <3>1, <4>1, AdjustedIsTyped, PointersAfter DEF PointersInv
    <3>2. CASE /\ Inactive3!AdjustWalk(timer[fd]) # "running"
               /\ Inactive3!Ends(Inactive3!AdjustWalk(timer[fd])) /\ adjusted' = TRUE
      <4>1. Inactive3!AdjustWalk(timer[fd]) \in {"crashed", "spinning", "undefined"}
        BY <3>2, WalkResults DEF Inactive3!AdjustWalk
      <4>. QED  BY <3>2, <4>1, Inactive3EndsTyped DEF Fates, Quiet
    <3>. QED  BY <2>4, <3>1, <3>2 DEF Inactive3!ReadData
  <2>. QED  BY <1>4, <2>3, <2>4
<1>. QED  BY <1>1, <1>2, <1>3, <1>4 DEF Inactive3!Next

\* However a process ends, its list is one of pointers.
LEMMA Inactive2EndsTyped ==
    ASSUME PointersInv, adjusted' \in BOOLEAN, NEW how \in Fates,
           Inactive2!Ends(how)
    PROVE  PointersInv'
<1>1. list' \in Lst!ListType
  BY EmptyHolds DEF Inactive2!Ends
<1>. QED  BY <1>1, PointersAfter DEF Inactive2!Ends, PointersInv

\* Whatever has become of the list, the operations that do not end the process write
\* pointers.
LEMMA Inactive2Typed ==
    ASSUME Inactive2!SocketsInv, HeapInv, PointersInv, HeapInv', [Inactive2!Next]_Inactive2!vars
    PROVE  PointersInv'
<1>1. CASE Inactive2!ClientStep \/ Inactive2!Second \/ Inactive2!EpollWait
             \/ UNCHANGED Inactive2!vars
  BY <1>1, PointersAfter
     DEF Inactive2!ClientStep, Inactive2!Second, Inactive2!EpollWait, Inactive2!vars,
         Inactive2!listVars, PointersInv
<1>2. CASE Inactive2!Alarmed \/ Inactive2!Killed \/ Inactive2!EpollFail
  BY <1>2, Inactive2EndsTyped
     DEF Inactive2!Alarmed, Inactive2!Killed, Inactive2!EpollFail, PointersInv, Fates, Quiet
<1>3. CASE Inactive2!Accept
  <2>1. ASSUME NEW fd \in Fd, NEW t \in Timer, Inactive2!AcceptWith(fd, t)
        PROVE  PointersInv'
    <3>1. CASE /\ Inactive2!AddWalk(t) = "running" /\ Inactive2!L!AddTimer(t)
               /\ UNCHANGED <<fate, adjusted>>
      BY <3>1, AddedIsTyped, PointersAfter DEF PointersInv
    <3>2. CASE /\ Inactive2!AddWalk(t) # "running" /\ Inactive2!Ends(Inactive2!AddWalk(t))
               /\ UNCHANGED adjusted
      <4>1. Inactive2!AddWalk(t) \in {"spinning", "undefined"}
        BY <3>2, WalkResults DEF Inactive2!AddWalk
      <4>. QED  BY <3>2, <4>1, Inactive2EndsTyped DEF PointersInv, Fates, Quiet
    <3>. QED  BY <2>1, <3>1, <3>2 DEF Inactive2!AcceptWith
  <2>2. CASE Inactive2!Ends("aborted") /\ UNCHANGED adjusted
    BY <2>2, Inactive2EndsTyped DEF PointersInv, Fates, Quiet
  <2>. QED  BY <1>3, <2>1, <2>2 DEF Inactive2!Accept
<1>4. ASSUME NEW fd \in Fd, Inactive2!ReadEnd(fd) \/ Inactive2!ReadData(fd)
      PROVE  PointersInv'
  <2>1. fd \in open
    BY <1>4, Inactive2Bounds, Inactive2!ListenApart
       DEF Inactive2!ReadEnd, Inactive2!ReadData, Inactive2!SocketsInv, Inactive2!SocketsTypeOK
  <2>2. timer[fd] \in Timer
    BY <2>1 DEF HeapInv, OneTimerEach
  <2>3. CASE Inactive2!ReadEnd(fd)
    <3>1. CASE Inactive2!TimerDropped(timer[fd]) /\ UNCHANGED <<fate, adjusted>>
      BY <2>2, <3>1, DeletedIsTyped, PointersAfter DEF Inactive2!TimerDropped, PointersInv
    <3>2. CASE Inactive2!Ends("undefined") /\ UNCHANGED adjusted
      BY <3>2, Inactive2EndsTyped DEF PointersInv, Fates, Quiet
    <3>. QED  BY <2>3, <3>1, <3>2 DEF Inactive2!ReadEnd
  <2>4. CASE Inactive2!ReadData(fd)
    <3>1. CASE /\ Inactive2!AdjustWalk(timer[fd]) = "running"
               /\ Inactive2!L!Adjust(timer[fd], now + 3 * TIMESLOT)
               /\ UNCHANGED fate /\ adjusted' = TRUE
      <4>1. expire' \in [Timer -> Nat]
        BY DEF HeapInv, ExpireInv
      <4>. QED  BY <2>2, <3>1, <4>1, AdjustedIsTyped, PointersAfter DEF PointersInv
    <3>2. CASE /\ Inactive2!AdjustWalk(timer[fd]) # "running"
               /\ Inactive2!Ends(Inactive2!AdjustWalk(timer[fd])) /\ adjusted' = TRUE
      <4>1. Inactive2!AdjustWalk(timer[fd]) \in {"crashed", "spinning", "undefined"}
        BY <3>2, WalkResults DEF Inactive2!AdjustWalk
      <4>. QED  BY <3>2, <4>1, Inactive2EndsTyped DEF Fates, Quiet
    <3>. QED  BY <2>4, <3>1, <3>2 DEF Inactive2!ReadData
  <2>. QED  BY <1>4, <2>3, <2>4
<1>. QED  BY <1>1, <1>2, <1>3, <1>4 DEF Inactive2!Next

-----------------------------------------------------------------------------
(* The programs together: each step is one of the program that runs, and      *)
(* leaves the variables of the others alone.                                 *)

\* The inductive invariant.
ProgramsInv ==
    /\ program = "inactive3" => Inactive3!SocketsInv /\ HeapInv
    /\ program = "inactive2" => Inactive2!SocketsInv /\ HeapInv
    /\ program \notin {"inactive3", "inactive2"} => allocated = {}
    /\ program = "echo" => EchoInv
    /\ PointersInv /\ SilentInv
    /\ program = "levels" => Levels!SocketsInv
    /\ program = "room" => RoomInv
    /\ ClientInv
    /\ ForkInv
    /\ SemInv

\* Every program starts as its own Init says.
LEMMA ProgramsStart == ProgramsInit => ProgramsInv
<1>. SUFFICES ASSUME ProgramsInit PROVE ProgramsInv
  OBVIOUS
<1>. USE DEF ProgramsInit
<1>1. Inactive3!SocketsInv
  BY Inactive3Bounds, Inactive3!SocketsStart DEF Inactive3!Init
<1>2. Inactive2!SocketsInit
  BY DEF Inactive3!Init, Inactive3!SocketsInit, Inactive2!SocketsInit,
         Inactive3!listenfd, Inactive2!listenfd
<1>3. Inactive2!SocketsInv
  BY <1>2, Inactive2Bounds, Inactive2!SocketsStart
<1>4. HeapInv /\ allocated = {}
  BY AlarmBounds
     DEF Inactive3!Init, Inactive3!L!Init, Inactive3!SocketsInit,
         HeapInv, ClockInv, OneTimerEach, ExpireInv
<1>5. EchoInv
  BY EchoStarts
<1>6. RoomInv
  BY RoomStarts
<1>7. ClientInv
  BY ClientStarts, ProgramsAssumption
<1>8. PointersInv /\ SilentInv
  BY EmptyHolds DEF Inactive3!Init, Inactive3!L!Init, PointersInv, SilentInv, Sound, Fates, Quiet
<1>9. Levels!SocketsInv
  <2>1. Levels!SocketsInit
    BY DEF Inactive3!Init, Inactive3!SocketsInit, Levels!SocketsInit
  <2>. QED  BY <2>1, LevelsBounds, Levels!SocketsStart
<1>10. ForkInv
  BY DEF Fork!Init, ForkInv, Fork!TypeOK
<1>11. SemInv
  BY DEF Sem!Init, Sem!Process, SemInv, Balance
<1>. QED  BY <1>1, <1>3, <1>4, <1>5, <1>6, <1>7, <1>8, <1>9, <1>10, <1>11 DEF ProgramsInv

\* The program that runs is the one that was started.
LEMMA ProgramStays == [ProgramsNext]_allVars => program' = program
  BY DEF ProgramsNext, InactiveStep, EchoStep, LevelsDo, RoomStep, ClientDo, ForkDo, SemDo, allVars

\* A step of the connections server, and of nobody else, touches the timers.
LEMMA InactiveMoves ==
    ASSUME [ProgramsNext]_allVars
    PROVE  /\ program = "inactive3" => [Inactive3!Next]_Inactive3!vars
           /\ program = "inactive2" => [Inactive2!Next]_Inactive2!vars
           /\ program \notin {"inactive3", "inactive2"} => UNCHANGED inactiveVars
  BY DEF ProgramsNext, InactiveStep, EchoStep, LevelsDo, RoomStep, ClientDo, ForkDo, SemDo,
         allVars, noServer, inactiveVars, socketVars, Inactive3!vars, Inactive3!listVars,
         Inactive3!socketVars, Inactive2!vars, Inactive2!listVars, Inactive2!socketVars

\* While the echo server runs every step is one of its own.
LEMMA EchoMoves ==
    ASSUME [ProgramsNext]_allVars, program = "echo"
    PROVE  [Echo!Next]_Echo!vars
  BY DEF ProgramsNext, InactiveStep, EchoStep, LevelsDo, RoomStep, ClientDo, ForkDo, SemDo,
         allVars, echoVars, socketVars, Echo!vars, Echo!socketVars

\* While the chat room runs every step is one of its own.
LEMMA RoomMoves ==
    ASSUME [ProgramsNext]_allVars, program = "room"
    PROVE  [Room!Next]_Room!vars
  BY DEF ProgramsNext, InactiveStep, EchoStep, LevelsDo, RoomStep, ClientDo, ForkDo, SemDo,
         allVars, roomVars, socketVars, Room!vars, Room!tableVars, Room!socketVars

\* While the demonstration of the two modes runs every step is one of its own.
LEMMA LevelsMoves ==
    ASSUME [ProgramsNext]_allVars, program = "levels"
    PROVE  [Levels!Next]_Levels!vars
  BY DEF ProgramsNext, InactiveStep, EchoStep, LevelsDo, RoomStep, ClientDo, ForkDo, SemDo,
         allVars, socketVars, Levels!vars, Levels!socketVars

\* A step is one of the mutex program or leaves its variables alone, and so it is with
\* the semaphore.
LEMMA ForkAndSemMove ==
    ASSUME [ProgramsNext]_allVars
    PROVE  [Fork!Next]_Fork!vars /\ [Sem!Next]_Sem!vars
  BY DEF ProgramsNext, InactiveStep, EchoStep, LevelsDo, RoomStep, ClientDo, ForkDo, SemDo,
         allVars, noOther, mutexVars, semVars, Fork!vars, Sem!vars

\* A step is one of the client or leaves its variables alone.
LEMMA ClientMoves ==
    ASSUME [ProgramsNext]_allVars
    PROVE  [Next]_vars
  BY DEF ProgramsNext, InactiveStep, EchoStep, LevelsDo, RoomStep, ClientDo, ForkDo, SemDo,
         allVars, noOther, clientVars

\* One case per program.
LEMMA ProgramsStep == ProgramsInv /\ [ProgramsNext]_allVars => ProgramsInv'
<1>. SUFFICES ASSUME ProgramsInv, [ProgramsNext]_allVars PROVE ProgramsInv'
  OBVIOUS
<1>1. program' = program
  BY ProgramStays
<1>2. program = "inactive3" => (Inactive3!SocketsInv /\ HeapInv)'
  BY InactiveMoves, Inactive3Steps, StepKeepsHeap DEF ProgramsInv
<1>3. program = "inactive2" => (Inactive2!SocketsInv /\ HeapInv)'
  BY InactiveMoves, Inactive2Steps, StepKeepsHeap DEF ProgramsInv
<1>4. program \notin {"inactive3", "inactive2"} => allocated' = {}
  BY InactiveMoves DEF ProgramsInv, inactiveVars
<1>5. program = "echo" => EchoInv'
  BY EchoMoves, EchoSteps DEF ProgramsInv
<1>6. program = "room" => RoomInv'
  BY RoomMoves, RoomSteps DEF ProgramsInv
<1>7. ClientInv'
  BY ClientMoves, ClientSteps, ProgramsAssumption DEF ProgramsInv
<1>8. SilentInv'
  <2>1. program \notin {"inactive3", "inactive2"} => SilentInv'
    BY InactiveMoves, SoundUnchanged DEF ProgramsInv, inactiveVars
  <2>. QED  BY <2>1, InactiveMoves, Inactive3Silent, Inactive2Silent DEF ProgramsInv
<1>9. PointersInv'
  <2>1. program \notin {"inactive3", "inactive2"} => PointersInv'
    BY InactiveMoves, PointersAfter DEF ProgramsInv, PointersInv, inactiveVars
  <2>. QED  BY <1>2, <1>3, <2>1, InactiveMoves, Inactive3Typed, Inactive2Typed DEF ProgramsInv
<1>10. program = "levels" => Levels!SocketsInv'
  BY LevelsMoves, LevelsSteps DEF ProgramsInv
<1>11. ForkInv' /\ SemInv'
  BY ForkAndSemMove, ForkSteps, SemSteps DEF ProgramsInv
<1>. QED  BY <1>1, <1>2, <1>3, <1>4, <1>5, <1>6, <1>7, <1>8, <1>9, <1>10, <1>11 DEF ProgramsInv

\* What the theorems below are read off from.
LEMMA ProgramsAlways == ProgramsSpec => []ProgramsInv
  BY ProgramsStart, ProgramsStep, PTL DEF ProgramsSpec

\* Each program keeps its types, those among them that are no matter of course: only
\* open connections are reported and read (testTCP_UDP.c, test_LTET.c), the pointers of
\* the list of timers are pointers however often data has moved a timer
\* (close_inactive_conn.cpp, line 222), the child gets no copy of a destroyed mutex
\* (multi_thread_fork.c), and no process is owed more than one operation on the
\* semaphore, whichever of them fail (sem_IPC_PRIVATE.c, lines 17-19).
THEOREM ProgramsTypeCorrect == ProgramsSpec => []ProgramTypeOK
<1>1. ProgramsInv => ProgramTypeOK
  <2>. SUFFICES ASSUME ProgramsInv PROVE ProgramTypeOK
    OBVIOUS
  <2>1. ASSUME HeapInv
        PROVE  Inactive3!L!TypeOK /\ Inactive2!L!TypeOK
    BY <2>1
       DEF ProgramsInv, PointersInv, HeapInv, ClockInv, OneTimerEach, ExpireInv,
           Lst!ListType, Lst!Pointer, Inactive3!L!TypeOK, Inactive3!L!Pointer,
           Inactive2!L!TypeOK, Inactive2!L!Pointer
  <2>2. program = "inactive3" => Inactive3!TypeOK
    BY <2>1
       DEF ProgramsInv, PointersInv, HeapInv, OneTimerEach, Inactive3!TypeOK, Inactive3!SocketsInv,
           Fates, Quiet
  <2>3. program = "inactive2" => Inactive2!TypeOK
    BY <2>1
       DEF ProgramsInv, PointersInv, HeapInv, OneTimerEach, Inactive2!TypeOK, Inactive2!SocketsInv,
           Fates, Quiet
  <2>4. program = "levels" => Levels!TypeOK
    BY DEF ProgramsInv, Levels!SocketsInv, Levels!TypeOK
  <2>. QED  BY <2>2, <2>3, <2>4, SemTyped
            DEF ProgramTypeOK, ProgramsInv, EchoInv, RoomInv, ClientInv, ForkInv
<1>. QED  BY <1>1, ProgramsAlways, PTL

\* The table is never written beyond its end, whatever comes (chatroom_epoll_server.c,
\* lines 103-112): its index stays below USER_LIMIT, and a batch is no longer than
\* its descriptors.
THEOREM RoomTypeCorrect == ProgramsSpec => [](program = "room" => Room!TypeOK)
<1>1. ProgramsInv => (program = "room" => Room!TypeOK)
  BY DEF ProgramsInv, RoomInv
<1>. QED  BY <1>1, ProgramsAlways, PTL

\* Each side of the socketpair holds a byte at the most, so that no send on it ever
\* waits (chatroom_shm_clnt.c, lines 99, 125).
THEOREM ClientTypeCorrect == ProgramsSpec => []TypeOK
<1>1. ProgramsInv => TypeOK
  BY DEF ProgramsInv, ClientInv
<1>. QED  BY <1>1, ProgramsAlways, PTL

\* Every open connection has a timer of its own and no timer outlives its
\* connection (close_inactive_conn.cpp, lines 148, 201, 211), whatever state the
\* list is in.
THEOREM TimersMatchConnections == ProgramsSpec => []TimersOfConnections
<1>1. ProgramsInv => TimersOfConnections
  BY DEF ProgramsInv, HeapInv, OneTimerEach, TimersOfConnections, Inactive3!TimersOfConnections
<1>. QED  BY <1>1, ProgramsAlways, PTL

\* Connections that come and go without a word do no harm to the list of timers
\* (close_inactive_conn.cpp, lines 149, 201, 211; lst_timer.h, line 33), however many
\* and in whatever order: it stays an ascending doubly linked list of the timers
\* of the open connections, and add_timer and del_timer meet nothing else.
THEOREM SilenceKeepsList == ProgramsSpec => []SilenceHarmless
<1>1. ProgramsInv => SilenceHarmless
  <2>. SUFFICES ASSUME Sound PROVE Inactive3!L!AscendingDoublyLinked
    BY DEF ProgramsInv, SilentInv, SilenceHarmless, Inactive3!SilenceHarmless, Quiet
  <2>1. Lst!AscendingDoublyLinked
    BY ListConstants, Lst!HeldIsAscending DEF Sound, Lst!IsFiniteSet, IsFiniteSet
  <2>. QED  BY <2>1
            DEF Lst!AscendingDoublyLinked, Inactive3!L!AscendingDoublyLinked,
                Lst!Reachable, Inactive3!L!Reachable,
                Lst!Cardinality, Inactive3!L!Cardinality
<1>. QED  BY <1>1, ProgramsAlways, PTL

\* The alarm that nothing catches ends the process before any timer is due
\* (close_inactive_conn.cpp, line 119): three times TIMESLOT is later than one.
THEOREM InactiveNeverClosed == ProgramsSpec => []NoTimerEverDue
<1>1. ProgramsInv => NoTimerEverDue
  BY AlarmBounds
     DEF ProgramsInv, HeapInv, ClockInv, OneTimerEach, ExpireInv, NoTimerEverDue,
         Inactive3!NoTimerEverDue
<1>. QED  BY <1>1, ProgramsAlways, PTL

\* The processes never hold the semaphore at once (sem_IPC_PRIVATE.c, lines 44, 54),
\* whichever calls of semop fail (line 19) and whoever is killed; and the ends leave its
\* value as it was.
THEOREM SemaphoreExcludes == ProgramsSpec => []HoldersApart
<1>1. ProgramsInv => HoldersApart
  BY SemHoldersApart DEF ProgramsInv, HoldersApart
<1>. QED  BY <1>1, ProgramsAlways, PTL

\* tcp_func empties the sockets edge triggering reports (testTCP_UDP.c, lines 55-70):
\* whatever arrives while it runs or while a batch is handled, a connection with
\* something to read is being read or has an event to come.
THEOREM EchoLeavesNothing == ProgramsSpec => []EdgeDrained
<1>1. ProgramsInv => EdgeDrained
  BY DEF ProgramsInv, EchoInv, EdgeDrained
<1>. QED  BY <1>1, ProgramsAlways, PTL

\* No connection is open that the table does not list (chatroom_epoll_server.c,
\* lines 103-112), although the table is never cleared and descriptors are used again.
THEOREM RoomListsOpen == ProgramsSpec => []OpenIsListed
<1>1. ProgramsInv => OpenIsListed
  BY DEF ProgramsInv, RoomInv, OpenIsListed
<1>. QED  BY <1>1, ProgramsAlways, PTL

\* The user is asked for a line (chatroom_shm_clnt.c, line 94) only after the
\* connection has ended, unless a signal has ended the child, the epoll_wait of line
\* 66 was interrupted or the fork of line 186 has failed.
THEOREM InputComesLate == ProgramsSpec => []InputOnlyAfterTheEnd
<1>1. ProgramsInv => InputOnlyAfterTheEnd
  BY DEF ProgramsInv, ClientInv, EndInv, Leaves, InputOnlyAfterTheEnd
<1>. QED  BY <1>1, ProgramsAlways, PTL

\* After one message parent and child wait for each other (chatroom_shm_clnt.c,
\* lines 66, 141), and only a signal or an interrupted wait ends that.
THEOREM MessageSilences == ProgramsSpec => []SilentAfterMessage
<1>1. ProgramsInv => SilentAfterMessage
  BY DEF ProgramsInv, ClientInv
<1>. QED  BY <1>1, ProgramsAlways, PTL
=============================================================================
