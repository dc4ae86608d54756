------------------------------ MODULE MCPrograms ------------------------------
(***************************************************************************)
(* The small programs of the repository, which have nothing to do with each  *)
(* other, explored one at a time: program says which one runs, and the        *)
(* variables of the others stay as they are.  The chat room client is the     *)
(* module that is extended, the others are instances.                        *)
(***************************************************************************)
EXTENDS ChatroomShmClnt, EpollSockets

CONSTANTS Timer, NULL, TIMESLOT, USER_LIMIT,
          FewOpen, FewBacklog, FewConnects, FewUnread   \* smaller bounds of some programs

VARIABLES
    program,
    list, expire, allocated, now, pc, cur, fate, timer, adjusted,
    running, serving,
    status, user_fds, user_count, armed, i,
    atfork, main, thread, child, mutex, childMutex,
    privileged, val, semPc, undo

inactiveVars == <<list, expire, allocated, now, pc, cur, fate, timer, adjusted>>
echoVars == <<running, serving>>
roomVars == <<status, user_fds, user_count, armed, i>>
mutexVars == <<atfork, main, thread, child, mutex, childMutex>>
semVars == <<privileged, val, semPc, undo>>
clientVars == vars
allVars == <<program, socketVars, inactiveVars, echoVars, roomVars, clientVars, mutexVars, semVars>>

\* Three connections at once, and two with more data and a connection too many.
Inactive3 == INSTANCE CloseInactiveConn WITH MaxBacklog <- FewBacklog, MaxConnects <- FewConnects,
                 MaxUnread <- FewUnread, server <- fate
Inactive2 == INSTANCE CloseInactiveConn WITH MaxOpen <- FewOpen, server <- fate
Echo == INSTANCE TestTcpUdp WITH MaxOpen <- FewOpen
Levels == INSTANCE TestLtEt WITH MaxOpen <- FewOpen
Room == INSTANCE ChatroomEpollServer WITH MaxUnread <- FewUnread
Fork == INSTANCE ForkMutex
Sem == INSTANCE SemIpcPrivate WITH pc <- semPc

ASSUME ProgramsAssumption ==
    /\ Inactive3!SocketsAssumption /\ Inactive3!TimersAssumption
    /\ Inactive2!SocketsAssumption /\ Inactive2!TimersAssumption
    /\ Echo!SocketsAssumption /\ Levels!SocketsAssumption
    /\ Room!SocketsAssumption /\ Room!UserLimitAssumption
    /\ InboxAssumption

ProgramsInit ==
    /\ program \in {"inactive3", "inactive2", "echo", "levels", "room", "client", "fork", "sem"}
    /\ Inactive3!Init /\ Echo!Init /\ Room!Init /\ Init /\ Fork!Init /\ Sem!Init
    /\ program # "fork" => atfork
    /\ program # "client" => receiver = "socket"
    /\ program # "sem" => privileged /\ semPc["child"] = "start"

noServer == <<inactiveVars, echoVars, roomVars>>
noOther == <<clientVars, mutexVars, semVars>>

InactiveStep ==
    /\ \/ program = "inactive3" /\ Inactive3!Next
       \/ program = "inactive2" /\ Inactive2!Next
    /\ UNCHANGED <<program, echoVars, roomVars, noOther>>

EchoStep ==
    /\ program = "echo" /\ Echo!Next
    /\ UNCHANGED <<program, inactiveVars, roomVars, noOther>>

LevelsDo(A) == program = "levels" /\ A /\ UNCHANGED <<program, noServer, noOther>>

RoomStep ==
    /\ program = "room" /\ Room!Next
    /\ UNCHANGED <<program, inactiveVars, echoVars, noOther>>

ClientDo(A) ==
    program = "client" /\ A /\ UNCHANGED <<program, socketVars, noServer, mutexVars, semVars>>

ForkDo(A) ==
    program = "fork" /\ A /\ UNCHANGED <<program, socketVars, noServer, clientVars, semVars>>

SemDo(A) ==
    program = "sem" /\ A /\ UNCHANGED <<program, socketVars, noServer, clientVars, mutexVars>>

ProgramsNext ==
    \/ InactiveStep
    \/ EchoStep
    \/ LevelsDo(Levels!Next)
    \/ RoomStep
    \/ ClientDo(Next)
    \/ ForkDo(Fork!Next)
    \/ SemDo(Sem!Next)

\* The fairness each module states, for the program that runs.
Fairness ==
    /\ WF_allVars(LevelsDo(Levels!ServerStep))
    /\ WF_allVars(ClientDo(SenderWakes))
    /\ WF_allVars(ClientDo(ReceiverStep))
    /\ WF_allVars(ForkDo(Fork!ThreadStep))
    /\ WF_allVars(ForkDo(Fork!ChildStep))
    /\ WF_allVars(ForkDo(Fork!MainStep))
    /\ \A p \in Sem!Process : WF_allVars(SemDo(Sem!ProcessStep(p)))

ProgramsSpec == ProgramsInit /\ [][ProgramsNext]_allVars /\ Fairness

-----------------------------------------------------------------------------
(* The properties of the instances, under their names.                       *)

\* The type invariant of the program that runs.
ProgramTypeOK ==
    /\ program = "inactive3" => Inactive3!TypeOK
    /\ program = "inactive2" => Inactive2!TypeOK
    /\ program = "echo" => Echo!TypeOK
    /\ program = "levels" => Levels!TypeOK
    /\ program = "room" => Room!TypeOK
    /\ program = "client" => TypeOK
    /\ program = "fork" => Fork!TypeOK
    /\ program = "sem" => Sem!TypeOK

\* CloseInactiveConn: users[] and the heap agree on the timers.
TimersOfConnections ==
    program \in {"inactive3", "inactive2"} => Inactive3!TimersOfConnections

\* CloseInactiveConn: without data the list stays sound and the process alive.
SilenceHarmless == Inactive3!SilenceHarmless

\* CloseInactiveConn: the process is ended before a timer is due (proved; line 119).
NoTimerEverDue == Inactive3!NoTimerEverDue

\* TestTcpUdp: what can be read is being read or has an event.
EdgeDrained == program = "echo" => Echo!EdgeDrained

\* ChatroomEpollServer: every open connection is in the table.
OpenIsListed == program = "room" => Room!OpenIsListed

\* TestLtEt: a connection its client has ended is closed.
EndedIsClosed == \A fd \in Fd : (program = "levels" /\ fd \in ended) ~> fd \notin open

\* ForkMutex: the program ends unless the mutex was copied locked.
EndsUnlessCopiedLocked ==
    (program = "fork" /\ main = "start")
        ~> (main = "exit" \/ (~atfork /\ childMutex = "thread"))

\* SemIpcPrivate: the processes never hold the semaphore at once.
HoldersApart == program = "sem" => Sem!HoldersApart

\* SemIpcPrivate: both processes come to their end.
BothEnd == \A p \in Sem!Process : (program = "sem" /\ semPc[p] = "start") ~> semPc[p] = "end"
=============================================================================
