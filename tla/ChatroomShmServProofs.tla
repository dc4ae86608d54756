------------------------ MODULE ChatroomShmServProofs ------------------------
(***************************************************************************)
(* Theorems about the chat room server, for any set of connections, any    *)
(* number of slots and any number of SIGTERMs and failing calls.           *)
(***************************************************************************)
EXTENDS ChatroomShmServ, TLAPS

\* The signal being handled by the inner loops of main is still in sigs.
HandlingOK ==
    /\ mpc = "reap" => sigs # <<>> /\ Head(sigs) = "CHLD"
    /\ mpc = "kill" => sigs # <<>> /\ Head(sigs) = "TERM"

\* Entries below user_count have been written; the kill loop stays below it.
EntriesOK ==
    /\ \A i \in 0 .. userCount - 1 : users[i] \in Conn
    /\ mpc = "kill" => killIdx < userCount

\* A slot is assigned by fork and kept for good; pid 1 is never registered.
SlotsOK ==
    /\ \A c \in Conn : slot[c] # -1 <=> cpc[c] \in Running \cup {"zombie", "reaped"}
    /\ processUser[PidOne] = -1
    /\ "signal" \in interest

Shape == TypeOK /\ HandlingOK /\ EntriesOK /\ SlotsOK

USE ServAssumption DEF Slots, Fds, MainPc, Running, ChildPc

\* Updating a Boolean-valued function at one point keeps its type.
LEMMA BooleanExcept ==
    ASSUME NEW S, NEW f \in [S -> BOOLEAN], NEW x \in S, NEW b \in BOOLEAN
    PROVE  [f EXCEPT ![x] = b] \in [S -> BOOLEAN]
OBVIOUS

\* Types, entries and slots are right when the server starts.
LEMMA ShapeInit == Init => Shape
<1> SUFFICES ASSUME Init PROVE Shape
  OBVIOUS
<1> USE DEF Init
<1>1. MainTypeOK
  <2>1. mpc \in MainPc /\ batch \subseteq Fds /\ sigs \in Seq({"CHLD", "TERM"})
    OBVIOUS
  <2>2. killIdx \in -1 .. UserLimit - 1
    OBVIOUS
  <2>3. QED
    BY <2>1, <2>2 DEF MainTypeOK
<1>2. TableTypeOK
  BY DEF TableTypeOK
<1>3. KernelTypeOK
  BY DEF KernelTypeOK
<1>4. ChildTypeOK
  BY DEF ChildTypeOK
<1>5. CommTypeOK
  BY DEF CommTypeOK
<1>6. HandlingOK
  BY DEF HandlingOK
<1>7. EntriesOK
  BY DEF EntriesOK
<1>8. SlotsOK
  BY DEF SlotsOK
<1>9. QED
  BY <1>1, <1>2, <1>3, <1>4, <1>5, <1>6, <1>7, <1>8 DEF Shape, TypeOK

\* Every step of main, of a child and of a client keeps types, entries and slots
\* right; the kill loop is the one that could take the counters out of range.
LEMMA ShapeStep == Shape /\ [Next]_vars => Shape'
<1> SUFFICES ASSUME Shape, [Next]_vars PROVE Shape'
  OBVIOUS
<1> USE DEF Shape, TypeOK, mainVars, tableVars, epollVars, sigVars, childVars, commVars, clientVars,
            budgetVars
<1>1. CASE \E s \in {"CHLD", "TERM"} : Handler(s)
  BY <1>1, SMTT(60) DEF Handler, Edge, MainTypeOK, TableTypeOK, KernelTypeOK, ChildTypeOK,
     CommTypeOK, HandlingOK, EntriesOK, SlotsOK
<1>2. CASE RaiseTerm
  <2>1. MainTypeOK'
    BY <1>2, SMTT(60) DEF RaiseTerm, MainTypeOK, TableTypeOK, KernelTypeOK
  <2>2. TableTypeOK'
    BY <1>2 DEF RaiseTerm, TableTypeOK, SlotsOK, EntriesOK, MainTypeOK
  <2>3. KernelTypeOK'
    BY <1>2 DEF RaiseTerm, KernelTypeOK
  <2>4. ChildTypeOK'
    BY <1>2 DEF RaiseTerm, ChildTypeOK, TableTypeOK
  <2>5. CommTypeOK'
    BY <1>2 DEF RaiseTerm, CommTypeOK, ChildTypeOK, SlotsOK
  <2>6. HandlingOK'
    BY <1>2 DEF RaiseTerm, HandlingOK
  <2>7. EntriesOK'
    BY <1>2 DEF RaiseTerm, EntriesOK, MainTypeOK, TableTypeOK
  <2>8. SlotsOK'
    BY <1>2 DEF RaiseTerm, SlotsOK, ChildTypeOK, TableTypeOK, KernelTypeOK
  <2>9. QED
    BY <2>1, <2>2, <2>3, <2>4, <2>5, <2>6, <2>7, <2>8
<1>3. CASE EpollWait
  BY <1>3, SMTT(60) DEF EpollWait, MainTypeOK, TableTypeOK, KernelTypeOK, ChildTypeOK,
     CommTypeOK, HandlingOK, EntriesOK, SlotsOK
<1>4. CASE AcceptFail
  BY <1>4, SMTT(60) DEF AcceptFail, MainTypeOK, TableTypeOK, KernelTypeOK, ChildTypeOK,
     CommTypeOK, HandlingOK, EntriesOK, SlotsOK
<1>5. ASSUME NEW c \in Conn, AcceptRefuse(c) PROVE Shape'
  BY <1>5, SMTT(60) DEF AcceptRefuse, Accept, MainTypeOK, TableTypeOK, KernelTypeOK, ChildTypeOK,
     CommTypeOK, HandlingOK, EntriesOK, SlotsOK
<1>6. ASSUME NEW c \in Conn, AcceptForkFail(c) PROVE Shape'
  BY <1>6, SMTT(60) DEF AcceptForkFail, Accept, MainTypeOK, TableTypeOK, KernelTypeOK, ChildTypeOK,
     CommTypeOK, HandlingOK, EntriesOK, SlotsOK
<1>7. ASSUME NEW c \in Conn, AcceptFork(c) PROVE Shape'
  <2>1. MainTypeOK'
    BY <1>7 DEF AcceptFork, Accept, Full, RegisteredAs, MainTypeOK, TableTypeOK, KernelTypeOK
  <2>2. TableTypeOK'
    BY <1>7 DEF AcceptFork, Accept, Full, RegisteredAs, TableTypeOK, SlotsOK, EntriesOK, MainTypeOK
  <2>3. KernelTypeOK'
    BY <1>7 DEF AcceptFork, Accept, Full, RegisteredAs, KernelTypeOK
  <2>4. ChildTypeOK'
    BY <1>7 DEF AcceptFork, Accept, Full, RegisteredAs, ChildTypeOK, TableTypeOK
  <2>5. CommTypeOK'
    BY <1>7 DEF AcceptFork, Accept, Full, RegisteredAs, CommTypeOK, ChildTypeOK, SlotsOK
  <2>6. HandlingOK'
    BY <1>7 DEF AcceptFork, Accept, Full, RegisteredAs, HandlingOK
  <2>7. EntriesOK'
    BY <1>7 DEF AcceptFork, Accept, Full, RegisteredAs, EntriesOK, MainTypeOK, TableTypeOK
  <2>8. SlotsOK'
    BY <1>7
       DEF AcceptFork, Accept, Full, RegisteredAs, SlotsOK, ChildTypeOK, TableTypeOK, KernelTypeOK
  <2>9. QED
    BY <2>1, <2>2, <2>3, <2>4, <2>5, <2>6, <2>7, <2>8
<1>8. ASSUME NEW c \in Conn, PipeEvent(c) PROVE Shape'
  <2>1. MainTypeOK'
    BY <1>8, SMTT(60) DEF PipeEvent, MainTypeOK, TableTypeOK, KernelTypeOK
  <2>2. TableTypeOK'
    BY <1>8 DEF PipeEvent, TableTypeOK, SlotsOK, EntriesOK, MainTypeOK
  <2>3. KernelTypeOK'
    BY <1>8 DEF PipeEvent, KernelTypeOK
  <2>4. ChildTypeOK'
    <3>1. CASE pipeUp[c] = <<>>
      BY <1>8, <3>1 DEF PipeEvent, ChildTypeOK
    <3>2. CASE pipeUp[c] # <<>>
      <4>1. ASSUME NEW d \in Conn PROVE cready[d] \cup {"pipe"} \in SUBSET {"conn", "pipe"}
        BY DEF ChildTypeOK
      <4>2. cready' \in [Conn -> SUBSET {"conn", "pipe"}]
        BY <1>8, <3>2, <4>1 DEF PipeEvent, ChildTypeOK
      <4>3. QED
        BY <1>8, <4>2 DEF PipeEvent, ChildTypeOK
    <3>3. QED
      BY <3>1, <3>2
  <2>5. CommTypeOK'
    <3>1. CASE pipeUp[c] = <<>>
      BY <1>8, <3>1 DEF PipeEvent, CommTypeOK
    <3>2. CASE pipeUp[c] # <<>>
      <4>1. Head(pipeUp[c]) \in Slots /\ Tail(pipeUp[c]) \in Seq(Slots)
        BY <3>2 DEF CommTypeOK
      <4>2. ASSUME NEW d \in Conn
            PROVE Append(pipeDown[d], Head(pipeUp[c])) \in Seq(Slots)
        BY <4>1 DEF CommTypeOK
      <4>3. pipeUp' \in [Conn -> Seq(Slots)]
        BY <1>8, <3>2, <4>1 DEF PipeEvent, CommTypeOK
      <4>4. pipeDown' \in [Conn -> Seq(Slots)]
        <5>1. pipeDown' = [d \in Conn |->
                  IF d \in Receivers(c) /\ Alive(d)
                  THEN Append(pipeDown[d], Head(pipeUp[c])) ELSE pipeDown[d]]
          BY <1>8, <3>2 DEF PipeEvent
        <5>2. \A d \in Conn : pipeDown[d] \in Seq(Slots)
          BY DEF CommTypeOK
        <5>3. QED
          BY <5>1, <5>2, <4>2
      <4>5. QED
        BY <1>8, <4>3, <4>4 DEF PipeEvent, CommTypeOK
    <3>3. QED
      BY <3>1, <3>2
  <2>6. HandlingOK'
    BY <1>8 DEF PipeEvent, HandlingOK
  <2>7. EntriesOK'
    BY <1>8 DEF PipeEvent, EntriesOK, MainTypeOK, TableTypeOK
  <2>8. SlotsOK'
    BY <1>8 DEF PipeEvent, SlotsOK, ChildTypeOK, TableTypeOK, KernelTypeOK
  <2>9. QED
    BY <2>1, <2>2, <2>3, <2>4, <2>5, <2>6, <2>7, <2>8
<1>9. CASE SignalEvent
  BY <1>9, SMTT(60) DEF SignalEvent, Received, MainTypeOK, TableTypeOK, KernelTypeOK, ChildTypeOK,
     CommTypeOK, HandlingOK, EntriesOK, SlotsOK
<1>10. CASE SigChld
  BY <1>10, SMTT(60) DEF SigChld, MainTypeOK, TableTypeOK, KernelTypeOK, ChildTypeOK,
     CommTypeOK, HandlingOK, EntriesOK, SlotsOK
<1>11. ASSUME NEW c \in Conn, Reap(c) PROVE Shape'
  <2>1. MainTypeOK'
    BY <1>11 DEF Reap, ReapedPid, MainTypeOK, TableTypeOK, KernelTypeOK
  <2>2. TableTypeOK'
    BY <1>11 DEF Reap, ReapedPid, TableTypeOK, SlotsOK, EntriesOK, MainTypeOK
  <2>3. KernelTypeOK'
    BY <1>11 DEF Reap, ReapedPid, KernelTypeOK
  <2>4. ChildTypeOK'
    BY <1>11 DEF Reap, ReapedPid, ChildTypeOK, TableTypeOK
  <2>5. CommTypeOK'
    BY <1>11 DEF Reap, ReapedPid, CommTypeOK, ChildTypeOK, SlotsOK
  <2>6. HandlingOK'
    BY <1>11 DEF Reap, ReapedPid, HandlingOK
  <2>7. EntriesOK'
    BY <1>11 DEF Reap, ReapedPid, EntriesOK, MainTypeOK, TableTypeOK, SlotsOK
  <2>8. SlotsOK'
    BY <1>11 DEF Reap, ReapedPid, SlotsOK, ChildTypeOK, TableTypeOK, KernelTypeOK
  <2>9. QED
    BY <2>1, <2>2, <2>3, <2>4, <2>5, <2>6, <2>7, <2>8
<1>12. CASE ReapDone
  BY <1>12, SMTT(60) DEF ReapDone, LastChildGone, MainTypeOK, TableTypeOK, KernelTypeOK, ChildTypeOK,
     CommTypeOK, HandlingOK, EntriesOK, SlotsOK
<1>13. CASE SigTermIdle
  BY <1>13, SMTT(60) DEF SigTermIdle, MainTypeOK, TableTypeOK, KernelTypeOK, ChildTypeOK,
     CommTypeOK, HandlingOK, EntriesOK, SlotsOK
<1>14. CASE SigTermKill
  BY <1>14, SMTT(60) DEF SigTermKill, LastUser, MainTypeOK, TableTypeOK, KernelTypeOK, ChildTypeOK,
     CommTypeOK, HandlingOK, EntriesOK, SlotsOK
<1>15. CASE KillFail
  BY <1>15, SMTT(60) DEF KillFail, MainTypeOK, TableTypeOK, KernelTypeOK, ChildTypeOK,
     CommTypeOK, HandlingOK, EntriesOK, SlotsOK
<1>16. CASE Kill
  <2>0. users[killIdx] \in Conn /\ killIdx \in 0 .. userCount - 1
    BY <1>16 DEF Kill, EntriesOK, MainTypeOK, TableTypeOK
  <2>1. MainTypeOK'
    BY <1>16 DEF Kill, Alive, MainTypeOK, TableTypeOK, KernelTypeOK
  <2>2. TableTypeOK'
    BY <1>16 DEF Kill, Alive, TableTypeOK, SlotsOK, EntriesOK, MainTypeOK
  <2>3. KernelTypeOK'
    <3>1. pendTerm' \in [Conn -> BOOLEAN]
      <4>1. pendTerm' = [pendTerm EXCEPT ![users[killIdx]] = Alive(users[killIdx])]
        BY <1>16 DEF Kill
      <4>2. Alive(users[killIdx]) \in BOOLEAN
        BY DEF Alive
      <4>3. pendTerm \in [Conn -> BOOLEAN]
        BY DEF KernelTypeOK
      <4>4. QED
        BY <4>1, <4>2, <4>3, <2>0, BooleanExcept
    <3>2. interest' \subseteq Fds /\ ready' \subseteq interest'
      BY <1>16, <2>0 DEF Kill, KernelTypeOK
    <3>3. QED
      BY <1>16, <3>1, <3>2 DEF Kill, KernelTypeOK
  <2>4. ChildTypeOK'
    BY <1>16 DEF Kill, Alive, ChildTypeOK, TableTypeOK
  <2>5. CommTypeOK'
    BY <1>16 DEF Kill, Alive, CommTypeOK, ChildTypeOK, SlotsOK
  <2>6. HandlingOK'
    BY <1>16 DEF Kill, Alive, HandlingOK
  <2>7. EntriesOK'
    BY <1>16 DEF Kill, Alive, EntriesOK, MainTypeOK, TableTypeOK
  <2>8. SlotsOK'
    BY <1>16, <2>0 DEF Kill, Alive, SlotsOK, TableTypeOK
  <2>9. QED
    BY <2>1, <2>2, <2>3, <2>4, <2>5, <2>6, <2>7, <2>8
<1>17. CASE KillDone
  BY <1>17, SMTT(60) DEF KillDone, MainTypeOK, TableTypeOK, KernelTypeOK, ChildTypeOK,
     CommTypeOK, HandlingOK, EntriesOK, SlotsOK
<1>18. CASE SignalsDone
  BY <1>18, SMTT(60) DEF SignalsDone, MainTypeOK, TableTypeOK, KernelTypeOK, ChildTypeOK,
     CommTypeOK, HandlingOK, EntriesOK, SlotsOK
<1>19. CASE BatchDone
  BY <1>19, SMTT(60) DEF BatchDone, MainTypeOK, TableTypeOK, KernelTypeOK, ChildTypeOK,
     CommTypeOK, HandlingOK, EntriesOK, SlotsOK
<1>20. ASSUME NEW c \in Conn, Detach(c) PROVE Shape'
  <2>1. MainTypeOK'
    BY <1>20, SMTT(60) DEF Detach, MainTypeOK, TableTypeOK, KernelTypeOK
  <2>2. TableTypeOK'
    BY <1>20 DEF Detach, TableTypeOK, SlotsOK, EntriesOK, MainTypeOK
  <2>3. KernelTypeOK'
    BY <1>20 DEF Detach, KernelTypeOK
  <2>4. ChildTypeOK'
    BY <1>20 DEF Detach, ChildTypeOK, TableTypeOK
  <2>5. CommTypeOK'
    BY <1>20 DEF Detach, CommTypeOK, ChildTypeOK, SlotsOK
  <2>6. HandlingOK'
    BY <1>20 DEF Detach, HandlingOK
  <2>7. EntriesOK'
    BY <1>20 DEF Detach, EntriesOK, MainTypeOK, TableTypeOK
  <2>8. SlotsOK'
    BY <1>20 DEF Detach, SlotsOK, ChildTypeOK, TableTypeOK, KernelTypeOK
  <2>9. QED
    BY <2>1, <2>2, <2>3, <2>4, <2>5, <2>6, <2>7, <2>8
<1>21. ASSUME NEW c \in Conn, Register(c) PROVE Shape'
  <2>1. MainTypeOK'
    BY <1>21, SMTT(60) DEF Register, MainTypeOK, TableTypeOK, KernelTypeOK
  <2>2. TableTypeOK'
    BY <1>21 DEF Register, TableTypeOK, SlotsOK, EntriesOK, MainTypeOK
  <2>3. KernelTypeOK'
    BY <1>21 DEF Register, KernelTypeOK
  <2>4. ChildTypeOK'
    BY <1>21 DEF Register, ChildTypeOK, TableTypeOK
  <2>5. CommTypeOK'
    BY <1>21 DEF Register, CommTypeOK, ChildTypeOK, SlotsOK
  <2>6. HandlingOK'
    BY <1>21 DEF Register, HandlingOK
  <2>7. EntriesOK'
    BY <1>21 DEF Register, EntriesOK, MainTypeOK, TableTypeOK
  <2>8. SlotsOK'
    BY <1>21 DEF Register, SlotsOK, ChildTypeOK, TableTypeOK, KernelTypeOK
  <2>9. QED
    BY <2>1, <2>2, <2>3, <2>4, <2>5, <2>6, <2>7, <2>8
<1>22. ASSUME NEW c \in Conn, ChildContinue(c) PROVE Shape'
  <2>1. MainTypeOK'
    BY <1>22, SMTT(60) DEF ChildContinue, MainTypeOK, TableTypeOK, KernelTypeOK
  <2>2. TableTypeOK'
    BY <1>22 DEF ChildContinue, TableTypeOK, SlotsOK, EntriesOK, MainTypeOK
  <2>3. KernelTypeOK'
    BY <1>22 DEF ChildContinue, KernelTypeOK
  <2>4. ChildTypeOK'
    BY <1>22 DEF ChildContinue, ChildTypeOK, TableTypeOK
  <2>5. CommTypeOK'
    BY <1>22 DEF ChildContinue, CommTypeOK, ChildTypeOK, SlotsOK
  <2>6. HandlingOK'
    BY <1>22 DEF ChildContinue, HandlingOK
  <2>7. EntriesOK'
    BY <1>22 DEF ChildContinue, EntriesOK, MainTypeOK, TableTypeOK
  <2>8. SlotsOK'
    BY <1>22 DEF ChildContinue, SlotsOK, ChildTypeOK, TableTypeOK, KernelTypeOK
  <2>9. QED
    BY <2>1, <2>2, <2>3, <2>4, <2>5, <2>6, <2>7, <2>8
<1>23. ASSUME NEW c \in Conn, ChildExit(c) PROVE Shape'
  <2>1. MainTypeOK'
    BY <1>23 DEF ChildExit, Edge, MainTypeOK, TableTypeOK, KernelTypeOK
  <2>2. TableTypeOK'
    BY <1>23 DEF ChildExit, Edge, TableTypeOK, SlotsOK, EntriesOK, MainTypeOK
  <2>3. KernelTypeOK'
    BY <1>23 DEF ChildExit, Edge, KernelTypeOK
  <2>4. ChildTypeOK'
    BY <1>23 DEF ChildExit, Edge, ChildTypeOK, TableTypeOK
  <2>5. CommTypeOK'
    BY <1>23 DEF ChildExit, Edge, CommTypeOK, ChildTypeOK, SlotsOK
  <2>6. HandlingOK'
    BY <1>23 DEF ChildExit, Edge, HandlingOK
  <2>7. EntriesOK'
    BY <1>23 DEF ChildExit, Edge, EntriesOK, MainTypeOK, TableTypeOK
  <2>8. SlotsOK'
    BY <1>23 DEF ChildExit, Edge, SlotsOK, ChildTypeOK, TableTypeOK, KernelTypeOK
  <2>9. QED
    BY <2>1, <2>2, <2>3, <2>4, <2>5, <2>6, <2>7, <2>8
<1>24. ASSUME NEW c \in Conn, ChildEpollWait(c) PROVE Shape'
  <2>1. MainTypeOK'
    BY <1>24, SMTT(60) DEF ChildEpollWait, MainTypeOK, TableTypeOK, KernelTypeOK
  <2>2. TableTypeOK'
    BY <1>24 DEF ChildEpollWait, TableTypeOK, SlotsOK, EntriesOK, MainTypeOK
  <2>3. KernelTypeOK'
    BY <1>24 DEF ChildEpollWait, KernelTypeOK
  <2>4. ChildTypeOK'
    <3>1. {e \in cready[c] : ChildReadable(c, e)} \in SUBSET {"conn", "pipe"}
      BY DEF ChildTypeOK
    <3>2. cevents' \in [Conn -> SUBSET {"conn", "pipe"}]
      BY <1>24, <3>1 DEF ChildEpollWait, ChildTypeOK
    <3>3. cready' \in [Conn -> SUBSET {"conn", "pipe"}] /\ cpc' \in [Conn -> ChildPc]
      BY <1>24 DEF ChildEpollWait, ChildTypeOK
    <3>4. QED
      BY <1>24, <3>2, <3>3 DEF ChildEpollWait, ChildTypeOK
  <2>5. CommTypeOK'
    BY <1>24 DEF ChildEpollWait, CommTypeOK, ChildTypeOK, SlotsOK
  <2>6. HandlingOK'
    BY <1>24 DEF ChildEpollWait, HandlingOK
  <2>7. EntriesOK'
    BY <1>24 DEF ChildEpollWait, EntriesOK, MainTypeOK, TableTypeOK
  <2>8. SlotsOK'
    BY <1>24 DEF ChildEpollWait, SlotsOK, ChildTypeOK, TableTypeOK, KernelTypeOK
  <2>9. QED
    BY <2>1, <2>2, <2>3, <2>4, <2>5, <2>6, <2>7, <2>8
<1>25. ASSUME NEW c \in Conn, RecvClient(c) PROVE Shape'
  <2>1. MainTypeOK'
    BY <1>25 DEF RecvClient, Edge, MainTypeOK, TableTypeOK, KernelTypeOK
  <2>2. TableTypeOK'
    BY <1>25 DEF RecvClient, Edge, TableTypeOK, SlotsOK, EntriesOK, MainTypeOK
  <2>3. KernelTypeOK'
    BY <1>25 DEF RecvClient, Edge, KernelTypeOK
  <2>4. ChildTypeOK'
    BY <1>25 DEF RecvClient, Edge, ChildTypeOK, TableTypeOK
  <2>5. CommTypeOK'
    <3>1. slot[c] \in Slots
      BY <1>25 DEF RecvClient, ChildTypeOK, SlotsOK
    <3>2. shm' \in [Slots -> Conn \cup {NoConn}] /\ unread' \in [Conn -> BOOLEAN]
      BY <1>25, <3>1 DEF RecvClient, CommTypeOK
    <3>3. Append(pipeUp[c], slot[c]) \in Seq(Slots)
      BY <3>1 DEF CommTypeOK
    <3>4. pipeUp' \in [Conn -> Seq(Slots)]
      BY <1>25, <3>3 DEF RecvClient, CommTypeOK
    <3>5. QED
      BY <1>25, <3>2, <3>4 DEF RecvClient, CommTypeOK
  <2>6. HandlingOK'
    BY <1>25 DEF RecvClient, Edge, HandlingOK
  <2>7. EntriesOK'
    BY <1>25 DEF RecvClient, Edge, EntriesOK, MainTypeOK, TableTypeOK
  <2>8. SlotsOK'
    BY <1>25 DEF RecvClient, Edge, SlotsOK, ChildTypeOK, TableTypeOK, KernelTypeOK
  <2>9. QED
    BY <2>1, <2>2, <2>3, <2>4, <2>5, <2>6, <2>7, <2>8
<1>26. ASSUME NEW c \in Conn, RecvNotice(c) PROVE Shape'
  <2>1. MainTypeOK'
    BY <1>26, SMTT(60) DEF RecvNotice, MainTypeOK, TableTypeOK, KernelTypeOK
  <2>2. TableTypeOK'
    BY <1>26 DEF RecvNotice, TableTypeOK, SlotsOK, EntriesOK, MainTypeOK
  <2>3. KernelTypeOK'
    BY <1>26 DEF RecvNotice, KernelTypeOK
  <2>4. ChildTypeOK'
    BY <1>26 DEF RecvNotice, ChildTypeOK, TableTypeOK
  <2>5. CommTypeOK'
    <3>1. pipeDown[c] # <<>> => Tail(pipeDown[c]) \in Seq(Slots)
      BY DEF CommTypeOK
    <3>2. pipeDown' \in [Conn -> Seq(Slots)]
      BY <1>26, <3>1 DEF RecvNotice, CommTypeOK
    <3>3. QED
      BY <1>26, <3>2 DEF RecvNotice, CommTypeOK
  <2>6. HandlingOK'
    BY <1>26 DEF RecvNotice, HandlingOK
  <2>7. EntriesOK'
    BY <1>26 DEF RecvNotice, EntriesOK, MainTypeOK, TableTypeOK
  <2>8. SlotsOK'
    BY <1>26 DEF RecvNotice, SlotsOK, ChildTypeOK, TableTypeOK, KernelTypeOK
  <2>9. QED
    BY <2>1, <2>2, <2>3, <2>4, <2>5, <2>6, <2>7, <2>8
<1>27. ASSUME NEW c \in Conn, ChildBatchDone(c) PROVE Shape'
  BY <1>27, SMTT(60) DEF ChildBatchDone, MainTypeOK, TableTypeOK, KernelTypeOK, ChildTypeOK,
     CommTypeOK, HandlingOK, EntriesOK, SlotsOK
<1>28. ASSUME NEW c \in Conn, TermForked(c) PROVE Shape'
  <2>1. MainTypeOK'
    BY <1>28 DEF TermForked, Edge, MainTypeOK, TableTypeOK, KernelTypeOK
  <2>2. TableTypeOK'
    BY <1>28 DEF TermForked, Edge, TableTypeOK, SlotsOK, EntriesOK, MainTypeOK
  <2>3. KernelTypeOK'
    BY <1>28 DEF TermForked, Edge, KernelTypeOK
  <2>4. ChildTypeOK'
    BY <1>28 DEF TermForked, Edge, ChildTypeOK, TableTypeOK
  <2>5. CommTypeOK'
    BY <1>28 DEF TermForked, Edge, CommTypeOK, ChildTypeOK, SlotsOK
  <2>6. HandlingOK'
    BY <1>28 DEF TermForked, Edge, HandlingOK
  <2>7. EntriesOK'
    BY <1>28 DEF TermForked, Edge, EntriesOK, MainTypeOK, TableTypeOK
  <2>8. SlotsOK'
    BY <1>28 DEF TermForked, Edge, SlotsOK, ChildTypeOK, TableTypeOK, KernelTypeOK
  <2>9. QED
    BY <2>1, <2>2, <2>3, <2>4, <2>5, <2>6, <2>7, <2>8
<1>29. ASSUME NEW c \in Conn, TermDetached(c) PROVE Shape'
  <2>1. MainTypeOK'
    BY <1>29, SMTT(60) DEF TermDetached, MainTypeOK, TableTypeOK, KernelTypeOK
  <2>2. TableTypeOK'
    BY <1>29 DEF TermDetached, TableTypeOK, SlotsOK, EntriesOK, MainTypeOK
  <2>3. KernelTypeOK'
    BY <1>29 DEF TermDetached, KernelTypeOK
  <2>4. ChildTypeOK'
    BY <1>29 DEF TermDetached, ChildTypeOK, TableTypeOK
  <2>5. CommTypeOK'
    BY <1>29 DEF TermDetached, CommTypeOK, ChildTypeOK, SlotsOK
  <2>6. HandlingOK'
    BY <1>29 DEF TermDetached, HandlingOK
  <2>7. EntriesOK'
    BY <1>29 DEF TermDetached, EntriesOK, MainTypeOK, TableTypeOK
  <2>8. SlotsOK'
    BY <1>29 DEF TermDetached, SlotsOK, ChildTypeOK, TableTypeOK, KernelTypeOK
  <2>9. QED
    BY <2>1, <2>2, <2>3, <2>4, <2>5, <2>6, <2>7, <2>8
<1>30. ASSUME NEW c \in Conn, TermFlag(c) PROVE Shape'
  <2>1. MainTypeOK'
    BY <1>30, SMTT(60) DEF TermFlag, MainTypeOK, TableTypeOK, KernelTypeOK
  <2>2. TableTypeOK'
    BY <1>30 DEF TermFlag, TableTypeOK, SlotsOK, EntriesOK, MainTypeOK
  <2>3. KernelTypeOK'
    BY <1>30 DEF TermFlag, KernelTypeOK
  <2>4. ChildTypeOK'
    BY <1>30 DEF TermFlag, ChildTypeOK, TableTypeOK
  <2>5. CommTypeOK'
    BY <1>30 DEF TermFlag, CommTypeOK, ChildTypeOK, SlotsOK
  <2>6. HandlingOK'
    BY <1>30 DEF TermFlag, HandlingOK
  <2>7. EntriesOK'
    BY <1>30 DEF TermFlag, EntriesOK, MainTypeOK, TableTypeOK
  <2>8. SlotsOK'
    BY <1>30 DEF TermFlag, SlotsOK, ChildTypeOK, TableTypeOK, KernelTypeOK
  <2>9. QED
    BY <2>1, <2>2, <2>3, <2>4, <2>5, <2>6, <2>7, <2>8
<1>31. ASSUME NEW c \in Conn, TermInterrupt(c) PROVE Shape'
  <2>1. MainTypeOK'
    BY <1>31, SMTT(60) DEF TermInterrupt, MainTypeOK, TableTypeOK, KernelTypeOK
  <2>2. TableTypeOK'
    BY <1>31 DEF TermInterrupt, TableTypeOK, SlotsOK, EntriesOK, MainTypeOK
  <2>3. KernelTypeOK'
    BY <1>31 DEF TermInterrupt, KernelTypeOK
  <2>4. ChildTypeOK'
    BY <1>31 DEF TermInterrupt, ChildTypeOK, TableTypeOK
  <2>5. CommTypeOK'
    BY <1>31 DEF TermInterrupt, CommTypeOK, ChildTypeOK, SlotsOK
  <2>6. HandlingOK'
    BY <1>31 DEF TermInterrupt, HandlingOK
  <2>7. EntriesOK'
    BY <1>31 DEF TermInterrupt, EntriesOK, MainTypeOK, TableTypeOK
  <2>8. SlotsOK'
    BY <1>31 DEF TermInterrupt, SlotsOK, ChildTypeOK, TableTypeOK, KernelTypeOK
  <2>9. QED
    BY <2>1, <2>2, <2>3, <2>4, <2>5, <2>6, <2>7, <2>8
<1>32. ASSUME NEW c \in Conn, Connect(c) PROVE Shape'
  <2>1. MainTypeOK'
    BY <1>32 DEF Connect, Edge, MainTypeOK, TableTypeOK, KernelTypeOK
  <2>2. TableTypeOK'
    BY <1>32 DEF Connect, Edge, TableTypeOK, SlotsOK, EntriesOK, MainTypeOK
  <2>3. KernelTypeOK'
    BY <1>32 DEF Connect, Edge, KernelTypeOK
  <2>4. ChildTypeOK'
    BY <1>32 DEF Connect, Edge, ChildTypeOK, TableTypeOK
  <2>5. CommTypeOK'
    BY <1>32 DEF Connect, Edge, CommTypeOK, ChildTypeOK, SlotsOK
  <2>6. HandlingOK'
    BY <1>32 DEF Connect, Edge, HandlingOK
  <2>7. EntriesOK'
    BY <1>32 DEF Connect, Edge, EntriesOK, MainTypeOK, TableTypeOK
  <2>8. SlotsOK'
    BY <1>32 DEF Connect, Edge, SlotsOK, ChildTypeOK, TableTypeOK, KernelTypeOK
  <2>9. QED
    BY <2>1, <2>2, <2>3, <2>4, <2>5, <2>6, <2>7, <2>8
<1>33. ASSUME NEW c \in Conn, ClientSend(c) PROVE Shape'
  BY <1>33, SMTT(60) DEF ClientSend, MainTypeOK, TableTypeOK, KernelTypeOK, ChildTypeOK,
     CommTypeOK, HandlingOK, EntriesOK, SlotsOK
<1>34. ASSUME NEW c \in Conn, NEW how \in Endings, ClientEnd(c, how) PROVE Shape'
  BY <1>34, SMTT(60) DEF ClientEnd, MainTypeOK, TableTypeOK, KernelTypeOK, ChildTypeOK,
     CommTypeOK, HandlingOK, EntriesOK, SlotsOK
<1>35. CASE UNCHANGED vars
  BY <1>35, SMTT(60) DEF vars, MainTypeOK, TableTypeOK, KernelTypeOK, ChildTypeOK,
     CommTypeOK, HandlingOK, EntriesOK, SlotsOK
<1>36. CASE EpollFail
  BY <1>36, SMTT(60) DEF EpollFail, MainTypeOK, TableTypeOK, KernelTypeOK, ChildTypeOK,
     CommTypeOK, HandlingOK, EntriesOK, SlotsOK
<1>37. ASSUME NEW c \in Conn, AcceptAbort(c) PROVE Shape'
  BY <1>37, SMTT(60) DEF AcceptAbort, Accept, MainTypeOK, TableTypeOK, KernelTypeOK, ChildTypeOK,
     CommTypeOK, HandlingOK, EntriesOK, SlotsOK
<1>38. QED
  BY <1>1, <1>2, <1>3, <1>4, <1>5, <1>6, <1>7, <1>8, <1>9, <1>10, <1>11, <1>12, <1>13, <1>14,
     <1>15, <1>16, <1>17, <1>18, <1>19, <1>20, <1>21, <1>22, <1>23, <1>24, <1>25, <1>26, <1>27,
     <1>28, <1>29, <1>30, <1>31, <1>32, <1>33, <1>34, <1>35, <1>36, <1>37
     DEF Next, Main, Child, Client, Deliver

\* The variables keep their types and the tables their basic shape.
THEOREM TypeCorrect == Spec => []TypeOK
<1>1. Spec => []Shape
  BY ShapeInit, ShapeStep, PTL DEF Spec
<1>2. Shape => TypeOK
  BY DEF Shape
<1>3. QED
  BY <1>1, <1>2, PTL

\* The types and the basic shape of the tables hold in every reachable state.
THEOREM ShapeHolds == Spec => []Shape
BY ShapeInit, ShapeStep, PTL DEF Spec

-----------------------------------------------------------------------------
(* The tables: which child has which slot.                                  *)

\* Until the kill loop begins every child ever forked is still in the tables,
\* because no exit is ever matched to its entry (ReapedPid is never its pid).
Registry ==
    ~Terminating =>
        /\ \A c \in Conn : slot[c] # -1 =>
               slot[c] < userCount /\ users[slot[c]] = c /\ processUser[c] = slot[c]
        /\ \A i \in 0 .. userCount - 1 : slot[users[i]] = i

\* In the first kill loop every live child was signalled or is still ahead.
KillProgress ==
    mpc = "kill" /\ ~terminate =>
        \A c \in Conn : Alive(c) =>
            \/ processUser[c] = -1
            \/ slot[c] \in 0 .. killIdx /\ users[slot[c]] = c

\* The body of the waitpid loop matches no entry: its pid is 1.
LEMMA ReapIgnored ==
    ASSUME TableTypeOK, SlotsOK, NEW c \in Conn, Reap(c)
    PROVE  UNCHANGED <<processUser, interest, ready, pipeUp, userCount, users>>
<1>1. processUser[PidOne] = -1
  BY DEF SlotsOK
<1>2. /\ processUser' = [processUser EXCEPT ![PidOne] = -1]
      /\ UNCHANGED <<interest, ready, pipeUp, userCount, users>>
  BY <1>1 DEF Reap, ReapedPid
<1>3. QED
  BY <1>1, <1>2 DEF TableTypeOK

\* With no user the tables agree.
LEMMA TablesInit == Init => Registry /\ KillProgress
BY DEF Init, Registry, KillProgress, Terminating

\* AcceptFork is the only step that adds an entry, no step before the kill loop
\* removes one, and the kill loop leaves no live child out behind it.
LEMMA TablesStep ==
    Shape /\ Registry /\ KillProgress /\ [Next]_vars => (Registry /\ KillProgress)'
<1> SUFFICES ASSUME Shape, Registry, KillProgress, [Next]_vars
             PROVE  (Registry /\ KillProgress)'
  OBVIOUS
<1> USE DEF Shape, TypeOK, MainTypeOK, TableTypeOK, ChildTypeOK, EntriesOK, SlotsOK,
            mainVars, tableVars, epollVars, sigVars, childVars, commVars, clientVars,
            budgetVars, Terminating, Alive
<1>1. ASSUME UNCHANGED <<terminate, killIdx, userCount, users, processUser, slot>>,
             mpc' = "kill" <=> mpc = "kill",
             \A c \in Conn : cpc'[c] \in Running => cpc[c] \in Running
      PROVE  (Registry /\ KillProgress)'
  BY <1>1 DEF Registry, KillProgress
<1>2. ASSUME NEW c \in Conn, AcceptFork(c) PROVE (Registry /\ KillProgress)'
  <2>0. cpc[c] = "queued" /\ mpc = "dispatch" /\ mpc' = mpc /\ ~(userCount >= UserLimit)
    BY <1>2 DEF AcceptFork, Accept, Full
  <2>1. slot[c] = -1 /\ userCount \in Slots /\ mpc' = "dispatch"
    <3>1. slot[c] = -1
      BY <2>0
    <3>2. userCount \in 0 .. UserLimit - 1
      BY <2>0
    <3>3. QED
      BY <2>0, <3>1, <3>2
  <2>2. slot' = [slot EXCEPT ![c] = userCount] /\ users' = [users EXCEPT ![userCount] = c]
        /\ processUser' = [processUser EXCEPT ![c] = userCount]
        /\ userCount' = userCount + 1 /\ terminate' = terminate /\ mpc = "dispatch"
    BY <1>2 DEF AcceptFork, Accept, RegisteredAs
  <2>3. Registry'
    BY <2>1, <2>2 DEF Registry
  <2>4. QED
    BY <2>1, <2>3 DEF KillProgress
<1>3. CASE SigTermKill
  BY <1>3 DEF SigTermKill, LastUser, Registry, KillProgress
<1>4. CASE KillFail
  <2>1. users[killIdx] \in Conn /\ killIdx \in 0 .. userCount - 1
    BY <1>4 DEF KillFail
  <2>2. QED
    BY <1>4, <2>1 DEF KillFail, Registry, KillProgress
<1>5. CASE Kill
  <2>1. users[killIdx] \in Conn /\ killIdx \in 0 .. userCount - 1
    BY <1>5 DEF Kill
  <2>2. mpc = "kill" /\ mpc' = "kill" /\ killIdx' = killIdx - 1
        /\ processUser' = [processUser EXCEPT ![users[killIdx]] = -1]
        /\ UNCHANGED <<terminate, users, slot, cpc>>
    BY <1>5 DEF Kill
  <2>3. QED
    BY <2>1, <2>2 DEF Registry, KillProgress
<1>6. CASE KillDone
  BY <1>6 DEF KillDone, Registry, KillProgress
<1>7. ASSUME NEW c \in Conn, Reap(c) PROVE (Registry /\ KillProgress)'
  <2>1. mpc = "reap" /\ mpc' = "reap" /\ processUser' = processUser
        /\ UNCHANGED <<terminate, userCount, users, slot, killIdx>>
    BY <1>7, ReapIgnored DEF Reap
  <2>2. QED
    BY <1>1, <1>7, <2>1 DEF Reap
<1>8. CASE (\E s \in {"CHLD", "TERM"} : Handler(s)) \/ RaiseTerm \/ EpollWait \/ EpollFail
           \/ AcceptFail
  BY <1>1, <1>8 DEF Handler, RaiseTerm, EpollWait, EpollFail, AcceptFail
<1>9. ASSUME NEW c \in Conn,
             AcceptRefuse(c) \/ AcceptAbort(c) \/ AcceptForkFail(c) \/ PipeEvent(c)
      PROVE  (Registry /\ KillProgress)'
  BY <1>1, <1>9 DEF AcceptRefuse, AcceptAbort, AcceptForkFail, Accept, PipeEvent
<1>10. CASE SignalEvent \/ SigChld \/ ReapDone \/ SigTermIdle \/ SignalsDone \/ BatchDone
  BY <1>1, <1>10 DEF SignalEvent, SigChld, ReapDone, SigTermIdle, SignalsDone, BatchDone
<1>11. ASSUME NEW c \in Conn, Detach(c) \/ Register(c) \/ ChildContinue(c) \/ ChildExit(c)
       PROVE  (Registry /\ KillProgress)'
  BY <1>1, <1>11 DEF Detach, Register, ChildContinue, ChildExit
<1>12. ASSUME NEW c \in Conn,
              ChildEpollWait(c) \/ RecvClient(c) \/ RecvNotice(c) \/ ChildBatchDone(c)
       PROVE  (Registry /\ KillProgress)'
  BY <1>1, <1>12 DEF ChildEpollWait, RecvClient, RecvNotice, ChildBatchDone
<1>13. ASSUME NEW c \in Conn,
              TermForked(c) \/ TermDetached(c) \/ TermFlag(c) \/ TermInterrupt(c)
       PROVE  (Registry /\ KillProgress)'
  BY <1>1, <1>13 DEF TermForked, TermDetached, TermFlag, TermInterrupt
<1>14. ASSUME NEW c \in Conn, Connect(c) \/ ClientSend(c)
       PROVE  (Registry /\ KillProgress)'
  BY <1>1, <1>14 DEF Connect, ClientSend
<1>15. ASSUME NEW c \in Conn, NEW how \in Endings, ClientEnd(c, how)
       PROVE  (Registry /\ KillProgress)'
  BY <1>1, <1>15 DEF ClientEnd
<1>16. CASE UNCHANGED vars
  BY <1>1, <1>16 DEF vars
<1>17. QED
  BY <1>2, <1>3, <1>4, <1>5, <1>6, <1>7, <1>8, <1>9, <1>10, <1>11, <1>12, <1>13, <1>14,
     <1>15, <1>16 DEF Next, Main, Child, Client, Deliver

\* Tables and kill loop are as Registry and KillProgress say in every reachable
\* state.
THEOREM TablesHold == Spec => [](Registry /\ KillProgress)
BY TablesInit, TablesStep, ShapeHolds, PTL DEF Spec

\* Until the kill loop begins live children write different segments.
THEOREM SingleWriter == Spec => []SegmentSingleWriter
<1>1. Shape /\ Registry => SegmentSingleWriter
  <2> SUFFICES ASSUME Shape, Registry, ~Terminating,
                      NEW c \in Conn, NEW d \in Conn, Alive(c), Alive(d), c # d
               PROVE  slot[c] # slot[d]
    BY DEF SegmentSingleWriter
  <2>1. slot[c] # -1 /\ slot[d] # -1
    BY DEF Shape, SlotsOK, Alive
  <2>2. users[slot[c]] = c /\ users[slot[d]] = d
    BY <2>1 DEF Registry
  <2>3. QED
    BY <2>2
<1>2. QED
  BY <1>1, ShapeHolds, TablesHold, PTL

\* users[] and process_user[] agree until the kill loop begins.
THEOREM RegistryConsistent == Spec => []RegistryAgrees
<1>1. Shape /\ Registry => RegistryAgrees
  <2> SUFFICES ASSUME Shape, Registry, ~Terminating, NEW i \in 0 .. userCount - 1
               PROVE  users[i] \in Conn /\ slot[users[i]] = i /\ processUser[users[i]] = i
    BY DEF RegistryAgrees
  <2>1. users[i] \in Conn /\ slot[users[i]] = i
    BY DEF Shape, EntriesOK, Registry
  <2>2. slot[users[i]] # -1
    BY <2>1 DEF Shape, TypeOK, TableTypeOK
  <2>3. QED
    BY <2>1, <2>2 DEF Registry
<1>2. QED
  BY <1>1, ShapeHolds, TablesHold, PTL

\* When terminate is first set, every live child has been sent SIGTERM.
THEOREM SigtermReaches == Spec => SigtermReachesEveryChild
<1>1. Shape /\ KillProgress /\ [Next]_vars
        => [~terminate /\ terminate' => \A c \in Conn : Alive(c) => processUser[c] = -1]_vars
  <2> SUFFICES ASSUME Shape, KillProgress, [Next]_vars, ~terminate, terminate'
               PROVE  \A c \in Conn : Alive(c) => processUser[c] = -1
    OBVIOUS
  <2>1. KillDone
    BY DEF Next, Main, Child, Client, Deliver, vars, mainVars, tableVars, epollVars, sigVars,
           childVars, commVars, clientVars, budgetVars, Handler, RaiseTerm, EpollWait,
           EpollFail, AcceptFail, AcceptRefuse, AcceptAbort, AcceptForkFail, AcceptFork,
           PipeEvent, SignalEvent,
           SigChld, Reap, ReapDone, SigTermIdle, SigTermKill, KillFail, Kill, SignalsDone,
           BatchDone, Detach, Register, ChildContinue, ChildExit, ChildEpollWait,
           RecvClient, RecvNotice, ChildBatchDone, TermForked, TermDetached, TermFlag,
           TermInterrupt, Connect, ClientSend, ClientEnd
  <2>2. mpc = "kill" /\ killIdx = -1
    BY <2>1 DEF KillDone
  <2>3. QED
    BY <2>2 DEF KillProgress
<1>2. QED
  BY <1>1, ShapeHolds, TablesHold, PTL DEF Spec, SigtermReachesEveryChild

-----------------------------------------------------------------------------
(* Signals: no byte is stuck in the pipe and no zombie is forgotten.        *)

\* Between two signal events nothing is left in signals[], and epoll_wait is
\* called when every event has been dispatched.
SigsEmpty ==
    /\ mpc \in {"epoll_wait", "dispatch", "stopped"} => sigs = <<>>
    /\ mpc = "epoll_wait" => batch = {}

SignalsInv == SigsEmpty /\ SignalNotStuck /\ ZombieNotForgotten

\* What Append does to membership: nothing is lost and the new element is in.
LEMMA InSeqAppend ==
    ASSUME NEW S, NEW s \in Seq(S), NEW x, NEW y \in S
    PROVE  /\ InSeq(x, s) => InSeq(x, Append(s, y))
           /\ InSeq(y, Append(s, y))
           /\ Append(s, y) # <<>>
BY DEF InSeq

\* Tail loses nothing but the head.
LEMMA InSeqTail ==
    ASSUME NEW S, NEW s \in Seq(S), NEW x, InSeq(x, s), Head(s) # x
    PROVE  InSeq(x, Tail(s))
<1>1. PICK i \in DOMAIN s : s[i] = x
  BY DEF InSeq
<1>2. i \in 1 .. Len(s) /\ i # 1 /\ s # <<>>
  BY <1>1
<1>3. i - 1 \in DOMAIN Tail(s) /\ Tail(s)[i - 1] = x
  BY <1>1, <1>2
<1>4. QED
  BY <1>3 DEF InSeq

\* At the start no signal is on its way.
LEMMA SignalsInit == Init => SignalsInv
BY DEF Init, SignalsInv, SigsEmpty, SignalNotStuck, ZombieNotForgotten

\* Every step keeps each byte announced and each zombie remembered: a SIGCHLD
\* leaves sigs only when waitpid has found no zombie left.
LEMMA SignalsStep == Shape /\ SignalsInv /\ [Next]_vars => SignalsInv'
<1> SUFFICES ASSUME Shape, SignalsInv, [Next]_vars PROVE SignalsInv'
  OBVIOUS
<1> USE DEF Shape, TypeOK, MainTypeOK, KernelTypeOK, HandlingOK, SlotsOK, mainVars,
            tableVars, epollVars, sigVars, childVars, commVars, clientVars, budgetVars,
            SignalsInv
<1>0. signalPipe \in Seq({"CHLD", "TERM"}) /\ sigs \in Seq({"CHLD", "TERM"})
      /\ "signal" \in interest /\ "signal" \notin Conn
  OBVIOUS
\* Steps that touch neither the signals nor mpc, and leave no new zombie.
<1>1. ASSUME UNCHANGED <<mpc, sigs, signalPipe>>, pendSig \subseteq pendSig',
             "signal" \in ready => "signal" \in ready',
             "signal" \in batch => "signal" \in batch', batch' \subseteq batch,
             \A c \in Conn : cpc'[c] = "zombie" => cpc[c] = "zombie"
      PROVE  SignalsInv'
  BY <1>1 DEF SigsEmpty, SignalNotStuck, ZombieNotForgotten
<1>2. ASSUME NEW s \in {"CHLD", "TERM"}, Handler(s) PROVE SignalsInv'
  <2>1. signalPipe' = Append(signalPipe, s) /\ pendSig' = pendSig \ {s}
        /\ "signal" \in ready' /\ UNCHANGED <<mpc, batch, sigs, cpc>>
    BY <1>2, <1>0 DEF Handler, Edge
  <2>2. QED
    BY <2>1, <1>0, InSeqAppend DEF SigsEmpty, SignalNotStuck, ZombieNotForgotten
<1>3. CASE EpollWait
  <2>1. "signal" \in ready /\ signalPipe # <<>> => "signal" \in batch'
    BY <1>3 DEF EpollWait, Readable
  <2>2. mpc = "epoll_wait" /\ mpc' = "dispatch"
        /\ UNCHANGED <<sigs, signalPipe, pendSig, cpc>>
    BY <1>3 DEF EpollWait
  <2>3. QED
    BY <2>1, <2>2 DEF SigsEmpty, SignalNotStuck, ZombieNotForgotten
<1>4. CASE RaiseTerm \/ AcceptFail
  BY <1>1, <1>4 DEF RaiseTerm, AcceptFail
<1>5. ASSUME NEW c \in Conn,
             AcceptRefuse(c) \/ AcceptForkFail(c) \/ AcceptFork(c) \/ PipeEvent(c)
      PROVE  SignalsInv'
  BY <1>0, <1>1, <1>5 DEF AcceptRefuse, AcceptForkFail, AcceptFork, Accept, PipeEvent,
                          ChildTypeOK
<1>6. CASE SignalEvent
  <2>1. /\ mpc = "dispatch" /\ mpc' = "signals" /\ sigs' = signalPipe
        /\ signalPipe' = SubSeq(signalPipe, Len(signalPipe) + 1, Len(signalPipe))
        /\ UNCHANGED <<pendSig, cpc>>
    BY <1>6 DEF SignalEvent, Received
  <2>2. signalPipe' = <<>>
    BY <1>0, <2>1
  <2>3. ~InSeq("CHLD", sigs)
    BY <2>1 DEF SigsEmpty, InSeq
  <2>4. QED
    BY <2>1, <2>2, <2>3 DEF SigsEmpty, SignalNotStuck, ZombieNotForgotten
<1>7. CASE SigChld \/ SigTermKill
  BY <1>7 DEF SigChld, SigTermKill, SigsEmpty, SignalNotStuck, ZombieNotForgotten
<1>8. ASSUME NEW c \in Conn, Reap(c) PROVE SignalsInv'
  <2>1. UNCHANGED <<ready, batch, mpc, sigs, signalPipe, pendSig>>
    BY <1>8, ReapIgnored DEF Reap
  <2>2. \A d \in Conn : cpc'[d] = "zombie" => cpc[d] = "zombie"
    BY <1>8 DEF Reap, ChildTypeOK
  <2>3. QED
    BY <1>1, <2>1, <2>2
<1>9. CASE ReapDone
  BY <1>9 DEF ReapDone, NoZombieLeft, SigsEmpty, SignalNotStuck, ZombieNotForgotten
<1>10. CASE SigTermIdle \/ KillDone
  <2>1. sigs # <<>> /\ Head(sigs) = "TERM" /\ sigs' = Tail(sigs) /\ mpc' = "signals"
        /\ mpc # "stopped" /\ UNCHANGED <<ready, batch, signalPipe, pendSig, cpc>>
    BY <1>10 DEF SigTermIdle, KillDone
  <2>2. InSeq("CHLD", sigs) => InSeq("CHLD", sigs')
    BY <1>0, <2>1, InSeqTail
  <2>3. QED
    BY <2>1, <2>2 DEF SigsEmpty, SignalNotStuck, ZombieNotForgotten
<1>11. CASE KillFail
  BY <1>1, <1>11 DEF KillFail
<1>12. CASE Kill
  <2>1. users[killIdx] \in Conn
    BY <1>12 DEF Kill, EntriesOK, TableTypeOK
  <2>2. UNCHANGED <<batch, mpc, sigs, signalPipe, pendSig, cpc>>
        /\ ready' = ready \ {users[killIdx]}
    BY <1>12 DEF Kill
  <2>3. QED
    BY <1>0, <1>1, <2>1, <2>2
<1>13. CASE SignalsDone \/ BatchDone
  BY <1>13 DEF SignalsDone, BatchDone, SigsEmpty, SignalNotStuck, ZombieNotForgotten
<1>14. ASSUME NEW c \in Conn, Detach(c) \/ Register(c) \/ ChildContinue(c)
       PROVE  SignalsInv'
  BY <1>1, <1>14 DEF Detach, Register, ChildContinue, ChildTypeOK
<1>15. ASSUME NEW c \in Conn, ChildExit(c) PROVE SignalsInv'
  <2>1. "CHLD" \in pendSig' /\ ready \subseteq ready'
        /\ UNCHANGED <<mpc, sigs, signalPipe, batch>>
    BY <1>15 DEF ChildExit, Edge
  <2>2. QED
    BY <2>1 DEF SigsEmpty, SignalNotStuck, ZombieNotForgotten
<1>16. ASSUME NEW c \in Conn,
              ChildEpollWait(c) \/ RecvClient(c) \/ RecvNotice(c) \/ ChildBatchDone(c)
       PROVE  SignalsInv'
  BY <1>1, <1>16 DEF ChildEpollWait, RecvClient, Edge, RecvNotice, ChildBatchDone,
                     ChildTypeOK
<1>17. ASSUME NEW c \in Conn, TermForked(c) PROVE SignalsInv'
  <2>1. signalPipe' = Append(signalPipe, "TERM") /\ "signal" \in ready'
        /\ UNCHANGED <<mpc, batch, sigs, cpc, pendSig>>
    BY <1>17, <1>0 DEF TermForked, Edge
  <2>2. QED
    BY <2>1, <1>0, InSeqAppend DEF SigsEmpty, SignalNotStuck, ZombieNotForgotten
<1>18. ASSUME NEW c \in Conn, TermDetached(c) \/ TermFlag(c) \/ TermInterrupt(c)
       PROVE  SignalsInv'
  BY <1>1, <1>18 DEF TermDetached, TermFlag, TermInterrupt, ChildTypeOK
<1>19. ASSUME NEW c \in Conn, Connect(c) \/ ClientSend(c) PROVE SignalsInv'
  BY <1>1, <1>19 DEF Connect, Edge, ClientSend, ChildTypeOK
<1>20. ASSUME NEW c \in Conn, NEW how \in Endings, ClientEnd(c, how) PROVE SignalsInv'
  BY <1>1, <1>20 DEF ClientEnd
<1>21. CASE UNCHANGED vars
  BY <1>1, <1>21 DEF vars
<1>22. CASE EpollFail
  BY <1>22 DEF EpollFail, SigsEmpty, SignalNotStuck, ZombieNotForgotten
<1>23. ASSUME NEW c \in Conn, AcceptAbort(c) PROVE SignalsInv'
  BY <1>0, <1>23 DEF AcceptAbort, Accept, SigsEmpty, SignalNotStuck, ZombieNotForgotten,
                     ChildTypeOK
<1>24. QED
  BY <1>2, <1>3, <1>4, <1>5, <1>6, <1>7, <1>8, <1>9, <1>10, <1>11, <1>12, <1>13, <1>14,
     <1>15, <1>16, <1>17, <1>18, <1>19, <1>20, <1>21, <1>22, <1>23
     DEF Next, Main, Child, Client, Deliver

\* The signal invariant holds in every reachable state.
THEOREM SignalsHold == Spec => []SignalsInv
BY SignalsInit, SignalsStep, ShapeHolds, PTL DEF Spec

\* A byte in the signal pipe always has an event that will make main read it.
THEOREM SignalPipeWatched == Spec => []SignalNotStuck
<1>1. SignalsInv => SignalNotStuck
  BY DEF SignalsInv
<1>2. QED
  BY <1>1, SignalsHold, PTL

\* While main runs every zombie has a SIGCHLD on its way to the waitpid loop.
THEOREM ZombiesRemembered == Spec => []ZombieNotForgotten
<1>1. SignalsInv => ZombieNotForgotten
  BY DEF SignalsInv
<1>2. QED
  BY <1>1, SignalsHold, PTL

-----------------------------------------------------------------------------
(* Notices: what travels over the socketpairs.                              *)

\* The events a child holds: only while it dispatches, and "conn" only with
\* something to read.
EventsOK ==
    \A c \in Conn :
        /\ cpc[c] # "dispatch" => cevents[c] = {}
        /\ "conn" \in cevents[c] => unread[c] \/ peer[c] # "open"

\* A child announces its own slot, after its client has closed.
UpOK ==
    \A c \in Conn : \A i \in DOMAIN pipeUp[c] : pipeUp[c][i] = slot[c] /\ Gone(c)

NoticeInv == EventsOK /\ UpOK /\ NotificationsFromOthers

\* At the start nothing has been announced.
LEMMA NoticeInit == Init => NoticeInv
BY DEF Init, NoticeInv, EventsOK, UpOK, NotificationsFromOthers

\* Every step keeps notices those of clients that closed: a child announces on
\* recv = 0 only, and main passes a number on to all but its sender.
LEMMA NoticeStep == Shape /\ NoticeInv /\ [Next]_vars => NoticeInv'
<1> SUFFICES ASSUME Shape, NoticeInv, [Next]_vars PROVE NoticeInv'
  OBVIOUS
<1> USE DEF Shape, TypeOK, ChildTypeOK, CommTypeOK, SlotsOK, mainVars, tableVars,
            epollVars, sigVars, childVars, commVars, clientVars, budgetVars, NoticeInv
\* Steps that leave the notices alone.
<1>1. ASSUME UNCHANGED <<slot, pipeUp, pipeDown, peer>>, EventsOK' PROVE NoticeInv'
  BY <1>1 DEF UpOK, NotificationsFromOthers, Gone
<1>2. ASSUME UNCHANGED <<cpc, cevents, unread, peer>> PROVE EventsOK'
  BY <1>2 DEF EventsOK
<1>3. CASE (\E s \in {"CHLD", "TERM"} : Handler(s)) \/ RaiseTerm \/ EpollWait \/ EpollFail
           \/ AcceptFail
  BY <1>1, <1>2, <1>3 DEF Handler, RaiseTerm, EpollWait, EpollFail, AcceptFail
<1>4. CASE SignalEvent \/ SigChld \/ ReapDone \/ SigTermIdle \/ SigTermKill \/ KillFail
  BY <1>1, <1>2, <1>4 DEF SignalEvent, SigChld, ReapDone, SigTermIdle, SigTermKill, KillFail
<1>5. CASE Kill \/ KillDone \/ SignalsDone \/ BatchDone
  BY <1>1, <1>2, <1>5 DEF Kill, KillDone, SignalsDone, BatchDone
<1>6. ASSUME NEW c \in Conn, AcceptRefuse(c) \/ AcceptAbort(c) \/ AcceptForkFail(c)
      PROVE  NoticeInv'
  <2>1. EventsOK'
    BY <1>6 DEF AcceptRefuse, AcceptAbort, AcceptForkFail, Accept, EventsOK
  <2>2. QED
    BY <1>1, <1>6, <2>1 DEF AcceptRefuse, AcceptAbort, AcceptForkFail
<1>7. ASSUME NEW c \in Conn, AcceptFork(c) PROVE NoticeInv'
  <2>1. cpc[c] = "queued" /\ cpc' = [cpc EXCEPT ![c] = "forked"]
        /\ slot' = [slot EXCEPT ![c] = userCount]
        /\ UNCHANGED <<cevents, unread, peer, pipeUp, pipeDown>>
    BY <1>7 DEF AcceptFork, Accept
  <2>2. slot[c] = -1
    BY <2>1
  <2>3. EventsOK'
    BY <2>1 DEF EventsOK
  <2>4. UpOK'
    BY <2>1, <2>2 DEF UpOK, Gone
  <2>5. NotificationsFromOthers'
    <3>1. ASSUME NEW d \in Conn, NEW i \in DOMAIN pipeDown[d]
          PROVE  \E e \in Conn \ {d} : slot'[e] = pipeDown[d][i] /\ Gone(e)
      <4>1. PICK e \in Conn \ {d} : slot[e] = pipeDown[d][i] /\ Gone(e)
        BY DEF NotificationsFromOthers
      <4>2. pipeDown[d][i] \in Slots
        OBVIOUS
      <4>3. e # c
        BY <2>2, <4>1, <4>2
      <4>4. QED
        BY <2>1, <4>1, <4>3
    <3>2. QED
      BY <2>1, <3>1 DEF NotificationsFromOthers, Gone
  <2>6. QED
    BY <2>3, <2>4, <2>5
<1>8. ASSUME NEW c \in Conn, PipeEvent(c) PROVE NoticeInv'
  <2>1. UNCHANGED <<cpc, cevents, unread, peer, slot>>
    BY <1>8 DEF PipeEvent
  <2>2. CASE pipeUp[c] = <<>>
    BY <1>1, <1>2, <1>8, <2>1, <2>2 DEF PipeEvent
  <2>3. CASE pipeUp[c] # <<>>
    <3>1. /\ pipeUp' = [pipeUp EXCEPT ![c] = Tail(pipeUp[c])]
          /\ pipeDown' = [d \in Conn |->
                 IF d \in Receivers(c) /\ Alive(d)
                 THEN Append(pipeDown[d], Head(pipeUp[c])) ELSE pipeDown[d]]
      BY <1>8, <2>3 DEF PipeEvent
    <3>2. Head(pipeUp[c]) = slot[c] /\ Gone(c)
      BY <2>3 DEF UpOK
    <3>3. UpOK'
      <4>1. ASSUME NEW i \in DOMAIN Tail(pipeUp[c])
            PROVE  Tail(pipeUp[c])[i] = slot[c] /\ Gone(c)
        BY <2>3 DEF UpOK
      <4>2. QED
        BY <2>1, <3>1, <4>1 DEF UpOK, Gone
    <3>4. NotificationsFromOthers'
      <4>1. ASSUME NEW d \in Conn, NEW i \in DOMAIN pipeDown'[d]
            PROVE  \E e \in Conn \ {d} : slot[e] = pipeDown'[d][i] /\ Gone(e)
        <5>1. CASE pipeDown'[d] = pipeDown[d]
          BY <5>1 DEF NotificationsFromOthers
        <5>2. CASE d \in Receivers(c) /\ pipeDown'[d] = Append(pipeDown[d], Head(pipeUp[c]))
          <6>1. c # d
            BY <5>2 DEF Receivers
          <6>2. CASE i \in DOMAIN pipeDown[d]
            BY <5>2, <6>2 DEF NotificationsFromOthers
          <6>3. CASE i \notin DOMAIN pipeDown[d]
            BY <3>2, <5>2, <6>1, <6>3
          <6>4. QED
            BY <6>2, <6>3
        <5>3. QED
          BY <3>1, <5>1, <5>2
      <4>2. QED
        BY <2>1, <4>1 DEF NotificationsFromOthers, Gone
    <3>5. QED
      BY <1>2, <2>1, <3>3, <3>4
  <2>4. QED
    BY <2>2, <2>3
<1>9. ASSUME NEW c \in Conn, Reap(c) PROVE NoticeInv'
  <2>1. UNCHANGED <<slot, pipeUp, pipeDown, peer, cevents, unread>>
        /\ cpc' = [cpc EXCEPT ![c] = "reaped"] /\ cpc[c] = "zombie"
    BY <1>9, ReapIgnored DEF Reap
  <2>2. EventsOK'
    BY <2>1 DEF EventsOK
  <2>3. QED
    BY <1>1, <2>1, <2>2
<1>10. ASSUME NEW c \in Conn, Detach(c) \/ Register(c) \/ ChildContinue(c)
       PROVE  NoticeInv'
  <2>1. EventsOK'
    BY <1>10 DEF Detach, Register, ChildContinue, EventsOK
  <2>2. QED
    BY <1>1, <1>10, <2>1 DEF Detach, Register, ChildContinue
<1>11. ASSUME NEW c \in Conn, ChildExit(c) PROVE NoticeInv'
  <2>1. cpc[c] = "check" /\ cpc' = [cpc EXCEPT ![c] = "zombie"]
        /\ unread' = [unread EXCEPT ![c] = FALSE]
        /\ pipeDown' = [pipeDown EXCEPT ![c] = <<>>]
        /\ UNCHANGED <<slot, pipeUp, peer, cevents>>
    BY <1>11 DEF ChildExit
  <2>2. EventsOK'
    BY <2>1 DEF EventsOK
  <2>3. UpOK'
    BY <2>1 DEF UpOK, Gone
  <2>4. NotificationsFromOthers'
    BY <2>1 DEF NotificationsFromOthers, Gone
  <2>5. QED
    BY <2>2, <2>3, <2>4
<1>12. ASSUME NEW c \in Conn, ChildEpollWait(c) PROVE NoticeInv'
  <2>1. /\ cpc' = [cpc EXCEPT ![c] = "dispatch"]
        /\ cevents' = [cevents EXCEPT ![c] = {e \in cready[c] : ChildReadable(c, e)}]
        /\ UNCHANGED <<slot, pipeUp, pipeDown, peer, unread>>
    BY <1>12 DEF ChildEpollWait
  <2>2. "conn" \in cevents'[c] => unread[c] \/ peer[c] # "open"
    BY <2>1 DEF ChildReadable
  <2>3. EventsOK'
    BY <2>1, <2>2 DEF EventsOK
  <2>4. QED
    BY <1>1, <2>1, <2>3
<1>13. ASSUME NEW c \in Conn, RecvClient(c) PROVE NoticeInv'
  <2>1. /\ cpc[c] = "dispatch" /\ "conn" \in cevents[c]
        /\ cevents' = [cevents EXCEPT ![c] = cevents[c] \ {"conn"}]
        /\ unread' = [unread EXCEPT ![c] = FALSE]
        /\ UNCHANGED <<cpc, slot, pipeDown, peer>>
    BY <1>13 DEF RecvClient
  <2>2. EventsOK'
    BY <2>1 DEF EventsOK
  <2>3. CASE StopsOn(RecvResult(c))
    BY <1>1, <1>13, <2>1, <2>2, <2>3 DEF RecvClient
  <2>4. CASE ~StopsOn(RecvResult(c))
    <3>1. Gone(c)
      BY <2>1, <2>4 DEF StopsOn, RecvResult, EventsOK, Gone
    <3>2. pipeUp' = [pipeUp EXCEPT ![c] = Append(pipeUp[c], slot[c])]
      BY <1>13, <2>4 DEF RecvClient
    <3>3. UpOK'
      BY <2>1, <3>1, <3>2 DEF UpOK, Gone
    <3>4. QED
      BY <2>1, <2>2, <3>3 DEF NotificationsFromOthers, Gone
  <2>5. QED
    BY <2>3, <2>4
<1>14. ASSUME NEW c \in Conn, RecvNotice(c) PROVE NoticeInv'
  <2>1. /\ cevents' = [cevents EXCEPT ![c] = cevents[c] \ {"pipe"}]
        /\ pipeDown' = [pipeDown EXCEPT ![c] =
                            IF pipeDown[c] = <<>> THEN pipeDown[c] ELSE Tail(pipeDown[c])]
        /\ UNCHANGED <<cpc, slot, pipeUp, unread, peer>>
    BY <1>14 DEF RecvNotice
  <2>2. EventsOK'
    BY <2>1 DEF EventsOK
  <2>3. UpOK'
    BY <2>1 DEF UpOK, Gone
  <2>4. ASSUME NEW d \in Conn, NEW i \in DOMAIN pipeDown'[d]
        PROVE  \E e \in Conn \ {d} : slot[e] = pipeDown'[d][i] /\ Gone(e)
    <3>1. CASE pipeDown'[d] = pipeDown[d]
      BY <3>1 DEF NotificationsFromOthers
    <3>2. CASE pipeDown[d] # <<>> /\ pipeDown'[d] = Tail(pipeDown[d])
      <4>1. i + 1 \in DOMAIN pipeDown[d] /\ pipeDown'[d][i] = pipeDown[d][i + 1]
        BY <3>2
      <4>2. QED
        BY <4>1 DEF NotificationsFromOthers
    <3>3. QED
      BY <2>1, <3>1, <3>2
  <2>5. NotificationsFromOthers'
    BY <2>1, <2>4 DEF NotificationsFromOthers, Gone
  <2>6. QED
    BY <2>2, <2>3, <2>5
<1>15. ASSUME NEW c \in Conn, ChildBatchDone(c) PROVE NoticeInv'
  <2>1. EventsOK'
    BY <1>15 DEF ChildBatchDone, EventsOK
  <2>2. QED
    BY <1>1, <1>15, <2>1 DEF ChildBatchDone
<1>16. ASSUME NEW c \in Conn, TermForked(c) \/ TermDetached(c) \/ TermFlag(c)
       PROVE  NoticeInv'
  BY <1>1, <1>2, <1>16 DEF TermForked, TermDetached, TermFlag
<1>17. ASSUME NEW c \in Conn, TermInterrupt(c) PROVE NoticeInv'
  <2>1. EventsOK'
    BY <1>17 DEF TermInterrupt, EventsOK
  <2>2. QED
    BY <1>1, <1>17, <2>1 DEF TermInterrupt
<1>18. ASSUME NEW c \in Conn, Connect(c) \/ ClientSend(c) PROVE NoticeInv'
  <2>1. EventsOK'
    BY <1>18 DEF Connect, ClientSend, EventsOK
  <2>2. QED
    BY <1>1, <1>18, <2>1 DEF Connect, ClientSend
<1>19. ASSUME NEW c \in Conn, NEW how \in Endings, ClientEnd(c, how) PROVE NoticeInv'
  <2>1. /\ how # "open" /\ peer' = [peer EXCEPT ![c] = how]
        /\ peer[c] = "open" \/ (Gone(c) /\ how = "finrst")
        /\ UNCHANGED <<cpc, slot, cevents, unread, pipeUp, pipeDown>>
    <3>1. how # "open" /\ (peer[c] = "open" \/ (Gone(c) /\ how = "finrst"))
      <4>1. \/ peer[c] = "open" /\ how \in {"fin", "rst"}
            \/ peer[c] = "fin" /\ how = "finrst"
        BY <1>19, Zenon DEF ClientEnd
      <4>2. QED
        BY <4>1 DEF Gone
    <3>2. peer' = [peer EXCEPT ![c] = how]
          /\ UNCHANGED <<cpc, slot, cevents, unread, pipeUp, pipeDown>>
      BY <1>19 DEF ClientEnd
    <3>3. QED
      BY <3>1, <3>2
  <2>2. \A d \in Conn : Gone(d) => peer'[d] \in {"fin", "finrst"}
    BY <2>1 DEF Gone
  <2>3. EventsOK'
    BY <2>1 DEF EventsOK
  <2>4. UpOK'
    BY <2>1, <2>2 DEF UpOK, Gone
  <2>5. NotificationsFromOthers'
    BY <2>1, <2>2 DEF NotificationsFromOthers, Gone
  <2>6. QED
    BY <2>3, <2>4, <2>5
<1>20. CASE UNCHANGED vars
  BY <1>1, <1>2, <1>20 DEF vars
<1>21. QED
  BY <1>3, <1>4, <1>5, <1>6, <1>7, <1>8, <1>9, <1>10, <1>11, <1>12, <1>13, <1>14,
     <1>15, <1>16, <1>17, <1>18, <1>19, <1>20
     DEF Next, Main, Child, Client, Deliver

\* The notice invariant holds in every reachable state.
THEOREM NoticesHold == Spec => []NoticeInv
BY NoticeInit, NoticeStep, ShapeHolds, PTL DEF Spec

\* A child is only told of the slot of another child whose client has closed.
THEOREM NoticesFromOthers == Spec => []NotificationsFromOthers
<1>1. NoticeInv => NotificationsFromOthers
  BY DEF NoticeInv
<1>2. QED
  BY <1>1, NoticesHold, PTL

-----------------------------------------------------------------------------
(* The segments that notices point to.                                      *)

\* Slot s belongs to a child that has read all its client sent before closing,
\* and the segment is blank.
Quiet(s) ==
    \E d \in Conn : slot[d] = s /\ Gone(d) /\ ~unread[d] /\ shm[s] = NoConn

\* Slot s is on its way over a socketpair.
Announced(s) == \E c \in Conn : InSeq(s, pipeUp[c]) \/ InSeq(s, pipeDown[c])

\* Until the kill loop begins only quiet slots are on their way.
QuietInv == ~Terminating => \A s \in Slots : Announced(s) => Quiet(s)

\* At the start nothing is on its way.
LEMMA QuietInit == Init => QuietInv
BY DEF Init, QuietInv, Announced, InSeq

\* A quiet slot stays quiet: its client sends nothing more, its child finds
\* nothing to read, and no other child writes its segment.
LEMMA QuietStays ==
    ASSUME Shape, Registry, [Next]_vars, ~Terminating, NEW s \in Slots, Quiet(s)
    PROVE  Quiet(s)'
<1> USE DEF Shape, TypeOK, ChildTypeOK, CommTypeOK, SlotsOK, mainVars, tableVars,
            epollVars, sigVars, childVars, commVars, clientVars, budgetVars
<1>1. PICK d \in Conn : slot[d] = s /\ Gone(d) /\ ~unread[d] /\ shm[s] = NoConn
  BY DEF Quiet
<1>2. ASSUME UNCHANGED <<slot, peer, unread, shm>> PROVE Quiet(s)'
  BY <1>1, <1>2 DEF Quiet, Gone
<1>3. CASE (\E k \in {"CHLD", "TERM"} : Handler(k)) \/ RaiseTerm
  BY <1>2, <1>3 DEF Handler, RaiseTerm
<1>4. CASE EpollWait \/ EpollFail \/ AcceptFail \/ SignalEvent \/ SigChld \/ ReapDone
           \/ SigTermIdle
  BY <1>2, <1>4 DEF EpollWait, EpollFail, AcceptFail, SignalEvent, SigChld, ReapDone, SigTermIdle
<1>5. CASE SigTermKill \/ KillFail \/ Kill \/ KillDone \/ SignalsDone \/ BatchDone
  BY <1>2, <1>5 DEF SigTermKill, KillFail, Kill, KillDone, SignalsDone, BatchDone
<1>6. ASSUME NEW c \in Conn,
             AcceptRefuse(c) \/ AcceptAbort(c) \/ AcceptForkFail(c) \/ PipeEvent(c) \/ Reap(c)
      PROVE  Quiet(s)'
  BY <1>2, <1>6 DEF AcceptRefuse, AcceptAbort, AcceptForkFail, PipeEvent, Reap
<1>7. ASSUME NEW c \in Conn, AcceptFork(c) PROVE Quiet(s)'
  <2>1. cpc[c] = "queued" /\ slot' = [slot EXCEPT ![c] = userCount]
        /\ UNCHANGED <<peer, unread, shm>>
    BY <1>7 DEF AcceptFork, Accept
  <2>2. slot[c] = -1
    BY <2>1
  <2>3. d # c
    BY <1>1, <2>2
  <2>4. QED
    BY <1>1, <2>1, <2>3 DEF Quiet, Gone
<1>8. ASSUME NEW c \in Conn, Detach(c) \/ Register(c) \/ ChildContinue(c)
      PROVE  Quiet(s)'
  BY <1>2, <1>8 DEF Detach, Register, ChildContinue
<1>9. ASSUME NEW c \in Conn, ChildExit(c) PROVE Quiet(s)'
  <2>1. unread' = [unread EXCEPT ![c] = FALSE] /\ UNCHANGED <<slot, peer, shm>>
    BY <1>9 DEF ChildExit
  <2>2. ~unread'[d]
    BY <1>1, <2>1
  <2>3. QED
    BY <1>1, <2>1, <2>2 DEF Quiet, Gone
<1>10. ASSUME NEW c \in Conn,
              ChildEpollWait(c) \/ RecvNotice(c) \/ ChildBatchDone(c)
       PROVE  Quiet(s)'
  BY <1>2, <1>10 DEF ChildEpollWait, RecvNotice, ChildBatchDone
<1>11. ASSUME NEW c \in Conn, RecvClient(c) PROVE Quiet(s)'
  <2>1. /\ cpc[c] = "dispatch"
        /\ shm' = [shm EXCEPT ![slot[c]] = IF RecvResult(c) > 0 THEN c ELSE NoConn]
        /\ unread' = [unread EXCEPT ![c] = FALSE]
        /\ UNCHANGED <<slot, peer>>
    BY <1>11 DEF RecvClient
  <2>2. ~unread'[d]
    BY <1>1, <2>1
  <2>3. shm'[s] = NoConn
    <3>1. CASE c = d
      <4>1. RecvResult(c) = 0
        BY <1>1, <3>1 DEF RecvResult, Gone
      <4>2. QED
        BY <1>1, <2>1, <4>1
    <3>2. CASE c # d
      <4>1. slot[c] # -1 /\ slot[d] # -1
        BY <1>1, <2>1
      <4>2. users[slot[c]] = c /\ users[slot[d]] = d
        BY <4>1 DEF Registry
      <4>3. slot[c] # s
        BY <1>1, <3>2, <4>2
      <4>4. QED
        BY <1>1, <2>1, <4>3
    <3>3. QED
      BY <3>1, <3>2
  <2>4. QED
    BY <1>1, <2>1, <2>2, <2>3 DEF Quiet, Gone
<1>12. ASSUME NEW c \in Conn,
              TermForked(c) \/ TermDetached(c) \/ TermFlag(c) \/ TermInterrupt(c)
       PROVE  Quiet(s)'
  BY <1>2, <1>12 DEF TermForked, TermDetached, TermFlag, TermInterrupt
<1>13. ASSUME NEW c \in Conn, Connect(c) PROVE Quiet(s)'
  BY <1>2, <1>13 DEF Connect
<1>14. ASSUME NEW c \in Conn, ClientSend(c) PROVE Quiet(s)'
  <2>1. peer[c] = "open" /\ unread' = [unread EXCEPT ![c] = TRUE]
        /\ UNCHANGED <<slot, peer, shm>>
    BY <1>14 DEF ClientSend
  <2>2. c # d
    BY <1>1, <2>1 DEF Gone
  <2>3. QED
    BY <1>1, <2>1, <2>2 DEF Quiet, Gone
<1>15. ASSUME NEW c \in Conn, NEW how \in Endings, ClientEnd(c, how) PROVE Quiet(s)'
  <2>1. \/ peer[c] = "open" /\ how \in {"fin", "rst"}
        \/ peer[c] = "fin" /\ how = "finrst"
    BY <1>15, Zenon DEF ClientEnd
  <2>2. peer' = [peer EXCEPT ![c] = how] /\ UNCHANGED <<slot, unread, shm>>
    BY <1>15 DEF ClientEnd
  <2>3. peer'[d] \in {"fin", "finrst"}
    BY <1>1, <2>1, <2>2 DEF Gone
  <2>4. QED
    BY <1>1, <2>2, <2>3 DEF Quiet, Gone
<1>16. CASE UNCHANGED vars
  BY <1>2, <1>16 DEF vars
<1>17. QED
  BY <1>3, <1>4, <1>5, <1>6, <1>7, <1>8, <1>9, <1>10, <1>11, <1>12, <1>13, <1>14,
     <1>15, <1>16 DEF Next, Main, Child, Client, Deliver

\* What Tail holds was there before.
LEMMA InSeqOfTail ==
    ASSUME NEW S, NEW s \in Seq(S), s # <<>>, NEW x, InSeq(x, Tail(s))
    PROVE  InSeq(x, s)
<1>1. PICK i \in DOMAIN Tail(s) : Tail(s)[i] = x
  BY DEF InSeq
<1>2. i + 1 \in DOMAIN s /\ s[i + 1] = x
  BY <1>1
<1>3. QED
  BY <1>2 DEF InSeq

\* What Append holds was there before or is the new element.
LEMMA InSeqOfAppend ==
    ASSUME NEW S, NEW s \in Seq(S), NEW y \in S, NEW x, InSeq(x, Append(s, y))
    PROVE  InSeq(x, s) \/ x = y
BY DEF InSeq

\* A slot that is on its way after a step was so before, or has just been
\* announced by a child whose client has closed.
LEMMA AnnouncedStep ==
    ASSUME Shape, NoticeInv, [Next]_vars, NEW s \in Slots, Announced(s)'
    PROVE  Announced(s) \/ Quiet(s)'
<1> USE DEF Shape, TypeOK, ChildTypeOK, CommTypeOK, mainVars, tableVars, epollVars,
            sigVars, childVars, commVars, clientVars, budgetVars
<1>1. ASSUME UNCHANGED <<pipeUp, pipeDown>> PROVE Announced(s)
  BY <1>1 DEF Announced
<1>2. CASE (\E k \in {"CHLD", "TERM"} : Handler(k)) \/ RaiseTerm
  BY <1>1, <1>2 DEF Handler, RaiseTerm
<1>3. CASE EpollWait \/ EpollFail \/ AcceptFail \/ SignalEvent \/ SigChld \/ ReapDone
           \/ SigTermIdle
  BY <1>1, <1>3 DEF EpollWait, EpollFail, AcceptFail, SignalEvent, SigChld, ReapDone, SigTermIdle
<1>4. CASE SigTermKill \/ KillFail \/ Kill \/ KillDone \/ SignalsDone \/ BatchDone
  BY <1>1, <1>4 DEF SigTermKill, KillFail, Kill, KillDone, SignalsDone, BatchDone
<1>5. ASSUME NEW c \in Conn,
             AcceptRefuse(c) \/ AcceptAbort(c) \/ AcceptForkFail(c) \/ AcceptFork(c)
      PROVE  Announced(s)
  BY <1>1, <1>5 DEF AcceptRefuse, AcceptAbort, AcceptForkFail, AcceptFork
<1>6. ASSUME NEW c \in Conn, PipeEvent(c) PROVE Announced(s)
  <2>1. CASE pipeUp[c] = <<>>
    BY <1>1, <1>6, <2>1 DEF PipeEvent
  <2>2. CASE pipeUp[c] # <<>>
    <3>1. /\ pipeUp' = [pipeUp EXCEPT ![c] = Tail(pipeUp[c])]
          /\ pipeDown' = [d \in Conn |->
                 IF d \in Receivers(c) /\ Alive(d)
                 THEN Append(pipeDown[d], Head(pipeUp[c])) ELSE pipeDown[d]]
      BY <1>6, <2>2 DEF PipeEvent
    <3>2. Head(pipeUp[c]) \in Slots /\ InSeq(Head(pipeUp[c]), pipeUp[c])
      BY <2>2 DEF InSeq
    <3>3. PICK d \in Conn : InSeq(s, pipeUp'[d]) \/ InSeq(s, pipeDown'[d])
      BY DEF Announced, InSeq
    <3>4. CASE InSeq(s, pipeUp'[d])
      BY <2>2, <3>1, <3>4, InSeqOfTail DEF Announced
    <3>5. CASE InSeq(s, pipeDown'[d])
      <4>1. CASE pipeDown'[d] = pipeDown[d]
        BY <3>5, <4>1 DEF Announced
      <4>2. CASE pipeDown'[d] = Append(pipeDown[d], Head(pipeUp[c]))
        <5>1. pipeDown[d] \in Seq(Slots)
          OBVIOUS
        <5>2. InSeq(s, pipeDown[d]) \/ s = Head(pipeUp[c])
          BY <3>2, <3>5, <4>2, <5>1, InSeqOfAppend
        <5>3. QED
          BY <3>2, <5>2 DEF Announced
      <4>3. QED
        BY <3>1, <4>1, <4>2
    <3>6. QED
      BY <3>3, <3>4, <3>5
  <2>3. QED
    BY <2>1, <2>2
<1>7. ASSUME NEW c \in Conn, Reap(c) PROVE Announced(s)
  BY <1>1, <1>7, ReapIgnored DEF Reap
<1>8. ASSUME NEW c \in Conn, Detach(c) \/ Register(c) \/ ChildContinue(c)
      PROVE  Announced(s)
  BY <1>1, <1>8 DEF Detach, Register, ChildContinue
<1>9. ASSUME NEW c \in Conn, ChildExit(c) PROVE Announced(s)
  <2>1. UNCHANGED pipeUp /\ pipeDown' = [pipeDown EXCEPT ![c] = <<>>]
    BY <1>9 DEF ChildExit
  <2>2. QED
    BY <2>1 DEF Announced, InSeq
<1>10. ASSUME NEW c \in Conn, ChildEpollWait(c) \/ ChildBatchDone(c) PROVE Announced(s)
  BY <1>1, <1>10 DEF ChildEpollWait, ChildBatchDone
<1>11. ASSUME NEW c \in Conn, RecvClient(c) PROVE Announced(s) \/ Quiet(s)'
  <2>1. /\ cpc[c] = "dispatch" /\ "conn" \in cevents[c]
        /\ shm' = [shm EXCEPT ![slot[c]] = IF RecvResult(c) > 0 THEN c ELSE NoConn]
        /\ unread' = [unread EXCEPT ![c] = FALSE]
        /\ UNCHANGED <<slot, pipeDown, peer>>
    BY <1>11 DEF RecvClient
  <2>2. CASE StopsOn(RecvResult(c))
    BY <1>1, <1>11, <2>1, <2>2 DEF RecvClient
  <2>3. CASE ~StopsOn(RecvResult(c))
    <3>1. pipeUp' = [pipeUp EXCEPT ![c] = Append(pipeUp[c], slot[c])]
      BY <1>11, <2>3 DEF RecvClient
    <3>2. Gone(c) /\ RecvResult(c) = 0
      BY <2>1, <2>3 DEF StopsOn, RecvResult, NoticeInv, EventsOK, Gone
    <3>3. slot[c] \in Slots
      BY <2>1 DEF SlotsOK
    <3>4. Quiet(slot[c])'
      BY <2>1, <3>2, <3>3 DEF Quiet, Gone
    <3>5. PICK d \in Conn : InSeq(s, pipeUp'[d]) \/ InSeq(s, pipeDown[d])
      BY <2>1 DEF Announced, InSeq
    <3>6. CASE InSeq(s, pipeUp'[d]) /\ d = c
      <4>1. InSeq(s, pipeUp[c]) \/ s = slot[c]
        BY <3>1, <3>3, <3>6, InSeqOfAppend
      <4>2. QED
        BY <2>1, <3>4, <4>1 DEF Announced
    <3>7. CASE InSeq(s, pipeDown[d]) \/ d # c
      BY <3>1, <3>5, <3>7 DEF Announced
    <3>8. QED
      BY <3>5, <3>6, <3>7
  <2>4. QED
    BY <2>2, <2>3
<1>12. ASSUME NEW c \in Conn, RecvNotice(c) PROVE Announced(s)
  <2>1. UNCHANGED pipeUp
        /\ pipeDown' = [pipeDown EXCEPT ![c] =
                            IF pipeDown[c] = <<>> THEN pipeDown[c] ELSE Tail(pipeDown[c])]
    BY <1>12 DEF RecvNotice
  <2>2. PICK d \in Conn : InSeq(s, pipeUp[d]) \/ InSeq(s, pipeDown'[d])
    BY <2>1 DEF Announced, InSeq
  <2>3. InSeq(s, pipeDown'[d]) => InSeq(s, pipeDown[d])
    BY <2>1, InSeqOfTail
  <2>4. QED
    BY <2>2, <2>3 DEF Announced
<1>13. ASSUME NEW c \in Conn,
              TermForked(c) \/ TermDetached(c) \/ TermFlag(c) \/ TermInterrupt(c)
       PROVE  Announced(s)
  BY <1>1, <1>13 DEF TermForked, TermDetached, TermFlag, TermInterrupt
<1>14. ASSUME NEW c \in Conn, Connect(c) \/ ClientSend(c) PROVE Announced(s)
  BY <1>1, <1>14 DEF Connect, ClientSend
<1>15. ASSUME NEW c \in Conn, NEW how \in Endings, ClientEnd(c, how) PROVE Announced(s)
  BY <1>1, <1>15 DEF ClientEnd
<1>16. CASE UNCHANGED vars
  BY <1>1, <1>16 DEF vars
<1>17. QED
  BY <1>2, <1>3, <1>4, <1>5, <1>6, <1>7, <1>8, <1>9, <1>10, <1>11, <1>12, <1>13,
     <1>14, <1>15, <1>16 DEF Next, Main, Child, Client, Deliver

\* Once the server is terminating it stays so.
LEMMA TerminatingStays == Shape /\ [Next]_vars /\ Terminating => Terminating'
<1> SUFFICES ASSUME Shape, [Next]_vars, Terminating PROVE Terminating'
  OBVIOUS
<1>. USE DEF mainVars, tableVars, epollVars, sigVars, childVars, commVars, clientVars, budgetVars
<1>1. ASSUME terminate' = terminate, mpc = "kill" => mpc' = "kill" PROVE Terminating'
  BY <1>1 DEF Terminating
<1>2. CASE KillDone
  BY <1>2 DEF KillDone, Terminating
<1>3. CASE Deliver \/ RaiseTerm \/ UNCHANGED vars
  BY <1>1, <1>3 DEF Deliver, Handler, RaiseTerm, vars
<1>4. CASE EpollWait \/ EpollFail \/ AcceptFail \/ SignalEvent \/ SigChld \/ ReapDone
           \/ SigTermIdle \/ SigTermKill \/ KillFail \/ Kill \/ SignalsDone \/ BatchDone
  BY <1>1, <1>4
     DEF EpollWait, EpollFail, AcceptFail, SignalEvent, SigChld, ReapDone, SigTermIdle,
         SigTermKill, KillFail, Kill, SignalsDone, BatchDone
<1>5. ASSUME NEW c \in Conn,
             AcceptRefuse(c) \/ AcceptAbort(c) \/ AcceptForkFail(c) \/ AcceptFork(c)
                 \/ PipeEvent(c) \/ Reap(c)
      PROVE  Terminating'
  BY <1>1, <1>5
     DEF AcceptRefuse, AcceptAbort, AcceptForkFail, AcceptFork, Accept, PipeEvent, Reap
<1>6. ASSUME NEW c \in Conn, Child(c) \/ Client(c) PROVE Terminating'
  BY <1>1, <1>6
     DEF Child, Detach, Register, ChildContinue, ChildExit, ChildEpollWait, RecvClient,
         RecvNotice, ChildBatchDone, TermForked, TermDetached, TermFlag, TermInterrupt,
         Client, Connect, ClientSend, ClientEnd
<1>. QED  BY <1>2, <1>3, <1>4, <1>5, <1>6 DEF Next, Main

\* Every step keeps the slots on their way quiet.
LEMMA QuietStep ==
    Shape /\ Registry /\ NoticeInv /\ QuietInv /\ [Next]_vars => QuietInv'
<1> SUFFICES ASSUME Shape, Registry, NoticeInv, QuietInv, [Next]_vars, ~Terminating',
                    NEW s \in Slots, Announced(s)'
             PROVE  Quiet(s)'
  BY DEF QuietInv
<1>1. ~Terminating
  BY TerminatingStays
<1>2. Announced(s) \/ Quiet(s)'
  BY AnnouncedStep
<1>3. Announced(s) => Quiet(s)
  BY <1>1 DEF QuietInv
<1>4. QED
  BY <1>1, <1>2, <1>3, QuietStays

\* Until the kill loop begins the segment a child is told to relay is blank.
THEOREM NoMessageRelayed == Spec => []RelayedSegmentBlank
<1>1. Spec => []QuietInv
  BY QuietInit, QuietStep, ShapeHolds, TablesHold, NoticesHold, PTL DEF Spec
<1>2. Shape /\ QuietInv => RelayedSegmentBlank
  <2> SUFFICES ASSUME Shape, QuietInv, ~Terminating, NEW c \in Conn,
                      NEW i \in DOMAIN pipeDown[c]
               PROVE  shm[pipeDown[c][i]] = NoConn
    BY DEF RelayedSegmentBlank
  <2>1. pipeDown[c][i] \in Slots /\ Announced(pipeDown[c][i])
    BY DEF Shape, TypeOK, CommTypeOK, Announced, InSeq
  <2>2. QED
    BY <2>1 DEF QuietInv, Quiet
<1>3. QED
  BY <1>1, <1>2, ShapeHolds, PTL
=============================================================================
