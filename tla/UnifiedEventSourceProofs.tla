----------------------- MODULE UnifiedEventSourceProofs -----------------------
(***************************************************************************)
(* Proofs about UnifiedEventSource, for every capacity of the socketpair up *)
(* to the size of the read buffer and for every number of signals and       *)
(* connections.                                                             *)
(***************************************************************************)
EXTENDS UnifiedEventSource, TLAPS

\* The array of events is only filled while main dispatches, or when the process
\* ended in the middle of it; a listen event means that a connection waits.
BatchInv ==
    /\ pc \in {"addsig", "epoll_wait", "failed"} => batch = {}
    /\ "listen" \in batch => queued > 0
    /\ queued + connsLeft <= MaxConn
    /\ pc = "addsig" => installed < 4

\* The descriptors of the loop are open until it ends, and the writing end is
\* closed before the reading end.
FdsInv ==
    /\ pc \in {"addsig", "epoll_wait", "failed", "dispatch"} =>
           openFds = {"listen", "write", "read"}
    /\ "write" \in openFds => "read" \in openFds

\* An interrupted epoll_wait leaves EINTR in errno until main looks at it.
ErrnoInv == pc = "failed" => errno = "EINTR"

Inv ==
    /\ TypeOK /\ BatchInv /\ FdsInv /\ ErrnoInv
    /\ LeavesOnlyOnInt /\ ByteHasEvent /\ NoBrokenPipe

-----------------------------------------------------------------------------
(* The socketpair.                                                          *)

\* The kinds of signals are the four that main installs a handler for.
LEMMA KindSet == Kind = {"HUP", "CHLD", "TERM", "INT"}
BY DEF Kind, Kinds

\* The send of the handler appends a byte that fits, keeps the type of what it
\* writes, announces the byte, and kills nobody while the reading end is open.
LEMMA SendEffect ==
    ASSUME Inv, NEW k \in Kind, NEW next, HandlerSends(k, next)
    PROVE  /\ pipe' \in Seq(Kind) /\ Len(pipe') <= PipeCap
           /\ ready' \subseteq {"listen", "signal", "client"}
           /\ ready \subseteq ready'
           /\ dropped' \subseteq Kind
           /\ pc' = next
           /\ pipe' = pipe \/ "signal" \in ready'
<1>1. pipe \in Seq(Kind) /\ Len(pipe) \in Nat
  BY DEF Inv, TypeOK
<1>2. CASE "write" \notin openFds
  BY <1>2 DEF HandlerSends, Inv, TypeOK
<1>3. CASE "write" \in openFds
  <2>1. "read" \in openFds
    BY <1>3 DEF Inv, FdsInv
  <2>2. CASE Fits
    <3>1. pipe' = Append(pipe, k) /\ ready' = ready \cup {"signal"} /\ UNCHANGED dropped
      BY <1>3, <2>1, <2>2 DEF HandlerSends
    <3>2. pc' = next
      BY <1>3, <2>1 DEF HandlerSends
    <3>3. Len(pipe') = Len(pipe) + 1 /\ pipe' \in Seq(Kind)
      BY <1>1, <3>1
    <3>4. Len(pipe') <= PipeCap
      BY <1>1, <2>2, <3>3, EventAssumption DEF Fits
    <3> QED
      BY <3>1, <3>2, <3>3, <3>4 DEF Inv, TypeOK
  <2>3. CASE ~Fits
    BY <1>3, <2>1, <2>3 DEF HandlerSends, Inv, TypeOK
  <2> QED
    BY <2>2, <2>3
<1> QED
  BY <1>2, <1>3

\* One recv empties the socketpair, since the kernel holds less than signals has
\* room for.
LEMMA RecvEmpties ==
    ASSUME Inv
    PROVE  SubSeq(pipe, Received + 1, Len(pipe)) = <<>>
<1>1. pipe \in Seq(Kind) /\ Len(pipe) \in Nat /\ Len(pipe) <= ReadSize
  BY EventAssumption DEF Inv, TypeOK
<1>2. Received = Len(pipe)
  BY <1>1, EventAssumption DEF Received
<1> QED
  BY <1>1, <1>2

-----------------------------------------------------------------------------
(* The invariant.                                                           *)

\* The invariant holds when the process starts.
LEMMA InvInit == Init => Inv
<1> SUFFICES ASSUME Init PROVE Inv
  OBVIOUS
<1>1. pipe \in Seq(Kind) /\ Len(pipe) <= PipeCap
  BY EventAssumption DEF Init
<1>2. /\ queued \in 0 .. MaxConn /\ connsLeft \in 0 .. MaxConn
      /\ sigsLeft \in 0 .. MaxSig /\ faultsLeft \in 0 .. MaxFault
  BY EventAssumption DEF Init
<1>4. stopServer \in BOOLEAN /\ unread \in BOOLEAN
  BY DEF Init
<1>5. /\ pc \in Ends \cup {"addsig", "epoll_wait", "failed", "dispatch", "close"}
      /\ errno \in {"none", "EINTR", "EAGAIN"} /\ installed \in 0 .. 4
  BY DEF Init
<1>6. /\ batch = {} /\ ready = {} /\ pend = {} /\ dropped = {}
      /\ openFds = {"listen", "write", "read"}
  BY DEF Init
<1>7. TypeOK
  BY <1>1, <1>2, <1>4, <1>5, <1>6 DEF TypeOK
<1>3. BatchInv
  BY EventAssumption DEF Init, BatchInv
<1> QED
  BY <1>3, <1>7
     DEF Init, Inv, FdsInv, ErrnoInv, LeavesOnlyOnInt, ByteHasEvent, NoBrokenPipe

\* Every delivery of a signal preserves the invariant.
LEMMA InvDeliver ==
    ASSUME Inv, NEW k \in Kind, DefaultAction(k) \/ SigHandler(k) \/ Interrupt(k)
    PROVE  Inv'
<1>1. CASE DefaultAction(k)
  BY <1>1
     DEF DefaultAction, Inv, TypeOK, BatchInv, FdsInv, ErrnoInv, LeavesOnlyOnInt,
         ByteHasEvent, NoBrokenPipe, Ends, Ended, connVars, budgetVars
<1>2. CASE SigHandler(k)
  <2>1. HandlerSends(k, pc)
    BY <1>2 DEF SigHandler
  <2>2. /\ pipe' \in Seq(Kind) /\ Len(pipe') <= PipeCap
        /\ ready' \subseteq {"listen", "signal", "client"}
        /\ ready \subseteq ready'
        /\ dropped' \subseteq Kind
        /\ pc' = pc
        /\ pipe' = pipe \/ "signal" \in ready'
    BY <2>1, SendEffect
  <2> QED
    BY <1>2, <2>2
       DEF SigHandler, ErrnoBehind, Inv, TypeOK, BatchInv, FdsInv, ErrnoInv,
           LeavesOnlyOnInt, ByteHasEvent, NoBrokenPipe, Ends, Ended, connVars, budgetVars
<1>3. CASE Interrupt(k)
  <2>1. HandlerSends(k, "failed")
    BY <1>3 DEF Interrupt
  <2>2. /\ pipe' \in Seq(Kind) /\ Len(pipe') <= PipeCap
        /\ ready' \subseteq {"listen", "signal", "client"}
        /\ ready \subseteq ready'
        /\ dropped' \subseteq Kind
        /\ pc' = "failed"
        /\ pipe' = pipe \/ "signal" \in ready'
    BY <2>1, SendEffect
  <2> QED
    BY <1>3, <2>2
       DEF Interrupt, Inv, TypeOK, BatchInv, FdsInv, ErrnoInv, LeavesOnlyOnInt,
           ByteHasEvent, NoBrokenPipe, Ends, Ended, connVars, budgetVars
<1> QED
  BY <1>1, <1>2, <1>3

\* Every step of main preserves the invariant.
LEMMA InvMain ==
    ASSUME Inv, Main
    PROVE  Inv'
<1> USE DEF Inv, TypeOK, BatchInv, FdsInv, ErrnoInv, LeavesOnlyOnInt, ByteHasEvent,
            NoBrokenPipe, Ends, Ended
<1>1. CASE AddSig
  BY <1>1 DEF AddSig, Kinds, sigVars, connVars, budgetVars
<1>2. CASE EpollWait
  <2>1. pipe # <<>> /\ "signal" \in ready => "signal" \in batch'
    BY <1>2 DEF EpollWait, Readable
  <2>2. "listen" \in batch' => queued > 0
    BY <1>2 DEF EpollWait, Readable
  <2> QED
    BY <1>2, <2>1, <2>2 DEF EpollWait, connVars, budgetVars
<1>3. CASE EpollFailed
  BY <1>3 DEF EpollFailed, sigVars, connVars, budgetVars
<1>4. CASE AcceptEvent
  BY <1>4, EventAssumption DEF AcceptEvent, Accepted, sigVars, budgetVars
<1>5. CASE AcceptAbort
  BY <1>5, EventAssumption DEF AcceptAbort, sigVars, connVars
<1>6. CASE SignalEvent
  <2>1. pipe' = <<>>
    BY <1>6, RecvEmpties DEF SignalEvent
  <2>2. pipe' \in Seq(Kind) /\ Len(pipe') <= PipeCap
    BY <2>1, EventAssumption
  <2>3. stopServer' \in BOOLEAN /\ (stopServer => stopServer')
    BY <1>6 DEF SignalEvent
  <2> QED
    BY <1>6, <2>1, <2>2, <2>3 DEF SignalEvent, connVars, budgetVars
<1>7. CASE ClientEvent
  BY <1>7 DEF ClientEvent, sigVars, connVars, budgetVars
<1>8. CASE BatchDone
  BY <1>8 DEF BatchDone, sigVars, connVars, budgetVars
<1>9. CASE CloseFd
  BY <1>9 DEF CloseFd, ClosedNext, sigVars, connVars, budgetVars
<1> QED
  BY <1>1, <1>2, <1>3, <1>4, <1>5, <1>6, <1>7, <1>8, <1>9 DEF Main

\* Every step of the program and of its surroundings preserves the invariant.
LEMMA InvStep == Inv /\ [Next]_vars => Inv'
<1> SUFFICES ASSUME Inv, [Next]_vars PROVE Inv'
  OBVIOUS
<1> USE DEF Inv, TypeOK, BatchInv, FdsInv, ErrnoInv, LeavesOnlyOnInt, ByteHasEvent,
            NoBrokenPipe, Ends, Ended
<1>1. ASSUME NEW k \in Kind, Raise(k) PROVE Inv'
  BY <1>1, EventAssumption DEF Raise, mainVars, connVars
<1>2. CASE Deliver
  BY <1>2, InvDeliver DEF Deliver
<1>3. CASE Main
  BY <1>3, InvMain
<1>4. CASE Connect
  BY <1>4, EventAssumption DEF Connect, mainVars
<1>5. CASE ClientSend
  BY <1>5 DEF ClientSend, mainVars, budgetVars
<1>6. CASE UNCHANGED vars
  BY <1>6 DEF vars, mainVars, sigVars, connVars, budgetVars
<1> QED
  BY <1>1, <1>2, <1>3, <1>4, <1>5, <1>6 DEF Next

\* The invariant holds in every reachable state.
THEOREM InvHolds == Spec => []Inv
<1> QED
  BY InvInit, InvStep, PTL DEF Spec

\* Type correctness.
THEOREM EventTypeCorrect == Spec => []TypeOK
BY InvHolds, PTL DEF Inv

\* Main leaves its loop because of SIGINT and for no other reason (lines 89-95
\* with the handler's saved errno).
THEOREM OnlyIntLeaves == Spec => []LeavesOnlyOnInt
BY InvHolds, PTL DEF Inv

\* No byte of a signal is left in the socketpair without an event.
THEOREM BytesWatched == Spec => []ByteHasEvent
BY InvHolds, PTL DEF Inv

\* No handler sends on a socketpair whose reading end is closed (lines 140-141).
THEOREM PipeNeverBroken == Spec => []NoBrokenPipe
BY InvHolds, PTL DEF Inv
=============================================================================
