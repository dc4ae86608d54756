------------------------------- MODULE ForkMutex -------------------------------
(***************************************************************************)
(* chapter14/14.8/multi_thread_fork.c and multi_thread_fork_resolved.c: a    *)
(* thread holds a mutex while main forks, and the child takes its copy of the *)
(* mutex.  The second program registers handlers with pthread_atfork.  The    *)
(* sleeps order nothing and are left out.                                   *)
(***************************************************************************)
VARIABLES
    atfork,      \* the program with the handlers, and pthread_atfork has not failed
    main,        \* "start", "prepared", "forked", "wait", "join", "exit"
    thread,      \* "start", "holding", "end"
    child,       \* "none", "start", "wants", "holding", "exit"
    mutex,       \* who holds it: "nobody", "main", "thread"; or "destroyed"
    childMutex   \* the child's copy: held by "nobody", by "main", the thread
                 \* that forked, by "thread", which the child does not have

vars == <<atfork, main, thread, child, mutex, childMutex>>

Init ==
    /\ atfork \in BOOLEAN
    /\ main = "start" /\ thread = "start" /\ child = "none"
    /\ mutex = "nobody" /\ childMutex = "nobody"

-----------------------------------------------------------------------------

\* A lock or unlock of a destroyed mutex returns an error nobody looks at.
Locks(who) ==
    \/ mutex = "nobody" /\ mutex' = who
    \/ mutex = "destroyed" /\ UNCHANGED mutex

Unlocks(who) == mutex' = IF mutex = who THEN "nobody" ELSE mutex

ThreadLocks ==
    /\ thread = "start"
    /\ Locks("thread")
    /\ thread' = "holding"
    /\ UNCHANGED <<atfork, main, child, childMutex>>

ThreadUnlocks ==
    /\ thread = "holding"
    /\ Unlocks("thread")
    /\ thread' = "end"
    /\ UNCHANGED <<atfork, main, child, childMutex>>

\* prepare, called by fork.
Prepare ==
    /\ atfork /\ main = "start"
    /\ Locks("main")
    /\ main' = "prepared"
    /\ UNCHANGED <<atfork, thread, child, childMutex>>

\* The child gets a copy of the memory as it is, and the thread that forked.
Fork ==
    /\ main = IF atfork THEN "prepared" ELSE "start"
    /\ main' = "forked"
    /\ child' = "start"
    /\ childMutex' = mutex
    /\ UNCHANGED <<atfork, thread, mutex>>

\* fork fails; the handler for the parent runs all the same.
ForkFails ==
    /\ main = IF atfork THEN "prepared" ELSE "start"
    /\ main' = "forked"
    /\ UNCHANGED <<atfork, thread, child, mutex, childMutex>>

\* parent, where it is registered.
Parent ==
    /\ main = "forked"
    /\ IF atfork THEN Unlocks("main") ELSE UNCHANGED mutex
    /\ main' = "wait"
    /\ UNCHANGED <<atfork, thread, child, childMutex>>

\* Mutation: the handler for the child is forgotten.
ChildUnlocksNot == FALSE

ChildUnlocks == atfork

\* child, where it is registered: what the forking thread holds it may release.
ChildStarts ==
    /\ child = "start"
    /\ childMutex' = IF ChildUnlocks /\ childMutex = "main" THEN "nobody" ELSE childMutex
    /\ child' = "wants"
    /\ UNCHANGED <<atfork, main, thread, mutex>>

ChildLocks ==
    /\ child = "wants" /\ childMutex = "nobody"
    /\ childMutex' = "main"
    /\ child' = "holding"
    /\ UNCHANGED <<atfork, main, thread, mutex>>

ChildExits ==
    /\ child = "holding"
    /\ childMutex' = "nobody"
    /\ child' = "exit"
    /\ UNCHANGED <<atfork, main, thread, mutex>>

\* wait(NULL), where there is a child; then the mutex is destroyed, unless the
\* thread holds it.
Waits ==
    /\ main = "wait" /\ child \in {"exit", "none"}
    /\ mutex' = IF mutex = "thread" THEN mutex ELSE "destroyed"
    /\ main' = "join"
    /\ UNCHANGED <<atfork, thread, child, childMutex>>

Joins ==
    /\ main = "join" /\ thread = "end"
    /\ main' = "exit"
    /\ UNCHANGED <<atfork, thread, child, mutex, childMutex>>

ThreadStep == ThreadLocks \/ ThreadUnlocks
ChildStep == ChildStarts \/ ChildLocks \/ ChildExits
MainStep == Prepare \/ Fork \/ ForkFails \/ Parent \/ Waits \/ Joins

Next == ThreadStep \/ ChildStep \/ MainStep

\* Each thread goes on while it is not blocked.
Fairness == WF_vars(ThreadStep) /\ WF_vars(ChildStep) /\ WF_vars(MainStep)

Spec == Init /\ [][Next]_vars /\ Fairness

-----------------------------------------------------------------------------
(* Properties.                                                              *)

TypeOK ==
    /\ atfork \in BOOLEAN
    /\ main \in {"start", "prepared", "forked", "wait", "join", "exit"}
    /\ thread \in {"start", "holding", "end"}
    /\ child \in {"none", "start", "wants", "holding", "exit"}
    /\ mutex \in {"nobody", "main", "thread", "destroyed"}
    /\ childMutex \in {"nobody", "main", "thread"}

\* The program ends unless fork has copied the mutex while the other thread held
\* it (multi_thread_fork.c line 12), and with the handlers that never happens:
\* neither order of prepare and the thread, nor a failing fork, blocks it.
EndsUnlessCopiedLocked ==
    (main = "start") ~> (main = "exit" \/ (~atfork /\ childMutex = "thread"))
=============================================================================
