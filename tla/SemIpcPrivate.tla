----------------------------- MODULE SemIpcPrivate -----------------------------
(***************************************************************************)
(* chapter13/13.5/sem_IPC_PRIVATE.c: a parent and its child take a System V  *)
(* semaphore once each.  The flags of semget are joined with & in the place   *)
(* of |, so that nobody has permission to use the semaphore but a privileged  *)
(* process; the errors of semctl and semop are not looked at.               *)
(***************************************************************************)
EXTENDS Integers

VARIABLES
    privileged,  \* the program is run by root
    val,         \* the value of the semaphore
    pc,          \* [process -> "start", "in", "out", "end"]
    undo         \* [process -> what its end gives back, by SEM_UNDO]

vars == <<privileged, val, pc, undo>>

Process == {"parent", "child"}

\* SETVAL fails without permission, and the value stays 0.  Where fork fails the
\* program has ended.
Init ==
    /\ privileged \in BOOLEAN
    /\ val = IF privileged THEN 1 ELSE 0
    /\ \E place \in {"start", "end"} : pc = [p \in Process |-> place]
    /\ undo = [p \in Process |-> 0]

\* Mutation: sem_flg = 0.
UndoneNever(op) == 0

\* sem_flg = SEM_UNDO.
Undone(op) == -op

\* Mutation: a semop that does not wait.
AllowedAlways(op) == TRUE

\* semop waits while the value would fall below 0.
Allowed(op) == val + op >= 0

\* pv with permission, and without.
Pv(p, op) ==
    \/ /\ privileged /\ Allowed(op)
       /\ val' = val + op
       /\ undo' = [undo EXCEPT ![p] = @ + Undone(op)]
    \/ ~privileged /\ UNCHANGED <<val, undo>>

Enter(p) ==
    /\ pc[p] = "start"
    /\ Pv(p, -1)
    /\ pc' = [pc EXCEPT ![p] = "in"]
    /\ UNCHANGED privileged

Leave(p) ==
    /\ pc[p] = "in"
    /\ Pv(p, 1)
    /\ pc' = [pc EXCEPT ![p] = "out"]
    /\ UNCHANGED privileged

\* semop fails although it is permitted: the process is stopped and continued while
\* it waits, or there is no memory for its undo.  Nobody looks, and it goes on.  To
\* release what one holds needs neither, and does not fail.
PvFails(p) ==
    /\ \/ pc[p] = "start" /\ pc' = [pc EXCEPT ![p] = "in"]
       \/ pc[p] = "in" /\ undo[p] = 0 /\ pc' = [pc EXCEPT ![p] = "out"]
    /\ UNCHANGED <<privileged, val, undo>>

\* The end of a process, when SEM_UNDO takes effect.
Ends(p) ==
    /\ pc' = [pc EXCEPT ![p] = "end"]
    /\ val' = val + undo[p]
    /\ undo' = [undo EXCEPT ![p] = 0]
    /\ UNCHANGED privileged

\* exit of the child; the parent waits for it and removes the semaphore.
Exit(p) ==
    /\ pc[p] = "out"
    /\ p = "parent" => pc["child"] = "end"
    /\ Ends(p)

\* A signal ends a process wherever it is.
Killed(p) == pc[p] \in {"start", "in", "out"} /\ Ends(p)

ProcessStep(p) == Enter(p) \/ Leave(p) \/ Exit(p)

Next == \E p \in Process : ProcessStep(p) \/ PvFails(p) \/ Killed(p)

\* Each process goes on while it is not blocked; nothing makes semop fail.
Fairness == \A p \in Process : WF_vars(ProcessStep(p))

Spec == Init /\ [][Next]_vars /\ Fairness

-----------------------------------------------------------------------------
(* Properties.                                                              *)

\* A release whose wait has failed lifts the value above 1, until its end takes it
\* back.
TypeOK ==
    /\ privileged \in BOOLEAN
    /\ val \in 0 .. 3
    /\ pc \in [Process -> {"start", "in", "out", "end"}]
    /\ undo \in [Process -> -1 .. 1]

Holds(p) == pc[p] = "in" /\ undo[p] = 1

\* The two never hold the semaphore at once (lines 44 and 54), whichever calls of
\* semop fail and whoever is killed, and the ends leave it as it was: what is
\* missing from its value, or too much, is what SEM_UNDO gives back (line 18).
HoldersApart ==
    /\ \A p, q \in Process : Holds(p) /\ Holds(q) => p = q
    /\ privileged /\ (\A p \in Process : pc[p] = "end") => val = 1

\* Both processes come to their end although one is killed while it holds the
\* semaphore (line 18), and although the calls may all fail.
BothEnd == \A p \in Process : pc[p] = "start" ~> pc[p] = "end"
=============================================================================
