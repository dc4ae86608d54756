------------------------------ MODULE TimerQueue ------------------------------
(***************************************************************************)
(* What a timer container promises to its user: timers are added with a    *)
(* deadline, a deadline can be moved later, timers can be removed, and a    *)
(* tick fires every timer that is due at the time the tick began, earliest  *)
(* deadline first, and no other.                                            *)
(***************************************************************************)
EXTENDS Integers

CONSTANT Timer   \* the timers a user may create

VARIABLES
    pending,     \* the timers in the container
    deadline,    \* [Timer -> time]
    ticking,     \* a tick is under way
    tickTime     \* the time at which the last tick began

qvars == <<pending, deadline, ticking, tickTime>>

Init ==
    /\ pending = {}
    /\ deadline = [t \in Timer |-> 0]
    /\ ticking = FALSE
    /\ tickTime = 0

Add(t) ==
    /\ ~ticking /\ t \notin pending
    /\ pending' = pending \cup {t}
    /\ deadline' \in [Timer -> Nat]
    /\ deadline' = [deadline EXCEPT ![t] = deadline'[t]]
    /\ UNCHANGED <<ticking, tickTime>>

Extend(t) ==
    /\ ~ticking /\ t \in pending
    /\ deadline' \in [Timer -> Nat]
    /\ deadline' = [deadline EXCEPT ![t] = deadline'[t]]
    /\ deadline'[t] > deadline[t]
    /\ UNCHANGED <<pending, ticking, tickTime>>

Remove(t) ==
    /\ ~ticking /\ t \in pending
    /\ pending' = pending \ {t}
    /\ UNCHANGED <<deadline, ticking, tickTime>>

BeginTick ==
    /\ ~ticking
    /\ ticking' = TRUE
    /\ tickTime' >= tickTime
    /\ UNCHANGED <<pending, deadline>>

Fire(t) ==
    /\ ticking /\ t \in pending
    /\ deadline[t] <= tickTime
    /\ \A u \in pending : deadline[t] <= deadline[u]
    /\ pending' = pending \ {t}
    /\ UNCHANGED <<deadline, ticking, tickTime>>

EndTick ==
    /\ ticking
    /\ \A t \in pending : deadline[t] > tickTime
    /\ ticking' = FALSE
    /\ UNCHANGED <<pending, deadline, tickTime>>

Next ==
    \/ \E t \in Timer : Add(t) \/ Extend(t) \/ Remove(t) \/ Fire(t)
    \/ BeginTick
    \/ EndTick

Spec == Init /\ [][Next]_qvars
=============================================================================
