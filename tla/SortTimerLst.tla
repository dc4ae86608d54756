----------------------------- MODULE SortTimerLst -----------------------------
(***************************************************************************)
(* sort_timer_lst of chapter11/11.2/lst_timer.h: a doubly linked list of   *)
(* timers in ascending order of expire, as pointers on a heap, with its     *)
(* four operations and the clock they read.                                 *)
(***************************************************************************)
EXTENDS Integers, FiniteSets

CONSTANTS Timer,        \* the nodes the user may allocate
          NULL,         \* nullptr
          Spans,        \* how far ahead of the clock expire is set
          AdjustCases,  \* the cases of adjust_timer the user brings about
          MaxTime       \* bound on the clock

ASSUME TimerAssumption ==
    /\ NULL \notin Timer
    /\ Spans \subseteq Nat \ {0}
    /\ AdjustCases \subseteq {"tail", "inplace", "head", "middle"}
    /\ MaxTime \in Nat

VARIABLES
    list,       \* the pointers: head, tail and the nodes' next and prev
    expire,     \* [Timer -> time]
    allocated,  \* the nodes that have been created and not deleted
    now,        \* time(nullptr)
    pc,         \* "idle", "tick" or "crashed"
    cur         \* cur of tick

vars == <<list, expire, allocated, now, pc, cur>>

Init ==
    /\ list = [head |-> NULL, tail |-> NULL,
               next |-> [t \in Timer |-> NULL], prev |-> [t \in Timer |-> NULL]]
    /\ expire = [t \in Timer |-> 0]
    /\ allocated = {}
    /\ now = 0
    /\ pc = "idle"
    /\ cur = 0

-----------------------------------------------------------------------------
(* The operations on the pointers.  l is a list, ex its expiry times.       *)

\* Mutation: the node is linked one place too late.
InsertPlaceLate(l, ex, t, start) ==
    LET place[p \in Timer] == IF l.next[p] = NULL THEN p ELSE
                              IF ex[t] < ex[l.next[p]] THEN l.next[p] ELSE place[l.next[p]]
    IN place[start]

\* The private add_timer: the first node from start on that is last or whose
\* successor expires later than t.
InsertPlace(l, ex, t, start) ==
    LET place[p \in Timer] == IF l.next[p] = NULL \/ ex[t] < ex[l.next[p]]
                              THEN p ELSE place[l.next[p]]
    IN place[start]

InsertAfter(l, ex, t, start) ==
    LET p == InsertPlace(l, ex, t, start)
        tmp == l.next[p]
    IN IF tmp = NULL
       THEN [l EXCEPT !.prev[t] = p,
                      !.next = [@ EXCEPT ![p] = t, ![t] = NULL],
                      !.tail = t]
       ELSE [l EXCEPT !.next = [@ EXCEPT ![p] = t, ![t] = tmp],
                      !.prev = [@ EXCEPT ![t] = p, ![tmp] = t]]

Added(l, ex, t) ==
    IF l.head = NULL THEN [l EXCEPT !.head = t, !.tail = t]
    ELSE IF ex[t] < ex[l.head]
    THEN [l EXCEPT !.next[t] = l.head, !.prev[l.head] = t, !.head = t]
    ELSE InsertAfter(l, ex, t, l.head)

\* The head is taken out and put in twice: after the branch comes the call that
\* is meant for the other nodes.
HeadMoved(l, ex, t) ==
    LET h == l.next[t]
        cut == [l EXCEPT !.head = h, !.prev[h] = NULL, !.next[t] = NULL]
    IN InsertAfter(InsertAfter(cut, ex, t, h), ex, t, h)

\* Any other node is put in again where it belongs, and not taken out first.
OtherMoved(l, ex, t) == InsertAfter(l, ex, t, l.head)

\* Mutation: the successor of a deleted node keeps its prev.
UnlinkedOneWay(l, t) == [l EXCEPT !.next[l.prev[t]] = l.next[t]]

\* A node with two neighbours is unlinked.
Unlinked(l, t) ==
    [l EXCEPT !.next[l.prev[t]] = l.next[t], !.prev[l.next[t]] = l.prev[t]]

Deleted(l, t) ==
    IF t = l.head /\ t = l.tail THEN [l EXCEPT !.head = NULL, !.tail = NULL]
    ELSE IF t = l.head
    THEN [l EXCEPT !.head = l.next[t], !.prev[l.next[t]] = NULL]
    ELSE IF t = l.tail
    THEN [l EXCEPT !.tail = l.prev[t], !.next[l.prev[t]] = NULL]
    ELSE Unlinked(l, t)

\* delete: what the node pointed to is forgotten.
Freed(l, t) == [l EXCEPT !.next[t] = NULL, !.prev[t] = NULL]

-----------------------------------------------------------------------------

\* new util_timer, expire set, add_timer.
AddTimer(t) ==
    /\ pc = "idle" /\ t \notin allocated
    /\ allocated' = allocated \cup {t}
    /\ \E s \in Spans : expire' = [expire EXCEPT ![t] = now + s]
    /\ LET fresh == [list EXCEPT !.next[t] = NULL, !.prev[t] = NULL]
       IN list' = Added(fresh, expire', t)
    /\ UNCHANGED <<now, pc, cur>>

\* The cases of adjust_timer once t expires at e.
AdjustCase(t, e) ==
    IF list.next[t] = NULL THEN "tail"
    ELSE IF e < expire[list.next[t]] THEN "inplace"
    ELSE IF t = list.head THEN "head" ELSE "middle"

\* The user sets expire of t anew, never back, and calls adjust_timer.  For the
\* tail, !tmp | ... evaluates both sides and reads tmp->expire through nullptr.
Adjust(t, e) ==
    /\ pc = "idle" /\ t \in allocated
    /\ e >= expire[t]
    /\ AdjustCase(t, e) \in AdjustCases
    /\ expire' = [expire EXCEPT ![t] = e]
    /\ pc' = IF AdjustCase(t, e) = "tail" THEN "crashed" ELSE pc
    /\ list' = CASE AdjustCase(t, e) = "head" -> HeadMoved(list, expire', t)
                 [] AdjustCase(t, e) = "middle" -> OtherMoved(list, expire', t)
                 [] OTHER -> list
    /\ UNCHANGED <<allocated, now, cur>>

DeleteTimer(t) ==
    /\ pc = "idle" /\ t \in allocated
    /\ list' = Freed(Deleted(list, t), t)
    /\ allocated' = allocated \ {t}
    /\ UNCHANGED <<expire, now, pc, cur>>

\* Mutation: the tick works with a time that has not come.
TickTimeAhead == now + 1

TickTime == now

TickBegin ==
    /\ pc = "idle" /\ list.head # NULL
    /\ pc' = "tick"
    /\ cur' = TickTime
    /\ UNCHANGED <<list, expire, allocated, now>>

\* Mutation: the loop condition is off by one.
NotDueOffByOne(t) == expire[t] > cur + 1

\* The break of the loop.
NotDue(t) == expire[t] > cur

\* cb_func, then the head is removed and deleted.  tail is left as it is.
TickFire ==
    /\ pc = "tick" /\ list.head # NULL
    /\ ~NotDue(list.head)
    /\ LET h == list.next[list.head]
           rest == IF h = NULL THEN [list EXCEPT !.head = NULL]
                   ELSE [list EXCEPT !.head = h, !.prev[h] = NULL]
       IN list' = Freed(rest, list.head)
    /\ allocated' = allocated \ {list.head}
    /\ UNCHANGED <<expire, now, pc, cur>>

TickEnd ==
    /\ pc = "tick"
    /\ list.head # NULL => NotDue(list.head)
    /\ pc' = "idle"
    /\ UNCHANGED <<list, expire, allocated, now, cur>>

TimePasses ==
    /\ now < MaxTime /\ pc # "crashed"
    /\ now' = now + 1
    /\ UNCHANGED <<list, expire, allocated, pc, cur>>

Next ==
    \/ \E t \in Timer : AddTimer(t) \/ DeleteTimer(t)
    \/ \E t \in Timer, s \in Spans : Adjust(t, now + s)
    \/ TickBegin
    \/ TickFire
    \/ TickEnd
    \/ TimePasses

Spec == Init /\ [][Next]_vars

-----------------------------------------------------------------------------
(* Properties.                                                              *)

Pointer == Timer \cup {NULL}

\* The pointers point to nodes or are null, and the time a tick compares with is
\* never ahead of the clock.
TypeOK ==
    /\ list \in [head : Pointer, tail : Pointer, next : [Timer -> Pointer],
                 prev : [Timer -> Pointer]]
    /\ expire \in [Timer -> Nat] /\ allocated \subseteq Timer
    /\ now \in 0 .. MaxTime /\ cur \in 0 .. now
    /\ pc \in {"idle", "tick", "crashed"}

\* The nodes met from head by following next.
Reachable ==
    LET within[n \in 0 .. Cardinality(Timer)] ==
            IF n = 0 THEN {list.head} \ {NULL}
            ELSE within[n - 1] \cup ({list.next[t] : t \in within[n - 1]} \ {NULL})
    IN within[Cardinality(Timer)]

\* "An ascending doubly linked list, with a head and a tail" (line 33): exactly
\* the timers not yet deleted are linked, next and prev are inverse to each
\* other, the ends are head and tail, and expire never falls along next.
AscendingDoublyLinked ==
    /\ Reachable = allocated
    /\ \A t \in allocated :
           /\ list.prev[t] = NULL <=> t = list.head
           /\ list.next[t] = NULL <=> t = list.tail
           /\ list.next[t] # NULL =>
                  /\ list.next[t] \in allocated
                  /\ list.prev[list.next[t]] = t
                  /\ expire[t] <= expire[list.next[t]]

\* "If the adjusted timer is at the tail of the list ... nothing changes"
\* (line 113): adjusting the last timer does not end the program.
AdjustTailUnchanged == pc # "crashed"

\* The list is a timer queue for its user: a tick fires what is due, in order,
\* and nothing else, and no timer is lost between calls.
Queue == INSTANCE TimerQueue WITH
    pending <- allocated, deadline <- expire, ticking <- (pc = "tick"), tickTime <- cur

ImplementsQueue == Queue!Spec
=============================================================================
