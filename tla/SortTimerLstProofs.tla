--------------------------- MODULE SortTimerLstProofs ---------------------------
(***************************************************************************)
(* Proofs about sort_timer_lst of chapter11/11.2/lst_timer.h.  The list is   *)
(* shown to hold its timers in a row, in ascending order, whatever legal     *)
(* calls were made; that it implements a timer queue follows.                *)
(***************************************************************************)
EXTENDS SortTimerLst, Recursion, FiniteSetTheorems, TLAPS

ListType == [head : Pointer, tail : Pointer, next : [Timer -> Pointer],
             prev : [Timer -> Pointer]]

\* at[1], ..., at[n] are n nodes, each of them once, between two null pointers.
Row(n, at) ==
    /\ n \in Nat /\ at \in [0 .. n + 1 -> Pointer]
    /\ at[0] = NULL /\ at[n + 1] = NULL
    /\ \A k \in 1 .. n : at[k] \in Timer
    /\ \A j, k \in 1 .. n : at[j] = at[k] => j = k

\* The list is that row, from head to tail, and no other node points anywhere.
Chain(l, n, at) ==
    /\ l.head = at[1]
    /\ n > 0 => l.tail = at[n]
    /\ \A k \in 1 .. n : l.next[at[k]] = at[k + 1] /\ l.prev[at[k]] = at[k - 1]
    /\ \A t \in Timer \ {at[k] : k \in 1 .. n} : l.next[t] = NULL /\ l.prev[t] = NULL

Sorted(ex, n, at) == \A j, k \in 1 .. n : j <= k => ex[at[j]] <= ex[at[k]]

\* l holds the nodes of S in the order of ex.
Holds(l, ex, S, n, at) ==
    /\ Row(n, at)
    /\ Chain(l, n, at)
    /\ S = {at[k] : k \in 1 .. n}
    /\ Sorted(ex, n, at)

HoldsAll(l, ex, S) == \E n, at : Holds(l, ex, S, n, at)

Inv == TypeOK /\ HoldsAll(list, expire, allocated)

-----------------------------------------------------------------------------

\* t is linked behind at[k], or in front for k = 0.
LinkedBehind(l, m, n, at, k, t) ==
    /\ m \in ListType
    /\ m.head = IF k = 0 THEN t ELSE l.head
    /\ m.tail = IF k = n THEN t ELSE l.tail
    /\ \A u \in Timer :
           /\ m.next[u] = IF u = t THEN at[k + 1] ELSE IF u = at[k] THEN t ELSE l.next[u]
           /\ m.prev[u] = IF u = t THEN at[k] ELSE IF u = at[k + 1] THEN t ELSE l.prev[u]

\* Linked where its expiry belongs, a new node leaves a list that holds it too:
\* what add_timer has to do.
LEMMA LinkedBehindHolds ==
    ASSUME NULL \notin Timer,
           NEW l, NEW m, NEW ex \in [Timer -> Nat], NEW S, NEW n \in Nat, NEW at,
           NEW k \in 0 .. n, NEW t \in Timer \ S,
           Holds(l, ex, S, n, at), LinkedBehind(l, m, n, at, k, t),
           k > 0 => ex[at[k]] <= ex[t],
           k < n => ex[t] <= ex[at[k + 1]]
    PROVE  HoldsAll(m, ex, S \cup {t})
<1>. DEFINE au == [j \in 0 .. n + 2 |-> IF j <= k THEN at[j] ELSE IF j = k + 1 THEN t ELSE at[j - 1]]
<1>1. /\ at \in [0 .. n + 1 -> Pointer] /\ at[0] = NULL /\ at[n + 1] = NULL
      /\ \A j \in 1 .. n : at[j] \in Timer /\ at[j] # t
      /\ \A i, j \in 1 .. n : at[i] = at[j] => i = j
  BY DEF Holds, Row
<1>2. au \in [0 .. n + 2 -> Pointer] /\ au[0] = NULL /\ au[n + 2] = NULL
  BY <1>1 DEF Pointer
<1>3. \A j \in 1 .. n + 1 : au[j] \in Timer
  BY <1>1
<1>4. \A i, j \in 1 .. n + 1 : au[i] = au[j] => i = j
  BY <1>1
<1>5. Row(n + 1, au)
  <2>1. (n + 1) + 1 = n + 2
    OBVIOUS
  <2>. HIDE DEF au
  <2>. QED  BY <1>2, <1>3, <1>4, <2>1 DEF Row
<1>6. S \cup {t} = {au[j] : j \in 1 .. n + 1}
  <2>1. S = {at[j] : j \in 1 .. n}
    BY DEF Holds
  <2>2. \A j \in 1 .. n : \E i \in 1 .. n + 1 : au[i] = at[j]
    <3>1. ASSUME NEW j \in 1 .. n, j <= k PROVE au[j] = at[j] /\ j \in 1 .. n + 1
      BY <3>1
    <3>2. ASSUME NEW j \in 1 .. n, j > k PROVE au[j + 1] = at[j] /\ j + 1 \in 1 .. n + 1
      BY <3>2
    <3>3. \A j \in 1 .. n : j <= k \/ j > k
      OBVIOUS
    <3>. HIDE DEF au
    <3>. QED BY <3>1, <3>2, <3>3
  <2>3. au[k + 1] = t /\ k + 1 \in 1 .. n + 1
    OBVIOUS
  <2>4. \A j \in 1 .. n + 1 : au[j] = t \/ \E i \in 1 .. n : au[j] = at[i]
    OBVIOUS
  <2>. HIDE DEF au
  <2>. QED  BY <2>1, <2>2, <2>3, <2>4
<1>7. Chain(m, n + 1, au)
  <2>1. m.head = au[1] /\ m.tail = au[n + 1]
    BY <1>1 DEF Holds, Chain, LinkedBehind
  <2>2. ASSUME NEW j \in 1 .. n + 1 PROVE m.next[au[j]] = au[j + 1] /\ m.prev[au[j]] = au[j - 1]
    <3>1. CASE j = k + 1
      BY <1>1, <3>1 DEF LinkedBehind
    <3>2. CASE j <= k
      <4>0. at[j] # at[k + 1]
        BY <1>1, <3>2 DEF Pointer
      <4>1. au[j] = at[j] /\ j \in 1 .. n /\ at[j] # t /\ at[j] \in Timer /\ at[j] # at[k + 1]
        BY <1>1, <3>2, <4>0
      <4>2. l.next[at[j]] = at[j + 1] /\ l.prev[at[j]] = at[j - 1]
        BY <4>1 DEF Holds, Chain
      <4>3. m.prev[at[j]] = at[j - 1] /\ au[j - 1] = at[j - 1]
        BY <4>1, <4>2, <3>2 DEF LinkedBehind
      <4>4. m.next[at[j]] = IF j = k THEN t ELSE at[j + 1]
        BY <4>1, <4>2, <3>2, <1>1 DEF LinkedBehind
      <4>. QED  BY <4>1, <4>3, <4>4, <3>2
    <3>3. CASE j > k + 1
      <4>1. au[j] = at[j - 1] /\ j - 1 \in 1 .. n /\ at[j - 1] # t /\ at[j - 1] \in Timer
            /\ at[j - 1] # at[k]
        BY <1>1, <3>3 DEF Pointer
      <4>2. l.next[at[j - 1]] = at[j] /\ l.prev[at[j - 1]] = at[j - 2]
        BY <4>1 DEF Holds, Chain
      <4>3. m.next[at[j - 1]] = at[j] /\ au[j + 1] = at[j]
        BY <4>1, <4>2, <3>3 DEF LinkedBehind
      <4>4. m.prev[at[j - 1]] = IF j = k + 2 THEN t ELSE at[j - 2]
        BY <4>1, <4>2, <3>3, <1>1 DEF LinkedBehind
      <4>. QED  BY <4>1, <4>3, <4>4, <3>3
    <3>. QED BY <3>1, <3>2, <3>3
  <2>3. ASSUME NEW u \in Timer \ {au[j] : j \in 1 .. n + 1} PROVE m.next[u] = NULL /\ m.prev[u] = NULL
    <3>1. u \notin S /\ u # t
      BY <1>6
    <3>2. l.next[u] = NULL /\ l.prev[u] = NULL
      BY <3>1 DEF Holds, Chain
    <3>3. u # at[k] /\ u # at[k + 1]
      BY <3>1, <1>1 DEF Holds, Pointer
    <3>. QED  BY <3>1, <3>2, <3>3 DEF LinkedBehind
  <2>. QED  BY <2>1, <2>2, <2>3 DEF Chain
<1>8. Sorted(ex, n + 1, au)
  <2>1. \A i, j \in 1 .. n : i <= j => ex[at[i]] <= ex[at[j]]
    BY DEF Holds, Sorted
  <2>2. \A i \in 1 .. n : ex[at[i]] \in Nat
    BY <1>1
  <2>3. \A i \in 1 .. k : ex[at[i]] <= ex[t]
    BY <2>1, <2>2
  <2>4. \A i \in k + 1 .. n : ex[t] <= ex[at[i]]
    BY <2>1, <2>2
  <2>. QED  BY <2>1, <2>2, <2>3, <2>4, <1>1 DEF Sorted
<1>. QED
  <2>1. n + 1 \in Nat /\ (n + 1) + 1 = n + 2
    OBVIOUS
  <2>2. au \in [0 .. (n + 1) + 1 -> Pointer]
    BY <1>2, <2>1
  <2>. HIDE DEF au
  <2>. QED  BY <1>5, <1>6, <1>7, <1>8, <2>1, <2>2 DEF Holds, HoldsAll

\* at[k] is taken out.
TakenOut(l, m, n, at, k) ==
    /\ m \in ListType
    /\ m.head = IF k = 1 THEN at[2] ELSE l.head
    /\ n > 1 => m.tail = IF k = n THEN at[n - 1] ELSE l.tail
    /\ \A u \in Timer :
           /\ m.next[u] = IF u = at[k] THEN NULL
                          ELSE IF u = at[k - 1] THEN at[k + 1] ELSE l.next[u]
           /\ m.prev[u] = IF u = at[k] THEN NULL
                          ELSE IF u = at[k + 1] THEN at[k - 1] ELSE l.prev[u]

\* With one node taken out, the list holds the others: what del_timer and tick do.
LEMMA TakenOutHolds ==
    ASSUME NULL \notin Timer,
           NEW l, NEW m, NEW ex \in [Timer -> Nat], NEW S, NEW n \in Nat, NEW at,
           NEW k \in 1 .. n,
           Holds(l, ex, S, n, at), TakenOut(l, m, n, at, k)
    PROVE  HoldsAll(m, ex, S \ {at[k]})
<1>. DEFINE au == [j \in 0 .. n |-> IF j < k THEN at[j] ELSE at[j + 1]]
<1>1. /\ at \in [0 .. n + 1 -> Pointer] /\ at[0] = NULL /\ at[n + 1] = NULL
      /\ \A j \in 1 .. n : at[j] \in Timer
      /\ \A i, j \in 1 .. n : at[i] = at[j] => i = j
  BY DEF Holds, Row
<1>2. au \in [0 .. n -> Pointer] /\ au[0] = NULL /\ au[n] = NULL
  BY <1>1
<1>3. \A j \in 1 .. n - 1 : au[j] \in Timer
  BY <1>1
<1>4. \A i, j \in 1 .. n - 1 : au[i] = au[j] => i = j
  BY <1>1
<1>5. Row(n - 1, au)
  <2>1. (n - 1) + 1 = n
    OBVIOUS
  <2>. HIDE DEF au
  <2>. QED  BY <1>2, <1>3, <1>4, <2>1 DEF Row
<1>6. S \ {at[k]} = {au[j] : j \in 1 .. n - 1}
  <2>1. S = {at[j] : j \in 1 .. n}
    BY DEF Holds
  <2>2. \A j \in 1 .. n : j # k => \E i \in 1 .. n - 1 : au[i] = at[j]
    <3>1. ASSUME NEW j \in 1 .. n, j < k PROVE au[j] = at[j] /\ j \in 1 .. n - 1
      BY <3>1
    <3>2. ASSUME NEW j \in 1 .. n, j > k PROVE au[j - 1] = at[j] /\ j - 1 \in 1 .. n - 1
      BY <3>2
    <3>3. \A j \in 1 .. n : j # k => j < k \/ j > k
      OBVIOUS
    <3>. HIDE DEF au
    <3>. QED BY <3>1, <3>2, <3>3
  <2>4. \A j \in 1 .. n - 1 : \E i \in 1 .. n : i # k /\ au[j] = at[i]
    <3>1. \A j \in 1 .. n - 1 : IF j < k THEN au[j] = at[j] ELSE au[j] = at[j + 1]
      BY <1>1
    <3>. QED BY <3>1
  <2>5. \A j \in 1 .. n : j # k => at[j] # at[k]
    BY <1>1
  <2>. HIDE DEF au
  <2>. QED  BY <2>1, <2>2, <2>4, <2>5
<1>7. Chain(m, n - 1, au)
  <2>1. m.head = au[1] /\ (n - 1 > 0 => m.tail = au[n - 1])
    BY <1>1 DEF Holds, Chain, TakenOut
  <2>2. ASSUME NEW j \in 1 .. n - 1 PROVE m.next[au[j]] = au[j + 1] /\ m.prev[au[j]] = au[j - 1]
    <3>1. CASE j < k
      <4>1. au[j] = at[j] /\ j \in 1 .. n /\ at[j] \in Timer /\ at[j] # at[k + 1] /\ at[j] # at[k]
        BY <1>1, <3>1 DEF Pointer
      <4>2. l.next[at[j]] = at[j + 1] /\ l.prev[at[j]] = at[j - 1]
        BY <4>1 DEF Holds, Chain
      <4>3. m.prev[at[j]] = at[j - 1] /\ au[j - 1] = at[j - 1]
        BY <4>1, <4>2, <3>1 DEF TakenOut
      <4>4. m.next[at[j]] = IF j = k - 1 THEN at[k + 1] ELSE at[j + 1]
        <5>1. at[j] = at[k - 1] <=> j = k - 1
          BY <4>1, <3>1, <1>1
        <5>. QED  BY <4>1, <4>2, <5>1 DEF TakenOut
      <4>. QED  BY <4>1, <4>3, <4>4, <3>1
    <3>2. CASE j >= k
      <4>1. au[j] = at[j + 1] /\ j + 1 \in 1 .. n /\ at[j + 1] \in Timer
            /\ at[j + 1] # at[k] /\ at[j + 1] # at[k - 1]
        BY <1>1, <3>2 DEF Pointer
      <4>2. l.next[at[j + 1]] = at[j + 2] /\ l.prev[at[j + 1]] = at[j]
        BY <4>1 DEF Holds, Chain
      <4>3. m.next[at[j + 1]] = at[j + 2] /\ au[j + 1] = at[j + 2]
        BY <4>1, <4>2, <3>2 DEF TakenOut
      <4>4. m.prev[at[j + 1]] = IF j = k THEN at[k - 1] ELSE at[j]
        <5>1. at[j + 1] = at[k + 1] <=> j = k
          BY <4>1, <3>2, <1>1
        <5>. QED  BY <4>1, <4>2, <5>1 DEF TakenOut
      <4>. QED  BY <4>1, <4>3, <4>4, <3>2
    <3>. QED BY <3>1, <3>2
  <2>3. ASSUME NEW u \in Timer \ {au[j] : j \in 1 .. n - 1} PROVE m.next[u] = NULL /\ m.prev[u] = NULL
    <3>1. u \notin S \ {at[k]}
      BY <1>6
    <3>2. u # at[k] => l.next[u] = NULL /\ l.prev[u] = NULL
      BY <3>1 DEF Holds, Chain
    <3>3. u # at[k] => u # at[k - 1] /\ u # at[k + 1]
      BY <3>1, <1>1 DEF Holds, Pointer
    <3>. QED  BY <3>1, <3>2, <3>3 DEF TakenOut
  <2>. QED  BY <2>1, <2>2, <2>3 DEF Chain
<1>8. Sorted(ex, n - 1, au)
  <2>1. \A i, j \in 1 .. n : i <= j => ex[at[i]] <= ex[at[j]]
    BY DEF Holds, Sorted
  <2>. QED  BY <2>1, <1>1 DEF Sorted
<1>. QED
  <2>1. n - 1 \in Nat /\ (n - 1) + 1 = n
    OBVIOUS
  <2>2. au \in [0 .. (n - 1) + 1 -> Pointer]
    BY <1>2, <2>1
  <2>. HIDE DEF au
  <2>. QED  BY <1>5, <1>6, <1>7, <1>8, <2>1, <2>2 DEF Holds, HoldsAll
-----------------------------------------------------------------------------
(* Where the private add_timer stops.                                       *)

\* The loop of the private add_timer ends at p.
Stops(l, ex, t, p) == l.next[p] = NULL \/ ex[t] < ex[l.next[p]]

\* The equation of place, in InsertPlace.
Follows(f, l, ex, t) ==
    f = [p \in Timer |-> IF Stops(l, ex, t, p) THEN p ELSE f[l.next[p]]]

\* The recursion of place defines a function, even where next runs in a circle.
LEMMA PlaceExists ==
    ASSUME NEW l, NEW ex, NEW t, l.next \in [Timer -> Pointer]
    PROVE  \E f : Follows(f, l, ex, t)
<1>. DEFINE stop == {p \in Timer : Stops(l, ex, t, p)}
            self == [p \in Timer |-> p]
<1>1. \A p \in Timer \ stop : l.next[p] \in Timer
  BY DEF Stops, Pointer
<1>2. PICK f : Loops(f, Timer, stop, l.next, self)
  <2>. HIDE DEF stop, self
  <2>. QED  BY <1>1, LoopDefined
<1>3. Follows(f, l, ex, t)
  BY <1>2 DEF Loops, Follows
<1>. QED  BY <1>3

\* What the recursion of InsertPlace returns.
LEMMA InsertPlaceFollows ==
    ASSUME NEW l, NEW ex, NEW t, l.next \in [Timer -> Pointer]
    PROVE  \E f : /\ Follows(f, l, ex, t)
                  /\ \A start : InsertPlace(l, ex, t, start) = f[start]
<1>. DEFINE place == CHOOSE f : Follows(f, l, ex, t)
<1>1. Follows(place, l, ex, t)
  BY PlaceExists
<1>2. \A start : InsertPlace(l, ex, t, start) = place[start]
  BY DEF InsertPlace, Follows, Stops
<1>. HIDE DEF place
<1>. QED  BY <1>1, <1>2

\* From the head of a list, t is put behind the last node that does not expire later.
LEMMA InsertPlaceFound ==
    ASSUME NULL \notin Timer,
           NEW l \in ListType, NEW ex \in [Timer -> Nat], NEW S, NEW n \in Nat \ {0}, NEW at,
           Holds(l, ex, S, n, at), NEW t \in Timer, ex[at[1]] <= ex[t]
    PROVE  \E k \in 1 .. n : /\ InsertPlace(l, ex, t, l.head) = at[k]
                             /\ ex[at[k]] <= ex[t]
                             /\ k < n => ex[t] < ex[at[k + 1]]
<1>1. PICK f : Follows(f, l, ex, t) /\ \A start : InsertPlace(l, ex, t, start) = f[start]
  BY InsertPlaceFollows DEF ListType
<1>2. /\ \A j \in 1 .. n : at[j] \in Timer /\ ex[at[j]] \in Nat /\ l.next[at[j]] = at[j + 1]
      /\ at[n + 1] = NULL /\ l.head = at[1] /\ ex[t] \in Nat
  BY DEF Holds, Row, Chain
<1>. DEFINE Stop(j) == Stops(l, ex, t, at[j])
            Stopping == {j \in 1 .. n : Stop(j)}
<1>3. Stopping # {}
  BY <1>2 DEF Stops
<1>4. PICK k \in Stopping : \A j \in Stopping : k <= j
  <2>1. Stopping \subseteq Nat
    OBVIOUS
  <2>. HIDE DEF Stopping
  <2>. QED  BY <1>3, <2>1, Least
<1>. DEFINE Right == {j \in 1 .. k : f[at[j]] = at[k]}
<1>5. k \in Right
  BY <1>1, <1>2, <1>4 DEF Follows
<1>6. PICK j \in Right : \A i \in Right : j <= i
  <2>1. Right \subseteq Nat
    OBVIOUS
  <2>. HIDE DEF Right
  <2>. QED  BY <1>5, <2>1, Least
<1>7. j = 1
  <2>. SUFFICES ASSUME j > 1 PROVE FALSE
    BY <1>6
  <2>1. j - 1 \in 1 .. n /\ (j - 1) + 1 = j /\ j - 1 \in 1 .. k /\ j - 1 < k
    BY <1>4, <1>6
  <2>2. ~Stop(j - 1)
    BY <1>4, <2>1
  <2>3. f[at[j - 1]] = f[at[j]]
    BY <1>1, <1>2, <2>1, <2>2 DEF Follows
  <2>. QED  BY <1>6, <2>1, <2>3
<1>8. InsertPlace(l, ex, t, l.head) = at[k]
  BY <1>1, <1>2, <1>6, <1>7
<1>9. k < n => ex[t] < ex[at[k + 1]]
  <2>. SUFFICES ASSUME k < n PROVE ex[t] < ex[at[k + 1]]
    OBVIOUS
  <2>1. k \in 1 .. n /\ k + 1 \in 1 .. n /\ Stop(k)
    BY <1>4
  <2>. QED  BY <1>2, <2>1 DEF Stops
<1>10. ex[at[k]] <= ex[t]
  <2>1. CASE k = 1
    BY <2>1
  <2>2. CASE k > 1
    <3>1. k - 1 \in 1 .. n /\ (k - 1) + 1 = k /\ k - 1 \notin Stopping /\ k \in 1 .. n
      BY <1>4, <2>2
    <3>. QED  BY <1>2, <3>1 DEF Stops
  <2>. QED  BY <1>4, <2>1, <2>2
<1>. QED  BY <1>4, <1>8, <1>9, <1>10
-----------------------------------------------------------------------------
(* The operations.                                                          *)

\* add_timer: at the head, behind the node InsertPlace finds, or into the empty list.
LEMMA AddedHolds ==
    ASSUME NULL \notin Timer,
           NEW l \in ListType, NEW ex \in [Timer -> Nat], NEW S, HoldsAll(l, ex, S),
           NEW t \in Timer \ S
    PROVE  Added(l, ex, t) \in ListType /\ HoldsAll(Added(l, ex, t), ex, S \cup {t})
<1>1. PICK n, at : Holds(l, ex, S, n, at)
  BY DEF HoldsAll
<1>. DEFINE m == Added(l, ex, t)
<1>2. /\ \A k \in 1 .. n : at[k] \in Timer /\ at[k] # t
      /\ n \in Nat /\ at[0] = NULL /\ at[n + 1] = NULL /\ l.head = at[1]
      /\ l.next[t] = NULL /\ l.prev[t] = NULL
      /\ \A k \in 1 .. n : l.next[at[k]] = at[k + 1] /\ l.prev[at[k]] = at[k - 1]
      /\ n > 0 => l.tail = at[n]
      /\ \A j, k \in 1 .. n : at[j] = at[k] => j = k
  BY <1>1 DEF Holds, Row, Chain
<1>3. \E k \in 0 .. n : /\ LinkedBehind(l, m, n, at, k, t)
                        /\ k > 0 => ex[at[k]] <= ex[t]
                        /\ k < n => ex[t] <= ex[at[k + 1]]
  <2>1. CASE l.head = NULL
    <3>1. n = 0
      <4>1. n # 0 => 1 \in 1 .. n
        BY <1>2
      <4>. QED  BY <1>2, <2>1, <4>1
    <3>2. m = [l EXCEPT !.head = t, !.tail = t]
      BY <2>1 DEF Added
    <3>3. m \in ListType /\ m.head = t /\ m.tail = t /\ m.next = l.next /\ m.prev = l.prev
      BY <3>2 DEF ListType, Pointer
    <3>. HIDE DEF m
    <3>. QED  BY <1>2, <3>1, <3>3 DEF LinkedBehind
  <2>2. CASE l.head # NULL /\ ex[t] < ex[l.head]
    <3>1. n > 0 /\ l.head \in Timer /\ t # l.head
      BY <1>2, <2>2
    <3>2. m = [l EXCEPT !.next[t] = l.head, !.prev[l.head] = t, !.head = t]
      BY <2>2 DEF Added
    <3>3. /\ m \in ListType /\ m.head = t /\ m.tail = l.tail
          /\ m.next = [l.next EXCEPT ![t] = l.head]
          /\ m.prev = [l.prev EXCEPT ![l.head] = t]
      <4>. HIDE DEF m
      <4>. QED  BY <3>1, <3>2 DEF ListType, Pointer
    <3>. HIDE DEF m
    <3>4. LinkedBehind(l, m, n, at, 0, t)
      BY <1>2, <3>1, <3>3 DEF LinkedBehind, ListType
    <3>. QED  BY <1>2, <2>2, <3>1, <3>4
  <2>3. CASE l.head # NULL /\ ~(ex[t] < ex[l.head])
    <3>1. n \in Nat \ {0} /\ l.head \in Timer /\ ex[at[1]] <= ex[t]
      BY <1>2, <2>3
    <3>2. PICK k \in 1 .. n : /\ InsertPlace(l, ex, t, l.head) = at[k]
                              /\ ex[at[k]] <= ex[t]
                              /\ k < n => ex[t] < ex[at[k + 1]]
      BY <1>1, <3>1, InsertPlaceFound
    <3>. DEFINE p == at[k]
                tmp == l.next[p]
    <3>3. m = IF tmp = NULL
              THEN [l EXCEPT !.prev[t] = p,
                             !.next = [@ EXCEPT ![p] = t, ![t] = NULL],
                             !.tail = t]
              ELSE [l EXCEPT !.next = [@ EXCEPT ![p] = t, ![t] = tmp],
                             !.prev = [@ EXCEPT ![t] = p, ![tmp] = t]]
      <4>. DEFINE q == InsertPlace(l, ex, t, l.head)
      <4>1. m = InsertAfter(l, ex, t, l.head)
        BY <2>3 DEF Added
      <4>2. InsertAfter(l, ex, t, l.head)
                = IF l.next[q] = NULL
                  THEN [l EXCEPT !.prev[t] = q,
                                 !.next = [@ EXCEPT ![q] = t, ![t] = NULL],
                                 !.tail = t]
                  ELSE [l EXCEPT !.next = [@ EXCEPT ![q] = t, ![t] = l.next[q]],
                                 !.prev = [@ EXCEPT ![t] = q, ![l.next[q]] = t]]
        BY DEF InsertAfter
      <4>3. q = p
        BY <3>2
      <4>. HIDE DEF m, q
      <4>. QED  BY <4>1, <4>2, <4>3
    <3>4. p \in Timer /\ p # t /\ tmp = at[k + 1]
      BY <1>2
    <3>. HIDE DEF m
    <3>5. LinkedBehind(l, m, n, at, k, t)
      <4>1. CASE tmp = NULL
        <5>1. k = n
          BY <1>2, <3>4, <4>1
        <5>2. /\ m \in ListType /\ m.head = l.head /\ m.tail = t
              /\ m.prev = [l.prev EXCEPT ![t] = p]
              /\ m.next = [l.next EXCEPT ![p] = t, ![t] = NULL]
          BY <3>3, <3>4, <4>1 DEF ListType, Pointer
        <5>. QED  BY <1>2, <3>4, <5>1, <5>2 DEF LinkedBehind, ListType
      <4>2. CASE tmp # NULL
        <5>1. k < n /\ tmp \in Timer /\ tmp # t
          BY <1>2, <3>4, <4>2
        <5>2. /\ m \in ListType /\ m.head = l.head /\ m.tail = l.tail
              /\ m.prev = [l.prev EXCEPT ![t] = p, ![tmp] = t]
              /\ m.next = [l.next EXCEPT ![p] = t, ![t] = tmp]
          BY <3>3, <3>4, <4>2, <5>1 DEF ListType, Pointer
        <5>. QED  BY <1>2, <3>4, <5>1, <5>2 DEF LinkedBehind, ListType
      <4>. QED  BY <4>1, <4>2
    <3>6. k < n => k + 1 \in 1 .. n
      BY <1>2
    <3>. QED  BY <1>2, <3>2, <3>5, <3>6
  <2>. QED  BY <2>1, <2>2, <2>3
<1>. HIDE DEF m
<1>4. PICK k \in 0 .. n : /\ LinkedBehind(l, m, n, at, k, t)
                          /\ k > 0 => ex[at[k]] <= ex[t]
                          /\ k < n => ex[t] <= ex[at[k + 1]]
  BY <1>3
<1>5. HoldsAll(m, ex, S \cup {t})
  BY <1>1, <1>2, <1>4, LinkedBehindHolds
<1>6. m \in ListType
  BY <1>4 DEF LinkedBehind
<1>. QED  BY <1>5, <1>6 DEF m

\* A node that is deleted is taken out, and then forgotten.
LEMMA DeletedHolds ==
    ASSUME NULL \notin Timer,
           NEW l \in ListType, NEW ex \in [Timer -> Nat], NEW S, HoldsAll(l, ex, S), NEW t \in S
    PROVE  /\ Freed(Deleted(l, t), t) \in ListType
           /\ HoldsAll(Freed(Deleted(l, t), t), ex, S \ {t})
<1>1. PICK n, at : Holds(l, ex, S, n, at)
  BY DEF HoldsAll
<1>2. /\ \A k \in 1 .. n : at[k] \in Timer
      /\ n \in Nat /\ at[0] = NULL /\ at[n + 1] = NULL /\ l.head = at[1]
      /\ \A k \in 1 .. n : l.next[at[k]] = at[k + 1] /\ l.prev[at[k]] = at[k - 1]
      /\ n > 0 => l.tail = at[n]
      /\ \A j, k \in 1 .. n : at[j] = at[k] => j = k
  BY <1>1 DEF Holds, Row, Chain
<1>3. PICK k \in 1 .. n : t = at[k]
  BY <1>1 DEF Holds
<1>4. /\ t \in Timer /\ n > 0
      /\ t = l.head <=> k = 1
      /\ t = l.tail <=> k = n
      /\ k > 1 => at[k - 1] \in Timer /\ at[k - 1] # t
      /\ k < n => at[k + 1] \in Timer /\ at[k + 1] # t
      /\ l.next[t] = at[k + 1] /\ l.prev[t] = at[k - 1]
  BY <1>2, <1>3
<1>. DEFINE d == Deleted(l, t)
            m == Freed(d, t)
<1>5. d \in ListType => /\ m \in ListType /\ m.head = d.head /\ m.tail = d.tail
                        /\ m.next = [d.next EXCEPT ![t] = NULL]
                        /\ m.prev = [d.prev EXCEPT ![t] = NULL]
  BY <1>4 DEF Freed, ListType, Pointer
<1>6. TakenOut(l, m, n, at, k)
  <2>1. CASE k = 1 /\ k = n
    <3>1. d = [l EXCEPT !.head = NULL, !.tail = NULL]
      BY <1>4, <2>1 DEF Deleted
    <3>2. d \in ListType /\ d.head = NULL /\ d.tail = NULL /\ d.next = l.next /\ d.prev = l.prev
      BY <3>1 DEF ListType, Pointer
    <3>. HIDE DEF d
    <3>3. at[2] = NULL /\ at[k - 1] = NULL /\ at[k + 1] = NULL
      BY <1>2, <2>1
    <3>. HIDE DEF m
    <3>. QED  BY <1>3, <1>4, <1>5, <2>1, <3>2, <3>3 DEF TakenOut, ListType
  <2>2. CASE k = 1 /\ k # n
    <3>1. d = [l EXCEPT !.head = l.next[t], !.prev[l.next[t]] = NULL]
      BY <1>4, <2>2 DEF Deleted
    <3>0. at[2] \in Timer /\ l.next[t] = at[2]
      BY <1>2, <1>4, <2>2
    <3>2. /\ d \in ListType /\ d.head = at[2] /\ d.tail = l.tail /\ d.next = l.next
          /\ d.prev = [l.prev EXCEPT ![at[2]] = NULL]
      <4>. HIDE DEF d
      <4>. QED  BY <1>4, <2>2, <3>0, <3>1 DEF ListType, Pointer
    <3>. HIDE DEF d, m
    <3>. QED  BY <1>2, <1>3, <1>4, <1>5, <2>2, <3>2 DEF TakenOut, ListType
  <2>3. CASE k # 1 /\ k = n
    <3>1. d = [l EXCEPT !.tail = l.prev[t], !.next[l.prev[t]] = NULL]
      BY <1>4, <2>3 DEF Deleted
    <3>2. /\ d \in ListType /\ d.head = l.head /\ d.tail = at[k - 1] /\ d.prev = l.prev
          /\ d.next = [l.next EXCEPT ![at[k - 1]] = NULL]
      <4>. HIDE DEF d
      <4>. QED  BY <1>4, <2>3, <3>1 DEF ListType, Pointer
    <3>. HIDE DEF d, m
    <3>. QED  BY <1>2, <1>3, <1>4, <1>5, <2>3, <3>2 DEF TakenOut, ListType
  <2>4. CASE k # 1 /\ k # n
    <3>1. d = [l EXCEPT !.next[l.prev[t]] = l.next[t], !.prev[l.next[t]] = l.prev[t]]
      BY <1>4, <2>4 DEF Deleted, Unlinked
    <3>2. /\ d \in ListType /\ d.head = l.head /\ d.tail = l.tail
          /\ d.next = [l.next EXCEPT ![at[k - 1]] = at[k + 1]]
          /\ d.prev = [l.prev EXCEPT ![at[k + 1]] = at[k - 1]]
      <4>. HIDE DEF d
      <4>. QED  BY <1>4, <2>4, <3>1 DEF ListType, Pointer
    <3>. HIDE DEF d, m
    <3>. QED  BY <1>3, <1>4, <1>5, <2>4, <3>2 DEF TakenOut, ListType
  <2>. QED  BY <2>1, <2>2, <2>3, <2>4
<1>. HIDE DEF m
<1>7. HoldsAll(m, ex, S \ {t})
  BY <1>1, <1>2, <1>3, <1>6, TakenOutHolds
<1>8. m \in ListType
  BY <1>6 DEF TakenOut
<1>. QED  BY <1>7, <1>8 DEF m

\* What tick does to its first node.
LEMMA HeadFiredHolds ==
    ASSUME NULL \notin Timer,
           NEW l \in ListType, NEW ex \in [Timer -> Nat], NEW S, HoldsAll(l, ex, S),
           l.head # NULL
    PROVE  LET h == l.next[l.head]
               rest == IF h = NULL THEN [l EXCEPT !.head = NULL]
                       ELSE [l EXCEPT !.head = h, !.prev[h] = NULL]
           IN  /\ Freed(rest, l.head) \in ListType
               /\ HoldsAll(Freed(rest, l.head), ex, S \ {l.head})
<1>. DEFINE h == l.next[l.head]
            rest == IF h = NULL THEN [l EXCEPT !.head = NULL]
                    ELSE [l EXCEPT !.head = h, !.prev[h] = NULL]
            m == Freed(rest, l.head)
<1>1. PICK n, at : Holds(l, ex, S, n, at)
  BY DEF HoldsAll
<1>2. /\ \A k \in 1 .. n : at[k] \in Timer
      /\ n \in Nat /\ at[0] = NULL /\ at[n + 1] = NULL /\ l.head = at[1]
      /\ \A k \in 1 .. n : l.next[at[k]] = at[k + 1] /\ l.prev[at[k]] = at[k - 1]
      /\ \A j, k \in 1 .. n : at[j] = at[k] => j = k
  BY <1>1 DEF Holds, Row, Chain
<1>3. 1 \in 1 .. n /\ l.head \in Timer /\ h = at[2]
  BY <1>2
<1>4. rest \in ListType => /\ m \in ListType /\ m.head = rest.head /\ m.tail = rest.tail
                           /\ m.next = [rest.next EXCEPT ![l.head] = NULL]
                           /\ m.prev = [rest.prev EXCEPT ![l.head] = NULL]
  BY <1>3 DEF Freed, ListType, Pointer
<1>5. TakenOut(l, m, n, at, 1)
  <2>1. CASE h = NULL
    <3>1. n = 1
      BY <1>2, <1>3, <2>1
    <3>2. rest \in ListType /\ rest.head = NULL /\ rest.tail = l.tail /\ rest.next = l.next
          /\ rest.prev = l.prev
      BY <2>1 DEF ListType, Pointer
    <3>. HIDE DEF rest, m
    <3>. QED  BY <1>2, <1>3, <1>4, <2>1, <3>1, <3>2 DEF TakenOut, ListType
  <2>2. CASE h # NULL
    <3>1. n > 1 /\ h \in Timer /\ h # l.head
      BY <1>2, <1>3, <2>2
    <3>2. rest \in ListType /\ rest.head = h /\ rest.tail = l.tail /\ rest.next = l.next
          /\ rest.prev = [l.prev EXCEPT ![h] = NULL]
      BY <2>2, <3>1 DEF ListType, Pointer
    <3>. HIDE DEF rest, m
    <3>. QED  BY <1>2, <1>3, <1>4, <3>1, <3>2 DEF TakenOut, ListType
  <2>. QED  BY <2>1, <2>2
<1>. HIDE DEF m
<1>6. HoldsAll(m, ex, S \ {l.head})
  BY <1>1, <1>2, <1>3, <1>5, TakenOutHolds
<1>7. m \in ListType
  BY <1>5 DEF TakenOut
<1>. QED  BY <1>6, <1>7 DEF m
-----------------------------------------------------------------------------
(* What is met from the head.                                               *)

\* The first i + 1 nodes of a row of n.
First(i, n, at) == {at[j] : j \in {k \in 1 .. n : k <= i + 1}}

\* The equation of within, in Reachable.
Within(f, l) ==
    f = [n \in 0 .. Cardinality(Timer) |->
            IF n = 0 THEN {l.head} \ {NULL}
            ELSE f[n - 1] \cup ({l.next[t] : t \in f[n - 1]} \ {NULL})]

\* One step along next from the first nodes of a row meets one node more.
LEMMA FirstGrows ==
    ASSUME NULL \notin Timer,
           NEW l, NEW ex, NEW S, NEW n, NEW at, Holds(l, ex, S, n, at), NEW i \in Nat
    PROVE  /\ First(0, n, at) = {l.head} \ {NULL}
           /\ First(i + 1, n, at)
                 = First(i, n, at) \cup ({l.next[t] : t \in First(i, n, at)} \ {NULL})
<1>1. /\ n \in Nat /\ \A k \in 1 .. n : at[k] \in Timer /\ l.next[at[k]] = at[k + 1]
      /\ at[n + 1] = NULL /\ l.head = at[1]
  BY DEF Holds, Row, Chain
<1>2. First(0, n, at) = {l.head} \ {NULL}
  <2>1. CASE n = 0
    BY <1>1, <2>1 DEF First
  <2>2. CASE n > 0
    <3>1. {k \in 1 .. n : k <= 0 + 1} = {1}
      BY <1>1, <2>2
    <3>. QED  BY <1>1, <2>2, <3>1 DEF First
  <2>. QED  BY <1>1, <2>1, <2>2
<1>3. ASSUME NEW u \in First(i + 1, n, at)
      PROVE  u \in First(i, n, at) \cup ({l.next[t] : t \in First(i, n, at)} \ {NULL})
  <2>1. PICK k \in 1 .. n : k <= (i + 1) + 1 /\ u = at[k]
    BY <1>3 DEF First
  <2>2. CASE k <= i + 1
    BY <2>1, <2>2 DEF First
  <2>3. CASE k = i + 2
    <3>1. k - 1 \in 1 .. n /\ k - 1 <= i + 1 /\ (k - 1) + 1 = k
      BY <1>1, <2>3
    <3>2. at[k - 1] \in First(i, n, at) /\ l.next[at[k - 1]] = u /\ u # NULL
      BY <1>1, <2>1, <3>1 DEF First
    <3>. QED  BY <3>2
  <2>. QED  BY <1>1, <2>1, <2>2, <2>3
<1>4. ASSUME NEW u \in First(i, n, at) \cup ({l.next[t] : t \in First(i, n, at)} \ {NULL})
      PROVE  u \in First(i + 1, n, at)
  <2>1. CASE u \in First(i, n, at)
    BY <1>1, <2>1 DEF First
  <2>2. CASE u \in {l.next[t] : t \in First(i, n, at)} \ {NULL}
    <3>1. PICK k \in 1 .. n : k <= i + 1 /\ u = l.next[at[k]]
      BY <2>2 DEF First
    <3>2. u = at[k + 1] /\ k + 1 \in 1 .. n /\ k + 1 <= (i + 1) + 1
      BY <1>1, <2>2, <3>1
    <3>. QED  BY <3>2 DEF First
  <2>. QED  BY <1>4, <2>1, <2>2
<1>. QED  BY <1>2, <1>3, <1>4

\* A row is no longer than there are nodes, and the last step meets its last node.
LEMMA RowFits ==
    ASSUME IsFiniteSet(Timer), NULL \notin Timer, NEW n, NEW at, Row(n, at)
    PROVE  /\ Cardinality(Timer) \in Nat
           /\ First(Cardinality(Timer), n, at) = {at[k] : k \in 1 .. n}
<1>1. n \in Nat /\ Cardinality(Timer) \in Nat
  BY FS_CardinalityType DEF Row
<1>2. IsFiniteSet(1 .. n) /\ Cardinality(1 .. n) = n
  <2>1. 1 \in Int /\ n \in Int
    BY <1>1
  <2>2. Cardinality(1 .. n) = IF 1 > n THEN 0 ELSE n - 1 + 1
    BY <2>1, FS_Interval
  <2>. QED  BY <1>1, <2>1, <2>2, FS_Interval
<1>. DEFINE f == [k \in 1 .. n |-> at[k]]
<1>3. f \in Injection(1 .. n, Timer)
  BY DEF Injection, IsInjective, Row
<1>4. n <= Cardinality(Timer)
  <2>. HIDE DEF f
  <2>. QED  BY <1>2, <1>3, FS_Injection
<1>5. {k \in 1 .. n : k <= Cardinality(Timer) + 1} = 1 .. n
  BY <1>1, <1>4
<1>. QED  BY <1>1, <1>5 DEF First

\* Everything a list holds is met from its head, and nothing else.
LEMMA ReachableHeld ==
    ASSUME IsFiniteSet(Timer), NULL \notin Timer, HoldsAll(list, expire, allocated)
    PROVE  Reachable = allocated
<1>1. PICK n, at : Holds(list, expire, allocated, n, at)
  BY DEF HoldsAll
<1>2. /\ Cardinality(Timer) \in Nat /\ Row(n, at)
      /\ First(Cardinality(Timer), n, at) = allocated
  BY <1>1, RowFits DEF Holds
<1>. DEFINE C == Cardinality(Timer)
            g == [i \in 0 .. C |-> First(i, n, at)]
<1>3. First(0, n, at) = {list.head} \ {NULL}
  BY <1>1, FirstGrows
<1>4. ASSUME NEW i \in 0 .. C, i # 0
      PROVE  First(i, n, at) = First(i - 1, n, at)
                 \cup ({list.next[t] : t \in First(i - 1, n, at)} \ {NULL})
  <2>1. i - 1 \in Nat /\ (i - 1) + 1 = i
    BY <1>2, <1>4
  <2>2. First((i - 1) + 1, n, at) = First(i - 1, n, at)
                 \cup ({list.next[t] : t \in First(i - 1, n, at)} \ {NULL})
    BY <1>1, <2>1, FirstGrows
  <2>. QED  BY <2>1, <2>2
<1>5. Within(g, list)
  <2>1. ASSUME NEW i \in 0 .. C
        PROVE  g[i] = IF i = 0 THEN {list.head} \ {NULL}
                      ELSE g[i - 1] \cup ({list.next[t] : t \in g[i - 1]} \ {NULL})
    <3>1. CASE i = 0
      BY <1>3, <3>1
    <3>2. CASE i # 0
      <4>1. i - 1 \in 0 .. C
        BY <1>2, <3>2
      <4>. QED  BY <1>4, <3>2, <4>1
    <3>. QED  BY <3>1, <3>2
  <2>. QED  BY <2>1 DEF Within
<1>. DEFINE within == CHOOSE f : Within(f, list)
<1>6. Within(within, list)
  BY <1>5
<1>7. Reachable = within[C]
  BY DEF Reachable, Within
<1>. HIDE DEF g, within
<1>8. ASSUME NEW i \in 0 .. C PROVE within[i] = First(i, n, at)
  <2>. DEFINE Wrong == {j \in 0 .. C : within[j] # First(j, n, at)}
  <2>. SUFFICES ASSUME Wrong # {} PROVE FALSE
    BY <1>8
  <2>1. PICK j \in Wrong : \A k \in Wrong : j <= k
    <3>1. Wrong \subseteq Nat
      BY <1>2
    <3>. HIDE DEF Wrong
    <3>. QED  BY <3>1, Least
  <2>2. j # 0
    BY <1>2, <1>3, <1>6, <2>1 DEF Within
  <2>3. j - 1 \in 0 .. C /\ ~(j <= j - 1) /\ j \in 0 .. C
    BY <1>2, <2>1, <2>2
  <2>4. within[j - 1] = First(j - 1, n, at)
    BY <2>1, <2>3
  <2>5. within[j] = within[j - 1] \cup ({list.next[t] : t \in within[j - 1]} \ {NULL})
    BY <1>6, <2>2, <2>3 DEF Within
  <2>. QED  BY <1>4, <2>1, <2>2, <2>3, <2>4, <2>5
<1>. QED  BY <1>2, <1>7, <1>8

\* A list that holds its timers is the ascending doubly linked list of line 33.
LEMMA HeldIsAscending ==
    ASSUME IsFiniteSet(Timer), NULL \notin Timer, HoldsAll(list, expire, allocated)
    PROVE  AscendingDoublyLinked
<1>1. PICK n, at : Holds(list, expire, allocated, n, at)
  BY DEF HoldsAll
<1>2. /\ n \in Nat /\ at[0] = NULL /\ at[n + 1] = NULL /\ list.head = at[1]
      /\ \A k \in 1 .. n : at[k] \in Timer /\ list.next[at[k]] = at[k + 1] /\ list.prev[at[k]] = at[k - 1]
      /\ n > 0 => list.tail = at[n]
      /\ \A j, k \in 1 .. n : at[j] = at[k] => j = k
      /\ \A j, k \in 1 .. n : j <= k => expire[at[j]] <= expire[at[k]]
      /\ allocated = {at[k] : k \in 1 .. n}
  BY <1>1 DEF Holds, Row, Chain, Sorted
<1>3. ASSUME NEW t \in allocated
      PROVE  /\ list.prev[t] = NULL <=> t = list.head
             /\ list.next[t] = NULL <=> t = list.tail
             /\ list.next[t] # NULL =>
                    /\ list.next[t] \in allocated
                    /\ list.prev[list.next[t]] = t
                    /\ expire[t] <= expire[list.next[t]]
  <2>1. PICK k \in 1 .. n : t = at[k]
    BY <1>2
  <2>2. list.prev[t] = NULL <=> t = list.head
    <3>1. 1 \in 1 .. n /\ (k # 1 => k - 1 \in 1 .. n)
      BY <1>2
    <3>. QED  BY <1>2, <2>1, <3>1
  <2>3. list.next[t] = NULL <=> k = n
    <3>1. k # n => k + 1 \in 1 .. n
      BY <1>2
    <3>. QED  BY <1>2, <2>1, <3>1
  <2>4. t = list.tail <=> k = n
    BY <1>2, <2>1
  <2>5. ASSUME list.next[t] # NULL
        PROVE  /\ list.next[t] \in allocated
               /\ list.prev[list.next[t]] = t
               /\ expire[t] <= expire[list.next[t]]
    <3>1. k + 1 \in 1 .. n /\ (k + 1) - 1 = k /\ k <= k + 1
      BY <1>2, <2>3, <2>5
    <3>. QED  BY <1>2, <2>1, <3>1
  <2>. QED  BY <2>2, <2>3, <2>4, <2>5
<1>. QED  BY <1>3, ReachableHeld DEF AscendingDoublyLinked
-----------------------------------------------------------------------------
(* What the operations make of a list that is no longer in order: they write   *)
(* pointers, as long as the private add_timer finds a place.                  *)

\* Following next from start comes to a node that has no successor.
Ending(next, start) ==
    \A S \in SUBSET Timer :
        start \in S /\ (\A u \in S : next[u] \in Timer => next[u] \in S) =>
            \E u \in S : next[u] = NULL

\* Then the loop of the private add_timer ends, at that node or before.
LEMMA InsertPlaceEnds ==
    ASSUME NEW l \in ListType, NEW ex, NEW t, NEW start \in Timer, Ending(l.next, start)
    PROVE  /\ InsertPlace(l, ex, t, start) \in Timer
           /\ Stops(l, ex, t, InsertPlace(l, ex, t, start))
<1>1. PICK f : Follows(f, l, ex, t) /\ \A x : InsertPlace(l, ex, t, x) = f[x]
  BY InsertPlaceFollows DEF ListType
<1>. DEFINE Lost == {u \in Timer : ~(f[u] \in Timer /\ Stops(l, ex, t, f[u]))}
<1>2. ASSUME NEW u \in Lost
      PROVE  ~Stops(l, ex, t, u) /\ f[u] = f[l.next[u]]
  BY <1>1 DEF Follows
<1>3. ASSUME NEW u \in Lost, l.next[u] \in Timer PROVE l.next[u] \in Lost
  BY <1>2, <1>3
<1>4. \A u \in Lost : l.next[u] # NULL
  BY <1>2 DEF Stops
<1>5. start \notin Lost
  <2>1. Lost \in SUBSET Timer
    OBVIOUS
  <2>. HIDE DEF Lost
  <2>. QED  BY <1>3, <1>4, <2>1 DEF Ending
<1>. QED  BY <1>1, <1>5

\* A node that is linked behind another.
LEMMA InsertAfterTyped ==
    ASSUME NEW l \in ListType, NEW ex, NEW t \in Timer, NEW start,
           InsertPlace(l, ex, t, start) \in Timer
    PROVE  /\ InsertAfter(l, ex, t, start) \in ListType
           /\ InsertAfter(l, ex, t, start).next =
                  [l.next EXCEPT ![InsertPlace(l, ex, t, start)] = t,
                                 ![t] = l.next[InsertPlace(l, ex, t, start)]]
<1>. DEFINE p == InsertPlace(l, ex, t, start)
            tmp == l.next[p]
            m == InsertAfter(l, ex, t, start)
<1>1. m = IF tmp = NULL
          THEN [l EXCEPT !.prev[t] = p,
                         !.next = [@ EXCEPT ![p] = t, ![t] = NULL],
                         !.tail = t]
          ELSE [l EXCEPT !.next = [@ EXCEPT ![p] = t, ![t] = tmp],
                         !.prev = [@ EXCEPT ![t] = p, ![tmp] = t]]
  BY DEF InsertAfter
<1>2. p \in Timer /\ tmp \in Pointer
  BY DEF ListType
<1>. HIDE DEF m, p, tmp
<1>3. CASE tmp = NULL
  <2>1. /\ m.head = l.head /\ m.tail = t /\ m.prev = [l.prev EXCEPT ![t] = p]
        /\ m.next = [l.next EXCEPT ![p] = t, ![t] = tmp] /\ m \in ListType
    BY <1>1, <1>2, <1>3 DEF ListType, Pointer
  <2>. QED  BY <2>1 DEF m, p, tmp
<1>4. CASE tmp # NULL
  <2>1. tmp \in Timer
    BY <1>2, <1>4 DEF Pointer
  <2>2. /\ m.head = l.head /\ m.tail = l.tail /\ m.prev = [l.prev EXCEPT ![t] = p, ![tmp] = t]
        /\ m.next = [l.next EXCEPT ![p] = t, ![t] = tmp] /\ m \in ListType
    BY <1>1, <1>2, <1>4, <2>1 DEF ListType, Pointer
  <2>. QED  BY <2>2 DEF m, p, tmp
<1>. QED  BY <1>3, <1>4

\* Moving any node but the head.
LEMMA OtherMovedTyped ==
    ASSUME NEW l \in ListType, NEW ex, NEW t \in Timer, l.head \in Timer, Ending(l.next, l.head)
    PROVE  OtherMoved(l, ex, t) \in ListType
  BY InsertPlaceEnds, InsertAfterTyped DEF OtherMoved

\* Moving the head: where the first insertion has put it, the second finds a place
\* too.
LEMMA HeadMovedTyped ==
    ASSUME NULL \notin Timer,
           NEW l \in ListType, NEW ex \in [Timer -> Nat], NEW t \in Timer,
           l.next[t] \in Timer, Ending([l.next EXCEPT ![t] = NULL], l.next[t])
    PROVE  HeadMoved(l, ex, t) \in ListType
<1>. DEFINE h == l.next[t]
            cut == [l EXCEPT !.head = h, !.prev[h] = NULL, !.next[t] = NULL]
            p == InsertPlace(cut, ex, t, h)
            once == InsertAfter(cut, ex, t, h)
            q == InsertPlace(once, ex, t, h)
<1>1. cut \in ListType /\ cut.next = [l.next EXCEPT ![t] = NULL] /\ h \in Timer
  BY DEF ListType, Pointer
<1>2. HeadMoved(l, ex, t) = InsertAfter(once, ex, t, h)
  BY DEF HeadMoved
<1>. HIDE DEF cut, h
<1>3. Ending(cut.next, h)
  BY <1>1 DEF h
<1>4. p \in Timer /\ Stops(cut, ex, t, p)
  BY <1>1, <1>3, InsertPlaceEnds
<1>. HIDE DEF p
<1>5. once \in ListType /\ once.next = [cut.next EXCEPT ![p] = t, ![t] = cut.next[p]]
  <2>1. InsertPlace(cut, ex, t, h) \in Timer /\ cut \in ListType
    BY <1>1, <1>4 DEF p
  <2>. DEFINE m == InsertAfter(cut, ex, t, h)
              r == InsertPlace(cut, ex, t, h)
  <2>2. m \in ListType /\ m.next = [cut.next EXCEPT ![r] = t, ![t] = cut.next[r]]
    <3>. HIDE DEF m, r
    <3>. QED  BY <2>1, InsertAfterTyped DEF m, r
  <2>. QED  BY <2>2 DEF once, p
<1>. HIDE DEF once
<1>6. PICK f : Follows(f, once, ex, t) /\ \A x : InsertPlace(once, ex, t, x) = f[x]
  BY <1>5, InsertPlaceFollows DEF ListType
<1>7. f[t] = t
  <2>1. once.next[t] = cut.next[p]
    BY <1>1, <1>4, <1>5 DEF ListType
  <2>2. Stops(once, ex, t, t)
    BY <1>4, <2>1 DEF Stops
  <2>. QED  BY <1>6, <2>2 DEF Follows
<1>8. f[p] = t
  <2>1. CASE p = t
    BY <1>7, <2>1
  <2>2. CASE p # t
    <3>1. once.next[p] = t
      BY <1>1, <1>4, <1>5, <2>2 DEF ListType
    <3>2. ~(ex[t] < ex[t])
      BY DEF Pointer
    <3>. QED  BY <1>4, <1>6, <1>7, <3>1, <3>2 DEF Follows, Stops
  <2>. QED  BY <2>1, <2>2
<1>. DEFINE Lost == {u \in Timer : f[u] \notin Timer}
<1>9. ASSUME NEW u \in Lost
      PROVE  once.next[u] = cut.next[u] /\ ~Stops(once, ex, t, u) /\ f[u] = f[once.next[u]]
  <2>1. u # t /\ u # p
    BY <1>4, <1>7, <1>8
  <2>. QED  BY <1>1, <1>4, <1>5, <1>6, <2>1 DEF Follows, ListType
<1>10. ASSUME NEW u \in Lost, cut.next[u] \in Timer PROVE cut.next[u] \in Lost
  BY <1>9, <1>10
<1>11. \A u \in Lost : cut.next[u] # NULL
  BY <1>9 DEF Stops
<1>12. h \notin Lost
  <2>1. Lost \in SUBSET Timer
    OBVIOUS
  <2>. HIDE DEF Lost
  <2>. QED  BY <1>3, <1>10, <1>11, <2>1 DEF Ending
<1>13. q \in Timer
  BY <1>1, <1>6, <1>12
<1>14. InsertAfter(once, ex, t, h) \in ListType
  BY <1>5, <1>13, InsertAfterTyped
<1>. QED  BY <1>2, <1>14

\* add_timer.
LEMMA AddedTyped ==
    ASSUME NEW l \in ListType, NEW ex, NEW t \in Timer,
           l.head # NULL => Ending(l.next, l.head)
    PROVE  Added(l, ex, t) \in ListType
<1>1. CASE l.head = NULL
  BY <1>1 DEF Added, ListType, Pointer
<1>2. CASE l.head # NULL /\ ex[t] < ex[l.head]
  <2>. DEFINE m == Added(l, ex, t)
  <2>1. m = [l EXCEPT !.next[t] = l.head, !.prev[l.head] = t, !.head = t]
    BY <1>2 DEF Added
  <2>2. l.head \in Timer
    BY <1>2 DEF ListType, Pointer
  <2>. HIDE DEF m
  <2>3. /\ m.head = t /\ m.tail = l.tail /\ m.next = [l.next EXCEPT ![t] = l.head]
        /\ m.prev = [l.prev EXCEPT ![l.head] = t] /\ m \in ListType
    BY <2>1, <2>2 DEF ListType, Pointer
  <2>. QED  BY <2>3 DEF m
<1>3. CASE l.head # NULL /\ ~(ex[t] < ex[l.head])
  <2>1. l.head \in Timer
    BY <1>3 DEF ListType, Pointer
  <2>2. InsertAfter(l, ex, t, l.head) \in ListType
    BY <1>3, <2>1, InsertPlaceEnds, InsertAfterTyped
  <2>. QED  BY <1>3, <2>2 DEF Added
<1>. QED  BY <1>1, <1>2, <1>3

\* del_timer.
LEMMA DeletedTyped ==
    ASSUME NEW l \in ListType, NEW t \in Timer
    PROVE  Freed(Deleted(l, t), t) \in ListType
<1>. DEFINE d == Deleted(l, t)
            u == l.next[t]
            v == l.prev[t]
<1>0. u \in Pointer /\ v \in Pointer
  BY DEF ListType
<1>1. \/ d = [l EXCEPT !.head = NULL, !.tail = NULL]
      \/ d = [l EXCEPT !.head = u, !.prev[u] = NULL]
      \/ d = [l EXCEPT !.tail = v, !.next[v] = NULL]
      \/ d = [l EXCEPT !.next[v] = u, !.prev[u] = v]
  BY DEF Deleted, Unlinked
<1>. HIDE DEF d, u, v
<1>2. d \in ListType
  <2>1. CASE d = [l EXCEPT !.head = NULL, !.tail = NULL]
    BY <2>1 DEF ListType, Pointer
  <2>2. CASE d = [l EXCEPT !.head = u, !.prev[u] = NULL]
    BY <1>0, <2>2 DEF ListType, Pointer
  <2>3. CASE d = [l EXCEPT !.tail = v, !.next[v] = NULL]
    BY <1>0, <2>3 DEF ListType, Pointer
  <2>4. CASE d = [l EXCEPT !.next[v] = u, !.prev[u] = v]
    BY <1>0, <2>4 DEF ListType, Pointer
  <2>. QED  BY <1>1, <2>1, <2>2, <2>3, <2>4
<1>. QED  BY <1>2 DEF d, Freed, ListType, Pointer

-----------------------------------------------------------------------------
(* The invariant.                                                           *)

\* The user sets no timer past its successor: the calls adjust_timer handles as its
\* comments say (the cases "head" and "middle" are findings of other runs).
OrderKept == AdjustCases \subseteq {"tail", "inplace"}

\* The type invariant, with the name for the type of the list.
LEMMA ListTypeOK == TypeOK <=>
    /\ list \in ListType
    /\ expire \in [Timer -> Nat] /\ allocated \subseteq Timer
    /\ now \in 0 .. MaxTime /\ cur \in 0 .. now
    /\ pc \in {"idle", "tick", "crashed"}
  BY DEF TypeOK, ListType

\* sort_timer_lst begins empty.
LEMMA InitInv == Init => Inv
<1>. SUFFICES ASSUME Init PROVE Inv
  OBVIOUS
<1>1. TypeOK
  BY TimerAssumption DEF Init, TypeOK, Pointer
<1>. DEFINE at == [k \in 0 .. 1 |-> NULL]
<1>2. /\ 0 \in Nat /\ 0 + 1 = 1 /\ 1 .. 0 = {} /\ at \in [0 .. 1 -> Pointer]
      /\ at[0] = NULL /\ at[1] = NULL
  BY DEF Pointer
<1>. HIDE DEF at
<1>3. Holds(list, expire, allocated, 0, at)
  BY <1>2 DEF Init, Holds, Row, Chain, Sorted
<1>. QED  BY <1>1, <1>3 DEF Inv, HoldsAll

\* A timer that is moved on, and not past its successor, is still in its place.
LEMMA MovedInPlace ==
    ASSUME Inv, NEW t \in allocated, NEW e \in Nat, e >= expire[t],
           AdjustCase(t, e) \in {"tail", "inplace"}
    PROVE  HoldsAll(list, [expire EXCEPT ![t] = e], allocated)
<1>1. PICK n, at : Holds(list, expire, allocated, n, at)
  BY DEF HoldsAll, Inv
<1>2. /\ n \in Nat /\ at[n + 1] = NULL
      /\ \A k \in 1 .. n : at[k] \in Timer /\ list.next[at[k]] = at[k + 1]
      /\ \A j, k \in 1 .. n : at[j] = at[k] => j = k
      /\ \A j, k \in 1 .. n : j <= k => expire[at[j]] <= expire[at[k]]
      /\ allocated = {at[k] : k \in 1 .. n}
  BY <1>1 DEF Holds, Row, Chain, Sorted
<1>3. PICK k \in 1 .. n : t = at[k]
  BY <1>2
<1>4. k < n => e < expire[at[k + 1]]
  <2>. SUFFICES ASSUME k < n PROVE e < expire[at[k + 1]]
    OBVIOUS
  <2>1. k + 1 \in 1 .. n /\ list.next[t] = at[k + 1] /\ list.next[t] # NULL
    BY <1>2, <1>3, TimerAssumption
  <2>. QED  BY <2>1 DEF AdjustCase
<1>. DEFINE ex == [expire EXCEPT ![t] = e]
<1>5. \A u \in Timer : ex[u] = IF u = t THEN e ELSE expire[u]
  BY ListTypeOK DEF Inv
<1>6. \A u \in Timer : expire[u] \in Nat
  BY ListTypeOK DEF Inv
<1>. HIDE DEF ex
<1>7. Sorted(ex, n, at)
  <2>. SUFFICES ASSUME NEW i \in 1 .. n, NEW j \in 1 .. n, i <= j PROVE ex[at[i]] <= ex[at[j]]
    BY DEF Sorted
  <2>1. expire[at[i]] <= expire[at[j]]
    BY <1>2
  <2>2. CASE i = k
    <3>1. CASE j = k
      BY <1>2, <1>3, <1>5, <2>2, <3>1
    <3>2. CASE j # k
      <4>1. k < n /\ k + 1 \in 1 .. n /\ k + 1 <= j
        BY <1>2, <2>2, <3>2
      <4>2. e < expire[at[k + 1]] /\ expire[at[k + 1]] <= expire[at[j]]
        BY <1>2, <1>4, <4>1
      <4>. QED  BY <1>2, <1>3, <1>5, <1>6, <2>2, <3>2, <4>1, <4>2
    <3>. QED  BY <3>1, <3>2
  <2>3. CASE i # k
    BY <1>2, <1>3, <1>5, <1>6, <2>1, <2>3
  <2>. QED  BY <2>2, <2>3
<1>8. Holds(list, ex, allocated, n, at)
  BY <1>1, <1>7 DEF Holds
<1>. QED  BY <1>8 DEF HoldsAll, ex

\* Every call, every step of a tick and every second that passes keep the list in order.
LEMMA NextInv ==
    ASSUME OrderKept
    PROVE  Inv /\ [Next]_vars => Inv'
<1>. SUFFICES ASSUME Inv, [Next]_vars PROVE Inv'
  OBVIOUS
<1>. USE TimerAssumption
<1>0. /\ list \in ListType
      /\ expire \in [Timer -> Nat] /\ allocated \subseteq Timer
      /\ now \in 0 .. MaxTime /\ cur \in 0 .. now
      /\ pc \in {"idle", "tick", "crashed"}
      /\ HoldsAll(list, expire, allocated)
  BY ListTypeOK DEF Inv
<1>1. ASSUME list' \in ListType, expire' \in [Timer -> Nat], allocated' \subseteq Timer,
             now' \in 0 .. MaxTime, cur' \in 0 .. now', pc' \in {"idle", "tick", "crashed"},
             HoldsAll(list', expire', allocated')
      PROVE  Inv'
  BY <1>1 DEF Inv, TypeOK, ListType, HoldsAll, Holds, Row, Chain, Sorted, Pointer
<1>2. ASSUME NEW t \in Timer, AddTimer(t) PROVE Inv'
  <2>1. PICK s \in Spans : expire' = [expire EXCEPT ![t] = now + s]
    BY <1>2 DEF AddTimer
  <2>2. expire' \in [Timer -> Nat]
    BY <1>0, <2>1
  <2>3. t \notin allocated
    BY <1>2 DEF AddTimer
  <2>4. HoldsAll(list, expire', allocated) /\ list.next[t] = NULL /\ list.prev[t] = NULL
    <3>1. PICK n, at : Holds(list, expire, allocated, n, at)
      BY <1>0 DEF HoldsAll
    <3>2. \A k \in 1 .. n : at[k] \in Timer \ {t} /\ expire'[at[k]] = expire[at[k]]
      BY <1>0, <2>1, <2>3, <3>1 DEF Holds, Row
    <3>3. Holds(list, expire', allocated, n, at)
      BY <3>1, <3>2 DEF Holds, Sorted
    <3>4. list.next[t] = NULL /\ list.prev[t] = NULL
      BY <2>3, <3>1 DEF Holds, Chain
    <3>. QED  BY <3>3, <3>4 DEF HoldsAll
  <2>5. [list EXCEPT !.next[t] = NULL, !.prev[t] = NULL] = list
    BY <1>0, <2>4 DEF ListType
  <2>6. list' = Added(list, expire', t)
    BY <1>2, <2>5 DEF AddTimer
  <2>7. list' \in ListType /\ HoldsAll(list', expire', allocated \cup {t})
    BY <1>0, <2>2, <2>3, <2>4, <2>6, AddedHolds
  <2>. QED  BY <1>0, <1>1, <1>2, <2>2, <2>7 DEF AddTimer
<1>3. ASSUME NEW t \in Timer, DeleteTimer(t) PROVE Inv'
  <2>1. t \in allocated /\ list' = Freed(Deleted(list, t), t) /\ allocated' = allocated \ {t}
        /\ UNCHANGED <<expire, now, pc, cur>>
    BY <1>3 DEF DeleteTimer
  <2>2. list' \in ListType /\ HoldsAll(list', expire, allocated')
    BY <1>0, <2>1, DeletedHolds
  <2>. QED  BY <1>0, <1>1, <2>1, <2>2
<1>4. ASSUME NEW t \in Timer, NEW s \in Spans, Adjust(t, now + s) PROVE Inv'
  <2>1. now + s \in Nat /\ t \in allocated /\ now + s >= expire[t]
    BY <1>0, <1>4 DEF Adjust
  <2>2. AdjustCase(t, now + s) \in {"tail", "inplace"}
    BY <1>4 DEF Adjust, OrderKept
  <2>3. list' = list /\ expire' = [expire EXCEPT ![t] = now + s]
        /\ pc' \in {"crashed", pc} /\ UNCHANGED <<allocated, now, cur>>
    BY <1>4, <2>2 DEF Adjust
  <2>4. HoldsAll(list, expire', allocated)
    BY <2>1, <2>2, <2>3, MovedInPlace
  <2>. QED  BY <1>0, <1>1, <2>1, <2>3, <2>4
<1>5. CASE TickBegin
  BY <1>0, <1>1, <1>5 DEF TickBegin, TickTime
<1>6. CASE TickFire
  <2>1. list' \in ListType /\ HoldsAll(list', expire, allocated \ {list.head})
    BY <1>0, <1>6, HeadFiredHolds DEF TickFire
  <2>. QED  BY <1>0, <1>1, <1>6, <2>1 DEF TickFire
<1>7. CASE TickEnd
  BY <1>0, <1>1, <1>7 DEF TickEnd
<1>8. CASE TimePasses
  BY <1>0, <1>1, <1>8 DEF TimePasses
<1>9. CASE UNCHANGED vars
  BY <1>0, <1>1, <1>9 DEF vars
<1>. QED  BY <1>2, <1>3, <1>4, <1>5, <1>6, <1>7, <1>8, <1>9 DEF Next

\* The pointers of lst_timer.h point to nodes or are null, and a tick never works
\* with a time ahead of the clock: the type invariant, for any number of timers, any
\* spans and any clock, as long as no timer is moved past its successor.
THEOREM ListTypeCorrect ==
    ASSUME OrderKept
    PROVE  Spec => []TypeOK
  BY InitInv, NextInv, PTL DEF Spec, Inv

\* As long as no timer is moved past its successor, add_timer, del_timer,
\* adjust_timer and tick keep sort_timer_lst "an ascending doubly linked list,
\* with a head and a tail" (line 33) that links exactly the timers that exist.
THEOREM ListAscending ==
    ASSUME OrderKept, IsFiniteSet(Timer)
    PROVE  Spec => []AscendingDoublyLinked
<1>1. Inv => AscendingDoublyLinked
  BY HeldIsAscending, TimerAssumption DEF Inv
<1>. QED  BY <1>1, InitInv, NextInv, PTL DEF Spec

-----------------------------------------------------------------------------
(* The refinement.                                                          *)

\* The empty list is the empty queue.
LEMMA InitRefines == Init => Queue!Init
  BY DEF Init, Queue!Init

\* The head is the first to expire.
LEMMA HeadFirst ==
    ASSUME Inv
    PROVE  /\ list.head = NULL => allocated = {}
           /\ list.head # NULL => list.head \in allocated
           /\ \A u \in allocated : expire[list.head] <= expire[u]
<1>1. PICK n, at : Holds(list, expire, allocated, n, at)
  BY DEF HoldsAll, Inv
<1>2. /\ n \in Nat /\ at[n + 1] = NULL /\ list.head = at[1]
      /\ \A k \in 1 .. n : at[k] \in Timer
      /\ \A j, k \in 1 .. n : j <= k => expire[at[j]] <= expire[at[k]]
      /\ allocated = {at[k] : k \in 1 .. n}
  BY <1>1 DEF Holds, Row, Chain, Sorted
<1>3. CASE n = 0
  BY <1>2, <1>3
<1>4. CASE n > 0
  <2>1. 1 \in 1 .. n /\ \A k \in 1 .. n : 1 <= k
    BY <1>2, <1>4
  <2>. QED  BY <1>2, <2>1, TimerAssumption
<1>. QED  BY <1>2, <1>3, <1>4

\* Every step of the list is a step of the queue, or none of its business.
LEMMA NextRefines ==
    ASSUME Inv, [Next]_vars
    PROVE  [Queue!Next]_(Queue!qvars)
<1>. USE TimerAssumption
<1>0. /\ expire \in [Timer -> Nat] /\ allocated \subseteq Timer
      /\ now \in Nat /\ cur \in 0 .. now
  BY DEF Inv, TypeOK
<1>1. ASSUME NEW t \in Timer, AddTimer(t) PROVE Queue!Add(t)
  <2>1. PICK s \in Spans : expire' = [expire EXCEPT ![t] = now + s]
    BY <1>1 DEF AddTimer
  <2>2. expire' \in [Timer -> Nat] /\ expire' = [expire EXCEPT ![t] = expire'[t]]
    BY <1>0, <2>1
  <2>. QED  BY <1>1, <2>2 DEF AddTimer, Queue!Add
<1>2. ASSUME NEW t \in Timer, DeleteTimer(t) PROVE Queue!Remove(t)
  BY <1>2 DEF DeleteTimer, Queue!Remove
<1>3. ASSUME NEW t \in Timer, NEW s \in Spans, Adjust(t, now + s)
      PROVE  Queue!Extend(t) \/ UNCHANGED Queue!qvars
  <2>1. /\ expire' = [expire EXCEPT ![t] = now + s] /\ now + s >= expire[t]
        /\ t \in allocated /\ pc = "idle" /\ pc' # "tick" /\ UNCHANGED <<allocated, cur>>
    BY <1>3 DEF Adjust
  <2>2. expire' \in [Timer -> Nat] /\ expire' = [expire EXCEPT ![t] = expire'[t]]
        /\ expire'[t] = now + s
    BY <1>0, <2>1
  <2>3. CASE now + s = expire[t]
    <3>1. expire' = expire
      BY <1>0, <2>1, <2>3
    <3>. QED  BY <2>1, <3>1 DEF Queue!qvars
  <2>4. CASE now + s # expire[t]
    <3>1. expire'[t] > expire[t]
      BY <1>0, <2>1, <2>2, <2>4
    <3>. QED  BY <2>1, <2>2, <3>1 DEF Queue!Extend
  <2>. QED  BY <2>3, <2>4
<1>4. CASE TickBegin
  <2>1. cur' >= cur
    BY <1>0, <1>4 DEF TickBegin, TickTime
  <2>. QED  BY <1>4, <2>1 DEF TickBegin, Queue!BeginTick, Queue!Next
<1>5. CASE TickFire
  <2>1. list.head \in allocated /\ \A u \in allocated : expire[list.head] <= expire[u]
    BY <1>5, HeadFirst DEF TickFire
  <2>2. list.head \in Timer /\ expire[list.head] <= cur
    BY <1>0, <1>5, <2>1 DEF TickFire, NotDue
  <2>3. Queue!Fire(list.head)
    BY <1>5, <2>1, <2>2 DEF TickFire, Queue!Fire
  <2>. QED  BY <2>2, <2>3 DEF Queue!Next
<1>6. CASE TickEnd
  <2>1. \A u \in allocated : expire[u] > cur
    BY <1>0, <1>6, HeadFirst DEF TickEnd, NotDue
  <2>2. Queue!EndTick
    BY <1>6, <2>1 DEF TickEnd, Queue!EndTick
  <2>. QED  BY <2>2 DEF Queue!Next
<1>7. CASE TimePasses
  BY <1>7 DEF TimePasses, Queue!qvars
<1>8. CASE UNCHANGED vars
  BY <1>8 DEF vars, Queue!qvars
<1>. QED  BY <1>1, <1>2, <1>3, <1>4, <1>5, <1>6, <1>7, <1>8 DEF Next, Queue!Next

\* Under the same condition the list implements the timer queue of TimerQueue:
\* tick calls what is due, in the order of expire, and loses no timer.
THEOREM ListImplementsQueue ==
    ASSUME OrderKept
    PROVE  Spec => ImplementsQueue
  BY InitRefines, InitInv, NextInv, NextRefines, PTL DEF Spec, ImplementsQueue, Queue!Spec
================================================================================
