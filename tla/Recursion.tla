------------------------------- MODULE Recursion -------------------------------
(***************************************************************************)
(* Recursive functions without an induction rule: that a set of natural      *)
(* numbers has a least element is all the induction that is needed, and a     *)
(* function that calls itself last is defined by its equation.               *)
(***************************************************************************)
EXTENDS Integers, WellFoundedInduction, TLAPS

\* A set of natural numbers that is not empty has a least element.
LEMMA Least ==
    ASSUME NEW T, T \subseteq Nat, T # {}
    PROVE  \E x \in T : \A y \in T : x <= y
<1>1. PICK x \in T : \A y \in T : <<y, x>> \notin OpToRel(<, Nat)
  BY NatLessThanWellFounded, WFMin
<1>2. ASSUME NEW y \in T, y < x PROVE FALSE
  <2>1. <<y, x>> \in OpToRel(<, Nat)
    BY <1>2 DEF OpToRel
  <2>. QED  BY <1>1, <2>1
<1>3. \A y \in T : x <= y
  BY <1>2
<1>. QED  BY <1>3

-----------------------------------------------------------------------------
(* A loop on D that goes from x to step[x] until x is in stop.              *)

\* w is a walk of m steps, from x to where the loop ends.
Walks(D, stop, step, x, m, w) ==
    /\ m \in Nat /\ w \in [0 .. m -> D] /\ w[0] = x
    /\ \A i \in 0 .. m - 1 : w[i] \notin stop /\ w[i + 1] = step[w[i]]
    /\ w[m] \in stop

EndsAt(D, stop, step, x, y) == \E m, w : Walks(D, stop, step, x, m, w) /\ y = w[m]

\* What the loop returns satisfies this equation.
Loops(f, D, stop, step, result) ==
    f = [x \in D |-> IF x \in stop THEN result[x] ELSE f[step[x]]]

\* The loop ends nowhere or at one place.
LEMMA EndUnique ==
    ASSUME NEW D, NEW stop, NEW step, NEW x, NEW y, NEW z,
           EndsAt(D, stop, step, x, y), EndsAt(D, stop, step, x, z)
    PROVE  y = z
<1>1. PICK m, w : Walks(D, stop, step, x, m, w) /\ y = w[m]
  BY DEF EndsAt
<1>2. PICK k, u : Walks(D, stop, step, x, k, u) /\ z = u[k]
  BY DEF EndsAt
<1>3. m \in Nat /\ k \in Nat
  BY <1>1, <1>2 DEF Walks
<1>. DEFINE Apart == {i \in Nat : i <= m /\ i <= k /\ w[i] # u[i]}
<1>4. Apart = {}
  <2>. SUFFICES ASSUME Apart # {} PROVE FALSE
    OBVIOUS
  <2>1. PICK i \in Apart : \A j \in Apart : i <= j
    BY Least
  <2>2. i > 0
    BY <1>1, <1>2 DEF Walks
  <2>3. i - 1 \in Nat /\ i - 1 \notin Apart
    BY <2>1, <2>2
  <2>4. w[i - 1] = u[i - 1] /\ i - 1 \in 0 .. m - 1 /\ i - 1 \in 0 .. k - 1 /\ (i - 1) + 1 = i
    BY <1>3, <2>1, <2>2, <2>3
  <2>5. w[i] = u[i]
    BY <1>1, <1>2, <2>4 DEF Walks
  <2>. QED  BY <2>5
<1>5. CASE m < k
  <2>1. w[m] = u[m] /\ m \in 0 .. k - 1
    BY <1>3, <1>4, <1>5
  <2>. QED  BY <1>1, <1>2, <2>1 DEF Walks
<1>6. CASE k < m
  <2>1. w[k] = u[k] /\ k \in 0 .. m - 1
    BY <1>3, <1>4, <1>6
  <2>. QED  BY <1>1, <1>2, <2>1 DEF Walks
<1>7. CASE k = m
  BY <1>1, <1>2, <1>3, <1>4, <1>7
<1>. QED  BY <1>3, <1>5, <1>6, <1>7

\* The loop ends where it ends from the next place on.
LEMMA EndStep ==
    ASSUME NEW D, NEW stop, NEW step, NEW x \in D \ stop, NEW y, step[x] \in D
    PROVE  EndsAt(D, stop, step, x, y) <=> EndsAt(D, stop, step, step[x], y)
<1>1. ASSUME EndsAt(D, stop, step, step[x], y) PROVE EndsAt(D, stop, step, x, y)
  <2>1. PICK m, w : Walks(D, stop, step, step[x], m, w) /\ y = w[m]
    BY <1>1 DEF EndsAt
  <2>2. m \in Nat /\ w \in [0 .. m -> D]
    BY <2>1 DEF Walks
  <2>. DEFINE u == [i \in 0 .. m + 1 |-> IF i = 0 THEN x ELSE w[i - 1]]
  <2>3. u \in [0 .. m + 1 -> D] /\ u[0] = x /\ u[m + 1] = w[m]
    BY <2>2
  <2>4. ASSUME NEW i \in 0 .. m PROVE u[i] \notin stop /\ u[i + 1] = step[u[i]]
    <3>1. CASE i = 0
      BY <2>1, <3>1 DEF Walks
    <3>2. CASE i > 0
      <4>1. i - 1 \in 0 .. m - 1 /\ u[i] = w[i - 1] /\ u[i + 1] = w[i] /\ (i - 1) + 1 = i
        BY <2>2, <3>2
      <4>. HIDE DEF u
      <4>. QED  BY <2>1, <4>1 DEF Walks
    <3>. QED  BY <3>1, <3>2
  <2>5. u[m + 1] \in stop
    BY <2>1, <2>3 DEF Walks
  <2>6. m + 1 \in Nat /\ (m + 1) - 1 = m
    BY <2>2
  <2>. HIDE DEF u
  <2>7. Walks(D, stop, step, x, m + 1, u)
    BY <2>3, <2>4, <2>5, <2>6 DEF Walks
  <2>. QED  BY <2>1, <2>3, <2>7 DEF EndsAt
<1>2. ASSUME EndsAt(D, stop, step, x, y) PROVE EndsAt(D, stop, step, step[x], y)
  <2>1. PICK m, w : Walks(D, stop, step, x, m, w) /\ y = w[m]
    BY <1>2 DEF EndsAt
  <2>2. m > 0 /\ m \in Nat /\ w \in [0 .. m -> D]
    BY <2>1 DEF Walks
  <2>. DEFINE u == [i \in 0 .. m - 1 |-> w[i + 1]]
  <2>3. u \in [0 .. m - 1 -> D] /\ u[m - 1] = w[m]
    BY <2>2
  <2>4. u[0] = step[x]
    BY <2>1, <2>2 DEF Walks
  <2>5. ASSUME NEW i \in 0 .. (m - 1) - 1 PROVE u[i] \notin stop /\ u[i + 1] = step[u[i]]
    <3>1. i + 1 \in 0 .. m - 1 /\ u[i] = w[i + 1] /\ u[i + 1] = w[(i + 1) + 1]
      BY <2>2
    <3>. HIDE DEF u
    <3>. QED  BY <2>1, <3>1 DEF Walks
  <2>6. u[m - 1] \in stop /\ m - 1 \in Nat
    BY <2>1, <2>2, <2>3 DEF Walks
  <2>. HIDE DEF u
  <2>7. Walks(D, stop, step, step[x], m - 1, u)
    BY <2>3, <2>4, <2>5, <2>6 DEF Walks
  <2>. QED  BY <2>1, <2>3, <2>7 DEF EndsAt
<1>. QED  BY <1>1, <1>2

\* There is a function that satisfies the equation, even where the loop runs in a
\* circle: what a recursive definition of this form chooses does satisfy it.
THEOREM LoopDefined ==
    ASSUME NEW D, NEW stop, NEW step, NEW result, \A x \in D \ stop : step[x] \in D
    PROVE  \E f : Loops(f, D, stop, step, result)
<1>. DEFINE End(x) == IF \E y : EndsAt(D, stop, step, x, y)
                      THEN result[CHOOSE y : EndsAt(D, stop, step, x, y)] ELSE result
            f == [x \in D |-> End(x)]
<1>1. ASSUME NEW x \in D PROVE End(x) = IF x \in stop THEN result[x] ELSE f[step[x]]
  <2>1. CASE x \in stop
    <3>. DEFINE w == [i \in 0 .. 0 |-> x]
    <3>1. 0 \in Nat /\ w \in [0 .. 0 -> D] /\ w[0] = x /\ 0 .. (0 - 1) = {}
      OBVIOUS
    <3>. HIDE DEF w
    <3>2. Walks(D, stop, step, x, 0, w)
      BY <2>1, <3>1 DEF Walks
    <3>3. EndsAt(D, stop, step, x, x)
      BY <3>1, <3>2 DEF EndsAt
    <3>4. (CHOOSE y : EndsAt(D, stop, step, x, y)) = x
      BY <3>3, EndUnique
    <3>. QED  BY <2>1, <3>3, <3>4
  <2>2. CASE x \notin stop
    <3>1. step[x] \in D
      BY <2>2
    <3>2. \A y : EndsAt(D, stop, step, x, y) <=> EndsAt(D, stop, step, step[x], y)
      BY <2>2, <3>1, EndStep
    <3>3. End(x) = End(step[x])
      <4>1. CASE \E y : EndsAt(D, stop, step, x, y)
        <5>1. PICK y : EndsAt(D, stop, step, x, y)
          BY <4>1
        <5>2. EndsAt(D, stop, step, step[x], y)
          BY <3>2, <5>1
        <5>3. (CHOOSE z : EndsAt(D, stop, step, x, z)) = y
          BY <5>1, EndUnique
        <5>4. (CHOOSE z : EndsAt(D, stop, step, step[x], z)) = y
          BY <5>2, EndUnique
        <5>. QED  BY <5>1, <5>2, <5>3, <5>4
      <4>2. CASE ~ \E y : EndsAt(D, stop, step, x, y)
        BY <3>2, <4>2
      <4>. QED  BY <4>1, <4>2
    <3>. QED  BY <2>2, <3>1, <3>3
  <2>. QED  BY <2>1, <2>2
<1>. HIDE DEF End
<1>2. Loops(f, D, stop, step, result)
  BY <1>1 DEF Loops
<1>. QED  BY <1>2
================================================================================
