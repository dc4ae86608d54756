---------------------------- MODULE HttpRecvProofs ----------------------------
(***************************************************************************)
(* Proofs about the request reader of chapter8/8.6/httprecv.c: what it      *)
(* answers does not depend on the pieces in which recv returns the request. *)
(***************************************************************************)
EXTENDS HttpRecv, Recursion, SequenceTheorems, TLAPS

\* The first position of s from i on with a token of T is where FirstFrom says.
LEMMA FirstFromFound ==
    ASSUME NEW s, Len(s) \in Nat, NEW i \in 1 .. Len(s) + 1, NEW T
    PROVE  /\ FirstFrom(s, i, T) \in i .. Len(s) + 1
           /\ FirstFrom(s, i, T) = Len(s) + 1 \/ s[FirstFrom(s, i, T)] \in T
           /\ \A j \in i .. FirstFrom(s, i, T) - 1 : s[j] \notin T
<1>. DEFINE Last == Len(s) + 1
            Hits == {k \in i .. Last : k = Last \/ s[k] \in T}
<1>1. Hits \subseteq Nat /\ Last \in Hits
  OBVIOUS
<1>2. PICK k \in Hits : \A j \in Hits : k <= j
  <2>. HIDE DEF Hits
  <2>. QED  BY <1>1, Least
<1>3. k \in i .. Last /\ (k = Last \/ s[k] \in T)
  BY <1>2
<1>4. \A j \in i .. k - 1 : s[j] \notin T
  <2>. SUFFICES ASSUME NEW j \in i .. k - 1, s[j] \in T PROVE FALSE
    OBVIOUS
  <2>1. j \in i .. Last /\ ~(k <= j)
    BY <1>3
  <2>. QED  BY <1>2, <2>1
<1>. QED  BY <1>3, <1>4 DEF FirstFrom

\* It is the only such place.
LEMMA FirstFromIs ==
    ASSUME NEW s, Len(s) \in Nat, NEW i \in 1 .. Len(s) + 1, NEW T,
           NEW k \in i .. Len(s) + 1, k = Len(s) + 1 \/ s[k] \in T,
           \A j \in i .. k - 1 : s[j] \notin T
    PROVE  FirstFrom(s, i, T) = k
<1>. DEFINE e == FirstFrom(s, i, T)
<1>1. /\ e \in i .. Len(s) + 1
      /\ e = Len(s) + 1 \/ s[e] \in T
      /\ \A j \in i .. e - 1 : s[j] \notin T
  BY FirstFromFound
<1>. HIDE DEF e
<1>2. ~(e < k)
  <2>. SUFFICES ASSUME e < k PROVE FALSE
    OBVIOUS
  <2>1. e \in i .. k - 1 /\ e # Len(s) + 1
    BY <1>1
  <2>. QED  BY <1>1, <2>1
<1>3. ~(k < e)
  <2>. SUFFICES ASSUME k < e PROVE FALSE
    OBVIOUS
  <2>1. k \in i .. e - 1 /\ k # Len(s) + 1
    BY <1>1
  <2>. QED  BY <1>1, <2>1
<1>. QED  BY <1>1, <1>2, <1>3 DEF e

-----------------------------------------------------------------------------
(* The judgement.                                                           *)

LineFeed(s, i) == FirstFrom(s, i, {"cr", "lf"})

Line(s, i) == SubSeq(s, i, LineFeed(s, i) - 1)

Unfinished(s, i) ==
    LineFeed(s, i) > Len(s) \/ (LineFeed(s, i) = Len(s) /\ s[LineFeed(s, i)] = "cr")

Finished(s, i) ==
    LineFeed(s, i) < Len(s) /\ s[LineFeed(s, i)] = "cr" /\ s[LineFeed(s, i) + 1] = "lf"

\* There is a next line to be judged.
GoesOn(s, i) ==
    /\ ~Unfinished(s, i) /\ Finished(s, i)
    /\ IF i = 1 THEN RequestLineOK(Line(s, i)) ELSE ~LastHeader(Line(s, i))

\* The judgement where there is none.
Final(s, i) ==
    IF Unfinished(s, i) THEN "more"
    ELSE IF Finished(s, i) /\ i # 1 THEN "correct" ELSE "wrong"

\* The equation of judge.
Judges(f, s) ==
    f = [i \in 1 .. Len(s) + 1 |->
            LET e == FirstFrom(s, i, {"cr", "lf"})
                line == SubSeq(s, i, e - 1)
            IN IF e > Len(s) \/ (e = Len(s) /\ s[e] = "cr") THEN "more"
               ELSE IF ~(e < Len(s) /\ s[e] = "cr" /\ s[e + 1] = "lf") THEN "wrong"
               ELSE IF i = 1
               THEN IF RequestLineOK(line) THEN f[e + 2] ELSE "wrong"
               ELSE IF LastHeader(line) THEN "correct" ELSE f[e + 2]]

\* The judgement on a line, and on what follows it.
LEMMA JudgeLine ==
    ASSUME NEW s, Len(s) \in Nat, NEW i \in 1 .. Len(s) + 1
    PROVE  Judge(s)[i] = IF GoesOn(s, i) THEN Judge(s)[LineFeed(s, i) + 2] ELSE Final(s, i)
<1>. DEFINE D == 1 .. Len(s) + 1
            stop == {j \in D : ~GoesOn(s, j)}
            step == [j \in D |-> LineFeed(s, j) + 2]
            final == [j \in D |-> Final(s, j)]
<1>1. \A j \in D \ stop : step[j] \in D
  <2>. SUFFICES ASSUME NEW j \in D, GoesOn(s, j) PROVE LineFeed(s, j) + 2 \in D
    OBVIOUS
  <2>1. LineFeed(s, j) \in j .. Len(s) + 1
    BY FirstFromFound DEF LineFeed
  <2>2. LineFeed(s, j) < Len(s)
    BY DEF GoesOn, Finished
  <2>. QED  BY <2>1, <2>2
<1>2. PICK f : Loops(f, D, stop, step, final)
  <2>. HIDE DEF D, stop, step, final
  <2>. QED  BY <1>1, LoopDefined
<1>3. f = [j \in D |-> IF GoesOn(s, j) THEN f[LineFeed(s, j) + 2] ELSE Final(s, j)]
  BY <1>2 DEF Loops
<1>4. ASSUME NEW g, NEW j \in D
      PROVE  (LET e == FirstFrom(s, j, {"cr", "lf"})
                  line == SubSeq(s, j, e - 1)
              IN IF e > Len(s) \/ (e = Len(s) /\ s[e] = "cr") THEN "more"
                 ELSE IF ~(e < Len(s) /\ s[e] = "cr" /\ s[e + 1] = "lf") THEN "wrong"
                 ELSE IF j = 1
                 THEN IF RequestLineOK(line) THEN g[e + 2] ELSE "wrong"
                 ELSE IF LastHeader(line) THEN "correct" ELSE g[e + 2])
             = IF GoesOn(s, j) THEN g[LineFeed(s, j) + 2] ELSE Final(s, j)
  <2>1. LineFeed(s, j) \in Int
    BY FirstFromFound DEF LineFeed
  <2>. DEFINE e == LineFeed(s, j)
  <2>2. FirstFrom(s, j, {"cr", "lf"}) = e
    BY DEF LineFeed
  <2>. HIDE DEF e
  <2>. QED  BY <2>1, <2>2 DEF GoesOn, Final, Unfinished, Finished, Line, e
<1>5. Judges(f, s)
  BY <1>3, <1>4 DEF Judges
<1>6. Judge(s) = CHOOSE g : Judges(g, s)
  BY DEF Judge, Judges
<1>7. Judges(Judge(s), s)
  BY <1>5, <1>6
<1>8. i \in D
  OBVIOUS
<1>. HIDE DEF D
<1>. QED  BY <1>4, <1>7, <1>8 DEF Judges, D

-----------------------------------------------------------------------------
(* The inductive invariant.                                                 *)

\* What a cell of the buffer may hold.
Tok == {"nul"} \cup UNION {{s[i] : i \in DOMAIN s} : s \in Input}

Prefix(s, m) == SubSeq(s, 1, m)

\* The buffer is a part of the stream as long as what was read.
Texts ==
    /\ stream \in Seq(Tok)
    /\ buffer \in Seq(Tok)
    /\ Len(buffer) <= Len(stream)

\* The current line has no end in what parse_line has looked at.
NoBreakChecked == \A i \in startLine .. checkedIndex - 1 : buffer[i] \notin {"cr", "lf"}

\* The request line is the first line, and no other.
FirstLineFirst == pc # "done" => (checkState = "requestline" <=> startLine = 1)

AnsweredAtTheEnd == pc = "done" <=> outcome # "none"

\* However much more of the stream is read, the judgement on it is the one from
\* the current line on.
JudgedFromHere ==
    pc # "done" => \A m \in ReadIndex .. Len(stream) :
                       Verdict(Prefix(stream, m)) = Judge(Prefix(stream, m))[startLine]

IInv ==
    /\ Texts
    /\ TypeOK
    /\ NoCrLeftBehind
    /\ UnjudgedAsSent
    /\ NoBreakChecked
    /\ FirstLineFirst
    /\ AnsweredAtTheEnd
    /\ JudgedFromHere
    /\ ParseIsIncremental

LEMMA PrefixText ==
    ASSUME NEW s \in Seq(Tok), NEW m \in 0 .. Len(s)
    PROVE  /\ Prefix(s, m) \in Seq(Tok) /\ Len(Prefix(s, m)) = m
           /\ \A i \in 1 .. m : Prefix(s, m)[i] = s[i]
<1>1. Len(s) \in Nat /\ \A i \in 1 .. Len(s) : s[i] \in Tok
  BY LenProperties, ElementOfSeq
<1>2. 1 \in Int /\ m \in Int /\ \A i \in 1 .. m : s[i] \in Tok
  BY <1>1
<1>3. /\ SubSeq(s, 1, m) \in Seq(Tok)
      /\ Len(SubSeq(s, 1, m)) = IF 1 <= m THEN m - 1 + 1 ELSE 0
      /\ \A i \in 1 .. m - 1 + 1 : SubSeq(s, 1, m)[i] = s[1 + i - 1]
  BY <1>2, SubSeqProperties
<1>4. m - 1 + 1 = m /\ m \in Nat /\ \A i \in 1 .. m : 1 + i - 1 = i
  BY <1>1
<1>. QED  BY <1>1, <1>3, <1>4 DEF Prefix

\* A line is the same in two texts that agree on it.
LEMMA SameLine ==
    ASSUME NEW s, NEW t, NEW a \in Int, NEW b \in Int,
           \A i \in a .. b : s[i] = t[i] /\ s[i] \in Tok
    PROVE  SubSeq(s, a, b) = SubSeq(t, a, b)
<1>. DEFINE u == SubSeq(s, a, b)
            v == SubSeq(t, a, b)
<1>1. /\ u \in Seq(Tok) /\ Len(u) = IF a <= b THEN b - a + 1 ELSE 0
      /\ \A i \in 1 .. b - a + 1 : u[i] = s[a + i - 1]
  BY SubSeqProperties
<1>2. /\ v \in Seq(Tok) /\ Len(v) = IF a <= b THEN b - a + 1 ELSE 0
      /\ \A i \in 1 .. b - a + 1 : v[i] = t[a + i - 1]
  <2>1. \A i \in a .. b : t[i] \in Tok
    OBVIOUS
  <2>. QED  BY <2>1, SubSeqProperties
<1>. HIDE DEF u, v
<1>3. \A i \in 1 .. Len(u) : u[i] = v[i]
  <2>. SUFFICES ASSUME NEW i \in 1 .. Len(u) PROVE u[i] = v[i]
    OBVIOUS
  <2>1. i \in 1 .. b - a + 1 /\ a + i - 1 \in a .. b
    BY <1>1
  <2>. QED  BY <1>1, <1>2, <2>1
<1>4. Len(u) = Len(v)
  BY <1>1, <1>2
<1>5. u = v
  BY <1>1, <1>2, <1>3, <1>4, SeqEqual
<1>. QED  BY <1>5 DEF u, v

\* What parse_line finds: the first line break behind what it has checked.
LEMMA LineEndFound ==
    ASSUME Texts, TypeOK
    PROVE  /\ ReadIndex \in Nat /\ startLine \in Nat /\ checkedIndex \in Nat
           /\ LineEnd \in checkedIndex .. ReadIndex + 1
           /\ LineEnd = ReadIndex + 1 \/ buffer[LineEnd] \in {"cr", "lf"}
           /\ \A i \in checkedIndex .. LineEnd - 1 : buffer[i] \notin {"cr", "lf"}
<1>1. Len(buffer) \in Nat
  BY LenProperties DEF Texts
<1>2. checkedIndex \in 1 .. Len(buffer) + 1 /\ startLine \in Nat /\ checkedIndex \in Nat
  BY <1>1 DEF TypeOK, ReadIndex
<1>. QED  BY <1>1, <1>2, FirstFromFound DEF LineEnd, ReadIndex

\* parse_line never needs the branch for a "lf" whose "cr" it checked before.
LEMMA StatusMeans ==
    ASSUME IInv
    PROVE  /\ LineStatus \in {"open", "ok", "bad"} /\ Break = LineEnd
           /\ LineStatus = "open" =>
                  LineEnd = ReadIndex + 1 \/ (LineEnd = ReadIndex /\ buffer[LineEnd] = "cr")
           /\ LineStatus = "ok" =>
                  LineEnd < ReadIndex /\ buffer[LineEnd] = "cr" /\ buffer[LineEnd + 1] = "lf"
           /\ LineStatus = "bad" =>
                  /\ LineEnd <= ReadIndex
                  /\ \/ buffer[LineEnd] = "lf"
                     \/ /\ buffer[LineEnd] = "cr" /\ LineEnd < ReadIndex
                        /\ buffer[LineEnd + 1] # "lf"
<1>1. /\ ReadIndex \in Nat /\ checkedIndex \in Nat \ {0}
      /\ LineEnd \in checkedIndex .. ReadIndex + 1
      /\ LineEnd = ReadIndex + 1 \/ buffer[LineEnd] \in {"cr", "lf"}
      /\ \A i \in checkedIndex .. LineEnd - 1 : buffer[i] \notin {"cr", "lf"}
  BY LineEndFound DEF IInv, TypeOK
<1>2. ASSUME LineEnd > 2, LineEnd <= ReadIndex PROVE buffer[LineEnd - 1] # "cr"
  <2>1. CASE LineEnd - 1 >= checkedIndex
    BY <1>1, <2>1
  <2>2. CASE LineEnd - 1 = checkedIndex - 1
    <3>1. checkedIndex - 1 \in 1 .. checkedIndex - 1 /\ checkedIndex - 1 <= ReadIndex
      BY <1>1, <1>2, <2>2
    <3>. QED  BY <2>2, <3>1 DEF IInv, NoCrLeftBehind
  <2>. QED  BY <1>1, <2>1, <2>2
<1>3. LineStatus # "okbefore"
  BY <1>1, <1>2 DEF LineStatus
<1>. QED  BY <1>1, <1>3 DEF LineStatus, Break

\* The line that parse_line sees is the line the judgement is about, as soon as its
\* end is read.
LEMMA LineSeen ==
    ASSUME IInv, NEW m \in ReadIndex .. Len(stream), LineEnd <= ReadIndex \/ m = ReadIndex
    PROVE  /\ LineFeed(Prefix(stream, m), startLine) = LineEnd
           /\ Line(Prefix(stream, m), startLine) = SubSeq(buffer, startLine, LineEnd - 1)
           /\ Len(Prefix(stream, m)) = m /\ startLine \in 1 .. m + 1
           /\ \A i \in startLine .. ReadIndex : Prefix(stream, m)[i] = buffer[i]
<1>. DEFINE s == Prefix(stream, m)
<1>1. /\ ReadIndex \in Nat /\ checkedIndex \in startLine .. ReadIndex + 1 /\ startLine \in Nat \ {0}
      /\ LineEnd \in checkedIndex .. ReadIndex + 1
      /\ LineEnd = ReadIndex + 1 \/ buffer[LineEnd] \in {"cr", "lf"}
      /\ \A i \in checkedIndex .. LineEnd - 1 : buffer[i] \notin {"cr", "lf"}
      /\ Len(stream) \in Nat
  BY LineEndFound, LenProperties DEF IInv, TypeOK, Texts
<1>2. /\ Len(s) = m /\ m \in Nat /\ \A i \in 1 .. m : s[i] = stream[i]
      /\ \A i \in 1 .. ReadIndex : buffer[i] \in Tok
  <2>1. m \in 0 .. Len(stream) /\ stream \in Seq(Tok)
    BY <1>1 DEF IInv, Texts
  <2>2. \A i \in 1 .. ReadIndex : buffer[i] \in Tok
    BY ElementOfSeq DEF IInv, Texts, ReadIndex
  <2>. QED  BY <2>1, <2>2, PrefixText
<1>. HIDE DEF s
<1>3. \A i \in startLine .. ReadIndex : s[i] = buffer[i]
  BY <1>1, <1>2 DEF IInv, UnjudgedAsSent
<1>4. \A i \in startLine .. LineEnd - 1 : s[i] \notin {"cr", "lf"}
  BY <1>1, <1>3 DEF IInv, NoBreakChecked
<1>5. LineEnd = m + 1 \/ s[LineEnd] \in {"cr", "lf"}
  BY <1>1, <1>3
<1>6. LineFeed(s, startLine) = LineEnd
  <2>1. Len(s) \in Nat /\ startLine \in 1 .. Len(s) + 1 /\ LineEnd \in startLine .. Len(s) + 1
    BY <1>1, <1>2
  <2>. QED  BY <1>2, <1>4, <1>5, <2>1, FirstFromIs DEF LineFeed
<1>7. Line(s, startLine) = SubSeq(buffer, startLine, LineEnd - 1)
  <2>1. \A i \in startLine .. LineEnd - 1 : s[i] = buffer[i] /\ s[i] \in Tok
    BY <1>1, <1>2, <1>3
  <2>2. startLine \in Int /\ LineEnd - 1 \in Int
    BY <1>1
  <2>. QED  BY <1>6, <2>1, <2>2, SameLine DEF Line
<1>8. startLine \in 1 .. m + 1
  BY <1>1
<1>. QED  BY <1>2, <1>3, <1>6, <1>7, <1>8 DEF s

\* The parser and the judgement agree on the line that has just been read.
LEMMA JudgedLine ==
    ASSUME IInv, NEW m \in ReadIndex .. Len(stream), LineEnd <= ReadIndex \/ m = ReadIndex,
           pc # "done"
    PROVE  Verdict(Prefix(stream, m)) =
               IF LineStatus = "open" /\ m = ReadIndex THEN "more"
               ELSE IF LineStatus = "bad" THEN "wrong"
               ELSE IF LineStatus = "ok"
               THEN IF checkState = "requestline"
                    THEN IF RequestLineOK(CurrentLine)
                         THEN Judge(Prefix(stream, m))[LineEnd + 2] ELSE "wrong"
                    ELSE IF LastHeader(CurrentLine)
                         THEN "correct" ELSE Judge(Prefix(stream, m))[LineEnd + 2]
               ELSE Verdict(Prefix(stream, m))
<1>. DEFINE s == Prefix(stream, m)
            judged == Judge(s)
            e == LineEnd
<1>1. /\ LineFeed(s, startLine) = e
      /\ Line(s, startLine) = SubSeq(buffer, startLine, e - 1)
      /\ Len(s) = m /\ startLine \in 1 .. m + 1 /\ m \in Nat
      /\ \A i \in startLine .. ReadIndex : s[i] = buffer[i]
      /\ ReadIndex \in Nat /\ e \in startLine .. ReadIndex + 1
  BY LineSeen, LineEndFound DEF IInv, TypeOK
<1>2. Verdict(s) = judged[startLine]
  BY DEF IInv, JudgedFromHere
<1>3. judged[startLine] = IF GoesOn(s, startLine) THEN judged[e + 2] ELSE Final(s, startLine)
  BY <1>1, JudgeLine
<1>4. CurrentLine = Line(s, startLine)
  BY <1>1, StatusMeans DEF CurrentLine
<1>5. checkState = "requestline" <=> startLine = 1
  BY DEF IInv, FirstLineFirst
<1>. HIDE DEF s, judged, e
<1>6. CASE LineStatus = "open" /\ m = ReadIndex
  <2>1. Unfinished(s, startLine)
    BY <1>1, <1>6, StatusMeans DEF Unfinished, e
  <2>. QED  BY <1>2, <1>3, <1>6, <2>1 DEF GoesOn, Final, s, judged
<1>7. CASE LineStatus = "bad"
  <2>1. e <= m /\ (s[e] = "lf" \/ (s[e] = "cr" /\ e < m /\ s[e + 1] # "lf"))
    BY <1>1, <1>7, StatusMeans DEF e
  <2>2. ~Unfinished(s, startLine) /\ ~Finished(s, startLine)
    BY <1>1, <2>1 DEF Unfinished, Finished
  <2>. QED  BY <1>2, <1>3, <1>7, <2>2 DEF GoesOn, Final, s, judged
<1>8. CASE LineStatus = "ok"
  <2>1. e < m /\ s[e] = "cr" /\ s[e + 1] = "lf"
    BY <1>1, <1>8, StatusMeans DEF e
  <2>2. ~Unfinished(s, startLine) /\ Finished(s, startLine)
    BY <1>1, <2>1 DEF Unfinished, Finished
  <2>. QED  BY <1>2, <1>3, <1>4, <1>5, <1>8, <2>2 DEF GoesOn, Final, s, judged, e
<1>9. CASE LineStatus = "open" /\ m # ReadIndex
  BY <1>9
<1>. QED  BY <1>6, <1>7, <1>8, <1>9, StatusMeans DEF s, judged, e
-----------------------------------------------------------------------------
(* The steps.                                                               *)

LEMMA InitInv == Init => IInv
<1>. SUFFICES ASSUME Init PROVE IInv
  OBVIOUS
<1>1. stream \in Seq(Tok) /\ Len(stream) \in Nat
  <2>. DEFINE S == {stream[i] : i \in DOMAIN stream}
  <2>1. stream \in Seq(S)
    BY HttpAssumption DEF Init
  <2>2. S \subseteq Tok
    BY DEF Init, Tok
  <2>. HIDE DEF S
  <2>3. stream \in Seq(Tok)
    BY <2>1, <2>2, SeqMonotonic
  <2>. QED  BY <2>3, LenProperties
<1>2. buffer \in Seq(Tok) /\ Len(buffer) = 0
  BY EmptySeq DEF Init
<1>3. Texts
  BY <1>1, <1>2 DEF Texts
<1>4. TypeOK
  <2>1. ReadIndex <= BufSize /\ startLine \in 1 .. checkedIndex /\ checkedIndex \in 1 .. ReadIndex + 1
    BY <1>2, HttpAssumption DEF Init, ReadIndex
  <2>. QED  BY <2>1 DEF Init, TypeOK
<1>5. NoCrLeftBehind /\ UnjudgedAsSent /\ NoBreakChecked /\ FirstLineFirst /\ AnsweredAtTheEnd
  BY <1>2 DEF Init, NoCrLeftBehind, UnjudgedAsSent, NoBreakChecked, FirstLineFirst,
              AnsweredAtTheEnd, ReadIndex
<1>6. JudgedFromHere
  BY DEF Init, JudgedFromHere, Verdict
<1>7. Verdict(SubSeq(stream, 1, ReadIndex)) = "more"
  <2>. DEFINE s == SubSeq(stream, 1, 0)
  <2>1. Len(s) = 0
    BY <1>1, PrefixText DEF Prefix
  <2>. HIDE DEF s
  <2>2. LineFeed(s, 1) = 1
    <3>1. 1 \in 1 .. Len(s) + 1 /\ Len(s) + 1 = 1 /\ Len(s) \in Nat
      BY <2>1
    <3>. QED  BY <3>1, FirstFromFound DEF LineFeed
  <2>3. Judge(s)[1] = "more"
    BY <2>1, <2>2, JudgeLine DEF GoesOn, Final, Unfinished
  <2>. QED  BY <1>2, <2>3 DEF Verdict, ReadIndex, s
<1>8. ParseIsIncremental
  BY <1>7 DEF Init, ParseIsIncremental
<1>. QED  BY <1>3, <1>4, <1>5, <1>6, <1>8 DEF IInv

\* recv appends a part of the stream; nothing of it is judged yet.
LEMMA RecvInv ==
    ASSUME IInv, NEW n \in 1 .. BufSize, Recv(n)
    PROVE  IInv'
<1>. DEFINE R == ReadIndex
            more == SubSeq(stream, R + 1, R + n)
<1>1. /\ R \in Nat /\ Len(stream) \in Nat /\ R + n <= Len(stream) /\ n \in Nat
      /\ BufSize \in Nat /\ n <= BufSize - R
      /\ checkedIndex \in Nat /\ startLine \in Nat /\ stream \in Seq(Tok) /\ buffer \in Seq(Tok)
  BY LineEndFound, LenProperties, HttpAssumption DEF IInv, Texts, Recv, Room
<1>2. buffer' = buffer \o more /\ pc = "recv" /\ pc' = "parse"
      /\ UNCHANGED <<stream, checkedIndex, startLine, checkState, outcome, closed>>
  BY DEF Recv
<1>3. /\ buffer' \in Seq(Tok) /\ Len(buffer') = R + n
      /\ \A i \in 1 .. R + n : buffer'[i] = IF i <= R THEN buffer[i] ELSE stream[i]
  <2>1. \A i \in R + 1 .. R + n : stream[i] \in Tok
    BY <1>1, ElementOfSeq
  <2>2. /\ more \in Seq(Tok) /\ Len(more) = n
        /\ \A i \in 1 .. n : more[i] = stream[R + i]
    <3>1. R + 1 \in Int /\ R + n \in Int /\ R + 1 <= R + n /\ (R + n) - (R + 1) + 1 = n
      BY <1>1
    <3>2. /\ more \in Seq(Tok) /\ Len(more) = n
          /\ \A i \in 1 .. n : more[i] = stream[(R + 1) + i - 1]
      BY <2>1, <3>1, SubSeqProperties
    <3>3. \A i \in 1 .. n : (R + 1) + i - 1 = R + i
      BY <1>1
    <3>. QED  BY <3>2, <3>3
  <2>. HIDE DEF more
  <2>3. /\ buffer \o more \in Seq(Tok) /\ Len(buffer \o more) = R + n
        /\ \A i \in 1 .. R + n : (buffer \o more)[i] = IF i <= R THEN buffer[i] ELSE more[i - R]
    BY <1>1, <2>2, ConcatProperties DEF ReadIndex
  <2>4. ASSUME NEW i \in 1 .. R + n, ~(i <= R) PROVE more[i - R] = stream[i]
    <3>1. i - R \in 1 .. n /\ R + (i - R) = i
      BY <1>1, <2>4
    <3>. QED  BY <2>2, <3>1
  <2>. QED  BY <1>2, <2>3, <2>4
<1>4. ReadIndex' = R + n
  BY <1>3 DEF ReadIndex
<1>. HIDE DEF R, more
<1>5. R = ReadIndex
  BY DEF R
<1>6. checkedIndex \in 1 .. R + 1 /\ startLine \in 1 .. checkedIndex
  BY <1>1, <1>5 DEF IInv, TypeOK
<1>7. Texts'
  BY <1>1, <1>2, <1>3 DEF Texts
<1>8. TypeOK'
  BY <1>1, <1>2, <1>4, <1>6 DEF IInv, TypeOK
<1>9. NoCrLeftBehind'
  <2>1. \A i \in 1 .. checkedIndex - 1 : i \in 1 .. R + n /\ i <= R
    BY <1>1, <1>6
  <2>. QED  BY <1>2, <1>3, <1>5, <2>1 DEF IInv, NoCrLeftBehind
<1>10. UnjudgedAsSent'
  <2>1. \A i \in startLine .. R + n : i \in 1 .. R + n /\ (i <= R => i \in startLine .. R)
    BY <1>1, <1>6
  <2>. QED  BY <1>2, <1>3, <1>4, <1>5, <2>1 DEF IInv, UnjudgedAsSent
<1>11. NoBreakChecked'
  <2>1. \A i \in startLine .. checkedIndex - 1 : i \in 1 .. R + n /\ i <= R
    BY <1>1, <1>6
  <2>. QED  BY <1>2, <1>3, <2>1 DEF IInv, NoBreakChecked
<1>12. FirstLineFirst' /\ AnsweredAtTheEnd' /\ outcome = "none"
  BY <1>2 DEF IInv, FirstLineFirst, AnsweredAtTheEnd
<1>13. JudgedFromHere'
  <2>1. \A m \in ReadIndex' .. Len(stream) : m \in ReadIndex .. Len(stream)
    BY <1>1, <1>4, <1>5
  <2>. QED  BY <1>2, <2>1 DEF IInv, JudgedFromHere
<1>14. ParseIsIncremental'
  BY <1>2, <1>12 DEF ParseIsIncremental
<1>. QED
  BY <1>7, <1>8, <1>9, <1>10, <1>11, <1>12, <1>13, <1>14 DEF IInv

\* What a cut writes lies behind it: the line is judged, and so is its end.
LEMMA CutInv ==
    ASSUME IInv, CutLine, pc' \in {"parse", "done"}, checkState' \in {"requestline", "header"},
           outcome' \in {"none", "correct", "wrong", "closed", "failed"}
    PROVE  /\ Texts' /\ TypeOK' /\ NoCrLeftBehind' /\ UnjudgedAsSent' /\ NoBreakChecked'
           /\ startLine' # 1 /\ startLine' = LineEnd + 2 /\ ReadIndex' = ReadIndex
           /\ LineStatus = "ok" /\ LineEnd <= ReadIndex /\ ReadIndex \in 0 .. Len(stream)
<1>. DEFINE b == LineEnd
<1>1. LineStatus = "ok" /\ Break = b
  BY StatusMeans DEF CutLine
<1>2. /\ ReadIndex \in Nat /\ checkedIndex \in Nat /\ b \in checkedIndex .. ReadIndex + 1
      /\ \A i \in checkedIndex .. b - 1 : buffer[i] \notin {"cr", "lf"}
      /\ startLine \in 1 .. checkedIndex /\ b < ReadIndex /\ ReadIndex = Len(buffer)
      /\ Len(stream) \in Nat /\ ReadIndex <= Len(stream) /\ buffer \in Seq(Tok)
  BY <1>1, LineEndFound, StatusMeans, LenProperties DEF IInv, TypeOK, Texts, ReadIndex
<1>3. /\ buffer' = [[buffer EXCEPT ![b] = "nul"] EXCEPT ![b + 1] = "nul"]
      /\ checkedIndex' = b + 2 /\ startLine' = b + 2 /\ UNCHANGED <<stream, closed>>
  BY <1>1 DEF CutLine, NextLine
<1>. HIDE DEF b
<1>4. /\ buffer' \in Seq(Tok) /\ Len(buffer') = ReadIndex
      /\ \A i \in 1 .. ReadIndex : buffer'[i] = IF i \in {b, b + 1} THEN "nul" ELSE buffer[i]
  <2>. DEFINE first == [buffer EXCEPT ![b] = "nul"]
  <2>0. "nul" \in Tok
    BY DEF Tok
  <2>1. b \in 1 .. Len(buffer) /\ b + 1 \in 1 .. Len(buffer)
    BY <1>2
  <2>2. /\ first \in Seq(Tok) /\ Len(first) = Len(buffer)
        /\ \A i \in 1 .. Len(buffer) : first[i] = IF i = b THEN "nul" ELSE buffer[i]
    BY <1>2, <2>0, <2>1, ExceptSeq
  <2>. HIDE DEF first
  <2>3. /\ [first EXCEPT ![b + 1] = "nul"] \in Seq(Tok)
        /\ Len([first EXCEPT ![b + 1] = "nul"]) = Len(first)
        /\ \A i \in 1 .. Len(first) :
               [first EXCEPT ![b + 1] = "nul"][i] = IF i = b + 1 THEN "nul" ELSE first[i]
    BY <2>0, <2>1, <2>2, ExceptSeq
  <2>4. buffer' = [first EXCEPT ![b + 1] = "nul"]
    BY <1>3 DEF first
  <2>. HIDE DEF first
  <2>. QED  BY <1>2, <2>2, <2>3, <2>4
<1>5. ReadIndex' = ReadIndex
  BY <1>4 DEF ReadIndex
<1>6. Texts'
  BY <1>2, <1>3, <1>4 DEF IInv, Texts
<1>7. TypeOK'
  BY <1>2, <1>3, <1>5 DEF IInv, TypeOK
<1>8. NoCrLeftBehind'
  <2>1. ASSUME NEW i \in 1 .. b + 1, i <= ReadIndex PROVE buffer'[i] # "cr"
    <3>1. CASE i \in {b, b + 1}
      BY <1>2, <1>4, <2>1, <3>1
    <3>2. CASE i < checkedIndex
      <4>1. i \in 1 .. checkedIndex - 1
        BY <1>2, <3>2
      <4>2. buffer[i] # "cr"
        BY <2>1, <4>1 DEF IInv, NoCrLeftBehind
      <4>. QED  BY <1>2, <1>4, <2>1, <4>2
    <3>3. CASE i \in checkedIndex .. b - 1
      BY <1>2, <1>4, <2>1, <3>3
    <3>. QED  BY <1>2, <3>1, <3>2, <3>3
  <2>2. \A i \in 1 .. checkedIndex' - 1 : i \in 1 .. b + 1
    BY <1>2, <1>3
  <2>. QED  BY <1>5, <2>1, <2>2 DEF NoCrLeftBehind
<1>9. UnjudgedAsSent'
  <2>1. \A i \in b + 2 .. ReadIndex : i \in startLine .. ReadIndex /\ i \in 1 .. ReadIndex /\ i \notin {b, b + 1}
    BY <1>2
  <2>. QED  BY <1>3, <1>4, <1>5, <2>1 DEF IInv, UnjudgedAsSent
<1>10. NoBreakChecked'
  <2>1. (b + 2) .. (b + 2) - 1 = {}
    BY <1>2
  <2>. QED  BY <1>3, <2>1 DEF NoBreakChecked
<1>. QED
  BY <1>1, <1>2, <1>3, <1>5, <1>6, <1>7, <1>8, <1>9, <1>10 DEF b

\* A line that is cut is judged; what follows is judged from the next line on.
LEMMA RequestLineInv ==
    ASSUME IInv, RequestLine
    PROVE  IInv'
<1>1. /\ CutLine /\ checkState = "requestline" /\ pc = "parse"
      /\ UNCHANGED <<stream, closed>> /\ outcome = "none"
      /\ checkState' \in {"requestline", "header"}
      /\ pc' \in {"parse", "done"} /\ outcome' \in {"none", "wrong"}
  BY DEF RequestLine, CutLine, Answer, IInv, AnsweredAtTheEnd, TypeOK
<1>2. /\ Texts' /\ TypeOK' /\ NoCrLeftBehind' /\ UnjudgedAsSent' /\ NoBreakChecked'
      /\ startLine' # 1 /\ startLine' = LineEnd + 2 /\ ReadIndex' = ReadIndex
      /\ LineStatus = "ok" /\ LineEnd <= ReadIndex /\ ReadIndex \in 0 .. Len(stream)
  BY <1>1, CutInv
<1>3. \A m \in ReadIndex .. Len(stream) :
          Verdict(Prefix(stream, m)) = IF RequestLineOK(CurrentLine)
                                       THEN Judge(Prefix(stream, m))[LineEnd + 2] ELSE "wrong"
  BY <1>1, <1>2, JudgedLine
<1>4. CASE RequestLineOK(CurrentLine)
  <2>1. checkState' = "header" /\ pc' = "parse" /\ outcome' = "none"
    BY <1>1, <1>4 DEF RequestLine
  <2>. QED
    BY <1>1, <1>2, <1>3, <1>4, <2>1
       DEF IInv, FirstLineFirst, AnsweredAtTheEnd, JudgedFromHere, ParseIsIncremental
<1>5. CASE ~RequestLineOK(CurrentLine)
  <2>1. pc' = "done" /\ outcome' = "wrong" /\ checkState' = checkState
    BY <1>5 DEF RequestLine, Answer
  <2>2. Verdict(Prefix(stream, ReadIndex)) = "wrong"
    BY <1>2, <1>3, <1>5
  <2>. QED
    BY <1>1, <1>2, <2>1, <2>2
       DEF IInv, FirstLineFirst, AnsweredAtTheEnd, JudgedFromHere, ParseIsIncremental, Prefix
<1>. QED  BY <1>4, <1>5

\* The empty line ends the request; every other header is taken.
LEMMA HeaderInv ==
    ASSUME IInv, Header
    PROVE  IInv'
<1>1. /\ CutLine /\ checkState = "header" /\ checkState' = "header" /\ pc = "parse"
      /\ UNCHANGED <<stream, closed>> /\ outcome = "none"
      /\ pc' \in {"parse", "done"} /\ outcome' \in {"none", "correct"}
  BY DEF Header, CutLine, Answer, IInv, AnsweredAtTheEnd
<1>2. /\ Texts' /\ TypeOK' /\ NoCrLeftBehind' /\ UnjudgedAsSent' /\ NoBreakChecked'
      /\ startLine' # 1 /\ startLine' = LineEnd + 2 /\ ReadIndex' = ReadIndex
      /\ LineStatus = "ok" /\ LineEnd <= ReadIndex /\ ReadIndex \in 0 .. Len(stream)
  BY <1>1, CutInv
<1>3. \A m \in ReadIndex .. Len(stream) :
          Verdict(Prefix(stream, m)) = IF LastHeader(CurrentLine) THEN "correct"
                                       ELSE Judge(Prefix(stream, m))[LineEnd + 2]
  BY <1>1, <1>2, JudgedLine
<1>4. FirstLineFirst'
  BY <1>1, <1>2 DEF FirstLineFirst
<1>5. CASE LastHeader(CurrentLine)
  <2>1. pc' = "done" /\ outcome' = "correct"
    BY <1>5 DEF Header, Answer
  <2>2. Verdict(Prefix(stream, ReadIndex)) = "correct"
    BY <1>2, <1>3, <1>5
  <2>. QED
    BY <1>1, <1>2, <1>4, <2>1, <2>2
       DEF IInv, AnsweredAtTheEnd, JudgedFromHere, ParseIsIncremental, Prefix
<1>6. CASE ~LastHeader(CurrentLine)
  <2>1. pc' = "parse" /\ outcome' = "none"
    BY <1>1, <1>6 DEF Header
  <2>. QED
    BY <1>1, <1>2, <1>3, <1>4, <1>6, <2>1
       DEF IInv, AnsweredAtTheEnd, JudgedFromHere, ParseIsIncremental
<1>. QED  BY <1>5, <1>6

\* A line that is not finished is looked at again from its "cr", or from what comes.
LEMMA LineOpenInv ==
    ASSUME IInv, LineOpen
    PROVE  IInv'
<1>1. /\ pc = "parse" /\ pc' = "recv" /\ LineStatus = "open" /\ checkedIndex' = LineEnd
      /\ UNCHANGED <<stream, buffer, startLine, checkState, outcome, closed>>
  BY DEF LineOpen, ResumeAt
<1>2. /\ ReadIndex \in Nat /\ checkedIndex \in Nat /\ LineEnd \in checkedIndex .. ReadIndex + 1
      /\ \A i \in checkedIndex .. LineEnd - 1 : buffer[i] \notin {"cr", "lf"}
      /\ startLine \in 1 .. checkedIndex /\ ReadIndex <= Len(stream) /\ Len(stream) \in Nat
      /\ ReadIndex' = ReadIndex
  BY <1>1, LineEndFound, LenProperties DEF IInv, TypeOK, Texts, ReadIndex
<1>3. Texts' /\ UnjudgedAsSent' /\ FirstLineFirst' /\ AnsweredAtTheEnd' /\ JudgedFromHere'
  BY <1>1, <1>2
     DEF IInv, Texts, UnjudgedAsSent, FirstLineFirst, AnsweredAtTheEnd, JudgedFromHere
<1>4. TypeOK'
  BY <1>1, <1>2 DEF IInv, TypeOK
<1>5. NoCrLeftBehind'
  <2>1. \A i \in 1 .. LineEnd - 1 : i \in 1 .. checkedIndex - 1 \/ i \in checkedIndex .. LineEnd - 1
    BY <1>2
  <2>. QED  BY <1>1, <1>2, <2>1 DEF IInv, NoCrLeftBehind
<1>6. NoBreakChecked'
  <2>1. \A i \in startLine .. LineEnd - 1 :
            i \in startLine .. checkedIndex - 1 \/ i \in checkedIndex .. LineEnd - 1
    BY <1>2
  <2>. QED  BY <1>1, <1>2, <2>1 DEF IInv, NoBreakChecked
<1>7. Verdict(Prefix(stream, ReadIndex)) = "more"
  <2>1. ReadIndex \in ReadIndex .. Len(stream)
    BY <1>2
  <2>. QED  BY <1>1, <2>1, JudgedLine
<1>8. ParseIsIncremental'
  BY <1>1, <1>2, <1>7 DEF IInv, AnsweredAtTheEnd, ParseIsIncremental, Prefix
<1>. QED  BY <1>3, <1>4, <1>5, <1>6, <1>8 DEF IInv

\* A line break of one character is an answer.
LEMMA LineBadInv ==
    ASSUME IInv, LineBad
    PROVE  IInv'
<1>1. /\ pc = "parse" /\ pc' = "done" /\ LineStatus = "bad" /\ checkedIndex' = LineEnd
      /\ outcome' = "wrong" /\ UNCHANGED <<stream, buffer, startLine, checkState, closed>>
  BY DEF LineBad, Answer
<1>2. /\ ReadIndex \in Nat /\ checkedIndex \in Nat /\ LineEnd \in checkedIndex .. ReadIndex + 1
      /\ \A i \in checkedIndex .. LineEnd - 1 : buffer[i] \notin {"cr", "lf"}
      /\ startLine \in 1 .. checkedIndex /\ ReadIndex <= Len(stream) /\ Len(stream) \in Nat
      /\ ReadIndex' = ReadIndex /\ LineEnd <= ReadIndex
  BY <1>1, LineEndFound, LenProperties, StatusMeans DEF IInv, TypeOK, Texts, ReadIndex
<1>3. Texts' /\ UnjudgedAsSent' /\ FirstLineFirst' /\ AnsweredAtTheEnd' /\ JudgedFromHere'
  BY <1>1, <1>2
     DEF IInv, Texts, UnjudgedAsSent, FirstLineFirst, AnsweredAtTheEnd, JudgedFromHere
<1>4. TypeOK'
  BY <1>1, <1>2 DEF IInv, TypeOK
<1>5. NoCrLeftBehind'
  <2>1. \A i \in 1 .. LineEnd - 1 : i \in 1 .. checkedIndex - 1 \/ i \in checkedIndex .. LineEnd - 1
    BY <1>2
  <2>. QED  BY <1>1, <1>2, <2>1 DEF IInv, NoCrLeftBehind
<1>6. NoBreakChecked'
  <2>1. \A i \in startLine .. LineEnd - 1 :
            i \in startLine .. checkedIndex - 1 \/ i \in checkedIndex .. LineEnd - 1
    BY <1>2
  <2>. QED  BY <1>1, <1>2, <2>1 DEF IInv, NoBreakChecked
<1>7. Verdict(Prefix(stream, ReadIndex)) = "wrong"
  <2>1. ReadIndex \in ReadIndex .. Len(stream)
    BY <1>2
  <2>. QED  BY <1>1, <2>1, JudgedLine
<1>8. ParseIsIncremental'
  BY <1>1, <1>2, <1>7 DEF ParseIsIncremental, Prefix
<1>. QED  BY <1>3, <1>4, <1>5, <1>6, <1>8 DEF IInv

\* The other steps leave the text and the indices alone.
LEMMA StillInv ==
    ASSUME IInv, RecvNothing \/ RecvFails \/ ClientCloses \/ UNCHANGED vars
    PROVE  IInv'
<1>1. /\ UNCHANGED <<stream, buffer, checkedIndex, startLine, checkState>>
      /\ \/ pc = "recv" /\ pc' = "done" /\ outcome' \in {"closed", "failed"}
         \/ UNCHANGED <<pc, outcome>>
  BY DEF RecvNothing, RecvFails, ClientCloses, Answer, vars
<1>2. closed' \in BOOLEAN
  BY DEF RecvNothing, RecvFails, ClientCloses, vars, IInv, TypeOK
<1>3. ReadIndex' = ReadIndex
  BY <1>1 DEF ReadIndex
<1>4. TypeOK'
  <2>1. /\ startLine' \in 1 .. checkedIndex' /\ checkedIndex' \in 1 .. ReadIndex' + 1
        /\ ReadIndex' <= BufSize /\ checkState' \in {"requestline", "header"}
        /\ pc' \in {"recv", "parse", "done"}
        /\ outcome' \in {"none", "correct", "wrong", "closed", "failed"}
    BY <1>1, <1>3 DEF IInv, TypeOK
  <2>. QED  BY <1>2, <2>1 DEF TypeOK
<1>5. Texts' /\ NoCrLeftBehind' /\ UnjudgedAsSent' /\ NoBreakChecked'
  BY <1>1, <1>3 DEF IInv, Texts, NoCrLeftBehind, UnjudgedAsSent, NoBreakChecked
<1>6. FirstLineFirst' /\ AnsweredAtTheEnd' /\ JudgedFromHere' /\ ParseIsIncremental'
  BY <1>1, <1>3
     DEF IInv, FirstLineFirst, AnsweredAtTheEnd, JudgedFromHere, ParseIsIncremental
<1>. QED  BY <1>4, <1>5, <1>6 DEF IInv

LEMMA NextInv == IInv /\ [Next]_vars => IInv'
<1>. SUFFICES ASSUME IInv, [Next]_vars PROVE IInv'
  OBVIOUS
<1>1. ASSUME NEW n \in 1 .. BufSize, Recv(n) PROVE IInv'
  BY <1>1, RecvInv
<1>2. CASE RequestLine
  BY <1>2, RequestLineInv
<1>3. CASE Header
  BY <1>3, HeaderInv
<1>4. CASE LineBad
  BY <1>4, LineBadInv
<1>5. CASE LineOpen
  BY <1>5, LineOpenInv
<1>6. CASE RecvNothing \/ RecvFails \/ ClientCloses \/ UNCHANGED vars
  BY <1>6, StillInv
<1>. QED  BY <1>1, <1>2, <1>3, <1>4, <1>5, <1>6 DEF Next

-----------------------------------------------------------------------------
(* The theorems, for all streams and every size of the buffer.              *)

\* start_line, checked_index and read_index never overtake each other, and recv
\* never writes behind the end of the buffer.
THEOREM IndicesInOrder == Spec => []TypeOK
<1>1. IInv => TypeOK
  BY DEF IInv
<1>. QED  BY <1>1, InitInv, NextInv, PTL DEF Spec

\* What the server answers, and that it goes on reading, depend on the text it has
\* read and not on the pieces in which recv returned it.
THEOREM AnswerOfWholeText == Spec => []ParseIsIncremental
<1>1. IInv => ParseIsIncremental
  BY DEF IInv
<1>. QED  BY <1>1, InitInv, NextInv, PTL DEF Spec

\* The branch of parse_line for a "lf" whose "cr" came with an earlier recv (lines
\* 41-45) is dead code: parse_line stops at such a "cr" and looks at it again.
THEOREM NoCrPassed == Spec => [](NoCrLeftBehind /\ LineStatus # "okbefore")
<1>1. IInv => NoCrLeftBehind /\ LineStatus # "okbefore"
  BY StatusMeans DEF IInv
<1>. QED  BY <1>1, InitInv, NextInv, PTL DEF Spec

\* The zeros that parse_line writes never touch what is still to be judged.
THEOREM CutsStayBehind == Spec => []UnjudgedAsSent
<1>1. IInv => UnjudgedAsSent
  BY DEF IInv
<1>. QED  BY <1>1, InitInv, NextInv, PTL DEF Spec
===============================================================================
