------------------------------- MODULE HttpRecv -------------------------------
(***************************************************************************)
(* The HTTP request reader of chapter8/8.6/httprecv.c: recv appends to a    *)
(* buffer, and after each recv parse_content goes on where it stopped, with *)
(* parse_line cutting lines and a main state machine judging them.          *)
(*                                                                          *)
(* A buffer cell holds a token: "cr", "lf", "tab", "sp", "nul", a word the  *)
(* code compares with, or any other text.  "path" is a text that begins     *)
(* with a slash.  Positions count from 1, so checkedIndex and startLine are *)
(* one more than in the code.                                               *)
(***************************************************************************)
EXTENDS Integers, Sequences

CONSTANTS Input,    \* the streams a client may send
          BufSize   \* BUFFER_SIZE, in tokens

ASSUME HttpAssumption ==
    /\ BufSize \in Nat \ {0}
    /\ \A s \in Input : s \in Seq({s[i] : i \in DOMAIN s})

VARIABLES
    stream,        \* what the client sends, unknown to the server
    buffer,        \* the part read so far, lines ended by "nul"
    checkedIndex,  \* the next position parse_line looks at
    startLine,     \* where the current line begins
    checkState,    \* "requestline" or "header"
    pc,            \* "recv", "parse" or "done"
    outcome,       \* how the connection ended, or "none"
    closed         \* the client has closed the connection

vars == <<stream, buffer, checkedIndex, startLine, checkState, pc, outcome, closed>>

ReadIndex == Len(buffer)

Init ==
    /\ stream \in Input
    /\ buffer = <<>>
    /\ checkedIndex = 1
    /\ startLine = 1
    /\ checkState = "requestline"
    /\ pc = "recv"
    /\ outcome = "none"
    /\ closed = FALSE

-----------------------------------------------------------------------------
(* The line judges.  A line is a C string: it ends at its first "nul".      *)

\* The first position of s from i on whose token is in T, or Len(s) + 1.
FirstFrom(s, i, T) ==
    CHOOSE k \in i .. Len(s) + 1 :
        /\ k = Len(s) + 1 \/ s[k] \in T
        /\ \A j \in i .. k - 1 : s[j] \notin T

CString(s) == SubSeq(s, 1, FirstFrom(s, 1, {"nul"}) - 1)

From(s, i) == SubSeq(s, i, Len(s))

Blank == {"sp", "tab"}
SkipBlank(s) == From(s, CHOOSE k \in 1 .. Len(s) + 1 :
                            /\ k = Len(s) + 1 \/ s[k] \notin Blank
                            /\ \A j \in 1 .. k - 1 : s[j] \in Blank)

\* An absolute URL is cut down to what follows its host.
UrlOK(url) ==
    \/ url[1] = "path"
    \/ url[1] = "http://" /\ \E k \in 2 .. Len(url) : url[k] = "path"

\* parse_requestline: the method ends at a tab, not at a space (strpbrk with "\t").
RequestLineOK(line) ==
    LET text == CString(line)
        tab == FirstFrom(text, 1, {"tab"})
        url == SkipBlank(From(text, tab + 1))
        gap == FirstFrom(url, 1, Blank)
    IN /\ tab <= Len(text)
       /\ SubSeq(text, 1, tab - 1) = <<"GET">>
       /\ gap <= Len(url)
       /\ SkipBlank(From(url, gap)) = <<"HTTP/1.1">>
       /\ UrlOK(SubSeq(url, 1, gap - 1))

\* parse_headers: the empty line ends the request; every other line is taken.
LastHeader(line) == CString(line) = <<>>

-----------------------------------------------------------------------------
(* parse_line.                                                              *)

\* The first "cr" or "lf" not yet checked, or one past the end.
LineEnd == FirstFrom(buffer, checkedIndex, {"cr", "lf"})

\* Mutation: a "cr" at the end of what was read is passed over.
LineStatusEager ==
    IF LineEnd > ReadIndex THEN "open"
    ELSE IF buffer[LineEnd] = "cr"
    THEN IF LineEnd = ReadIndex THEN "bad"
         ELSE IF buffer[LineEnd + 1] = "lf" THEN "ok" ELSE "bad"
    ELSE "bad"

\* "okbefore" is the branch for a "lf" whose "cr" was passed in an earlier call.
LineStatus ==
    IF LineEnd > ReadIndex THEN "open"
    ELSE IF buffer[LineEnd] = "cr"
    THEN IF LineEnd = ReadIndex THEN "open"
         ELSE IF buffer[LineEnd + 1] = "lf" THEN "ok" ELSE "bad"
    ELSE IF LineEnd > 2 /\ buffer[LineEnd - 1] = "cr" THEN "okbefore" ELSE "bad"

\* Where the line break begins, when there is one.
Break == IF LineStatus = "okbefore" THEN LineEnd - 1 ELSE LineEnd

CurrentLine == SubSeq(buffer, startLine, Break - 1)

\* Mutation: the next line begins where the last one did.
NextLineStuck == startLine

NextLine == Break + 2

\* The line break becomes two "nul" and the next line begins behind it.
CutLine ==
    /\ pc = "parse"
    /\ LineStatus \in {"ok", "okbefore"}
    /\ buffer' = [buffer EXCEPT ![Break] = "nul", ![Break + 1] = "nul"]
    /\ checkedIndex' = Break + 2
    /\ startLine' = NextLine
    /\ UNCHANGED <<stream, closed>>

-----------------------------------------------------------------------------
(* The loop of main, with parse_content inlined.                            *)

Answer(a) == pc' = "done" /\ outcome' = a

\* Mutation: the room left in the buffer is not what recv is given.
RoomUnbounded == Len(stream)

Room == BufSize - ReadIndex

\* recv returns n tokens.
Recv(n) ==
    /\ pc = "recv"
    /\ n \in 1 .. Room /\ ReadIndex + n <= Len(stream)
    /\ buffer' = buffer \o SubSeq(stream, ReadIndex + 1, ReadIndex + n)
    /\ pc' = "parse"
    /\ UNCHANGED <<stream, checkedIndex, startLine, checkState, outcome, closed>>

\* recv returns 0: the client has closed, or there is no room for a token.
RecvNothing ==
    /\ pc = "recv"
    /\ closed \/ Room = 0
    /\ Answer("closed")
    /\ UNCHANGED <<stream, buffer, checkedIndex, startLine, checkState, closed>>

RecvFails ==
    /\ pc = "recv" /\ closed
    /\ Answer("failed")
    /\ UNCHANGED <<stream, buffer, checkedIndex, startLine, checkState, closed>>

RequestLine ==
    /\ CutLine
    /\ checkState = "requestline"
    /\ IF RequestLineOK(CurrentLine)
       THEN checkState' = "header" /\ UNCHANGED <<pc, outcome>>
       ELSE Answer("wrong") /\ UNCHANGED checkState

Header ==
    /\ CutLine
    /\ checkState = "header"
    /\ IF LastHeader(CurrentLine) THEN Answer("correct") ELSE UNCHANGED <<pc, outcome>>
    /\ UNCHANGED checkState

LineBad ==
    /\ pc = "parse" /\ LineStatus = "bad"
    /\ Answer("wrong")
    /\ checkedIndex' = LineEnd
    /\ UNCHANGED <<stream, buffer, startLine, checkState, closed>>

\* Mutation: the search resumes behind a "cr" that ends the buffer.
ResumeAtPastEnd == ReadIndex + 1

\* An unfinished line is searched again from its "cr", or from what comes next.
ResumeAt == LineEnd

LineOpen ==
    /\ pc = "parse" /\ LineStatus = "open"
    /\ checkedIndex' = ResumeAt
    /\ pc' = "recv"
    /\ UNCHANGED <<stream, buffer, startLine, checkState, outcome, closed>>

ClientCloses ==
    /\ ~closed /\ pc # "done"
    /\ closed' = TRUE
    /\ UNCHANGED <<stream, buffer, checkedIndex, startLine, checkState, pc, outcome>>

Next ==
    \/ \E n \in 1 .. BufSize : Recv(n)
    \/ RecvNothing
    \/ RecvFails
    \/ RequestLine
    \/ Header
    \/ LineBad
    \/ LineOpen
    \/ ClientCloses

Spec == Init /\ [][Next]_vars

-----------------------------------------------------------------------------
(* Properties.                                                              *)

\* The indices never overtake each other nor the buffer, whatever the pieces in
\* which the request arrives.
TypeOK ==
    /\ startLine \in 1 .. checkedIndex
    /\ checkedIndex \in 1 .. ReadIndex + 1
    /\ ReadIndex <= BufSize
    /\ checkState \in {"requestline", "header"}
    /\ pc \in {"recv", "parse", "done"}
    /\ outcome \in {"none", "correct", "wrong", "closed", "failed"}
    /\ closed \in BOOLEAN

\* The judgement on a text that arrived in one piece, line by line, from each
\* place where a line may begin: "more" when the request is not finished.
Judge(s) ==
    LET judge[i \in 1 .. Len(s) + 1] ==
            LET e == FirstFrom(s, i, {"cr", "lf"})
                line == SubSeq(s, i, e - 1)
            IN IF e > Len(s) \/ (e = Len(s) /\ s[e] = "cr") THEN "more"
               ELSE IF ~(e < Len(s) /\ s[e] = "cr" /\ s[e + 1] = "lf") THEN "wrong"
               ELSE IF i = 1
               THEN IF RequestLineOK(line) THEN judge[e + 2] ELSE "wrong"
               ELSE IF LastHeader(line) THEN "correct" ELSE judge[e + 2]
    IN judge

\* The first line is the request line.
Verdict(s) == Judge(s)[1]

\* Between two calls of recv the parser has come to the verdict of the whole
\* text read so far: the result does not depend on how the text was cut.
ParseIsIncremental ==
    LET verdict == Verdict(SubSeq(stream, 1, ReadIndex))
    IN /\ pc = "recv" => verdict = "more"
       /\ outcome \in {"correct", "wrong"} => verdict = outcome

\* parse_line never leaves a "cr" behind: the branch for a "lf" whose "cr" was
\* checked by an earlier call (lines 41-45) is never taken.
NoCrLeftBehind == \A i \in 1 .. checkedIndex - 1 : i <= ReadIndex => buffer[i] # "cr"

\* Whatever was cut and written before, what is still to be judged is what the
\* client sent: the writes of parse_line (lines 33-44) stay in front of startLine.
UnjudgedAsSent == \A i \in startLine .. ReadIndex : buffer[i] = stream[i]
=============================================================================
