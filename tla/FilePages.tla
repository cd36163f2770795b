------------------------------ MODULE FilePages ------------------------------
(* read_file: a text is read in pages of at most DEFAULT_MAX_LINES lines and  *)
(* max_bytes bytes, each answer naming the call that continues it             *)
(* (coding_tools_mcp/server.py).  A file is where its lines end, in bytes; it *)
(* does not change between the pages.                                         *)
EXTENDS Naturals, Sequences, FiniteSets

CONSTANTS MaxLine,     \* bytes of the longest line
          MaxFile,     \* lines of the longest file
          MaxLines     \* DEFAULT_MAX_LINES

Unbounded == 0         \* no end_line is asked for

VARIABLES
    ends,       \* the offset each line of the file ends at
    ask,        \* start_line, end_line and max_bytes of the first call
    at,         \* start_line of the next call; 0 when no page names one
    shown,      \* the pages so far: their first and last lines
    whole,      \* lines shown in full
    cut         \* lines shown up to max_bytes

vars == <<ends, ask, at, shown, whole, cut>>

EndOf(k) == IF k = 0 THEN 0 ELSE ends[k]

Init ==
    /\ \E n \in 0 .. MaxFile :
          /\ ends \in [1 .. n -> 1 .. n * MaxLine]
          /\ \A k \in 1 .. n : EndOf(k - 1) < EndOf(k) /\ EndOf(k) <= EndOf(k - 1) + MaxLine
    /\ ask \in [first: 1 .. MaxFile + 1, last: {Unbounded} \cup 1 .. MaxFile + 1, bytes: 1 .. MaxLine]
    /\ at = ask.first
    /\ shown = {} /\ whole = {} /\ cut = {}

Total == Len(ends)
Least(m, n) == IF m <= n THEN m ELSE n
EndLine == IF ask.last = Unbounded THEN Total ELSE ask.last
Bytes(first, last) == EndOf(last) - EndOf(first - 1)

Selected == {n \in 1 .. Total : at <= n /\ n <= EndLine}

\* The lines of a page, in full: as many as fit.
Fitting == {n \in Selected : n < at + MaxLines /\ Bytes(at, n) <= ask.bytes}

\* A first line that is too long is shown in part, and counts as a line.
TooLong == Fitting = {} /\ Selected # {}
Parts == IF TooLong THEN 1 ELSE Cardinality(Fitting)
Truncated == Fitting # Selected

ActualEnd == IF Truncated /\ Parts > 0 THEN Least(Total, at + Parts - 1) ELSE Least(EndLine, Total)

\* Mutant: only lines shown in full move the next page on.
NextStartInFull ==
    LET last == IF Truncated THEN at + Cardinality(Fitting) - 1 ELSE Least(EndLine, Total)
    IN IF Truncated /\ last < Least(EndLine, Total) THEN last + 1 ELSE 0

\* next_action: there is one while lines of the range are left.
NextStart == IF Truncated /\ ActualEnd < Least(EndLine, Total) THEN ActualEnd + 1 ELSE 0

Page ==
    /\ at # 0
    /\ shown' = shown \cup {<<at, ActualEnd>>}
    /\ whole' = whole \cup Fitting
    /\ cut' = IF TooLong THEN cut \cup {at} ELSE cut
    /\ at' = NextStart
    /\ UNCHANGED <<ends, ask>>

Done == at = 0 /\ UNCHANGED vars

Next == Page \/ Done

Spec == Init /\ [][Next]_vars
------------------------------------------------------------------------------
TypeOK ==
    /\ at \in 0 .. MaxFile + 1
    /\ shown \subseteq (1 .. MaxFile + 1) \X (0 .. MaxFile + 1)
    /\ whole \subseteq 1 .. Total /\ cut \subseteq 1 .. Total

\* Following next_action shows every line of the range once and none outside it,
\* in full unless it is longer than a page; every page moves on; the pages' line
\* numbers say which lines they show.
PagesCoverRange ==
    LET range == {n \in 1 .. Total : ask.first <= n /\ n <= EndLine}
    IN /\ whole \cap cut = {} /\ whole \cup cut \subseteq range
       /\ \A n \in cut : Bytes(n, n) > ask.bytes
       /\ at # 0 => \A p \in shown : p[1] < at
       /\ at = 0 => /\ whole \cup cut = range
                    /\ range = UNION {p[1] .. p[2] : p \in shown}
       /\ \A p, q \in shown : p # q => p[1] .. p[2] \cap q[1] .. q[2] = {}
==============================================================================
