------------------------------ MODULE TextSearch ------------------------------
(* search_text: ripgrep's matches are read from its pipe while a timer may    *)
(* kill it; what it does not answer for is searched again line by line        *)
(* (coding_tools_mcp/server.py).  MaxMatches bounds the matches there are,    *)
(* MaxResults what the caller asks for.                                       *)
EXTENDS Naturals

CONSTANTS MaxMatches, MaxResults

VARIABLES
    there,      \* matching lines in the workspace
    rg,         \* the process: running, over, killed, and the code it left
    piped,      \* match events in its pipe, taken and not
    timer,      \* armed, firing (between its two steps), fired, cancelled
    timed_out,  \* what it tells the main thread
    main,       \* the thread that answers: reading, closing, deciding, done
    taken,      \* events it has counted
    cut,        \* it stopped at max_results
    answer      \* matches, whether truncated, and whose they are

vars == <<there, rg, piped, timer, timed_out, main, taken, cut, answer>>

NoAnswer == [matches |-> 0, truncated |-> FALSE, engine |-> "none"]

TypeOK ==
    /\ there \in 0 .. MaxMatches /\ piped \in 0 .. MaxMatches
    /\ rg \in {"running", "found", "none", "failed", "killed"}
    /\ timer \in {"armed", "firing", "fired", "cancelled"} /\ timed_out \in BOOLEAN
    /\ main \in {"reading", "closing", "deciding", "done"}
    /\ taken \in 0 .. MaxMatches /\ cut \in BOOLEAN
    /\ answer \in [matches: 0 .. MaxMatches, truncated: BOOLEAN, engine: {"none", "rg", "lines"}]

Init ==
    /\ there \in 0 .. MaxMatches
    /\ rg = "running" /\ piped = 0 /\ timer = "armed" /\ timed_out = FALSE
    /\ main = "reading" /\ taken = 0 /\ cut = FALSE /\ answer = NoAnswer

Emit == rg = "running" /\ piped < there /\ piped' = piped + 1
        /\ UNCHANGED <<there, rg, timer, timed_out, main, taken, cut, answer>>

\* It ends by itself with 0 or 1, or fails with another code on the way.
End ==
    /\ rg = "running"
    /\ rg' \in {"failed"} \cup (IF piped < there THEN {} ELSE IF there = 0 THEN {"none"} ELSE {"found"})
    /\ UNCHANGED <<there, piped, timer, timed_out, main, taken, cut, answer>>

Kills == rg' = IF rg = "running" THEN "killed" ELSE rg

Take ==
    /\ main = "reading" /\ taken < piped
    /\ taken' = taken + 1
    /\ IF taken' > MaxResults THEN cut' = TRUE /\ main' = "closing" /\ Kills
       ELSE UNCHANGED <<cut, main, rg>>
    /\ UNCHANGED <<there, piped, timer, timed_out, answer>>

EndOfPipe ==
    /\ main = "reading" /\ taken = piped /\ rg # "running" /\ main' = "closing"
    /\ UNCHANGED <<there, rg, piped, timer, timed_out, taken, cut, answer>>

\* Mutant: the process is killed first and the flag set afterwards.
TimeoutKillingFirst ==
    /\ \/ timer = "armed" /\ timer' = "firing" /\ Kills /\ UNCHANGED timed_out
       \/ timer = "firing" /\ timer' = "fired" /\ timed_out' = TRUE /\ UNCHANGED rg
    /\ UNCHANGED <<there, piped, main, taken, cut, answer>>

\* stop_timed_out_search, in the timer's thread.
Timeout ==
    /\ \/ timer = "armed" /\ timer' = "firing" /\ timed_out' = TRUE /\ UNCHANGED rg
       \/ timer = "firing" /\ timer' = "fired" /\ Kills /\ UNCHANGED timed_out
    /\ UNCHANGED <<there, piped, main, taken, cut, answer>>

\* finally: the timer is cancelled if it has not begun, and the process is waited
\* for, then killed.
Close ==
    /\ main = "closing" /\ main' = "deciding"
    /\ timer' = IF timer = "armed" THEN "cancelled" ELSE timer
    /\ Kills
    /\ UNCHANGED <<there, piped, timed_out, taken, cut, answer>>

\* The search line by line counts every match and keeps the first ones.
ByLines == [matches |-> IF there < MaxResults THEN there ELSE MaxResults,
            truncated |-> there > MaxResults, engine |-> "lines"]

ByRg == [matches |-> IF taken < MaxResults THEN taken ELSE MaxResults, truncated |-> cut, engine |-> "rg"]

\* A killed process leaves 1 where Windows ends it, as one that found nothing.
ExitAccepted == rg \in {"found", "none", "killed"}

Decide ==
    /\ main = "deciding" /\ main' = "done"
    /\ answer' = IF timed_out \/ (~cut /\ ~ExitAccepted) THEN ByLines ELSE ByRg
    /\ UNCHANGED <<there, rg, piped, timer, timed_out, taken, cut>>

Next == Emit \/ End \/ Take \/ EndOfPipe \/ Timeout \/ Close \/ Decide

Spec == Init /\ [][Next]_vars
------------------------------------------------------------------------------
\* An answer has all the matches or as many as were asked for, and says which,
\* whenever the timer ran out and whoever ended the process.
SearchIsWhole ==
    main = "done" =>
        /\ answer.matches = IF there < MaxResults THEN there ELSE MaxResults
        /\ answer.truncated = (there > MaxResults)
==============================================================================
