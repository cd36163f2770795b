----------------------------- MODULE FileListing -----------------------------
(* list_files: with fd where it is installed, pattern by pattern, else by a   *)
(* walk in batches (coding_tools_mcp/server.py).  A file is "listed", or what *)
(* the tool leaves out: "ignored" by the workspace, or "unsafe", a link or an *)
(* excluded name that fd reports and the tool drops.  Each pattern matches a  *)
(* set of files, which do not change during the call.                         *)
EXTENDS Naturals, FiniteSets

CONSTANTS Files, Patterns, MaxResults, MaxBatch   \* 256 in the code

Kinds == {"listed", "ignored", "unsafe"}

VARIABLES
    kind,       \* of each file
    matches,    \* the files of each pattern
    how,        \* fd or walk
    asked,      \* the patterns fd has been run for
    paths,      \* the files it has found
    visited,    \* the files the walk has come to
    files,      \* the answer
    truncated,
    lost,       \* fd stopped at its limit with an unsafe link among its results
    done

vars == <<kind, matches, how, asked, paths, visited, files, truncated, lost, done>>

TypeOK ==
    /\ kind \in [Files -> Kinds] /\ matches \in [Patterns -> SUBSET Files]
    /\ how \in {"fd", "walk"} /\ asked \subseteq Patterns
    /\ paths \subseteq Files /\ visited \subseteq Files /\ files \subseteq Files
    /\ truncated \in BOOLEAN /\ lost \in BOOLEAN /\ done \in BOOLEAN
    /\ Cardinality(files) <= MaxResults

Init ==
    /\ kind \in [Files -> Kinds] /\ matches \in [Patterns -> SUBSET Files]
    /\ how \in {"fd", "walk"}
    /\ asked = {} /\ paths = {} /\ visited = {} /\ files = {}
    /\ truncated = FALSE /\ lost = FALSE /\ done = FALSE

Least(m, n) == IF m <= n THEN m ELSE n
Full(S) == Cardinality(S) >= MaxResults
Matched == UNION {matches[p] : p \in Patterns}
Wanted == {f \in Matched : kind[f] = "listed"}
ToRun == {p \in Patterns \ asked : ~Full(paths)}

\* fd answers for one pattern with max_results files at most, in its own order;
\* links that lead out of the workspace are dropped, and what is over the limit.
FdPattern(p) ==
    /\ how = "fd" /\ ~done /\ p \in ToRun
    /\ \E raw \in SUBSET matches[p] :
          /\ Cardinality(raw) = Least(Cardinality(matches[p]), MaxResults)
          /\ \E found \in SUBSET {f \in raw : kind[f] # "unsafe"} :
                /\ paths' = paths \cup found
                /\ Cardinality(paths') <= MaxResults
                /\ Full(paths') \/ {f \in raw : kind[f] # "unsafe"} \subseteq found
          /\ lost' = (lost \/ (raw # matches[p] /\ \E f \in raw : kind[f] = "unsafe"))
    /\ asked' = asked \cup {p}
    /\ UNCHANGED <<kind, matches, how, visited, files, truncated, done>>

\* fd is missing, fails or runs out of time: the walk starts from nothing.
FallBack ==
    /\ how = "fd" /\ ~done /\ ToRun # {} /\ how' = "walk"
    /\ asked' = {} /\ paths' = {} /\ lost' = FALSE
    /\ UNCHANGED <<kind, matches, visited, files, truncated, done>>

\* Mutant: what is ignored no longer counts when the limit is compared.
FdAnswerCountingFiles ==
    /\ how = "fd" /\ ~done /\ ToRun = {} /\ done' = TRUE
    /\ files' = {f \in paths : kind[f] = "listed"}
    /\ truncated' = Full(files')
    /\ UNCHANGED <<kind, matches, how, asked, paths, visited, lost>>

FdAnswer ==
    /\ how = "fd" /\ ~done /\ ToRun = {} /\ done' = TRUE
    /\ files' = {f \in paths : kind[f] = "listed"}
    /\ truncated' = Full(paths)
    /\ UNCHANGED <<kind, matches, how, asked, paths, visited, lost>>

\* One batch of the walk: the limit may be reached inside it.
WalkBatch(batch) ==
    /\ how = "walk" /\ ~done /\ ~truncated
    /\ batch # {} /\ batch \subseteq Matched \ visited /\ Cardinality(batch) <= MaxBatch
    /\ LET wanted == batch \cap Wanted
       IN IF Cardinality(files \cup wanted) < MaxResults
          THEN files' = files \cup wanted /\ visited' = visited \cup batch /\ UNCHANGED truncated
          ELSE /\ truncated' = TRUE /\ visited' = visited \cup batch
               /\ \E some \in SUBSET wanted : files' = files \cup some /\ Cardinality(files') = MaxResults
    /\ UNCHANGED <<kind, matches, how, asked, paths, lost, done>>

WalkAnswer ==
    /\ how = "walk" /\ ~done /\ (truncated \/ visited = Matched) /\ done' = TRUE
    /\ UNCHANGED <<kind, matches, how, asked, paths, visited, files, truncated, lost>>

Next ==
    \/ \E p \in Patterns : FdPattern(p)
    \/ FallBack \/ FdAnswer
    \/ \E batch \in SUBSET Files : WalkBatch(batch)
    \/ WalkAnswer

Spec == Init /\ [][Next]_vars
------------------------------------------------------------------------------
\* A listing holds only files the workspace lists, and all of them unless it is
\* called truncated; the exception is a link that took a place in fd's own limit
\* and was dropped afterwards.
ListingIsWhole ==
    done => /\ files \subseteq Wanted
            /\ truncated \/ lost \/ files = Wanted

\* The same without the exception.
UntruncatedIsWhole == done => truncated \/ files = Wanted
==============================================================================
