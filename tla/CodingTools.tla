---------------------------- MODULE CodingTools -----------------------------
(* The coding tools: patches, their staging and their hunks, commands and     *)
(* what they print, searches, and the tools that read, search and list files. *)
(* They share no state, so a behaviour is one of any of them: the components  *)
(* stand side by side, and what a property says of a component is             *)
(* Part!Property in its module.                                               *)
EXTENDS Naturals, FiniteSets, Sequences

CONSTANTS
    Order, MaxFaults, MaxMeddling,                      \* of PatchCommit
    Lines, MaxHunkFile, MaxHunk, MaxHunks,              \* of PatchHunks
    Names, MaxOperations,                               \* of PatchStaging
    BufferLimit, HeadDivisor, MaxBytes,                 \* of CommandOutput
    Commands, MaxActive, MaxRetained,                   \* of CommandRuns
    Searches, Clients, MaxSearches, MaxPerOwner, MaxFailures,
                                                        \* of SearchSessions
    MaxLine, MaxFile, MaxLines,                         \* of FilePages
    MaxMatches, MaxResults,                             \* of TextSearch
    ListedFiles, Patterns, MaxListed, MaxBatch          \* of FileListing

\* The limits of the code and the bounds are numbers, what there is of each kind
\* is finite, a patch names a path once, and a buffer keeps more than its head.
ASSUME CodingToolsAssumption ==
    /\ {MaxFaults, MaxMeddling, MaxHunkFile, MaxHunk, MaxHunks, MaxOperations, MaxBytes,
        MaxActive, MaxRetained, MaxSearches, MaxPerOwner, MaxFailures, MaxFile,
        MaxMatches, MaxResults, MaxListed, MaxBatch} \subseteq Nat
    /\ {BufferLimit, MaxLine, MaxLines} \subseteq Nat \ {0}
    /\ HeadDivisor \in Nat \ {0, 1}
    /\ Order \in Seq({Order[k] : k \in DOMAIN Order}) /\ Len(Order) >= 1
    /\ \A j, k \in 1 .. Len(Order) : Order[j] = Order[k] => j = k
    /\ IsFiniteSet(Commands) /\ IsFiniteSet(Searches) /\ IsFiniteSet(ListedFiles)

VARIABLES
    part,       \* the component this behaviour is of
    file, want, base, prepared, backup, installed, step, commitAt, errors,
    touched, faults, meddling,
    content, hunksHunks, outcome,
    disk, staging, count, written,
    head, tail, start, total, cursor, outputLost, delivered, omitted,
    exec, proc, starting, active, retained, settling, killer, managerClosed,
    ending,
    verdict, searchRg, collector, searchTimer, sessions, searcher, stopper,
    searchClosed, jobFailures,
    ends, ask, pageAt, shown, whole, pageCut,
    there, textRg, piped, textTimer, timed_out, main, taken, textCut, answer,
    kind, matches, how, asked, paths, visited, files, truncated, listLost,
    done

Commit == INSTANCE PatchCommit WITH
    at <- commitAt
Hunks == INSTANCE PatchHunks WITH
    MaxFile <- MaxHunkFile, hunks <- hunksHunks
Staging == INSTANCE PatchStaging
Output == INSTANCE CommandOutput WITH
    lost <- outputLost
Runs == INSTANCE CommandRuns
Search == INSTANCE SearchSessions WITH
    rg <- searchRg, timer <- searchTimer
Pages == INSTANCE FilePages WITH
    at <- pageAt, cut <- pageCut
Text == INSTANCE TextSearch WITH
    rg <- textRg, timer <- textTimer, cut <- textCut
Listing == INSTANCE FileListing WITH
    Files <- ListedFiles, MaxResults <- MaxListed, lost <- listLost

\* A behaviour is of one component: the variables of the others are unused.
commitVars == <<file, want, base, prepared, backup, installed, step, commitAt,
                errors, touched, faults, meddling>>
hunksVars == <<content, hunksHunks, outcome>>
stageVars == <<disk, staging, count, written>>
outputVars == <<head, tail, start, total, cursor, outputLost, delivered,
                omitted>>
runsVars == <<exec, proc, starting, active, retained, settling, killer,
              managerClosed, ending>>
searchVars == <<verdict, searchRg, collector, searchTimer, sessions, searcher,
                stopper, searchClosed, jobFailures>>
pageVars == <<ends, ask, pageAt, shown, whole, pageCut>>
textVars == <<there, textRg, piped, textTimer, timed_out, main, taken,
              textCut, answer>>
listVars == <<kind, matches, how, asked, paths, visited, files, truncated,
              listLost, done>>
vars == <<part, commitVars, hunksVars, stageVars, outputVars, runsVars, searchVars,
          pageVars, textVars, listVars>>

Unused(v) == v = "unused"
NoCommit ==
    /\ Unused(file) /\ Unused(want) /\ Unused(base) /\ Unused(prepared)
    /\ Unused(backup) /\ Unused(installed) /\ Unused(step) /\ Unused(commitAt)
    /\ Unused(errors) /\ Unused(touched) /\ Unused(faults) /\ Unused(meddling)
NoHunks ==
    /\ Unused(content) /\ Unused(hunksHunks) /\ Unused(outcome)
NoStaging ==
    /\ Unused(disk) /\ Unused(staging) /\ Unused(count) /\ Unused(written)
NoOutput ==
    /\ Unused(head) /\ Unused(tail) /\ Unused(start) /\ Unused(total)
    /\ Unused(cursor) /\ Unused(outputLost) /\ Unused(delivered)
    /\ Unused(omitted)
NoRuns ==
    /\ Unused(exec) /\ Unused(proc) /\ Unused(starting) /\ Unused(active)
    /\ Unused(retained) /\ Unused(settling) /\ Unused(killer)
    /\ Unused(managerClosed) /\ Unused(ending)
NoSearch ==
    /\ Unused(verdict) /\ Unused(searchRg) /\ Unused(collector)
    /\ Unused(searchTimer) /\ Unused(sessions) /\ Unused(searcher)
    /\ Unused(stopper) /\ Unused(searchClosed) /\ Unused(jobFailures)
NoPages ==
    /\ Unused(ends) /\ Unused(ask) /\ Unused(pageAt) /\ Unused(shown)
    /\ Unused(whole) /\ Unused(pageCut)
NoText ==
    /\ Unused(there) /\ Unused(textRg) /\ Unused(piped) /\ Unused(textTimer)
    /\ Unused(timed_out) /\ Unused(main) /\ Unused(taken) /\ Unused(textCut)
    /\ Unused(answer)
NoListing ==
    /\ Unused(kind) /\ Unused(matches) /\ Unused(how) /\ Unused(asked)
    /\ Unused(paths) /\ Unused(visited) /\ Unused(files) /\ Unused(truncated)
    /\ Unused(listLost) /\ Unused(done)

Init ==
    \/ part = "commit" /\ Commit!Init
       /\ NoHunks /\ NoStaging /\ NoOutput /\ NoRuns /\ NoSearch /\ NoPages
       /\ NoText /\ NoListing
    \/ part = "hunks" /\ Hunks!Init
       /\ NoCommit /\ NoStaging /\ NoOutput /\ NoRuns /\ NoSearch /\ NoPages
       /\ NoText /\ NoListing
    \/ part = "stage" /\ Staging!Init
       /\ NoCommit /\ NoHunks /\ NoOutput /\ NoRuns /\ NoSearch /\ NoPages
       /\ NoText /\ NoListing
    \/ part = "output" /\ Output!Init
       /\ NoCommit /\ NoHunks /\ NoStaging /\ NoRuns /\ NoSearch /\ NoPages
       /\ NoText /\ NoListing
    \/ part = "runs" /\ Runs!Init
       /\ NoCommit /\ NoHunks /\ NoStaging /\ NoOutput /\ NoSearch /\ NoPages
       /\ NoText /\ NoListing
    \/ part = "search" /\ Search!Init
       /\ NoCommit /\ NoHunks /\ NoStaging /\ NoOutput /\ NoRuns /\ NoPages
       /\ NoText /\ NoListing
    \/ part = "page" /\ Pages!Init
       /\ NoCommit /\ NoHunks /\ NoStaging /\ NoOutput /\ NoRuns /\ NoSearch
       /\ NoText /\ NoListing
    \/ part = "text" /\ Text!Init
       /\ NoCommit /\ NoHunks /\ NoStaging /\ NoOutput /\ NoRuns /\ NoSearch
       /\ NoPages /\ NoListing
    \/ part = "list" /\ Listing!Init
       /\ NoCommit /\ NoHunks /\ NoStaging /\ NoOutput /\ NoRuns /\ NoSearch
       /\ NoPages /\ NoText

Next ==
    \/ /\ part = "commit" /\ Commit!Next
       /\ UNCHANGED <<part, hunksVars, stageVars, outputVars, runsVars, searchVars,
                      pageVars, textVars, listVars>>
    \/ /\ part = "hunks" /\ Hunks!Next
       /\ UNCHANGED <<part, commitVars, stageVars, outputVars, runsVars, searchVars,
                      pageVars, textVars, listVars>>
    \/ /\ part = "stage" /\ Staging!Next
       /\ UNCHANGED <<part, commitVars, hunksVars, outputVars, runsVars, searchVars,
                      pageVars, textVars, listVars>>
    \/ /\ part = "output" /\ Output!Next
       /\ UNCHANGED <<part, commitVars, hunksVars, stageVars, runsVars, searchVars,
                      pageVars, textVars, listVars>>
    \/ /\ part = "runs" /\ Runs!Next
       /\ UNCHANGED <<part, commitVars, hunksVars, stageVars, outputVars, searchVars,
                      pageVars, textVars, listVars>>
    \/ /\ part = "search" /\ Search!Next
       /\ UNCHANGED <<part, commitVars, hunksVars, stageVars, outputVars, runsVars,
                      pageVars, textVars, listVars>>
    \/ /\ part = "page" /\ Pages!Next
       /\ UNCHANGED <<part, commitVars, hunksVars, stageVars, outputVars, runsVars,
                      searchVars, textVars, listVars>>
    \/ /\ part = "text" /\ Text!Next
       /\ UNCHANGED <<part, commitVars, hunksVars, stageVars, outputVars, runsVars,
                      searchVars, pageVars, listVars>>
    \/ /\ part = "list" /\ Listing!Next
       /\ UNCHANGED <<part, commitVars, hunksVars, stageVars, outputVars, runsVars,
                      searchVars, pageVars, textVars>>

Spec == Init /\ [][Next]_vars

\* The collector and the timer of a search are threads of their own.
FairSpec ==
    /\ Spec
    /\ \A s \in Searches : /\ WF_searchVars(part = "search" /\ Search!Collect(s))
                           /\ WF_searchVars(part = "search" /\ Search!Timeout(s))

------------------------------------------------------------------------------
\* What a patch stages is what its operations make of the files one after the
\* other, and it is written as a whole or not at all: the files it names are as
\* it left them or as they were found, whichever step of the commit fails, except
\* where somebody else wrote to them meanwhile (server.py apply_patch,
\* patching.py commit).
AllOrNothing ==
    CASE part = "commit" -> Commit!TypeOK /\ Commit!AllOrNothing
      [] part = "stage" -> Staging!StagedAsWritten
      [] OTHER -> TRUE

\* A hunk changes exactly the lines it quotes, where these occur once in the file
\* (patching.py apply_update_hunks).
PatchIsExact == part = "hunks" => Hunks!DistinctHunksExact

\* Every byte of a command's output is read once, or counted as dropped, by
\* whoever pages through it (processes.py output buffer).
OutputAccounted == part = "output" => Output!TypeOK /\ Output!OutputAccounted

\* A process that runs is within reach of its owner's end and of the shutdown: a
\* command is starting, in the table, being ended or told to end, and a search
\* holds its place among its owner's and all (server.py exec, kill, close; search.py).
NoProcessIsLost ==
    CASE part = "runs" -> Runs!TypeOK /\ Runs!NoCommandIsLost
      [] part = "search" -> Search!TypeOK /\ Search!NoSearchUnowned
      [] OTHER -> TRUE

\* A search keeps the verdict it was given, and it is given one in the end,
\* however collector, timer, stop and the end of its owner cross (search.py).
VerdictsAreKept == [][part = "search" => Search!KeepsVerdict]_searchVars
SearchesSettleOnce ==
    /\ VerdictsAreKept
    /\ \A s \in Searches :
          (part = "search" /\ Search!Unsettled(s)) ~> (part = "search" => ~Search!Unsettled(s))

\* What the file tools answer with is whole, or says that it is not: pages
\* follow each other without a gap, a text search names its matches or says
\* that it was cut short, a listing holds only listed files (server.py).
FileToolsHonest ==
    CASE part = "page" -> Pages!TypeOK /\ Pages!PagesCoverRange
      [] part = "text" -> Text!TypeOK /\ Text!SearchIsWhole
      [] part = "list" -> Listing!TypeOK /\ Listing!ListingIsWhole
      [] OTHER -> TRUE
==============================================================================
