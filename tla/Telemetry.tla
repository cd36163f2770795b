----------------------------- MODULE Telemetry -----------------------------
(***************************************************************************)
(* The usage counters of the coding tools                                  *)
(* (coding_tools_mcp/telemetry.py): threads serving requests count them    *)
(* under the session's lock and hand events to a bounded queue afterwards, *)
(* outside it; a sender thread posts the queue in batches, and finish      *)
(* sums the session up once.                                               *)
(*                                                                         *)
(* Every stretch under a lock is one action, so what a thread counted and  *)
(* the event it tells of it are two.  Sending is on throughout; labels,    *)
(* identities, durations and the first-appearance log are left out.        *)
(***************************************************************************)
EXTENDS Naturals, Sequences, FiniteSets, FiniteSetsExt, SequencesExt

CONSTANTS Threads,        \* threads serving requests; one of them may close
          Tools,          \* tool names
          ErrorLimit,     \* ERROR_EVENTS_PER_SESSION
          QueueLimit,     \* QUEUE_LIMIT
          MaxCalls,       \* bound: requests and calls counted
          MaxHandshakes   \* bound: handshakes told

VARIABLES
    active, finished,  \* the session's flags
    served,            \* requests counted
    stats,             \* per tool: its calls and how many failed
    streak,            \* the tool that failed last and how often in a row
    errorsSent, errorsDropped,
    telling,           \* per thread: the events it is about to enqueue
    queue,             \* _Sender._queue
    batch,             \* what the sender took and is posting
    told,              \* every event enqueued or dropped for room, in order
    overflowed,        \* how many were dropped for room
    posted,            \* how many were posted
    happened,          \* history: how many requests and which calls were served
    summed             \* history: what had happened when the session was finished

history == <<happened, summed>>
counters == <<served, stats, streak, errorsSent, errorsDropped>>
sender == <<queue, batch, told, overflowed, posted>>
vars == <<active, finished, counters, telling, sender, history>>

NoStreak == [tool |-> "none", length |-> 0]
Silent(t) == telling[t] = <<>>

Init ==
    /\ active = FALSE /\ finished = FALSE
    /\ served = 0 /\ streak = NoStreak /\ errorsSent = 0 /\ errorsDropped = 0
    /\ stats = [x \in Tools |-> [calls |-> 0, errors |-> 0]]
    /\ telling = [t \in Threads |-> <<>>]
    /\ queue = <<>> /\ batch = <<>> /\ told = <<>>
    /\ overflowed = 0 /\ posted = 0
    /\ happened = [requests |-> 0, calls |-> <<>>] /\ summed = happened

Calls == MapThenSumSet(LAMBDA x : stats[x].calls, Tools)

\* A call that happened: whether it succeeded and a session was on; and how often
\* one of a set of them did.
CallsOf(tools, oks, sessions) == [tool : tools, ok : oks, session : sessions]
Often(log, set) == Cardinality({i \in 1 .. Len(log.calls) : log.calls[i] \in set})

-----------------------------------------------------------------------------
(* Counting                                                                *)

Start == [kind |-> "session_start"]

\* _activate_locked
Activates == ~active /\ ~finished

\* record_request: a ping is counted and activates nothing.
RecordRequest(t, ping) ==
    /\ Silent(t) /\ served < MaxCalls
    /\ served' = served + 1
    /\ happened' = [happened EXCEPT !.requests = @ + 1]
    /\ active' = (active \/ (~ping /\ Activates))
    /\ telling' = [telling EXCEPT ![t] = IF ~ping /\ Activates THEN <<Start>> ELSE <<>>]
    /\ UNCHANGED <<finished, stats, streak, errorsSent, errorsDropped, sender, summed>>

\* record_session_start, for a handshake whose request was counted before.
RecordSessionStart(t) ==
    /\ Silent(t) /\ served > 0
    /\ Cardinality({i \in 1 .. Len(told) : told[i].kind = "handshake"}) < MaxHandshakes
    /\ active' = (active \/ Activates)
    /\ telling' = [telling EXCEPT ![t] =
          (IF Activates THEN <<Start>> ELSE <<>>) \o <<[kind |-> "handshake"]>>]
    /\ UNCHANGED <<finished, counters, sender, history>>

\* Mutant: a tool's counters are made anew for each call.
CountedAnew(row, ok) == [calls |-> 1, errors |-> IF ok THEN 0 ELSE 1]

\* A tool's counters, a call later.
Counted(row, ok) == [calls |-> row.calls + 1, errors |-> row.errors + (IF ok THEN 0 ELSE 1)]

\* record_tool_call
RecordToolCall(t, x, ok) ==
    /\ Silent(t) /\ Len(happened.calls) < MaxCalls
    /\ stats' = [stats EXCEPT ![x] = Counted(@, ok)]
    /\ happened' = [happened EXCEPT !.calls = Append(@, [tool |-> x, ok |-> ok, session |-> active])]
    /\ streak' = IF ok THEN NoStreak
                 ELSE [tool |-> x, length |-> IF streak.tool = x THEN streak.length + 1 ELSE 1]
    /\ LET tells == ~ok /\ active /\ errorsSent < ErrorLimit
       IN /\ errorsSent' = errorsSent + (IF tells THEN 1 ELSE 0)
          /\ errorsDropped' = errorsDropped + (IF ~ok /\ active /\ ~tells THEN 1 ELSE 0)
          /\ telling' = [telling EXCEPT ![t] =
                IF tells THEN <<[kind |-> "tool_error", tool |-> x, row |-> streak'.length]>>
                ELSE <<>>]
    /\ UNCHANGED <<active, finished, served, sender, summed>>

\* finish: once, and only for a session that was activated; one summary per
\* tool used and the end with the totals.
Summaries ==
    SetToSeq({[kind |-> "tool_summary", tool |-> x, calls |-> stats[x].calls,
               errors |-> stats[x].errors] : x \in {y \in Tools : stats[y].calls > 0}})
End == [kind |-> "session_end", calls |-> Calls, dropped |-> errorsDropped, requests |-> served]

Finish(t) ==
    /\ Silent(t)
    /\ ~finished
    /\ finished' = TRUE /\ summed' = happened
    /\ telling' = [telling EXCEPT ![t] = IF active THEN Append(Summaries, End) ELSE <<>>]
    /\ UNCHANGED <<active, counters, sender, happened>>

-----------------------------------------------------------------------------
(* Sending                                                                 *)

\* _emit, _Sender.enqueue: as many as there is room for.
Enqueue(t) ==
    /\ ~Silent(t)
    /\ LET room == QueueLimit - Len(queue)
           taken == Min({room, Len(telling[t])})
       IN /\ queue' = queue \o SubSeq(telling[t], 1, taken)
          /\ overflowed' = overflowed + Len(telling[t]) - taken
    /\ told' = told \o telling[t]
    /\ telling' = [telling EXCEPT ![t] = <<>>]
    /\ UNCHANGED <<active, finished, counters, batch, posted, history>>

\* _run: the whole queue is taken under the lock and posted outside it.
Take ==
    /\ batch = <<>> /\ queue # <<>>
    /\ batch' = queue
    /\ queue' = <<>>
    /\ UNCHANGED <<active, finished, counters, telling, told, overflowed, posted, history>>

\* _post, whether the server answers or not.
Post ==
    /\ batch # <<>>
    /\ posted' = posted + Len(batch)
    /\ batch' = <<>>
    /\ UNCHANGED <<active, finished, counters, telling, queue, told, overflowed, history>>

Next ==
    \/ \E t \in Threads, b \in BOOLEAN : RecordRequest(t, b)
    \/ \E t \in Threads : RecordSessionStart(t) \/ Finish(t) \/ Enqueue(t)
    \/ \E t \in Threads, x \in Tools, ok \in BOOLEAN : RecordToolCall(t, x, ok)
    \/ Take
    \/ Post

Spec == Init /\ [][Next]_vars

-----------------------------------------------------------------------------
(* Properties                                                              *)

Times(kind) == Cardinality({i \in 1 .. Len(told) : told[i].kind = kind})
AllSilent == \A t \in Threads : Silent(t)

\* What the end of a session must tell of what had happened by then: a row for
\* each tool called, and the totals.  Of the failures only those that the limit
\* leaves no event are dropped.
Excess(n) == IF n > ErrorLimit THEN n - ErrorLimit ELSE 0
TrueRow(log, x) ==
    [kind |-> "tool_summary", tool |-> x, calls |-> Often(log, CallsOf({x}, BOOLEAN, BOOLEAN)),
     errors |-> Often(log, CallsOf({x}, {FALSE}, BOOLEAN))]
TrueRows(log) ==
    {TrueRow(log, x) : x \in {y \in Tools : Often(log, CallsOf({y}, BOOLEAN, BOOLEAN)) > 0}}
TrueEnd(log) ==
    [kind |-> "session_end", calls |-> Len(log.calls),
     dropped |-> Excess(Often(log, CallsOf(Tools, {FALSE}, {TRUE}))), requests |-> log.requests]

ToldOf(kind) == {told[i] : i \in {j \in 1 .. Len(told) : told[j].kind = kind}}

\* However the threads interleave, what is told is what happened (docs/telemetry.md).
\* A session starts and ends at most once, and ends only if it started; its end
\* tells the requests, the calls, the dropped failures and, tool by tool, the
\* calls and failures that had been served when it was finished, neither more nor
\* less.  Every failure in a session is told or counted as dropped, and dropped
\* only when ErrorLimit were told.  No event is lost but for room in the queue.
TelemetryAddsUp ==
    /\ Times("session_start") <= 1 /\ Times("session_end") <= 1
    /\ Times("tool_error") <= ErrorLimit
    /\ errorsSent + errorsDropped = Often(happened, CallsOf(Tools, {FALSE}, {TRUE}))
    /\ errorsDropped > 0 => errorsSent = ErrorLimit
    /\ ToldOf("tool_summary") # {} => ToldOf("session_end") # {}
    /\ ToldOf("session_end") # {} =>
          /\ active /\ finished
          /\ ToldOf("session_end") = {TrueEnd(summed)}
          /\ ToldOf("tool_summary") = TrueRows(summed)
    /\ AllSilent =>
          /\ Times("session_start") = (IF active THEN 1 ELSE 0)
          /\ Times("session_end") = (IF active /\ finished THEN 1 ELSE 0)
          /\ Times("tool_error") = errorsSent
    /\ Len(told) = overflowed + posted + Len(batch) + Len(queue)
    /\ Len(queue) <= QueueLimit

=============================================================================
