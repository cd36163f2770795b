-------------------------- MODULE OperationJournal --------------------------
(***************************************************************************)
(* The operation journal (personal_mcp/operations.py): a write is recorded *)
(* before it is dispatched, its result is replayed to a repeated request,  *)
(* and an operation whose outcome is not known is never dispatched again.  *)
(*                                                                         *)
(* Every SQLite transaction is one action.  A write either runs in the     *)
(* caller (coding tools) or is a Future another thread completes (BF       *)
(* tools); what it does to the world is kept in "effect", which no code    *)
(* reads.  Result bytes are abstract: _prune may drop any result.          *)
(***************************************************************************)
EXTENDS Naturals, FiniteSets

CONSTANTS Owners,      \* workflow identities
          RequestIds,  \* request ids a client chooses
          Digests,     \* what a request asks for: tool name and arguments
          Callers,     \* threads inside run()
          MaxRecords   \* max_records

ASSUME ConstantsAssumption == MaxRecords \in Nat

Keys == Owners \X RequestIds

\* How a tool ends: a result (success, failure, explicitly unknown outcome,
\* one JSON cannot encode) or an exception.
Outcomes == {"ok", "failed", "uncertain", "garbled", "raised"}
Definite == {"ok", "failed"}

VARIABLES
    rows,      \* table operations
    pc,        \* per caller: idle, reserved, running, waiting, complete, unknown
    call,      \* per caller: the key and digest it runs
    outcome,   \* per caller: the outcome _complete is about to record
    future,    \* per key: "none", "pending", or the outcome it holds
    notify,    \* keys whose done callback has not run yet
    closed,    \* owners the registry reports as permanently closed
    effect,    \* per key: how often the tool was started, for what, its outcome
    answers    \* definite answers given: <<key, digest, outcome>>

vars == <<rows, pc, call, outcome, future, notify, closed, effect, answers>>
callers == <<pc, call, outcome>>

NoRow == [digest |-> "none", state |-> "none", kept |-> FALSE, outcome |-> "none"]
Recorded == {k \in Keys : rows[k] # NoRow}
NoEffect == [times |-> 0, digest |-> "none", outcome |-> "none"]
NoCall == [key |-> <<"none", "none">>, digest |-> "none"]

Init ==
    /\ rows = [k \in Keys |-> NoRow]
    /\ pc = [c \in Callers |-> "idle"]
    /\ call = [c \in Callers |-> NoCall]
    /\ outcome = [c \in Callers |-> "none"]
    /\ future = [k \in Keys |-> "none"]
    /\ notify = {}
    /\ closed = {}
    /\ effect = [k \in Keys |-> NoEffect]
    /\ answers = {}

-----------------------------------------------------------------------------
(* Helpers                                                                 *)

\* _prune: results may be dropped, receipts never.
Prunes(table) ==
    {[k \in Keys |-> IF k \in dropped THEN [table[k] EXCEPT !.kept = FALSE]
                     ELSE table[k]] : dropped \in SUBSET {k \in Keys : table[k].kept}}

Done(k) == future[k] \notin {"none", "pending"}

\* Mutant: only a running row can be completed.
RecordableRunning == {"running"}

\* _complete records the outcome of a row in one of these states.
Recordable == {"running", "unknown"}

\* Mutant: an exception overwrites a recorded outcome.
MarkedAlways(k) == [rows[k] EXCEPT !.state = IF rows[k] = NoRow THEN @ ELSE "unknown"]

\* _unknown: only a row still running becomes unknown.
Marked(k) ==
    [rows[k] EXCEPT !.state = IF @ = "running" THEN "unknown" ELSE @]

\* _complete: the outcome of a row that is running or unknown.
Completed(k, o) ==
    IF rows[k].state \in Recordable
    THEN [rows[k] EXCEPT !.kept = TRUE, !.outcome = o,
             !.state = CASE o = "ok" -> "completed" [] o = "failed" -> "failed"
                         [] OTHER -> "unknown"]
    ELSE rows[k]

SetUnknown(k) == rows' = [rows EXCEPT ![k] = Marked(k)]
SetComplete(k, o) == rows' \in Prunes([rows EXCEPT ![k] = Completed(k, o)])

Return(c) ==
    /\ pc' = [pc EXCEPT ![c] = "idle"]
    /\ call' = [call EXCEPT ![c] = NoCall]
    /\ outcome' = [outcome EXCEPT ![c] = "none"]

Key(c) == call[c].key

-----------------------------------------------------------------------------
(* run(): the reserving transaction                                        *)

\* Mutant: a receipt whose result expired no longer counts as one.
KnownKept(k) == rows[k] # NoRow /\ (rows[k].state \in Recordable \/ rows[k].kept)

Known(k) == rows[k] # NoRow

\* Mutant: the digest of the repeated request is not compared.
ReplayableAny(k, d) == rows[k].state \in {"completed", "failed"}

Replayable(k, d) ==
    rows[k].digest = d /\ rows[k].state \in {"completed", "failed"}

\* A repeated request is answered with the stored result.  Every refusal
\* (REQUEST_CONFLICT, OPERATION_RUNNING, OUTCOME_UNKNOWN, RESULT_EXPIRED)
\* rolls the transaction back and changes nothing.
Repeat(c, k, d) ==
    /\ pc[c] = "idle" /\ k[1] \notin closed
    /\ Known(k) /\ Replayable(k, d)
    /\ rows' \in Prunes(rows) /\ rows'[k].kept
    /\ answers' = answers \cup {<<k, d, rows[k].outcome>>}
    /\ UNCHANGED <<callers, future, notify, closed, effect>>

\* Mutant: the state of a new row is not one the table knows.
ReservedPending(d) ==
    [digest |-> d, state |-> "pending", kept |-> FALSE, outcome |-> "none"]

Reserved(d) ==
    [digest |-> d, state |-> "running", kept |-> FALSE, outcome |-> "none"]

Reclaimable(k) == {j \in Recorded : j[1] \in closed /\ j[1] # k[1]}

\* Receipts deleted to make room for k; at capacity only.
Reclaimed(k) ==
    IF Cardinality(Recorded) >= MaxRecords THEN Reclaimable(k) ELSE {}

\* A new request is recorded before anything is dispatched.
\* OPERATION_CAPACITY and a refusing before_dispatch roll everything back.
Reserve(c, k, d) ==
    /\ pc[c] = "idle" /\ k[1] \notin closed
    /\ ~Known(k)
    /\ Cardinality(Recorded \ Reclaimed(k)) < MaxRecords
    /\ \E table \in Prunes(rows) :
        rows' = [j \in Keys |->
            IF j = k THEN Reserved(d)
            ELSE IF j \in Reclaimed(k) THEN NoRow ELSE table[j]]
    /\ pc' = [pc EXCEPT ![c] = "reserved"]
    /\ call' = [call EXCEPT ![c] = [key |-> k, digest |-> d]]
    /\ UNCHANGED <<outcome, future, notify, closed, effect, answers>>

-----------------------------------------------------------------------------
(* run(): execute() and the wait for its outcome                           *)

Starts(c) ==
    effect' = [effect EXCEPT ![Key(c)] =
        [times |-> @.times + 1, digest |-> call[c].digest, outcome |-> "none"]]

\* execute() runs the tool in this thread ...
Execute(c) ==
    /\ pc[c] = "reserved"
    /\ pc' = [pc EXCEPT ![c] = "running"]
    /\ Starts(c)
    /\ UNCHANGED <<rows, call, outcome, future, notify, closed, answers>>

\* ... or hands it to the executor and returns a Future ...
Submit(c) ==
    /\ pc[c] = "reserved"
    /\ pc' = [pc EXCEPT ![c] = "waiting"]
    /\ future' = [future EXCEPT ![Key(c)] = "pending"]
    /\ Starts(c)
    /\ UNCHANGED <<rows, call, outcome, notify, closed, answers>>

\* ... or raises before the tool is reached.
SubmitFails(c) ==
    /\ pc[c] = "reserved"
    /\ pc' = [pc EXCEPT ![c] = "unknown"]
    /\ UNCHANGED <<rows, call, outcome, future, notify, closed, effect, answers>>

\* What a caller does with an outcome: record it, or the exception.
Take(c, o) ==
    /\ pc' = [pc EXCEPT ![c] = IF o = "raised" THEN "unknown" ELSE "complete"]
    /\ outcome' = [outcome EXCEPT ![c] = o]

ToolEnds(c, o) ==
    /\ pc[c] = "running"
    /\ effect' = [effect EXCEPT ![Key(c)].outcome = o]
    /\ Take(c, o)
    /\ UNCHANGED <<rows, call, future, notify, closed, answers>>

\* The executor's thread resolves the Future; its callback runs later.
FutureEnds(k, o) ==
    /\ future[k] = "pending"
    /\ future' = [future EXCEPT ![k] = o]
    /\ notify' = notify \cup {k}
    /\ effect' = [effect EXCEPT ![k].outcome = o]
    /\ UNCHANGED <<rows, callers, closed, answers>>

WaitEnds(c) ==
    /\ pc[c] = "waiting" /\ Done(Key(c))
    /\ Take(c, future[Key(c)])
    /\ UNCHANGED <<rows, call, future, notify, closed, effect, answers>>

\* The wait times out: OperationPending leaves the row running, unless the
\* Future got done meanwhile; then the timeout is handled as an exception.
WaitTimesOut(c) ==
    /\ pc[c] = "waiting"
    /\ IF Done(Key(c))
       THEN /\ pc' = [pc EXCEPT ![c] = "unknown"]
            /\ UNCHANGED <<call, outcome>>
       ELSE Return(c)
    /\ UNCHANGED <<rows, future, notify, closed, effect, answers>>

-----------------------------------------------------------------------------
(* Recording the outcome                                                   *)

\* _complete in the caller, which then answers its client.
CallerCompletes(c) ==
    LET o == outcome[c]
    IN  /\ pc[c] = "complete" /\ o # "garbled"
        /\ SetComplete(Key(c), o)
        /\ answers' = IF o \in Definite
                      THEN answers \cup {<<Key(c), call[c].digest, o>>} ELSE answers
        /\ Return(c)
        /\ UNCHANGED <<future, notify, closed, effect>>

\* A result that cannot be encoded is an exception like any other.
CallerMarks(c) ==
    /\ \/ pc[c] = "unknown"
       \/ pc[c] = "complete" /\ outcome[c] = "garbled"
    /\ SetUnknown(Key(c))
    /\ Return(c)
    /\ UNCHANGED <<future, notify, closed, effect, answers>>

\* _finished, the Future's done callback, in the executor's thread.
Callback(k) ==
    /\ k \in notify
    /\ notify' = notify \ {k}
    /\ IF future[k] \in {"raised", "garbled"} THEN SetUnknown(k)
       ELSE SetComplete(k, future[k])
    /\ UNCHANGED <<callers, future, closed, effect, answers>>

-----------------------------------------------------------------------------
(* status(), the registry, and restarts                                    *)

Status ==
    /\ rows' \in Prunes(rows)
    /\ UNCHANGED <<callers, future, notify, closed, effect, answers>>

\* The registry ends a workflow only when no call of it is in flight, and
\* admits none afterwards.
CloseOwner(o) ==
    /\ \A c \in Callers : pc[c] # "idle" => Key(c)[1] # o
    /\ closed' = closed \cup {o}
    /\ UNCHANGED <<rows, callers, future, notify, effect, answers>>

\* __init__ of the next process.
Interrupted(row) ==
    [row EXCEPT !.state = IF @ = "running" THEN "unknown" ELSE @]

\* The process dies and is restarted.  A tool under way may have had its
\* effect, and whatever its thread or Future would have reported is lost.
Restart ==
    /\ rows' = [k \in Keys |-> Interrupted(rows[k])]
    /\ pc' = [c \in Callers |-> "idle"]
    /\ call' = [c \in Callers |-> NoCall]
    /\ outcome' = [c \in Callers |-> "none"]
    /\ future' = [k \in Keys |-> "none"]
    /\ notify' = {}
    /\ UNCHANGED <<closed, effect, answers>>

-----------------------------------------------------------------------------
Running(c) ==
    \/ Execute(c) \/ Submit(c) \/ SubmitFails(c)
    \/ WaitEnds(c) \/ WaitTimesOut(c)
    \/ CallerCompletes(c) \/ CallerMarks(c)

Next ==
    \/ \E c \in Callers :
        \/ \E k \in Keys, d \in Digests : Repeat(c, k, d) \/ Reserve(c, k, d)
        \/ Running(c)
        \/ \E o \in Outcomes : ToolEnds(c, o)
    \/ \E k \in Keys : Callback(k) \/ \E o \in Outcomes : FutureEnds(k, o)
    \/ Status \/ Restart
    \/ \E o \in Owners : CloseOwner(o)

Spec == Init /\ [][Next]_vars

\* The executor's thread runs the done callbacks of a Future it resolved.
FairSpec == Spec /\ \A k \in Keys : WF_vars(Callback(k))

-----------------------------------------------------------------------------
(* Properties                                                              *)

Row == [digest : Digests \cup {"none"}, kept : BOOLEAN,
        state : {"none", "running", "completed", "failed", "unknown"},
        outcome : Outcomes \cup {"none"}]

\* Every variable has the type the code gives it.
TypeOK ==
    /\ rows \in [Keys -> Row]
    /\ pc \in [Callers -> {"idle", "reserved", "running", "waiting", "complete",
                           "unknown"}]
    /\ call \in [Callers -> [key : Keys, digest : Digests] \cup {NoCall}]
    /\ outcome \in [Callers -> Outcomes \cup {"none"}]
    /\ future \in [Keys -> Outcomes \cup {"none", "pending"}]
    /\ notify \in SUBSET Keys
    /\ closed \in SUBSET Owners
    /\ effect \in [Keys -> [times : Nat, digest : Digests \cup {"none"},
                            outcome : Outcomes \cup {"none"}]]
    /\ answers \in SUBSET (Keys \X Digests \X Definite)

\* A request is executed at most once, through retries, timeouts, restarts,
\* expired results and receipts reclaimed at capacity.
AtMostOnce == \A k \in Keys : effect[k].times <= 1

\* A definite receipt, and a definite answer given to any client, is the
\* outcome of the one execution of exactly what that client asked for.
ReceiptsAreTrue ==
    /\ \A k \in Keys : rows[k].state \in {"completed", "failed"} =>
           rows[k].digest = effect[k].digest /\ rows[k].outcome = effect[k].outcome
    /\ \A a \in answers : effect[a[1]] = [times |-> 1, digest |-> a[2], outcome |-> a[3]]

\* A recorded outcome stays until its owner is closed for good: a timeout, an
\* exception or a late callback never takes it back.
OutcomesAreFinal ==
    [][\A k \in Keys : rows[k].state \in {"completed", "failed"} =>
           \/ rows'[k].state = rows[k].state /\ rows'[k].outcome = rows[k].outcome
           \/ rows'[k] = NoRow /\ k[1] \in closed]_vars

\* An answer that arrives after its caller gave up is recorded all the same,
\* unless the process dies first or the receipt has been reclaimed.
LateAnswersRecorded ==
    \A k \in Keys :
        future[k] \in Definite
            ~> \/ rows[k].state \in {"completed", "failed"}
               \/ future[k] = "none" \/ rows[k] = NoRow
=============================================================================
