---------------------------- MODULE BrowserCalls ----------------------------
(***************************************************************************)
(* Writing browser operations of one task: each is reserved in the durable *)
(* operation store, dispatched, sent to the worker process of the session  *)
(* over pipes and finished with what came back.  Calls of a session are    *)
(* serialised by its lock, but an answer may come after the call gave up,  *)
(* the worker or the server may die at any step, clients repeat requests,  *)
(* and a task's end closes the worker beside a running call.               *)
(***************************************************************************)
EXTENDS Naturals, Sequences, SequencesExt

CONSTANTS Requests,             \* request ids
          Navigations, Uploads, Downloads, \* what some of them ask for
          MaxSessions, MaxKills \* bounds: workers started, servers killed

VARIABLES
    record,       \* OperationStore: the state of each request
    answered,     \* ... and the answer it was finished with
    calling,      \* the request that holds the session's lock, and its step
    inbox,        \* frames on the worker's stdin
    replies,      \* WorkerProcess.replies: <<request, answer>>
    workerClosed, \* WorkerProcess.closed, or there is no worker
    effects,      \* how often each request took effect in the browser
    workers, kills
vars == <<record, answered, calling, inbox, replies, workerClosed, effects, workers, kills>>

None == "none"
Quiet == <<None, "idle">>
Eof == <<None, "eof">>
Final == {"completed", "failed", "unknown"}

\* What the worker answers: done; refused, as an error or as not accepted; files
\* set but not seen in the page; a download saved and deleted again; a failure of
\* the provider.
Answers == {"ok", "refused", "unverified", "toolarge", "provider"}

TypeOK ==
    /\ record \in [Requests -> {None, "queued", "dispatched"} \cup Final]
    /\ answered \in [Requests -> {None} \cup Answers]
    /\ calling \in {Quiet} \cup (Requests \X {"reserved", "dispatched", "sent", "unknown"})
    /\ inbox \in Seq(Requests) /\ replies \in Seq((Requests \X Answers) \cup {Eof})
    /\ Len(replies) <= 2
    /\ workerClosed \in BOOLEAN
    /\ effects \in [Requests -> 0..2]
    /\ workers \in 0..MaxSessions /\ kills \in 0..MaxKills

Init ==
    /\ record = [r \in Requests |-> None] /\ answered = [r \in Requests |-> None]
    /\ effects = [r \in Requests |-> 0]
    /\ calling = Quiet /\ inbox = <<>> /\ replies = <<>>
    /\ workerClosed = TRUE /\ workers = 0 /\ kills = 0

(* A session starts with a worker of its own. *)
StartWorker ==
    /\ workerClosed /\ calling = Quiet /\ workers < MaxSessions
    /\ workers' = workers + 1
    /\ workerClosed' = FALSE /\ inbox' = <<>> /\ replies' = <<>>
    /\ UNCHANGED <<record, answered, calling, effects, kills>>

(* _once: a request that is known gets its record back; a new one is        *)
(* reserved, *)
Reserve(r) ==
    /\ calling = Quiet /\ record[r] = None
    /\ record' = [record EXCEPT ![r] = "queued"]
    /\ calling' = <<r, "reserved">>
    /\ UNCHANGED <<answered, inbox, replies, workerClosed, effects, workers, kills>>

(* dispatched, *)
Dispatch(r) ==
    /\ calling = <<r, "reserved">> /\ record[r] = "queued"
    /\ record' = [record EXCEPT ![r] = "dispatched"]
    /\ calling' = <<r, "dispatched">>
    /\ UNCHANGED <<answered, inbox, replies, workerClosed, effects, workers, kills>>

(* and sent; a closed worker, a broken pipe or a file that could not be     *)
(* staged for an upload ends it as unknown.                                 *)
Send(r) ==
    /\ calling = <<r, "dispatched">>
    /\ IF workerClosed THEN calling' = <<r, "unknown">> /\ UNCHANGED <<inbox, workerClosed>>
       ELSE \/ inbox' = Append(inbox, r) /\ calling' = <<r, "sent">> /\ UNCHANGED workerClosed
            \/ calling' = <<r, "unknown">> /\ workerClosed' = TRUE /\ UNCHANGED inbox
            \/ r \in Uploads /\ calling' = <<r, "unknown">> /\ UNCHANGED <<inbox, workerClosed>>
    /\ UNCHANGED <<record, answered, replies, effects, workers, kills>>

-----------------------------------------------------------------------------
(* What an answer says of the effect: a navigation may also be refused for  *)
(* where it has led, an upload's files may be set and not seen, a download  *)
(* may be too large to keep, and a provider may fail before or after.       *)
Truthful(r, answer, acted) ==
    CASE answer = "ok" -> acted = 1
      [] answer = "refused" -> acted = 0 \/ r \in Navigations
      [] answer = "unverified" -> acted = 1 /\ r \in Uploads
      [] answer = "toolarge" -> acted = 1 /\ r \in Downloads
      [] OTHER -> TRUE

(* The worker takes a frame, acts on it or refuses it, and answers.  A      *)
(* third answer nobody took ends the reader.                                *)
Work ==
    /\ inbox # <<>>
    /\ LET r == Head(inbox) IN
       \E answer \in Answers, acted \in {0, 1} :
          /\ Truthful(r, answer, acted)
          /\ effects' = [effects EXCEPT ![r] = @ + acted]
          /\ replies' = IF Len(replies) < 2 THEN Append(replies, <<r, answer>>) ELSE replies
    /\ inbox' = Tail(inbox)
    /\ UNCHANGED <<record, answered, calling, workerClosed, workers, kills>>

(* It may also die: what it had not taken is lost and the pipe ends.        *)
WorkerDies ==
    /\ ~workerClosed /\ ToSet(replies) \cap {Eof} = {}
    /\ inbox' = <<>>
    /\ replies' = IF Len(replies) < 2 THEN Append(replies, Eof) ELSE replies
    /\ UNCHANGED <<record, answered, calling, workerClosed, effects, workers, kills>>

(* close(): no call after this; the processes of the job end with what they *)
(* were doing done or not.  end_task closes it beside a call in flight.     *)
Closed == workerClosed' = TRUE /\ inbox' = <<>>
EndTask ==
    /\ ~workerClosed /\ Closed
    /\ replies' = IF Len(replies) < 2 THEN Append(replies, Eof) ELSE replies
    /\ UNCHANGED <<record, answered, calling, effects, workers, kills>>

-----------------------------------------------------------------------------
Finished(r, state, answer) ==
    /\ record' = [record EXCEPT ![r] = state] /\ answered' = [answered EXCEPT ![r] = answer]
    /\ calling' = Quiet

\* Mutant: whatever is not a success is recorded as failed.
KnownCarelessly(answer) == IF answer = "ok" THEN "completed" ELSE "failed"

(* _once, on what came back.                                                *)
Known(answer) == CASE answer = "ok" -> "completed"
                   [] answer \in {"refused", "unverified"} -> "failed"
                   [] OTHER -> "unknown"

(* call() takes the oldest answer, which has to be its own.  Of a download  *)
(* that was too large the manager does not find the file, and it closes the *)
(* worker;                                                                  *)
Receive(r) ==
    /\ calling = <<r, "sent">> /\ replies # <<>>
    /\ replies' = Tail(replies)
    /\ LET reply == Head(replies) IN
       IF reply[1] = r /\ reply[2] # "toolarge"
         THEN Finished(r, Known(reply[2]), reply[2]) /\ UNCHANGED <<workerClosed, inbox>>
         ELSE calling' = <<r, "unknown">> /\ Closed /\ UNCHANGED <<record, answered>>
    /\ UNCHANGED <<effects, workers, kills>>

(* without one in time it closes the worker.                                *)
GiveUp(r) ==
    /\ calling = <<r, "sent">>
    /\ Closed /\ calling' = <<r, "unknown">>
    /\ UNCHANGED <<record, answered, replies, effects, workers, kills>>

FinishUnknown(r) ==
    /\ calling = <<r, "unknown">> /\ Finished(r, "unknown", None)
    /\ UNCHANGED <<inbox, replies, workerClosed, effects, workers, kills>>

\* Mutant: what was dispatched before a crash is called failed.
RecoveredAsFailed(state) == IF state \in {"dispatched", "queued"} THEN "failed" ELSE state

(* The server is killed, its workers with it; at the next start recover()   *)
(* settles what it left.                                                    *)
Recovered(state) ==
    CASE state = "dispatched" -> "unknown"
      [] state = "queued" -> "failed"
      [] OTHER -> state

Kill ==
    /\ kills < MaxKills /\ kills' = kills + 1
    /\ record' = [r \in Requests |-> Recovered(record[r])]
    /\ calling' = Quiet /\ Closed /\ replies' = <<>>
    /\ UNCHANGED <<answered, effects, workers>>

Next ==
    \/ StartWorker \/ Work \/ WorkerDies \/ EndTask \/ Kill
    \/ \E r \in Requests : Reserve(r) \/ Dispatch(r) \/ Send(r) \/ Receive(r) \/ GiveUp(r) \/ FinishUnknown(r)
Spec == Init /\ [][Next]_vars

-----------------------------------------------------------------------------
(* A request takes effect at most once however often it is repeated, one    *)
(* recorded as completed did, and one recorded as failed did not and never  *)
(* will, but for an upload whose record says that its files were accepted   *)
(* and not confirmed, and a navigation, whose page was given up for where   *)
(* it had led.  A late or foreign answer never settles another request      *)
(* (browser/operation_store.py, browser/process.py call, manager._once).    *)
BrowserRecordsTrue ==
    \A r \in Requests :
       /\ effects[r] <= 1
       /\ record[r] = "completed" => effects[r] = 1
       /\ record[r] \in {None, "queued"} => effects[r] = 0
       /\ record[r] = "failed" /\ effects[r] = 1 =>
             \/ answered[r] = "unverified" /\ r \in Uploads
             \/ answered[r] = "refused" /\ r \in Navigations
=============================================================================
