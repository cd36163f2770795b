----------------------------- MODULE HostCalls -----------------------------
(***************************************************************************)
(* How the host runs the tool calls of one workflow                        *)
(* (UnifiedRuntime._call_tool in personal_mcp/host.py): the write gate of  *)
(* the registry, the receipts of the operation journal and the pending     *)
(* native calls of the executor together decide whether a call runs, is    *)
(* answered from its receipt, or is refused.                               *)
(*                                                                         *)
(* The workflow is active throughout (WorkflowRegistry has its life).  The *)
(* journal's lookup, the check of pending native work and the reservation  *)
(* are one transaction.  A native call works on after its caller stopped   *)
(* waiting, and after its connection broke: then it is uncertain until the *)
(* executor's generation has ended.                                        *)
(***************************************************************************)
EXTENDS Naturals, FiniteSets

CONSTANTS Callers,     \* request threads
          RequestIds,  \* request ids of journaled writes
          MaxBreaks    \* bound: broken connections

\* What a call is, by tool_policy and the branches of _call_tool: a write of
\* the coding tools, of the native tools, of the browser; an observation; a
\* command that cancels or polls.
Journaled == {"coding", "native", "control"}
Gated == {"coding", "native", "browser"}
Native == {"native", "browser", "observe"}
Kinds == Journaled \cup Gated \cup Native

NoCaller == "none"

VARIABLES
    pc,        \* per caller: idle, entered, cleared, running, waiting
    call,      \* per caller: what it runs
    gate,      \* who holds the workflow's write gate
    receipts,  \* per request id: its kind and state
    works,     \* what goes on in the world: who began it, its kind and state
    answers,   \* per caller: the answer to its last call
    breaks     \* connections broken

vars == <<pc, call, gate, receipts, works, answers, breaks>>

NoCall == [kind |-> "none", id |-> "none"]
NoReceipt == [kind |-> "none", state |-> "none"]

Init ==
    /\ pc = [c \in Callers |-> "idle"]
    /\ call = [c \in Callers |-> NoCall]
    /\ gate = NoCaller
    /\ receipts = [i \in RequestIds |-> NoReceipt]
    /\ works = {}
    /\ answers = [c \in Callers |-> "none"]
    /\ breaks = 0

-----------------------------------------------------------------------------
(* Helpers                                                                 *)

\* Mutant: only calls still pending count, not those that became uncertain.
UnresolvedPending == {w \in works : w.kind \in Native /\ w.state = "pending"}

\* What BFExecutor.drain with no time to wait finds: native calls pending, or
\* uncertain ones whose generation has not ended.
Unresolved == {w \in works : w.kind \in Native}

\* before_dispatch: writes that are no control traffic wait for none of it.
Fenced(kind) == kind \in Gated /\ Unresolved # {}

\* The call ends with an answer and leaves the gate.
Leave(c, answer) ==
    /\ pc' = [pc EXCEPT ![c] = "idle"]
    /\ call' = [call EXCEPT ![c] = NoCall]
    /\ gate' = IF gate = c THEN NoCaller ELSE gate
    /\ answers' = [answers EXCEPT ![c] = answer]

\* OperationJournal._complete and _unknown, for a journaled call.
Record(kind, id, state) ==
    receipts' = IF kind \in Journaled
                THEN [receipts EXCEPT ![id].state =
                        IF state = "unknown" /\ @ # "running" THEN @ ELSE state]
                ELSE receipts

-----------------------------------------------------------------------------
(* A call                                                                  *)

\* registry.use: a write waits for the gate, anything else is admitted.  (Bound:
\* a caller leaves at most one observation behind.)
Enter(c, kind, id) ==
    /\ pc[c] = "idle"
    /\ kind = "observe" => ~\E w \in works : w.by = c /\ w.kind = "observe"
    /\ kind \in Gated => gate = NoCaller
    /\ kind \notin Journaled => id = "none"
    /\ pc' = [pc EXCEPT ![c] = "entered"]
    /\ call' = [call EXCEPT ![c] = [kind |-> kind, id |-> id]]
    /\ gate' = IF kind \in Gated THEN c ELSE gate
    /\ answers' = [answers EXCEPT ![c] = "none"]
    /\ UNCHANGED <<receipts, works, breaks>>

\* operations.run finds a receipt: its result, or why there is none.
Repeat(c) ==
    /\ pc[c] = "entered" /\ call[c].kind \in Journaled
    /\ receipts[call[c].id] # NoReceipt
    /\ Leave(c, IF receipts[call[c].id].kind # call[c].kind THEN "REQUEST_CONFLICT"
                ELSE IF receipts[call[c].id].state = "running" THEN "OPERATION_RUNNING"
                ELSE IF receipts[call[c].id].state = "unknown" THEN "OUTCOME_UNKNOWN"
                ELSE "result")
    /\ UNCHANGED <<receipts, works, breaks>>

\* Nothing but a receipt excuses a new write from the fence.
Refuse(c) ==
    /\ pc[c] = "entered" /\ Fenced(call[c].kind)
    /\ call[c].kind \in Journaled => receipts[call[c].id] = NoReceipt
    /\ Leave(c, "WORKFLOW_WRITE_PENDING")
    /\ UNCHANGED <<receipts, works, breaks>>

\* The fence is passed, and a journaled call has its receipt, running.
Clear(c) ==
    /\ pc[c] = "entered" /\ ~Fenced(call[c].kind)
    /\ call[c].kind \in Journaled => receipts[call[c].id] = NoReceipt
    /\ receipts' = IF call[c].kind \in Journaled
                   THEN [receipts EXCEPT ![call[c].id] =
                           [kind |-> call[c].kind, state |-> "running"]]
                   ELSE receipts
    /\ pc' = [pc EXCEPT ![c] = "cleared"]
    /\ UNCHANGED <<call, gate, works, answers, breaks>>

\* The coding tools run in the caller.
Begin(c) ==
    /\ pc[c] = "cleared" /\ call[c].kind \notin Native
    /\ works' = works \cup {[by |-> c, kind |-> call[c].kind, id |-> call[c].id,
                             state |-> "pending"]}
    /\ pc' = [pc EXCEPT ![c] = "running"]
    /\ UNCHANGED <<call, gate, receipts, answers, breaks>>

\* A tool that raises may have done its work: its outcome is unknown.
Finish(c, outcome) ==
    /\ pc[c] = "running"
    /\ works' = {w \in works : w.by # c \/ w.kind \in Native}
    /\ Record(call[c].kind, call[c].id, outcome)
    /\ Leave(c, IF outcome = "unknown" THEN "EXECUTION_ERROR" ELSE "result")
    /\ UNCHANGED breaks

\* BFExecutor.submit: dispatched, or refused while a connection is ending.
Submit(c) ==
    /\ pc[c] = "cleared" /\ call[c].kind \in Native
    /\ ~\E w \in works : w.state = "uncertain"
    /\ works' = works \cup {[by |-> c, kind |-> call[c].kind, id |-> call[c].id,
                             state |-> "pending"]}
    /\ pc' = [pc EXCEPT ![c] = "waiting"]
    /\ UNCHANGED <<call, gate, receipts, answers, breaks>>

Unavailable(c) ==
    /\ pc[c] = "cleared" /\ call[c].kind \in Native
    /\ \E w \in works : w.state = "uncertain"
    /\ Record(call[c].kind, call[c].id, "unknown")
    /\ Leave(c, "BF_CONNECTION_UNAVAILABLE")
    /\ UNCHANGED <<works, breaks>>

\* The native call answers: its receipt is completed whoever still waits.
Waits(w) == pc[w.by] = "waiting" /\ call[w.by] = [kind |-> w.kind, id |-> w.id]
Resolve(w) ==
    /\ w.kind \in Native /\ w.state = "pending"
    /\ works' = works \ {w}
    /\ Record(w.kind, w.id, "completed")
    /\ IF Waits(w) THEN Leave(w.by, "result") ELSE UNCHANGED <<pc, call, gate, answers>>
    /\ UNCHANGED breaks

\* The caller's patience ends before the call does.
GiveUp(c) ==
    /\ pc[c] = "waiting"
    /\ Leave(c, IF call[c].kind \in Journaled THEN "OPERATION_RUNNING" ELSE "OUTCOME_UNKNOWN")
    /\ UNCHANGED <<receipts, works, breaks>>

\* The connection breaks: every pending native call becomes uncertain, its
\* receipt unknown, and whoever waited is told.
Break ==
    /\ breaks < MaxBreaks
    /\ breaks' = breaks + 1
    /\ LET broken == {w \in works : w.kind \in Native /\ w.state = "pending"}
           told == {c \in Callers : \E w \in broken : w.by = c /\ Waits(w)}
       IN /\ broken # {}
          /\ works' = (works \ broken) \cup {[w EXCEPT !.state = "uncertain"] : w \in broken}
          /\ receipts' = [i \in RequestIds |->
                IF /\ receipts[i].state = "running"
                   /\ \E w \in broken : w.id = i /\ w.kind \in Journaled
                THEN [receipts[i] EXCEPT !.state = "unknown"] ELSE receipts[i]]
          /\ pc' = [c \in Callers |-> IF c \in told THEN "idle" ELSE pc[c]]
          /\ call' = [c \in Callers |-> IF c \in told THEN NoCall ELSE call[c]]
          /\ gate' = IF gate \in told THEN NoCaller ELSE gate
          /\ answers' = [c \in Callers |->
                IF c \in told THEN "BF_CALL_OUTCOME_UNKNOWN" ELSE answers[c]]

\* The generation's thread has ended, and its native work with it.
Retire ==
    /\ \E w \in works : w.state = "uncertain"
    /\ works' = {w \in works : w.state # "uncertain"}
    /\ UNCHANGED <<pc, call, gate, receipts, answers, breaks>>

Next ==
    \/ \E c \in Callers, k \in Kinds, i \in RequestIds \cup {"none"} :
          (k \in Journaled => i # "none") /\ Enter(c, k, i)
    \/ \E c \in Callers :
          \/ Repeat(c) \/ Refuse(c) \/ Clear(c) \/ Begin(c)
          \/ Submit(c) \/ Unavailable(c) \/ GiveUp(c)
          \/ \E o \in {"completed", "unknown"} : Finish(c, o)
    \/ \E w \in works : Resolve(w)
    \/ Break
    \/ Retire

Spec == Init /\ [][Next]_vars

-----------------------------------------------------------------------------
(* Properties                                                              *)

TypeOK ==
    /\ pc \in [Callers -> {"idle", "entered", "cleared", "running", "waiting"}]
    /\ gate \in Callers \cup {NoCaller}
    /\ \A w \in works : w.kind \in Kinds /\ w.state \in {"pending", "uncertain"}

\* However callers give up, repeat themselves or meet a broken connection, at
\* most one write of a workflow is at work at a time, the native work of a
\* write nobody waits for included; and what a request id asked for is at work
\* at most once (before_dispatch in _call_tool, host.py).
OneWriteAtATime ==
    /\ Cardinality({w \in works : w.kind \in Gated}) <= 1
    /\ \A i \in RequestIds : Cardinality({w \in works : w.id = i}) <= 1
    /\ \A w \in works : w.kind \in Journaled => receipts[w.id].kind = w.kind

=============================================================================
