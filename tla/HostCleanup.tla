---------------------------- MODULE HostCleanup ----------------------------
(***************************************************************************)
(* What a workflow owns in the host and how it is given up                 *)
(* (WorkflowResources in personal_mcp/host.py): opened when the workflow   *)
(* is activated, watched for idle reclaim, and closed as often as the      *)
(* registry tries, each time going on after a part that failed.            *)
(*                                                                         *)
(* The registry admits no call while it opens, inspects or closes, so a    *)
(* call may only acquire something in between.  A part is the native task, *)
(* the searches, the desktop console or the coding tools' processes.       *)
(***************************************************************************)
EXTENDS Naturals, FiniteSets

CONSTANTS MaxFaults   \* bound: steps that fail

\* In the order close() takes them.
Order == <<"native", "searches", "desktop", "coding">>
Parts == {"native", "searches", "desktop", "coding"}

VARIABLES
    held,      \* per part: what the workflow holds there ("open" is only the part)
    task,      \* the native task: none, begun, ended (bf_token, bf_closed)
    step,      \* where a close is: 0 when none runs
    failed,    \* parts whose step failed in this close
    outcome,   \* how the last close ended
    ends,      \* times the native task was ended
    faults     \* faults so far

vars == <<held, task, step, failed, outcome, ends, faults>>

Init ==
    /\ held = [p \in Parts |-> "none"]
    /\ task = "none" /\ step = 0 /\ failed = {} /\ outcome = "unopened"
    /\ ends = 0 /\ faults = 0

\* __init__: the coding tools and the native task, or what there is of them is
\* closed again and the activation fails.
Open(works) ==
    /\ outcome = "unopened"
    /\ ~works => faults < MaxFaults
    /\ faults' = faults + (IF works THEN 0 ELSE 1)
    /\ held' = [held EXCEPT !["coding"] = "open", !["native"] = "open"]
    /\ \E begun \in (IF works THEN {"begun"} ELSE {"none", "begun"}) : task' = begun
    /\ step' = (IF works THEN 0 ELSE 1)
    /\ outcome' = "open"
    /\ UNCHANGED <<failed, ends>>

\* A call leaves something behind.
Acquire(p) ==
    /\ outcome = "open" /\ step = 0
    /\ held' = [held EXCEPT ![p] = "busy"]
    /\ UNCHANGED <<task, step, failed, outcome, ends, faults>>

\* What ends by itself.
Subside(p) ==
    /\ held[p] = "busy"
    /\ held' = [held EXCEPT ![p] = "open"]
    /\ UNCHANGED <<task, step, failed, outcome, ends, faults>>

\* idle_blockers: every part is asked; a desktop console blocks nothing.
Blockers == {p \in Parts \ {"desktop"} : held[p] = "busy"}

\* Reclaim of an idle workflow, or its end by its client.
Close(idle) ==
    /\ step = 0 /\ outcome \in {"open", "incomplete"}
    /\ idle => Blockers = {}
    /\ step' = 1
    /\ failed' = {}
    /\ UNCHANGED <<held, task, outcome, ends, faults>>

\* Mutant: a failed step ends the close.
AfterFailureStop == 5

AfterFailure == step + 1

\* One step of close(): the native task is drained and ended once, the other
\* parts every time.
Part == Order[step]
Ends == Part = "native" /\ task = "begun"
Released ==
    /\ held' = [held EXCEPT ![Part] = "none"]
    /\ task' = (IF Ends THEN "ended" ELSE task)
    /\ ends' = ends + (IF Ends THEN 1 ELSE 0)
    /\ step' = step + 1
    /\ UNCHANGED <<failed, outcome, faults>>
Fails ==
    /\ faults < MaxFaults
    /\ faults' = faults + 1
    /\ Part = "native" => Ends
    /\ failed' = failed \cup {Part}
    /\ step' = AfterFailure
    /\ UNCHANGED <<held, task, outcome, ends>>
Step == step \in 1 .. 4 /\ (Released \/ Fails)

\* WORKFLOW_CLEANUP_INCOMPLETE if any step failed.
Closed ==
    /\ step = 5
    /\ step' = 0
    /\ outcome' = IF failed = {} THEN "closed" ELSE "incomplete"
    /\ UNCHANGED <<held, task, failed, ends, faults>>

Next ==
    \/ \E b \in BOOLEAN : Open(b) \/ Close(b)
    \/ \E p \in Parts : Acquire(p) \/ Subside(p)
    \/ Step
    \/ Closed

Spec == Init /\ [][Next]_vars

-----------------------------------------------------------------------------
(* Properties                                                              *)

\* Whatever fails in close(): after it, the workflow holds something only in
\* parts whose own step failed, nothing at all when no error is reported, and
\* the native task is never ended twice.
CleanupGoesOn ==
    /\ ends <= 1
    /\ step = 0 /\ outcome = "incomplete" => \A p \in Parts : held[p] # "none" => p \in failed
    /\ outcome = "closed" => (\A p \in Parts : held[p] = "none") /\ task # "begun"

=============================================================================
