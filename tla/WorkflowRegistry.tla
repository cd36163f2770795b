-------------------------- MODULE WorkflowRegistry --------------------------
(***************************************************************************)
(* The workflow registry (personal_mcp/workflows.py): durable ownership of *)
(* project leases, shared by every request thread of the host.             *)
(*                                                                         *)
(* The registry lock is an RLock that is held for a whole action here, so  *)
(* it is not a variable: the actions are the critical sections of the      *)
(* code, and a thread's pc says which section it runs next.  The           *)
(* per-workflow gate and write lock span several sections and are state.   *)
(*                                                                         *)
(* Time appears as the comparisons the code makes: "due" holds workflows   *)
(* whose reservation deadline has passed, "idle" those whose last activity *)
(* is idle_timeout ago, "stale" resume answers older than their ttl.       *)
(***************************************************************************)
EXTENDS Naturals, SequencesExt

CONSTANTS Workflows,      \* begin requests: one row each, if accepted
          ProjectOf,      \* the directory each asks for, as its path components
          AccessOf,       \* the access each asks for
          Threads,        \* request, maintenance and shutdown threads
          NoThread,
          NoWorkflow,
          Kinds,          \* the kinds of tool call the threads make
          ResumeIds,      \* request ids of resume calls
          MaxGeneration   \* bound on credential rotations

ASSUME ConstantsAssumption ==
    /\ NoThread \notin Threads
    /\ NoWorkflow \notin Workflows
    /\ AccessOf \in [Workflows -> {"read", "write"}]
    /\ Kinds \subseteq {"read", "write", "control", "status"}
    /\ MaxGeneration \in Nat

VARIABLES
    state,       \* database: workflows.state ("NONE": no row)
    metadata,    \* memory: _metadata[w].state, the cache of that column
    generation,  \* database: workflows.credential_generation
    live,        \* database: generations of w's credentials not revoked
    responses,   \* database: workflow_resume_responses
    stale,       \* the resume answers that have expired
    tokens,      \* the credentials the client has received
    host,        \* "down", "recovering", "open", "closing", "stopped"
    resources,   \* memory: keys of resources
    starting,    \* memory: _starting
    inflight,    \* memory: the calls counted in inflight[w]
    gate,        \* memory: holder of workflow_locks[w]
    writeLock,   \* memory: holder of write_locks[w]
    due, idle,   \* the deadlines that have passed
    debris,      \* workflows whose native resources may exist
    th           \* what each thread is doing

rows == <<state, metadata>>
creds == <<generation, live, responses, stale, tokens>>
memory == <<resources, starting, inflight>>
locks == <<gate, writeLock>>
env == <<due, idle, debris>>
vars == <<rows, creds, host, memory, locks, env, th>>

-----------------------------------------------------------------------------
Terminal == {"ENDED", "EXPIRED"}
States == Terminal \cup {"NONE", "RESERVED", "STARTING", "ACTIVE", "CLOSING",
                         "CLEANUP_BLOCKED"}
Leased(w) == state[w] \notin Terminal \cup {"NONE"}

\* Mutant: only a new workflow below an existing one is compared.
OverlapBelow(p, q) == IsPrefix(p, q)

\* Path.is_relative_to, either way round.
Overlap(p, q) == IsPrefix(p, q) \/ IsPrefix(q, p)
Conflict(v, w) == /\ AccessOf[v] = "write" \/ AccessOf[w] = "write"
                  /\ Overlap(ProjectOf[v], ProjectOf[w])

Generations == 0..MaxGeneration
NoResponse == [wf |-> NoWorkflow, expected |-> 0, generation |-> 0]
Response == [wf : Workflows \cup {NoWorkflow}, expected : Generations,
             generation : Generations]

\* op is the public call, pc the section it runs next, wf the row that
\* section is about, cred the credential presented, todo the rows a loop of
\* the call has still to visit, fresh _end's memory that a row was RESERVED.
Loops == {"begin", "activate", "expire", "close", "recover"}
Ops == {"none", "start", "end", "release"} \cup Loops \cup Kinds
Pcs == {"idle", "loop", "release", "probe", "endwait", "end", "endgate", "drain",
        "cleanup", "cleaned", "enter", "factory", "queue", "admit", "body"}
Thread ==
    {r \in [pc : Pcs, op : Ops, wf : Workflows \cup {NoWorkflow}, cred : Generations,
            todo : SUBSET Workflows, fresh : BOOLEAN] :
        r.pc \notin {"idle", "loop"} => r.wf \in Workflows}
Resting == [pc |-> "idle", op |-> "none", wf |-> NoWorkflow, cred |-> 0,
            todo |-> {}, fresh |-> FALSE]

Closed == host \in {"closing", "stopped"}
Serving == host \notin {"down", "recovering"}

Init ==
    /\ state = [w \in Workflows |-> "NONE"]
    /\ metadata = state
    /\ generation = [w \in Workflows |-> 0]
    /\ live = [w \in Workflows |-> {}]
    /\ responses = [r \in ResumeIds |-> NoResponse]
    /\ stale = {}
    /\ tokens = [w \in Workflows |-> {}]
    /\ host = "down"
    /\ resources = {} /\ starting = {}
    /\ inflight = [w \in Workflows |-> {}]
    /\ gate = [w \in Workflows |-> NoThread]
    /\ writeLock = gate
    /\ due = {} /\ idle = {} /\ debris = {}
    /\ th = [t \in Threads |-> Resting]

-----------------------------------------------------------------------------
(* Steps shared by several handlers.                                       *)

\* Mutant: the cached copy is forgotten.
SetStateRowOnly(w, s) ==
    /\ state' = [state EXCEPT ![w] = s]
    /\ UNCHANGED metadata

\* _state: the row and its cached copy change together.
SetState(w, s) ==
    /\ state' = [state EXCEPT ![w] = s]
    /\ metadata' = [metadata EXCEPT ![w] = s]

\* Mutants: any early state lapses; the column receives an unknown state.
LapsedStarted(column, S) == [w \in Workflows |->
    IF column[w] \in {"RESERVED", "STARTING"} /\ w \in S THEN "EXPIRED" ELSE column[w]]
LapsedUnknown(column, S) == [w \in Workflows |->
    IF column[w] = "RESERVED" /\ w \in S THEN "LAPSED" ELSE column[w]]

\* The reservations in S are found overdue: EXPIRED in a column of states.
Lapsed(column, S) == [w \in Workflows |->
    IF column[w] = "RESERVED" /\ w \in S THEN "EXPIRED" ELSE column[w]]

Free(lock, t) == [w \in Workflows |-> IF lock[w] = t THEN NoThread ELSE lock[w]]

At(t, p) == th[t].pc = p
LoopOver(t, o) == th[t].pc = "loop" /\ th[t].op = o /\ th[t].todo = {}
Go(t, p) == th' = [th EXCEPT ![t].pc = p]
Return(t) == th' = [th EXCEPT ![t] = Resting]
Start(t, o, p, w, g, todo) ==
    /\ th[t] = Resting
    /\ th' = [th EXCEPT ![t] = [pc |-> p, op |-> o, wf |-> w, cred |-> g,
                                todo |-> todo, fresh |-> FALSE]]

\* _end or release_idle returns: to the loop that called it, if one did.
\* A caller that holds the gate gives it up right afterwards.
BackToCaller(t) ==
    /\ th' = [th EXCEPT ![t] = IF @.op \notin Loops THEN Resting ELSE
                 [@ EXCEPT !.pc = "loop", !.wf = NoWorkflow, !.fresh = FALSE]]
    /\ gate' = Free(gate, t)

\* _row: a credential the client holds and that was not replaced.
Accepted(w, g) == g \in live[w]
Presents(w, g) == g \in tokens[w] /\ Accepted(w, g)

-----------------------------------------------------------------------------
(* expire(), and the loops over rows that it, close() and recover() run.   *)

\* The database rows are compared with one reading of the clock, the cached
\* ones with a later one ("late" fall due in between).  Idle ACTIVE rows are
\* then passed to release_idle one by one.  begin, activate and the
\* maintenance thread all start with this.
Expire(t) ==
    /\ Serving
    /\ \E late \in SUBSET {w \in Workflows \ due : state[w] = "RESERVED"} :
        /\ due' = due \cup late
        /\ state' = Lapsed(state, due)
        /\ metadata' = Lapsed(metadata, due')
    /\ \E o \in {"begin", "activate", "expire"} :
           Start(t, o, "loop", NoWorkflow, 0,
                 {w \in idle : state[w] = "ACTIVE"})
    /\ UNCHANGED <<creds, host, memory, locks, idle, debris>>

NextRow(t) ==
    /\ At(t, "loop")
    /\ \E w \in th[t].todo :
        th' = [th EXCEPT ![t].todo = @ \ {w}, ![t].wf = w, ![t].pc =
                  IF th[t].op \in {"close", "recover"} THEN "end" ELSE "release"]
    /\ UNCHANGED <<rows, creds, host, memory, locks, env>>

\* The call ends with its loop: expire() always, begin and activate when
\* they are refused (HOST_CLOSING, a repeated request id, PROJECT_BUSY, an
\* unknown credential).
LoopReturns(t) ==
    /\ \E o \in {"begin", "activate", "expire"} : LoopOver(t, o)
    /\ Return(t)
    /\ UNCHANGED <<rows, creds, host, memory, locks, env>>

-----------------------------------------------------------------------------
(* begin                                                                   *)

\* Overdue reservations expire in the transaction that adds the row; a
\* conflict rolls both back.
Begin(t, w) ==
    LET rest == {v \in Workflows : Leased(v) /\ ~(state[v] = "RESERVED" /\ v \in due)}
    IN  /\ LoopOver(t, "begin")
        /\ ~Closed
        /\ state[w] = "NONE"
        /\ \A v \in rest : ~Conflict(v, w)
        /\ state' = [Lapsed(state, due) EXCEPT ![w] = "RESERVED"]
        /\ metadata' = [Lapsed(metadata, due) EXCEPT ![w] = "RESERVED"]
        /\ live' = [live EXCEPT ![w] = {0}]
        /\ tokens' = [tokens EXCEPT ![w] = {0}]
        /\ Return(t)
        /\ UNCHANGED <<generation, responses, stale, host, memory, locks, env>>

-----------------------------------------------------------------------------
(* activate                                                                *)

\* The row is looked up before the gate is waited for.
Locate(t, w, g) ==
    /\ LoopOver(t, "activate")
    /\ Presents(w, g)
    /\ th' = [th EXCEPT ![t].pc = "enter", ![t].op = "start", ![t].wf = w,
                        ![t].cred = g]
    /\ UNCHANGED <<rows, creds, host, memory, locks, env>>

Overdue(w) == state[w] = "RESERVED" /\ w \in due

\* Under the gate the row is read again; a reservation goes to the factory
\* with the gate held.
EnterReserved(t) ==
    LET w == th[t].wf
    IN  /\ At(t, "enter") /\ gate[w] = NoThread
        /\ Accepted(w, th[t].cred)
        /\ state[w] = "RESERVED" /\ ~Overdue(w) /\ ~Closed
        /\ SetState(w, "STARTING")
        /\ starting' = starting \cup {w}
        /\ gate' = [gate EXCEPT ![w] = t]
        /\ debris' = debris \cup {w}
        /\ Go(t, "factory")
        /\ UNCHANGED <<creds, host, resources, inflight, writeLock, due, idle>>

\* An overdue reservation expires, an ACTIVE workflow is renewed, anything
\* else is refused.
EnterReturns(t) ==
    LET w == th[t].wf
        known == Accepted(w, th[t].cred)
        active == known /\ ~Closed /\ state[w] = "ACTIVE"
    IN  /\ At(t, "enter") /\ gate[w] = NoThread
        /\ ~(known /\ state[w] = "RESERVED" /\ ~Overdue(w) /\ ~Closed)
        /\ IF known /\ Overdue(w) THEN SetState(w, "EXPIRED") ELSE UNCHANGED rows
        /\ idle' = IF active THEN idle \ {w} ELSE idle
        /\ Return(t)
        /\ UNCHANGED <<creds, host, memory, locks, due, debris>>

\* The factory raises: what it left behind is for recovery to remove.
FactoryFails(t) ==
    /\ At(t, "factory")
    /\ starting' = starting \ {th[t].wf}
    /\ SetState(th[t].wf, "CLEANUP_BLOCKED")
    /\ gate' = Free(gate, t)
    /\ Return(t)
    /\ UNCHANGED <<creds, host, resources, inflight, writeLock, env>>

\* The factory returns: ACTIVE, unless someone ended the workflow or closed
\* the host meanwhile; then the new resource is ended at once.
FactoryReturns(t) ==
    LET w == th[t].wf
    IN  /\ At(t, "factory")
        /\ resources' = resources \cup {w}
        /\ starting' = starting \ {w}
        /\ idle' = idle \ {w}
        /\ IF Closed \/ metadata[w] # "STARTING"
           THEN Go(t, "end") /\ UNCHANGED <<rows, gate>>
           ELSE SetState(w, "ACTIVE") /\ gate' = Free(gate, t) /\ Return(t)
        /\ UNCHANGED <<creds, host, inflight, writeLock, due, debris>>

-----------------------------------------------------------------------------
(* use: a tool call                                                        *)

\* A data write queues for the write lock; the others go to admission.
Use(t, kind, w, g) ==
    /\ Serving
    /\ Presents(w, g)
    /\ Start(t, kind, IF kind = "write" THEN "queue" ELSE "admit", w, g, {})
    /\ UNCHANGED <<rows, creds, host, memory, locks, env>>

Dequeue(t) ==
    /\ At(t, "queue")
    /\ writeLock[th[t].wf] = NoThread
    /\ writeLock' = [writeLock EXCEPT ![th[t].wf] = t]
    /\ Go(t, "admit")
    /\ UNCHANGED <<rows, creds, host, memory, gate, env>>

\* Mutant: admission trusts the lookup made before the wait.
AdmissibleUnchecked(t) ==
    LET w == th[t].wf
    IN  /\ ~Closed /\ state[w] = "ACTIVE" /\ w \in resources
        /\ th[t].op \in {"write", "control"} => AccessOf[w] = "write"

\* Under the gate the row is read again.
Admissible(t) ==
    LET w == th[t].wf
    IN  /\ Accepted(w, th[t].cred)
        /\ ~Closed /\ state[w] = "ACTIVE" /\ w \in resources
        /\ th[t].op \in {"write", "control"} => AccessOf[w] = "write"

Touched(t) == IF th[t].op = "status" THEN idle ELSE idle \ {th[t].wf}

Admit(t) ==
    /\ At(t, "admit") /\ gate[th[t].wf] = NoThread
    /\ Admissible(t)
    /\ idle' = Touched(t)
    /\ inflight' = [inflight EXCEPT ![th[t].wf] = @ \cup {t}]
    /\ Go(t, "body")
    /\ UNCHANGED <<rows, creds, host, resources, starting, locks, due, debris>>

AdmitRefused(t) ==
    /\ At(t, "admit") /\ gate[th[t].wf] = NoThread
    /\ ~Admissible(t)
    /\ writeLock' = Free(writeLock, t)
    /\ Return(t)
    /\ UNCHANGED <<rows, creds, host, memory, gate, env>>

\* The tool call itself runs between Admit and Leave, without the gate.
Leave(t) ==
    /\ At(t, "body")
    /\ inflight' = [inflight EXCEPT ![th[t].wf] = @ \ {t}]
    /\ idle' = Touched(t)
    /\ writeLock' = Free(writeLock, t)
    /\ Return(t)
    /\ UNCHANGED <<rows, creds, host, resources, starting, gate, due, debris>>

-----------------------------------------------------------------------------
(* release_idle                                                            *)

Release(t, w) ==
    /\ Serving
    /\ state[w] # "NONE"
    /\ Start(t, "release", "release", w, 0, {})
    /\ UNCHANGED <<rows, creds, host, memory, locks, env>>

\* Mutant: calls in flight are not counted.
ReclaimableBusy(w) ==
    /\ ~Closed /\ state[w] = "ACTIVE" /\ w \in idle

Reclaimable(w) ==
    /\ ~Closed /\ state[w] = "ACTIVE"
    /\ inflight[w] = {} /\ w \in idle

\* The gate is taken without waiting and kept while the resource is asked
\* for its blockers.
Probe(t) ==
    LET w == th[t].wf
    IN  /\ At(t, "release") /\ gate[w] = NoThread
        /\ Reclaimable(w)
        /\ gate' = [gate EXCEPT ![w] = t]
        /\ Go(t, "probe")
        /\ UNCHANGED <<rows, creds, host, memory, writeLock, env>>

\* idle_blockers(): none ...
ProbeClear(t) ==
    /\ At(t, "probe")
    /\ Go(t, "end")
    /\ UNCHANGED <<rows, creds, host, memory, locks, env>>

\* ... or some, or an unknown answer; or the row was not reclaimable.
ProbeRefused(t) ==
    LET w == th[t].wf
    IN  /\ \/ At(t, "probe")
           \/ At(t, "release") /\ (gate[w] # NoThread \/ ~Reclaimable(w))
        /\ BackToCaller(t)
        /\ UNCHANGED <<rows, creds, host, memory, writeLock, env>>

-----------------------------------------------------------------------------
(* end: the host's action, and _end, which other callers share             *)

\* The host's end action looks the row up, waits for the gate and keeps it
\* while registry.end() looks the row up again and runs _end.
End(t, w, g) ==
    /\ Serving
    /\ Presents(w, g)
    /\ Start(t, "end", "endwait", w, g, {})
    /\ UNCHANGED <<rows, creds, host, memory, locks, env>>

EndAllowed(t) ==
    LET w == th[t].wf
    IN  /\ At(t, "endwait") /\ gate[w] = NoThread
        /\ IF Accepted(w, th[t].cred)
           THEN gate' = [gate EXCEPT ![w] = t] /\ Go(t, "end")
           ELSE Return(t) /\ UNCHANGED gate
        /\ UNCHANGED <<rows, creds, host, memory, writeLock, env>>

EndTerminal(t) ==
    /\ At(t, "end")
    /\ state[th[t].wf] \in Terminal
    /\ BackToCaller(t)
    /\ UNCHANGED <<rows, creds, host, memory, writeLock, env>>

EndCloses(t) ==
    LET w == th[t].wf
    IN  /\ At(t, "end")
        /\ state[w] \notin Terminal
        /\ SetState(w, "CLOSING")
        /\ th' = [th EXCEPT ![t].pc = "endgate", ![t].fresh = state[w] = "RESERVED"]
        /\ UNCHANGED <<creds, host, memory, locks, env>>

\* The gate is an RLock: a caller that holds it enters at once.
EndEnters(t) ==
    LET w == th[t].wf
    IN  /\ At(t, "endgate") /\ gate[w] \in {NoThread, t}
        /\ IF metadata[w] = "ENDED"
           THEN BackToCaller(t)
           ELSE gate' = [gate EXCEPT ![w] = t] /\ Go(t, "drain")
        /\ UNCHANGED <<rows, creds, host, memory, writeLock, env>>

\* The gate stayed busy for cleanup_timeout (with one long holder or many
\* short ones): CLEANUP_IN_PROGRESS.
EndGateTimeout(t) ==
    LET w == th[t].wf
    IN  /\ At(t, "endgate") /\ gate[w] # t
        /\ IF metadata[w] # "ENDED"
           THEN SetState(w, "CLEANUP_BLOCKED") ELSE UNCHANGED rows
        /\ BackToCaller(t)
        /\ UNCHANGED <<creds, host, memory, writeLock, env>>

\* Mutant: only an activation is waited for.
BusyStarting(w) == w \in starting

Busy(w) == inflight[w] # {} \/ w \in starting

\* changed.wait() ends when the last call has left ...
DrainDone(t) ==
    /\ At(t, "drain")
    /\ ~Busy(th[t].wf)
    /\ Go(t, "cleanup")
    /\ UNCHANGED <<rows, creds, host, memory, locks, env>>

\* Mutant: the row is left CLOSING.
BlockedSilently(t) ==
    /\ BackToCaller(t)
    /\ UNCHANGED <<rows, creds, host, memory, writeLock, env>>

\* The cleanup is given up with the lease kept, for a later _end to retry.
Blocked(t) ==
    /\ SetState(th[t].wf, "CLEANUP_BLOCKED")
    /\ BackToCaller(t)
    /\ UNCHANGED <<creds, host, memory, writeLock, env>>

\* ... or at the deadline: REQUESTS_IN_PROGRESS.
DrainTimeout(t) == At(t, "drain") /\ Busy(th[t].wf) /\ Blocked(t)

\* Mutant: only a resource in memory is cleaned up.
NeedsCleanupInMemory(t) == th[t].wf \in resources

\* resource.close(), or recovery(row) for a row without a resource; a
\* workflow that was only RESERVED needs neither.
NeedsCleanup(t) == th[t].wf \in resources \/ ~th[t].fresh

Cleanup(t) ==
    /\ At(t, "cleanup")
    /\ debris' = IF NeedsCleanup(t) THEN debris \ {th[t].wf} ELSE debris
    /\ Go(t, "cleaned")
    /\ UNCHANGED <<rows, creds, host, memory, locks, due, idle>>

CleanupFails(t) == At(t, "cleanup") /\ NeedsCleanup(t) /\ Blocked(t)

EndFinishes(t) ==
    /\ At(t, "cleaned")
    /\ resources' = resources \ {th[t].wf}
    /\ SetState(th[t].wf, "ENDED")
    /\ BackToCaller(t)
    /\ UNCHANGED <<creds, host, starting, inflight, writeLock, env>>

-----------------------------------------------------------------------------
(* resume: replace the credential of an ACTIVE workflow.  One section: the *)
(* gate, the lock and an immediate transaction span the whole handler.     *)

MayResume(w) ==
    /\ host = "open" /\ gate[w] = NoThread
    /\ state[w] = "ACTIVE" /\ w \in resources

\* Mutant: an answer is replayed after a later resume.
ReplayableAlways(w, r) == responses[r].wf = w /\ r \notin stale

\* A stored answer is replayed while its generation is current.
Replayable(w, r) ==
    /\ responses[r].wf = w /\ responses[r].generation = generation[w]
    /\ r \notin stale

\* The client receives the answer, or its connection is lost.
Delivered(w, g) == \/ tokens' = [tokens EXCEPT ![w] = @ \cup {g}]
                   \/ UNCHANGED tokens

\* A new request id that names the current generation.
Rotate(w, r) ==
    LET g == generation[w] + 1
    IN  /\ MayResume(w)
        /\ responses[r] = NoResponse
        /\ g \in Generations
        /\ generation' = [generation EXCEPT ![w] = g]
        /\ live' = [live EXCEPT ![w] = {g}]
        /\ responses' = [responses EXCEPT ![r] =
               [wf |-> w, expected |-> generation[w], generation |-> g]]
        /\ idle' = idle \ {w}
        /\ Delivered(w, g)
        /\ UNCHANGED <<rows, stale, host, memory, locks, due, debris, th>>

\* The same request again.
Replay(w, r) ==
    /\ MayResume(w)
    /\ Replayable(w, r)
    /\ Delivered(w, responses[r].generation)
    /\ UNCHANGED <<rows, generation, live, responses, stale, host, memory, locks,
                   env, th>>

-----------------------------------------------------------------------------
(* close, restart and recovery                                             *)

\* Mutant: activations under way are forgotten.
RemainingResources == resources

Remaining == resources \cup starting

Close(t) ==
    /\ host \in {"open", "closing"}
    /\ host' = "closing"
    /\ Start(t, "close", "loop", NoWorkflow, 0, Remaining)
    /\ UNCHANGED <<rows, creds, memory, locks, env>>

\* CLEANUP_FAILED is raised if anything is left.
CloseReturns(t) ==
    /\ LoopOver(t, "close")
    /\ host' = IF Remaining = {} THEN "stopped" ELSE host
    /\ Return(t)
    /\ UNCHANGED <<rows, creds, memory, locks, env>>

\* The process dies; the database stays, and native resources may.
Crash ==
    /\ host # "down"
    /\ host' = "down"
    /\ metadata' = [w \in Workflows |-> "NONE"]
    /\ resources' = {} /\ starting' = {}
    /\ inflight' = [w \in Workflows |-> {}]
    /\ gate' = [w \in Workflows |-> NoThread]
    /\ writeLock' = gate'
    /\ th' = [t \in Threads |-> Resting]
    /\ UNCHANGED <<state, creds, env>>

\* __init__ marks what the last process left open and loads the cache;
\* recover() ends every CLEANUP_BLOCKED row before calls are served.
Boot(t) ==
    LET left == {"STARTING", "ACTIVE", "CLOSING", "CLEANUP_BLOCKED"}
        open == {w \in Workflows : state[w] \in left}
    IN  /\ host = "down"
        /\ host' = "recovering"
        /\ state' = [w \in Workflows |->
                        IF w \in open THEN "CLEANUP_BLOCKED" ELSE state[w]]
        /\ metadata' = state'
        /\ Start(t, "recover", "loop", NoWorkflow, 0, open)
        /\ UNCHANGED <<creds, memory, locks, env>>

\* recover() ends with expire(); no row is ACTIVE yet, so none is reclaimed.
RecoverReturns(t) ==
    /\ LoopOver(t, "recover")
    /\ host' = "open"
    /\ state' = Lapsed(state, due)
    /\ metadata' = Lapsed(metadata, due)
    /\ Return(t)
    /\ UNCHANGED <<creds, memory, locks, env>>

-----------------------------------------------------------------------------
(* The clock                                                               *)

ReservationLapses(w) ==
    /\ Leased(w)
    /\ due' = due \cup {w}
    /\ UNCHANGED <<rows, creds, host, memory, locks, idle, debris, th>>

ActivityLapses(w) ==
    /\ state[w] = "ACTIVE"
    /\ idle' = idle \cup {w}
    /\ UNCHANGED <<rows, creds, host, memory, locks, due, debris, th>>

ResponseLapses(r) ==
    /\ responses[r] # NoResponse
    /\ stale' = stale \cup {r}
    /\ UNCHANGED <<rows, generation, live, responses, tokens, host, memory, locks,
                   env, th>>

-----------------------------------------------------------------------------
\* A call arrives.
Arrive(t) ==
    \/ Expire(t) \/ Close(t) \/ Boot(t)
    \/ \E w \in Workflows :
           \/ Release(t, w)
           \/ \E g \in Generations : End(t, w, g) \/ \E k \in Kinds : Use(t, k, w, g)

\* begin, activate, use and end get to their next section.
Admission(t) ==
    \/ LoopReturns(t) \/ NextRow(t) \/ \E w \in Workflows : Begin(t, w)
    \/ \E w \in Workflows, g \in Generations : Locate(t, w, g)
    \/ EnterReserved(t) \/ EnterReturns(t)
    \/ Dequeue(t) \/ Admit(t) \/ AdmitRefused(t) \/ EndAllowed(t)

\* _end, the probe before it, and the ends of close and recover.
Ending(t) ==
    \/ Probe(t) \/ ProbeRefused(t) \/ ProbeClear(t)
    \/ EndTerminal(t) \/ EndCloses(t) \/ EndEnters(t) \/ EndGateTimeout(t)
    \/ DrainDone(t) \/ DrainTimeout(t)
    \/ Cleanup(t) \/ CleanupFails(t) \/ EndFinishes(t)
    \/ CloseReturns(t) \/ RecoverReturns(t)

\* Code outside the registry: the factory and the tool calls.
Outside(t) == FactoryFails(t) \/ FactoryReturns(t) \/ Leave(t)

Resume == \E w \in Workflows, r \in ResumeIds : Rotate(w, r) \/ Replay(w, r)

Clock == \/ \E w \in Workflows : ReservationLapses(w) \/ ActivityLapses(w)
         \/ \E r \in ResumeIds : ResponseLapses(r)

Next ==
    \/ \E t \in Threads : Arrive(t) \/ Admission(t) \/ Ending(t) \/ Outside(t)
    \/ Resume \/ Clock \/ Crash

Spec == Init /\ [][Next]_vars

\* Threads are scheduled: a thread whose section can run runs it.  Nothing
\* is assumed of tool calls and factories, which may hang, nor of arrivals.
Fairness == \A t \in Threads : WF_vars(Admission(t)) /\ WF_vars(Ending(t))
FairSpec == Spec /\ Fairness

-----------------------------------------------------------------------------
(* Properties                                                              *)

RowsOK == state \in [Workflows -> States] /\ metadata \in [Workflows -> States]
CredsOK == /\ generation \in [Workflows -> Generations]
           /\ live \in [Workflows -> SUBSET Generations]
           /\ responses \in [ResumeIds -> Response]
           /\ stale \in SUBSET ResumeIds
           /\ tokens \in [Workflows -> SUBSET Generations]
HostOK == host \in {"down", "recovering", "open", "closing", "stopped"}
MemoryOK == /\ resources \in SUBSET Workflows
            /\ starting \in SUBSET Workflows
            /\ inflight \in [Workflows -> SUBSET Threads]
LocksOK == /\ gate \in [Workflows -> Threads \cup {NoThread}]
           /\ writeLock \in [Workflows -> Threads \cup {NoThread}]
EnvOK == /\ due \in SUBSET Workflows
         /\ idle \in SUBSET Workflows
         /\ debris \in SUBSET Workflows
ThreadsOK == th \in [Threads -> Thread]

\* Every variable has the type the code gives it.
TypeOK == RowsOK /\ CredsOK /\ HostOK /\ MemoryOK /\ LocksOK /\ EnvOK /\ ThreadsOK

\* Two workflows whose processes may exist at once never conflict, whatever
\* has been ended, expired, interrupted by a crash or left half cleaned up
\* (begin's PROJECT_BUSY scan against _end, expire and __init__).
ProjectsNotShared ==
    \A v, w \in debris : v # w => ~Conflict(v, w)

\* A workflow that has given its lease up has no resource, no activation, no
\* call and nothing native left (_end pops and ends only after close() or
\* recovery; expire touches only workflows that never started).
NothingOutlivesItsLease ==
    \A w \in Workflows : ~Leased(w) =>
        /\ w \notin resources \cup starting \cup debris
        /\ inflight[w] = {}

\* A tool call keeps the resource it was given until it returns: no resource
\* is being closed, or already gone, under a call that use() admitted.
CallsKeepTheirResource ==
    \A t \in Threads : At(t, "body") =>
        /\ th[t].wf \in resources
        /\ \A u \in Threads : th[u].pc \in {"cleanup", "cleaned"} => th[u].wf # th[t].wf

\* From the moment release_idle asks a resource for its blockers until the
\* workflow is CLOSING, no call is in flight and none has touched it.
ReclaimsOnlyIdle ==
    \A t \in Threads :
        \/ At(t, "probe")
        \/ At(t, "end") /\ th[t].op \in {"release", "begin", "activate", "expire"}
        => inflight[th[t].wf] = {} /\ th[t].wf \in idle

\* The cached states that closed_operation_owners() reports are those of the
\* database, but for reservations whose deadline passed while expire() ran:
\* an owner it reports as closed can never be activated again.
CacheAgrees ==
    host # "down" =>
        \A w \in Workflows :
            \/ metadata[w] = state[w]
            \/ metadata[w] = "EXPIRED" /\ Overdue(w)

\* After close() returned without CLEANUP_FAILED nothing runs and nothing is
\* started again in this process.
StoppedIsEmpty ==
    host = "stopped" =>
        /\ resources \cup starting = {}
        /\ \A t \in Threads : th[t].pc \notin {"factory", "body"}

\* A credential the client receives, from a first answer or from the replay
\* of a lost one, is usable when it is handed out.
HandedTokensWork ==
    [][\A w \in Workflows : tokens'[w] \ tokens[w] \subseteq live'[w]]_vars

\* A call that presents a replaced credential has no effect, however long it
\* waited for the gate after its first lookup: it is not admitted, and it
\* does not end the workflow.
ReplacedCredentialsAreDead ==
    [][\A t \in Threads :
           \/ At(t, "admit") /\ th'[t].pc = "body"
           \/ At(t, "end") /\ th[t].op = "end" /\ th'[t].pc = "endgate"
           => Accepted(th[t].wf, th[t].cred)]_vars

\* The registry implements exclusive project leases.
Lease == INSTANCE ProjectLease WITH
             held <- {w \in Workflows : Leased(w)},
             dirty <- debris,
             past <- {w \in Workflows : state[w] \in Terminal}
LeaseSpec == Lease!Spec

\* A workflow does not stay CLOSING: it becomes ENDED or CLEANUP_BLOCKED even
\* when the call or the factory that is waited for never returns.
ClosingSettles ==
    \A w \in Workflows :
        state[w] = "CLOSING" /\ host # "down"
            ~> state[w] # "CLOSING" \/ host = "down"

-----------------------------------------------------------------------------
(* Why they hold: the parts of an inductive invariant                      *)

\* Threads live in one process; one of them recovers, before calls are served.
ProcessKnown ==
    /\ host = "down" => \A t \in Threads : th[t] = Resting
    /\ \A t \in Threads : /\ th[t].op = "close" => Closed
                          /\ th[t].op = "recover" => host = "recovering"
    /\ \A t, u \in Threads : th[t].op = "recover" /\ th[u].op = "recover" => t = u

\* close and recover go straight to _end for each row.
DirectEnds == \A t \in Threads :
    th[t].op \in {"close", "recover"} =>
        th[t].pc \notin {"release", "probe", "endwait", "enter", "factory"}

\* The sections a thread runs with the gate of its row held.
HoldsGate(t) ==
    \/ th[t].pc \in {"probe", "factory", "drain", "cleanup", "cleaned"}
    \/ th[t].pc \in {"end", "endgate"} /\ th[t].op \notin {"close", "recover"}

GateHeld == \A w \in Workflows, t \in Threads :
    gate[w] = t <=> HoldsGate(t) /\ th[t].wf = w

CallsCounted == \A w \in Workflows, t \in Threads :
    t \in inflight[w] <=> At(t, "body") /\ th[t].wf = w

StartsCounted == \A w \in Workflows :
    w \in starting <=> \E t \in Threads : At(t, "factory") /\ th[t].wf = w

\* No section is about a row that does not exist.
RowsExist ==
    /\ \A w \in Workflows : live[w] # {} => state[w] # "NONE"
    /\ \A t \in Threads : /\ th[t].wf \in Workflows => state[th[t].wf] # "NONE"
                          /\ \A w \in th[t].todo : state[w] # "NONE"

\* A row that never started or has ended owns nothing.
OwnsNothing(w) == w \notin resources \cup starting \cup debris /\ inflight[w] = {}
UnstartedOwnsNothing == \A w \in Workflows :
    state[w] \in Terminal \cup {"NONE", "RESERVED"} => OwnsNothing(w)

\* What the sections of activate and _end know about their row.
Knows(t) == LET w == th[t].wf IN
    /\ At(t, "factory") => state[w] \in {"STARTING", "CLOSING", "CLEANUP_BLOCKED"}
    /\ At(t, "endgate") => state[w] \in {"CLOSING", "CLEANUP_BLOCKED", "ENDED"}
    /\ th[t].pc \in {"drain", "cleanup", "cleaned"} =>
           state[w] \in {"CLOSING", "CLEANUP_BLOCKED"}
    /\ th[t].pc \in {"cleanup", "cleaned"} => inflight[w] = {} /\ w \notin starting
    /\ At(t, "cleaned") => w \notin debris
    /\ th[t].pc \in {"endgate", "drain", "cleanup", "cleaned"} /\ th[t].fresh =>
           OwnsNothing(w)
SectionsKnow == \A t \in Threads : Knows(t)

LeasesExclusive == \A v, w \in Workflows :
    v # w /\ Leased(v) /\ Leased(w) => ~Conflict(v, w)

LeaseInv == /\ ProcessKnown /\ CacheAgrees /\ DirectEnds /\ GateHeld /\ CallsCounted /\ StartsCounted
            /\ RowsExist /\ UnstartedOwnsNothing /\ SectionsKnow /\ LeasesExclusive
=============================================================================
