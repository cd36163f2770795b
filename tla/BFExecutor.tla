----------------------------- MODULE BFExecutor -----------------------------
(***************************************************************************)
(* The connection to the native tool server (personal_mcp/bf/executor.py). *)
(* A generation is a thread with an event loop and a client.  A call gets  *)
(* a Future that is resolved once, with a result or with "outcome unknown" *)
(* when the protocol fails while the native worker may still be running.   *)
(* A generation that produced an unknown outcome retires: its thread exits *)
(* only after its workers, and only then may another generation start.     *)
(*                                                                         *)
(* Sections under the executor lock are single actions.  Init is the state *)
(* after the constructor returned.                                         *)
(***************************************************************************)
EXTENDS Naturals, FiniteSets

CONSTANTS Owners, Futures, Callers, NoOwner,
          MaxGenerations  \* bound on reconnections

ASSUME ConstantsAssumption == MaxGenerations \in Nat \ {0} /\ NoOwner \notin Owners

Generations == 1..MaxGenerations

VARIABLES
    current,    \* number of self._generation
    thread,     \* per generation: "none", "connecting", "serving", "joining"
                \* its workers, "retiring" its requests, "dead"
    ready,      \* per generation: "pending", "ok", "failed"
    accepting, stop, connected,  \* sets of generations
    requests,   \* per generation: the futures in generation.requests
    uncertain,  \* per generation: the owners in uncertain_owners
    pending,    \* the futures in self.pending
    closed,
    future,     \* per future: what became of it (see Future)
    caller      \* per caller: what it is doing (see Caller)

lifecycle == <<current, thread, ready, connected>>
flags == <<accepting, stop>>
tables == <<requests, uncertain, pending>>
vars == <<lifecycle, flags, tables, closed, future, caller>>

\* native: the worker in the server.  reply: the protocol's answer.
\* step: how far _finished got, run by "by" with outcome "verdict".
Future == [owner : Owners \cup {NoOwner}, gen : Generations,
           native : {"none", "running", "ended"},
           reply : {"none", "ok", "error"},
           step : {"none", "removed", "stopped", "set", "done"},
           verdict : {"none", "ok", "error"},
           by : {"none", "callback", "thread"}]
NoFuture == [owner |-> NoOwner, gen |-> 1, native |-> "none", reply |-> "none",
             step |-> "none", verdict |-> "none", by |-> "none"]
Resolved(f) == future[f].step \in {"set", "done"}

\* A caller of submit, drain or close; gen and wait are its snapshots, seen
\* (read by no code) the owner's calls dispatched before its drain began,
\* todo the owners close() has still to drain.
Caller == [op : {"none", "submit", "drain", "close"},
           pc : {"idle", "ready", "waiting", "checking", "joining", "drained",
                 "stopping", "ended"},
           owner : Owners \cup {NoOwner}, gen : Generations,
           wait : SUBSET Futures, seen : SUBSET Futures, todo : SUBSET Owners]
Resting == [op |-> "none", pc |-> "idle", owner |-> NoOwner, gen |-> 1,
            wait |-> {}, seen |-> {}, todo |-> {}]

Init ==
    /\ current = 1
    /\ thread = [g \in Generations |-> IF g = 1 THEN "serving" ELSE "none"]
    /\ ready = [g \in Generations |-> IF g = 1 THEN "ok" ELSE "pending"]
    /\ accepting = {1} /\ stop = {} /\ connected = {1}
    /\ requests = [g \in Generations |-> {}]
    /\ uncertain = [g \in Generations |-> {}]
    /\ pending = {}
    /\ closed = FALSE
    /\ future = [f \in Futures |-> NoFuture]
    /\ caller = [c \in Callers |-> Resting]

At(c, p) == caller[c].pc = p
Go(c, p) == caller' = [caller EXCEPT ![c].pc = p]
Return(c) == caller' = [caller EXCEPT ![c] = Resting]
OwnerOf(f) == future[f].owner
Of(o) == {f \in Futures : OwnerOf(f) = o}
NativeDone(F) == \A f \in F : future[f].native # "running"

-----------------------------------------------------------------------------
(* submit                                                                  *)

\* A dead thread is replaced; its assertion is part of OneGenerationWorks.
Submit(c, o) ==
    LET replace == thread[current] = "dead"
        g == IF replace THEN current + 1 ELSE current
    IN  /\ At(c, "idle") /\ ~closed /\ g \in Generations
        /\ current' = g
        /\ thread' = IF replace THEN [thread EXCEPT ![g] = "connecting"] ELSE thread
        /\ caller' = [caller EXCEPT ![c] =
               [Resting EXCEPT !.op = "submit", !.pc = "ready", !.owner = o, !.gen = g]]
        /\ UNCHANGED <<ready, connected, flags, tables, closed, future>>

Usable(g) == /\ ~closed /\ g = current /\ thread[g] # "dead"
             /\ g \in accepting \ stop /\ g \in connected

\* The call is sent and filed in one section.
Dispatch(c, f) ==
    LET g == caller[c].gen
        o == caller[c].owner
    IN  /\ At(c, "ready") /\ ready[g] = "ok"
        /\ Usable(g)
        /\ future[f] = NoFuture
        /\ future' = [future EXCEPT ![f] =
               [NoFuture EXCEPT !.owner = o, !.gen = g, !.native = "running"]]
        /\ requests' = [requests EXCEPT ![g] = @ \cup {f}]
        /\ pending' = pending \cup {f}
        /\ Return(c)
        /\ UNCHANGED <<lifecycle, flags, uncertain, closed>>

\* BF_RECOVERING (the connection failed, or 20 seconds passed),
\* BF_EXECUTOR_CLOSED or BF_CONNECTION_UNAVAILABLE.
SubmitRefused(c) ==
    /\ At(c, "ready")
    /\ ready[caller[c].gen] # "ok" \/ ~Usable(caller[c].gen)
    /\ Return(c)
    /\ UNCHANGED <<lifecycle, flags, tables, closed, future>>

-----------------------------------------------------------------------------
(* The server and the protocol                                             *)

NativeEnds(f) ==
    /\ future[f].native = "running"
    /\ future' = [future EXCEPT ![f].native = "ended"]
    /\ UNCHANGED <<lifecycle, flags, tables, closed, caller>>

\* A result is sent when the worker ended and the client still listens.
ReplyOk(f) ==
    /\ future[f].native = "ended" /\ future[f].reply = "none"
    /\ thread[future[f].gen] = "serving"
    /\ future' = [future EXCEPT ![f].reply = "ok"]
    /\ UNCHANGED <<lifecycle, flags, tables, closed, caller>>

\* A timeout, a lost connection, a cancelled coroutine.
ReplyError(f) ==
    /\ future[f].native # "none" /\ future[f].reply = "none"
    /\ thread[future[f].gen] \in {"serving", "joining"}
    /\ future' = [future EXCEPT ![f].reply = "error"]
    /\ UNCHANGED <<lifecycle, flags, tables, closed, caller>>

-----------------------------------------------------------------------------
(* _finished, in the steps its locks leave                                 *)

\* Mutant: the generation of an unknown outcome is not fenced.
FencedNever(g, o, verdict) == uncertain

\* Mutant: the outcome is filed in place of the owner.
FencedSwapped(g, o, verdict) ==
    IF verdict = "error" THEN [uncertain EXCEPT ![g] = @ \cup {verdict}] ELSE uncertain

\* An unknown outcome fences its owner until the generation has died.
Fenced(g, o, verdict) ==
    IF verdict = "error" THEN [uncertain EXCEPT ![g] = @ \cup {o}] ELSE uncertain

\* Mutant: whoever comes second finishes the future again.
UnclaimedEver(f) == ~Resolved(f)

Unclaimed(f) == f \in requests[future[f].gen]

Claim(f, verdict, by) ==
    LET g == future[f].gen
    IN  /\ Unclaimed(f)
        /\ requests' = [requests EXCEPT ![g] = @ \ {f}]
        /\ uncertain' = Fenced(g, OwnerOf(f), verdict)
        /\ accepting' = IF verdict = "error" THEN accepting \ {g} ELSE accepting
        /\ future' = [future EXCEPT ![f].step = "removed", ![f].verdict = verdict,
                                    ![f].by = by]
        /\ UNCHANGED <<lifecycle, stop, pending, closed, caller>>

\* The done callback of the dispatched call; or the dying thread, for calls
\* that nobody else has finished.
ByCallback(f) ==
    /\ future[f].reply # "none"
    /\ Claim(f, future[f].reply, "callback")

\* Mutant: the calls of a lost connection are forgotten.
AbandonedNever(g) == {}

Abandoned(g) == requests[g]

Abandon(f) ==
    /\ thread[future[f].gen] = "retiring" /\ f \in Abandoned(future[f].gen)
    /\ \A e \in Futures : future[e].by = "thread" => future[e].step = "done"
    /\ Claim(f, "error", "thread")

\* Mutant: an uncertain generation is left running.
StopWithout(f) == stop

\* _stop does nothing once the loop is closed.
StopWith(f) ==
    IF thread[future[f].gen] = "dead" THEN stop ELSE stop \cup {future[f].gen}

StopGeneration(f) ==
    /\ future[f].step = "removed" /\ future[f].verdict = "error"
    /\ stop' = StopWith(f)
    /\ future' = [future EXCEPT ![f].step = "stopped"]
    /\ UNCHANGED <<lifecycle, accepting, tables, closed, caller>>

\* set_result or set_exception, with the callbacks of the future's owner.
Resolve(f) ==
    /\ future[f].step = IF future[f].verdict = "error" THEN "stopped" ELSE "removed"
    /\ future' = [future EXCEPT ![f].step = "set"]
    /\ UNCHANGED <<lifecycle, flags, tables, closed, caller>>

Discard(f) ==
    /\ future[f].step = "set"
    /\ pending' = pending \ {f}
    /\ future' = [future EXCEPT ![f].step = "done"]
    /\ UNCHANGED <<lifecycle, flags, requests, uncertain, closed, caller>>

-----------------------------------------------------------------------------
(* The thread of a generation                                              *)

Connect(g) ==
    /\ thread[g] = "connecting"
    /\ thread' = [thread EXCEPT ![g] = "serving"]
    /\ connected' = connected \cup {g}
    /\ ready' = [ready EXCEPT ![g] = "ok"]
    /\ accepting' = IF closed THEN accepting ELSE accepting \cup {g}
    /\ stop' = IF closed THEN stop \cup {g} ELSE stop
    /\ UNCHANGED <<current, tables, closed, future, caller>>

ConnectFails(g) ==
    /\ thread[g] = "connecting"
    /\ thread' = [thread EXCEPT ![g] = "joining"]
    /\ UNCHANGED <<current, ready, connected, flags, tables, closed, future, caller>>

Disconnect(g) ==
    /\ thread[g] = "serving" /\ g \in connected
    /\ connected' = connected \ {g}
    /\ UNCHANGED <<current, thread, ready, flags, tables, closed, future, caller>>

\* _main returns or raises BF_CONNECTION_LOST, and leaves its client.
LeaveMain(g) ==
    /\ thread[g] = "serving"
    /\ g \in stop \/ g \notin connected
    /\ thread' = [thread EXCEPT ![g] = "joining"]
    /\ connected' = connected \ {g}
    /\ accepting' = accepting \ {g}
    /\ UNCHANGED <<current, ready, stop, tables, closed, future, caller>>

\* Mutant: the loop's workers are abandoned instead of joined.
WorkersAbandoned(g) == TRUE

\* shutdown_default_executor() returns when every worker has ended.
WorkersJoined(g) == NativeDone({f \in Futures : future[f].gen = g})

Retire(g) ==
    /\ thread[g] = "joining"
    /\ WorkersJoined(g)
    /\ thread' = [thread EXCEPT ![g] = "retiring"]
    /\ accepting' = accepting \ {g}
    /\ UNCHANGED <<current, ready, connected, stop, tables, closed, future, caller>>

\* The thread exits when it has finished the calls it found abandoned.
Die(g) ==
    /\ thread[g] = "retiring"
    /\ Abandoned(g) = {}
    /\ \A f \in Futures : future[f].gen = g /\ future[f].by = "thread"
                              => future[f].step = "done"
    /\ thread' = [thread EXCEPT ![g] = "dead"]
    /\ ready' = [ready EXCEPT ![g] = IF @ = "pending" THEN "failed" ELSE @]
    /\ UNCHANGED <<current, connected, flags, tables, closed, future, caller>>

-----------------------------------------------------------------------------
(* drain and close                                                         *)

\* The owner's pending futures and the generation are read in one section.
Snapshot(c, o) ==
    [caller[c] EXCEPT !.pc = "waiting", !.owner = o, !.gen = current,
                      !.wait = pending \cap Of(o), !.seen = Of(o)]

Drain(c, o) ==
    /\ At(c, "idle")
    /\ caller' = [caller EXCEPT ![c] = [Snapshot(c, o) EXCEPT !.op = "drain"]]
    /\ UNCHANGED <<lifecycle, flags, tables, closed, future>>

DrainWaits(c) ==
    /\ At(c, "waiting")
    /\ \A f \in caller[c].wait : Resolved(f)
    /\ Go(c, "checking")
    /\ UNCHANGED <<lifecycle, flags, tables, closed, future>>

DrainChecks(c) ==
    /\ At(c, "checking")
    /\ Go(c, IF caller[c].owner \in uncertain[caller[c].gen] THEN "joining" ELSE "drained")
    /\ UNCHANGED <<lifecycle, flags, tables, closed, future>>

DrainJoins(c) ==
    /\ At(c, "joining")
    /\ thread[caller[c].gen] = "dead"
    /\ Go(c, "drained")
    /\ UNCHANGED <<lifecycle, flags, tables, closed, future>>

\* BF_OPERATIONS_STILL_RUNNING, which close() lets through.
DrainTimesOut(c) ==
    /\ \/ At(c, "waiting") /\ \E f \in caller[c].wait : ~Resolved(f)
       \/ At(c, "joining") /\ thread[caller[c].gen] # "dead"
    /\ Return(c)
    /\ UNCHANGED <<lifecycle, flags, tables, closed, future>>

Drained(c) ==
    /\ At(c, "drained")
    /\ IF caller[c].op = "close" THEN Go(c, "stopping") ELSE Return(c)
    /\ UNCHANGED <<lifecycle, flags, tables, closed, future>>

Close(c) ==
    /\ At(c, "idle")
    /\ closed' = TRUE
    /\ caller' = [caller EXCEPT ![c] = [Resting EXCEPT !.op = "close",
           !.pc = "stopping", !.gen = current,
           !.todo = {OwnerOf(f) : f \in pending} \cup uncertain[current]]]
    /\ UNCHANGED <<lifecycle, flags, tables, future>>

CloseDrains(c) ==
    /\ At(c, "stopping")
    /\ \E o \in caller[c].todo :
           caller' = [caller EXCEPT ![c] = [Snapshot(c, o) EXCEPT !.todo = @ \ {o}]]
    /\ UNCHANGED <<lifecycle, flags, tables, closed, future>>

CloseStops(c) ==
    /\ At(c, "stopping") /\ caller[c].todo = {}
    /\ stop' = stop \cup {caller[c].gen}
    /\ Go(c, "ended")
    /\ UNCHANGED <<lifecycle, accepting, tables, closed, future>>

\* The thread is joined, for five seconds: BF_SHUTDOWN_INCOMPLETE.
CloseEnds(c) ==
    /\ At(c, "ended")
    /\ Return(c)
    /\ UNCHANGED <<lifecycle, flags, tables, closed, future>>

-----------------------------------------------------------------------------
Finishing(f) == \/ ByCallback(f) \/ Abandon(f)
                \/ StopGeneration(f) \/ Resolve(f) \/ Discard(f)

Living(g) == Connect(g) \/ ConnectFails(g) \/ LeaveMain(g) \/ Retire(g) \/ Die(g)

Calling(c) ==
    \/ \E o \in Owners : Submit(c, o) \/ Drain(c, o)
    \/ \E f \in Futures : Dispatch(c, f)
    \/ SubmitRefused(c)
    \/ DrainWaits(c) \/ DrainChecks(c) \/ DrainJoins(c) \/ DrainTimesOut(c) \/ Drained(c)
    \/ Close(c) \/ CloseDrains(c) \/ CloseStops(c) \/ CloseEnds(c)

Next ==
    \/ \E c \in Callers : Calling(c)
    \/ \E f \in Futures : NativeEnds(f) \/ ReplyOk(f) \/ ReplyError(f) \/ Finishing(f)
    \/ \E g \in Generations : Living(g) \/ Disconnect(g)

Spec == Init /\ [][Next]_vars

\* Threads and callbacks run; the client answers within its timeout of 300
\* seconds.  That native workers end is assumed of the external server.
Fairness ==
    /\ \A f \in Futures : WF_vars(NativeEnds(f)) /\ WF_vars(ReplyError(f))
                          /\ WF_vars(Finishing(f))
    /\ \A g \in Generations : WF_vars(Living(g))
FairSpec == Spec /\ Fairness

-----------------------------------------------------------------------------
(* Properties                                                              *)

\* Every variable has the type the code gives it.
TypeOK ==
    /\ current \in Generations
    /\ thread \in [Generations -> {"none", "connecting", "serving", "joining",
                                   "retiring", "dead"}]
    /\ ready \in [Generations -> {"pending", "ok", "failed"}]
    /\ accepting \subseteq Generations /\ stop \subseteq Generations
    /\ connected \subseteq Generations
    /\ requests \in [Generations -> SUBSET Futures]
    /\ uncertain \in [Generations -> SUBSET Owners]
    /\ pending \subseteq Futures
    /\ closed \in BOOLEAN
    /\ future \in [Futures -> Future]
    /\ caller \in [Callers -> Caller]

\* Native work of two generations never overlaps: a worker that runs belongs
\* to the current generation, and a dead one left no request behind (the
\* assertion of _start_locked).
OneGenerationWorks ==
    /\ \A f \in Futures : future[f].native = "running" => future[f].gen = current
    /\ \A g \in Generations : thread[g] = "dead" => requests[g] = {}

\* When drain() returns, no native work of its owner that was dispatched
\* before it is still running, whatever the protocol reported about it.
DrainMeansQuiet ==
    \A c \in Callers : At(c, "drained") => NativeDone(caller[c].seen)

\* A future is resolved once, by the callback or by the dying thread, and a
\* result is reported only for work that ended.
ResolvedOnce ==
    [][\A f \in Futures : future[f].verdict # "none" =>
           /\ future'[f].verdict = future[f].verdict
           /\ future'[f].verdict = "ok" => future[f].native = "ended"]_vars

\* When close() returns without an error, the thread is dead, every future is
\* resolved and no native worker runs.
CloseMeansQuiet ==
    \A c \in Callers : At(c, "ended") /\ thread[caller[c].gen] = "dead" =>
        /\ NativeDone(Futures)
        /\ \A f \in Futures : future[f].owner # NoOwner => Resolved(f)

\* An unknown outcome does not fence its owner for ever: the generation that
\* produced it dies, so that drain() can succeed and submit() can reconnect.
UncertainRetires ==
    \A g \in Generations : uncertain[g] # {} ~> thread[g] = "dead"

\* Every dispatched call gets its outcome.
EveryCallResolves ==
    \A f \in Futures : future[f].owner # NoOwner ~> Resolved(f)

\* Together: no caller waits for ever, and no owner stays fenced for ever.
CallsSettle == UncertainRetires /\ EveryCallResolves
=============================================================================
