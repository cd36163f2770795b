--------------------------- MODULE DesktopControl ---------------------------
(* The remote desktop console: who may send keyboard and mouse input, and     *)
(* until when.  A console session observes until it is armed; arming, acting, *)
(* disarming and looking are calls that run beside each other, and beside the *)
(* end and the resumption of their workflow.  Input goes to the one real      *)
(* desktop, under its lease (personal_mcp/desktop_console.py,                 *)
(* desktop_native.py; bf_automation/lease.py, task_store.py).                 *)
(*                                                                            *)
(* Every call runs once, so Calls bounds the epochs; MaxInputs bounds the     *)
(* input events of one action.  Clocks are events: an arm lapses, a session   *)
(* expires, a wait for the lease times out whenever they may.                 *)
EXTENDS Naturals, FiniteSets

CONSTANTS Workflows, Sessions, Calls,
          MaxListed,   \* sessions the console keeps (8 in the code)
          MaxInputs

NoOne == "none"
Upstream == "upstream"      \* a window tool of the executor, which waits in hold_async

VARIABLES
    session,    \* desktop_console.Session and whether the manager lists it
    call,       \* the calls of DesktopConsoleManager.handle
    stage,      \* of each workflow: active, closing, closed
    writer,     \* the call that holds the workflow's write lock
    lease,      \* DesktopLease._owner, by call instead of by workflow
    claim,      \* the workflow that owns the one window, in window-claims.sqlite3
    overtaken,  \* calls whose session was stopped since they read its epoch
    armedBy,    \* the call that armed the session
    late        \* input events a call sent after it had lost its authority

vars == <<session, call, stage, writer, lease, claim, overtaken, armedBy, late>>

Kinds == {"arm", "act", "disarm", "view"}
Wf(c) == session[call[c].on].owner
Running(c) == call[c].pc \notin {"new", "done"}
Inside(c) == Running(c) /\ call[c].pc # "entered"

TypeOK ==
    /\ session \in [Sessions -> [owner: Workflows \cup {NoOne}, listed: BOOLEAN, armed: BOOLEAN,
                                 fresh: BOOLEAN, closed: BOOLEAN, expired: BOOLEAN, epoch: Nat]]
    /\ call \in [Calls -> [kind: Kinds, on: Sessions, epoch: Nat, pressed: BOOLEAN, inputs: 0 .. MaxInputs,
                           pc: {"new", "entered", "inside", "dispatched", "leasing", "checking",
                                "sending", "finishing", "done"}]]
    /\ stage \in [Workflows -> {"active", "closing", "closed"}]
    /\ writer \in [Workflows -> Calls \cup {NoOne}]
    /\ lease \in Calls \cup {NoOne, Upstream}
    /\ claim \in Workflows \cup {NoOne}
    /\ overtaken \subseteq Calls
    /\ armedBy \in [Sessions -> Calls \cup {NoOne}]
    /\ late \in [Calls -> Nat]

Init ==
    /\ session = [u \in Sessions |-> [owner |-> NoOne, listed |-> FALSE, armed |-> FALSE, fresh |-> FALSE,
                                      closed |-> FALSE, expired |-> FALSE, epoch |-> 0]]
    /\ call = [c \in Calls |-> [kind |-> "view", on |-> CHOOSE u \in Sessions : TRUE, epoch |-> 0,
                                pressed |-> FALSE, inputs |-> 0, pc |-> "new"]]
    /\ stage = [w \in Workflows |-> "active"]
    /\ writer = [w \in Workflows |-> NoOne]
    /\ lease = NoOne /\ claim = NoOne /\ overtaken = {}
    /\ armedBy = [u \in Sessions |-> NoOne]
    /\ late = [c \in Calls |-> 0]

Stopped(s, close) == [s EXCEPT !.armed = FALSE, !.fresh = FALSE, !.epoch = @ + 1, !.closed = @ \/ close]

\* _stop of the sessions in S, of which those in Gone leave the manager's table.
After(S, close, Gone) ==
    [u \in Sessions |-> [(IF u \in S THEN Stopped(session[u], close) ELSE session[u])
                           EXCEPT !.listed = @ /\ u \notin Gone]]

Overtake(S) ==
    /\ overtaken' = overtaken \cup {c \in Calls : Running(c) /\ call[c].on \in S}
    /\ armedBy' = [u \in Sessions |-> IF u \in S THEN NoOne ELSE armedBy[u]]

StopAll(S, close, Gone) == session' = After(S, close, Gone) /\ Overtake(S)
NothingStopped == UNCHANGED <<session, overtaken, armedBy>>

Listed(w) == {u \in Sessions : session[u].listed /\ session[u].owner = w}
Prunable == {u \in Sessions : session[u].listed /\ (session[u].expired \/ session[u].closed)}

\* open: the workflow's earlier sessions are closed; the new one only observes.
Open(w, u) ==
    /\ stage[w] = "active" /\ writer[w] = NoOne /\ session[u].owner = NoOne
    /\ LET gone == Listed(w) \cup Prunable
           kept == {v \in Sessions : session[v].listed} \ gone
       IN /\ session' = IF Cardinality(kept) < MaxListed
                        THEN [After(gone, TRUE, gone) EXCEPT ![u].owner = w, ![u].listed = TRUE]
                        ELSE After(gone, TRUE, gone)
          /\ Overtake(gone)
    /\ UNCHANGED <<call, stage, writer, lease, claim, late>>

\* handle, up to the wait for the workflow: the session is looked up, a lapsed
\* arm is given up, and the epoch is read.
Enter(c, k, u) ==
    /\ call[c].pc = "new" /\ session[u].listed /\ u \notin Prunable
    /\ LET lapsed == IF session[u].armed /\ ~session[u].fresh THEN {u} ELSE {}
       IN /\ session' = [v \in Sessions |-> After(lapsed, FALSE, {})[v]]
          /\ Overtake(lapsed)
          /\ call' = [call EXCEPT ![c] = [@ EXCEPT !.kind = k, !.on = u, !.pc = "entered",
                                                   !.epoch = session'[u].epoch]]
    /\ UNCHANGED <<stage, writer, lease, claim, late>>

\* _prune, at the head of every call and opening.
Prune ==
    /\ Prunable # {} /\ StopAll(Prunable, TRUE, Prunable)
    /\ UNCHANGED <<call, stage, writer, lease, claim, late>>

Busy(u) == \E c \in Calls : call[c].on = u /\ Inside(c)      \* session.lock is held
Writes(c) == call[c].kind \in {"arm", "act"}
Leaves(c) == writer' = [w \in Workflows |-> IF writer[w] = c THEN NoOne ELSE writer[w]]
Ends(c) == call' = [call EXCEPT ![c].pc = "done", ![c].pressed = FALSE] /\ Leaves(c)

\* registry.use answers WorkflowError: the session is closed.
Turned(c) ==
    /\ call[c].pc = "entered" /\ stage[Wf(c)] # "active"
    /\ Ends(c) /\ StopAll({call[c].on}, TRUE, {})
    /\ UNCHANGED <<stage, lease, claim, late>>

\* registry.use admits the call.  Disarming stops the session whatever runs;
\* the others need session.lock, which they try without waiting.
Use(c) ==
    /\ call[c].pc = "entered" /\ stage[Wf(c)] = "active"
    /\ Writes(c) => writer[Wf(c)] = NoOne
    /\ LET u == call[c].on
       IN IF session[u].closed \/ (call[c].kind # "disarm" /\ Busy(u))
          THEN Ends(c) /\ NothingStopped
          ELSE IF call[c].kind = "disarm"
          THEN Ends(c) /\ StopAll({u}, FALSE, {})
          ELSE /\ call' = [call EXCEPT ![c].pc = "inside"]
               /\ writer' = IF Writes(c) THEN [writer EXCEPT ![Wf(c)] = c] ELSE writer
               /\ NothingStopped
    /\ UNCHANGED <<stage, lease, claim, late>>

\* _authorize
Current(c) == LET s == session[call[c].on] IN ~s.closed /\ ~s.expired /\ s.epoch = call[c].epoch
Armed(c) == session[call[c].on].armed /\ session[call[c].on].fresh
Authorized(c) == Current(c) /\ (call[c].kind = "act" => Armed(c))
\* What a refusal stops: an action that finds the session not armed any more.
StoppedByRefusal(c) == IF Current(c) THEN {call[c].on} ELSE {}

Step(c, to) == call' = [call EXCEPT ![c].pc = to] /\ UNCHANGED writer

\* admit, before the receipt of the operation is reserved.
Admit(c) ==
    /\ call[c].pc = "inside" /\ Writes(c)
    /\ IF Authorized(c) THEN Step(c, "dispatched") /\ NothingStopped
       ELSE Ends(c) /\ StopAll(StoppedByRefusal(c), FALSE, {})
    /\ UNCHANGED <<stage, lease, claim, late>>

\* The journal, the drain of the executor or the frame refuses the call, or the
\* call ends in an error that stops the session.
Refused(c) ==
    /\ call[c].pc = "inside" /\ Ends(c)
    /\ NothingStopped \/ StopAll({call[c].on}, FALSE, {})
    /\ UNCHANGED <<stage, lease, claim, late>>

\* A look, under the lease or at a background window, has its image.
Look(c) ==
    /\ call[c].pc = "inside" /\ call[c].kind = "view" /\ lease = NoOne
    /\ Ends(c) /\ NothingStopped
    /\ UNCHANGED <<stage, lease, claim, late>>

Arm(c) ==
    /\ call[c].pc = "dispatched" /\ call[c].kind = "arm" /\ Ends(c)
    /\ IF Authorized(c)
       THEN /\ session' = [session EXCEPT ![call[c].on].armed = TRUE, ![call[c].on].fresh = TRUE]
            /\ armedBy' = [armedBy EXCEPT ![call[c].on] = c]
            /\ UNCHANGED overtaken
       ELSE NothingStopped
    /\ UNCHANGED <<stage, lease, claim, late>>

Act(c) ==
    /\ call[c].pc = "dispatched" /\ call[c].kind = "act"
    /\ IF Authorized(c) THEN Step(c, "leasing") /\ NothingStopped
       ELSE Ends(c) /\ StopAll(StoppedByRefusal(c), FALSE, {})
    /\ UNCHANGED <<stage, lease, claim, late>>

Hold(c) ==
    /\ call[c].pc = "leasing" /\ lease = NoOne
    /\ lease' = c /\ Step(c, "checking") /\ NothingStopped
    /\ UNCHANGED <<stage, claim, late>>

\* NativeDesktop.act fails: what is pressed is released, the lease given back,
\* and the session stopped.
Fail(c) ==
    /\ call[c].pc \in {"leasing", "checking"}
    /\ Ends(c) /\ StopAll({call[c].on}, FALSE, {})
    /\ lease' = IF lease = c THEN NoOne ELSE lease
    /\ UNCHANGED <<stage, claim, late>>

\* claim_window: the first writer owns the window until its task has ended.
Claimable(w) == claim \notin {NoOne, w} => stage[claim] = "closed"

\* Mutant: the control is only checked when the call begins.
CheckOnce(c) ==
    /\ call[c].pc = "checking" /\ Claimable(Wf(c)) /\ stage[Wf(c)] # "closed"
    /\ call[c].inputs = 0 => Authorized(c)
    /\ Step(c, "sending") /\ claim' = Wf(c)
    /\ NothingStopped /\ UNCHANGED <<stage, lease, late>>

\* _guard and _authorize before the next event: the window is claimed.
Check(c) ==
    /\ call[c].pc = "checking" /\ Claimable(Wf(c)) /\ stage[Wf(c)] # "closed"
    /\ Authorized(c) /\ Step(c, "sending") /\ claim' = Wf(c)
    /\ NothingStopped /\ UNCHANGED <<stage, lease, late>>

HasAuthority(c) == c \notin overtaken /\ Armed(c)

\* One event: a character, a wheel step or a move, or a button or key going down.
Send(c, down) ==
    /\ call[c].pc = "sending" /\ call[c].inputs < MaxInputs
    /\ call' = [call EXCEPT ![c].pc = "checking", ![c].inputs = @ + 1, ![c].pressed = @ \/ down]
    /\ late' = IF HasAuthority(c) THEN late ELSE [late EXCEPT ![c] = @ + 1]
    /\ NothingStopped /\ UNCHANGED <<stage, writer, lease, claim>>

Release(c) ==
    /\ call[c].pc = "sending" /\ call[c].pressed
    /\ call' = [call EXCEPT ![c].pc = "checking", ![c].pressed = FALSE]
    /\ NothingStopped /\ UNCHANGED <<stage, writer, lease, claim, late>>

Finish(c) ==
    /\ call[c].pc = "checking" /\ ~call[c].pressed /\ call[c].inputs > 0
    /\ lease' = NoOne /\ Step(c, "finishing")
    /\ NothingStopped /\ UNCHANGED <<stage, claim, late>>

\* Success keeps the session armed, if it still is, under the same epoch.
Extend(c) ==
    /\ call[c].pc = "finishing" /\ Ends(c)
    /\ LET s == session[call[c].on]
       IN session' = IF s.armed /\ s.epoch = call[c].epoch
                     THEN [session EXCEPT ![call[c].on].fresh = TRUE] ELSE session
    /\ UNCHANGED <<overtaken, armedBy, stage, lease, claim, late>>

Lapse(u) ==
    /\ session[u].armed /\ session[u].fresh
    /\ session' = [session EXCEPT ![u].fresh = FALSE]
    /\ UNCHANGED <<call, stage, writer, lease, claim, overtaken, armedBy, late>>

Expire(u) ==
    /\ session[u].listed /\ ~session[u].expired
    /\ session' = [session EXCEPT ![u].expired = TRUE]
    /\ UNCHANGED <<call, stage, writer, lease, claim, overtaken, armedBy, late>>

\* revoke_owner: a resumption has replaced the credential, or an end begins.
Revoke(w) ==
    /\ Listed(w) # {} /\ StopAll(Listed(w) \cup Prunable, TRUE, Listed(w) \cup Prunable)
    /\ UNCHANGED <<call, stage, writer, lease, claim, late>>

\* The registry fences the workflow, waits for its calls, then ends its task,
\* whose claims are deleted, and closes its sessions.
Fence(w) ==
    /\ stage[w] = "active" /\ stage' = [stage EXCEPT ![w] = "closing"]
    /\ NothingStopped /\ UNCHANGED <<call, writer, lease, claim, late>>
CloseOwner(w) ==
    /\ stage[w] = "closing" /\ ~\E c \in Calls : Inside(c) /\ Wf(c) = w
    /\ stage' = [stage EXCEPT ![w] = "closed"]
    /\ claim' = IF claim = w THEN NoOne ELSE claim
    /\ StopAll(Listed(w) \cup Prunable, TRUE, Listed(w) \cup Prunable)
    /\ UNCHANGED <<call, writer, lease, late>>

\* A window tool of w that the executor runs, under hold_async, claims the window.
UpstreamHolds(w) ==
    /\ lease = NoOne /\ stage[w] # "closed" /\ Claimable(w)
    /\ lease' = Upstream /\ claim' = w
    /\ NothingStopped /\ UNCHANGED <<call, stage, writer, late>>
UpstreamLeaves ==
    /\ lease = Upstream /\ lease' = NoOne
    /\ NothingStopped /\ UNCHANGED <<call, stage, writer, claim, late>>

Next ==
    \/ \E w \in Workflows : Revoke(w) \/ Fence(w) \/ CloseOwner(w) \/ UpstreamHolds(w)
    \/ \E w \in Workflows, u \in Sessions : Open(w, u)
    \/ \E u \in Sessions : Lapse(u) \/ Expire(u)
    \/ \E c \in Calls :
         \/ \E k \in Kinds, u \in Sessions : Enter(c, k, u)
         \/ Turned(c) \/ Use(c) \/ Admit(c) \/ Refused(c) \/ Look(c) \/ Arm(c) \/ Act(c)
         \/ Hold(c) \/ Fail(c) \/ Check(c) \/ Release(c) \/ Finish(c) \/ Extend(c)
         \/ \E down \in BOOLEAN : Send(c, down)
    \/ Prune \/ UpstreamLeaves

Spec == Init /\ [][Next]_vars

\* A call whose session was stopped, disarmed, replaced or closed since it began,
\* or whose arm has lapsed, sends at most the one event it had already been
\* allowed, and never leaves its session armed; while a button or a key is down,
\* the call that pressed it holds the desktop and the window is its workflow's.
ControlEndsWhenRevoked ==
    /\ \A c \in Calls : late[c] <= 1
    /\ \A u \in Sessions : session[u].armed => armedBy[u] \notin overtaken
    /\ \A c \in Calls : call[c].pressed => lease = c /\ claim = Wf(c) /\ stage[Wf(c)] # "closed"
=============================================================================
