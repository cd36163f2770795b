---------------------------- MODULE ReleaseSwitch ----------------------------
(* Switching the managed service from one release to the next: the login task *)
(* is pointed at the candidate (AutostartManager.enable, personal_mcp/        *)
(* autostart.py), the old service is stopped once no workflow is active, the  *)
(* new one started, and everything rolled back when a step fails              *)
(* (scripts/switch_managed_release.py).  Meanwhile somebody else may edit the *)
(* task, clients begin and end workflows, and a stopped process takes a while *)
(* to go.                                                                     *)
(*                                                                            *)
(* task is the XML of the scheduled task; every read and write of the         *)
(* scheduler is a step of its own.  MaxTroubles bounds the failures.          *)
EXTENDS Naturals

CONSTANT MaxTroubles

VARIABLES
    pc,         \* the step of switch_release, or of the enable it runs
    task,       \* the registered XML: old, new, or another editor's
    previous,   \* what switch_release read before installing
    base,       \* what enable read before validating
    backup,     \* what enable saved in its backup file, or none
    receipt,    \* enable's register returned the XML it wrote
    restored,   \* what the rollback read back after restoring, or none
    service,    \* the release that runs, or none
    dying,      \* the service was told to stop
    flows,      \* a workflow is active
    locked,     \* quiescent holds the write lock of the workflow database
    result,
    \* history: failures so far; the edits made, and whether the last one was not
    \* read yet; an edit that was seen and is in no backup was overwritten; a stop
    \* under way was given up on; the switch ended the service under a workflow
    troubles, edited, unseen, lost, loose, killed

vars == <<pc, task, previous, base, backup, receipt, restored, service, dying, flows, locked,
          result, troubles, edited, unseen, lost, loose, killed>>

\* What another editor makes of the task: other settings, disabled, another bundle,
\* or no longer this program's (its description, its user or its configuration).
Edits == {"settings", "disabled", "target", "foreign"}
Versions == {"old", "new"} \cup Edits
Owned == Versions \ {"foreign"}                 \* _owned
Managed == Owned \ {"disabled"}                 \* ManagedRelease.task
OldBundle == {"old", "settings"}                \* ... that names the old bundle
known == <<previous, base, backup, receipt, restored>>
ghosts == <<edited, loose, killed>>
env == <<service, dying, flows>>

Pcs == {"preflight", "idle1", "previous", "status", "validate", "compare", "register", "verify", "latest",
        "undo", "undoWrite", "check", "idle2", "lock", "stop", "wait", "start", "ready",
        "rollback", "putBack", "putBackWrite", "relock", "restop", "rewait", "restore", "restoreWrite",
        "reread", "restart", "reready", "done"}

TypeOK ==
    /\ pc \in Pcs /\ task \in Versions /\ previous \in Versions /\ base \in Versions
    /\ backup \in Versions \cup {"none"} /\ restored \in Versions \cup {"none"}
    /\ receipt \in BOOLEAN /\ service \in {"none", "old", "new"} /\ dying \in BOOLEAN
    /\ flows \in BOOLEAN /\ locked \in BOOLEAN
    /\ result \in {"none", "LOCAL_READY", "ROLLED_BACK", "NOT_COMPLETED"}
    /\ troubles \in 0 .. MaxTroubles /\ edited \subseteq Edits
    /\ {unseen, lost, loose, killed} \subseteq BOOLEAN

Init ==
    /\ pc = "preflight" /\ task = "old" /\ previous = "old" /\ base = "old"
    /\ backup = "none" /\ receipt = FALSE /\ restored = "none"
    /\ service = "old" /\ dying = FALSE /\ flows \in BOOLEAN /\ locked = FALSE /\ result = "none"
    /\ troubles = 0 /\ edited = {} /\ unseen = FALSE /\ lost = FALSE /\ loose = FALSE /\ killed = FALSE

Trouble == troubles < MaxTroubles /\ troubles' = troubles + 1
NoTrouble == UNCHANGED troubles
Go(s) == pc' = s /\ UNCHANGED result
End(r) == pc' = "done" /\ result' = r
Idle == ~flows
Keeps == UNCHANGED <<task, known, locked, unseen, lost>>

\* A step that only looks, and the ways it may go; a call that fails is trouble.
Refuse(at, otherwise) == pc = at /\ Trouble /\ otherwise /\ Keeps /\ UNCHANGED <<env, ghosts>>
Look(at, good, to, otherwise) ==
    \/ /\ pc = at
       /\ IF good THEN Go(to) ELSE otherwise
       /\ NoTrouble /\ Keeps /\ UNCHANGED <<env, ghosts>>
    \/ Refuse(at, otherwise)

\* A look at the task: what somebody else made of it has been seen.
Sees(at, good, to, otherwise) ==
    /\ pc = at /\ unseen' = FALSE
    /\ IF good THEN Go(to) ELSE otherwise
    /\ NoTrouble /\ UNCHANGED <<task, locked, lost, env, ghosts>>

Preflight == \/ Sees("preflight", task \in OldBundle /\ service = "old", "idle1", End("NOT_COMPLETED"))
                /\ UNCHANGED known
             \/ Refuse("preflight", End("NOT_COMPLETED"))

\* wait_idle gives up at once when another workflow is there, or after two minutes.
WaitIdle == Look("idle1", Idle, "previous", End("NOT_COMPLETED"))
            \/ Look("idle2", Idle, "lock", Go("rollback"))

ReadPrevious ==
    \/ /\ Sees("previous", task \in Managed, "status", End("NOT_COMPLETED"))
       /\ previous' = task /\ UNCHANGED <<base, backup, receipt, restored>>
    \/ Refuse("previous", End("NOT_COMPLETED"))

-----------------------------------------------------------------------------
(* AutostartManager.enable *)

ReadBase ==
    \/ /\ Sees("status", task \in Owned, "validate", End("NOT_COMPLETED"))
       /\ base' = task /\ UNCHANGED <<previous, backup, receipt, restored>>
    \/ Refuse("status", End("NOT_COMPLETED"))

\* The package is validated, started in isolation, and validated again.
Validate == Look("validate", TRUE, "compare", End("NOT_COMPLETED"))

\* A comparison has read the task: what it differs by has been seen.
Comparison(at, expected, to, otherwise) ==
    \/ Sees(at, task = expected, to, otherwise) /\ UNCHANGED known
    \/ Refuse(at, otherwise)

\* A task that is still what enable read is saved, and may then be replaced.
Compare ==
    \/ /\ Sees("compare", task = base, "register", End("NOT_COMPLETED"))
       /\ backup' = (IF task = base THEN base ELSE backup)
       /\ UNCHANGED <<previous, base, receipt, restored>>
    \/ Refuse("compare", End("NOT_COMPLETED"))

\* A write of the task.  An edit nobody has looked at cannot be spared; one that
\* was looked at is, or it is in the backup file.
Write(x) ==
    /\ task' = x /\ unseen' = FALSE
    /\ lost' = (lost \/ (task \in Edits /\ x # task /\ backup # task /\ ~unseen))

\* A write by the scheduler succeeds, or raises with or without having happened.
WriteOr(x, good, bad) ==
    \/ Write(x) /\ good /\ NoTrouble
    \/ Write(x) /\ bad /\ Trouble
    \/ bad /\ Trouble /\ UNCHANGED <<task, lost, unseen>>

Register ==
    /\ pc = "register"
    /\ WriteOr("new", receipt' = TRUE /\ Go("verify"), UNCHANGED receipt /\ Go("latest"))
    /\ UNCHANGED <<previous, base, backup, restored, locked, env, ghosts>>

Verify == Comparison("verify", "new", "check", Go("latest"))

\* After a failure the task is read once more; only what this call wrote is undone.
Latest ==
    \/ Sees("latest", task = "new" /\ base # "new" /\ receipt, "undo", End("NOT_COMPLETED"))
       /\ UNCHANGED known
    \/ Refuse("latest", End("NOT_COMPLETED"))

\* scheduler.restore: the comparison and the write are two calls of the scheduler.
Restoring(at, x, to, otherwise) ==
    /\ pc = at /\ WriteOr(x, to, otherwise)
    /\ UNCHANGED <<known, locked, env, ghosts>>
Undo == \/ Comparison("undo", "new", "undoWrite", End("NOT_COMPLETED"))
        \/ Restoring("undoWrite", base, End("NOT_COMPLETED"), End("NOT_COMPLETED"))

Enable == ReadBase \/ Validate \/ Compare \/ Register \/ Verify \/ Latest \/ Undo

-----------------------------------------------------------------------------
(* ManagedRelease *)

Check == Comparison("check", "new", "idle2", Go("rollback"))

\* quiescent: the database is locked, and then no workflow may be active.
Lock(at, to, otherwise) ==
    /\ pc = at
    /\ \/ Idle /\ Go(to) /\ locked' = TRUE /\ NoTrouble
       \/ ~Idle /\ otherwise /\ locked' = FALSE /\ NoTrouble
       \/ otherwise /\ locked' = FALSE /\ Trouble
    /\ UNCHANGED <<task, known, unseen, lost, env, ghosts>>

\* _control(stop): the task is compared, and told to stop.  Stop may raise although
\* it was carried out, and nobody then waits for what it ends.
StopTask(at, to, otherwise) ==
    /\ pc = at /\ unseen' = FALSE
    /\ \/ /\ task = "new" /\ Go(to) /\ dying' = (service # "none")
          /\ NoTrouble /\ UNCHANGED <<locked, loose>>
       \/ /\ task = "new" /\ otherwise /\ dying' = (service # "none") /\ loose' = TRUE
          /\ locked' = FALSE /\ Trouble
       \/ /\ task # "new" /\ otherwise /\ locked' = FALSE /\ NoTrouble /\ UNCHANGED <<dying, loose>>
       \/ /\ otherwise /\ locked' = FALSE /\ Trouble /\ UNCHANGED <<dying, loose>>
    /\ UNCHANGED <<task, known, lost, service, flows, edited, killed>>

\* The process is given twenty seconds; then the task's state is read until it is idle.
WaitStopped(at, to, otherwise) ==
    /\ pc = at /\ locked' = FALSE
    /\ \/ service = "none" /\ Go(to) /\ NoTrouble /\ UNCHANGED loose
       \/ service = "none" /\ otherwise /\ Trouble /\ UNCHANGED loose
       \/ service # "none" /\ otherwise /\ Trouble /\ loose' = TRUE
    /\ UNCHANGED <<task, known, unseen, lost, env, edited, killed>>

\* _control(start) runs what the task names; the process may fail to come up, the
\* call may raise with or without having run it, and a task with another editor's
\* settings may be refused for them (TASK_INSTANCE_POLICY_CONFLICT).
StartTask(at, expected, version, to, otherwise) ==
    /\ pc = at /\ unseen' = FALSE
    /\ \/ task = expected /\ service = "none" /\ service' = version /\ Go(to) /\ NoTrouble
       \/ task = expected /\ service = "none" /\ service' \in {"none", version}
          /\ (Go(to) \/ otherwise) /\ Trouble
       \/ (task # expected \/ service # "none" \/ task \in Edits)
          /\ otherwise /\ NoTrouble /\ UNCHANGED service
       \/ otherwise /\ Trouble /\ UNCHANGED service
    /\ UNCHANGED <<task, known, locked, lost, dying, flows, ghosts>>

\* ready polls for a minute and a half, and gives up.
Ready(at, version, r, otherwise) ==
    \/ pc = at /\ service = version /\ ~dying /\ End(r) /\ NoTrouble /\ Keeps /\ UNCHANGED <<env, ghosts>>
    \/ pc = at /\ (service # version \/ dying) /\ otherwise /\ NoTrouble /\ Keeps /\ UNCHANGED <<env, ghosts>>
    \/ Refuse(at, otherwise)

Switch ==
    \/ Check
    \/ Lock("lock", "stop", Go("rollback")) \/ StopTask("stop", "wait", Go("rollback"))
    \/ WaitStopped("wait", "start", Go("rollback"))
    \/ StartTask("start", "new", "new", "ready", Go("rollback"))
    \/ Ready("ready", "new", "LOCAL_READY", Go("rollback"))

\* Before the stop only the task is put back; afterwards the service too.  A status
\* that cannot be read does not tell that the old service still runs.
Rollback ==
    \/ Sees("rollback", task = "new", IF service = "old" THEN "putBack" ELSE "relock", End("NOT_COMPLETED"))
       /\ UNCHANGED known
    \/ Refuse("rollback", End("NOT_COMPLETED") \/ (task = "new" /\ Go("relock")))

\* Mutant: the rollback overwrites the task whatever it reads there.
RestoreBlindly(at, to) == Comparison(at, task, to, FALSE)

Restore(at, to) == Comparison(at, "new", to, End("NOT_COMPLETED"))
RestoreWrite(at, to) == Restoring(at, previous, Go(to), End("NOT_COMPLETED"))

\* What was restored is read again: it must be this program's, and name the old
\* bundle (ROLLBACK_TARGET_MISMATCH), before it is run.
Reread ==
    \/ /\ Sees("reread", task \in OldBundle, "restart", End("NOT_COMPLETED"))
       /\ restored' = task /\ UNCHANGED <<previous, base, backup, receipt>>
    \/ Refuse("reread", End("NOT_COMPLETED"))

RollbackSteps ==
    \/ Rollback
    \/ Restore("putBack", "putBackWrite") \/ RestoreWrite("putBackWrite", "reready")
    \/ Restore("restore", "restoreWrite") \/ RestoreWrite("restoreWrite", "reread")
    \/ Lock("relock", "restop", End("NOT_COMPLETED")) \/ StopTask("restop", "rewait", End("NOT_COMPLETED"))
    \/ WaitStopped("rewait", "restore", End("NOT_COMPLETED"))
    \/ Reread
    \/ StartTask("restart", restored, "old", "reready", End("NOT_COMPLETED"))
    \/ Ready("reready", "old", "ROLLED_BACK", End("NOT_COMPLETED"))

-----------------------------------------------------------------------------
(* The others *)

\* Another editor writes the task, once in each way.
Edit ==
    /\ \E x \in Edits \ edited : edited' = edited \cup {x} /\ task' = x
    /\ unseen' = TRUE
    /\ UNCHANGED <<pc, known, locked, result, troubles, lost, loose, killed, env>>

\* A workflow begins or ends, which the lock on its database prevents.
Workflow ==
    /\ service # "none" /\ ~locked /\ flows' = ~flows
    /\ UNCHANGED <<pc, task, known, locked, result, troubles, unseen, lost, service, dying, ghosts>>

\* The stopped process goes; workflows that were active die with it.
ProcessEnds ==
    /\ dying /\ dying' = FALSE /\ service' = "none"
    /\ killed' = (killed \/ flows)
    /\ UNCHANGED <<pc, task, known, flows, locked, result, troubles, edited, unseen, lost, loose>>

Next == Preflight \/ WaitIdle \/ ReadPrevious \/ Enable \/ Switch \/ RollbackSteps
        \/ Edit \/ Workflow \/ ProcessEnds

Spec == Init /\ [][Next]_vars

-----------------------------------------------------------------------------
\* Work is not interrupted: the switch ends the service under an active workflow
\* only if it gave up on a stop under way, because the process outlived the time it
\* is given or because the call that stopped it raised.
WorkIsNotInterrupted == killed => loose

\* No edit disappears that was seen: a task another editor wrote is overwritten
\* only when it was written after the last look at the task before the write, or
\* as the task that enable read, compared and saved in its backup file.
EditsStand == ~lost

\* One failure, with nobody else editing and no stop given up on, leaves a service
\* running, of the release that the task names.
OneFailureIsSurvived ==
    pc = "done" /\ troubles <= 1 /\ edited = {} /\ ~loose
        => service # "none" /\ ~dying /\ (result = "NOT_COMPLETED" \/ task = service)

SwitchIsSafe == WorkIsNotInterrupted /\ EditsStand /\ OneFailureIsSurvived
=============================================================================
