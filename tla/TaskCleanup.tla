---------------------------- MODULE TaskCleanup -----------------------------
(***************************************************************************)
(* What a desktop task owns and how it gives everything back: the task     *)
(* store (its fence and owned jobs), the browser manager's sessions and    *)
(* the WebView2 manager's instances, composed as the program composes      *)
(* them: TaskStore.end runs BrowserManager.end_task as its hook, which     *)
(* ends with HybridManager.end_task.                                       *)
(*                                                                         *)
(* Per task there is one thread starting a session, one thread using it    *)
(* and one thread ending the task; ends of the same task are serialised by *)
(* its end lock and may be repeated.  TaskStore._lock, BrowserManager.lock *)
(* and HybridManager._lock protect single steps; session.lock spans        *)
(* several and is the variable "holder".  Closing a job or a worker may    *)
(* fail, MaxFaults times in all.                                           *)
(***************************************************************************)
EXTENDS Naturals, FiniteSets

CONSTANTS Tasks,
          MaxSessions,   \* config max_sessions
          MaxManaged,    \* HybridManager.max_managed
          MaxFaults      \* bound: failed cleanups

VARIABLES
    status,    \* task.json: "active" or "ended"
    ending,    \* TaskStore._ending
    jobs,      \* TaskStore._owned_jobs whose processes run: "app", "tree"
    orphans,   \* tasks whose processes survived the host that owned them
    refusing,  \* BrowserManager.ending
    session,   \* BrowserManager.sessions: "none" when the owner has no session
    holder,    \* who holds session.lock
    worker,    \* session.worker: its process
    pending, instance, failed,   \* HybridManager: _pending, instances, _failed_launches
    starter, ender,              \* where BrowserManager.start and TaskStore.end are
    erred,     \* a hook of the running end failed
    faults

hybrid == <<pending, instance, failed>>
vars == <<status, ending, jobs, orphans, refusing, session, holder, worker, hybrid,
          starter, ender, erred, faults>>

TypeOK ==
    /\ status \in [Tasks -> {"active", "ended"}]
    /\ {ending, orphans, refusing, pending, failed, erred} \subseteq SUBSET Tasks
    /\ jobs \in [Tasks -> SUBSET {"app", "tree"}]
    /\ session \in [Tasks -> {"none", "starting", "active", "cleanup_failed"}]
    /\ holder \in [Tasks -> {"none", "start", "call", "end"}]
    /\ worker \in [Tasks -> {"none", "alive", "closed"}]
    /\ instance \in [Tasks -> {"none", "managed", "attached"}]
    /\ starter \in [Tasks -> {"idle", "checked", "reserved", "launch", "pending", "launched",
                              "unpend", "worker", "boot", "close"}]
    /\ ender \in [Tasks -> {"idle", "hooks", "unblock", "wait", "close", "hybrid", "jobs"}]
    /\ faults \in 0..MaxFaults

Init ==
    /\ status = [t \in Tasks |-> "active"]
    /\ ending = {} /\ orphans = {} /\ refusing = {} /\ erred = {}
    /\ jobs = [t \in Tasks |-> {}]
    /\ session = [t \in Tasks |-> "none"]
    /\ holder = [t \in Tasks |-> "none"]
    /\ worker = [t \in Tasks |-> "none"]
    /\ pending = {} /\ failed = {} /\ instance = [t \in Tasks |-> "none"]
    /\ starter = [t \in Tasks |-> "idle"]
    /\ ender = [t \in Tasks |-> "idle"]
    /\ faults = 0

-----------------------------------------------------------------------------
(* TaskStore.require, and BrowserManager._task on top of it. *)
Usable(t) == status[t] = "active" /\ t \notin ending /\ t \notin orphans
Admitted(t) == Usable(t) /\ t \notin refusing

Fault == faults < MaxFaults /\ faults' = faults + 1

(* Closing owned jobs: they are terminated, or this fails and they stay. *)
CloseJobs(t, names) ==
    \/ jobs' = [jobs EXCEPT ![t] = @ \ names] /\ UNCHANGED faults
    \/ jobs[t] \cap names # {} /\ Fault /\ UNCHANGED jobs

Live(t) == instance[t] # "none" \/ t \in pending \/ t \in failed

(* TaskStore.spawn_owned for an application of the task. *)
LaunchApp(t) ==
    /\ Usable(t)
    /\ jobs' = [jobs EXCEPT ![t] = @ \cup {"app"}]
    /\ UNCHANGED <<status, ending, orphans, refusing, session, holder, worker, hybrid,
                   starter, ender, erred, faults>>

-----------------------------------------------------------------------------
(* BrowserManager._close: the worker, then the WebView2 instance, then the  *)
(* session; a failure leaves what is left to a later close.                 *)
CloseSession(t) ==
    \/ /\ worker' = [worker EXCEPT ![t] = "none"]
       /\ instance' = [instance EXCEPT ![t] = "none"]
       /\ jobs' = IF instance[t] = "managed" THEN [jobs EXCEPT ![t] = @ \ {"tree"}] ELSE jobs
       /\ session' = [session EXCEPT ![t] = "none"]
       /\ UNCHANGED faults
    \/ /\ worker[t] # "none" /\ Fault
       /\ session' = [session EXCEPT ![t] = "cleanup_failed"]
       /\ UNCHANGED <<worker, instance, jobs>>
    \/ /\ instance[t] = "managed" /\ "tree" \in jobs[t] /\ Fault
       /\ worker' = [worker EXCEPT ![t] = IF @ = "none" THEN @ ELSE "closed"]
       /\ UNCHANGED <<session, instance, jobs>>
Closed(t) == session'[t] = "none"

At(t, here) == starter[t] = here
GoTo(t, there) == starter' = [starter EXCEPT ![t] = there]
Elsewhere == UNCHANGED <<status, ending, orphans, refusing, ender, erred>>

(* start: a first look at the task, while the profile is loaded. *)
StartCheck(t) ==
    /\ At(t, "idle") /\ Admitted(t)
    /\ GoTo(t, "checked")
    /\ Elsewhere /\ UNCHANGED <<jobs, session, holder, worker, hybrid, faults>>

CountSessions == Cardinality({u \in Tasks : session[u] # "none"})

\* Mutant: the task is not looked at again under the lock.
StartReserveUnchecked(t) ==
    /\ At(t, "checked")
    /\ IF session[t] = "none" /\ CountSessions < MaxSessions
         THEN /\ session' = [session EXCEPT ![t] = "starting"]
              /\ holder' = [holder EXCEPT ![t] = "start"]
              /\ GoTo(t, "reserved")
         ELSE GoTo(t, "idle") /\ UNCHANGED <<session, holder>>
    /\ Elsewhere /\ UNCHANGED <<jobs, worker, hybrid, faults>>

(* Under the manager's lock: the task again, the limits, and the session.   *)
StartReserve(t) ==
    /\ At(t, "checked")
    /\ IF Admitted(t) /\ session[t] = "none" /\ CountSessions < MaxSessions
         THEN /\ session' = [session EXCEPT ![t] = "starting"]
              /\ holder' = [holder EXCEPT ![t] = "start"]
              /\ GoTo(t, "reserved")
         ELSE GoTo(t, "idle") /\ UNCHANGED <<session, holder>>
    /\ Elsewhere /\ UNCHANGED <<jobs, worker, hybrid, faults>>

\* Mutant: giving up keeps the session lock.
StartAbandonHolding(t) ==
    /\ At(t, "reserved")
    /\ GoTo(t, "idle")
    /\ Elsewhere /\ UNCHANGED <<holder, jobs, session, worker, hybrid, faults>>

(* start gives up after reserving: _task refuses, or the journal does. The  *)
(* session stays behind for a close by the client or the end of the task.   *)
StartAbandon(t) ==
    /\ At(t, "reserved")
    /\ GoTo(t, "idle")
    /\ holder' = [holder EXCEPT ![t] = "none"]
    /\ Elsewhere /\ UNCHANGED <<jobs, session, worker, hybrid, faults>>

(* launch(): a browser of its own, or one inside a WebView2 application. *)
StartLaunch(t) ==
    /\ At(t, "reserved") /\ Admitted(t)
    /\ \E there \in {"launch", "worker"} : GoTo(t, there)
    /\ Elsewhere /\ UNCHANGED <<jobs, session, holder, worker, hybrid, faults>>

CountManaged ==
    Cardinality({u \in Tasks : instance[u] = "managed"}) + Cardinality(pending)
        + Cardinality(failed)

\* Mutant: failed launches do not count.
ReserveForgettingFailures(t) ==
    /\ At(t, "launch")
    /\ IF Usable(t) /\ CountManaged - Cardinality(failed) < MaxManaged
         THEN pending' = pending \cup {t} /\ GoTo(t, "pending")
         ELSE GoTo(t, "close") /\ UNCHANGED pending
    /\ Elsewhere /\ UNCHANGED <<jobs, session, holder, worker, instance, failed, faults>>

(* _reserve_managed: live, pending and failed launches count. *)
ReserveManaged(t) ==
    /\ At(t, "launch")
    /\ IF Usable(t) /\ CountManaged < MaxManaged /\ ~Live(t)
         THEN pending' = pending \cup {t} /\ GoTo(t, "pending")
         ELSE GoTo(t, "close") /\ UNCHANGED pending
    /\ Elsewhere /\ UNCHANGED <<jobs, session, holder, worker, instance, failed, faults>>

(* HybridPlatform.launch: the store admits and owns the process, or the     *)
(* launch fails; a process it could not stop again is left to the store.    *)
LaunchTree(t) ==
    /\ At(t, "pending")
    /\ \/ /\ Usable(t)
          /\ jobs' = [jobs EXCEPT ![t] = @ \cup {"tree"}]
          /\ GoTo(t, "launched") /\ UNCHANGED <<pending, faults>>
       \/ /\ pending' = pending \ {t} /\ GoTo(t, "close")
          /\ \/ UNCHANGED <<jobs, faults>>
             \/ Usable(t) /\ Fault /\ jobs' = [jobs EXCEPT ![t] = @ \cup {"app"}]
    /\ Elsewhere /\ UNCHANGED <<session, holder, worker, instance, failed>>

(* The launched application proves its identity in time and the task is     *)
(* still admitted: it becomes an instance.  Otherwise it is terminated, or  *)
(* kept as a failed launch.                                                 *)
AcceptTree(t) ==
    /\ At(t, "launched") /\ Usable(t)
    /\ instance' = [instance EXCEPT ![t] = "managed"]
    /\ pending' = pending \ {t}
    /\ GoTo(t, "worker")
    /\ Elsewhere /\ UNCHANGED <<jobs, session, holder, worker, failed, faults>>

\* Mutant: a launch that could not be stopped is forgotten.
RejectTreeForgotten(t) ==
    /\ At(t, "launched")
    /\ CloseJobs(t, {"tree"})
    /\ pending' = pending \ {t}
    /\ GoTo(t, "close")
    /\ Elsewhere /\ UNCHANGED <<failed, session, holder, worker, instance>>

RejectTree(t) ==
    /\ At(t, "launched")
    /\ CloseJobs(t, {"tree"})
    /\ failed' = IF "tree" \in jobs'[t] THEN failed \cup {t} ELSE failed
    /\ pending' = pending \ {t}
    /\ GoTo(t, "close")
    /\ Elsewhere /\ UNCHANGED <<session, holder, worker, instance>>

(* attach_existing adopts an application that runs already and is not owned. *)
AttachTree(t) ==
    /\ At(t, "launch")
    /\ IF Usable(t) /\ instance[t] = "none"
         THEN instance' = [instance EXCEPT ![t] = "attached"] /\ GoTo(t, "worker")
         ELSE GoTo(t, "close") /\ UNCHANGED instance
    /\ Elsewhere /\ UNCHANGED <<jobs, session, holder, worker, pending, failed, faults>>

(* The worker process starts and the task is looked at again. *)
StartWorker(t) ==
    /\ At(t, "worker")
    /\ \/ worker' = [worker EXCEPT ![t] = "alive"]
          /\ GoTo(t, IF Admitted(t) THEN "boot" ELSE "close")
       \/ UNCHANGED worker /\ GoTo(t, "close")
    /\ Elsewhere /\ UNCHANGED <<jobs, session, holder, hybrid, faults>>

(* The worker answers the boot call, unless it was closed meanwhile. *)
StartBooted(t) ==
    /\ At(t, "boot")
    /\ \/ /\ worker[t] = "alive"
          /\ session' = [session EXCEPT ![t] = "active"]
          /\ holder' = [holder EXCEPT ![t] = "none"]
          /\ GoTo(t, "idle")
       \/ GoTo(t, "close") /\ UNCHANGED <<session, holder>>
    /\ Elsewhere /\ UNCHANGED <<jobs, worker, hybrid, faults>>

(* Every failure of launch() closes the session, and the lock is given up. *)
StartClose(t) ==
    /\ At(t, "close")
    /\ CloseSession(t)
    /\ holder' = [holder EXCEPT ![t] = "none"]
    /\ GoTo(t, "idle")
    /\ Elsewhere /\ UNCHANGED <<pending, failed>>

-----------------------------------------------------------------------------
(* request and read: under session.lock, the task is looked at and the      *)
(* worker called; a dead worker, or the close operation, closes the session. *)
CallBegin(t) ==
    /\ holder[t] = "none" /\ session[t] # "none" /\ Admitted(t)
    /\ holder' = [holder EXCEPT ![t] = "call"]
    /\ Elsewhere /\ UNCHANGED <<starter, jobs, session, worker, hybrid, faults>>

CallEnd(t) ==
    /\ holder[t] = "call"
    /\ holder' = [holder EXCEPT ![t] = "none"]
    /\ \/ CloseSession(t)
       \/ UNCHANGED <<worker, instance, jobs, session, faults>>
    /\ Elsewhere /\ UNCHANGED <<starter, pending, failed>>

-----------------------------------------------------------------------------
EndAt(t, here) == ender[t] = here
EndGoTo(t, there) == ender' = [ender EXCEPT ![t] = there]
EndElsewhere == UNCHANGED <<orphans, starter>>

(* TaskStore.end fences the task. *)
EndFence(t) ==
    /\ EndAt(t, "idle") /\ status[t] = "active" /\ t \notin orphans
    /\ ending' = ending \cup {t}
    /\ erred' = erred \ {t}
    /\ EndGoTo(t, "hooks")
    /\ EndElsewhere
    /\ UNCHANGED <<status, jobs, refusing, session, holder, worker, hybrid, faults>>

(* BrowserManager.end_task refuses the owner and lists its sessions, *)
EndList(t) ==
    /\ EndAt(t, "hooks")
    /\ refusing' = refusing \cup {t}
    /\ EndGoTo(t, IF session[t] = "none" THEN "hybrid" ELSE "unblock")
    /\ EndElsewhere
    /\ UNCHANGED <<status, ending, erred, jobs, session, holder, worker, hybrid, faults>>

(* closes the worker under the thread that may be waiting for it,           *)
EndUnblock(t) ==
    /\ EndAt(t, "unblock")
    /\ \/ worker' = [worker EXCEPT ![t] = IF @ = "none" THEN @ ELSE "closed"] /\ UNCHANGED faults
       \/ worker[t] = "alive" /\ Fault /\ UNCHANGED worker
    /\ EndGoTo(t, "wait")
    /\ EndElsewhere
    /\ UNCHANGED <<status, ending, erred, jobs, refusing, session, holder, hybrid>>

(* takes the session's lock                                                 *)
EndLock(t) ==
    /\ EndAt(t, "wait") /\ holder[t] = "none"
    /\ holder' = [holder EXCEPT ![t] = "end"]
    /\ EndGoTo(t, "close")
    /\ EndElsewhere
    /\ UNCHANGED <<status, ending, erred, jobs, refusing, session, worker, hybrid, faults>>

(* and closes the session; when that fails the hook ends here.              *)
EndClose(t) ==
    /\ EndAt(t, "close")
    /\ CloseSession(t)
    /\ holder' = [holder EXCEPT ![t] = "none"]
    /\ IF Closed(t)
         THEN EndGoTo(t, "hybrid") /\ UNCHANGED erred
         ELSE EndGoTo(t, "jobs") /\ erred' = erred \cup {t}
    /\ EndElsewhere
    /\ UNCHANGED <<status, ending, refusing, pending, failed>>

(* HybridManager.end_task: instances are released and failed launches       *)
(* retried.                                                                 *)
EndHybrid(t) ==
    /\ EndAt(t, "hybrid")
    /\ IF t \in pending
         THEN erred' = erred \cup {t} /\ UNCHANGED <<jobs, instance, failed, faults>>
         ELSE /\ CloseJobs(t, IF instance[t] = "managed" \/ t \in failed THEN {"tree"} ELSE {})
              /\ IF "tree" \in jobs'[t]
                   THEN erred' = erred \cup {t} /\ UNCHANGED <<instance, failed>>
                   ELSE /\ instance' = [instance EXCEPT ![t] = "none"]
                        /\ failed' = failed \ {t}
                        /\ UNCHANGED erred
    /\ EndGoTo(t, "jobs")
    /\ EndElsewhere
    /\ UNCHANGED <<status, ending, refusing, session, holder, worker, pending>>

\* Mutant: the task ends whatever its hooks did.
EndJobsIgnoringHooks(t) ==
    /\ EndAt(t, "jobs")
    /\ CloseJobs(t, {"app", "tree"})
    /\ IF jobs'[t] # {}
         THEN UNCHANGED <<status, ending>>
         ELSE /\ status' = [status EXCEPT ![t] = "ended"]
              /\ ending' = ending \ {t}
    /\ EndGoTo(t, "idle")
    /\ EndElsewhere
    /\ UNCHANGED <<erred, refusing, session, holder, worker, hybrid>>

(* Back in TaskStore.end: whatever the hooks did, the owned jobs are closed; *)
(* after any error the task stays active and fenced, to be ended again.      *)
EndJobs(t) ==
    /\ EndAt(t, "jobs")
    /\ CloseJobs(t, {"app", "tree"})
    /\ IF jobs'[t] # {} \/ t \in erred
         THEN UNCHANGED <<status, ending>>
         ELSE /\ status' = [status EXCEPT ![t] = "ended"]
              /\ ending' = ending \ {t}
    /\ EndGoTo(t, "idle")
    /\ EndElsewhere
    /\ UNCHANGED <<erred, refusing, session, holder, worker, hybrid>>

-----------------------------------------------------------------------------
\* Mutant: surviving processes are not looked for.
RecoveredBlindly(alive) == [t \in Tasks |-> "ended"]

(* The host dies: the jobs end what they own, though not before the next    *)
(* host looks.  Its recovery ends the tasks whose processes are gone and    *)
(* never terminates a process it finds.                                     *)
Recovered(alive) ==
    [t \in Tasks |-> IF t \in alive THEN status[t] ELSE "ended"]

Restart ==
    /\ \E alive \in SUBSET {t \in Tasks : jobs[t] # {} \/ t \in orphans} :
           /\ orphans' = alive
           /\ status' = Recovered(alive)
    /\ ending' = {} /\ refusing' = {} /\ erred' = {}
    /\ jobs' = [t \in Tasks |-> {}]
    /\ session' = [t \in Tasks |-> "none"]
    /\ holder' = [t \in Tasks |-> "none"]
    /\ worker' = [t \in Tasks |-> "none"]
    /\ pending' = {} /\ failed' = {} /\ instance' = [t \in Tasks |-> "none"]
    /\ starter' = [t \in Tasks |-> "idle"]
    /\ ender' = [t \in Tasks |-> "idle"]
    /\ UNCHANGED faults

Starting(t) ==
    \/ StartReserve(t) \/ StartAbandon(t) \/ StartLaunch(t)
    \/ ReserveManaged(t) \/ LaunchTree(t) \/ AcceptTree(t) \/ RejectTree(t) \/ AttachTree(t)
    \/ StartWorker(t) \/ StartBooted(t) \/ StartClose(t)
Ending(t) ==
    \/ EndList(t) \/ EndUnblock(t) \/ EndLock(t) \/ EndClose(t) \/ EndHybrid(t) \/ EndJobs(t)

Next ==
    \/ \E t \in Tasks :
           \/ LaunchApp(t) \/ StartCheck(t) \/ Starting(t) \/ CallBegin(t) \/ CallEnd(t)
           \/ EndFence(t) \/ Ending(t)
    \/ Restart

Spec == Init /\ [][Next]_vars

(* A thread inside a start, a call or an end goes on: launches, readiness   *)
(* and worker calls all have deadlines.  The lock it waits for is handed to  *)
(* it in the end.                                                           *)
FairSpec ==
    /\ Spec
    /\ \A t \in Tasks : /\ WF_vars(Starting(t)) /\ WF_vars(CallEnd(t))
                        /\ WF_vars(Ending(t)) /\ SF_vars(EndLock(t))

-----------------------------------------------------------------------------
(* A task that ended owns nothing: no session, worker, WebView2 instance or *)
(* process started before, during or after its end is left behind, in this  *)
(* host or from the one before (task_store.py end, recover_context).        *)
EndedOwnsNothing ==
    \A t \in Tasks : status[t] = "ended" =>
        /\ session[t] = "none" /\ worker[t] = "none"
        /\ ~Live(t) /\ jobs[t] = {} /\ t \notin orphans

(* An application the WebView2 manager launched and has not stopped is in   *)
(* its books, also after a failed launch, and the books stay in the limit   *)
(* (hybrid/manager.py _reserve_managed, prepare_managed).                   *)
ManagedWithinLimit ==
    /\ \A t \in Tasks : "tree" \in jobs[t] => Live(t)
    /\ Cardinality({t \in Tasks : "tree" \in jobs[t]}) <= MaxManaged

(* TaskStore.end returns: its hooks never wait for a thread that waits for  *)
(* what the end holds (browser/manager.py end_task).                        *)
EndReturns == \A t \in Tasks : ender[t] # "idle" ~> ender[t] = "idle"
=============================================================================
