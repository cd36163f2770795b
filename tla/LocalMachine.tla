---------------------------- MODULE LocalMachine -----------------------------
(* What the host does on its own machine: the life of the service, the switch *)
(* to a new release, the end of a workflow and of a task.  They share no      *)
(* state, so a behaviour is one of any of them: the components stand side by  *)
(* side, and what a property says of a component is Part!Property in its      *)
(* module.                                                                    *)
EXTENDS Naturals, FiniteSets

CONSTANTS
    MaxServiceFaults, MaxRetries,              \* of ServiceLifecycle
    MaxTroubles,                               \* of ReleaseSwitch
    BaseFiles, UpdateFiles, AppFiles, VersionFile, MaxRuns, MaxEdits,
                                               \* of PackageUpdate
    MaxCleanupFaults,                          \* of HostCleanup
    Tasks, MaxSessions, MaxManaged, MaxTaskFaults   \* of TaskCleanup

ASSUME LocalMachineAssumption ==
    /\ {MaxServiceFaults, MaxRetries, MaxTroubles, MaxRuns, MaxEdits,
        MaxCleanupFaults, MaxManaged, MaxTaskFaults} \subseteq Nat
    /\ AppFiles \subseteq BaseFiles \cup UpdateFiles
    /\ IsFiniteSet(Tasks)

VARIABLES
    part,       \* the component this behaviour is of
    owner, guard, stopping, parts, maint, serviceFailed, sup, attempt, runner,
    clients, serviceFaults, retries,
    pc, swapTask, previous, base, backup, receipt, restored, swapService,
    dying, flows, locked, result, troubles, edited, unseen, lost, loose, killed,
    tree, manifest, updateStep, left, exists, runs, edits,
    held, cleanupTask, cleanupStep, cleanupFailed, outcome, ends,
    cleanupFaults,
    status, ending, jobs, orphans, refusing, session, holder, worker, pending,
    instance, taskFailed, starter, ender, erred, taskFaults

Service == INSTANCE ServiceLifecycle WITH
    MaxFaults <- MaxServiceFaults, failed <- serviceFailed,
    faults <- serviceFaults
Switch == INSTANCE ReleaseSwitch WITH
    task <- swapTask, service <- swapService
Update == INSTANCE PackageUpdate WITH
    step <- updateStep
Cleanup == INSTANCE HostCleanup WITH
    MaxFaults <- MaxCleanupFaults, task <- cleanupTask, step <- cleanupStep,
    failed <- cleanupFailed, faults <- cleanupFaults
Task == INSTANCE TaskCleanup WITH
    MaxFaults <- MaxTaskFaults, failed <- taskFailed, faults <- taskFaults

\* A behaviour is of one component: the variables of the others are unused.
serviceVars == <<owner, guard, stopping, parts, maint, serviceFailed, sup,
                 attempt, runner, clients, serviceFaults, retries>>
swapVars == <<pc, swapTask, previous, base, backup, receipt, restored,
              swapService, dying, flows, locked, result, troubles, edited,
              unseen, lost, loose, killed>>
updateVars == <<tree, manifest, updateStep, left, exists, runs, edits>>
cleanupVars == <<held, cleanupTask, cleanupStep, cleanupFailed, outcome, ends,
                 cleanupFaults>>
taskVars == <<status, ending, jobs, orphans, refusing, session, holder,
              worker, pending, instance, taskFailed, starter, ender, erred,
              taskFaults>>
vars == <<part, serviceVars, swapVars, updateVars, cleanupVars, taskVars>>

Unused(v) == v = "unused"
NoService ==
    /\ Unused(owner) /\ Unused(guard) /\ Unused(stopping) /\ Unused(parts)
    /\ Unused(maint) /\ Unused(serviceFailed) /\ Unused(sup)
    /\ Unused(attempt) /\ Unused(runner) /\ Unused(clients)
    /\ Unused(serviceFaults) /\ Unused(retries)
NoSwitch ==
    /\ Unused(pc) /\ Unused(swapTask) /\ Unused(previous) /\ Unused(base)
    /\ Unused(backup) /\ Unused(receipt) /\ Unused(restored)
    /\ Unused(swapService) /\ Unused(dying)
    /\ Unused(flows) /\ Unused(locked) /\ Unused(result) /\ Unused(troubles)
    /\ Unused(edited) /\ Unused(unseen) /\ Unused(lost) /\ Unused(loose)
    /\ Unused(killed)
NoUpdate ==
    /\ Unused(tree) /\ Unused(manifest) /\ Unused(updateStep) /\ Unused(left)
    /\ Unused(exists) /\ Unused(runs) /\ Unused(edits)
NoCleanup ==
    /\ Unused(held) /\ Unused(cleanupTask) /\ Unused(cleanupStep)
    /\ Unused(cleanupFailed) /\ Unused(outcome) /\ Unused(ends)
    /\ Unused(cleanupFaults)
NoTask ==
    /\ Unused(status) /\ Unused(ending) /\ Unused(jobs) /\ Unused(orphans)
    /\ Unused(refusing) /\ Unused(session) /\ Unused(holder) /\ Unused(worker)
    /\ Unused(pending) /\ Unused(instance) /\ Unused(taskFailed)
    /\ Unused(starter) /\ Unused(ender) /\ Unused(erred) /\ Unused(taskFaults)

Init ==
    \/ part = "service" /\ Service!Init
       /\ NoSwitch /\ NoUpdate /\ NoCleanup /\ NoTask
    \/ part = "swap" /\ Switch!Init
       /\ NoService /\ NoUpdate /\ NoCleanup /\ NoTask
    \/ part = "update" /\ Update!Init
       /\ NoService /\ NoSwitch /\ NoCleanup /\ NoTask
    \/ part = "cleanup" /\ Cleanup!Init
       /\ NoService /\ NoSwitch /\ NoUpdate /\ NoTask
    \/ part = "task" /\ Task!Init
       /\ NoService /\ NoSwitch /\ NoUpdate /\ NoCleanup

Next ==
    \/ /\ part = "service" /\ Service!Next
       /\ UNCHANGED <<part, swapVars, updateVars, cleanupVars, taskVars>>
    \/ /\ part = "swap" /\ Switch!Next
       /\ UNCHANGED <<part, serviceVars, updateVars, cleanupVars, taskVars>>
    \/ /\ part = "update" /\ Update!Next
       /\ UNCHANGED <<part, serviceVars, swapVars, cleanupVars, taskVars>>
    \/ /\ part = "cleanup" /\ Cleanup!Next
       /\ UNCHANGED <<part, serviceVars, swapVars, updateVars, taskVars>>
    \/ /\ part = "task" /\ Task!Next
       /\ UNCHANGED <<part, serviceVars, swapVars, updateVars, cleanupVars>>

Spec == Init /\ [][Next]_vars

\* The supervisor's threads run; a thread inside a start, a call or an end goes
\* on, since launches and worker calls have deadlines, and gets the lock it
\* waits for in the end.
FairSpec ==
    /\ Spec
    /\ WF_serviceVars(part = "service" /\ Service!Begin)
    /\ WF_serviceVars(part = "service" /\ Service!Due)
    /\ WF_serviceVars(part = "service" /\ Service!Attempt)
    /\ \A t \in Tasks : /\ WF_taskVars(part = "task" /\ Task!Starting(t))
                        /\ WF_taskVars(part = "task" /\ Task!CallEnd(t))
                        /\ WF_taskVars(part = "task" /\ Task!Ending(t))
                        /\ SF_taskVars(part = "task" /\ Task!EndLock(t))

------------------------------------------------------------------------------
\* Nothing of a service runs that its instance lock does not cover, whatever
\* failed in a start or a stop (service.py, tunnel_supervisor.py).
LockCoversEverything == part = "service" => Service!TypeOK /\ Service!LockCoversEverything

\* A retry of the tunnel that was accepted is acted on, unless it is stopped
\* (tunnel_supervisor.py retry).
RetryIsHeard ==
    (part = "service" /\ sup.refresh)
        ~> (part = "service" => ~sup.refresh \/ sup.stop)

\* A package that may be switched to is a whole release.  A switch interrupts no
\* work unless it gave up on a stop under way, overwrites no edit of the task that
\* it has seen and not saved, and leaves no service down for one failure
\* (prepare_update.py, switch_managed_release.py).
UpdatesAreSafe ==
    CASE part = "update" -> Update!TypeOK /\ Update!SwitchedIsWhole
      [] part = "swap" -> Switch!TypeOK /\ Switch!SwitchIsSafe
      [] OTHER -> TRUE

\* A task that ended owns no session, worker, application or process, and the
\* applications launched stay within their limit; the end of a workflow goes on
\* behind a step that failed, and is whole once nothing failed (task_store.py,
\* browser/manager.py, hybrid/manager.py, host.py WorkflowResources.close).
EndsAreWhole ==
    CASE part = "task" -> Task!TypeOK /\ Task!EndedOwnsNothing /\ Task!ManagedWithinLimit
      [] part = "cleanup" -> Cleanup!CleanupGoesOn
      [] OTHER -> TRUE

\* The end of a task returns: its hooks and those who start something for it
\* never wait for each other (browser/manager.py end_task).
EndReturns ==
    \A t \in Tasks :
        (part = "task" /\ ender[t] # "idle") ~> (part = "task" => ender[t] = "idle")
==============================================================================
