-------------------------- MODULE ServiceLifecycle --------------------------
(* One installation: the local service that starts and stops its parts under  *)
(* an instance lock (personal_mcp/service.py), the supervisor that keeps one  *)
(* tunnel client alive (tunnel_supervisor.py) and the runner that owns its    *)
(* process (tunnel.py).  The owner's thread starts and stops; the supervisor's*)
(* worker starts attempts, one at a time; an HTTP request may ask for a retry *)
(* at any moment; the maintenance thread runs on its own.                     *)
(*                                                                            *)
(* MaxFaults bounds the failures (of a start, a cleanup, the client itself),  *)
(* MaxRetries the retries requested.  Time is the event Due.                  *)
EXTENDS Naturals

CONSTANTS MaxFaults, MaxRetries

VARIABLES
    owner,      \* where start or stop of the owner's thread is
    guard,      \* the InstanceLock is held
    stopping,   \* LocalService.stopping
    parts,      \* of {"runtime", "server"}: those that exist
    maint,      \* the maintenance thread: none, running, ended
    failed,     \* errors collected by the stop under way
    sup,        \* the TunnelSupervisor, if there is one
    attempt,    \* where the supervisor's recovery attempt is
    runner,     \* none, or the TunnelRunner: fresh or with its process
    clients,    \* tunnel client processes that run
    faults, retries

vars == <<owner, guard, stopping, parts, maint, failed, sup, attempt, runner, clients, faults, retries>>
service == <<owner, guard, stopping, parts, maint, failed>>

Stages == {"down", "files", "runtime", "server", "tunnel", "status", "maintenance", "up",
           "closeTunnel", "joinAttempt", "dispose", "joinMaintenance", "closeServer", "closeRuntime", "release"}
Steps == {"off", "begin", "refresh", "fresh", "observe", "failing", "ending"}

TypeOK ==
    /\ owner \in Stages /\ guard \in BOOLEAN /\ stopping \in BOOLEAN
    /\ parts \subseteq {"runtime", "server"}
    /\ maint \in {"none", "running", "ended"} /\ failed \in BOOLEAN
    /\ sup \in [made: BOOLEAN, stop: BOOLEAN, blocked: BOOLEAN, refresh: BOOLEAN, due: BOOLEAN]
    /\ attempt \in Steps /\ runner \in {"none", "fresh", "started"}
    /\ clients \in Nat /\ faults \in 0 .. MaxFaults /\ retries \in 0 .. MaxRetries

NoSupervisor == [made |-> FALSE, stop |-> FALSE, blocked |-> FALSE, refresh |-> FALSE, due |-> TRUE]

Init ==
    /\ owner = "down" /\ guard = FALSE /\ stopping = FALSE /\ parts = {} /\ maint = "none" /\ failed = FALSE
    /\ sup = NoSupervisor /\ attempt = "off" /\ runner = "none" /\ clients = 0
    /\ faults = 0 /\ retries = 0

Fault == faults < MaxFaults /\ faults' = faults + 1
tunnel == <<sup, attempt, runner, clients>>

-----------------------------------------------------------------------------
(* TunnelSupervisor *)

\* _dispose: the runner closes its job, waits for the process, gives up its lock.
Disposed == runner' = "none" /\ clients' = 0 /\ UNCHANGED faults
\* It fails half way: the process may be gone, but the runner stays.
DisposeFails ==
    /\ runner # "none" /\ Fault /\ UNCHANGED runner
    /\ clients' \in {clients, 0}

Block(b) == IF sup.stop THEN sup' = sup
            ELSE sup' = [sup EXCEPT !.blocked = b, !.due = b]      \* a retry later, or none

\* Mutant: an attempt begins although the last client has not ended.
BeginUnblocked ==
    /\ sup.made /\ ~sup.stop /\ sup.due /\ ~sup.blocked
    /\ attempt = "off" /\ attempt' = "begin"
    /\ UNCHANGED <<service, sup, runner, clients, faults, retries>>

\* _run: a new attempt, unless one runs, the tunnel is blocked or none is due.
Begin ==
    /\ sup.made /\ ~sup.stop /\ sup.due /\ (sup.blocked => sup.refresh)
    /\ attempt = "off" /\ attempt' = "begin"
    /\ UNCHANGED <<service, sup, runner, clients, faults, retries>>

Due ==
    /\ ~sup.due /\ sup' = [sup EXCEPT !.due = TRUE]
    /\ UNCHANGED <<service, attempt, runner, clients, faults, retries>>

\* _observe takes the request to look at the credentials again.
TakeRefresh ==
    /\ attempt = "begin"
    /\ IF sup.stop THEN attempt' = "ending" /\ UNCHANGED sup
       ELSE /\ attempt' = IF sup.refresh /\ runner # "none" THEN "refresh" ELSE "fresh"
            /\ sup' = [sup EXCEPT !.refresh = FALSE]
    /\ UNCHANGED <<service, runner, clients, faults, retries>>

\* The credentials are the same, or have changed (the client is disposed of), or
\* cannot be read.
CompareCredentials ==
    /\ attempt = "refresh"
    /\ \/ attempt' = "fresh" /\ UNCHANGED <<runner, clients, faults>>
       \/ attempt' = "fresh" /\ Disposed
       \/ attempt' = "failing" /\ DisposeFails
       \/ attempt' = "failing" /\ Fault /\ UNCHANGED <<runner, clients>>
    /\ UNCHANGED <<service, sup, retries>>

\* A runner is made if there is none; its client starts, or the start fails and
\* has cleaned up after itself.
StartClient ==
    /\ attempt = "fresh"
    /\ \/ /\ runner # "none" /\ attempt' = "observe"
          /\ UNCHANGED <<runner, clients, faults>>
       \/ /\ runner = "none" /\ runner' = "started" /\ clients' = clients + 1
          /\ attempt' = "observe" /\ UNCHANGED faults
       \/ runner = "none" /\ runner' = "fresh" /\ attempt' = "failing" /\ Fault /\ UNCHANGED clients
    /\ UNCHANGED <<service, sup, retries>>

\* A dead client is disposed of and another start becomes due later; a live one
\* is healthy or degraded, and stays.
Observe ==
    /\ attempt = "observe"
    /\ \/ sup.stop /\ attempt' = "ending" /\ UNCHANGED <<sup, runner, clients, faults>>
       \/ ~sup.stop /\ clients > 0 /\ attempt' = "ending" /\ UNCHANGED <<sup, runner, clients, faults>>
       \/ ~sup.stop /\ clients = 0 /\ Disposed /\ Block(FALSE) /\ attempt' = "ending"
       \/ ~sup.stop /\ clients = 0 /\ DisposeFails /\ attempt' = "failing" /\ UNCHANGED sup
    /\ UNCHANGED <<service, retries>>

\* The handler of a failed attempt: a live client is never replaced; without one
\* the runner is disposed of.  Some failures block until somebody acts.
Failing ==
    /\ attempt = "failing" /\ attempt' = "ending"
    /\ \/ clients > 0 /\ (Block(TRUE) \/ UNCHANGED sup) /\ UNCHANGED <<runner, clients, faults>>
       \/ clients = 0 /\ Disposed /\ (Block(TRUE) \/ Block(FALSE))
       \/ clients = 0 /\ DisposeFails /\ Block(TRUE)
    /\ UNCHANGED <<service, retries>>

\* finally: a stop that came meanwhile disposes of the client here too.
Ending ==
    /\ attempt = "ending" /\ attempt' = "off"
    /\ IF sup.stop THEN Disposed \/ DisposeFails ELSE UNCHANGED <<runner, clients, faults>>
    /\ UNCHANGED <<service, sup, retries>>

Attempt == TakeRefresh \/ CompareCredentials \/ StartClient \/ Observe \/ Failing \/ Ending

\* The client exits by itself.
ClientDies ==
    /\ clients > 0 /\ Fault /\ clients' = clients - 1
    /\ UNCHANGED <<service, sup, attempt, runner, retries>>

\* connect_tunnel: a supervisor is made and started, or told to retry.
Connected == IF sup.made THEN [sup EXCEPT !.blocked = FALSE, !.refresh = TRUE, !.due = TRUE]
             ELSE [NoSupervisor EXCEPT !.made = TRUE]
Retry ==
    /\ retries < MaxRetries /\ ~stopping /\ parts = {"runtime", "server"}
    /\ sup' = Connected /\ retries' = retries + 1
    /\ UNCHANGED <<service, attempt, runner, clients, faults>>

-----------------------------------------------------------------------------
(* LocalService *)

Only(s) == owner' = s /\ UNCHANGED <<guard, stopping, parts, maint, failed>>

Start ==
    /\ owner = "down" /\ ~guard /\ guard' = TRUE /\ stopping' = FALSE /\ owner' = "files"
    /\ UNCHANGED <<parts, maint, failed, tunnel, faults, retries>>

\* Any step of _start may fail, which stops what has been started.
StartFails ==
    /\ owner \in {"files", "runtime", "server", "tunnel", "status"} /\ Fault
    /\ stopping' = TRUE /\ failed' = FALSE /\ owner' = "closeTunnel"
    /\ UNCHANGED <<guard, parts, maint, tunnel, retries>>

Build(s, part, next) ==
    /\ owner = s /\ owner' = next /\ parts' = parts \cup part
    /\ UNCHANGED <<guard, stopping, maint, failed, tunnel, faults, retries>>
Prepare == Build("files", {}, "runtime") \/ Build("runtime", {"runtime"}, "server")
           \/ Build("server", {"server"}, "tunnel")
ConnectOrNot ==
    /\ owner = "tunnel" /\ Only("status") /\ sup' \in {sup, Connected}
    /\ UNCHANGED <<attempt, runner, clients, faults, retries>>
StartMaintenance ==
    /\ owner = "status" /\ owner' = "up" /\ maint' = "running"
    /\ UNCHANGED <<guard, stopping, parts, failed, tunnel, faults, retries>>

MaintenanceEnds ==
    /\ maint = "running" /\ stopping /\ maint' = "ended"
    /\ UNCHANGED <<owner, guard, stopping, parts, failed, tunnel, faults, retries>>

\* stop: no tunnel is connected from here on.  A stop that failed is called again.
Stop ==
    /\ owner = "up" \/ (owner = "down" /\ guard)
    /\ stopping' = TRUE /\ failed' = FALSE /\ owner' = "closeTunnel"
    /\ UNCHANGED <<guard, parts, maint, tunnel, faults, retries>>

\* TunnelSupervisor.close
CloseTunnel ==
    /\ owner = "closeTunnel"
    /\ IF sup.made THEN Only("joinAttempt") /\ sup' = [sup EXCEPT !.stop = TRUE]
       ELSE Only("joinMaintenance") /\ UNCHANGED sup
    /\ UNCHANGED <<attempt, runner, clients, faults, retries>>
JoinAttempt ==
    /\ owner = "joinAttempt"
    /\ \/ attempt = "off" /\ Only("dispose") /\ UNCHANGED faults
       \/ /\ attempt # "off" /\ Fault                           \* TUNNEL_SHUTDOWN_INCOMPLETE
          /\ owner' = "joinMaintenance" /\ failed' = TRUE
          /\ UNCHANGED <<guard, stopping, parts, maint>>
    /\ UNCHANGED <<tunnel, retries>>
Dispose ==
    /\ owner = "dispose" /\ owner' = "joinMaintenance"
    /\ \/ Disposed /\ sup' = NoSupervisor /\ UNCHANGED failed
       \/ DisposeFails /\ failed' = TRUE /\ UNCHANGED sup
    /\ UNCHANGED <<guard, stopping, parts, maint, attempt, retries>>

\* The join waits three seconds; with the thread still running stop gives up.
JoinMaintenance ==
    /\ owner = "joinMaintenance"
    /\ \/ /\ maint # "running" /\ maint' = "none" /\ owner' = "closeServer" /\ UNCHANGED faults
       \/ /\ maint = "running" /\ Fault /\ owner' = "down" /\ UNCHANGED maint
    /\ UNCHANGED <<guard, stopping, parts, failed, tunnel, retries>>
CloseServer ==
    /\ owner = "closeServer" /\ owner' = "closeRuntime" /\ parts' = parts \ {"server"}
    /\ UNCHANGED <<guard, stopping, maint, failed, tunnel, faults, retries>>
CloseRuntime ==
    /\ owner = "closeRuntime" /\ owner' = "release"
    /\ \/ parts' = parts \ {"runtime"} /\ UNCHANGED <<failed, faults>>
       \/ "runtime" \in parts /\ Fault /\ failed' = TRUE /\ UNCHANGED parts
    /\ UNCHANGED <<guard, stopping, maint, tunnel, retries>>

\* Mutant: the instance lock is released although a step failed.
ReleaseAnyway ==
    /\ owner = "release" /\ owner' = "down" /\ guard' = FALSE
    /\ UNCHANGED <<stopping, parts, maint, failed, tunnel, faults, retries>>

\* With errors the lock is kept and stop raises.
Release ==
    /\ owner = "release" /\ owner' = "down"
    /\ guard' = failed
    /\ UNCHANGED <<stopping, parts, maint, failed, tunnel, faults, retries>>

StopStep == CloseTunnel \/ JoinAttempt \/ Dispose \/ JoinMaintenance \/ CloseServer \/ CloseRuntime \/ Release

Next ==
    \/ Start \/ StartFails \/ Prepare \/ ConnectOrNot \/ StartMaintenance
    \/ MaintenanceEnds \/ Stop \/ StopStep
    \/ Begin \/ Due \/ Attempt \/ ClientDies \/ Retry

Spec == Init /\ [][Next]_vars

\* The threads run: the worker starts what is due, an attempt goes on.
FairSpec == Spec /\ WF_vars(Begin) /\ WF_vars(Due) /\ WF_vars(Attempt)

-----------------------------------------------------------------------------
\* The instance lock covers everything the service runs: while nothing holds it,
\* no client, attempt, server, runtime or maintenance thread is left, whatever
\* failed in the start or the stop; and never do two clients run, nor one that
\* the runner to be disposed of does not own.
LockCoversEverything ==
    /\ ~guard => /\ clients = 0 /\ attempt = "off" /\ runner = "none" /\ ~sup.made
                 /\ parts = {} /\ maint = "none"
    /\ clients <= 1
    /\ clients = 1 => runner = "started" /\ sup.made

\* A retry that was accepted is looked at by an attempt, however it crosses one
\* that is failing at that moment, unless the supervisor is stopped.
RetryIsHeard == sup.refresh ~> (~sup.refresh \/ sup.stop)
=============================================================================
