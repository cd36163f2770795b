--------------------------- MODULE ClientRuntimes ---------------------------
(***************************************************************************)
(* The desktop client and the processes of one workspace profile: an MCP   *)
(* runtime that listens on the profile's port and, for some settings, a    *)
(* cloudflared tunnel to it (apps/desktop-client, runtime.py and app.py).  *)
(* Both are detached: they outlive the client, die on their own, and their *)
(* pids are used again.  The client knows them by its session in memory,   *)
(* by a state file, and by their command lines.  One job, a start or a     *)
(* stop, runs at a time; the window shows the status between jobs.         *)
(* Lookups that follow each other without a wait are one step.             *)
(*                                                                         *)
(* A setting stands for the port and the tunnel of the profile.  MaxBirths *)
(* bounds the processes, MaxCrashes the deaths of the client.              *)
(***************************************************************************)
EXTENDS Naturals, FiniteSets

CONSTANTS Settings, Tunnelled,  \* settings; those with tunnel type "cloudflare"
          Pids, MaxBirths, MaxCrashes

VARIABLES
    process,    \* what each pid runs: a birth number, a kind, its setting
    setting,    \* the saved settings of the profile
    known,      \* ManagedSession: runtime, tunnel and the started process
    file,       \* the runtime state file
    job,        \* the step of RuntimeManager.start or stop, with its locals
    births, clientCrashes,
    seen        \* history: births of the runtimes a start saw listening
vars == <<process, setting, known, file, job, births, clientCrashes, seen>>

Free == [birth |-> 0, kind |-> "none", of |-> "none", up |-> FALSE]
Kinds == {"runtime", "tunnel", "other"}

(* A process as the client remembers it: its pid and its create time.       *)
Refs == [pid : Pids \cup {"none"}, birth : 0..MaxBirths]
NoRef == [pid |-> "none", birth |-> 0]
Ref(p) == [pid |-> p, birth |-> process[p].birth]
NoSession == [runtime |-> NoRef, tunnel |-> NoRef, started |-> NoRef]
NoFile == [runtime |-> NoRef, tunnel |-> NoRef, of |-> "none"]
NoJob == [at |-> "idle", runtime |-> NoRef, tunnel |-> NoRef, started |-> NoRef]

TypeOK ==
    /\ process \in [Pids -> [birth : 0..MaxBirths, kind : Kinds \cup {"none"},
                             of : Settings \cup {"none"}, up : BOOLEAN]]
    /\ setting \in Settings
    /\ known \in [runtime : Refs, tunnel : Refs, started : Refs]
    /\ file \in [runtime : Refs, tunnel : Refs, of : Settings \cup {"none"}]
    /\ job \in [at : {"idle", "check", "launch", "tunnel", "recover", "status",
                      "stop", "stopRuntime", "clear"},
                runtime : Refs, tunnel : Refs, started : Refs]
    /\ births \in 0..MaxBirths /\ clientCrashes \in 0..MaxCrashes /\ seen \subseteq 1..MaxBirths

Init ==
    /\ process = [p \in Pids |-> Free]
    /\ setting \in Settings
    /\ known = NoSession /\ file = NoFile /\ job = NoJob
    /\ births = 0 /\ clientCrashes = 0 /\ seen = {}

(* _process_has_create_time; the pid may belong to a later process by now. *)
Lives(r) == r # NoRef /\ process[r.pid].birth = r.birth
Is(p, kind, s) == process[p].kind = kind /\ process[p].of = s

SomeOf(S) == IF S = {} THEN NoRef ELSE Ref(CHOOSE p \in S : TRUE)
First(r1, r2) == IF r1 # NoRef THEN r1 ELSE r2
If(ok, r) == IF ok THEN r ELSE NoRef

(* _find_pid_by_port: whatever process listens on the port.                *)
Listener(s) == SomeOf({p \in Pids : process[p].up /\ process[p].of = s
                                 /\ process[p].kind # "tunnel"})

MatchesRuntime(r, s) == Lives(r) /\ Is(r.pid, "runtime", s)
MatchesTunnel(r, s) == Lives(r) /\ Is(r.pid, "tunnel", s)
FindRuntime ==
    LET Ours(r) == If(MatchesRuntime(r, setting), r)
    IN First(First(Ours(known.runtime), Ours(known.started)),
             First(Ours(Listener(setting)), Ours(file.runtime)))
FindTunnel ==
    First(First(If(Lives(known.tunnel), known.tunnel),
                If(MatchesTunnel(file.tunnel, setting), file.tunnel)),
          If(setting \in Tunnelled, SomeOf({p \in Pids : Is(p, "tunnel", setting)})))
FindStateRuntime == If(MatchesRuntime(file.runtime, file.of), file.runtime)
FindStateTunnel == If(MatchesTunnel(file.tunnel, file.of), file.tunnel)

(* _terminate_process_tree ends exactly the remembered processes.          *)
End(refs) == process' = [p \in Pids |-> IF \E r \in refs : r.pid = p /\ Lives(r)
                                          THEN Free ELSE process[p]]
(* _terminate_live_process_tree ends whatever has that pid now.            *)
Now(r) == IF r = NoRef THEN NoRef ELSE Ref(r.pid)

Born(p, kind, s, up) ==
    /\ births < MaxBirths /\ process[p] = Free
    /\ births' = births + 1
    /\ process' = [process EXCEPT ![p] = [birth |-> births + 1, kind |-> kind, of |-> s, up |-> up]]
BornRef(p) == [pid |-> p, birth |-> births + 1]
At(step) == job.at = step
Goes(step) == job' = [job EXCEPT !.at = step]

-----------------------------------------------------------------------------
(* start: a tunnel whose runtime is gone is ended first.                   *)
Orphan ==
    LET Found == First(FindTunnel, FindStateTunnel)
    IN If(FindRuntime = NoRef /\ FindStateRuntime = NoRef /\ Found # NoRef, Found)
StartCleans ==
    /\ At("idle") /\ Orphan # NoRef
    /\ End({Orphan}) /\ file' = NoFile /\ Goes("check")
    /\ UNCHANGED <<setting, known, births, clientCrashes, seen>>
Checking == At("check") \/ (At("idle") /\ Orphan = NoRef)

(* A runtime that runs already is adopted.                                 *)
StartAdopts ==
    /\ Checking /\ FindRuntime # NoRef
    /\ setting \in Tunnelled => FindTunnel # NoRef
    /\ known' = IF known = NoSession THEN [NoSession EXCEPT !.runtime = FindRuntime] ELSE known
    /\ Goes("status")
    /\ UNCHANGED <<process, setting, file, births, clientCrashes, seen>>

(* Without its tunnel, the tunnel alone is started again.                  *)
StartRecovers(p) ==
    /\ Checking /\ FindRuntime # NoRef
    /\ setting \in Tunnelled /\ FindTunnel = NoRef
    /\ Born(p, "tunnel", setting, FALSE)
    /\ job' = [NoJob EXCEPT !.at = "recover", !.runtime = FindRuntime, !.tunnel = BornRef(p)]
    /\ UNCHANGED <<setting, known, file, clientCrashes, seen>>

(* The runtime of earlier settings, or anyone on the port, refuses it.     *)
StartRefused ==
    /\ Checking /\ FindRuntime = NoRef
    /\ FindStateRuntime # NoRef \/ Listener(setting) # NoRef
    /\ Goes("idle")
    /\ UNCHANGED <<process, setting, known, file, births, clientCrashes, seen>>

StartLaunches(p) ==
    /\ Checking /\ FindRuntime = NoRef
    /\ FindStateRuntime = NoRef /\ Listener(setting) = NoRef
    /\ Born(p, "runtime", setting, FALSE)
    /\ job' = [NoJob EXCEPT !.at = "launch", !.started = BornRef(p)]
    /\ UNCHANGED <<setting, known, file, clientCrashes, seen>>

Recorded(s) == [runtime |-> Now(s.runtime), tunnel |-> Now(s.tunnel), of |-> setting]
Manage(s) ==
    /\ known' = [runtime |-> Now(s.runtime), tunnel |-> Now(s.tunnel), started |-> s.started]
    /\ file' = Recorded(s)

(* The port is listened to: whoever listens is taken for the runtime.      *)
StartListens(p) ==
    /\ At("launch") /\ Listener(setting) # NoRef
    /\ seen' = seen \cup {Listener(setting).birth}
    /\ LET found == [job EXCEPT !.runtime = Listener(setting)]
       IN IF setting \in Tunnelled
            THEN /\ Born(p, "tunnel", setting, FALSE)
                 /\ job' = [found EXCEPT !.at = "tunnel", !.tunnel = BornRef(p)]
                 /\ UNCHANGED <<known, file>>
            ELSE /\ Manage(found)
                 /\ job' = [found EXCEPT !.at = "status"]
                 /\ UNCHANGED <<process, births>>
    /\ UNCHANGED <<setting, clientCrashes>>

StartTimesOut ==
    /\ At("launch") /\ Listener(setting) = NoRef
    /\ End({Now(job.started)})
    /\ Goes("idle")
    /\ UNCHANGED <<setting, known, file, births, clientCrashes, seen>>

(* The tunnel is connected in time, or everything started is ended.        *)
StartConnects ==
    /\ At("tunnel") \/ At("recover")
    /\ Lives(job.tunnel) /\ process[job.tunnel.pid].up
    /\ Manage(job)
    /\ Goes("status")
    /\ UNCHANGED <<process, setting, births, clientCrashes, seen>>
StartFails ==
    /\ At("tunnel")
    /\ End({job.tunnel, Now(job.runtime), Now(job.started)})
    /\ file' = NoFile
    /\ Goes("idle")
    /\ UNCHANGED <<setting, known, births, clientCrashes, seen>>
RecoveryFails ==
    /\ At("recover")
    /\ End({job.tunnel})
    /\ Goes("idle")
    /\ UNCHANGED <<setting, known, file, births, clientCrashes, seen>>

-----------------------------------------------------------------------------
(* status, which is not only a reading: without a runtime the tunnel is     *)
(* ended and the state file removed.                                       *)
Running == First(FindRuntime, FindStateRuntime)
\* Mutant: only the file is removed.
TidiedFileOnly == file' = (IF Running = NoRef THEN NoFile ELSE file) /\ UNCHANGED process
Tidied ==
    IF Running = NoRef
      THEN End({Now(FindTunnel)}) /\ file' = NoFile
      ELSE UNCHANGED <<process, file>>

Status ==
    /\ At("idle") \/ At("status")
    /\ Tidied /\ Goes("idle")
    /\ UNCHANGED <<setting, known, births, clientCrashes, seen>>

(* MainWindow._save_current: settings change only when nothing runs.       *)
Save(s) ==
    /\ At("idle") /\ Tidied
    /\ Running = NoRef /\ setting' = s
    /\ UNCHANGED <<known, job, births, clientCrashes, seen>>

-----------------------------------------------------------------------------
(* stop looks everything up, ends the tunnel, the runtime and the process   *)
(* it was started as, and forgets them.                                    *)
\* Mutant: only what the session remembers is looked for.
LookedUpInMemory == [at |-> "stop", tunnel |-> If(Lives(known.tunnel), known.tunnel),
                     runtime |-> If(Lives(known.runtime), known.runtime), started |-> known.started]
LookedUp ==
    [at |-> "stop",
     tunnel |-> First(If(Lives(known.tunnel), known.tunnel), First(FindTunnel, FindStateTunnel)),
     runtime |-> First(First(If(Lives(known.runtime), known.runtime),
                             If(Lives(known.started), known.started)),
                       First(If(MatchesRuntime(Listener(setting), setting), Listener(setting)),
                             First(If(MatchesRuntime(file.runtime, setting), file.runtime),
                                   FindStateRuntime))),
     started |-> known.started]

Stop ==
    /\ At("idle")
    /\ job' = LookedUp /\ known' = NoSession
    /\ UNCHANGED <<process, setting, file, births, clientCrashes, seen>>
StopTunnel ==
    /\ At("stop")
    /\ End({job.tunnel}) /\ Goes("stopRuntime")
    /\ UNCHANGED <<setting, known, file, births, clientCrashes, seen>>
StopRuntime ==
    /\ At("stopRuntime")
    /\ End({job.runtime, job.started}) /\ Goes("clear")
    /\ UNCHANGED <<setting, known, file, births, clientCrashes, seen>>
StopClears ==
    /\ At("clear")
    /\ file' = NoFile /\ Goes("idle")
    /\ UNCHANGED <<process, setting, known, births, clientCrashes, seen>>

-----------------------------------------------------------------------------
(* Processes come up, die, and others take their pids or the port.          *)
Up(p) ==
    /\ process[p].kind \in {"runtime", "tunnel"}
    /\ process[p].kind = "runtime" => Listener(process[p].of) = NoRef
    /\ process' = [process EXCEPT ![p].up = TRUE]
    /\ UNCHANGED <<setting, known, file, job, births, clientCrashes, seen>>
Die(p) ==
    /\ process[p] # Free
    /\ process' = [process EXCEPT ![p] = Free]
    /\ UNCHANGED <<setting, known, file, job, births, clientCrashes, seen>>
Foreign(p, s, up) ==
    /\ up => Listener(s) = NoRef
    /\ Born(p, "other", s, up)
    /\ UNCHANGED <<setting, known, file, job, clientCrashes, seen>>
(* The client is killed; the next one reads the profile and the file.       *)
ClientCrash ==
    /\ clientCrashes < MaxCrashes /\ clientCrashes' = clientCrashes + 1
    /\ known' = NoSession /\ job' = NoJob
    /\ UNCHANGED <<process, setting, file, births, seen>>

Next ==
    \/ \E p \in Pids :
           \/ StartRecovers(p) \/ StartLaunches(p) \/ StartListens(p) \/ Up(p) \/ Die(p)
           \/ \E s \in Settings, up \in BOOLEAN : Foreign(p, s, up)
    \/ StartCleans \/ StartAdopts \/ StartRefused \/ StartTimesOut \/ StartConnects \/ StartFails
    \/ RecoveryFails \/ Status \/ Stop \/ StopTunnel \/ StopRuntime \/ StopClears
    \/ \E s \in Settings : Save(s)
    \/ ClientCrash

Spec == Init /\ [][Next]_vars

-----------------------------------------------------------------------------
Runtimes == {p \in Pids : process[p].kind = "runtime" /\ process[p].birth \in seen}
Tunnels == {p \in Pids : process[p].kind = "tunnel"}

(* Whatever dies, crashes or takes over a pid or the port: of a runtime     *)
(* that was once seen listening, and of tunnels, at most one exists; each   *)
(* can be found again by the settings or the state file; and a stop that    *)
(* gets to its end has left none (runtime.py stop, status; app.py           *)
(* _save_current).                                                         *)
NothingIsLost ==
    /\ Cardinality(Runtimes) <= 1 /\ Cardinality(Tunnels) <= 1
    /\ \A p \in Runtimes : process[p].of = setting \/ FindStateRuntime = Ref(p)
    /\ \A p \in Tunnels : First(FindTunnel, FindStateTunnel) = Ref(p) \/ job.tunnel = Ref(p)
    /\ At("clear") => Runtimes \cup Tunnels = {}
=============================================================================
