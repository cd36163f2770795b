# Verification of the personal MCP host

TLA+ models of the parts of this repository where a wrong interleaving, a
crash, a failed step or a timeout loses somebody's work: who owns a project
directory, whether a write happens twice, whether everything a workflow started
is over when the host says so, and whether the tools do what they answer. TLC
checks the models on small instances; TLAPS proves nearly all the safety
properties, those of the core (the registry, the journal and the executor) and
those of the modules around it, for every number of workflows, requests, calls
and threads.

Paths below are relative to the repository's root.

## 1. The system

A client (an agent behind an MCP tunnel) talks to one local host process.
`personal_mcp/service.py` starts it, keeps the tunnel and a maintenance
thread; `personal_mcp/host.py` is the request handler. Request threads share
the objects below. A request to write goes through all of the first four:

    client -> host.HostRuntime.call_tool
                |  WorkflowRegistry.use(kind)          gate, write lock, in-flight count
                |    OperationJournal.run(execute)     reserve, dispatch, record
                |      before_dispatch: BFExecutor.drain(owner, 0)
                |      BFExecutor.submit -> Future     one generation, one native server
                |      or the coding tools, in the same thread
                |    done callback of the Future -> OperationJournal._complete
    host "end"  -> gate -> WorkflowRegistry.end -> WorkflowResources.close
                             desktop, browser and hybrid sessions, executor.drain,
                             task store hooks, processes, file transfers, searches

The coding tools (`coding_tools_mcp/`) are also a server of their own, with
JSON-RPC over stdio and HTTP, OAuth and telemetry; the desktop client
(`apps/desktop-client/`) starts and stops such servers and their tunnels.

### 1.1 Components

| Component (source) | State | Operations | Correct when | Module |
|---|---|---|---|---|
| Workflow registry (`personal_mcp/workflows.py`) | SQLite rows with state, deadlines, credentials and stored resume answers; in memory the resources, the activations under way, in-flight calls, a gate and a write lock per workflow, a cache of the states | `begin`, `expire`, `activate`, `use`, `release_idle`, `resume`, `end`/`_end`, `close`, `recover`, construction after a crash | overlapping projects are never leased together; a lease is given up only when everything the workflow started is gone; no call loses its resource; a replaced credential is dead | `WorkflowRegistry` |
| Operation journal (`personal_mcp/operations.py`) | SQLite rows (owner, request id, digest, state, result) | `run`, `_complete`, `_unknown`, the done callback, `_prune`, `status`, construction after a crash | a request happens at most once; a recorded outcome is the true one and stays | `OperationJournal` |
| BF executor (`personal_mcp/bf/executor.py`) | the current generation (thread, loop, client, requests, uncertain owners), pending Futures | `submit`, `_finished`, `_run`/`_main`, `drain`, `close` | generations do not overlap; every Future is resolved once; a drain that returns is true | `BFExecutor` |
| Host runtime (`personal_mcp/host.py`, `tool_policy.py`) | wiring of the three above; `WorkflowResources` | `call_tool`, `_before_dispatch`, `WorkflowResources.close` | a write does not pass an unresolved one; cleanup continues after a failed step and is repeatable | `HostCalls`, `HostCleanup` |
| Task store (`bf_automation/task_store.py`) | tasks, owned jobs and windows, end hooks | `start`, `spawn_owned`, `prepare_managed`, `end`, `claim` | nothing is started for a task that is ending; an ended task owns nothing | `TaskCleanup` |
| Browser manager (`bf_automation/browser/`) | sessions, worker reply queues, a once-only journal; pages and snapshots in the worker | `start`, `call`, `end_task`, recovery; `open`, snapshots, actions | replies match requests; no operation twice; end terminates the worker; a snapshot shows the page as it is | `TaskCleanup`, `BrowserCalls`, `BrowserPages` |
| Hybrid manager (`bf_automation/hybrid/`) | pending, live and failed launches against a limit | `launch`, `end_task` | failed launches count until their tree is gone | `TaskCleanup` |
| Desktop lease and console (`bf_automation/lease.py`, `personal_mcp/desktop_console.py`, `desktop_native.py`) | the holder of the foreground; sessions, control epoch, arming | `hold`, `hold_async`, `release`; `arm`, `disarm`, actions | an action whose control was revoked sends no more input | `DesktopControl` |
| Window tools (`bf_automation/window_control.py`) | locks per window, what was put aside | pictures, background and foreground actions | a refused action did nothing; windows are left as they were found | `WindowControl` |
| File transfer (`personal_mcp/file_transfer.py`) | upload and download sessions, a private cache with a marker | `begin`, chunk, `commit`, discard, expiry, recovery | an upload creates its file whole and replaces nothing; storage stays within its limit | `FileTransfer` |
| Search (`personal_mcp/search.py`) | sessions with a process, a collector and a timer | `start`, `read`, `stop`, shutdown | one final verdict, process gone, slot freed | `SearchSessions` |
| Local service, tunnel supervisor and runner (`personal_mcp/service.py`, `tunnel_supervisor.py`, `tunnel.py`) | instance lock, maintenance thread, runtime; attempt, backoff, retry request | `start`, `stop`, retry | stop can be retried after any failure; one tunnel client at a time; a retry is heard | `ServiceLifecycle` |
| Releases (`scripts/prepare_update.py`, `scripts/switch_managed_release.py`, `personal_mcp/autostart.py`) | packages with manifests; the scheduled task and its receipt | prepare, switch, roll back | only whole releases are switched to; an edit that was seen is not overwritten without a backup; one failure leaves a service running | `PackageUpdate`, `ReleaseSwitch` |
| Command processes (`coding_tools_mcp/server.py`, `processes.py`) | process table, head and tail output buffers, cursors | `exec_command`, `read_output`, `kill_command`, `close` | no running process out of reach; no output invented, reordered or lost unreported | `CommandRuns`, `CommandOutput` |
| Patches (`coding_tools_mcp/server.py`, `patching.py`) | staged changes, prepared files, backups | staging, hunks, commit, rollback | a patch does what it says or nothing | `PatchStaging`, `PatchHunks`, `PatchCommit` |
| Reading tools (`coding_tools_mcp/server.py`) | a pipe and a timer per search | `read_file`, `search_text`, `list_files` | an incomplete answer says so | `FilePages`, `TextSearch`, `FileListing` |
| JSON-RPC front (`coding_tools_mcp/protocol.py`, `server.py`, `transport_stdio.py`) | none between messages | dispatch, `do_POST`, stdio loop | a message has one verdict, whatever carries it | `RpcFront` |
| OAuth (`coding_tools_mcp/oauth.py`, `server.py`) | clients, pending codes, issued tokens | register, authorize, token | a token stands for one approval, redeemed once | `OAuthCodes` |
| Telemetry (`coding_tools_mcp/telemetry.py`) | counters, streaks, a bounded queue, a sender | counting, `finish`, posting | what is told adds up | `Telemetry` |
| Desktop client (`apps/desktop-client/`) | a session in memory, a state file per profile, detached processes | start, status, stop, save | a runtime is not forgotten while it runs | `ClientRuntimes` |

`PROJECT.json` "components" says for each what is left out, and lists the parts
that are not modelled (section 6).

### 1.2 What is hard

* **Locks released in the middle of an operation.** The registry lock is held
  for single sections. `activate` runs a factory, `release_idle` asks for
  blockers, `_end` closes resources, `use` runs the call, all without it. The
  gate and the write lock bridge some of these gaps, with different waits
  (`activate` and `use` wait, `release_idle` does not, `_end` gives up). The same
  holds for commands (spawned between two sections), browser sessions, console
  calls and token requests.
* **Read, wait, use.** `use`, `activate` and the host's end look a
  credential up, wait, and look it up again; a console action reads an epoch, a
  release switch compares a task and writes it.
* **Timeouts that race with the late answer.** A write's Future may be done
  just as its wait times out; a browser worker's reply arrives after its caller
  left; the timer of a search kills a process that has just ended.
* **A protocol error is not the end of the work.** A native worker goes on after
  its connection is lost.
* **Crashes.** Rows survive, resources in memory do not, native processes,
  staged files and detached runtimes may.
* **Cleanup that fails half way** keeps the lease, the instance lock or the
  slot, and must be retried.
* **Others write too.** Files of a patch, the target of an upload, the scheduled
  task, windows and pages change between two steps.

`PROJECT.json` "hazards" lists them with their lines and the properties that
cover them.

## 2. The modules

| Module | Models |
|---|---|
| `ProjectLease` | what the registry promises: exclusive leases that end once, after their work |
| `WorkflowRegistry` | `workflows.py`, with the part of `host.py` that takes the gate around `end` |
| `OperationJournal` | `operations.py` |
| `BFExecutor` | `bf/executor.py` |
| `HostCalls`, `HostCleanup`, `TaskCleanup` | the composition of gate, journal and executor in one call; `WorkflowResources`; the task store with its browser and WebView2 hooks |
| `BrowserCalls`, `BrowserPages`, `DesktopControl`, `WindowControl` | automation |
| `FileTransfer`, `SearchSessions`, `ServiceLifecycle`, `PackageUpdate`, `ReleaseSwitch` | the rest of the host |
| `CommandRuns`, `CommandOutput`, `PatchStaging`, `PatchHunks`, `PatchCommit`, `FilePages`, `TextSearch`, `FileListing` | the coding tools |
| `RpcFront`, `OAuthCodes`, `Telemetry`, `ClientRuntimes` | the server around them, the desktop client |
| `CodingTools`, `LocalMachine`, `SharedUse` | the modules of the last five rows and their properties, side by side |
| `MCWorkflowRegistry`, `MCOperationJournal`, `MCBFExecutor`, `MCCodingTools`, `MCLocalMachine`, `MCSharedUse` | the instances TLC checks |
| `WorkflowRegistryProofs`, `WorkflowRegistryPromises`, `OperationJournalProofs`, `BFExecutorProofs`, `CodingToolsProofs`, `LocalMachineProofs`, `SharedDesktopProofs`, `SharedUseProofs` | the proofs (section 5) |

Definitions whose comment begins with "Mutant" are plausible bugs. No action
uses them; each may replace the definition it is named after, to see a property
fail. `PROJECT.json` "mutants" names one for every property of a run; the
component modules hold a few more.

The three composites exist because their components share no state: a
behaviour picks one component (`part`) and is a behaviour of that component's
module, imported with `INSTANCE`; the variables of the others are `"unused"`
throughout. The state spaces add up, they do not multiply, and a property `P` of
a composite says of each component what `Part!P` says in its module: `AllOrNothing`
of the commit of a patch is about `part = "commit"`, its staging about
`part = "stage"`. The properties are stated in the composites and not in their MC
modules, so that the runs check and the theorems state the same definitions. A
component can be checked alone by giving its own module a configuration with the
constants of the `INSTANCE` line.

### 2.1 WorkflowRegistry

One action is one critical section of the registry lock, with everything the
section changes: for instance `EndCloses` is the first block of `_end`, and
`EndFinishes` its last. A thread's record in `th` says which section is next
(`pc`), for which public call (`op`), row and credential, and which rows a loop
(`expire`, `close`, `recover`) has still to visit. The gate
(`workflow_locks[w]`) and the write lock are variables, since they are held
over several sections. `resume` is one action: the gate, the lock and one
immediate transaction span the whole handler.

* Database: `state`, `generation`, `live` (credentials not revoked),
  `responses` (stored answers of `resume`). Memory: `metadata` (the cached
  state), `resources`, `starting`, `inflight`, `gate`, `writeLock`.
  `Crash` erases the memory, `Boot` is the next construction, and `recover`
  runs before calls are served.
* The client: `tokens` holds the credentials it has received. Answers of
  `resume` may be lost, and the same request id sent again.
* Outside: `debris` holds the workflows whose native resources may exist,
  from the moment the factory is called until `resource.close()` or recovery
  returned. A factory or a cleanup may fail at any time, a tool call may never
  return.
* Time is reduced to the comparisons the code makes. `due`, `idle` and `stale`
  say which deadlines have passed, and the clock actions add to them at any
  moment. `Expire` compares the database rows with one reading of the clock and
  the cached rows with a later one, as the code does.

Left out: `list`, `status` and `snapshot`, which only read; texts; the
content of credentials (a generation stands for a credential). A begin request
is identified with the row it creates, so a repeated one finds `state[w] #
"NONE"` and ends in `LoopReturns`.

`ProjectLease` has three variables: leases held, workflows that may have
dirtied their project, leases given up for good. The mapping is at the end of
`WorkflowRegistry`: `held` is every row in a state that is not terminal,
`dirty` is `debris`, `past` the terminal rows. An expiry and the grant that
takes its place happen in one transaction of `begin`, so `Turnover` does both.

### 2.2 OperationJournal

Every SQLite transaction is one action. `Reserve` and `Repeat` are the
reserving transaction of `run`, which prunes results, looks the request up,
reclaims receipts of closed owners at capacity and inserts the row. `Execute`,
`Submit` and `SubmitFails` are the three ways `execute()` can go;
`ToolEnds`, `FutureEnds`, `WaitEnds`, `WaitTimesOut`, `CallerCompletes`,
`CallerMarks` and `Callback` record the outcome in the caller and in the
Future's callback. `Restart` is a crash together with the next construction.

`effect` is a history variable that no code reads: how often the tool was
started for a request, what it was asked and how it ended. `answers` records
what clients were told. Which results `_prune` drops depends on bytes and
times, so `Prunes` allows every subset. The registry appears as `closed`
(the owners `closed_operation_owners` reports), and `CloseOwner` has the
guard the registry gives it: no call of the owner is in flight.

### 2.3 BFExecutor

A generation is the thread started by `_start_locked` with its event loop
and client; `thread[g]` follows `_run` through connecting, serving, joining its
workers (`shutdown_default_executor`), retiring its requests and death.
`_finished` runs without a lock between its parts, so it is the steps `Claim`
(by the callback or by the dying thread), `StopGeneration`, `Resolve` and
`Discard`. `drain` reads the pending Futures and the generation in one section
(`Snapshot`) and then waits; `close` drains each owner it saw and stops the
generation.

`future[f].native` is the worker in the native server, which no code sees: it
ends by itself, at any time after the protocol has reported an error. Init is
the state after the constructor returned with a connection.

Left out: `drain` called from the generation's own thread (it returns or raises
at once and changes nothing), and the text `call` adds to its errors.

### 2.4 What a workflow owns: HostCalls, HostCleanup, TaskCleanup

`HostCalls` is `_call_tool` for one active workflow: the write gate, the
receipt lookup, the drain with timeout 0 and the reservation (one transaction,
`Clear`), the call, and the ways it ends. Its journal and executor are reduced
to what the other modules establish of them: receipts with their states,
works that are pending or uncertain. A native work goes on after its caller gave
up and after its connection broke; a request may be repeated at any time.

`HostCleanup` is `WorkflowResources.close`, step by step in the order of the
code, each of which may fail; it is called as often as the registry tries, and
between two calls the workflow may have acquired something again.

`TaskCleanup` composes task store, browser manager and WebView2 manager as the
program does: `TaskStore.end` runs `BrowserManager.end_task` as its hook, which
ends with `HybridManager.end_task`. Session locks are variables (`holder`), so
that starts, calls and ends can wait for each other. `Restart` is a new host
recovering what the old one left. A launch that failed in `HybridPlatform.launch`
and whose process cannot be stopped is only in the store's jobs afterwards,
which is why an end must look at both.

### 2.5 Automation: BrowserCalls, BrowserPages, DesktopControl, WindowControl

* `BrowserCalls`: a writing browser operation from its reservation in the
  durable store to its outcome. Replies and requests are queues; a caller may
  give up, the worker die, the host be killed, the task end beside a call. The
  operation store recovers at the next start. `effects` counts what reached the page,
  independently of what is answered; `answered` is the answer that was recorded.
  A record says `failed` of two requests that did have an effect, and
  `BrowserRecordsTrue` names both: an upload whose files were set but not seen in the
  page afterwards (`manager.py:101`, `transfers.py:61-69`), whose record says
  `accepted`; and a navigation that the URL guard refuses for where it has led
  (`engine.py:189`, a `ValueError`, hence `INVALID_ARGUMENT`, hence `failed` at
  `manager.py:94`), whose page the worker closes, so that the effect is a request sent
  and a page lost. The comment there, "Only explicit precondition failures are known
  not to have run" (`manager.py:92`), is not true of the second. A download too large
  to keep was clicked; the worker deletes the file and answers `accepted: false`, the
  manager misses the file, closes the session and records `unknown`.
* `BrowserPages`: the worker's own side. Pages navigate, close and open others
  between the awaits of the one request being served; the engine's callbacks
  arrive later (`news`). A snapshot is collected part by part. `new_page` may
  answer with nothing when a popup takes the last place meanwhile. An action answered
  as not accepted was not begun, but for the download too large to keep, which has an
  answer of its own (`toolarge`).
* `DesktopControl`: console sessions with their epochs and arms, calls through
  the workflow's write lock to the lease and to single input events. The checks
  before each event are actions of their own, so that everything may happen
  between a check and its event; `late` counts the events sent without authority.
  With two calls and one session the run does not disarm during an action nor replace
  a session under one: the theorem covers both. A shortcut of several keys checks the
  focus once for all of them (`window_control.py:763-764`) and is one input here.
* `WindowControl`: one call on a window at a time, another on another window, and
  the person at the desk meanwhile. `given` is how the person left a window;
  `excused` are windows that could not be put back.
  Not kept by the code: a window minimized between the look at it and its capture
  is staged without the desktop lease (`window_control.py:97`, `:1046`). The
  definition `StagedUnderLease` says so; no run checks it, since no text of the
  repository promises it.

### 2.6 The host's machine: ServiceLifecycle, PackageUpdate, ReleaseSwitch

* `ServiceLifecycle`: the owner's thread starts and stops the parts under the
  instance lock, any step may fail, and a stop is repeated from where it failed;
  the supervisor's worker makes attempts, an HTTP thread asks for retries, the
  tunnel client dies on its own.
* `PackageUpdate`: a release is put together from the installed package and an
  update, stops anywhere, and the directory may be asked for at any time. A
  half-made directory refuses later preparations (`DESTINATION_EXISTS`) until
  somebody removes it; a file edited after its check is copied with a fresh
  digest; after a stop right behind the copy the candidate is an exact copy of
  the old release, and valid as such.
* `ReleaseSwitch`: `AutostartManager.enable`, the switch and the rollback, where
  each read, comparison and write of the scheduler is a step, since another editor may
  come between the comparison and the write of one `restore`. A call of the scheduler
  may raise although it was carried out. `SwitchIsSafe` says three things, each with
  what the code does not prevent:
  * *Edits.* An edit is overwritten only if it was made after the last look at the task
    before the write (`unseen`), or if it is the very task that `enable` read, compared
    and saved in its backup file. The second is an edit between `preflight` and
    `enable`'s own read (`autostart.py:469`): the switch does not compare what it read
    with what `enable` reads, so the registration replaces it, and only the backup has
    it. An edit that was seen and is in no backup is never overwritten.
  * *Work.* The service ends under a workflow only if a stop under way was given up on
    (`loose`): the process outlived the 20 seconds it is given, or `Stop` raised although
    it was carried out (`switch_managed_release.py:193`). In both cases the lock on the
    workflow database is released while the process may still go.
  * *One failure*, with nobody editing the task and no stop given up on, leaves a service
    running. After a stop given up on it may stay down. A restored task that does not
    name the old bundle (`ROLLBACK_TARGET_MISMATCH`, line 264) is not started.

### 2.7 Transfers and searches: FileTransfer, SearchSessions

`FileTransfer` holds one lock throughout `handle`, so only the clock, other
programs and a kill come between. A commit is three actions (check, link, end),
because other programs may write the target between them. When the temporary
name cannot be removed after the link, the result is not remembered and a
repeated commit is told `TRANSFER_TARGET_EXISTS`.

`SearchSessions`: every search has a collector thread and a timer; stop, release,
owner's end and shutdown take the search's lock. Closing a job may fail.

### 2.8 The coding tools

* `CommandRuns`: an action is one section of `commands_lock` or one effect between two
  (spawning, killing, joining). Between the removal of a finished command and its
  entry among the retained ones, a lookup answers `COMMAND_NOT_FOUND`.
* `CommandOutput`: head, rolling tail and cursor of one stream, as arithmetic on
  offsets; the byte at offset n is the number n, so nothing can be mistaken.
* `PatchStaging`, `PatchHunks`: what `apply_patch` makes of its operations and hunks,
  against reference definitions. `PatchStaging` takes one operation a step and carries
  the workspace as the operations alone would leave it beside the staged files, which
  `StagedAsWritten` compares; `PatchHunks` compares with `Expected`, which says line by
  line what is inserted before a line and whether it stays. Its sorts put the hunks at
  their ranks in an order (a set of pairs that keeps hunks at one place in the patch's
  order): what a sort does rather than how, and what a proof can use. Two operations of
  one patch that create the same new file are accepted and the later wins: what is
  refused is a file on disk (`server.py:2306`, for a move).
* `PatchCommit`: prepare, back up, install, roll back, every system call of which
  may fail, with other programs writing the files. A file that somebody creates
  during the commit can be replaced (`NewFilesNotOverwritten` is not kept: the
  check and the rename are two steps), against "Conflicts are retryable and never
  silently overwrite a newly-created target" (`docs/runtime-contract-v0.3.md:235-236`);
  no run checks it, and `AllOrNothing` does not cover new files.
* `FilePages`, `TextSearch`, `FileListing`: the reading tools with their limits. A
  listing may be short without saying so when fd's own limit counts files the
  tool then drops (`server.py:1959`, `:2026`): `ListingIsWhole` names this
  exception (`lost`), `UntruncatedIsWhole` is the property without it.

### 2.9 The server and the desktop client

* `RpcFront`: any message with any headers, answered by the shared dispatcher over
  HTTP and stdio. There is no state between messages; Init is every message, and one
  step answers it. The dispatcher looks at the tool's name or the resource's URI first
  and refuses a message without one; only then can a handler refuse or fail
  (`Asked`). It fails with an exception that is no JSON-RPC error when the host cannot
  read the file of a UI resource (`desktop_console.py:308-320`) or the trace of a tool
  call cannot be written (`server.py:1605-1667`); counting a request and starting a
  telemetry session are taken not to raise.
* `OAuthCodes`: registration, authorization and token requests on threads, each
  lock section one action; expiry, eviction at the limits, restart. A token request
  presents any redirect, resource and verifier of `Terms`, whatever was approved, and a
  token remembers what was presented for it, so that `TokensAreApproved` can compare
  each with the approval.
* `Telemetry`: counting under the lock and telling outside it, so that events of
  two threads may be told in the other order (`session_start` after
  `session_end`); the queue overflows, the sender takes batches. `happened` is a log of
  the requests and calls served, kept beside the counters, and `summed` is that log when
  the session was finished: `TelemetryAddsUp` compares the counters and every summary
  with them, tool by tool. Calls counted after the end are in no summary, and calls
  made before a session is active are in its summaries but their failures are not told.
* `ClientRuntimes`: pids are reused, processes die, strangers listen on the port, the
  client crashes, a setting is changed. Lookups with no wait between them are one
  step. As the code does, a start takes whoever listens on the port; after a failed tunnel
  it ends whatever has the remembered pid (`runtime.py:119`); a process tree told to end
  does end here, although `_terminate_process_tree` swallows every failure
  (`runtime.py:910-925`) and a stop then clears the state file all the same; a runtime orphaned
  before it listens cannot be found after a change of the settings, so
  `NothingIsLost` is about runtimes once seen listening.

## 3. The runs

Safety runs use symmetry where the instance treats values alike (threads,
callers, owners, request ids, Futures); runs with temporal properties that need
fairness use none.

| Run | Instance | Shows |
|---|---|---|
| `registry_leases` | a writer of `repo`, a reader of `repo/lib`, 2 threads | `TypeOK`, `ProjectsNotShared`, `NothingOutlivesItsLease`, `CacheAgrees`, `CallsKeepTheirResource`, `ReclaimsOnlyIdle`, `StoppedIsEmpty`, and that the registry implements `ProjectLease` (`LeaseSpec`) |
| `registry_resume` | 1 workflow, 2 threads, 2 resume ids, 2 rotations | `HandedTokensWork`, `ReplacedCredentialsAreDead` |
| `registry_liveness` | 1 workflow, 2 threads, fair | `ClosingSettles` |
| `journal_receipts` | 2 owners, 1 request id, 2 digests, 2 callers, 1 record, fair | `TypeOK`, `ReceiptsAreTrue`, `OutcomesAreFinal`, `LateAnswersRecorded` |
| `journal_capacity` | 2 owners, 2 request ids, 1 caller, 2 records | `AtMostOnce` |
| `executor_fence` | 1 owner, 2 calls, 2 callers, 2 generations | `TypeOK`, `OneGenerationWorks`, `CloseMeansQuiet`, `DrainMeansQuiet`, `ResolvedOnce` |
| `executor_liveness` | 1 owner, 2 calls, 1 caller, 2 generations, fair | `CallsSettle`: after an unknown outcome the generation retires, and every call is resolved |
| `coding_tools` | the modules of 2.8 and `SearchSessions`: 2 files, 2 commands, 2 searches, 3 operations of a patch; fair | `AllOrNothing`, `PatchIsExact`, `OutputAccounted`, `NoProcessIsLost`, `FileToolsHonest`, `SearchesSettleOnce` |
| `local_machine` | 2.6, `HostCleanup` and `TaskCleanup`: 2 tasks, 1 session and 1 application at a time, up to 3 failures; fair | `LockCoversEverything`, `UpdatesAreSafe`, `EndsAreWhole`, `RetryIsHeard`, `EndReturns` |
| `shared_use` | 2.5, 2.9, `HostCalls`, `FileTransfer`: 2 calls, workflows, windows, pages, transfers or threads, 3 browser requests | `BrowserIsTrue`, `DesktopIsMinded`, `NothingIsLost`, `CallsAreJudged`, `CountsAddUp`, `UploadsOnlyCreate`, `TokensAreApproved` |
| `patch_hunks` | texts of at most 3 lines, 2 hunks of 2 lines | a violation, see section 4 |
| `http_notifications` | every message | a violation, see section 4 |

Deadlock is checked by the runs of the core. The composite runs and the two
violations say `CHECK_DEADLOCK FALSE`: their components come to an end (a patch
is committed, a message answered, every bounded call made), which is no error;
where a wait could block for good, a leads-to property says that it does not.

Why the bounds are enough for the interesting cases:

* *Two workflows on nested directories* is the smallest conflict, and the
  nesting makes both directions of the overlap test matter. A second conflicting
  `begin` can race with every section of the first workflow's activation,
  ending and expiry, which takes two threads. The theorems remove this bound.
* *Two resume ids and two rotations* let an answer be lost, another request
  rotate, and the first be repeated. A thread may still wait with either of the
  replaced credentials.
* *One record* (`MaxRecords`) makes every reservation a question of capacity,
  with two owners so that one may be closed and reclaimed. *Two records* let a
  receipt survive the reclaiming of another.
* *Two generations* allow one reconnection: `MaxGenerations` is a guard of
  `Submit` only. Two calls let one end while the other is uncertain. That a drain
  of one owner is not misled by another is proved (`DrainIsQuiet`), not run.
* *Two files of a patch with two failing system calls* let a commit fail with one
  original moved and let its rollback fail as well. *Three operations* are a chain,
  such as a file moved away, added again and updated.
* *A buffer of 4 bytes and a stream of 9* let head and tail fill, the tail roll past a
  cursor twice, and a read begin inside what was dropped.
* *One active and one retained command of two* make each limit bite.
* *Three failures* in a service or a cleanup (two in a search) let a step fail, fail
  again when repeated, and another fail behind it. *Two troubles* in a switch let a step
  and then its rollback fail.
* *Three browser requests and two sessions* let a late reply of a first request meet
  a second one of the same worker, and a third one of the next worker.
* *Two redirects, two resources, two verifiers* with four combinations presented
  (`FourTerms`) let each of the three differ from the approval alone. *A clock of one
  tick, codes that live for none and tokens for one* let a code be presented in its time
  and after it, and a token be judged before and after it lapses.
* *Two tools, two calls, one told failure* let a failure be told and the next be
  dropped, of one tool or of two, before and after the session ends; *a queue of two*
  overflows with the summaries.
* *Four births of two pids* let a pid be reused by a process of another kind.

### 3.1 Fairness

* Registry (`Fairness`): every thread that can run a section of admission or
  ending eventually runs one. The code's threads are ordinary OS threads, gate
  and lock waits are bounded by the sections themselves or by
  `cleanup_timeout`. *Nothing* is assumed of tool calls, factories, arriving
  requests, the clock or a crash: `ClosingSettles` holds although the call that
  `_end` waits for never returns, because the wait has a deadline.
* Journal: a Future runs its done callbacks in the thread that resolved it.
* Executor: threads and callbacks run (`Living`, `Finishing`), and the
  client answers or fails a call within its 300 second timeout
  (`ReplyError`). That a native worker eventually ends is an assumption on the
  external server; without it a generation cannot be joined and the code
  rightly stays fenced.
* Searches: the collector thread and the timer of a search run. Nothing is assumed of
  rg, which may never end by itself, nor of who stops it.
* Tunnel supervisor: its worker begins what is due, time passes (`Due`), and an attempt
  goes on (`Attempt`), since its waits have deadlines.
* Ends of tasks: a thread inside a start, a call or an end goes on, since launches,
  readiness and worker calls have deadlines. `EndLock` is strongly fair: the session
  lock is free again and again, and `threading` hands it to a waiting thread in the end.

## 4. Where the code differs from what it says

* `patch_hunks`: "A patch may only change the lines it names."
  (`tests/compliance/test_runtime_helpers.py:1630`). `apply_update_hunks("a", [["+b"],
  ["-a"]])` returns `"a"`: the hunk without context is matched at line 0, the hunk that
  removes `a` as well, and since `sorted(..., reverse=True)` keeps ties in order
  (`patching.py:394`) the insertion goes first and the second hunk removes the line just
  inserted. The patch is reported as applied, and neither of its changes is there. In the
  same way `("a\nb\n", [["+x"], ["-a", "+A"]])` gives `"A\na\nb\n"`.
  `OnlyNamedLinesChange` compares, for every hunk, the lines that it replaces when it is
  applied with those it names; for hunks at different lines `DistinctHunksExact` holds
  (in `PatchIsExact`).
* `http_notifications`: "A notification — a message with no `id` — is answered with
  nothing whatever goes wrong inside it: over HTTP with an empty `202`"
  (`docs/runtime-contract-v0.3.md:181`). `handle_rpc` (`server.py:5165`) answers one whose
  handling raises anything but a `JsonRpcError` with code -32603, a null id and a body;
  stdio stays silent. The run shows a `resources/read` that names a resource whose
  handler fails (2.9 says when). A message that names none is refused with a
  `JsonRpcError`, and silenced. `OneVerdict` (in `CallsAreJudged`) is what does hold.

## 5. The proofs

Every invariant and every action property that a passing run checks is also a theorem;
only liveness is left to TLC (section 5.7). The numbers of workflows, threads, paths,
requests, calls, callers, files, lines, searches, windows and so on are arbitrary: sets
of any size, finite where the code keeps a counted table.

| Module | Theorem | Property |
|---|---|---|
| `WorkflowRegistryProofs` | `TypeCorrect` | `TypeOK` |
| | `CacheCorrect` | `CacheAgrees` |
| | `ProtocolCorrect` | `LeaseInv`, the inductive invariant |
| | `LeaseCoversWork` | `NothingOutlivesItsLease` |
| | `Exclusion` | `ProjectsNotShared` |
| `WorkflowRegistryPromises` | `Implements` | `LeaseSpec` |
| | `CallsAreServed` | `CallsKeepTheirResource` |
| | `ReclaimsAreIdle` | `ReclaimsOnlyIdle` |
| | `StoppedForGood` | `StoppedIsEmpty` |
| | `OldCredentialsAreDead` | `ReplacedCredentialsAreDead` |
| | `HandedTokens` | `HandedTokensWork` |
| `OperationJournalProofs` | `TypeCorrect` | `TypeOK` |
| | `OnlyOnce` | `AtMostOnce` |
| | `TrueReceipts` | `ReceiptsAreTrue` |
| | `FinalOutcomes` | `OutcomesAreFinal` |
| `BFExecutorProofs` | `TypeCorrect` | `TypeOK` |
| | `GenerationsApart` | `OneGenerationWorks` |
| | `DrainIsQuiet` | `DrainMeansQuiet` |
| | `CloseIsQuiet` | `CloseMeansQuiet` |
| | `OutcomeOnce` | `ResolvedOnce` |
| `CodingToolsProofs` | `PatchesStayWhole` | `AllOrNothing` |
| | `PatchesStayExact` | `PatchIsExact` |
| | `OutputStaysAccounted` | `OutputAccounted` |
| | `NoProcessGetsLost` | `NoProcessIsLost` |
| | `VerdictsStayKept` | `VerdictsAreKept`, the safety part of `SearchesSettleOnce` |
| | `FileToolsStayHonest` | `FileToolsHonest` |
| `LocalMachineProofs` | `LockIsKept` | `LockCoversEverything` |
| | `UpdatesStaySafe` | `UpdatesAreSafe` |
| | `EndsStayWhole` | `EndsAreWhole` |
| `SharedUseProofs` | `BrowserStaysTrue` | `BrowserIsTrue` |
| | `DesktopStaysMinded` | `DesktopIsMinded` |
| | `NothingGetsLost` | `NothingIsLost` |
| | `CallsStayJudged` | `CallsAreJudged` |
| | `UploadsStayCreations` | `UploadsOnlyCreate` |
| | `TokensStayApproved` | `TokensAreApproved` |
| | `CountsStayRight` | `CountsAddUp` |

What the theorems assume of the constants are the named assumptions of the modules,
which TLC evaluates on every run. Those of the core say that null values differ from
threads, workflows and owners, access is read or write, capacity is a natural number,
there is at least one generation. Those of the composites say that bounds are natural
numbers and the limits that the code divides by or takes an element from are not zero,
that the names used for "nobody" are not those of an actor, that what token requests
present is made of the redirects, resources and verifiers there are, and that the sets the code
counts or adds up over (commands, searches, tasks, pages, pids, transfers, threads,
tools) are finite. Two say
what the code guarantees: a patch names a path once
(`CodingToolsAssumption`; `PatchStaging` collects its files by path), and what an update
replaces of the old release are files of one of the two releases
(`LocalMachineAssumption`).

### 5.1 The registry

`NothingOutlivesItsLease` is not inductive: that `_end` may set ENDED depends on
who holds the gate and on what the sections between have established. The
inductive invariant is `IInv == TypeOK /\ LeaseInv`. Its parts, in the order they are needed:

1. `ProcessKnown`: no thread runs while the host is down; one thread recovers.
2. `CacheAgrees`: `_end` and `activate` decide on the cached state, so it must
   tell them what the row says.
3. `DirectEnds`, `GateHeld`: which sections run with the gate of their row
   held, and that the holder is exactly the thread in such a section.
   Two threads can therefore not be in factory, drain or cleanup of one row.
4. `CallsCounted`, `StartsCounted`: `inflight` and `starting` are exactly the
   calls in their body and the activations in their factory.
5. `RowsExist`: no section is about a row that was never begun.
6. `UnstartedOwnsNothing`: a row that has not started or has ended owns nothing.
7. `SectionsKnow`: what each section of `activate` and `_end` may still rely on
   after its waits, whatever other threads and the expiry loop did meanwhile.
8. `LeasesExclusive`: rows that hold leases do not conflict.

`UnstartedOwnsNothing` gives `LeaseCoversWork`; with `LeasesExclusive` it gives
`Exclusion`, since a workflow with debris holds its lease. Every part is shown
kept by groups of actions (arrivals, admission, ending, outside, environment),
with one step per action and small lemmas for the moves of a thread (`Go`,
`Return`, `BackToCaller`) that many actions share.

*Refinement.* The initial states agree. A step that leaves every row on its side
of the lease is a stutter, or `Use` or `Clean` when debris appears or goes;
a step that ends leases is a `Turnover`, and `IInv` says that what ends has no
debris and what begins conflicts with nobody.

*Calls.* On top of `IInv`, `CallInv` says which sections each public call can be
in (`OpsFit`), that a call in its body has its resource (`Served`), that
an explicit end holds an accepted credential until it takes the gate
(`EndsAccepted`), that a reclaim is of an idle workflow (`ReclaimsOnlyIdle`, which
is inductive with the rest) and that a stopped host owns nothing
(`NothingRemains`). For credentials, `OneCredential` says that a workflow's only
live credential is its newest generation; `HandedTokensWork` needs it because
`resume` may answer with a stored credential.

### 5.2 The journal

`Inv` of `OperationJournalProofs` relates a request's row, its Future and
what happened to the world:

1. `CallsRecorded`, `CallersApart`: a caller inside `run` has a row with its
   digest, of an owner that is not closed, and shares it with no other caller.
   The row cannot be reclaimed under it.
2. `EffectsTruthful`: a request without a row has not been executed unless its owner
   is closed; a settled row carries the digest and outcome of the one execution;
   a resolved Future holds that outcome.
3. `SectionsAware`: what the caller knows in each section. In `reserved` nothing has
   happened yet, in `running` the tool's outcome is still open, in `complete` the
   outcome about to be recorded is the true one.
4. `AnswersTrue`, `NotifiedDone`, `NoRowsBlank`: the answers given, the callbacks
   due, and rows that were never written.

All writers of a row (`_complete` in the caller or the callback, `_unknown`,
`_prune`, restart) satisfy `Kept`: the receipt stays, and a settled outcome is
not touched. `OnlyOnce` then rests on the reservation alone: it needs a missing row
of an open owner, so the request has not been executed.

### 5.3 The executor

`Inv` of `BFExecutorProofs`:

1. `Succession`: generations before the current one are dead, later ones have not
   started, and only a serving one is connected.
2. `NoneLeft`: a dead generation has no request.
3. `Accounted`: a call is in the tables of its generation exactly until it is
   claimed and pending until it is discarded; a result means that the worker
   ended, an error that the owner is marked uncertain; a running worker keeps
   its generation from dying.
4. `Drains`: a call that a drain has seen and that still runs is in the snapshot,
   or its owner is uncertain in the snapshot's generation. This is what closes
   the gap between the wait and the check: the error that resolves a Future
   marks the owner first.
5. `Closes`: the owner of every unresolved call is still to be drained.

`Grows` states what no step takes back (owners, resolution, uncertainty,
closing), so that a waiting caller's knowledge survives every other step
(`CallerKept`).

### 5.4 The composites

A composite has one invariant, `CodingInv`, `MachineInv` or `SharedInv`: for every
component, `part = "..." =>` its inductive invariant. Each step is a step of the
component that `part` names and leaves `part` alone, so a proof module holds, for
every component, a lemma that `Init` establishes its invariant, one that `[Next]`
preserves it, and one that it implies the component's property; three lemmas at the end
of the module (`MachineInit`, `MachineStep`, `MachinePreserved` and so on) put them
together, and the theorems follow by `PTL`. They are about `Spec`, without fairness,
and so about `FairSpec` as well. `SharedDesktopProofs` has the components of
`SharedUse` that act on the desktop, and no theorem of its own.

An invariant is written in terms of the composite's variables, under the name of its
component: `DeskInv`, `OAuthInv`, `CommitInv`. It says first what every variable is
(`...Typed`), more narrowly than `TypeOK` where a step depends on it. What it adds is
named below. Each of these was checked by TLC as an invariant of the run before it was
proved.

### 5.5 The coding tools

* *Commit.* `CommitProgress` says what is prepared and installed from where the commit
  is, for every path, whatever others do to the files. `CommitUntouched` says, for every
  path that nobody else wrote, how far it has come (`CommitReached`): as found, moved to
  its backup, installed, and in a rollback that what `_rollback` will make of it is its
  old content, or for those already taken that the old content is in place or in the
  backup.
* *Staging.* `StageInv` compares what is staged with what the operations would have
  left: for every path, the staged file if there is one, else the one on disk, is what
  the operations carried out one after the other make of it.
* *Hunks.* The hunks are ranked downwards, and since none reaches past the start of the
  next one (`HunksApart`) what a splice replaces lies before everything that was spliced
  already. The text after k splices is therefore described from its end: from the first
  line that the k-th hunk matched on, it is what `Expected` makes of these lines
  (`SameRest`), and before it the file as found. `OneReplaced` is that fact for one
  hunk, `NextReplaced` the step from one to the next, `AllReplaced` the whole;
  `NothingInserted` and `OneInserted` compute `Expected` at lines where no hunk starts
  and where one does, which is where the property needs the hunks to start at different
  lines. `FoldLeft` and `FlattenSeq` are recursive in the community modules:
  `SplicesExist` and `JoinsExist` give the sequence of their intermediate results,
  `RewrittenStepwise` and `Flattened` say that it ends in theirs. The induction over
  these sequences is over the set of numbers for which a fact holds (`Reached`).
* *Output.* Head and tail are consecutive bytes of the stream (`OutputFrom`), the tail
  ends at its end, between them exactly `outputLost` bytes are gone, and what a poller
  was given and what it was told was omitted add up to its cursor (`OutputPolled`).
* *Commands.* `RunsSlots` counts the slots: calls that start plus commands in the table
  are within the limit. `RunsKnown` says where a command of each stage of `exec_command`
  and `kill_command` can be, and `RunsReached` that one alive is starting, in the table,
  being ended, or told to end by a shutdown that has begun.
* *Searches.* `SearchKnown` relates collector, timer and stopper of a search: the
  collector only finishes after the process is dead, a stop only forgets a search it has
  joined. A verdict is only written where none stands.
* *Pages.* `PageLines` says that the lines reached so far are those shown whole or cut,
  and only lines longer than the limit are cut; `PageShown` that the ranges the pages
  claim are disjoint and cover them. That a page always gets further needs `PageEnds`:
  the ends of lines grow, which the model says of neighbours. The step from neighbours
  to any two lines is an induction; the proof takes the least line that breaks the order
  (`LeastNumber`, by the pigeonhole principle of `FiniteSetTheorems`).
* *Text search and listing.* Who killed rg, and why, is recorded by then (`TextSteps`);
  what fd or a walk has found is all of what it visited, or the limit was hit, or
  a place was lost (`ListFinds`, `ListWalks`).

### 5.6 The machine and what is shared

* *Service.* Without a supervisor there is no attempt, runner or client, and at most one
  client, which belongs to a started runner (`ServiceOwned`); without the lock there is
  nothing at all (`ServiceLockHeld`); and `ServiceStopKnows` records what each stage of a
  stop may rely on although attempts, retries and the maintenance thread go on beside it.
  A stop that reports no error has nothing left when it releases the lock because of
  the chain of these stages: the stop flag is set before the attempt is joined, no
  attempt begins after it, and from there on either the tunnel is gone or the stop
  failed.
* *Release switch.* `SwitchLocked` and `SwitchLooked` hold whatever happens: the lock on
  the database spans the end of the process unless a stop was given up on, and at every
  write the task is what the comparison before it saw (for the registration: and saved),
  or an edit nobody has looked at. `SwitchTask` and `SwitchService` say, for a switch that
  nobody disturbed, in which no stop was given up on and one step failed at most, which task is registered and which service runs at each
  of its steps; that table is what makes one failure survivable.
* *Packages.* `MayBe` says what a file of the new directory may hold at each step of a
  preparation, those still to do being arbitrary; `UpdateManifests` that a manifest is
  the old one or one of a whole release. A digest cannot be right for a mixed directory.
* *Task ends.* `TaskLock` gives the session lock to the section that holds it,
  `TaskBooks` keeps every launched application under one heading of the WebView2
  manager's books, `TaskEnd` says what an end whose hooks did not fail has left;
  `TaskCounted` adds the headings up, since the limit is on their sum.
* *Workflow cleanup.* The parts that `close` has passed (`Passed`) hold nothing unless
  their own step failed.
* *Calls of a workflow.* The gate is held exactly by the caller that runs a write
  (`HostGateHeld`); journaled calls have a receipt of their kind once they are cleared
  (`HostCallsFit`); work that is not native still has its caller in the tool
  (`HostAttended`), so that holding the gate means that no such write is at work. Native
  writes outlive their callers; that they too follow each other rests on
  `HostWritesAlone`, since a call is only cleared when the look for unresolved writes
  found none. `HostIdsOnce` adds that two callers are never cleared for one request id.
* *Browser requests.* A frame waits in the worker's queue at most once and never beside
  its answer (`BrowserFrames`); the record is as far as the call that holds the lock
  (`BrowserCalling`). An answer that waits says of the effect what the worker knew
  (`BrowserTrue`), and a finished record what its answer said (`BrowserOk`). A request not sent has
  done nothing, which is what lets the recovery call a queued one failed and a
  dispatched one unknown.
* *Pages of the browser.* News of a page that have not arrived excuse what is known of
  it: an open page is owned, or about to be looked at (`BrowseOwned`); documents seen
  are the one shown, or the page has moved on and the news say so (`BrowseKept`,
  `BrowseCollecting`).
* *Desktop sessions.* A call that was overtaken read an older epoch, a call that sends
  has the lease and the window of a workflow that is not closed, and one that sent an
  event too late finds that out at its next check (`DeskCalling`).
* *Windows.* Nothing is done to a window but by the call that has its lock
  (`WindowLeft`), which knows how the person left it or excuses it (`WindowHas`).
* *Client runtimes.* A runtime that was seen listens for the present settings, and the
  session in memory is of it or empty (`ClientFinds`); the only tunnel is of the present
  settings and known to the stop under way (`ClientLeads`). A birth is one process's,
  so that a pid given again is told apart.
* *Authorization.* A code is what its user approved (`OAuthIs`), and is pending, with one
  token request, or spent (`OAuthAsked`); a token was given for what its code was approved
  for, in its time (`OAuthToken`). For `LeavesForCause` the code that
  goes when there is no room is the oldest: a finite set of numbers has a least one
  (`Least`).
* *Transfers.* While a commit is between its check and its link the upload stays
  complete and unchanged, since the lock is held (`TransferCommits`). The
  sizes recorded and that of an orphan are within the limit together, a transfer that has
  not begun is in neither, and one that is not over is recorded (`TransferKeeps`); no
  owner has more than its share (`TransferShares`).
* *Counters.* Each counter is the number of calls in the log that it counts
  (`TellCounted`; one call more adds one to one row, `TellRowsLater`). Everything told of
  a session is accounted for by what is told plus what a thread is about to tell
  (`Total`): one start, at most one end (`TellSession`), and of the failures those counted
  as sent, the others being dropped (`TellFailures`). One thread takes the counters when
  it finishes the session, so the summaries and the end are in one sequence, in what it is
  about to tell or in what is told, and are what the log then says (`TellWhole`).
* *Sums.* `FileTransfer` and `Telemetry` add up with folds over sets. `OneSolution` says
  that the recursive equation of such a fold has one solution: two that differ do so on
  a least set, whose cardinality the equation contradicts. A count of pairs, one for
  every unit of every element (`Tally`), solves it too (`TallyStep`), and about a
  cardinality the library's theorems say what a sum needs without an induction.
* *Messages.* What was answered is the dispatcher's answer to this message
  (`FrontInv`); the rest is a case distinction over envelopes, headers and faults.

### 5.7 Only model-checked

* Liveness: `ClosingSettles`, `LateAnswersRecorded`, `CallsSettle`, `RetryIsHeard`,
  `EndReturns` and the leads-to of `SearchesSettleOnce`. Liveness under fairness, and
  `ENABLED`, are out of the prover's reach.
* What `patch_hunks` refutes has no theorem: hunks that start at the same line.

No module declares a RECURSIVE operator, and the induction rules of the library, which
take an operator that no installed prover can instantiate, are not used: where a proof
needs induction over numbers it takes the set of those for which a fact holds, or the
least one for which it does not.

## 6. Not modelled

* Reading and formatting without state of its own: project context, descriptors,
  settings, diagnostics, logs, previews, labels, XML of the scheduled task.
* Windows itself: what `native_input.py`, window enumeration and element trees do on a
  desktop. Their checks before each event are in `DesktopControl` and `WindowControl`.
* What is done to a WebView2 application once it runs (`hybrid/attach.py`); how browser
  uploads are staged and downloads stored (that staging fails, that files set are not
  confirmed and that a download is too large are in `BrowserCalls`), and the patterns of
  the URL guard (that it refuses before and after a navigation is); window bindings of
  the task store.
* Git tools, images, standard input and decoding of commands; the parser of the patch
  text. They are functions of bytes, better tested than modelled.
* Cryptography, hashes and the security policy.
* User interfaces, packaging scripts, benchmarks, the cloud relay (a separate deployment).
