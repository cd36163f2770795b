---------------------------- MODULE CommandRuns -----------------------------
(***************************************************************************)
(* The commands of one workspace: exec_command starts a process and        *)
(* registers it, its watchdog, polls and kill_command settle it, finished  *)
(* commands are kept for read_output until they are too many or too old,   *)
(* and close() ends everything.  The lock commands_lock is taken section   *)
(* by section; an action is one section, or one effect between two.        *)
(***************************************************************************)
EXTENDS Naturals, Sequences, SequencesExt, FiniteSets

CONSTANTS Commands,             \* the exec_command calls
          MaxActive,            \* MAX_ACTIVE_COMMANDS
          MaxRetained           \* MAX_RETAINED_OUTPUT_COMMANDS

VARIABLES
    exec,         \* where each exec_command is
    proc,         \* its process: none, running, signalled (told to end), exited
    starting,     \* starting_commands
    active,       \* commands
    retained,     \* output_commands, oldest first
    settling,     \* _complete_command has popped it, not remembered it yet
    killer,       \* where kill_command on it is
    managerClosed, ending   \* closed, and what close() has still to terminate
vars == <<exec, proc, starting, active, retained, settling, killer, managerClosed, ending>>

TypeOK ==
    /\ exec \in [Commands -> {"idle", "reserved", "spawned", "refused", "running", "returned"}]
    /\ proc \in [Commands -> {"none", "running", "signalled", "exited"}]
    /\ killer \in [Commands -> {"idle", "term", "kill", "evict"}]
    /\ {active, settling, ending, ToSet(retained)} \subseteq SUBSET Commands
    /\ starting \in 0..MaxActive
    /\ managerClosed \in BOOLEAN

Init ==
    /\ exec = [c \in Commands |-> "idle"]
    /\ proc = [c \in Commands |-> "none"]
    /\ killer = [c \in Commands |-> "idle"]
    /\ active = {} /\ retained = <<>> /\ settling = {} /\ ending = {}
    /\ starting = 0 /\ managerClosed = FALSE

Alive(c) == proc[c] \in {"running", "signalled"}

(* terminate_process_group: the process is told to end and, a second later, *)
(* killed; it is gone at some later step, if at all.                        *)
Terminated(c) == [proc EXCEPT ![c] = IF @ = "running" THEN "signalled" ELSE @]

Exit(c) ==
    /\ Alive(c)
    /\ proc' = [proc EXCEPT ![c] = "exited"]
    /\ UNCHANGED <<exec, starting, active, retained, settling, killer, managerClosed, ending>>

-----------------------------------------------------------------------------
(* exec_command: a slot is reserved under the lock, *)
ExecReserve(c) ==
    /\ exec[c] = "idle"
    /\ ~managerClosed
    /\ Cardinality(active) + starting < MaxActive
    /\ starting' = starting + 1
    /\ exec' = [exec EXCEPT ![c] = "reserved"]
    /\ UNCHANGED <<proc, active, retained, settling, killer, managerClosed, ending>>

(* the process is spawned without it, or is not and the slot is given back; *)
ExecSpawn(c) ==
    /\ exec[c] = "reserved"
    /\ \/ /\ proc' = [proc EXCEPT ![c] = "running"]
          /\ exec' = [exec EXCEPT ![c] = "spawned"]
          /\ UNCHANGED starting
       \/ /\ starting' = starting - 1
          /\ exec' = [exec EXCEPT ![c] = "returned"]
          /\ UNCHANGED proc
    /\ UNCHANGED <<active, retained, settling, killer, managerClosed, ending>>

\* Mutant: the command is registered although everything was closed.
ExecRegisterBlindly(c) ==
    /\ exec[c] = "spawned"
    /\ starting' = starting - 1
    /\ active' = active \cup {c}
    /\ exec' = [exec EXCEPT ![c] = "running"]
    /\ UNCHANGED <<proc, retained, settling, killer, managerClosed, ending>>

(* the command takes the slot's place, unless everything was closed         *)
(* meanwhile: then it is not registered                                     *)
ExecRegister(c) ==
    /\ exec[c] = "spawned"
    /\ starting' = starting - 1
    /\ active' = IF managerClosed THEN active ELSE active \cup {c}
    /\ exec' = [exec EXCEPT ![c] = IF managerClosed THEN "refused" ELSE "running"]
    /\ UNCHANGED <<proc, retained, settling, killer, managerClosed, ending>>

(* but terminated.                                                          *)
ExecRefused(c) ==
    /\ exec[c] = "refused"
    /\ proc' = Terminated(c)
    /\ exec' = [exec EXCEPT ![c] = "returned"]
    /\ UNCHANGED <<starting, active, retained, settling, killer, managerClosed, ending>>

(* The call answers when the process ended, at its deadline, which          *)
(* terminates it, or as soon as it has waited long enough.                  *)
ExecReturn(c) ==
    /\ exec[c] = "running"
    /\ proc' \in {proc, Terminated(c)}
    /\ exec' = [exec EXCEPT ![c] = "returned"]
    /\ UNCHANGED <<starting, active, retained, settling, killer, managerClosed, ending>>

(* The watchdog, or refresh_status of a poll, at the deadline.              *)
Watchdog(c) ==
    /\ exec[c] \in {"running", "returned"} /\ proc[c] = "running"
    /\ proc' = Terminated(c)
    /\ UNCHANGED <<exec, starting, active, retained, settling, killer, managerClosed, ending>>

-----------------------------------------------------------------------------
(* _complete_command, from a prune, a poll or an answer that found the      *)
(* process gone: out of commands in one section,                            *)
Complete(c) ==
    /\ proc[c] = "exited" /\ c \in active \cup ToSet(retained)
    /\ active' = active \ {c}
    /\ settling' = settling \cup {c}
    /\ UNCHANGED <<exec, proc, starting, retained, killer, managerClosed, ending>>

(* output_commands.pop: a command is in it once or not at all.              *)
Without(s, c) ==
    IF c \in ToSet(s) THEN RemoveAt(s, CHOOSE k \in DOMAIN s : s[k] = c) ELSE s

(* into output_commands, as the newest, in the next.                        *)
Remember(c) ==
    /\ c \in settling
    /\ LET kept == Append(Without(retained, c), c)
       IN  retained' = IF Len(kept) > MaxRetained THEN Tail(kept) ELSE kept
    /\ settling' = settling \ {c}
    /\ UNCHANGED <<exec, proc, starting, active, killer, managerClosed, ending>>

(* _prune_commands: what ended too long ago is forgotten.                   *)
Forget(c) ==
    /\ c \in ToSet(retained)
    /\ retained' = Without(retained, c)
    /\ UNCHANGED <<exec, proc, starting, active, settling, killer, managerClosed, ending>>

(* kill_command: ask, insist, and drop the command only when it is gone.    *)
KillBegin(c) ==
    /\ killer[c] = "idle" /\ c \in active \cup ToSet(retained)
    /\ proc' = Terminated(c)
    /\ killer' = [killer EXCEPT ![c] = IF Alive(c) THEN "term" ELSE "evict"]
    /\ UNCHANGED <<exec, starting, active, retained, settling, managerClosed, ending>>

\* Mutant: a command that did not exit is dropped too.
KillWaitCareless(c) ==
    /\ killer[c] \in {"term", "kill"}
    /\ killer' = [killer EXCEPT ![c] = IF @ = "term" /\ Alive(c) THEN "kill" ELSE "evict"]
    /\ UNCHANGED <<exec, proc, starting, active, retained, settling, managerClosed, ending>>

KillWait(c) ==
    /\ killer[c] \in {"term", "kill"}
    /\ killer' = [killer EXCEPT ![c] = CASE ~Alive(c) -> "evict"
                                         [] Alive(c) /\ @ = "term" -> "kill"
                                         [] OTHER -> "idle"]
    /\ UNCHANGED <<exec, proc, starting, active, retained, settling, managerClosed, ending>>

KillEvict(c) ==
    /\ killer[c] = "evict"
    /\ active' = active \ {c}
    /\ killer' = [killer EXCEPT ![c] = "idle"]
    /\ UNCHANGED <<exec, proc, starting, retained, settling, managerClosed, ending>>

(* close(): both tables are emptied under the lock, then the processes that *)
(* were in commands are terminated one after the other.                     *)
Close ==
    /\ ~managerClosed
    /\ managerClosed' = TRUE
    /\ ending' = active
    /\ active' = {} /\ retained' = <<>>
    /\ UNCHANGED <<exec, proc, starting, settling, killer>>

CloseStep(c) ==
    /\ c \in ending
    /\ proc' = Terminated(c)
    /\ ending' = ending \ {c}
    /\ UNCHANGED <<exec, starting, active, retained, settling, killer, managerClosed>>

Next ==
    \/ \E c \in Commands :
          \/ Exit(c) \/ ExecReserve(c) \/ ExecSpawn(c) \/ ExecRegister(c) \/ ExecRefused(c)
          \/ ExecReturn(c) \/ Watchdog(c) \/ Complete(c) \/ Remember(c) \/ Forget(c)
          \/ KillBegin(c) \/ KillWait(c) \/ KillEvict(c) \/ CloseStep(c)
    \/ Close
Spec == Init /\ [][Next]_vars

-----------------------------------------------------------------------------
(* A process that is alive is always somebody's: its exec_command is still  *)
(* to register or to refuse it, a client can reach it in commands, or       *)
(* close() will terminate it; after close() one that remains was told to    *)
(* end.  Registered and starting commands never exceed the limit together.  *)
(* (server.py exec_command, kill_command, WorkspaceCommandManager.close)     *)
NoCommandIsLost ==
    /\ \A c \in Commands : Alive(c) =>
          \/ exec[c] \in {"spawned", "refused"}
          \/ c \in active /\ ~managerClosed
          \/ c \in ending
          \/ managerClosed /\ proc[c] = "signalled"
    /\ Cardinality(active) + starting <= MaxActive
    /\ starting = Cardinality({c \in Commands : exec[c] \in {"reserved", "spawned"}})
=============================================================================
