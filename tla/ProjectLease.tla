---------------------------- MODULE ProjectLease ----------------------------
(***************************************************************************)
(* What the workflow registry promises about the project directories of    *)
(* the machine (personal_mcp/workflows.py): a workflow is granted a lease  *)
(* on a project, may put processes and files there while it holds the      *)
(* lease, and gives the lease up once, for good, and only when what it     *)
(* started is gone.  Locks, requests, states, the database and restarts    *)
(* do not appear here; WorkflowRegistry is shown to implement this module. *)
(***************************************************************************)
CONSTANTS Workflows,      \* every workflow that is ever begun
          Conflict(_, _)  \* may two workflows not hold leases together?

VARIABLES held,   \* workflows that hold a lease now
          dirty,  \* workflows whose native resources may exist
          past    \* workflows that gave their lease up

vars == <<held, dirty, past>>

Init == /\ held = {}
        /\ dirty = {}
        /\ past = {}

\* Leases S are given up and, in the same transaction, new ones are granted.
Turnover(S, new) ==
    /\ S \subseteq held \ dirty
    /\ new \cap (held \cup past) = {}
    /\ \A w \in new, v \in (held \ S) \cup new : v # w => ~Conflict(v, w)
    /\ held' = (held \ S) \cup new
    /\ past' = past \cup S
    /\ UNCHANGED dirty

\* A workflow starts using its project.
Use(w) ==
    /\ w \in held
    /\ dirty' = dirty \cup {w}
    /\ UNCHANGED <<held, past>>

\* Everything the workflow started has been removed.
Clean(w) ==
    /\ dirty' = dirty \ {w}
    /\ UNCHANGED <<held, past>>

Next == \/ \E S, new \in SUBSET Workflows : Turnover(S, new)
        \/ \E w \in Workflows : Use(w) \/ Clean(w)

Spec == Init /\ [][Next]_vars
=============================================================================
