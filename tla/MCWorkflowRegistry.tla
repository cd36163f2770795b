------------------------- MODULE MCWorkflowRegistry -------------------------
(* Small instances of WorkflowRegistry for TLC. *)
EXTENDS WorkflowRegistry, TLC

CONSTANTS w1, w2, t1, t2, r1, r2

\* w1 writes a project, w2 one of its subdirectories.
NestedProjects == w1 :> <<"repo">> @@ w2 :> <<"repo", "lib">>
OneWriter == w1 :> "write" @@ w2 :> "read"

OneProject == w1 :> <<"repo">>
Writer == w1 :> "write"

TwoThreads == Permutations({t1, t2})
=============================================================================
