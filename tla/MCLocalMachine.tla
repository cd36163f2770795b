--------------------------- MODULE MCLocalMachine ----------------------------
(* A small instance of what the host does on its own machine: two tasks, a     *)
(* package of three files and an update of three, and a few failures of each   *)
(* component.                                                                  *)
EXTENDS LocalMachine, TLC

CONSTANTS t1, t2

\* One file of each kind: kept, replaced, added, and the one with the version.
TwoTasks == {t1, t2}
Installed == {"exe", "app1", "ver"}
Updated == {"app1", "app2", "ver"}
BelowApp == {"app1", "app2"}
==============================================================================
