---------------------------- MODULE PatchStaging ----------------------------
(***************************************************************************)
(* What apply_patch makes of the operations of one patch before it writes  *)
(* anything: they are staged one after another, each looking at the files  *)
(* on disk for what exists and at the earlier operations for contents.  A  *)
(* content is the name it has on disk, or "added", with its edits counted. *)
(***************************************************************************)
EXTENDS Naturals

CONSTANTS Names, MaxOperations      \* MaxOperations bounds the patch

VARIABLES
    disk,       \* the files there are
    staging,    \* how far the patch is, and what it has staged
    count,      \* of the operations staged
    written     \* the files if each operation were carried out at once
vars == <<disk, staging, count, written>>

Gone == [from |-> "nowhere", edits |-> 0]
Added == [from |-> "added", edits |-> 0]

Operations == [kind : {"add", "delete", "update"}, path : Names]
                  \cup [kind : {"move"}, path : Names, to : Names]

(* What the patch holds of a path: the staged content, Gone for a staged    *)
(* deletion, and before any operation on it the content on disk.            *)
OnDisk(p) == [from |-> p, edits |-> 0]
Known(staged, p) == IF p \in DOMAIN staged THEN staged[p] ELSE OnDisk(p)
With(staged, p, c) == [q \in DOMAIN staged \cup {p} |-> IF q = p THEN c ELSE staged[q]]
Edited(c) == [c EXCEPT !.edits = @ + 1]

Init ==
    /\ disk \in SUBSET Names
    /\ staging = [status |-> "pending", files |-> << >>]
    /\ count = 0
    /\ written = [p \in Names |-> IF p \in disk THEN OnDisk(p) ELSE Gone]

Refuses(staged, op) ==
    \/ op.kind = "add" /\ op.path \in disk
    \/ op.kind # "add" /\ op.path \notin disk
    \/ op.kind \in {"update", "move"} /\ Known(staged, op.path) = Gone
    \/ op.kind = "move" /\ op.to \in disk /\ op.to # op.path

\* Mutant: every operation starts from the file on disk.
StagedFromDisk(staged, op) ==
    CASE op.kind = "add" -> With(staged, op.path, Added)
      [] op.kind = "delete" -> With(staged, op.path, Gone)
      [] op.kind = "update" -> With(staged, op.path, Edited(OnDisk(op.path)))
      [] op.kind = "move" -> With(With(staged, op.path, Gone), op.to, Edited(OnDisk(op.path)))

Staged(staged, op) ==
    CASE op.kind = "add" -> With(staged, op.path, Added)
      [] op.kind = "delete" -> With(staged, op.path, Gone)
      [] op.kind = "update" -> With(staged, op.path, Edited(Known(staged, op.path)))
      [] op.kind = "move" ->
            With(With(staged, op.path, Gone), op.to, Edited(Known(staged, op.path)))

(* What the operation does to the files themselves.                         *)
CarriedOut(op) ==
    CASE op.kind = "add" -> [written EXCEPT ![op.path] = Added]
      [] op.kind = "delete" -> [written EXCEPT ![op.path] = Gone]
      [] op.kind = "update" -> [written EXCEPT ![op.path] = Edited(@)]
      [] op.kind = "move" ->
            [[written EXCEPT ![op.path] = Gone] EXCEPT ![op.to] = Edited(written[op.path])]

(* One operation of the patch; one that is refused refuses the patch.       *)
Stage(op) ==
    /\ staging.status = "pending" /\ count < MaxOperations
    /\ count' = count + 1
    /\ IF Refuses(staging.files, op)
         THEN staging' = [staging EXCEPT !.status = "refused"] /\ UNCHANGED written
         ELSE /\ staging' = [staging EXCEPT !.files = Staged(@, op)]
              /\ written' = CarriedOut(op)
    /\ UNCHANGED disk

(* The last operation was staged: the files go to the commit.               *)
Accept ==
    /\ staging.status = "pending" /\ count > 0
    /\ staging' = [staging EXCEPT !.status = "staged"]
    /\ UNCHANGED <<disk, count, written>>

Next == (\E op \in Operations : Stage(op)) \/ Accept
Spec == Init /\ [][Next]_vars

-----------------------------------------------------------------------------
(* A patch that is accepted leaves the files its operations leave when they *)
(* are carried out one at a time, although contents are judged by the       *)
(* staged ones, existence by the disk, and each path is committed once      *)
(* (server.py apply_patch).                                                 *)
StagedAsWritten ==
    staging.status = "staged" =>
        \A p \in Names :
            (IF p \in disk \cup DOMAIN staging.files THEN Known(staging.files, p) ELSE Gone)
                = written[p]
=============================================================================
