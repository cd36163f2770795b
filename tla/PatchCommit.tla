----------------------------- MODULE PatchCommit ----------------------------
(***************************************************************************)
(* The commit of one patch: staged changes of several files are prepared   *)
(* beside their targets, every original is moved to a backup, the prepared *)
(* files are renamed into place, and any failure rolls the whole set back. *)
(* patch_lock keeps other patches out; commands and other programs write   *)
(* the files at any step (Meddle).  A system call fails MaxFaults times in *)
(* all.  A file is known by whose version it holds: the one found when the *)
(* patch was staged, the patch's own, somebody else's, or none.            *)
(***************************************************************************)
EXTENDS Naturals, Sequences

CONSTANTS Order,      \* the staged paths, in the order of the patch
          MaxFaults, MaxMeddling   \* bounds: failed system calls, foreign writes

Paths == {Order[k] : k \in DOMAIN Order}
Versions == {"none", "old", "new", "theirs"}

VARIABLES
    file,       \* what each path holds
    want,       \* StagedFile.content: "new", or "none" for a deletion
    base,       \* StagedFile.baseline
    prepared,   \* paths with a prepared temporary file
    backup,     \* what the backup of each path holds, "none" without one
    installed,  \* paths whose prepared file was renamed into place
    step, at,   \* where commit() is: the loop it is in and the change it works on
    errors,     \* paths the rollback could not restore
    touched,    \* paths another program wrote since the patch was staged
    faults, meddling

patch == <<want, base>>
vars == <<file, patch, prepared, backup, installed, step, at, errors, touched, faults, meddling>>

TypeOK ==
    /\ {file, backup, base} \subseteq [Paths -> Versions]
    /\ want \in [Paths -> {"new", "none"}]
    /\ {prepared, installed, errors, touched} \subseteq SUBSET Paths
    /\ step \in {"stage", "prepare", "check", "recheck", "move", "reinstall", "put", "rollback",
                 "committed", "failed", "rollback_failed"}
    /\ at \in 0..Len(Order) + 1
    /\ faults \in 0..MaxFaults /\ meddling \in 0..MaxMeddling

p == Order[at]
Fault == faults < MaxFaults /\ faults' = faults + 1
Goto(there) == step' = there /\ at' = IF there = "rollback" THEN Len(Order) ELSE 1

(* The next change of this loop, or the first of the next loop. *)
Advance(here, next) ==
    IF at < Len(Order) THEN step' = here /\ at' = at + 1 ELSE Goto(next)

Init ==
    /\ file \in [Paths -> {"old", "none"}]
    /\ want \in [Paths -> {"new", "none"}]
    /\ \A q \in Paths : file[q] = "old" \/ want[q] = "new"
    /\ base = file
    /\ prepared = {} /\ installed = {} /\ errors = {} /\ touched = {}
    /\ backup = [q \in Paths |-> "none"]
    /\ step = "stage" /\ at = 1 /\ faults = 0 /\ meddling = 0

(* Another program writes or removes one of the files. *)
Meddle ==
    /\ meddling < MaxMeddling /\ meddling' = meddling + 1
    /\ \E q \in Paths, v \in {"theirs", "none"} :
           /\ file[q] # v
           /\ file' = [file EXCEPT ![q] = v]
           /\ touched' = IF step = "stage" THEN touched ELSE touched \cup {q}
    /\ UNCHANGED <<patch, prepared, backup, installed, step, at, errors, faults>>

(* apply_patch captures a baseline of every path: an addition needs a free  *)
(* path, an update or a deletion a file.                                    *)
Stage ==
    /\ step = "stage"
    /\ \A q \in Paths : want[q] = "none" => file[q] # "none"
    /\ base' = file
    /\ Goto("prepare")
    /\ UNCHANGED <<file, want, prepared, backup, installed, errors, touched, faults, meddling>>

Matches(q) == file[q] = base[q]

(* A system call fails: the whole set is rolled back. *)
Fail ==
    /\ step \in {"prepare", "check", "recheck", "move", "reinstall", "put"}
    /\ Fault /\ Goto("rollback")
    /\ UNCHANGED <<file, patch, prepared, backup, installed, errors, touched, meddling>>

(* _prepare_file writes the new content beside its target. *)
Prepare ==
    /\ step = "prepare"
    /\ prepared' = IF want[p] = "new" THEN prepared \cup {p} ELSE prepared
    /\ Advance("prepare", "check")
    /\ UNCHANGED <<file, patch, backup, installed, errors, touched, faults, meddling>>

(* First all baselines are compared, *)
CheckAll ==
    /\ step = "check"
    /\ IF Matches(p) THEN Advance("check", "recheck") ELSE Goto("rollback")
    /\ UNCHANGED <<file, patch, prepared, backup, installed, errors, touched, faults, meddling>>

(* then each again, just before its original is moved away, *)
Recheck ==
    /\ step = "recheck"
    /\ IF ~Matches(p) THEN Goto("rollback")
       ELSE IF file[p] # "none" THEN step' = "move" /\ UNCHANGED at
       ELSE Advance("recheck", "reinstall")
    /\ UNCHANGED <<file, patch, prepared, backup, installed, errors, touched, faults, meddling>>

Move ==
    /\ step = "move"
    /\ IF file[p] = "none"
         THEN Goto("rollback") /\ UNCHANGED <<file, backup>>
         ELSE /\ backup' = [backup EXCEPT ![p] = file[p]]
              /\ file' = [file EXCEPT ![p] = "none"]
              /\ Advance("recheck", "reinstall")
    /\ UNCHANGED <<patch, prepared, installed, errors, touched, faults, meddling>>

(* and a path without a backup a third time before it is created.           *)
Reinstall ==
    /\ step = "reinstall"
    /\ IF p \notin prepared THEN Advance("reinstall", "committed")
       ELSE IF backup[p] = "none" /\ ~Matches(p) THEN Goto("rollback")
       ELSE step' = "put" /\ UNCHANGED at
    /\ UNCHANGED <<file, patch, prepared, backup, installed, errors, touched, faults, meddling>>

Put ==
    /\ step = "put"
    /\ file' = [file EXCEPT ![p] = "new"]
    /\ installed' = installed \cup {p}
    /\ prepared' = prepared \ {p}
    /\ Advance("reinstall", "committed")
    /\ UNCHANGED <<patch, backup, errors, touched, faults, meddling>>

\* Mutant: only the installed files are restored.
RestoredInstalledOnly(q) == IF q \in installed THEN backup[q] ELSE file[q]

(* _rollback takes the paths in reverse: an installed file is removed, a    *)
(* backup moved back.  A path that fails is reported, the rest goes on.     *)
Restored(q) == IF backup[q] # "none" THEN backup[q]
               ELSE IF q \in installed THEN "none" ELSE file[q]

Rollback ==
    /\ step = "rollback" /\ at > 0
    /\ \/ /\ file' = [file EXCEPT ![p] = Restored(p)]
          /\ backup' = [backup EXCEPT ![p] = "none"]
          /\ UNCHANGED <<errors, faults>>
       \/ /\ Fault /\ errors' = errors \cup {p}
          /\ file' \in {file, [file EXCEPT ![p] = IF p \in installed THEN "none" ELSE @]}
          /\ UNCHANGED backup
    /\ at' = at - 1
    /\ UNCHANGED <<step, patch, prepared, installed, touched, meddling>>

\* Mutant: the backups are removed whatever the rollback reported.
FinishDroppingBackups(outcome) ==
    /\ prepared' = {}
    /\ backup' = [q \in Paths |-> "none"]
    /\ step' = outcome
    /\ UNCHANGED <<file, patch, installed, at, errors, touched, faults, meddling>>

(* The temporary files are removed, and the backups unless the rollback     *)
(* reported errors.                                                         *)
Finish(outcome) ==
    /\ prepared' = {}
    /\ backup' = IF errors = {} THEN [q \in Paths |-> "none"] ELSE backup
    /\ step' = outcome
    /\ UNCHANGED <<file, patch, installed, at, errors, touched, faults, meddling>>

Committed == step = "committed" /\ (prepared # {} \/ \E q \in Paths : backup[q] # "none")
                /\ Finish("committed")
RolledBack == step = "rollback" /\ at = 0
                /\ Finish(IF errors = {} THEN "failed" ELSE "rollback_failed")

Next ==
    \/ Meddle \/ Stage \/ Fail \/ Prepare \/ CheckAll \/ Recheck \/ Move \/ Reinstall \/ Put
    \/ Rollback \/ Committed \/ RolledBack

Spec == Init /\ [][Next]_vars

-----------------------------------------------------------------------------
(* A patch is all or nothing: when it is reported committed every path has  *)
(* the staged content, when it is reported failed every path has the        *)
(* content it had, and when the rollback itself failed the old content of   *)
(* a path it could not restore is still in its backup - for every path no   *)
(* other program wrote meanwhile (patching.py AtomicPatchCommitter).        *)
AllOrNothing ==
    \A q \in Paths \ touched :
        /\ step = "committed" => file[q] = want[q]
        /\ step = "failed" => file[q] = base[q]
        /\ step = "rollback_failed" => base[q] \in {file[q], backup[q]}

(* "A newly-created target has no backup. Do not silently overwrite a file  *)
(* created after patch staging." (patching.py, before the last rename)      *)
NewFilesNotOverwritten ==
    [][\A q \in Paths : base[q] = "none" /\ file[q] = "theirs" => file'[q] # "new"]_vars
=============================================================================
