------------------------- MODULE CodingToolsProofs --------------------------
(* The coding tools for every value of the constants: any number of files,    *)
(* commands, searches and lines.  Each component has its inductive invariant; *)
(* a behaviour is of one of them.                                             *)
EXTENDS CodingTools, TLAPS, FiniteSetTheorems, SequenceTheorems

-----------------------------------------------------------------------------
(* The commit of a patch (PatchCommit).                                       *)

\* A patch names at least one path, and each only once.
CommitDistinct ==
    /\ Order \in Seq(Commit!Paths) /\ Len(Order) >= 1
    /\ \A j, k \in 1 .. Len(Order) : Order[j] = Order[k] => j = k
    /\ MaxFaults \in Nat /\ MaxMeddling \in Nat

CommitFiles == [Commit!Paths -> Commit!Versions]
CommitIndex == 1 .. Len(Order)
CommitLoops == {"prepare", "check", "recheck", "move", "reinstall", "put"}
CommitSteps == CommitLoops \cup {"stage", "rollback", "committed", "failed", "rollback_failed"}

CommitContents ==
    /\ file \in CommitFiles /\ backup \in CommitFiles /\ base \in CommitFiles
    /\ want \in [Commit!Paths -> {"new", "none"}]
CommitMarks ==
    /\ prepared \in SUBSET Commit!Paths /\ installed \in SUBSET Commit!Paths
    /\ errors \in SUBSET Commit!Paths /\ touched \in SUBSET Commit!Paths
CommitPlace ==
    /\ step \in CommitSteps
    /\ commitAt \in 0 .. Len(Order) + 1
    /\ step \in CommitLoops => commitAt \in CommitIndex
    /\ step = "rollback" => commitAt \in 0 .. Len(Order)
CommitBounds == faults \in 0 .. MaxFaults /\ meddling \in 0 .. MaxMeddling
CommitTyped == CommitContents /\ CommitMarks /\ CommitPlace /\ CommitBounds

\* Before the rollback, what is prepared and installed follows from where the
\* commit is, whatever other programs do to the files.
CommitProgress ==
    /\ step \in {"stage", "prepare", "check", "recheck", "move"} => installed = {}
    /\ step \in {"stage", "prepare"} => \A k \in CommitIndex : step = "prepare" /\ k < commitAt =>
            (Order[k] \in prepared <=> want[Order[k]] = "new")
    /\ step = "prepare" => \A k \in CommitIndex : k >= commitAt => Order[k] \notin prepared
    /\ step = "stage" => prepared = {} /\ commitAt = 1
                                     /\ \A k \in CommitIndex : backup[Order[k]] = "none"
    /\ step \in {"check", "recheck", "move"} =>
            \A k \in CommitIndex : Order[k] \in prepared <=> want[Order[k]] = "new"
    /\ step \in {"reinstall", "put"} => \A k \in CommitIndex :
            /\ Order[k] \in prepared <=> want[Order[k]] = "new" /\ k >= commitAt
            /\ Order[k] \in installed <=> want[Order[k]] = "new" /\ k < commitAt
    /\ step = "put" => Order[commitAt] \in prepared

\* How far a path that nobody else wrote has come.
CommitReached(k) ==
    LET q == Order[k] IN
    /\ step \in {"prepare", "check"} => file[q] = base[q] /\ backup[q] = "none"
    /\ step \in {"recheck", "move"} =>
          IF k < commitAt THEN file[q] = "none" /\ backup[q] = base[q]
                    ELSE file[q] = base[q] /\ backup[q] = "none"
    /\ step \in {"reinstall", "put"} =>
          /\ backup[q] = base[q]
          /\ file[q] = IF k < commitAt THEN want[q] ELSE "none"
    /\ step = "rollback" =>
          IF k <= commitAt THEN Commit!Restored(q) = base[q]
          ELSE base[q] \in {file[q], backup[q]} /\ (q \notin errors => file[q] = base[q])
    /\ step = "committed" => file[q] = want[q]
    /\ step = "failed" => file[q] = base[q]
    /\ step = "rollback_failed" => base[q] \in {file[q], backup[q]}

CommitUntouched == \A k \in CommitIndex : step # "stage"
                                        /\ Order[k] \notin touched => CommitReached(k)

CommitInv == CommitTyped /\ CommitProgress /\ CommitUntouched

LEMMA CommitPlaces ==
    ASSUME CommitDistinct
    PROVE  /\ Len(Order) \in Nat /\ Len(Order) >= 1
           /\ \A k \in CommitIndex : Order[k] \in Commit!Paths
           /\ \A q \in Commit!Paths : \E k \in CommitIndex : q = Order[k]
           /\ \A j, k \in CommitIndex : Order[j] = Order[k] => j = k
BY DEF CommitDistinct, Commit!Paths, CommitIndex

LEMMA CommitTypedImplies == ASSUME CommitTyped PROVE Commit!TypeOK
BY SMT DEF CommitTyped, CommitContents, CommitMarks, CommitPlace, CommitBounds, CommitFiles,
    CommitLoops, CommitSteps, Commit!TypeOK

LEMMA CommitInvImplies == ASSUME CommitDistinct, CommitInv PROVE Commit!AllOrNothing
<1> SUFFICES ASSUME NEW q \in Commit!Paths \ touched
             PROVE  /\ step = "committed" => file[q] = want[q]
                    /\ step = "failed" => file[q] = base[q]
                    /\ step = "rollback_failed" => base[q] \in {file[q], backup[q]}
  BY DEF Commit!AllOrNothing
<1>1. PICK k \in CommitIndex : q = Order[k]
  BY CommitPlaces
<1>2. step # "stage" => CommitReached(k)
  BY <1>1 DEF CommitInv, CommitUntouched
<1> QED BY <1>1, <1>2, SMT DEF CommitReached

LEMMA CommitInitInv == ASSUME CommitDistinct, Commit!Init PROVE CommitInv
<1>1. CommitContents
  BY SMT DEF Commit!Init, CommitContents, CommitFiles, Commit!Versions
<1>2. CommitMarks /\ CommitPlace /\ CommitBounds
  BY CommitPlaces, SMT
      DEF CommitDistinct, Commit!Init, CommitMarks, CommitPlace, CommitBounds, CommitLoops,
             CommitSteps, CommitIndex
<1>3. CommitProgress
  BY <1>1, CommitPlaces, SMT DEF Commit!Init, CommitProgress
<1>4. CommitUntouched
  BY DEF Commit!Init, CommitUntouched
<1> QED BY <1>1, <1>2, <1>3, <1>4 DEF CommitInv, CommitTyped

LEMMA CommitAdvanceMoves ==
    ASSUME CommitDistinct, commitAt \in CommitIndex, NEW here, NEW next, next # "rollback",
           Commit!Advance(here, next)
    PROVE  \/ commitAt < Len(Order) /\ step' = here /\ commitAt' = commitAt + 1
           \/ commitAt = Len(Order) /\ step' = next /\ commitAt' = 1
BY CommitPlaces, SMT DEF Commit!Advance, Commit!Goto, CommitIndex

LEMMA CommitGotoPlaces ==
    ASSUME CommitDistinct, NEW dest \in CommitLoops \cup {"rollback", "committed"},
           Commit!Goto(dest)
    PROVE  CommitPlace' /\ step' = dest /\ (dest # "rollback" => commitAt' = 1)
BY CommitPlaces, SMT DEF Commit!Goto, CommitPlace, CommitSteps, CommitLoops, CommitIndex

LEMMA CommitAdvancePlaces ==
    ASSUME CommitDistinct, CommitPlace, step \in CommitLoops, NEW here \in CommitLoops,
           NEW next \in CommitLoops \cup {"committed"},
           Commit!Advance(here, next)
    PROVE  CommitPlace'
<1>1. CASE commitAt < Len(Order)
  BY <1>1, CommitPlaces, SMT DEF Commit!Advance, CommitPlace, CommitSteps, CommitLoops, CommitIndex
<1>2. CASE ~(commitAt < Len(Order))
  BY <1>2, CommitGotoPlaces DEF Commit!Advance
<1> QED BY <1>1, <1>2

LEMMA CommitWrites ==
    ASSUME NEW f \in CommitFiles, NEW q \in Commit!Paths, NEW v \in Commit!Versions
    PROVE  /\ [f EXCEPT ![q] = v] \in CommitFiles
           /\ [f EXCEPT ![q] = v][q] = v
           /\ \A r \in Commit!Paths : r # q => [f EXCEPT ![q] = v][r] = f[r]
BY DEF CommitFiles

LEMMA CommitNoBackups == [q \in Commit!Paths |-> "none"] \in CommitFiles
                          /\ \A r \in Commit!Paths : [q \in Commit!Paths |-> "none"][r] = "none"
BY DEF CommitFiles, Commit!Versions

LEMMA CommitWorking ==
    ASSUME CommitDistinct, commitAt \in CommitIndex
    PROVE Commit!p \in Commit!Paths /\ Commit!p = Order[commitAt]
BY CommitPlaces DEF Commit!p

\* What a write of the path at work means for the path at k.
LEMMA CommitWritesAt ==
    ASSUME CommitDistinct, commitAt \in CommitIndex, NEW f \in CommitFiles,
           NEW v \in Commit!Versions, NEW k \in CommitIndex
    PROVE  [f EXCEPT ![Commit!p] = v][Order[k]] = IF k = commitAt THEN v ELSE f[Order[k]]
<1>1. CASE k = commitAt
  <2>1. [f EXCEPT ![Commit!p] = v][Commit!p] = v
    BY CommitWorking DEF CommitFiles
  <2> QED BY <1>1, <2>1, CommitWorking
<1>2. CASE k # commitAt
  <2>1. Order[k] # Commit!p /\ Order[k] \in Commit!Paths
    BY <1>2, CommitWorking, CommitPlaces
  <2> QED BY <1>2, <2>1, CommitWorking, CommitWrites
<1> QED BY <1>1, <1>2

LEMMA CommitRestoredFits ==
    ASSUME CommitContents, NEW q \in Commit!Paths PROVE Commit!Restored(q) \in Commit!Versions
BY DEF CommitContents, CommitFiles, Commit!Restored, Commit!Versions

LEMMA CommitMeddleKeeps == ASSUME CommitDistinct, CommitInv, Commit!Meddle PROVE CommitInv'
<1>1. CommitContents'
  <2>1. PICK q \in Commit!Paths, v \in {"theirs", "none"} : file' = [file EXCEPT ![q] = v]
    BY DEF Commit!Meddle
  <2>2. v \in Commit!Versions
    BY SMT DEF Commit!Versions
  <2>3. file' \in CommitFiles
    BY <2>1, <2>2, CommitWrites DEF CommitInv, CommitTyped, CommitContents
  <2> QED BY <2>3 DEF Commit!Meddle, CommitInv, CommitTyped, CommitContents, Commit!patch
<1>2. CommitMarks'
  BY CommitPlaces, SMT
      DEF Commit!Meddle, CommitInv, CommitTyped, CommitMarks, CommitPlace, Commit!patch, Commit!p,
             CommitLoops
<1>3. CommitPlace' /\ CommitBounds'
  BY CommitPlaces, SMT
      DEF Commit!Meddle, CommitInv, CommitTyped, CommitPlace, CommitBounds, CommitSteps,
             CommitLoops, CommitIndex, Commit!Goto, Commit!Fault, CommitDistinct
<1>4. CommitProgress'
  BY CommitPlaces, CommitAdvanceMoves, SMT
     DEF Commit!Meddle, CommitInv, CommitTyped, CommitPlace, CommitMarks, CommitContents,
            CommitProgress, CommitIndex, Commit!Goto, Commit!patch, Commit!p, CommitLoops
<1>5. CommitUntouched'
  <2> SUFFICES ASSUME NEW k \in CommitIndex, step' # "stage", Order[k] \notin touched'
    PROVE CommitReached(k)'
    BY DEF CommitUntouched
  <2>1. step # "stage" /\ Order[k] \notin touched => CommitReached(k)
    BY DEF CommitInv, CommitUntouched
  <2> QED BY <2>1, CommitPlaces, CommitAdvanceMoves, SMT
     DEF Commit!Meddle, CommitInv, CommitTyped, CommitPlace, CommitContents, CommitProgress,
            CommitReached, CommitIndex, Commit!Goto, Commit!Restored, Commit!Matches, Commit!patch,
                Commit!p, CommitLoops
<1> QED BY <1>1, <1>2, <1>3, <1>4, <1>5 DEF CommitInv, CommitTyped

LEMMA CommitStageKeeps == ASSUME CommitDistinct, CommitInv, Commit!Stage PROVE CommitInv'
<1>1. CommitContents'
  BY CommitPlaces, CommitWrites, SMT
      DEF Commit!Stage, CommitInv, CommitTyped, CommitContents, Commit!patch, Commit!p, CommitPlace,
             CommitLoops, Commit!Versions
<1>2. CommitMarks'
  BY CommitPlaces, SMT
      DEF Commit!Stage, CommitInv, CommitTyped, CommitMarks, CommitPlace, Commit!patch, Commit!p,
             CommitLoops
<1>3. CommitPlace' /\ CommitBounds'
  BY CommitPlaces, SMT
      DEF Commit!Stage, CommitInv, CommitTyped, CommitPlace, CommitBounds, CommitSteps, CommitLoops,
             CommitIndex, Commit!Goto, Commit!Fault, CommitDistinct
<1>4. CommitProgress'
  BY CommitPlaces, CommitAdvanceMoves, SMT
     DEF Commit!Stage, CommitInv, CommitTyped, CommitPlace, CommitMarks, CommitContents,
            CommitProgress, CommitIndex, Commit!Goto, Commit!patch, Commit!p, CommitLoops
<1>5. CommitUntouched'
  <2> SUFFICES ASSUME NEW k \in CommitIndex, step' # "stage", Order[k] \notin touched'
    PROVE CommitReached(k)'
    BY DEF CommitUntouched
  <2>1. step # "stage" /\ Order[k] \notin touched => CommitReached(k)
    BY DEF CommitInv, CommitUntouched
  <2> QED BY <2>1, CommitPlaces, CommitAdvanceMoves, SMT
     DEF Commit!Stage, CommitInv, CommitTyped, CommitPlace, CommitContents, CommitProgress,
            CommitReached, CommitIndex, Commit!Goto, Commit!Restored, Commit!Matches, Commit!patch,
                Commit!p, CommitLoops
<1> QED BY <1>1, <1>2, <1>3, <1>4, <1>5 DEF CommitInv, CommitTyped

LEMMA CommitFailKeeps == ASSUME CommitDistinct, CommitInv, Commit!Fail PROVE CommitInv'
<1>1. CommitContents'
  BY CommitPlaces, CommitWrites, SMT
      DEF Commit!Fail, CommitInv, CommitTyped, CommitContents, Commit!patch, Commit!p, CommitPlace,
             CommitLoops, Commit!Versions
<1>2. CommitMarks'
  BY CommitPlaces, SMT
      DEF Commit!Fail, CommitInv, CommitTyped, CommitMarks, CommitPlace, Commit!patch, Commit!p,
             CommitLoops
<1>3. CommitPlace' /\ CommitBounds'
  BY CommitPlaces, SMT
      DEF Commit!Fail, CommitInv, CommitTyped, CommitPlace, CommitBounds, CommitSteps, CommitLoops,
             CommitIndex, Commit!Goto, Commit!Fault, CommitDistinct
<1>4. CommitProgress'
  BY CommitPlaces, CommitAdvanceMoves, SMT
     DEF Commit!Fail, CommitInv, CommitTyped, CommitPlace, CommitMarks, CommitContents,
            CommitProgress, CommitIndex, Commit!Goto, Commit!patch, Commit!p, CommitLoops
<1>5. CommitUntouched'
  <2> SUFFICES ASSUME NEW k \in CommitIndex, step' # "stage", Order[k] \notin touched'
    PROVE CommitReached(k)'
    BY DEF CommitUntouched
  <2>1. step # "stage" /\ Order[k] \notin touched => CommitReached(k)
    BY DEF CommitInv, CommitUntouched
  <2> QED BY <2>1, CommitPlaces, CommitAdvanceMoves, SMT
     DEF Commit!Fail, CommitInv, CommitTyped, CommitPlace, CommitContents, CommitProgress,
            CommitReached, CommitIndex, Commit!Goto, Commit!Restored, Commit!Matches, Commit!patch,
                Commit!p, CommitLoops
<1> QED BY <1>1, <1>2, <1>3, <1>4, <1>5 DEF CommitInv, CommitTyped

LEMMA CommitPrepareKeeps == ASSUME CommitDistinct, CommitInv, Commit!Prepare PROVE CommitInv'
<1>1. CommitContents'
  BY CommitPlaces, CommitWrites, SMT
      DEF Commit!Prepare, CommitInv, CommitTyped, CommitContents, Commit!patch, Commit!p,
             CommitPlace, CommitLoops, Commit!Versions
<1>2. CommitMarks'
  BY CommitPlaces, SMT
      DEF Commit!Prepare, CommitInv, CommitTyped, CommitMarks, CommitPlace, Commit!patch, Commit!p,
             CommitLoops
<1>3. CommitPlace' /\ CommitBounds'
  <2>1. step \in CommitLoops /\ CommitPlace
    BY SMT DEF Commit!Prepare, CommitInv, CommitTyped, CommitLoops
  <2>2. CommitPlace'
    BY <2>1, CommitGotoPlaces, CommitAdvancePlaces, SMT
        DEF Commit!Prepare, CommitPlace, CommitLoops, CommitIndex, CommitSteps
  <2> QED BY <2>2 DEF Commit!Prepare, CommitInv, CommitTyped, CommitBounds
<1>4. CommitProgress'
  BY CommitPlaces, CommitAdvanceMoves, SMT
     DEF Commit!Prepare, CommitInv, CommitTyped, CommitPlace, CommitMarks, CommitContents,
            CommitProgress, CommitIndex, Commit!Goto, Commit!patch, Commit!p, CommitLoops
<1>5. CommitUntouched'
  <2> SUFFICES ASSUME NEW k \in CommitIndex, step' # "stage", Order[k] \notin touched'
    PROVE CommitReached(k)'
    BY DEF CommitUntouched
  <2>1. step # "stage" /\ Order[k] \notin touched => CommitReached(k)
    BY DEF CommitInv, CommitUntouched
  <2> QED BY <2>1, CommitPlaces, CommitAdvanceMoves, SMT
     DEF Commit!Prepare, CommitInv, CommitTyped, CommitPlace, CommitContents, CommitProgress,
            CommitReached, CommitIndex, Commit!Goto, Commit!Restored, Commit!Matches, Commit!patch,
                Commit!p, CommitLoops
<1> QED BY <1>1, <1>2, <1>3, <1>4, <1>5 DEF CommitInv, CommitTyped

LEMMA CommitCheckAllKeeps == ASSUME CommitDistinct, CommitInv, Commit!CheckAll PROVE CommitInv'
<1>1. CommitContents'
  BY CommitPlaces, CommitWrites, SMT
      DEF Commit!CheckAll, CommitInv, CommitTyped, CommitContents, Commit!patch, Commit!p,
             CommitPlace, CommitLoops, Commit!Versions
<1>2. CommitMarks'
  BY CommitPlaces, SMT
      DEF Commit!CheckAll, CommitInv, CommitTyped, CommitMarks, CommitPlace, Commit!patch, Commit!p,
             CommitLoops
<1>3. CommitPlace' /\ CommitBounds'
  <2>1. step \in CommitLoops /\ CommitPlace
    BY SMT DEF Commit!CheckAll, CommitInv, CommitTyped, CommitLoops
  <2>2. CommitPlace'
    BY <2>1, CommitGotoPlaces, CommitAdvancePlaces, SMT
        DEF Commit!CheckAll, CommitPlace, CommitLoops, CommitIndex, CommitSteps
  <2> QED BY <2>2 DEF Commit!CheckAll, CommitInv, CommitTyped, CommitBounds
<1>4. CommitProgress'
  BY CommitPlaces, CommitAdvanceMoves, SMT
     DEF Commit!CheckAll, CommitInv, CommitTyped, CommitPlace, CommitMarks, CommitContents,
            CommitProgress, CommitIndex, Commit!Goto, Commit!patch, Commit!p, CommitLoops
<1>5. CommitUntouched'
  <2> SUFFICES ASSUME NEW k \in CommitIndex, step' # "stage", Order[k] \notin touched'
    PROVE CommitReached(k)'
    BY DEF CommitUntouched
  <2>1. step # "stage" /\ Order[k] \notin touched => CommitReached(k)
    BY DEF CommitInv, CommitUntouched
  <2> QED BY <2>1, CommitPlaces, CommitAdvanceMoves, SMT
     DEF Commit!CheckAll, CommitInv, CommitTyped, CommitPlace, CommitContents, CommitProgress,
            CommitReached, CommitIndex, Commit!Goto, Commit!Restored, Commit!Matches, Commit!patch,
                Commit!p, CommitLoops
<1> QED BY <1>1, <1>2, <1>3, <1>4, <1>5 DEF CommitInv, CommitTyped

LEMMA CommitRecheckKeeps == ASSUME CommitDistinct, CommitInv, Commit!Recheck PROVE CommitInv'
<1>1. CommitContents'
  BY CommitPlaces, CommitWrites, SMT
      DEF Commit!Recheck, CommitInv, CommitTyped, CommitContents, Commit!patch, Commit!p,
             CommitPlace, CommitLoops, Commit!Versions
<1>2. CommitMarks'
  BY CommitPlaces, SMT
      DEF Commit!Recheck, CommitInv, CommitTyped, CommitMarks, CommitPlace, Commit!patch, Commit!p,
             CommitLoops
<1>3. CommitPlace' /\ CommitBounds'
  <2>1. step \in CommitLoops /\ CommitPlace
    BY SMT DEF Commit!Recheck, CommitInv, CommitTyped, CommitLoops
  <2>2. CommitPlace'
    BY <2>1, CommitGotoPlaces, CommitAdvancePlaces, SMT
        DEF Commit!Recheck, CommitPlace, CommitLoops, CommitIndex, CommitSteps
  <2> QED BY <2>2 DEF Commit!Recheck, CommitInv, CommitTyped, CommitBounds
<1>4. CommitProgress'
  BY CommitPlaces, CommitAdvanceMoves, SMT
     DEF Commit!Recheck, CommitInv, CommitTyped, CommitPlace, CommitMarks, CommitContents,
            CommitProgress, CommitIndex, Commit!Goto, Commit!patch, Commit!p, CommitLoops
<1>5. CommitUntouched'
  <2> SUFFICES ASSUME NEW k \in CommitIndex, step' # "stage", Order[k] \notin touched'
    PROVE CommitReached(k)'
    BY DEF CommitUntouched
  <2>1. step # "stage" /\ Order[k] \notin touched => CommitReached(k)
    BY DEF CommitInv, CommitUntouched
  <2> QED BY <2>1, CommitPlaces, CommitAdvanceMoves, SMT
     DEF Commit!Recheck, CommitInv, CommitTyped, CommitPlace, CommitContents, CommitProgress,
            CommitReached, CommitIndex, Commit!Goto, Commit!Restored, Commit!Matches, Commit!patch,
                Commit!p, CommitLoops
<1> QED BY <1>1, <1>2, <1>3, <1>4, <1>5 DEF CommitInv, CommitTyped

LEMMA CommitMoveKeeps == ASSUME CommitDistinct, CommitInv, Commit!Move PROVE CommitInv'
<1>0. commitAt \in CommitIndex /\ step = "move"
  BY SMT DEF Commit!Move, CommitInv, CommitTyped, CommitPlace, CommitLoops
<1>a. file[Commit!p] \in Commit!Versions /\ "none" \in Commit!Versions
  BY <1>0, CommitWorking, SMT
      DEF CommitInv, CommitTyped, CommitContents, CommitFiles, Commit!Versions
<1>1. CommitContents'
  <2>1. CASE file[Commit!p] = "none"
    BY <2>1 DEF Commit!Move, CommitInv, CommitTyped, CommitContents, Commit!patch
  <2>2. CASE file[Commit!p] # "none"
    <3>1. file' = [file EXCEPT ![Commit!p] = "none"]
                   /\ backup' = [backup EXCEPT ![Commit!p] = file[Commit!p]]
      BY <2>2 DEF Commit!Move
    <3>2. file' \in CommitFiles /\ backup' \in CommitFiles
      BY <1>0, <1>a, <3>1, CommitWrites, CommitWorking DEF CommitInv, CommitTyped, CommitContents
    <3> QED BY <3>2 DEF Commit!Move, CommitInv, CommitTyped, CommitContents, Commit!patch
  <2> QED BY <2>1, <2>2
<1>2. CommitMarks'
  BY CommitPlaces, SMT
      DEF Commit!Move, CommitInv, CommitTyped, CommitMarks, CommitPlace, Commit!patch, Commit!p,
             CommitLoops
<1>3. CommitPlace' /\ CommitBounds'
  <2>1. step \in CommitLoops /\ CommitPlace
    BY SMT DEF Commit!Move, CommitInv, CommitTyped, CommitLoops
  <2>2. CommitPlace'
    BY <2>1, CommitGotoPlaces, CommitAdvancePlaces, SMT
        DEF Commit!Move, CommitPlace, CommitLoops, CommitIndex, CommitSteps
  <2> QED BY <2>2 DEF Commit!Move, CommitInv, CommitTyped, CommitBounds
<1>4. CommitProgress'
  BY CommitPlaces, CommitAdvanceMoves, SMT
     DEF Commit!Move, CommitInv, CommitTyped, CommitPlace, CommitMarks, CommitContents,
            CommitProgress, CommitIndex, Commit!Goto, Commit!patch, Commit!p, CommitLoops
<1>5. CommitUntouched'
  <2> SUFFICES ASSUME NEW k \in CommitIndex, step' # "stage", Order[k] \notin touched'
    PROVE CommitReached(k)'
    BY DEF CommitUntouched
  <2>1. CommitReached(k) /\ Order[k] \in Commit!Paths
    BY <1>0, CommitPlaces DEF CommitInv, CommitUntouched, Commit!Move
  <2>2. CASE file[Commit!p] = "none"
    <3>1. step' = "rollback" /\ commitAt' = Len(Order) /\ UNCHANGED <<file, backup, base,
        installed>>
      BY <2>2 DEF Commit!Move, Commit!Goto, Commit!patch
    <3> QED BY <1>0, <2>1, <3>1, SMT
           DEF CommitReached, Commit!Restored, CommitInv, CommitProgress, CommitIndex
  <2>3. CASE file[Commit!p] # "none"
    <3>a. file' = [file EXCEPT ![Commit!p] = "none"]
                   /\ backup' = [backup EXCEPT ![Commit!p] = file[Commit!p]]
      BY <2>3 DEF Commit!Move
    <3>b. file'[Order[k]] = IF k = commitAt THEN "none" ELSE file[Order[k]]
      BY <1>0, <1>a, <3>a, CommitWritesAt DEF CommitInv, CommitTyped, CommitContents
    <3>c. backup'[Order[k]] = IF k = commitAt THEN file[Commit!p] ELSE backup[Order[k]]
      BY <1>0, <1>a, <3>a, CommitWritesAt DEF CommitInv, CommitTyped, CommitContents
    <3>1. /\ file'[Order[k]] = IF k = commitAt THEN "none" ELSE file[Order[k]]
          /\ backup'[Order[k]] = IF k = commitAt THEN file[Commit!p] ELSE backup[Order[k]]
      BY <3>b, <3>c
    <3>2. Commit!Advance("recheck", "reinstall") /\ UNCHANGED <<base, want>>
      BY <2>3 DEF Commit!Move, Commit!patch
    <3>3. \/ commitAt < Len(Order) /\ step' = "recheck" /\ commitAt' = commitAt + 1
          \/ commitAt = Len(Order) /\ step' = "reinstall" /\ commitAt' = 1
      BY <1>0, <3>2, CommitAdvanceMoves, SMT
    <3> QED BY <1>0, <2>1, <3>1, <3>2, <3>3, CommitWorking, SMT DEF CommitReached, CommitIndex
  <2> QED BY <2>2, <2>3
<1> QED BY <1>1, <1>2, <1>3, <1>4, <1>5 DEF CommitInv, CommitTyped

LEMMA CommitReinstallKeeps == ASSUME CommitDistinct, CommitInv, Commit!Reinstall PROVE CommitInv'
<1>1. CommitContents'
  BY CommitPlaces, CommitWrites, SMT
      DEF Commit!Reinstall, CommitInv, CommitTyped, CommitContents, Commit!patch, Commit!p,
             CommitPlace, CommitLoops, Commit!Versions
<1>2. CommitMarks'
  BY CommitPlaces, SMT
      DEF Commit!Reinstall, CommitInv, CommitTyped, CommitMarks, CommitPlace, Commit!patch,
             Commit!p, CommitLoops
<1>3. CommitPlace' /\ CommitBounds'
  <2>1. step \in CommitLoops /\ CommitPlace
    BY SMT DEF Commit!Reinstall, CommitInv, CommitTyped, CommitLoops
  <2>2. CommitPlace'
    BY <2>1, CommitGotoPlaces, CommitAdvancePlaces, SMT
        DEF Commit!Reinstall, CommitPlace, CommitLoops, CommitIndex, CommitSteps
  <2> QED BY <2>2 DEF Commit!Reinstall, CommitInv, CommitTyped, CommitBounds
<1>4. CommitProgress'
  BY CommitPlaces, CommitAdvanceMoves, SMT
     DEF Commit!Reinstall, CommitInv, CommitTyped, CommitPlace, CommitMarks, CommitContents,
            CommitProgress, CommitIndex, Commit!Goto, Commit!patch, Commit!p, CommitLoops
<1>5. CommitUntouched'
  <2> SUFFICES ASSUME NEW k \in CommitIndex, step' # "stage", Order[k] \notin touched'
    PROVE CommitReached(k)'
    BY DEF CommitUntouched
  <2>1. step # "stage" /\ Order[k] \notin touched => CommitReached(k)
    BY DEF CommitInv, CommitUntouched
  <2> QED BY <2>1, CommitPlaces, CommitAdvanceMoves, SMT
     DEF Commit!Reinstall, CommitInv, CommitTyped, CommitPlace, CommitContents, CommitProgress,
            CommitReached, CommitIndex, Commit!Goto, Commit!Restored, Commit!Matches, Commit!patch,
                Commit!p, CommitLoops
<1> QED BY <1>1, <1>2, <1>3, <1>4, <1>5 DEF CommitInv, CommitTyped

LEMMA CommitPutKeeps == ASSUME CommitDistinct, CommitInv, Commit!Put PROVE CommitInv'
<1>0. commitAt \in CommitIndex /\ step = "put"
  BY SMT DEF Commit!Put, CommitInv, CommitTyped, CommitPlace, CommitLoops
<1>1. CommitContents'
  <2>1. file' \in CommitFiles
    BY <1>0, CommitWrites, CommitWorking
        DEF Commit!Put, CommitInv, CommitTyped, CommitContents, Commit!Versions
  <2> QED BY <2>1 DEF Commit!Put, CommitInv, CommitTyped, CommitContents, Commit!patch
<1>2. CommitMarks'
  BY CommitPlaces, SMT
      DEF Commit!Put, CommitInv, CommitTyped, CommitMarks, CommitPlace, Commit!patch, Commit!p,
             CommitLoops
<1>3. CommitPlace' /\ CommitBounds'
  <2>1. step \in CommitLoops /\ CommitPlace
    BY SMT DEF Commit!Put, CommitInv, CommitTyped, CommitLoops
  <2>2. CommitPlace'
    BY <2>1, CommitGotoPlaces, CommitAdvancePlaces, SMT
        DEF Commit!Put, CommitPlace, CommitLoops, CommitIndex, CommitSteps
  <2> QED BY <2>2 DEF Commit!Put, CommitInv, CommitTyped, CommitBounds
<1>4. CommitProgress'
  BY CommitPlaces, CommitAdvanceMoves, SMT
     DEF Commit!Put, CommitInv, CommitTyped, CommitPlace, CommitMarks, CommitContents,
            CommitProgress, CommitIndex, Commit!Goto, Commit!patch, Commit!p, CommitLoops
<1>5. CommitUntouched'
  <2> SUFFICES ASSUME NEW k \in CommitIndex, step' # "stage", Order[k] \notin touched'
    PROVE CommitReached(k)'
    BY DEF CommitUntouched
  <2>1. CommitReached(k) /\ Order[k] \in Commit!Paths /\ want[Order[commitAt]] = "new"
    BY <1>0, CommitPlaces, SMT DEF CommitInv, CommitUntouched, CommitProgress, Commit!Put
  <2>2. file'[Order[k]] = IF k = commitAt THEN "new" ELSE file[Order[k]]
    BY <1>0, CommitWritesAt DEF Commit!Put, CommitInv, CommitTyped, CommitContents, Commit!Versions
  <2>3. Commit!Advance("reinstall", "committed") /\ UNCHANGED <<base, want, backup>>
    BY DEF Commit!Put, Commit!patch
  <2>4. \/ commitAt < Len(Order) /\ step' = "reinstall" /\ commitAt' = commitAt + 1
        \/ commitAt = Len(Order) /\ step' = "committed" /\ commitAt' = 1
    BY <1>0, <2>3, CommitAdvanceMoves, SMT
  <2> QED BY <1>0, <2>1, <2>2, <2>3, <2>4, SMT DEF CommitReached, CommitIndex
<1> QED BY <1>1, <1>2, <1>3, <1>4, <1>5 DEF CommitInv, CommitTyped

LEMMA CommitRollbackKeeps == ASSUME CommitDistinct, CommitInv, Commit!Rollback PROVE CommitInv'
<1>0. commitAt \in CommitIndex /\ step = "rollback" /\ step' = "rollback"
    /\ commitAt' = commitAt - 1
  BY SMT DEF Commit!Rollback, CommitInv, CommitTyped, CommitPlace, CommitIndex
<1>a. Commit!p \in Commit!Paths /\ Commit!Restored(Commit!p) \in Commit!Versions
    /\ "none" \in Commit!Versions
  BY <1>0, CommitWorking, CommitRestoredFits DEF CommitInv, CommitTyped, Commit!Versions
<1>b. \/ /\ file' = [file EXCEPT ![Commit!p] = Commit!Restored(Commit!p)]
         /\ backup' = [backup EXCEPT ![Commit!p] = "none"]
         /\ UNCHANGED errors
      \/ /\ errors' = errors \cup {Commit!p} /\ UNCHANGED backup
         /\ (file' = file \/ (file' = [file EXCEPT ![Commit!p] = "none"] /\ Commit!p \in installed))
  <2>1. CASE Commit!p \in installed
    BY <2>1 DEF Commit!Rollback
  <2>2. CASE Commit!p \notin installed
    <3>1. [file EXCEPT ![Commit!p] = IF Commit!p \in installed THEN "none" ELSE @] = file
      BY <1>a, <2>2 DEF CommitInv, CommitTyped, CommitContents, CommitFiles
    <3>2. file' \in {file,
                     [file EXCEPT ![Commit!p] = IF Commit!p \in installed THEN "none" ELSE @]}
            => file' = file
      BY <3>1
    <3>3. \/ /\ file' = [file EXCEPT ![Commit!p] = Commit!Restored(Commit!p)]
             /\ backup' = [backup EXCEPT ![Commit!p] = "none"]
             /\ UNCHANGED errors
          \/ /\ errors' = errors \cup {Commit!p} /\ UNCHANGED backup
             /\ file' \in {file,
                           [file EXCEPT ![Commit!p] = IF Commit!p \in installed THEN "none" ELSE @]}
      BY DEF Commit!Rollback
    <3> QED BY <3>2, <3>3
  <2> QED BY <2>1, <2>2
<1>1. CommitContents'
  <2>1. file' \in CommitFiles /\ backup' \in CommitFiles
    BY <1>a, <1>b, CommitWrites DEF CommitInv, CommitTyped, CommitContents
  <2> QED BY <2>1 DEF Commit!Rollback, CommitInv, CommitTyped, CommitContents, Commit!patch
<1>2. CommitMarks'
  <2>1. errors' \in SUBSET Commit!Paths
    BY <1>a, <1>b DEF CommitInv, CommitTyped, CommitMarks
  <2> QED BY <2>1 DEF Commit!Rollback, CommitInv, CommitTyped, CommitMarks
<1>3. CommitPlace' /\ CommitBounds'
  <2>1. CommitPlace'
    BY <1>0, SMT DEF CommitInv, CommitTyped, CommitPlace, CommitSteps, CommitLoops, CommitIndex
  <2>2. faults' = faults \/ Commit!Fault
    BY DEF Commit!Rollback
  <2>3. meddling' = meddling
    BY DEF Commit!Rollback
  <2> QED BY <2>1, <2>2, <2>3, SMT
         DEF CommitInv, CommitTyped, CommitBounds, Commit!Fault, CommitDistinct
<1>4. CommitProgress'
  BY CommitPlaces, CommitAdvanceMoves, SMT
     DEF Commit!Rollback, CommitInv, CommitTyped, CommitPlace, CommitMarks, CommitContents,
            CommitProgress, CommitIndex, Commit!Goto, Commit!patch, Commit!p, CommitLoops
<1>5. CommitUntouched'
  <2> SUFFICES ASSUME NEW k \in CommitIndex, Order[k] \notin touched' PROVE CommitReached(k)'
    BY DEF CommitUntouched
  <2> DEFINE q == Order[k]
  <2>1. CommitReached(k) /\ UNCHANGED <<base, installed>>
    BY <1>0 DEF CommitInv, CommitUntouched, Commit!Rollback, Commit!patch
  <2>2. CASE k # commitAt
    <3>0. q # Commit!p /\ q \in Commit!Paths
      BY <1>0, <2>2, CommitWorking, CommitPlaces
    <3>a. file'[q] = file[q]
      <4>1. file' = file \/ \E v : file' = [file EXCEPT ![Commit!p] = v]
        BY <1>b
      <4>2. ASSUME NEW v, file' = [file EXCEPT ![Commit!p] = v] PROVE file'[q] = file[q]
        BY <3>0, <4>2 DEF CommitInv, CommitTyped, CommitContents, CommitFiles
      <4> QED BY <4>1, <4>2
    <3>b. backup'[q] = backup[q]
      <4>1. backup' = backup \/ \E v : backup' = [backup EXCEPT ![Commit!p] = v]
        BY <1>b
      <4>2. ASSUME NEW v, backup' = [backup EXCEPT ![Commit!p] = v] PROVE backup'[q] = backup[q]
        BY <3>0, <4>2 DEF CommitInv, CommitTyped, CommitContents, CommitFiles
      <4> QED BY <4>1, <4>2
    <3>c. q \in errors' <=> q \in errors
      BY <1>b, <3>0
    <3>1. file'[q] = file[q] /\ backup'[q] = backup[q] /\ (q \in errors' <=> q \in errors)
      BY <3>a, <3>b, <3>c
    <3> QED BY <1>0, <2>1, <2>2, <3>1, SMT DEF CommitReached, Commit!Restored, CommitIndex
  <2>3. CASE k = commitAt
    <3>0. q = Commit!p /\ Commit!Restored(q) = base[q]
      BY <1>0, <2>1, <2>3, CommitWorking, SMT DEF CommitReached, CommitIndex
    <3>1. CASE file' = [file EXCEPT ![Commit!p] = Commit!Restored(Commit!p)]
      <4>1. file'[q] = base[q]
        BY <1>a, <3>0, <3>1, CommitWrites DEF CommitInv, CommitTyped, CommitContents
      <4> QED BY <1>0, <2>1, <2>3, <4>1, SMT DEF CommitReached, CommitIndex
    <3>2. CASE q \in errors' /\ UNCHANGED backup /\ (file' = file
                                        \/ (file' = [file EXCEPT ![Commit!p] = "none"]
                                        /\ Commit!p \in installed))
      <4>1. file'[q] = file[q] \/ q \in installed
        BY <3>0, <3>2
      <4>2. base[q] \in {file'[q], backup'[q]}
        BY <3>0, <3>2, <4>1 DEF Commit!Restored
      <4> QED BY <1>0, <2>1, <2>3, <3>2, <4>2, SMT DEF CommitReached, CommitIndex
    <3> QED BY <1>b, <3>0, <3>1, <3>2
  <2> QED BY <2>2, <2>3
<1> QED BY <1>1, <1>2, <1>3, <1>4, <1>5 DEF CommitInv, CommitTyped

LEMMA CommitCommittedKeeps == ASSUME CommitDistinct, CommitInv, Commit!Committed PROVE CommitInv'
<1>1. CommitContents'
  <2>1. backup' \in CommitFiles
    BY CommitNoBackups DEF Commit!Committed, Commit!Finish, CommitInv, CommitTyped, CommitContents
  <2> QED BY <2>1
         DEF Commit!Committed, Commit!Finish, CommitInv, CommitTyped, CommitContents, Commit!patch
<1>2. CommitMarks'
  BY CommitPlaces, SMT
      DEF Commit!Committed, Commit!Finish, CommitInv, CommitTyped, CommitMarks, CommitPlace,
             Commit!patch, Commit!p, CommitLoops
<1>3. CommitPlace' /\ CommitBounds'
  BY CommitPlaces, SMT
     DEF Commit!Committed, Commit!Finish, CommitInv, CommitTyped, CommitPlace, CommitBounds,
            CommitSteps, CommitLoops, CommitIndex, Commit!Goto, Commit!Fault, CommitDistinct
<1>4. CommitProgress'
  BY CommitPlaces, CommitAdvanceMoves, SMT
     DEF Commit!Committed, Commit!Finish, CommitInv, CommitTyped, CommitPlace, CommitMarks,
            CommitContents, CommitProgress, CommitIndex, Commit!Goto, Commit!patch, Commit!p,
                CommitLoops
<1>5. CommitUntouched'
  <2> SUFFICES ASSUME NEW k \in CommitIndex, step' # "stage", Order[k] \notin touched'
    PROVE CommitReached(k)'
    BY DEF CommitUntouched
  <2>1. step # "stage" /\ Order[k] \notin touched => CommitReached(k)
    BY DEF CommitInv, CommitUntouched
  <2> QED BY <2>1, CommitPlaces, CommitAdvanceMoves, SMT
     DEF Commit!Committed, Commit!Finish, CommitInv, CommitTyped, CommitPlace, CommitContents,
            CommitProgress, CommitReached, CommitIndex, Commit!Goto, Commit!Restored,
                Commit!Matches, Commit!patch, Commit!p, CommitLoops
<1> QED BY <1>1, <1>2, <1>3, <1>4, <1>5 DEF CommitInv, CommitTyped

LEMMA CommitRolledBackKeeps == ASSUME CommitDistinct, CommitInv, Commit!RolledBack PROVE CommitInv'
<1>1. CommitContents'
  <2>1. backup' \in CommitFiles
    BY CommitNoBackups DEF Commit!RolledBack, Commit!Finish, CommitInv, CommitTyped, CommitContents
  <2> QED BY <2>1
         DEF Commit!RolledBack, Commit!Finish, CommitInv, CommitTyped, CommitContents, Commit!patch
<1>2. CommitMarks'
  BY CommitPlaces, SMT
      DEF Commit!RolledBack, Commit!Finish, CommitInv, CommitTyped, CommitMarks, CommitPlace,
             Commit!patch, Commit!p, CommitLoops
<1>3. CommitPlace' /\ CommitBounds'
  BY CommitPlaces, SMT
     DEF Commit!RolledBack, Commit!Finish, CommitInv, CommitTyped, CommitPlace, CommitBounds,
            CommitSteps, CommitLoops, CommitIndex, Commit!Goto, Commit!Fault, CommitDistinct
<1>4. CommitProgress'
  BY CommitPlaces, CommitAdvanceMoves, SMT
     DEF Commit!RolledBack, Commit!Finish, CommitInv, CommitTyped, CommitPlace, CommitMarks,
            CommitContents, CommitProgress, CommitIndex, Commit!Goto, Commit!patch, Commit!p,
                CommitLoops
<1>5. CommitUntouched'
  <2> SUFFICES ASSUME NEW k \in CommitIndex, step' # "stage", Order[k] \notin touched'
    PROVE CommitReached(k)'
    BY DEF CommitUntouched
  <2>1. step # "stage" /\ Order[k] \notin touched => CommitReached(k)
    BY DEF CommitInv, CommitUntouched
  <2> QED BY <2>1, CommitPlaces, CommitAdvanceMoves, SMT
     DEF Commit!RolledBack, Commit!Finish, CommitInv, CommitTyped, CommitPlace, CommitContents,
            CommitProgress, CommitReached, CommitIndex, Commit!Goto, Commit!Restored,
                Commit!Matches, Commit!patch, Commit!p, CommitLoops
<1> QED BY <1>1, <1>2, <1>3, <1>4, <1>5 DEF CommitInv, CommitTyped

LEMMA CommitPreserved == ASSUME CommitDistinct, CommitInv, [Commit!Next]_commitVars PROVE CommitInv'
<1>1. CASE Commit!Next
  BY <1>1, CommitMeddleKeeps, CommitStageKeeps, CommitFailKeeps, CommitPrepareKeeps,
      CommitCheckAllKeeps, CommitRecheckKeeps, CommitMoveKeeps,
     CommitReinstallKeeps, CommitPutKeeps, CommitRollbackKeeps, CommitCommittedKeeps,
         CommitRolledBackKeeps DEF Commit!Next
<1>2. CASE UNCHANGED commitVars
  BY <1>2
     DEF commitVars, Commit!patch, CommitInv, CommitTyped, CommitContents, CommitMarks, CommitPlace,
            CommitBounds, CommitProgress, CommitUntouched, CommitReached, Commit!Restored
<1> QED BY <1>1, <1>2


-----------------------------------------------------------------------------
(* The staging of a patch (PatchStaging).                                     *)

\* What a path holds by what is staged.
StageHolds(staged, p) ==
    IF p \in disk \cup DOMAIN staged THEN Staging!Known(staged, p) ELSE Staging!Gone

\* It is what it would hold had every operation been carried out at once.
StageInv ==
    /\ disk \in SUBSET Names /\ DOMAIN written = Names
    /\ staging = [status |-> staging.status, files |-> staging.files]
    /\ written = [p \in Names |-> written[p]]
    /\ \A p \in Names : StageHolds(staging.files, p) = written[p]

LEMMA StageInitInv == ASSUME Staging!Init PROVE StageInv
<1>1. staging.files = << >> /\ staging.status = "pending"
  BY DEF Staging!Init
<1>2. DOMAIN staging.files = {}
  BY <1>1
<1>3. \A p \in Names : written[p] = IF p \in disk THEN Staging!OnDisk(p) ELSE Staging!Gone
  BY DEF Staging!Init
<1>4. DOMAIN written = Names /\ written = [p \in Names |-> written[p]] /\ disk \in SUBSET Names
  BY <1>3 DEF Staging!Init
<1>5. staging = [status |-> staging.status, files |-> staging.files]
  BY <1>1 DEF Staging!Init
<1> QED BY <1>2, <1>3, <1>4, <1>5 DEF StageInv, StageHolds, Staging!Known

\* A path that is staged holds what is staged, the others what they held.
LEMMA StageWith ==
    ASSUME NEW staged, NEW p, NEW c, NEW q
    PROVE  StageHolds(Staging!With(staged, p, c), q) = IF q = p THEN c ELSE StageHolds(staged, q)
<1>1. PICK more : more = Staging!With(staged, p, c)
  OBVIOUS
<1>2. DOMAIN more = DOMAIN staged \cup {p}
  BY <1>1 DEF Staging!With
<1>3. \A r \in DOMAIN more : more[r] = IF r = p THEN c ELSE staged[r]
  BY <1>1 DEF Staging!With
<1> QED BY <1>1, <1>2, <1>3 DEF StageHolds, Staging!Known

LEMMA StageStages ==
    ASSUME StageInv, NEW op \in Staging!Operations, Staging!Stage(op)
    PROVE  StageInv'
<1>1. CASE Staging!Refuses(staging.files, op)
  <2>1. /\ staging' = [staging EXCEPT !.status = "refused"] /\ UNCHANGED <<written, disk>>
    BY <1>1 DEF Staging!Stage
  <2>2. /\ staging'.files = staging.files
        /\ staging' = [status |-> staging'.status, files |-> staging'.files]
    BY <2>1 DEF StageInv
  <2> QED BY <2>1, <2>2 DEF StageInv, StageHolds
<1>2. CASE ~Staging!Refuses(staging.files, op)
  <2>1. PICK f : f = Staging!Staged(staging.files, op)
    OBVIOUS
  <2>2. staging' = [staging EXCEPT !.files = f] /\ written' = Staging!CarriedOut(op) /\ disk' = disk
    BY <1>2, <2>1 DEF Staging!Stage
  <2>3. /\ staging'.files = f
        /\ staging' = [status |-> staging'.status, files |-> staging'.files]
    BY <2>2 DEF StageInv
  <2>4. op.path \in Names /\ op.kind \in {"add", "delete", "update", "move"}
        /\ (op.kind = "move" => op.to \in Names)
    BY DEF Staging!Operations
  <2>5. op.kind # "add" => op.path \in disk
    BY <1>2 DEF Staging!Refuses
  <2>6. op.kind # "add" => Staging!Known(staging.files, op.path) = written[op.path]
    BY <2>4, <2>5 DEF StageInv, StageHolds
  <2>7. /\ DOMAIN written' = Names /\ written' = [q \in Names |-> written'[q]]
        /\ \A q \in Names : StageHolds(f, q) = written'[q]
    <3>1. CASE op.kind = "add"
      <4>1. f = Staging!With(staging.files, op.path, Staging!Added)
        BY <2>1, <3>1 DEF Staging!Staged
      <4>2. written' = [written EXCEPT ![op.path] = Staging!Added]
        BY <2>2, <3>1 DEF Staging!CarriedOut
      <4> QED BY <2>4, <4>1, <4>2, StageWith DEF StageInv
    <3>2. CASE op.kind = "delete"
      <4>1. f = Staging!With(staging.files, op.path, Staging!Gone)
        BY <2>1, <3>2 DEF Staging!Staged
      <4>2. written' = [written EXCEPT ![op.path] = Staging!Gone]
        BY <2>2, <3>2 DEF Staging!CarriedOut
      <4> QED BY <2>4, <4>1, <4>2, StageWith DEF StageInv
    <3>3. CASE op.kind = "update"
      <4>1. PICK c : c = Staging!Edited(written[op.path])
        OBVIOUS
      <4>2. f = Staging!With(staging.files, op.path, c)
        BY <2>1, <2>6, <3>3, <4>1 DEF Staging!Staged
      <4>3. written' = [written EXCEPT ![op.path] = c]
        BY <2>2, <2>4, <3>3, <4>1 DEF Staging!CarriedOut, Staging!Edited, StageInv
      <4> QED BY <2>4, <4>2, <4>3, StageWith DEF StageInv
    <3>4. CASE op.kind = "move"
      <4>1. PICK c, less, gone : /\ c = Staging!Edited(written[op.path])
                                 /\ less = Staging!With(staging.files, op.path, Staging!Gone)
                                 /\ gone = [written EXCEPT ![op.path] = Staging!Gone]
        OBVIOUS
      <4>2. f = Staging!With(less, op.to, c)
        BY <2>1, <2>6, <3>4, <4>1 DEF Staging!Staged
      <4>3. written' = [gone EXCEPT ![op.to] = c]
        BY <2>2, <3>4, <4>1 DEF Staging!CarriedOut
      <4>4. \A q : StageHolds(less, q) = IF q = op.path THEN Staging!Gone
                                         ELSE StageHolds(staging.files, q)
        BY <4>1, StageWith
      <4>5. \A q : StageHolds(f, q) = IF q = op.to THEN c ELSE StageHolds(less, q)
        BY <4>2, StageWith
      <4>6. DOMAIN gone = Names /\ \A q \in Names : StageHolds(less, q) = gone[q]
        BY <2>4, <4>1, <4>4 DEF StageInv
      <4> QED BY <2>4, <3>4, <4>3, <4>5, <4>6
    <3> QED BY <2>4, <3>1, <3>2, <3>3, <3>4
  <2> QED BY <2>2, <2>3, <2>7 DEF StageInv, StageHolds
<1> QED BY <1>1, <1>2

LEMMA StagePreserved == ASSUME StageInv, [Staging!Next]_stageVars PROVE StageInv'
<1>1. CASE \E op \in Staging!Operations : Staging!Stage(op)
  BY <1>1, StageStages
<1>2. CASE Staging!Accept
  <2>1. /\ staging' = [staging EXCEPT !.status = "staged"] /\ UNCHANGED <<written, disk>>
    BY <1>2 DEF Staging!Accept
  <2>2. /\ staging'.files = staging.files
        /\ staging' = [status |-> staging'.status, files |-> staging'.files]
    BY <2>1 DEF StageInv
  <2> QED BY <2>1, <2>2 DEF StageInv, StageHolds
<1>3. CASE UNCHANGED stageVars
  BY <1>3 DEF stageVars, StageInv, StageHolds
<1> QED BY <1>1, <1>2, <1>3 DEF Staging!Next

LEMMA StageImplies == ASSUME StageInv PROVE Staging!StagedAsWritten
BY DEF StageInv, StageHolds, Staging!StagedAsWritten

-----------------------------------------------------------------------------
(* The output of a command (CommandOutput).                                   *)

OutputBounded == BufferLimit \in Nat \ {0} /\ HeadDivisor \in Nat \ {0, 1} /\ MaxBytes \in Nat

LEMMA OutputLimits ==
    ASSUME OutputBounded
    PROVE  /\ Output!HeadLimit \in Nat /\ Output!TailLimit \in Nat \ {0}
           /\ Output!HeadLimit + Output!TailLimit = BufferLimit
<1>1. PICK q \in Int : q = BufferLimit \div HeadDivisor
  BY DEF OutputBounded
<1>2. q >= 0 /\ q < BufferLimit
  BY <1>1 DEF OutputBounded
<1> QED BY <1>1, <1>2 DEF OutputBounded, Output!HeadLimit, Output!TailLimit

LEMMA OutputOfTwo ==
    ASSUME NEW a \in Int, NEW b \in Int
    PROVE  /\ Output!Min({a, b}) = IF a <= b THEN a ELSE b
           /\ Output!Max({a, b}) = IF a >= b THEN a ELSE b
BY DEF Output!Min, Output!Max

\* The bytes from an offset on: the byte at offset n is the number n.
OutputFrom(s, from) == s \in Seq(Nat) /\ \A k \in 1 .. Len(s) : s[k] = from + k - 1

OutputTyped ==
    /\ start \in Nat /\ total \in Nat /\ cursor \in Nat /\ outputLost \in Nat /\ omitted \in Nat
    /\ total <= MaxBytes /\ cursor <= total /\ start <= total
OutputParts ==
    /\ OutputFrom(head, 0) /\ OutputFrom(tail, start)
    /\ Len(head) = IF total <= Output!HeadLimit THEN total ELSE Output!HeadLimit
    /\ start + Len(tail) = total /\ Len(tail) <= Output!TailLimit
    /\ start = 0 \/ Len(tail) = Output!TailLimit
    /\ outputLost = IF start <= Len(head) THEN 0 ELSE start - Len(head)
OutputPolled ==
    /\ delivered \subseteq 0 .. cursor - 1
    /\ Cardinality(delivered) + omitted = cursor

OutputInv == OutputTyped /\ OutputParts /\ OutputPolled

LEMMA OutputCardinality == \A S : Output!Cardinality(S) = Cardinality(S)
BY DEF Output!Cardinality, Cardinality

LEMMA OutputEmpty == ASSUME NEW n \in Nat PROVE OutputFrom(<<>>, n)
BY DEF OutputFrom

LEMMA OutputSub ==
    ASSUME NEW s, NEW from \in Nat, OutputFrom(s, from), NEW m \in Nat \ {0},
           NEW n \in 0 .. Len(s), m <= n + 1
    PROVE  /\ OutputFrom(SubSeq(s, m, n), from + m - 1)
           /\ Len(SubSeq(s, m, n)) = n - m + 1
<1>1. PICK len \in Nat : len = Len(s)
  BY DEF OutputFrom
<1>2. /\ m \in Int /\ n \in Int /\ n <= len
      /\ \A k \in m .. n : s[k] \in Nat
  BY <1>1 DEF OutputFrom
<1>3. PICK t : t = SubSeq(s, m, n)
  OBVIOUS
<1>4. /\ t \in Seq(Nat) /\ Len(t) = IF m <= n THEN n - m + 1 ELSE 0
      /\ \A k \in 1 .. n - m + 1 : t[k] = s[m + k - 1]
  BY <1>2, <1>3, SubSeqProperties
<1>5. Len(t) = n - m + 1
  BY <1>2, <1>4
<1>6. ASSUME NEW k \in 1 .. n - m + 1 PROVE t[k] = from + m - 1 + k - 1
  <2>1. m + k - 1 \in 1 .. len
    BY <1>2
  <2>2. s[m + k - 1] = from + (m + k - 1) - 1
    BY <1>1, <2>1 DEF OutputFrom
  <2> QED BY <1>4, <2>2
<1> QED BY <1>3, <1>4, <1>5, <1>6 DEF OutputFrom

LEMMA OutputConcat ==
    ASSUME NEW s, NEW t, NEW from \in Nat, OutputFrom(s, from), OutputFrom(t, from + Len(s))
    PROVE  OutputFrom(s \o t, from) /\ Len(s \o t) = Len(s) + Len(t)
<1>1. PICK m \in Nat, n \in Nat : m = Len(s) /\ n = Len(t)
  BY DEF OutputFrom
<1>2. s \in Seq(Nat) /\ t \in Seq(Nat)
  BY DEF OutputFrom
<1>3. PICK u : u = s \o t
  OBVIOUS
<1>4. /\ u \in Seq(Nat) /\ Len(u) = m + n
      /\ \A k \in 1 .. m + n : u[k] = IF k <= m THEN s[k] ELSE t[k - m]
  BY <1>1, <1>2, <1>3, ConcatProperties
<1>5. ASSUME NEW k \in 1 .. m + n PROVE u[k] = from + k - 1
  <2>1. CASE k <= m
    BY <1>1, <1>4, <2>1 DEF OutputFrom
  <2>2. CASE ~(k <= m)
    <3>1. k - m \in 1 .. n
      BY <2>2
    <3>2. t[k - m] = from + m + (k - m) - 1
      BY <1>1, <3>1 DEF OutputFrom
    <3> QED BY <1>4, <2>2, <3>2
  <2> QED BY <2>1, <2>2
<1> QED BY <1>1, <1>3, <1>4, <1>5 DEF OutputFrom

LEMMA OutputInitInv == ASSUME OutputBounded, Output!Init PROVE OutputInv
<1>1. /\ head = <<>> /\ tail = <<>> /\ delivered = {}
      /\ start = 0 /\ total = 0 /\ cursor = 0 /\ outputLost = 0 /\ omitted = 0
  BY DEF Output!Init
<1>2. OutputTyped
  BY <1>1 DEF OutputTyped, OutputBounded
<1>3. OutputParts
  BY <1>1, OutputEmpty, OutputLimits DEF OutputParts
<1>4. OutputPolled
  BY <1>1, FS_EmptySet DEF OutputPolled
<1> QED BY <1>2, <1>3, <1>4 DEF OutputInv

LEMMA OutputArrive ==
    ASSUME OutputBounded, OutputInv, NEW n \in Nat \ {0}, Output!Arrive(n)
    PROVE  OutputInv'
<1>1. PICK hl \in Nat, tl \in Nat \ {0}, h \in Nat, t \in Nat, st \in Nat, tot \in Nat,
           miss \in Nat :
         /\ hl = Output!HeadLimit /\ tl = Output!TailLimit /\ h = Len(head) /\ t = Len(tail)
         /\ st = start /\ tot = total /\ miss = outputLost
  <2>1. Len(head) \in Nat /\ Len(tail) \in Nat
    BY DEF OutputInv, OutputParts, OutputFrom
  <2> QED BY <2>1, OutputLimits DEF OutputInv, OutputTyped
<1>2. /\ h = (IF tot <= hl THEN tot ELSE hl)
      /\ st + t = tot /\ t <= tl /\ (st = 0 \/ t = tl)
      /\ miss = (IF st <= h THEN 0 ELSE st - h)
  BY <1>1 DEF OutputInv, OutputParts
<1>3. OutputFrom(head, 0) /\ OutputFrom(tail, st) /\ head \in Seq(Nat)
  BY <1>1 DEF OutputInv, OutputParts, OutputFrom
<1>4. PICK chunk : chunk = [k \in 1 .. n |-> tot + k - 1]
  OBVIOUS
<1>5. OutputFrom(chunk, tot) /\ Len(chunk) = n
  <2>1. chunk \in [1 .. n -> Nat]
    BY <1>4
  <2>2. chunk \in Seq(Nat) /\ Len(chunk) = n
    BY <2>1
  <2> QED BY <1>4, <2>2 DEF OutputFrom
<1>6. PICK room \in Nat : /\ room = (IF hl - h <= n THEN hl - h ELSE n)
                          /\ room = Output!Min({hl - h, n})
  <2>1. hl - h \in Int /\ n \in Int /\ 0 <= hl - h
    BY <1>2
  <2>2. Output!Min({hl - h, n}) = IF hl - h <= n THEN hl - h ELSE n
    BY <2>1, OutputOfTwo
  <2>3. (IF hl - h <= n THEN hl - h ELSE n) \in Nat
    BY <2>1
  <2> QED BY <2>2, <2>3
<1>7. PICK before \in Nat : /\ before = (IF st >= h + room THEN st ELSE h + room)
                            /\ before = Output!Max({st, h + room})
  <2>1. st \in Int /\ h + room \in Int
    OBVIOUS
  <2>2. Output!Max({st, h + room}) = IF st >= h + room THEN st ELSE h + room
    BY <2>1, OutputOfTwo
  <2>3. (IF st >= h + room THEN st ELSE h + room) \in Nat
    OBVIOUS
  <2> QED BY <2>2, <2>3
<1>8. PICK st2 \in Nat : st2 = IF t + n > tl THEN tot + n - tl ELSE st
  <2>1. (IF t + n > tl THEN tot + n - tl ELSE st) \in Nat
    BY <1>2
  <2> QED BY <2>1
<1>9. /\ tot + n <= MaxBytes
      /\ head' = head \o SubSeq(chunk, 1, room)
      /\ tail' = IF t + n > tl THEN Output!Trimmed(tail \o chunk) ELSE tail \o chunk
      /\ total' = tot + n
      /\ start' = st2
      /\ outputLost' = miss + Output!Max({0, st2 - before})
      /\ UNCHANGED <<cursor, delivered, omitted>>
  BY <1>1, <1>4, <1>6, <1>7, <1>8 DEF Output!Arrive, Output!NewStart
<1>10. PICK miss2 \in Nat : /\ miss2 = outputLost'
                            /\ miss2 = miss + (IF st2 <= before THEN 0 ELSE st2 - before)
  <2>1. 0 \in Int /\ st2 - before \in Int
    OBVIOUS
  <2>2. Output!Max({0, st2 - before}) = IF 0 >= st2 - before THEN 0 ELSE st2 - before
    BY <2>1, OutputOfTwo
  <2>3. (IF 0 >= st2 - before THEN 0 ELSE st2 - before)
            = (IF st2 <= before THEN 0 ELSE st2 - before)
    OBVIOUS
  <2>4. miss + (IF st2 <= before THEN 0 ELSE st2 - before) \in Nat
    OBVIOUS
  <2> QED BY <1>9, <2>2, <2>3, <2>4
<1>11. OutputFrom(head', 0) /\ Len(head') = h + room
  <2>1. OutputFrom(SubSeq(chunk, 1, room), tot + 1 - 1) /\ Len(SubSeq(chunk, 1, room)) = room
    <3>1. 1 \in Nat \ {0} /\ room \in 0 .. Len(chunk) /\ 1 <= room + 1 /\ room - 1 + 1 = room
      BY <1>5, <1>6
    <3>2. Len(SubSeq(chunk, 1, room)) = room - 1 + 1
          /\ OutputFrom(SubSeq(chunk, 1, room), tot + 1 - 1)
      BY <1>5, <3>1, OutputSub
    <3> QED BY <3>1, <3>2
  <2>2. CASE tot <= hl
    <3>1. Len(head) = tot /\ tot + 1 - 1 = 0 + Len(head) /\ 0 \in Nat
      BY <1>1, <1>2, <2>2
    <3>2. OutputFrom(SubSeq(chunk, 1, room), 0 + Len(head))
      BY <2>1, <3>1
    <3> QED BY <1>1, <1>3, <1>9, <2>1, <3>1, <3>2, OutputConcat
  <2>3. CASE ~(tot <= hl)
    <3>1. room = 0
      BY <1>2, <1>6, <2>3
    <3>2. SubSeq(chunk, 1, room) = <<>>
      BY <3>1, SubSeqEmpty
    <3>3. head' = head
      BY <1>3, <1>9, <3>2, ConcatEmptySeq
    <3> QED BY <1>1, <1>3, <3>1, <3>3
  <2> QED BY <2>2, <2>3
<1>12. PICK long : long = tail \o chunk /\ OutputFrom(long, st) /\ Len(long) = t + n
  <2>1. OutputFrom(chunk, st + Len(tail))
    BY <1>1, <1>2, <1>5
  <2> QED BY <1>1, <1>3, <1>5, <2>1, OutputConcat
<1>13. OutputFrom(tail', st2) /\ Len(tail') = IF t + n > tl THEN tl ELSE t + n
  <2>1. CASE t + n > tl
    <3>1. PICK m \in Nat \ {0} : m = t + n - tl + 1
      <4>1. t + n - tl + 1 \in Nat \ {0}
        BY <2>1
      <4> QED BY <4>1
    <3>2. tail' = SubSeq(long, m, t + n)
      <4>1. Len(long) - tl + 1 = m
        BY <1>12, <3>1
      <4>2. tail' = Output!Trimmed(long)
        BY <1>9, <1>12, <2>1
      <4>3. Output!Trimmed(long) = SubSeq(long, Len(long) - tl + 1, Len(long))
        BY <1>1, Zenon DEF Output!Trimmed
      <4> QED BY <1>12, <4>1, <4>2, <4>3, Zenon
    <3>3. m <= t + n + 1 /\ t + n - m + 1 = tl /\ st + m - 1 = st2 /\ t + n \in 0 .. t + n
      BY <1>2, <1>8, <2>1, <3>1
    <3>4. PICK last \in Nat : last = t + n /\ last \in 0 .. Len(long) /\ m <= last + 1
      BY <1>12, <3>3
    <3>5. /\ OutputFrom(SubSeq(long, m, last), st + m - 1)
          /\ Len(SubSeq(long, m, last)) = last - m + 1
      <4>1. OutputFrom(long, st) /\ last \in 0 .. Len(long) /\ m <= last + 1
        BY <1>12, <3>4
      <4> QED BY <4>1, OutputSub
    <3> QED BY <2>1, <3>2, <3>3, <3>4, <3>5
  <2>2. CASE ~(t + n > tl)
    BY <1>8, <1>9, <1>12, <2>2
  <2> QED BY <2>1, <2>2
<1>14. PICK t2 \in Nat : t2 = Len(tail') /\ t2 = IF t + n > tl THEN tl ELSE t + n
  BY <1>13
<1>15. /\ h + room = IF tot + n <= hl THEN tot + n ELSE hl
       /\ st2 + t2 = tot + n /\ t2 <= tl
       /\ st2 = 0 \/ t2 = tl
       /\ st2 <= tot + n
  BY <1>2, <1>6, <1>8, <1>14
<1>16. miss2 = IF st2 <= h + room THEN 0 ELSE st2 - (h + room)
  <2>1. CASE tot <= hl
    <3>1. miss = 0 /\ st <= h + room
      BY <1>2, <2>1
    <3> QED BY <1>7, <1>10, <3>1
  <2>2. CASE ~(tot <= hl)
    <3>1. room = 0
      BY <1>2, <1>6, <2>2
    <3>2. st <= st2
      BY <1>2, <1>8
    <3> QED BY <1>2, <1>7, <1>10, <3>1, <3>2
  <2> QED BY <2>1, <2>2
<1>17. OutputTyped'
  <2>1. cursor \in Nat /\ cursor <= tot /\ omitted \in Nat
    BY <1>1 DEF OutputInv, OutputTyped
  <2>2. cursor <= tot + n /\ tot + n \in Nat
    BY <2>1
  <2> QED BY <1>9, <1>10, <1>15, <2>1, <2>2 DEF OutputTyped
<1>18. OutputParts'
  <2>1. Output!HeadLimit' = hl /\ Output!TailLimit' = tl
    BY <1>1 DEF Output!HeadLimit, Output!TailLimit
  <2> QED BY <1>9, <1>10, <1>11, <1>13, <1>14, <1>15, <1>16, <2>1 DEF OutputParts, OutputFrom
<1>19. OutputPolled'
  BY <1>9 DEF OutputInv, OutputPolled
<1> QED BY <1>17, <1>18, <1>19 DEF OutputInv

LEMMA OutputPoll ==
    ASSUME OutputBounded, OutputInv, Output!Poll
    PROVE  OutputInv'
<1>1. /\ start \in Nat /\ total \in Nat /\ cursor \in Nat /\ omitted \in Nat
      /\ cursor < total /\ start <= total
  BY DEF OutputInv, OutputTyped, Output!Poll
<1>2. /\ omitted' = omitted + Output!Max({0, start - cursor})
      /\ delivered' = delivered \cup
             Output!ToSet(SubSeq(tail, Output!Max({0, cursor - start}) + 1, Len(tail)))
      /\ cursor' = total
      /\ UNCHANGED <<head, tail, start, total, outputLost>>
  BY DEF Output!Poll
<1>3. /\ Output!Max({0, start - cursor}) = IF 0 >= start - cursor THEN 0 ELSE start - cursor
      /\ Output!Max({0, cursor - start}) = IF 0 >= cursor - start THEN 0 ELSE cursor - start
  <2>1. 0 \in Int /\ start - cursor \in Int /\ cursor - start \in Int
    BY <1>1
  <2> QED BY <2>1, OutputOfTwo
<1>4. PICK from \in Nat : from = IF start >= cursor THEN start ELSE cursor
  BY <1>1
<1>5. PICK m \in Nat \ {0} : /\ m = Output!Max({0, cursor - start}) + 1
                             /\ start + m - 1 = from
  BY <1>1, <1>3, <1>4
<1>6. PICK t \in Nat : t = Len(tail) /\ start + t = total /\ OutputFrom(tail, start)
  BY <1>1 DEF OutputInv, OutputParts, OutputFrom
<1>7. PICK s : s = SubSeq(tail, m, t)
  OBVIOUS
<1>8. OutputFrom(s, from) /\ Len(s) = total - from
  <2>1. t \in 0 .. Len(tail) /\ m <= t + 1 /\ t - m + 1 = total - from
    BY <1>1, <1>4, <1>5, <1>6
  <2>2. OutputFrom(s, start + m - 1) /\ Len(s) = t - m + 1
    BY <1>1, <1>6, <1>7, <2>1, OutputSub
  <2> QED BY <1>5, <2>1, <2>2
<1>9. Output!ToSet(s) = from .. total - 1
  <2>1. from <= total
    BY <1>1, <1>4
  <2>2. ASSUME NEW x \in from .. total - 1 PROVE x \in Output!ToSet(s)
    <3>1. x - from + 1 \in 1 .. Len(s) /\ from + (x - from + 1) - 1 = x
      BY <1>1, <1>8
    <3>2. s[x - from + 1] = x
      BY <1>8, <3>1 DEF OutputFrom
    <3> QED BY <1>8, <3>1, <3>2 DEF Output!ToSet, OutputFrom
  <2>3. ASSUME NEW x \in Output!ToSet(s) PROVE x \in from .. total - 1
    <3>1. PICK k \in 1 .. Len(s) : x = s[k]
      BY <1>8 DEF Output!ToSet, OutputFrom
    <3>2. x = from + k - 1
      BY <1>8, <3>1 DEF OutputFrom
    <3> QED BY <1>1, <1>8, <2>1, <3>1, <3>2
  <2> QED BY <2>2, <2>3
<1>10. delivered' = delivered \cup from .. total - 1
  BY <1>2, <1>5, <1>6, <1>7, <1>9
<1>11. delivered \subseteq 0 .. cursor - 1 /\ Cardinality(delivered) + omitted = cursor
  BY DEF OutputInv, OutputPolled
<1>12. /\ IsFiniteSet(delivered) /\ Cardinality(delivered) \in Nat
       /\ IsFiniteSet(from .. total - 1) /\ Cardinality(from .. total - 1) = total - from
  <2>1. IsFiniteSet(0 .. cursor - 1)
    BY <1>1, FS_Interval
  <2>2. IsFiniteSet(delivered) /\ Cardinality(delivered) \in Nat
    BY <1>11, <2>1, FS_Subset, FS_CardinalityType
  <2>3. from \in Int /\ total - 1 \in Int
    BY <1>1
  <2>4. IsFiniteSet(from .. total - 1) /\ Cardinality(from .. total - 1) =
            IF from > total - 1 THEN 0 ELSE total - 1 - from + 1
    BY <2>3, FS_Interval
  <2> QED BY <1>1, <1>4, <2>2, <2>4
<1>13. Cardinality(delivered') = Cardinality(delivered) + (total - from)
  <2>1. delivered \cap (from .. total - 1) = {}
    BY <1>1, <1>4, <1>11
  <2>2. Cardinality(delivered \cap (from .. total - 1)) = 0
    BY <2>1, FS_EmptySet
  <2>3. Cardinality(delivered') = Cardinality(delivered) + Cardinality(from .. total - 1)
                                    - Cardinality(delivered \cap (from .. total - 1))
    BY <1>10, <1>12, FS_Union
  <2> QED BY <1>1, <1>12, <2>2, <2>3
<1>14. omitted' = omitted + (from - cursor) /\ omitted' \in Nat
  BY <1>1, <1>2, <1>3, <1>4
<1>15. OutputPolled'
  <2>1. delivered' \subseteq 0 .. total - 1
    BY <1>1, <1>4, <1>10, <1>11
  <2>2. PICK many \in Nat, cur \in Nat, om \in Nat, tot \in Nat :
           many = Cardinality(delivered) /\ cur = cursor /\ om = omitted /\ tot = total
    BY <1>1, <1>12
  <2>3. many + om = cur /\ Cardinality(delivered') = many + (tot - from)
        /\ omitted' = om + (from - cur)
    BY <1>11, <1>13, <1>14, <2>2
  <2>4. many + (tot - from) + (om + (from - cur)) = tot
    BY <2>3
  <2> QED BY <1>2, <2>1, <2>2, <2>3, <2>4 DEF OutputPolled
<1>16. OutputTyped'
  BY <1>1, <1>2, <1>14 DEF OutputInv, OutputTyped
<1>17. OutputParts'
  BY <1>2 DEF OutputInv, OutputParts, OutputFrom, Output!HeadLimit, Output!TailLimit
<1> QED BY <1>15, <1>16, <1>17 DEF OutputInv

LEMMA OutputPreserved ==
    ASSUME OutputBounded, OutputInv, [Output!Next]_outputVars
    PROVE  OutputInv'
<1>1. CASE UNCHANGED outputVars
  BY <1>1 DEF outputVars, OutputInv, OutputTyped, OutputParts, OutputPolled, OutputFrom,
        Output!HeadLimit, Output!TailLimit
<1>2. CASE \E n \in 1 .. BufferLimit : Output!Arrive(n)
  <2>1. PICK n \in 1 .. BufferLimit : Output!Arrive(n)
    BY <1>2
  <2>2. n \in Nat \ {0}
    BY DEF OutputBounded
  <2> QED BY <2>1, <2>2, OutputArrive
<1>3. CASE Output!Poll
  BY <1>3, OutputPoll
<1> QED BY <1>1, <1>2, <1>3 DEF Output!Next

\* What a read returns from an offset on, in the tail, in the head or past the gap.
LEMMA OutputRead ==
    ASSUME OutputBounded, OutputInv, NEW at \in Nat, at <= total, NEW limit \in Nat \ {0}
    PROVE  /\ OutputFrom(Output!Chunk(at, limit), Output!Offset(at))
           /\ Output!Offset(at) \in Nat
           /\ Output!Offset(at) = at \/ /\ Output!Offset(at) = start
                                        /\ Len(head) <= at /\ at < start
           /\ at < total => Len(Output!Chunk(at, limit)) >= 1
<1>1. PICK tl \in Nat \ {0}, h \in Nat, t \in Nat, st \in Nat, tot \in Nat :
         /\ tl = Output!TailLimit /\ h = Len(head) /\ t = Len(tail)
         /\ st = start /\ tot = total
  <2>1. Len(head) \in Nat /\ Len(tail) \in Nat
    BY DEF OutputInv, OutputParts, OutputFrom
  <2> QED BY <2>1, OutputLimits DEF OutputInv, OutputTyped
<1>2. /\ st + t = tot /\ t <= tl /\ (st = 0 \/ t = tl) /\ at <= tot
      /\ OutputFrom(head, 0) /\ OutputFrom(tail, st)
  BY <1>1 DEF OutputInv, OutputTyped, OutputParts
<1>3. CASE at >= st
  <2>1. PICK m \in Nat \ {0}, n \in Nat :
           m = at - st + 1 /\ n = IF at - st + limit <= t THEN at - st + limit ELSE t
    <3>1. at - st + 1 \in Nat \ {0} /\ (IF at - st + limit <= t THEN at - st + limit ELSE t) \in Nat
      BY <1>3
    <3> QED BY <3>1
  <2>2. Output!Min({at - st + limit, t}) = n
    <3>1. at - st + limit \in Int /\ t \in Int
      OBVIOUS
    <3> QED BY <2>1, <3>1, OutputOfTwo
  <2>3. Output!Chunk(at, limit) = SubSeq(tail, m, n) /\ Output!Offset(at) = at
    BY <1>1, <1>3, <2>1, <2>2 DEF Output!Chunk, Output!Offset
  <2>4. m <= n + 1 /\ st + m - 1 = at /\ n \in 0 .. t /\ (at < tot => n - m + 1 >= 1)
    BY <1>2, <1>3, <2>1
  <2>5. n \in 0 .. Len(tail)
    BY <1>1, <2>4
  <2>6. OutputFrom(SubSeq(tail, m, n), st + m - 1) /\ Len(SubSeq(tail, m, n)) = n - m + 1
    BY <1>2, <2>4, <2>5, OutputSub
  <2> QED BY <1>1, <2>3, <2>4, <2>6
<1>4. CASE at < st /\ at < h
  <2>1. PICK m \in Nat \ {0}, n \in Nat :
           m = at + 1 /\ n = IF at + limit <= h THEN at + limit ELSE h
    <3>1. at + 1 \in Nat \ {0} /\ (IF at + limit <= h THEN at + limit ELSE h) \in Nat
      OBVIOUS
    <3> QED BY <3>1
  <2>2. Output!Min({at + limit, h}) = n
    <3>1. at + limit \in Int /\ h \in Int
      OBVIOUS
    <3> QED BY <2>1, <3>1, OutputOfTwo
  <2>3. Output!Chunk(at, limit) = SubSeq(head, m, n) /\ Output!Offset(at) = at
    <3>1. ~(at >= st)
      BY <1>4
    <3> QED BY <1>1, <1>4, <2>1, <2>2, <3>1 DEF Output!Chunk, Output!Offset
  <2>4. m <= n + 1 /\ 0 + m - 1 = at /\ n \in 0 .. h /\ n - m + 1 >= 1 /\ 0 \in Nat
    BY <1>4, <2>1
  <2>5. n \in 0 .. Len(head)
    BY <1>1, <2>4
  <2>6. OutputFrom(SubSeq(head, m, n), 0 + m - 1) /\ Len(SubSeq(head, m, n)) = n - m + 1
    BY <1>2, <2>4, <2>5, OutputSub
  <2> QED BY <2>3, <2>4, <2>6
<1>5. CASE at < st /\ ~(at < h)
  <2>1. PICK n \in Nat : n = IF limit <= t THEN limit ELSE t
    OBVIOUS
  <2>2. Output!Min({limit, t}) = n
    <3>1. limit \in Int /\ t \in Int
      OBVIOUS
    <3> QED BY <2>1, <3>1, OutputOfTwo
  <2>3. Output!Chunk(at, limit) = SubSeq(tail, 1, n) /\ Output!Offset(at) = st
    <3>1. ~(at >= st)
      BY <1>5
    <3> QED BY <1>1, <1>5, <2>2, <3>1 DEF Output!Chunk, Output!Offset
  <2>4. 1 \in Nat \ {0} /\ 1 <= n + 1 /\ st + 1 - 1 = st /\ n \in 0 .. t
        /\ n - 1 + 1 >= 1 /\ h <= at
    BY <1>2, <1>5, <2>1
  <2>5. n \in 0 .. Len(tail)
    BY <1>1, <2>4
  <2>6. OutputFrom(SubSeq(tail, 1, n), st + 1 - 1) /\ Len(SubSeq(tail, 1, n)) = n - 1 + 1
    BY <1>2, <2>4, <2>5, OutputSub
  <2> QED BY <1>1, <1>5, <2>3, <2>4, <2>6
<1> QED BY <1>3, <1>4, <1>5

LEMMA OutputNarrow ==
    ASSUME NEW T, NEW s, NEW from \in Nat, OutputFrom(s, from), \A k \in 1 .. Len(s) : s[k] \in T
    PROVE  s \in Seq(T)
<1>1. PICK n \in Nat : n = Len(s)
  BY DEF OutputFrom
<1>2. s \in [1 .. n -> T]
  BY <1>1 DEF OutputFrom
<1> QED BY <1>2

\* The bytes from an offset on, as a set.
LEMMA OutputBytes ==
    ASSUME NEW s, NEW from \in Nat, NEW n \in Nat, OutputFrom(s, from), Len(s) = n
    PROVE  Output!ToSet(s) = from .. from + n - 1
<1>1. DOMAIN s = 1 .. n
  BY DEF OutputFrom
<1>2. ASSUME NEW x \in from .. from + n - 1 PROVE x \in Output!ToSet(s)
  <2>1. x - from + 1 \in 1 .. n /\ from + (x - from + 1) - 1 = x
    OBVIOUS
  <2>2. s[x - from + 1] = x
    BY <2>1 DEF OutputFrom
  <2> QED BY <1>1, <2>1, <2>2 DEF Output!ToSet
<1>3. ASSUME NEW x \in Output!ToSet(s) PROVE x \in from .. from + n - 1
  <2>1. PICK k \in 1 .. n : x = s[k]
    BY <1>1 DEF Output!ToSet
  <2>2. x = from + k - 1
    BY <2>1 DEF OutputFrom
  <2> QED BY <2>2
<1> QED BY <1>2, <1>3

LEMMA OutputImplies ==
    ASSUME OutputBounded, OutputInv
    PROVE  Output!TypeOK /\ Output!OutputAccounted
<1>1. PICK hl \in Nat, tl \in Nat, h \in Nat, t \in Nat, st \in Nat, tot \in Nat, cur \in Nat,
           om \in Nat :
         /\ hl = Output!HeadLimit /\ tl = Output!TailLimit /\ h = Len(head) /\ t = Len(tail)
         /\ st = start /\ tot = total /\ cur = cursor /\ om = omitted
  <2>1. Len(head) \in Nat /\ Len(tail) \in Nat
    BY DEF OutputInv, OutputParts, OutputFrom
  <2> QED BY <2>1, OutputLimits DEF OutputInv, OutputTyped
<1>2. /\ h = (IF tot <= hl THEN tot ELSE hl) /\ t <= tl /\ st + t = tot
      /\ outputLost = (IF st <= h THEN 0 ELSE st - h)
      /\ cur <= tot /\ tot <= MaxBytes
      /\ Cardinality(delivered) + om = cur /\ delivered \subseteq 0 .. cur - 1
  BY <1>1 DEF OutputInv, OutputTyped, OutputParts, OutputPolled
<1>3. OutputFrom(head, 0) /\ OutputFrom(tail, st)
  BY <1>1 DEF OutputInv, OutputParts
<1>4. PICK many \in Nat : many = Cardinality(delivered)
  <2>1. IsFiniteSet(0 .. cur - 1)
    BY FS_Interval
  <2> QED BY <1>2, <2>1, FS_Subset, FS_CardinalityType
<1>5. PICK max \in Nat : max = MaxBytes
  BY DEF OutputBounded
<1>6. h <= hl /\ h <= tot /\ st <= tot /\ tot <= max /\ om <= max /\ cur <= max
      /\ outputLost \in 0 .. max
  <2>1. many + om = cur
    BY <1>2, <1>4
  <2>2. tot <= max
    BY <1>2, <1>5
  <2> QED BY <1>2, <2>1, <2>2
<1>7. Output!TypeOK
  <2>1. head \in Seq(0 .. max)
    <3>1. \A k \in 1 .. h : 0 + k - 1 \in 0 .. max
      BY <1>6
    <3>2. \A k \in 1 .. Len(head) : head[k] \in 0 .. max
      BY <1>1, <1>3, <3>1 DEF OutputFrom
    <3> QED BY <1>3, <3>2, OutputNarrow
  <2>2. tail \in Seq(0 .. max)
    <3>1. \A k \in 1 .. t : st + k - 1 \in 0 .. max
      BY <1>2, <1>6
    <3>2. \A k \in 1 .. Len(tail) : tail[k] \in 0 .. max
      BY <1>1, <1>3, <3>1 DEF OutputFrom
    <3> QED BY <1>3, <3>2, OutputNarrow
  <2>3. {start, total, cursor, outputLost, omitted} \subseteq 0 .. max
    BY <1>1, <1>6
  <2>4. delivered \subseteq 0 .. max
    BY <1>2, <1>6
  <2>5. Len(head) <= Output!HeadLimit /\ Len(tail) <= Output!TailLimit
    BY <1>1, <1>2, <1>6
  <2> QED BY <1>5, <2>1, <2>2, <2>3, <2>4, <2>5 DEF Output!TypeOK
<1>8. Output!ToSet(head) = 0 .. h - 1 /\ Output!ToSet(tail) = st .. tot - 1
  <2>1. 0 \in Nat /\ 0 + h - 1 = h - 1 /\ st + t - 1 = tot - 1
    BY <1>2
  <2>2. Output!ToSet(head) = 0 .. 0 + h - 1 /\ Output!ToSet(tail) = st .. st + t - 1
    BY <1>1, <1>3, <2>1, OutputBytes
  <2> QED BY <2>1, <2>2
<1>9. ASSUME NEW at \in 0 .. total, NEW limit \in 1 .. BufferLimit
      PROVE  LET chunk == Output!Chunk(at, limit) IN
             /\ \A k \in DOMAIN chunk : chunk[k] = Output!Offset(at) + k - 1
             /\ \A skipped \in at .. Output!Offset(at) - 1 :
                   skipped \notin Output!ToSet(head) \cup Output!ToSet(tail)
             /\ at < total => chunk # <<>>
  <2>1. PICK a \in Nat, l \in Nat \ {0} : a = at /\ l = limit /\ a <= tot
    <3>1. at \in Nat /\ at <= tot
      BY <1>1
    <3>2. limit \in Nat \ {0}
      BY DEF OutputBounded
    <3> QED BY <3>1, <3>2
  <2>2. PICK c, o : c = Output!Chunk(a, l) /\ o = Output!Offset(a)
    OBVIOUS
  <2>3. /\ OutputFrom(c, o)
        /\ o \in Nat
        /\ o = a \/ (o = st /\ h <= a /\ a < st)
        /\ a < tot => Len(c) >= 1
    BY <1>1, <2>1, <2>2, OutputRead
  <2>4. \A k \in DOMAIN c : c[k] = o + k - 1
    <3>1. c \in Seq(Nat) /\ \A k \in 1 .. Len(c) : c[k] = o + k - 1
      BY <2>3, Zenon DEF OutputFrom
    <3>2. DOMAIN c = 1 .. Len(c)
      BY <3>1, LenProperties
    <3> QED BY <3>1, <3>2
  <2>5. ASSUME NEW skipped \in a .. o - 1
        PROVE  skipped \notin Output!ToSet(head) \cup Output!ToSet(tail)
    <3>1. o = st /\ h <= a /\ a < st
      BY <2>3
    <3>2. skipped \notin 0 .. h - 1 /\ skipped \notin st .. tot - 1
      BY <2>3, <3>1
    <3> QED BY <1>8, <3>2
  <2>6. a < tot => c # <<>>
    BY <2>3
  <2> QED BY <1>1, <2>1, <2>2, <2>4, <2>5, <2>6
<1>10. outputLost = Cardinality((0 .. total - 1) \ (Output!ToSet(head) \cup Output!ToSet(tail)))
  <2>1. (0 .. tot - 1) \ (Output!ToSet(head) \cup Output!ToSet(tail)) = h .. st - 1
    <3>1. ASSUME NEW x
          PROVE  x \in (0 .. tot - 1) \ ((0 .. h - 1) \cup (st .. tot - 1))
                   <=> x \in h .. st - 1
      BY <1>2, <1>6
    <3> QED BY <1>8, <3>1
  <2>2. h \in Int /\ st - 1 \in Int
    OBVIOUS
  <2>3. Cardinality(h .. st - 1) = IF h > st - 1 THEN 0 ELSE st - 1 - h + 1
    BY <2>2, FS_Interval
  <2>4. outputLost = IF h > st - 1 THEN 0 ELSE st - 1 - h + 1
    BY <1>2
  <2> QED BY <1>1, <2>1, <2>3, <2>4
<1> QED BY <1>1, <1>2, <1>7, <1>9, <1>10, OutputCardinality DEF Output!OutputAccounted

-----------------------------------------------------------------------------
(* The commands of a workspace (CommandRuns).                                 *)

RunsBounded == {MaxActive, MaxRetained} \subseteq Nat /\ IsFiniteSet(Commands)

RunsTyped ==
    /\ exec \in [Commands -> {"idle", "reserved", "spawned", "refused", "running", "returned"}]
    /\ proc \in [Commands -> {"none", "running", "signalled", "exited"}]
    /\ killer \in [Commands -> {"idle", "term", "kill", "evict"}]
    /\ active \subseteq Commands /\ settling \subseteq Commands /\ ending \subseteq Commands
    /\ retained \in Seq(Commands) /\ starting \in Nat
RunsFlags == managerClosed \in BOOLEAN

RunsStarting == {c \in Commands : exec[c] \in {"reserved", "spawned"}}
RunsSlots ==
    /\ Cardinality(active) + starting <= MaxActive
    /\ starting = Cardinality(RunsStarting)

\* Nothing is a command before its process is spawned, what is kept or dropped has
\* exited, and after the end no table has a command that runs.
RunsKnown ==
    /\ \A c \in Commands :
          /\ exec[c] \in {"idle", "reserved"} => proc[c] = "none"
          /\ exec[c] = "spawned" => proc[c] # "none"
          /\ c \in active => proc[c] # "none"
          /\ c \in settling => proc[c] = "exited"
          /\ killer[c] # "idle" => proc[c] # "none"
          /\ killer[c] = "evict" => proc[c] = "exited"
          /\ exec[c] = "refused" => managerClosed
    /\ \A k \in 1 .. Len(retained) : proc[retained[k]] = "exited"
    /\ managerClosed => active = {}
    /\ ~managerClosed => ending = {}

RunsReached ==
    \A c \in Commands : Runs!Alive(c) =>
          \/ exec[c] \in {"spawned", "refused"}
          \/ c \in active
          \/ c \in ending
          \/ managerClosed /\ proc[c] = "signalled"

RunsInv == RunsTyped /\ RunsFlags /\ RunsSlots /\ RunsKnown /\ RunsReached

LEMMA RunsCardinality == \A S : Runs!Cardinality(S) = Cardinality(S)
BY DEF Runs!Cardinality, Cardinality

LEMMA RunsFinite ==
    ASSUME RunsBounded, NEW S \in SUBSET Commands
    PROVE  /\ IsFiniteSet(S) /\ Cardinality(S) \in Nat
           /\ \A T \in SUBSET S : Cardinality(T) <= Cardinality(S) /\ Cardinality(T) \in Nat
           /\ \A c \in S : /\ Cardinality(S \ {c}) = Cardinality(S) - 1
                           /\ Cardinality(S) >= 1
           /\ \A c \in Commands : Cardinality(S \cup {c}) <= Cardinality(S) + 1
           /\ \A c \in Commands \ S : Cardinality(S \cup {c}) = Cardinality(S) + 1
<1>1. IsFiniteSet(S) /\ Cardinality(S) \in Nat
  BY FS_Subset, FS_CardinalityType DEF RunsBounded
<1>2. \A T \in SUBSET S : Cardinality(T) <= Cardinality(S) /\ Cardinality(T) \in Nat
  BY <1>1, FS_Subset, FS_CardinalityType
<1>3. ASSUME NEW c \in S
      PROVE  Cardinality(S \ {c}) = Cardinality(S) - 1 /\ Cardinality(S) >= 1
  <2>1. Cardinality(S \ {c}) = Cardinality(S) - 1
    BY <1>1, FS_RemoveElement
  <2>2. Cardinality(S \ {c}) \in Nat
    BY <1>2
  <2> QED BY <1>1, <2>1, <2>2
<1>4. ASSUME NEW c \in Commands
      PROVE  /\ Cardinality(S \cup {c}) <= Cardinality(S) + 1
             /\ (c \notin S => Cardinality(S \cup {c}) = Cardinality(S) + 1)
  <2>1. CASE c \in S
    <3>1. PICK many \in Nat : many = Cardinality(S)
      BY <1>1
    <3>2. S \cup {c} = S
      BY <2>1
    <3>3. Cardinality(S \cup {c}) = many
      BY <3>1, <3>2, Zenon
    <3>4. many <= many + 1
      OBVIOUS
    <3> QED BY <2>1, <3>1, <3>3, <3>4, Zenon
  <2>2. CASE c \notin S
    <3>1. Cardinality(S \cup {c}) = Cardinality(S) + 1
      BY <1>1, <2>2, FS_AddElement
    <3> QED BY <1>1, <2>2, <3>1
  <2> QED BY <2>1, <2>2
<1> QED BY <1>1, <1>2, <1>3, <1>4

\* What leaves the table of kept output changes nothing else there.
LEMMA RunsWithout ==
    ASSUME NEW s \in Seq(Commands), NEW c \in Commands
    PROVE  /\ Runs!Without(s, c) \in Seq(Commands)
           /\ \A k \in 1 .. Len(Runs!Without(s, c)) :
                 \E j \in 1 .. Len(s) : Runs!Without(s, c)[k] = s[j]
<1>1. CASE c \notin Runs!ToSet(s)
  BY <1>1 DEF Runs!Without
<1>2. CASE c \in Runs!ToSet(s)
  <2>1. PICK i \in 1 .. Len(s) : i = CHOOSE k \in DOMAIN s : s[k] = c
    BY <1>2 DEF Runs!ToSet
  <2>2. Runs!Without(s, c) = SubSeq(s, 1, i - 1) \o SubSeq(s, i + 1, Len(s))
    BY <1>2, <2>1, Zenon DEF Runs!Without, Runs!RemoveAt
  <2>3. PICK n \in Nat : n = Len(s) /\ i \in 1 .. n
    OBVIOUS
  <2>4. /\ 1 \in Int /\ i - 1 \in Int /\ i + 1 \in Int /\ n \in Int
        /\ \A k \in 1 .. n : s[k] \in Commands
        /\ \A k \in 1 .. i - 1 : s[k] \in Commands
        /\ \A k \in i + 1 .. n : s[k] \in Commands
    BY <2>3
  <2>5. PICK a, b : a = SubSeq(s, 1, i - 1) /\ b = SubSeq(s, i + 1, n)
    OBVIOUS
  <2>6. /\ a \in Seq(Commands) /\ Len(a) = i - 1
        /\ \A k \in 1 .. i - 1 : a[k] = s[k]
    <3>1. /\ a \in Seq(Commands)
          /\ Len(a) = IF 1 <= i - 1 THEN i - 1 - 1 + 1 ELSE 0
          /\ \A k \in 1 .. i - 1 - 1 + 1 : a[k] = s[1 + k - 1]
      BY <2>4, <2>5, SubSeqProperties
    <3> QED BY <2>3, <3>1
  <2>7. /\ b \in Seq(Commands) /\ Len(b) = n - i
        /\ \A k \in 1 .. n - i : b[k] = s[i + k]
    <3>1. /\ b \in Seq(Commands)
          /\ Len(b) = IF i + 1 <= n THEN n - (i + 1) + 1 ELSE 0
          /\ \A k \in 1 .. n - (i + 1) + 1 : b[k] = s[i + 1 + k - 1]
      BY <2>4, <2>5, SubSeqProperties
    <3> QED BY <2>3, <3>1
  <2>9. /\ a \o b \in Seq(Commands) /\ Len(a \o b) = n - 1
        /\ \A k \in 1 .. n - 1 : (a \o b)[k] = IF k <= i - 1 THEN a[k] ELSE b[k - (i - 1)]
    <3>1. /\ a \o b \in Seq(Commands) /\ Len(a \o b) = Len(a) + Len(b)
          /\ \A k \in 1 .. Len(a) + Len(b) :
                (a \o b)[k] = IF k <= Len(a) THEN a[k] ELSE b[k - Len(a)]
      BY <2>6, <2>7, ConcatProperties
    <3>2. Len(a) + Len(b) = n - 1
      BY <2>3, <2>6, <2>7
    <3> QED BY <2>6, <3>1, <3>2
  <2>8. ASSUME NEW k \in 1 .. n - 1 PROVE \E j \in 1 .. n : (a \o b)[k] = s[j]
    <3>1. CASE k <= i - 1
      <4>1. k \in 1 .. i - 1 /\ k \in 1 .. n
        BY <2>3, <3>1
      <4>2. (a \o b)[k] = s[k]
        BY <2>6, <2>9, <3>1, <4>1
      <4> QED BY <4>1, <4>2
    <3>2. CASE ~(k <= i - 1)
      <4>1. k - (i - 1) \in 1 .. n - i /\ i + (k - (i - 1)) = k + 1 /\ k + 1 \in 1 .. n
        BY <2>3, <3>2
      <4>2. (a \o b)[k] = s[k + 1]
        BY <2>7, <2>9, <3>2, <4>1
      <4> QED BY <4>1, <4>2
    <3> QED BY <3>1, <3>2
  <2>10. Runs!Without(s, c) = a \o b
    BY <2>2, <2>3, <2>5
  <2> QED BY <2>3, <2>8, <2>9, <2>10
<1> QED BY <1>1, <1>2

LEMMA RunsInitInv == ASSUME RunsBounded, Runs!Init PROVE RunsInv
<1>1. RunsFlags
  BY Zenon DEF Runs!Init, RunsFlags
<1>2. RunsTyped
  BY DEF Runs!Init, RunsTyped
<1>3. RunsSlots
  <2>1. RunsStarting = {} /\ active = {} /\ starting = 0
    BY DEF Runs!Init, RunsStarting
  <2> QED BY <2>1, FS_EmptySet DEF RunsSlots, RunsBounded
<1>4. RunsKnown /\ RunsReached
  BY DEF Runs!Init, RunsKnown, RunsReached, Runs!Alive
<1> QED BY <1>1, <1>2, <1>3, <1>4 DEF RunsInv

\* Slots stay counted where no call starts and no command is added.
LEMMA RunsSlotsKept ==
    ASSUME RunsBounded, RunsInv, RunsTyped', active' \subseteq active, starting' = starting,
           RunsStarting' = RunsStarting
    PROVE  RunsSlots'
<1>1. Cardinality(active') <= Cardinality(active) /\ Cardinality(active') \in Nat
      /\ Cardinality(active) \in Nat
  BY RunsFinite DEF RunsInv, RunsTyped
<1> QED BY <1>1 DEF RunsInv, RunsSlots, RunsTyped, RunsBounded

LEMMA RunsCallStep ==
    ASSUME RunsBounded, RunsInv, NEW c \in Commands,
           \/ Runs!ExecReserve(c) \/ Runs!ExecSpawn(c) \/ Runs!ExecRegister(c)
    PROVE  RunsInv'
<1>0. RunsStarting \in SUBSET Commands
  BY DEF RunsStarting
<1>1. CASE Runs!ExecReserve(c)
  <2>1. /\ exec[c] = "idle" /\ ~managerClosed /\ Cardinality(active) + starting < MaxActive
        /\ starting' = starting + 1 /\ exec' = [exec EXCEPT ![c] = "reserved"]
        /\ UNCHANGED <<proc, active, retained, settling, killer, managerClosed, ending>>
    BY <1>1, RunsCardinality DEF Runs!ExecReserve
  <2>2. RunsFlags'
    BY <1>1, Zenon DEF Runs!ExecReserve, RunsInv, RunsFlags
  <2>3. RunsTyped'
    BY <2>1 DEF RunsInv, RunsTyped
  <2>4. RunsStarting' = RunsStarting \cup {c} /\ c \notin RunsStarting
    BY <2>1 DEF RunsInv, RunsTyped, RunsStarting
  <2>5. RunsSlots'
    <3>1. Cardinality(RunsStarting') = Cardinality(RunsStarting) + 1
      BY <1>0, <2>4, RunsFinite
    <3>2. Cardinality(active) \in Nat
      BY RunsFinite DEF RunsInv, RunsTyped
    <3> QED BY <2>1, <3>1, <3>2 DEF RunsInv, RunsTyped, RunsSlots, RunsBounded
  <2>6. RunsKnown'
    BY <2>1 DEF RunsInv, RunsTyped, RunsKnown
  <2>7. RunsReached'
    BY <2>1 DEF RunsInv, RunsTyped, RunsReached, Runs!Alive
  <2> QED BY <2>2, <2>3, <2>5, <2>6, <2>7 DEF RunsInv
<1>2. CASE Runs!ExecSpawn(c)
  <2>1. /\ exec[c] = "reserved"
        /\ \/ /\ proc' = [proc EXCEPT ![c] = "running"]
              /\ exec' = [exec EXCEPT ![c] = "spawned"] /\ starting' = starting
           \/ /\ starting' = starting - 1
              /\ exec' = [exec EXCEPT ![c] = "returned"] /\ proc' = proc
        /\ UNCHANGED <<active, retained, settling, killer, managerClosed, ending>>
    BY <1>2 DEF Runs!ExecSpawn
  <2>2. RunsFlags'
    BY <1>2, Zenon DEF Runs!ExecSpawn, RunsInv, RunsFlags
  <2>3. c \in RunsStarting /\ Cardinality(RunsStarting) >= 1
        /\ Cardinality(RunsStarting \ {c}) = Cardinality(RunsStarting) - 1
    <3>1. c \in RunsStarting
      BY <2>1 DEF RunsStarting
    <3> QED BY <1>0, <3>1, RunsFinite
  <2>4. RunsTyped'
    BY <2>1, <2>3 DEF RunsInv, RunsTyped, RunsSlots
  <2>5. RunsSlots'
    <3>1. CASE starting' = starting /\ exec' = [exec EXCEPT ![c] = "spawned"]
      <4>1. RunsStarting' = RunsStarting
        BY <2>1, <3>1 DEF RunsInv, RunsTyped, RunsStarting
      <4> QED BY <2>1, <2>4, <3>1, <4>1, RunsSlotsKept
    <3>2. CASE starting' = starting - 1 /\ exec' = [exec EXCEPT ![c] = "returned"]
      <4>1. RunsStarting' = RunsStarting \ {c}
        BY <2>1, <3>2 DEF RunsInv, RunsTyped, RunsStarting
      <4>2. Cardinality(active) \in Nat
        BY RunsFinite DEF RunsInv, RunsTyped
      <4> QED BY <2>1, <2>3, <3>2, <4>1, <4>2 DEF RunsInv, RunsTyped, RunsSlots, RunsBounded
    <3> QED BY <2>1, <3>1, <3>2
  <2>6. RunsKnown'
    BY <2>1 DEF RunsInv, RunsTyped, RunsKnown
  <2>7. RunsReached'
    BY <2>1 DEF RunsInv, RunsTyped, RunsReached, Runs!Alive
  <2> QED BY <2>2, <2>4, <2>5, <2>6, <2>7 DEF RunsInv
<1>3. CASE Runs!ExecRegister(c)
  <2>1. /\ exec[c] = "spawned" /\ starting' = starting - 1
        /\ active' = IF managerClosed THEN active ELSE active \cup {c}
        /\ exec' = [exec EXCEPT ![c] = IF managerClosed THEN "refused" ELSE "running"]
        /\ UNCHANGED <<proc, retained, settling, killer, managerClosed, ending>>
    BY <1>3 DEF Runs!ExecRegister
  <2>2. RunsFlags'
    BY <1>3, Zenon DEF Runs!ExecRegister, RunsInv, RunsFlags
  <2>3. c \in RunsStarting /\ Cardinality(RunsStarting) >= 1
        /\ Cardinality(RunsStarting \ {c}) = Cardinality(RunsStarting) - 1
    <3>1. c \in RunsStarting
      BY <2>1 DEF RunsStarting
    <3> QED BY <1>0, <3>1, RunsFinite
  <2>4. RunsTyped'
    BY <2>1, <2>3 DEF RunsInv, RunsTyped, RunsSlots
  <2>5. RunsSlots'
    <3>1. RunsStarting' = RunsStarting \ {c}
      BY <2>1 DEF RunsInv, RunsTyped, RunsStarting
    <3>2. Cardinality(active) \in Nat /\ Cardinality(active') \in Nat
          /\ Cardinality(active') <= Cardinality(active) + 1
      <4>1. Cardinality(active) \in Nat /\ Cardinality(active \cup {c}) <= Cardinality(active) + 1
        BY RunsFinite DEF RunsInv, RunsTyped
      <4>2. Cardinality(active') \in Nat
        BY <2>4, RunsFinite DEF RunsTyped
      <4> QED BY <2>1, <4>1, <4>2
    <3> QED BY <2>1, <2>3, <3>1, <3>2 DEF RunsInv, RunsTyped, RunsSlots, RunsBounded
  <2>6. RunsKnown'
    BY <2>1 DEF RunsInv, RunsTyped, RunsKnown
  <2>7. RunsReached'
    BY <2>1 DEF RunsInv, RunsTyped, RunsReached, Runs!Alive
  <2> QED BY <2>2, <2>4, <2>5, <2>6, <2>7 DEF RunsInv
<1> QED BY <1>1, <1>2, <1>3

\* A process may end or be told to; that makes none alive, and each of the steps
\* below does only that to it.
RunsProcStep ==
    \A c \in Commands : \/ proc'[c] = proc[c]
                        \/ proc[c] = "running" /\ proc'[c] = "signalled"
                        \/ Runs!Alive(c) /\ proc'[c] = "exited"

LEMMA RunsTerminated ==
    ASSUME RunsInv, NEW c \in Commands, proc' = proc \/ proc' = Runs!Terminated(c)
    PROVE  /\ proc' \in [Commands -> {"none", "running", "signalled", "exited"}]
           /\ RunsProcStep
           /\ proc' = Runs!Terminated(c) => proc'[c] # "running"
BY DEF RunsInv, RunsTyped, RunsProcStep, Runs!Terminated

LEMMA RunsProcKept ==
    ASSUME RunsInv, RunsProcStep, proc' \in [Commands -> {"none", "running", "signalled", "exited"}]
    PROVE  \A c \in Commands : /\ proc[c] = "none" => proc'[c] = "none"
                               /\ proc[c] # "none" => proc'[c] # "none"
                               /\ proc[c] = "exited" => proc'[c] = "exited"
                               /\ Runs!Alive(c)' => Runs!Alive(c)
                               /\ proc[c] = "signalled" /\ Runs!Alive(c)' => proc'[c] = "signalled"
BY DEF RunsInv, RunsTyped, RunsProcStep, Runs!Alive

LEMMA RunsProcesses ==
    ASSUME RunsBounded, RunsInv, NEW c \in Commands,
           \/ Runs!Exit(c) \/ Runs!ExecRefused(c) \/ Runs!ExecReturn(c) \/ Runs!Watchdog(c)
           \/ Runs!CloseStep(c) \/ Runs!KillBegin(c)
    PROVE  RunsInv'
<1>1. proc' \in [Commands -> {"none", "running", "signalled", "exited"}] /\ RunsProcStep
  <2>1. CASE Runs!Exit(c)
    BY <2>1 DEF Runs!Exit, Runs!Alive, RunsProcStep, RunsInv, RunsTyped
  <2>2. CASE ~Runs!Exit(c)
    <3>1. proc' = proc \/ proc' = Runs!Terminated(c)
      BY <2>2, Zenon DEF Runs!ExecRefused, Runs!ExecReturn, Runs!Watchdog, Runs!CloseStep,
                         Runs!KillBegin
    <3> QED BY <3>1, RunsTerminated
  <2> QED BY <2>1, <2>2
<1>2. \A d \in Commands : /\ proc[d] = "none" => proc'[d] = "none"
                          /\ proc[d] # "none" => proc'[d] # "none"
                          /\ proc[d] = "exited" => proc'[d] = "exited"
                          /\ Runs!Alive(d)' => Runs!Alive(d)
                          /\ proc[d] = "signalled" /\ Runs!Alive(d)' => proc'[d] = "signalled"
  BY <1>1, RunsProcKept
<1>3. /\ UNCHANGED <<starting, active, retained, settling, managerClosed>>
      /\ ending' \subseteq ending
      /\ exec' = exec \/ (exec[c] \in {"refused", "running"}
                          /\ exec' = [exec EXCEPT ![c] = "returned"])
      /\ killer' = killer \/ /\ c \in active \cup Runs!ToSet(retained) /\ exec' = exec
                             /\ killer' = [killer EXCEPT ![c] = IF Runs!Alive(c) THEN "term"
                                                                                ELSE "evict"]
  BY DEF Runs!Exit, Runs!ExecRefused, Runs!ExecReturn, Runs!Watchdog, Runs!CloseStep, Runs!KillBegin
<1>4. RunsFlags'
  BY Zenon DEF Runs!Exit, Runs!ExecRefused, Runs!ExecReturn, Runs!Watchdog, Runs!CloseStep,
               Runs!KillBegin, RunsInv, RunsFlags
<1>5. RunsTyped'
  BY <1>1, <1>3 DEF RunsInv, RunsTyped
<1>6. RunsSlots'
  <2>1. RunsStarting' = RunsStarting
    BY <1>3 DEF RunsInv, RunsTyped, RunsStarting
  <2> QED BY <1>3, <1>5, <2>1, RunsSlotsKept
<1>7. proc[c] # "none" \/ killer' = killer
  BY <1>3 DEF RunsInv, RunsKnown, RunsTyped, Runs!ToSet
<1>8. RunsKnown'
  <2>1. \A d \in Commands :
          /\ exec'[d] = exec[d] \/ exec'[d] = "returned"
          /\ killer'[d] = killer[d] \/ (d = c /\ killer'[d] \in {"term", "evict"})
          /\ killer'[d] = killer[d] \/ killer'[d] = "term" \/ ~Runs!Alive(d)
    BY <1>3 DEF RunsInv, RunsTyped
  <2>2. \A d \in Commands :
          /\ killer'[d] # "idle" => proc'[d] # "none"
          /\ killer'[d] = "evict" => proc'[d] = "exited"
    BY <1>1, <1>2, <1>7, <2>1 DEF RunsInv, RunsTyped, RunsKnown, Runs!Alive
  <2>3. \A k \in 1 .. Len(retained') : proc'[retained'[k]] = "exited"
    BY <1>2, <1>3 DEF RunsInv, RunsTyped, RunsKnown
  <2>4. \A d \in Commands :
          /\ exec'[d] \in {"idle", "reserved"} => proc'[d] = "none"
          /\ exec'[d] = "spawned" => proc'[d] # "none"
          /\ d \in active' => proc'[d] # "none"
          /\ d \in settling' => proc'[d] = "exited"
          /\ exec'[d] = "refused" => managerClosed'
    BY <1>2, <1>3, <2>1 DEF RunsInv, RunsKnown
  <2>5. (managerClosed' => active' = {}) /\ (~managerClosed' => ending' = {})
    BY <1>3 DEF RunsInv, RunsKnown
  <2> QED BY <2>2, <2>3, <2>4, <2>5 DEF RunsKnown
<1>9. RunsReached'
  <2>1. ASSUME NEW d \in Commands, Runs!Alive(d)'
        PROVE  \/ exec'[d] \in {"spawned", "refused"} \/ d \in active'
               \/ d \in ending' \/ (managerClosed' /\ proc'[d] = "signalled")
    <3>1. Runs!Alive(d)
      BY <1>2, <2>1
    <3>2. CASE exec[d] \in {"spawned", "refused"}
      <4>1. CASE exec'[d] = exec[d]
        BY <3>2, <4>1
      <4>2. CASE exec'[d] # exec[d]
        <5>1. d = c /\ exec[c] = "refused"
          BY <1>3, <3>2, <4>2 DEF RunsInv, RunsTyped
        <5>2. proc' = Runs!Terminated(c)
          BY <4>2, <5>1 DEF Runs!Exit, Runs!ExecRefused, Runs!ExecReturn, Runs!Watchdog,
                            Runs!CloseStep, Runs!KillBegin
        <5>3. managerClosed'
          BY <1>3, <5>1 DEF RunsInv, RunsKnown
        <5>4. proc'[d] = "signalled"
          BY <1>1, <2>1, <5>1, <5>2, RunsTerminated DEF Runs!Alive
        <5> QED BY <5>3, <5>4
      <4> QED BY <4>1, <4>2
    <3>3. CASE d \in active
      BY <1>3, <3>3
    <3>4. CASE d \in ending
      <4>1. CASE d \in ending'
        BY <4>1
      <4>2. CASE d \notin ending'
        <5>1. d = c /\ proc' = Runs!Terminated(c)
          BY <3>4, <4>2 DEF Runs!Exit, Runs!ExecRefused, Runs!ExecReturn, Runs!Watchdog,
                            Runs!CloseStep, Runs!KillBegin
        <5>2. managerClosed'
          BY <1>3, <3>4 DEF RunsInv, RunsKnown
        <5>3. proc'[d] = "signalled"
          BY <1>1, <2>1, <5>1, RunsTerminated DEF Runs!Alive
        <5> QED BY <5>2, <5>3
      <4> QED BY <4>1, <4>2
    <3>5. CASE managerClosed /\ proc[d] = "signalled"
      BY <1>2, <1>3, <2>1, <3>5
    <3> QED BY <3>1, <3>2, <3>3, <3>4, <3>5 DEF RunsInv, RunsReached
  <2> QED BY <2>1 DEF RunsReached
<1> QED BY <1>4, <1>5, <1>6, <1>8, <1>9 DEF RunsInv

LEMMA RunsTables ==
    ASSUME RunsBounded, RunsInv, NEW c \in Commands,
           \/ Runs!Complete(c) \/ Runs!Remember(c) \/ Runs!Forget(c)
           \/ Runs!KillWait(c) \/ Runs!KillEvict(c)
    PROVE  RunsInv'
<1>1. /\ UNCHANGED <<exec, proc, starting, managerClosed, ending>>
      /\ active' = active \/ (active' = active \ {c} /\ ~Runs!Alive(c))
      /\ settling' \subseteq settling \/ (proc[c] = "exited" /\ settling' = settling \cup {c})
  BY DEF Runs!Complete, Runs!Remember, Runs!Forget, Runs!KillWait, Runs!KillEvict, RunsInv,
         RunsKnown, RunsTyped, Runs!Alive
<1>2. killer' \in [Commands -> {"idle", "term", "kill", "evict"}]
      /\ \A d \in Commands : /\ killer'[d] # "idle" => killer[d] # "idle"
                             /\ killer'[d] = "evict" => killer[d] = "evict" \/
                                                           (killer[d] # "idle" /\ ~Runs!Alive(d))
  BY DEF Runs!Complete, Runs!Remember, Runs!Forget, Runs!KillWait, Runs!KillEvict, RunsInv,
         RunsTyped
<1>3. /\ retained' \in Seq(Commands)
      /\ \A k \in 1 .. Len(retained') : proc[retained'[k]] = "exited"
  <2>1. \A k \in 1 .. Len(retained) : proc[retained[k]] = "exited"
    BY DEF RunsInv, RunsKnown
  <2>2. PICK s : s = Runs!Without(retained, c)
    OBVIOUS
  <2>3. s \in Seq(Commands) /\ \A k \in 1 .. Len(s) : proc[s[k]] = "exited"
    <3>1. retained \in Seq(Commands)
      BY DEF RunsInv, RunsTyped
    <3>2. /\ s \in Seq(Commands)
          /\ \A k \in 1 .. Len(s) : \E j \in 1 .. Len(retained) : s[k] = retained[j]
      BY <2>2, <3>1, RunsWithout, Zenon
    <3> QED BY <2>1, <3>2
  <2>4. CASE UNCHANGED retained
    BY <2>1, <2>4 DEF RunsInv, RunsTyped
  <2>5. CASE Runs!Forget(c)
    BY <2>2, <2>3, <2>5 DEF Runs!Forget
  <2>6. CASE Runs!Remember(c)
    <3>1. PICK r : r = Append(s, c)
      OBVIOUS
    <3>2. retained' = r \/ (retained' = Tail(r) /\ Len(r) > MaxRetained)
      BY <2>2, <2>6, <3>1 DEF Runs!Remember
    <3>3. proc[c] = "exited"
      BY <2>6 DEF Runs!Remember, RunsInv, RunsKnown
    <3>4. /\ r \in Seq(Commands) /\ Len(r) = Len(s) + 1
          /\ \A k \in 1 .. Len(s) : r[k] = s[k]
          /\ r[Len(s) + 1] = c
      BY <2>3, <3>1
    <3>5. \A k \in 1 .. Len(r) : proc[r[k]] = "exited"
      BY <2>3, <3>3, <3>4
    <3>6. Tail(r) \in Seq(Commands) /\ Len(Tail(r)) = Len(s)
          /\ \A k \in 1 .. Len(s) : Tail(r)[k] = r[k + 1] /\ k + 1 \in 1 .. Len(r)
      BY <2>3, <3>4
    <3> QED BY <3>2, <3>4, <3>5, <3>6
  <2> QED BY <2>4, <2>5, <2>6 DEF Runs!Complete, Runs!KillWait, Runs!KillEvict
<1>4. RunsFlags'
  BY Zenon DEF Runs!Complete, Runs!Remember, Runs!Forget, Runs!KillWait, Runs!KillEvict, RunsInv,
               RunsFlags
<1>5. RunsTyped'
  BY <1>1, <1>2, <1>3 DEF RunsInv, RunsTyped
<1>6. RunsSlots'
  <2>1. RunsStarting' = RunsStarting
    BY <1>1 DEF RunsStarting
  <2> QED BY <1>1, <1>5, <2>1, RunsSlotsKept
<1>7. RunsKnown'
  BY <1>1, <1>2, <1>3 DEF RunsInv, RunsTyped, RunsKnown, Runs!Alive
<1>8. RunsReached'
  BY <1>1 DEF RunsInv, RunsReached, Runs!Alive
<1> QED BY <1>4, <1>5, <1>6, <1>7, <1>8 DEF RunsInv

LEMMA RunsClose == ASSUME RunsBounded, RunsInv, Runs!Close PROVE RunsInv'
<1>1. /\ ~managerClosed /\ ending' = active /\ active' = {} /\ retained' = <<>>
      /\ UNCHANGED <<exec, proc, starting, settling, killer>>
  BY DEF Runs!Close
<1>2. managerClosed' = TRUE
  BY Zenon DEF Runs!Close
<1>3. RunsTyped'
  BY <1>1 DEF RunsInv, RunsTyped
<1>4. RunsSlots'
  <2>1. RunsStarting' = RunsStarting
    BY <1>1 DEF RunsStarting
  <2> QED BY <1>1, <1>3, <2>1, RunsSlotsKept
<1>5. RunsFlags'
  BY <1>2, Zenon DEF RunsFlags
<1>6. RunsKnown'
  BY <1>1, <1>2 DEF RunsInv, RunsKnown
<1>7. RunsReached'
  BY <1>1, <1>2 DEF RunsInv, RunsKnown, RunsReached, Runs!Alive
<1> QED BY <1>3, <1>4, <1>5, <1>6, <1>7 DEF RunsInv

LEMMA RunsPreserved == ASSUME RunsBounded, RunsInv, [Runs!Next]_runsVars PROVE RunsInv'
<1>1. CASE UNCHANGED runsVars
  <2>1. RunsFlags'
    BY <1>1, Zenon DEF runsVars, RunsInv, RunsFlags
  <2> QED BY <1>1, <2>1 DEF runsVars, RunsInv, RunsTyped, RunsSlots, RunsStarting, RunsKnown,
                            RunsReached, Runs!Alive
<1>2. ASSUME NEW c \in Commands,
             \/ Runs!ExecReserve(c) \/ Runs!ExecSpawn(c) \/ Runs!ExecRegister(c)
      PROVE  RunsInv'
  BY <1>2, RunsCallStep
<1>3. ASSUME NEW c \in Commands,
             \/ Runs!Exit(c) \/ Runs!ExecRefused(c) \/ Runs!ExecReturn(c) \/ Runs!Watchdog(c)
             \/ Runs!CloseStep(c) \/ Runs!KillBegin(c)
      PROVE  RunsInv'
  BY <1>3, RunsProcesses
<1>4. ASSUME NEW c \in Commands,
             \/ Runs!Complete(c) \/ Runs!Remember(c) \/ Runs!Forget(c)
             \/ Runs!KillWait(c) \/ Runs!KillEvict(c)
      PROVE  RunsInv'
  BY <1>4, RunsTables
<1>5. CASE Runs!Close
  BY <1>5, RunsClose
<1> QED BY <1>1, <1>2, <1>3, <1>4, <1>5, Zenon DEF Runs!Next

LEMMA RunsImplies ==
    ASSUME RunsBounded, RunsInv
    PROVE  Runs!TypeOK /\ Runs!NoCommandIsLost
<1>1. Cardinality(active) \in Nat
  BY RunsFinite DEF RunsInv, RunsTyped
<1>2. starting \in 0 .. MaxActive
  BY <1>1 DEF RunsInv, RunsTyped, RunsSlots, RunsBounded
<1>3. Runs!ToSet(retained) \subseteq Commands
  BY DEF RunsInv, RunsTyped, Runs!ToSet
<1>4. managerClosed \in BOOLEAN
  BY Zenon DEF RunsInv, RunsFlags
<1>5. {active, settling, ending, Runs!ToSet(retained)} \subseteq SUBSET Commands
  BY <1>3 DEF RunsInv, RunsTyped
<1>6. Runs!TypeOK
  BY <1>2, <1>4, <1>5, Zenon DEF RunsInv, RunsTyped, Runs!TypeOK
<1>7. Cardinality(active) + starting <= MaxActive
      /\ starting = Cardinality({c \in Commands : exec[c] \in {"reserved", "spawned"}})
  BY DEF RunsInv, RunsSlots, RunsStarting
<1>8. \A c \in Commands : Runs!Alive(c) =>
          \/ exec[c] \in {"spawned", "refused"}
          \/ c \in active /\ ~managerClosed
          \/ c \in ending
          \/ managerClosed /\ proc[c] = "signalled"
  BY DEF RunsInv, RunsReached, RunsKnown
<1> QED BY <1>6, <1>7, <1>8, RunsCardinality, Zenon DEF Runs!NoCommandIsLost

-----------------------------------------------------------------------------
(* The searches (SearchSessions).                                             *)

SearchBounded ==
    {MaxSearches, MaxPerOwner, MaxFailures} \subseteq Nat /\ IsFiniteSet(Searches)

SearchTyped ==
    /\ verdict \in [Searches -> {"none", "running"} \cup Search!Settled]
    /\ searchRg \in [Searches -> {"none", "alive", "dead"}]
    /\ collector \in [Searches -> {"none", "reading", "left", "ended", "closing", "done", "died"}]
    /\ searchTimer \subseteq Searches /\ sessions \subseteq Searches
    /\ searcher \in [Searches -> Clients]
    /\ stopper \in [Searches -> {"idle", "joining", "joined"}]
    /\ jobFailures \in 0 .. MaxFailures
SearchFlags == searchClosed \in BOOLEAN

\* A search that was not started has nothing; one whose stop has joined the
\* collector and closed the job has no process.
SearchKnown ==
    \A s \in Searches :
       /\ verdict[s] = "none" =>
             /\ searchRg[s] = "none" /\ collector[s] = "none"
             /\ stopper[s] = "idle" /\ s \notin sessions
       /\ stopper[s] = "joined" => searchRg[s] = "dead"
SearchPlaces ==
    /\ \A s \in Searches : searchRg[s] = "alive" => s \in sessions
    /\ Cardinality(sessions) <= MaxSearches
    /\ \A o \in Clients : Cardinality({s \in sessions : searcher[s] = o}) <= MaxPerOwner

SearchInv == SearchTyped /\ SearchFlags /\ SearchKnown /\ SearchPlaces

LEMMA SearchCardinality == \A S : Search!Cardinality(S) = Cardinality(S)
BY DEF Search!Cardinality, Cardinality

LEMMA SearchFinite ==
    ASSUME SearchBounded, NEW S \in SUBSET Searches
    PROVE  /\ IsFiniteSet(S) /\ Cardinality(S) \in Nat
           /\ \A T \in SUBSET S : Cardinality(T) <= Cardinality(S) /\ Cardinality(T) \in Nat
           /\ \A s \in Searches : Cardinality(S \cup {s}) <= Cardinality(S) + 1
                                  /\ Cardinality(S \cup {s}) \in Nat
<1>1. IsFiniteSet(S) /\ Cardinality(S) \in Nat
  BY FS_Subset, FS_CardinalityType DEF SearchBounded
<1>2. \A T \in SUBSET S : Cardinality(T) <= Cardinality(S) /\ Cardinality(T) \in Nat
  BY <1>1, FS_Subset, FS_CardinalityType
<1>3. PICK many \in Nat : many = Cardinality(S)
  BY <1>1
<1>4. ASSUME NEW s \in Searches
      PROVE  Cardinality(S \cup {s}) = many \/ Cardinality(S \cup {s}) = many + 1
  <2>1. CASE s \in S
    <3>1. S \cup {s} = S
      BY <2>1
    <3> QED BY <1>3, <3>1, Zenon
  <2>2. CASE s \notin S
    <3>1. Cardinality(S \cup {s}) = many + 1
      BY <1>1, <1>3, <2>2, FS_AddElement
    <3> QED BY <3>1
  <2> QED BY <2>1, <2>2
<1>5. \A n \in {many, many + 1} : n <= many + 1 /\ n \in Nat
  OBVIOUS
<1> QED BY <1>1, <1>2, <1>3, <1>4, <1>5

LEMMA SearchInitInv == ASSUME SearchBounded, Search!Init PROVE SearchInv
<1>1. SearchFlags
  BY Zenon DEF Search!Init, SearchFlags
<1>2. SearchTyped
  BY DEF Search!Init, SearchTyped, SearchBounded
<1>3. sessions = {} /\ \A o \in Clients : {s \in sessions : searcher[s] = o} = {}
  BY DEF Search!Init
<1>4. Cardinality(sessions) = 0
      /\ \A o \in Clients : Cardinality({s \in sessions : searcher[s] = o}) = 0
  BY <1>3, FS_EmptySet
<1>5. SearchPlaces
  BY <1>4 DEF Search!Init, SearchPlaces, SearchBounded
<1>6. SearchKnown
  BY DEF Search!Init, SearchKnown
<1> QED BY <1>1, <1>2, <1>5, <1>6 DEF SearchInv

LEMMA SearchStart ==
    ASSUME SearchBounded, SearchInv, NEW s \in Searches, Search!Start(s)
    PROVE  SearchInv'
<1>1. /\ verdict[s] = "none" /\ verdict' = [verdict EXCEPT ![s] = "running"]
      /\ Cardinality(sessions) < MaxSearches
      /\ Cardinality({t \in sessions : searcher[t] = searcher[s]}) < MaxPerOwner
      /\ searchRg' = [searchRg EXCEPT ![s] = "alive"]
      /\ collector' = [collector EXCEPT ![s] = "reading"]
      /\ searchTimer' = searchTimer \cup {s} /\ sessions' = sessions \cup {s}
      /\ UNCHANGED <<searcher, stopper, searchClosed, jobFailures>>
  BY SearchCardinality DEF Search!Start
<1>2. SearchFlags'
  BY Zenon DEF Search!Start, SearchInv, SearchFlags
<1>3. SearchTyped'
  BY <1>1 DEF SearchInv, SearchTyped
<1>4. SearchKnown'
  BY <1>1 DEF SearchInv, SearchTyped, SearchKnown
<1>5. Cardinality(sessions') <= MaxSearches
  <2>1. Cardinality(sessions) \in Nat /\ Cardinality(sessions') <= Cardinality(sessions) + 1
        /\ Cardinality(sessions') \in Nat
    BY <1>1, SearchFinite DEF SearchInv, SearchTyped
  <2> QED BY <1>1, <2>1 DEF SearchBounded
<1>6. ASSUME NEW o \in Clients
      PROVE  Cardinality({t \in sessions' : searcher'[t] = o}) <= MaxPerOwner
  <2>1. PICK own : own = {t \in sessions : searcher[t] = o}
    OBVIOUS
  <2>2. own \in SUBSET Searches
    BY <2>1 DEF SearchInv, SearchTyped
  <2>3. CASE o = searcher[s]
    <3>1. {t \in sessions' : searcher'[t] = o} = own \cup {s}
      BY <1>1, <2>1, <2>3
    <3>2. Cardinality(own) \in Nat /\ Cardinality(own \cup {s}) <= Cardinality(own) + 1
          /\ Cardinality(own \cup {s}) \in Nat
      BY <2>2, SearchFinite
    <3>3. Cardinality(own) < MaxPerOwner
      BY <1>1, <2>1, <2>3
    <3> QED BY <3>1, <3>2, <3>3 DEF SearchBounded
  <2>4. CASE o # searcher[s]
    <3>1. {t \in sessions' : searcher'[t] = o} = own
      BY <1>1, <2>1, <2>4
    <3> QED BY <2>1, <3>1 DEF SearchInv, SearchPlaces
  <2> QED BY <2>3, <2>4
<1>7. SearchPlaces'
  BY <1>1, <1>5, <1>6 DEF SearchInv, SearchTyped, SearchPlaces
<1> QED BY <1>2, <1>3, <1>4, <1>7 DEF SearchInv

\* Every other step starts no process and takes no place.
SearchStep(s) ==
    \/ Search!RgExit(s) \/ Search!Timeout(s) \/ Search!CollectBreak(s) \/ Search!Collect(s)
    \/ Search!Stop(s) \/ Search!StopJoin(s) \/ Search!StopReturn(s)

LEMMA SearchMoves ==
    ASSUME SearchBounded, SearchInv, NEW s \in Searches, SearchStep(s)
    PROVE  SearchInv'
<1> USE DEF SearchStep, Search!Collect, Search!RgExit, Search!Timeout, Search!CollectBreak,
            Search!CollectEnd, Search!CollectKill, Search!CollectWait, Search!CollectClose,
            Search!Stop, Search!StopJoin, Search!StopReturn, Search!JobClosed, Search!JobRaises
<1>1. verdict' = verdict \/ /\ verdict[s] = "running"
                            /\ \E v \in Search!Settled : verdict' = [verdict EXCEPT ![s] = v]
  BY DEF Search!Settled
<1>2. \/ searchRg' = searchRg
      \/ /\ searchRg' = [searchRg EXCEPT ![s] = "dead"]
         /\ \/ searchRg[s] = "alive" \/ verdict[s] = "running"
            \/ collector[s] # "none" \/ stopper[s] # "idle"
  OBVIOUS
<1>3. \/ stopper' = stopper
      \/ /\ stopper[s] # "idle" \/ s \in sessions
         /\ \/ stopper' = [stopper EXCEPT ![s] = "idle"]
            \/ stopper' = [stopper EXCEPT ![s] = "joining"]
            \/ /\ stopper' = [stopper EXCEPT ![s] = "joined"] /\ stopper[s] = "joining"
               /\ searchRg' = [searchRg EXCEPT ![s] = "dead"]
  OBVIOUS
<1>4. \/ sessions' = sessions
      \/ sessions' = sessions \ {s} /\ stopper[s] = "joined" /\ searchRg' = searchRg
  OBVIOUS
<1>5. /\ searchTimer' = searchTimer \/ searchTimer' = searchTimer \ {s}
      /\ UNCHANGED searcher
      /\ jobFailures' = jobFailures \/ (jobFailures < MaxFailures /\ jobFailures' = jobFailures + 1)
  OBVIOUS
<1>6. \/ collector' = collector
      \/ /\ collector[s] # "none"
         /\ \E c \in {"reading", "left", "ended", "closing", "done", "died"} :
               collector' = [collector EXCEPT ![s] = c]
  OBVIOUS
<1>7. SearchFlags'
  BY Zenon DEF SearchInv, SearchFlags
<1>8. SearchTyped'
  <2>1. /\ verdict' \in [Searches -> {"none", "running"} \cup Search!Settled]
        /\ searchRg' \in [Searches -> {"none", "alive", "dead"}]
    BY <1>1, <1>2 DEF SearchInv, SearchTyped
  <2>2. collector' \in [Searches -> {"none", "reading", "left", "ended", "closing", "done", "died"}]
    BY <1>6 DEF SearchInv, SearchTyped
  <2>3. stopper' \in [Searches -> {"idle", "joining", "joined"}]
    BY <1>3 DEF SearchInv, SearchTyped
  <2>4. jobFailures' \in 0 .. MaxFailures
    BY <1>5 DEF SearchInv, SearchTyped, SearchBounded
  <2> QED BY <1>4, <1>5, <2>1, <2>2, <2>3, <2>4 DEF SearchInv, SearchTyped
<1>9. SearchKnown'
  <2> HIDE DEF SearchStep, Search!Collect, Search!RgExit, Search!Timeout, Search!CollectBreak,
               Search!CollectEnd, Search!CollectKill, Search!CollectWait, Search!CollectClose,
               Search!Stop, Search!StopJoin, Search!StopReturn, Search!JobClosed,
               Search!JobRaises
  <2>1. ASSUME NEW t \in Searches, t # s
        PROVE  /\ verdict'[t] = verdict[t] /\ searchRg'[t] = searchRg[t]
               /\ stopper'[t] = stopper[t] /\ collector'[t] = collector[t]
               /\ t \in sessions' => t \in sessions
    BY <1>1, <1>2, <1>3, <1>4, <1>6, <2>1 DEF SearchInv, SearchTyped
  <2>2. verdict'[s] = "none" => verdict[s] = "none"
    BY <1>1 DEF SearchInv, SearchTyped, Search!Settled
  <2>3. verdict[s] = "none" => /\ searchRg'[s] = "none" /\ collector'[s] = "none"
                               /\ stopper'[s] = "idle" /\ s \notin sessions'
    BY <1>2, <1>3, <1>4, <1>6 DEF SearchInv, SearchTyped, SearchKnown
  <2>4. stopper'[s] = "joined" => searchRg'[s] = "dead"
    BY <1>2, <1>3 DEF SearchInv, SearchTyped, SearchKnown
  <2>5. ASSUME NEW t \in Searches
        PROVE  /\ verdict'[t] = "none" =>
                     /\ searchRg'[t] = "none" /\ collector'[t] = "none"
                     /\ stopper'[t] = "idle" /\ t \notin sessions'
               /\ stopper'[t] = "joined" => searchRg'[t] = "dead"
    BY <2>1, <2>2, <2>3, <2>4 DEF SearchInv, SearchKnown
  <2> QED BY <2>5 DEF SearchKnown
<1>10. SearchPlaces'
  <2>1. sessions' \subseteq sessions /\ sessions \in SUBSET Searches
    BY <1>4 DEF SearchInv, SearchTyped
  <2>2. Cardinality(sessions') <= MaxSearches
    <3>1. Cardinality(sessions') <= Cardinality(sessions) /\ Cardinality(sessions') \in Nat
          /\ Cardinality(sessions) \in Nat
      BY <2>1, SearchFinite
    <3> QED BY <3>1 DEF SearchInv, SearchPlaces, SearchBounded
  <2>3. ASSUME NEW o \in Clients
        PROVE  Cardinality({t \in sessions' : searcher'[t] = o}) <= MaxPerOwner
    <3>1. PICK own, left : /\ own = {t \in sessions : searcher[t] = o}
                           /\ left = {t \in sessions' : searcher'[t] = o}
      OBVIOUS
    <3>2. own \in SUBSET Searches /\ left \in SUBSET own
      BY <1>5, <2>1, <3>1
    <3>3. Cardinality(left) <= Cardinality(own) /\ Cardinality(left) \in Nat
          /\ Cardinality(own) \in Nat
      BY <3>2, SearchFinite
    <3>4. Cardinality(own) <= MaxPerOwner
      BY <3>1 DEF SearchInv, SearchPlaces
    <3> QED BY <3>1, <3>3, <3>4 DEF SearchBounded
  <2>4. \A t \in Searches : searchRg'[t] = "alive" => t \in sessions'
    BY <1>2, <1>4 DEF SearchInv, SearchTyped, SearchKnown, SearchPlaces
  <2> QED BY <2>2, <2>3, <2>4 DEF SearchPlaces
<1> QED BY <1>7, <1>8, <1>9, <1>10 DEF SearchInv

LEMMA SearchRest ==
    ASSUME SearchInv, UNCHANGED searchVars \/ Search!CloseManager
    PROVE  SearchInv'
<1>1. UNCHANGED <<verdict, searchRg, collector, searchTimer, sessions, searcher, stopper,
                  jobFailures>>
  BY DEF searchVars, Search!CloseManager
<1>2. SearchFlags'
  BY Zenon DEF searchVars, Search!CloseManager, SearchInv, SearchFlags
<1> QED BY <1>1, <1>2 DEF SearchInv, SearchTyped, SearchKnown, SearchPlaces

LEMMA SearchPreserved ==
    ASSUME SearchBounded, SearchInv, [Search!Next]_searchVars
    PROVE  SearchInv'
<1>1. ASSUME NEW s \in Searches, Search!Start(s) PROVE SearchInv'
  BY <1>1, SearchStart
<1>2. ASSUME NEW s \in Searches, SearchStep(s) PROVE SearchInv'
  BY <1>2, SearchMoves
<1>3. CASE UNCHANGED searchVars \/ Search!CloseManager
  BY <1>3, SearchRest
<1> QED BY <1>1, <1>2, <1>3, Zenon DEF Search!Next, SearchStep

LEMMA SearchImplies == ASSUME SearchInv PROVE Search!TypeOK /\ Search!NoSearchUnowned
<1>1. {searchTimer, sessions} \subseteq SUBSET Searches
  BY DEF SearchInv, SearchTyped
<1> QED BY <1>1, SearchCardinality, Zenon
        DEF SearchInv, SearchTyped, SearchFlags, SearchPlaces, Search!TypeOK, Search!NoSearchUnowned

\* What has its verdict keeps it, whoever comes next.
LEMMA SearchKeeps ==
    ASSUME SearchInv, [Search!Next]_searchVars
    PROVE  Search!KeepsVerdict
<1>1. SUFFICES ASSUME NEW t \in Searches, verdict[t] \in Search!Settled
               PROVE  verdict'[t] = verdict[t]
  BY DEF Search!KeepsVerdict
<1>2. verdict[t] # "none" /\ verdict[t] # "running"
  BY <1>1 DEF Search!Settled
<1>3. verdict' = verdict \/ \E s \in Searches : /\ verdict[s] \in {"none", "running"}
                                                /\ \E v : verdict' = [verdict EXCEPT ![s] = v]
  BY DEF Search!Next, Search!Start, Search!Collect, Search!RgExit, Search!Timeout,
         Search!CollectBreak, Search!CollectEnd, Search!CollectKill, Search!CollectWait,
         Search!CollectClose, Search!Stop, Search!StopJoin, Search!StopReturn,
         Search!CloseManager, searchVars
<1> QED BY <1>2, <1>3 DEF SearchInv, SearchTyped

-----------------------------------------------------------------------------
(* A set of numbers has a least one.                                          *)

LEMMA FewerBelow ==
    ASSUME NEW I \in SUBSET Nat, IsFiniteSet(I), NEW n \in I, NEW m \in I, m < n
    PROVE  Cardinality({k \in I : k < m}) # Cardinality({k \in I : k < n})
<1>1. PICK S, T : S = {k \in I : k < m} /\ T = {k \in I : k < n}
  OBVIOUS
<1>2. T \in SUBSET I /\ m \in T /\ m \notin S
  BY <1>1
<1>3. \A k \in S : k \in I /\ k < m /\ k < n
  BY <1>1
<1>4. S \in SUBSET T
  BY <1>1, <1>3
<1>5. IsFiniteSet(T)
  BY <1>2, FS_Subset
<1>6. Cardinality(S) = Cardinality(T) => S = T
  BY <1>4, <1>5, FS_Subset
<1> QED BY <1>1, <1>2, <1>6

LEMMA LeastNumber ==
    ASSUME NEW I \in SUBSET Nat, IsFiniteSet(I), I # {}
    PROVE  \E n \in I : \A m \in I : n <= m
<1>1. SUFFICES ASSUME \A n \in I : \E m \in I : m < n
               PROVE  FALSE
  OBVIOUS
<1>2. PICK rank : rank = [n \in I |-> Cardinality({k \in I : k < n})]
  OBVIOUS
<1>3. PICK many \in Nat : many = Cardinality(I)
  BY FS_CardinalityType
<1>4. ASSUME NEW n \in I PROVE rank[n] \in 1 .. many - 1
  <2>1. PICK S : S = {k \in I : k < n}
    OBVIOUS
  <2>2. S \in SUBSET I /\ n \notin S /\ S # {} /\ rank[n] = Cardinality(S)
    BY <1>1, <1>2, <2>1
  <2>3. IsFiniteSet(S) /\ Cardinality(S) <= many /\ (Cardinality(S) = many => S = I)
    BY <1>3, <2>2, FS_Subset
  <2>4. Cardinality(S) \in Nat /\ Cardinality(S) # 0
    BY <2>2, <2>3, FS_CardinalityType, FS_EmptySet
  <2> QED BY <2>2, <2>3, <2>4
<1>5. many # 0
  BY <1>3, FS_EmptySet
<1>6. IsFiniteSet(1 .. many - 1) /\ Cardinality(1 .. many - 1) < many
  <2>1. many - 1 \in Int /\ 1 \in Int
    OBVIOUS
  <2>2. IsFiniteSet(1 .. many - 1)
          /\ Cardinality(1 .. many - 1) = IF 1 > many - 1 THEN 0 ELSE many - 1 - 1 + 1
    BY <2>1, FS_Interval
  <2> QED BY <1>5, <2>2
<1>7. rank \in [I -> 1 .. many - 1]
  BY <1>2, <1>4
<1>8. PICK n, m \in I : n # m /\ rank[n] = rank[m]
  BY <1>3, <1>6, <1>7, FS_PigeonHole
<1>9. n < m \/ m < n
  BY <1>8
<1> QED BY <1>2, <1>8, <1>9, FewerBelow

-----------------------------------------------------------------------------
(* Pages of a file (FilePages).                                               *)

PageBounded == MaxFile \in Nat /\ MaxLine \in Nat \ {0} /\ MaxLines \in Nat \ {0}

PageTyped ==
    /\ ends \in Seq(Nat) /\ Len(ends) <= MaxFile
    /\ \A k \in 1 .. Len(ends) : Pages!EndOf(k - 1) < Pages!EndOf(k)
    /\ ask \in [first : 1 .. MaxFile + 1, last : 0 .. MaxFile + 1, bytes : 1 .. MaxLine]
    /\ pageAt \in 0 .. MaxFile + 1

\* The last line of the range asked for, and what the pages so far have come to.
PageLast == Pages!Least(Pages!EndLine, Pages!Total)
PageReached == {n \in ask.first .. PageLast : pageAt = 0 \/ n < pageAt}

PageAt == pageAt # 0 => ask.first <= pageAt /\ (pageAt = ask.first \/ pageAt <= PageLast)
PageLines ==
    /\ whole \cap pageCut = {} /\ whole \cup pageCut = PageReached
    /\ \A n \in pageCut : Pages!Bytes(n, n) > ask.bytes
PageShown ==
    /\ shown \subseteq (1 .. MaxFile + 1) \X (0 .. MaxFile + 1)
    /\ pageAt # 0 => \A p \in shown : p[1] < pageAt
    /\ \A p \in shown : p[1] .. p[2] \subseteq PageReached
    /\ \A n \in PageReached : \E p \in shown : n \in p[1] .. p[2]
    /\ \A p, q \in shown : p # q => p[1] .. p[2] \cap q[1] .. q[2] = {}

PageInv == PageTyped /\ PageAt /\ PageLines /\ PageShown

LEMMA PageCardinality == \A S : Pages!Cardinality(S) = Cardinality(S)
BY DEF Pages!Cardinality, Cardinality

\* A later line ends later.
LEMMA PageEnds ==
    ASSUME PageTyped, NEW j \in 0 .. Len(ends), NEW k \in 0 .. Len(ends), j < k
    PROVE  Pages!EndOf(j) < Pages!EndOf(k)
<1>1. PICK n \in Nat : n = Len(ends)
  BY DEF PageTyped
<1>2. \A i \in 0 .. n : Pages!EndOf(i) \in Nat
  BY <1>1 DEF PageTyped, Pages!EndOf
<1>3. \A i \in 1 .. n : Pages!EndOf(i - 1) < Pages!EndOf(i)
  BY <1>1 DEF PageTyped
<1>4. PICK early : early = {i \in j + 1 .. n : ~(Pages!EndOf(j) < Pages!EndOf(i))}
  OBVIOUS
<1>5. CASE early = {}
  BY <1>1, <1>4, <1>5
<1>6. CASE early # {}
  <2>1. early \in SUBSET Nat /\ IsFiniteSet(early)
    <3>1. j + 1 \in Int /\ n \in Int
      BY <1>1
    <3>2. IsFiniteSet(j + 1 .. n)
      BY <3>1, FS_Interval
    <3> QED BY <1>1, <1>4, <3>2, FS_Subset
  <2>2. PICK i \in early : \A m \in early : i <= m
    BY <1>6, <2>1, LeastNumber
  <2>3. i \in j + 1 .. n /\ i \in 1 .. n /\ i - 1 \in 0 .. n /\ i - 1 \in j .. n
        /\ ~(Pages!EndOf(j) < Pages!EndOf(i))
    BY <1>1, <1>4
  <2>4. CASE i - 1 = j
    BY <1>3, <2>3, <2>4
  <2>5. CASE i - 1 # j
    <3>1. i - 1 \in j + 1 .. n /\ ~(i <= i - 1)
      BY <1>1, <2>3, <2>5
    <3>2. i - 1 \notin early
      BY <2>2, <3>1
    <3>3. Pages!EndOf(j) < Pages!EndOf(i - 1)
      BY <1>4, <3>1, <3>2
    <3>4. Pages!EndOf(i - 1) < Pages!EndOf(i)
      BY <1>3, <2>3
    <3>5. Pages!EndOf(j) \in Nat /\ Pages!EndOf(i - 1) \in Nat /\ Pages!EndOf(i) \in Nat
      BY <1>1, <1>2, <2>3
    <3> QED BY <2>3, <3>3, <3>4, <3>5
  <2> QED BY <2>4, <2>5
<1> QED BY <1>5, <1>6

LEMMA PageBounds ==
    ASSUME PageBounded, PageTyped
    PROVE  /\ PageLast \in Nat /\ PageLast <= Len(ends) /\ Len(ends) \in Nat
           /\ Pages!Least(Pages!EndLine, Pages!Total) = PageLast
           /\ ask.first \in 1 .. MaxFile + 1 /\ ask.bytes \in Nat
           /\ \A n : n \in 1 .. Len(ends) /\ n <= Pages!EndLine
                       <=> n \in 1 .. PageLast
           /\ Pages!EndLine \in Nat
<1>1. PICK n \in Nat : n = Len(ends)
  BY DEF PageTyped
<1>2. PICK last \in 0 .. MaxFile + 1 : last = ask.last
  BY DEF PageTyped
<1>3. PICK e \in Nat : e = Pages!EndLine
  BY <1>1, <1>2 DEF Pages!EndLine, Pages!Total, Pages!Unbounded, PageBounded
<1>4. PageLast = IF e <= n THEN e ELSE n
  BY <1>1, <1>3 DEF PageLast, Pages!Least, Pages!Total
<1>5. PageLast \in Nat /\ PageLast <= n
  BY <1>1, <1>3, <1>4
<1>6. \A k : k \in 1 .. n /\ k <= e <=> k \in 1 .. PageLast
  BY <1>1, <1>3, <1>4
<1>7. ask.first \in 1 .. MaxFile + 1 /\ ask.bytes \in Nat
  BY DEF PageTyped, PageBounded
<1> QED BY <1>1, <1>3, <1>5, <1>6, <1>7 DEF PageLast

\* What a page shows: nothing when the range is over, else lines from where it
\* starts, in full or the first of them in part, and the next goes on after them.
LEMMA PageParts ==
    ASSUME PageBounded, PageTyped, PageAt, pageAt # 0
    PROVE  \/ /\ pageAt > PageLast /\ Pages!Fitting = {} /\ ~Pages!TooLong
              /\ Pages!ActualEnd = PageLast /\ Pages!NextStart = 0
           \/ /\ Pages!ActualEnd \in pageAt .. PageLast
              /\ Pages!NextStart = IF Pages!ActualEnd < PageLast THEN Pages!ActualEnd + 1 ELSE 0
              /\ \/ Pages!Fitting = pageAt .. Pages!ActualEnd /\ ~Pages!TooLong
                 \/ /\ Pages!Fitting = {} /\ Pages!TooLong /\ Pages!ActualEnd = pageAt
                    /\ Pages!Bytes(pageAt, pageAt) > ask.bytes
<1>1. PICK lo \in Nat, hi \in Nat, tot \in Nat :
         /\ lo = pageAt /\ hi = PageLast /\ tot = Len(ends) /\ hi <= tot /\ 1 <= lo
         /\ Pages!Least(Pages!EndLine, Pages!Total) = hi
         /\ Pages!Total = tot
         /\ \A n : n \in 1 .. tot /\ n <= Pages!EndLine <=> n \in 1 .. hi
  <2>1. PICK lo \in Nat : lo = pageAt
    BY DEF PageTyped, PageBounded
  <2>2. 1 <= lo
    BY <2>1
  <2> QED BY <2>1, <2>2, PageBounds DEF Pages!Total
<1>2. Pages!Selected = lo .. hi
  <2>1. Pages!Selected = {n \in 1 .. tot : lo <= n /\ n <= Pages!EndLine}
    BY <1>1 DEF Pages!Selected
  <2>2. ASSUME NEW n PROVE n \in Pages!Selected <=> n \in lo .. hi
    <3>1. n \in Pages!Selected <=> n \in 1 .. hi /\ lo <= n
      BY <1>1, <2>1
    <3> QED BY <1>1, <3>1
  <2> QED BY <2>2
<1>3. PICK bytes \in Nat : bytes = ask.bytes
  BY PageBounds
<1>4. PICK some : some = Pages!Fitting
  OBVIOUS
<1>5. /\ some = {n \in lo .. hi : n < lo + MaxLines
                 /\ Pages!EndOf(n) - Pages!EndOf(lo - 1) <= bytes}
      /\ some \subseteq lo .. hi
  BY <1>1, <1>2, <1>3, <1>4 DEF Pages!Fitting, Pages!Bytes
<1>6. /\ Pages!TooLong <=> some = {} /\ lo <= hi
      /\ Pages!Truncated <=> some # lo .. hi
  <2>1. lo .. hi # {} <=> lo <= hi
    BY <1>1
  <2> QED BY <1>2, <1>4, <2>1 DEF Pages!TooLong, Pages!Truncated
<1>7. CASE some = lo .. hi
  <2>1. Pages!ActualEnd = hi /\ Pages!NextStart = 0
    BY <1>1, <1>6, <1>7, Zenon DEF Pages!ActualEnd, Pages!NextStart
  <2>2. CASE lo > hi
    BY <1>1, <1>4, <1>6, <1>7, <2>1, <2>2
  <2>3. CASE lo <= hi
    <3>1. hi \in lo .. hi /\ ~(hi < hi) /\ ~Pages!TooLong
      BY <1>1, <1>6, <1>7, <2>3
    <3> QED BY <1>1, <1>4, <1>7, <2>1, <3>1
  <2> QED BY <1>1, <2>2, <2>3
<1>8. CASE some # lo .. hi
  <2>1. PICK rest : rest = (lo .. hi) \ some
    OBVIOUS
  <2>2. rest # {} /\ rest \in SUBSET Nat /\ IsFiniteSet(rest)
    <3>1. IsFiniteSet(lo .. hi)
      BY <1>1, FS_Interval
    <3>2. rest \in SUBSET (lo .. hi) /\ rest # {}
      BY <1>5, <1>8, <2>1
    <3>3. IsFiniteSet(rest)
      BY <3>1, <3>2, FS_Subset
    <3> QED BY <1>1, <3>2, <3>3
  <2>3. PICK m \in rest : \A n \in rest : m <= n
    BY <2>2, LeastNumber
  <2>4. m \in lo .. hi /\ m \notin some
    BY <2>1
  <2>5. \A n \in lo .. m - 1 : n \in some
    <3>1. SUFFICES ASSUME NEW n \in lo .. m - 1, n \notin some PROVE FALSE
      OBVIOUS
    <3>2. n \in lo .. hi /\ ~(m <= n)
      BY <1>1, <2>4, <3>1
    <3> QED BY <2>1, <2>3, <3>1, <3>2
  <2>6. \A n \in m .. hi : n \notin some
    <3>1. SUFFICES ASSUME NEW n \in m .. hi, n \in some PROVE FALSE
      OBVIOUS
    <3>2. /\ n # m /\ m < n /\ n \in 0 .. Len(ends) /\ m \in 0 .. Len(ends)
          /\ lo - 1 \in 0 .. Len(ends)
      BY <1>1, <2>4, <3>1
    <3>3. Pages!EndOf(m) < Pages!EndOf(n)
      BY <3>2, PageEnds
    <3>4. Pages!EndOf(m) \in Nat /\ Pages!EndOf(n) \in Nat /\ Pages!EndOf(lo - 1) \in Nat
      <4>1. \A i \in 0 .. tot : Pages!EndOf(i) \in Nat
        BY <1>1 DEF PageTyped, Pages!EndOf
      <4> QED BY <1>1, <3>2, <4>1
    <3>5. n < lo + MaxLines /\ Pages!EndOf(n) - Pages!EndOf(lo - 1) <= bytes
      BY <1>5, <3>1
    <3>6. m < lo + MaxLines /\ Pages!EndOf(m) - Pages!EndOf(lo - 1) <= bytes
      <4>1. PICK lines \in Nat : lines = MaxLines
        BY DEF PageBounded
      <4> QED BY <1>1, <1>3, <2>4, <3>1, <3>2, <3>3, <3>4, <3>5, <4>1
    <3> QED BY <1>5, <2>4, <3>6
  <2>7. some = lo .. m - 1
    BY <1>1, <1>5, <2>4, <2>5, <2>6
  <2>8. Cardinality(some) = m - lo
    <3>1. lo \in Int /\ m - 1 \in Int /\ m \in Nat
      BY <1>1, <2>4
    <3>2. Cardinality(lo .. m - 1) = IF lo > m - 1 THEN 0 ELSE m - 1 - lo + 1
      BY <3>1, FS_Interval
    <3> QED BY <1>1, <2>4, <2>7, <3>1, <3>2
  <2>9. lo <= hi
    BY <1>1, <2>4
  <2>10. CASE m = lo
    <3>1. some = {} /\ Pages!TooLong
      BY <1>1, <1>6, <2>7, <2>9, <2>10
    <3>2. Pages!ActualEnd = lo
      <4>1. Pages!Parts = 1
        BY <3>1 DEF Pages!Parts
      <4>2. Pages!ActualEnd = Pages!Least(tot, lo + 1 - 1)
        BY <1>1, <1>6, <1>8, <4>1 DEF Pages!ActualEnd
      <4> QED BY <1>1, <2>9, <4>2 DEF Pages!Least
    <3>3. Pages!NextStart = IF lo < hi THEN lo + 1 ELSE 0
      BY <1>1, <1>6, <1>8, <3>2, Zenon DEF Pages!NextStart
    <3>4. Pages!Bytes(lo, lo) > bytes
      <4>1. lo < lo + MaxLines /\ lo \in lo .. hi
        BY <1>1, <2>9 DEF PageBounded
      <4>2. ~(Pages!EndOf(lo) - Pages!EndOf(lo - 1) <= bytes)
        BY <1>5, <2>4, <2>10, <4>1
      <4>3. Pages!EndOf(lo) \in Nat /\ Pages!EndOf(lo - 1) \in Nat
        BY <1>1, <2>9 DEF PageTyped, Pages!EndOf
      <4> QED BY <1>3, <4>2, <4>3 DEF Pages!Bytes
    <3>5. lo \in lo .. hi
      BY <1>1, <2>9
    <3> QED BY <1>1, <1>3, <1>4, <3>1, <3>2, <3>3, <3>4, <3>5
  <2>11. CASE m # lo
    <3>1. some # {} /\ ~Pages!TooLong /\ m - 1 \in lo .. hi /\ m - 1 < hi /\ m - 1 + 1 = m
          /\ m - lo > 0
      <4>1. lo \in lo .. m - 1
        BY <1>1, <2>4, <2>11
      <4>2. some # {}
        BY <2>7, <4>1
      <4>3. ~Pages!TooLong
        BY <1>6, <4>2
      <4>4. m - 1 \in lo .. hi /\ m - 1 < hi /\ m - 1 + 1 = m /\ m - lo > 0
        BY <1>1, <2>4, <2>11
      <4> QED BY <4>2, <4>3, <4>4
    <3>2. Pages!ActualEnd = m - 1
      <4>1. Pages!Parts = m - lo
        BY <1>4, <2>8, <3>1, PageCardinality DEF Pages!Parts
      <4>2. Pages!ActualEnd = Pages!Least(tot, lo + (m - lo) - 1)
        BY <1>1, <1>6, <1>8, <3>1, <4>1 DEF Pages!ActualEnd
      <4> QED BY <1>1, <2>4, <3>1, <4>2 DEF Pages!Least
    <3>3. Pages!NextStart = IF m - 1 < hi THEN m - 1 + 1 ELSE 0
      BY <1>1, <1>6, <1>8, <3>2, Zenon DEF Pages!NextStart
    <3> QED BY <1>1, <1>4, <2>7, <3>1, <3>2, <3>3
  <2> QED BY <2>10, <2>11
<1> QED BY <1>7, <1>8

LEMMA PageInitInv == ASSUME PageBounded, Pages!Init PROVE PageInv
<1>1. PICK n \in 0 .. MaxFile :
         /\ ends \in [1 .. n -> 1 .. n * MaxLine]
         /\ \A k \in 1 .. n : Pages!EndOf(k - 1) < Pages!EndOf(k)
  BY Zenon DEF Pages!Init
<1>2. /\ ask \in [first : 1 .. MaxFile + 1, last : {0} \cup 1 .. MaxFile + 1, bytes : 1 .. MaxLine]
      /\ pageAt = ask.first /\ shown = {} /\ whole = {} /\ pageCut = {}
  BY DEF Pages!Init, Pages!Unbounded
<1>3. ends \in Seq(Nat) /\ Len(ends) = n
  <2>1. ends \in [1 .. n -> Nat] /\ n \in Nat
    <3>1. \A k \in 1 .. n : ends[k] \in Nat
      BY <1>1
    <3> QED BY <1>1, <3>1 DEF PageBounded
  <2> QED BY <2>1
<1>4. ask.first \in 1 .. MaxFile + 1
  BY <1>2
<1>5. ask \in [first : 1 .. MaxFile + 1, last : 0 .. MaxFile + 1, bytes : 1 .. MaxLine]
  <2>1. {0} \cup 1 .. MaxFile + 1 \subseteq 0 .. MaxFile + 1
    BY DEF PageBounded
  <2> QED BY <1>2, <2>1
<1>6. PageTyped
  BY <1>1, <1>2, <1>3, <1>4, <1>5 DEF PageTyped, PageBounded
<1>7. PageReached = {}
  <2>1. pageAt # 0 /\ PageLast \in Nat
    BY <1>2, <1>4, <1>6, PageBounds
  <2> QED BY <1>2, <1>4, <2>1 DEF PageReached, PageBounded
<1>8. PageAt
  BY <1>2, <1>4 DEF PageAt, PageBounded
<1> QED BY <1>2, <1>6, <1>7, <1>8 DEF PageInv, PageLines, PageShown

LEMMA PagePreserved == ASSUME PageBounded, PageInv, [Pages!Next]_pageVars PROVE PageInv'
<1>1. CASE UNCHANGED pageVars
  BY <1>1 DEF pageVars, PageInv, PageTyped, PageAt, PageLines, PageShown, PageReached, PageLast,
        Pages!EndOf, Pages!Bytes, Pages!Least, Pages!EndLine, Pages!Total
<1>2. CASE Pages!Page
  <2>1. PICK lo \in Nat, hi \in Nat, a \in Nat, first \in Nat :
           /\ lo = pageAt /\ hi = PageLast /\ a = Pages!ActualEnd /\ first = ask.first
           /\ 1 <= first /\ first <= MaxFile + 1 /\ hi <= MaxFile /\ hi <= Len(ends)
           /\ lo # 0 /\ lo <= MaxFile + 1
    <3>1. PICK lo \in Nat : lo = pageAt /\ lo # 0 /\ lo <= MaxFile + 1
      BY <1>2 DEF Pages!Page, PageInv, PageTyped, PageBounded
    <3>2. PICK hi \in Nat : hi = PageLast /\ hi <= Len(ends) /\ hi <= MaxFile
      BY PageBounds DEF PageInv, PageTyped, PageBounded
    <3>3. PICK first \in Nat : first = ask.first /\ 1 <= first /\ first <= MaxFile + 1
      BY PageBounds DEF PageInv, PageBounded
    <3>4. PICK a \in Nat : a = Pages!ActualEnd
      BY <3>1, <3>2, PageParts DEF PageInv
    <3> QED BY <3>1, <3>2, <3>3, <3>4
  <2>2. \/ /\ lo > hi /\ Pages!Fitting = {} /\ ~Pages!TooLong /\ a = hi /\ Pages!NextStart = 0
        \/ /\ a \in lo .. hi
           /\ Pages!NextStart = IF a < hi THEN a + 1 ELSE 0
           /\ \/ Pages!Fitting = lo .. a /\ ~Pages!TooLong
              \/ /\ Pages!Fitting = {} /\ Pages!TooLong /\ a = lo
                 /\ Pages!Bytes(lo, lo) > ask.bytes
    BY <2>1, PageParts DEF PageInv
  <2>3. /\ shown' = shown \cup {<<lo, a>>}
        /\ whole' = whole \cup Pages!Fitting
        /\ pageCut' = IF Pages!TooLong THEN pageCut \cup {lo} ELSE pageCut
        /\ pageAt' = Pages!NextStart
        /\ UNCHANGED <<ends, ask>>
    BY <1>2, <2>1, Zenon DEF Pages!Page
  <2>4. /\ whole' \cup pageCut' = whole \cup pageCut \cup lo .. a
        /\ whole' \cap pageCut' = whole \cap pageCut
                                    \/ \E n \in lo .. a : n \in whole \cup pageCut
        /\ \A n \in pageCut' : n \in pageCut \/ Pages!Bytes(n, n) > ask.bytes
    <3>1. CASE lo > hi /\ Pages!Fitting = {} /\ ~Pages!TooLong /\ a = hi
      <4>1. lo .. a = {}
        BY <3>1
      <4> QED BY <2>3, <3>1, <4>1
    <3>2. CASE a \in lo .. hi /\ Pages!Fitting = lo .. a /\ ~Pages!TooLong
      BY <2>3, <3>2
    <3>3. CASE /\ Pages!Fitting = {} /\ Pages!TooLong /\ a = lo
               /\ Pages!Bytes(lo, lo) > ask.bytes
      <4>1. lo .. a = {lo}
        BY <3>3
      <4> QED BY <2>3, <3>3, <4>1
    <3> QED BY <2>2, <3>1, <3>2, <3>3
  <2>5. /\ pageAt' = 0 \/ (pageAt' = a + 1 /\ a < hi /\ lo <= a)
        /\ pageAt' = 0 => hi <= a
        /\ a <= hi
    BY <2>1, <2>2, <2>3
  <2>6. PageLast' = hi /\ ask'.first = first
    BY <2>1, <2>3 DEF PageLast, Pages!Least, Pages!EndLine, Pages!Total
  <2>7. first <= lo /\ (lo = first \/ lo <= hi)
    BY <2>1 DEF PageInv, PageAt
  <2>8. PageReached = {n \in first .. hi : n < lo}
    BY <2>1 DEF PageReached
  <2>9. PageReached' = {n \in first .. hi : n < a + 1}
    <3>1. PageReached' = {n \in first .. hi : pageAt' = 0 \/ n < pageAt'}
      BY <2>6 DEF PageReached
    <3> QED BY <2>1, <2>5, <3>1
  <2>10. PageReached' = PageReached \cup lo .. a /\ PageReached \cap lo .. a = {}
    <3>1. ASSUME NEW n PROVE n \in PageReached' <=> n \in PageReached \/ n \in lo .. a
      <4>1. n \in PageReached' <=> n \in first .. hi /\ n < a + 1
        BY <2>9
      <4>2. n \in PageReached <=> n \in first .. hi /\ n < lo
        BY <2>8
      <4> QED BY <2>1, <2>5, <2>7, <4>1, <4>2
    <3>2. ASSUME NEW n \in lo .. a PROVE n \notin PageReached
      BY <2>1, <2>8
    <3> QED BY <3>1, <3>2
  <2>11. PageTyped'
    <3>1. pageAt' \in 0 .. MaxFile + 1
      BY <2>1, <2>5 DEF PageBounded
    <3> QED BY <2>3, <3>1 DEF PageInv, PageTyped, Pages!EndOf
  <2>12. PageAt'
    BY <2>1, <2>5, <2>6, <2>7 DEF PageAt
  <2>13. PageLines'
    <3>1. \A n : Pages!Bytes(n, n)' = Pages!Bytes(n, n)
      BY <2>3 DEF Pages!Bytes, Pages!EndOf
    <3> QED BY <2>3, <2>4, <2>10, <3>1 DEF PageInv, PageLines
  <2>14. PageShown'
    <3>1. <<lo, a>> \in (1 .. MaxFile + 1) \X (0 .. MaxFile + 1)
      BY <2>1, <2>5 DEF PageBounded
    <3>2. pageAt' # 0 => \A p \in shown' : p[1] < pageAt'
      <4>1. \A p \in shown : p[1] < lo /\ p[1] \in Nat
        BY <2>1 DEF PageInv, PageShown, PageBounded
      <4> QED BY <2>1, <2>3, <2>5, <4>1
    <3>3. \A p \in shown' : p[1] .. p[2] \subseteq PageReached'
      BY <2>3, <2>10 DEF PageInv, PageShown
    <3>4. \A n \in PageReached' : \E p \in shown' : n \in p[1] .. p[2]
      <4>1. ASSUME NEW n \in PageReached PROVE \E p \in shown' : n \in p[1] .. p[2]
        BY <2>3 DEF PageInv, PageShown
      <4>2. ASSUME NEW n \in lo .. a PROVE \E p \in shown' : n \in p[1] .. p[2]
        <5>1. <<lo, a>> \in shown' /\ <<lo, a>>[1] = lo /\ <<lo, a>>[2] = a
          BY <2>3
        <5> QED BY <5>1
      <4> QED BY <2>10, <4>1, <4>2
    <3>5. \A p, q \in shown' : p # q => p[1] .. p[2] \cap q[1] .. q[2] = {}
      <4>0. PICK r : r = <<lo, a>>
        OBVIOUS
      <4>1. r = <<lo, a>> /\ r[1] = lo /\ r[2] = a
        BY <4>0
      <4>2. \A p \in shown : p[1] .. p[2] \cap r[1] .. r[2] = {}
        BY <2>10, <4>1 DEF PageInv, PageShown
      <4>3. \A p, q \in shown : p # q => p[1] .. p[2] \cap q[1] .. q[2] = {}
        BY DEF PageInv, PageShown
      <4>4. shown' = shown \cup {r}
        BY <2>3, <4>1
      <4> QED BY <4>2, <4>3, <4>4
    <3>6. shown' \subseteq (1 .. MaxFile + 1) \X (0 .. MaxFile + 1)
      BY <2>3, <3>1 DEF PageInv, PageShown
    <3> QED BY <3>2, <3>3, <3>4, <3>5, <3>6 DEF PageShown
  <2> QED BY <2>11, <2>12, <2>13, <2>14 DEF PageInv
<1>3. CASE Pages!Done
  <2>1. UNCHANGED pageVars
    BY <1>3 DEF Pages!Done, Pages!vars, pageVars
  <2> QED BY <1>1, <2>1
<1> QED BY <1>1, <1>2, <1>3 DEF Pages!Next

LEMMA PageImplies ==
    ASSUME PageBounded, PageInv
    PROVE  Pages!TypeOK /\ Pages!PagesCoverRange
<1>1. PICK range : range = {n \in 1 .. Pages!Total : ask.first <= n /\ n <= Pages!EndLine}
  OBVIOUS
<1>2. PICK first \in Nat, hi \in Nat, tot \in Nat :
         /\ first = ask.first /\ hi = PageLast /\ tot = Len(ends) /\ 1 <= first /\ hi <= tot
         /\ \A n : n \in 1 .. tot /\ n <= Pages!EndLine <=> n \in 1 .. hi
  BY PageBounds DEF PageInv, PageBounded
<1>3. range = first .. hi
  <2>1. ASSUME NEW n PROVE n \in range <=> n \in first .. hi
    <3>1. n \in range <=> n \in 1 .. hi /\ first <= n
      BY <1>1, <1>2 DEF Pages!Total
    <3> QED BY <1>2, <3>1
  <2> QED BY <2>1
<1>4. PageReached \subseteq range /\ (pageAt = 0 => PageReached = range)
  BY <1>2, <1>3 DEF PageReached
<1>5. Pages!TypeOK
  <2>1. range \subseteq 1 .. Pages!Total
    BY <1>1
  <2> QED BY <1>4, <2>1 DEF PageInv, PageTyped, PageLines, PageShown, Pages!TypeOK
<1>6. Pages!PagesCoverRange
  <2>1. /\ whole \cap pageCut = {} /\ whole \cup pageCut \subseteq range
        /\ \A n \in pageCut : Pages!Bytes(n, n) > ask.bytes
        /\ pageAt # 0 => \A p \in shown : p[1] < pageAt
        /\ pageAt = 0 => whole \cup pageCut = range
        /\ \A p, q \in shown : p # q => p[1] .. p[2] \cap q[1] .. q[2] = {}
    BY <1>4 DEF PageInv, PageLines, PageShown
  <2>2. pageAt = 0 => range = UNION {p[1] .. p[2] : p \in shown}
    BY <1>4 DEF PageInv, PageShown
  <2> QED BY <1>1, <2>1, <2>2, Zenon DEF Pages!PagesCoverRange
<1> QED BY <1>5, <1>6

-----------------------------------------------------------------------------
(* The search for a text (TextSearch).                                        *)

TextBounded == {MaxMatches, MaxResults} \subseteq Nat

TextTyped ==
    /\ there \in 0 .. MaxMatches /\ piped \in 0 .. MaxMatches /\ taken \in 0 .. MaxMatches
    /\ textRg \in {"running", "found", "none", "failed", "killed"}
    /\ textTimer \in {"armed", "firing", "fired", "cancelled"}
    /\ main \in {"reading", "closing", "deciding", "done"}
    /\ answer \in [matches : 0 .. MaxMatches, truncated : BOOLEAN,
                   engine : {"none", "rg", "lines"}]
TextFlags == timed_out \in BOOLEAN /\ textCut \in BOOLEAN

\* The process that found all, or nothing, has told all there is; the timer
\* tells that it ran out before it kills; who stopped reading had read enough or
\* all; and what is killed otherwise was killed by the timer or after the end.
TextSteps ==
    /\ taken <= piped /\ piped <= there
    /\ taken <= MaxResults + 1
    /\ textRg \in {"found", "none"} => piped = there
    /\ textTimer \in {"firing", "fired"} => timed_out
    /\ textCut => taken > MaxResults /\ main # "reading"
    /\ taken > MaxResults => textCut
    /\ textRg = "killed" => timed_out \/ textCut
    /\ main # "reading" /\ ~textCut => taken = piped /\ textRg # "running"
    /\ main \in {"deciding", "done"} => textRg # "running"

TextInv ==
    /\ TextTyped /\ TextFlags /\ TextSteps
    /\ main = "done" => Text!SearchIsWhole

LEMMA TextInitInv == ASSUME TextBounded, Text!Init PROVE TextInv
<1>1. TextFlags
  BY Zenon DEF Text!Init, TextFlags
<1>2. TextTyped
  BY DEF Text!Init, TextTyped, TextBounded, Text!NoAnswer
<1>3. TextSteps
  BY DEF Text!Init, TextSteps, TextBounded
<1>4. main # "done"
  BY DEF Text!Init
<1> QED BY <1>1, <1>2, <1>3, <1>4 DEF TextInv

LEMMA TextPreserved ==
    ASSUME TextBounded, TextInv, [Text!Next]_textVars
    PROVE  TextInv'
<1> USE DEF TextInv
<1>1. TextFlags'
  BY Zenon DEF TextFlags, Text!Next, Text!Emit, Text!End, Text!Take, Text!EndOfPipe, Text!Timeout,
        Text!Close, Text!Decide, textVars
<1>2. CASE Text!Emit \/ Text!End \/ Text!Take \/ Text!EndOfPipe \/ Text!Timeout \/ Text!Close
  <2>1. TextTyped'
    BY <1>2 DEF TextBounded, TextTyped, TextSteps, Text!Emit, Text!End, Text!Take, Text!EndOfPipe,
          Text!Timeout, Text!Close, Text!Kills
  <2>2. TextSteps'
    <3> USE DEF TextBounded, TextTyped, TextSteps, Text!Kills
    <3>1. CASE Text!Emit
      BY <3>1 DEF Text!Emit
    <3>2. CASE Text!End
      BY <3>2 DEF Text!End
    <3>3. CASE Text!Take
      BY <3>3 DEF Text!Take
    <3>4. CASE Text!EndOfPipe
      BY <3>4 DEF Text!EndOfPipe
    <3>5. CASE Text!Timeout
      BY <3>5 DEF Text!Timeout
    <3>6. CASE Text!Close
      BY <3>6 DEF Text!Close
    <3> QED BY <1>2, <3>1, <3>2, <3>3, <3>4, <3>5, <3>6
  <2>3. main' # "done" \/ UNCHANGED <<main, there, answer>>
    BY <1>2 DEF Text!Emit, Text!End, Text!Take, Text!EndOfPipe, Text!Timeout, Text!Close
  <2> QED BY <1>1, <2>1, <2>2, <2>3 DEF Text!SearchIsWhole
<1>3. CASE Text!Decide
  <2>1. TextSteps'
    BY <1>3 DEF Text!Decide, TextSteps, TextTyped
  <2>2. CASE timed_out \/ (~textCut /\ ~Text!ExitAccepted)
    <3>1. /\ answer' = Text!ByLines /\ main' = "done"
          /\ UNCHANGED <<there, textRg, piped, textTimer, timed_out, taken, textCut>>
      BY <1>3, <2>2 DEF Text!Decide
    <3>2. TextTyped' /\ Text!SearchIsWhole'
      BY <3>1 DEF TextTyped, TextBounded, Text!ByLines, Text!SearchIsWhole
    <3> QED BY <1>1, <2>1, <3>2
  <2>3. CASE ~(timed_out \/ (~textCut /\ ~Text!ExitAccepted))
    <3>1. /\ answer' = Text!ByRg /\ main' = "done"
          /\ UNCHANGED <<there, textRg, piped, textTimer, timed_out, taken, textCut>>
      BY <1>3, <2>3 DEF Text!Decide
    <3>2. ~timed_out /\ (textCut \/ textRg \in {"found", "none"})
      BY <2>3 DEF Text!ExitAccepted, TextSteps
    <3>3. /\ there > MaxResults <=> textCut
          /\ textCut \/ taken = there
          /\ taken <= there
      BY <1>3, <3>2 DEF TextSteps, TextTyped, TextBounded, Text!Decide
    <3>4. /\ answer'.matches = IF taken < MaxResults THEN taken ELSE MaxResults
          /\ answer'.truncated = textCut /\ answer'.engine = "rg"
      BY <3>1 DEF Text!ByRg
    <3>5. (there > MaxResults) = textCut
      <4>1. there \in Nat /\ MaxResults \in Nat
        BY DEF TextTyped, TextBounded
      <4>2. CASE textCut = TRUE
        BY <3>3, <4>1, <4>2
      <4>3. CASE textCut = FALSE
        <5>1. ~(there > MaxResults)
          BY <3>3, <4>3
        <5>2. (there > MaxResults) = FALSE
          BY <4>1, <5>1
        <5> QED BY <4>3, <5>2, Zenon
      <4> QED BY <4>2, <4>3 DEF TextFlags
    <3>6. answer'.matches = IF there < MaxResults THEN there ELSE MaxResults
      BY <3>3, <3>4 DEF TextSteps, TextTyped, TextBounded
    <3>7. Text!SearchIsWhole'
      BY <3>1, <3>4, <3>5, <3>6, Zenon DEF Text!SearchIsWhole
    <3>8. (IF taken < MaxResults THEN taken ELSE MaxResults) \in 0 .. MaxMatches
      BY <3>3 DEF TextTyped, TextBounded
    <3>9. answer' \in [matches : 0 .. MaxMatches, truncated : BOOLEAN,
                       engine : {"none", "rg", "lines"}]
      <4>1. textCut \in BOOLEAN
        BY DEF TextFlags
      <4> QED BY <3>1, <3>8, <4>1, Zenon DEF Text!ByRg
    <3>10. TextTyped'
      BY <3>1, <3>9 DEF TextTyped
    <3> QED BY <1>1, <2>1, <3>7, <3>10
  <2> QED BY <2>2, <2>3
<1>4. CASE UNCHANGED textVars
  BY <1>1, <1>4 DEF textVars, TextTyped, TextSteps, Text!SearchIsWhole
<1> QED BY <1>2, <1>3, <1>4 DEF Text!Next

LEMMA TextImplies == ASSUME TextInv PROVE Text!TypeOK /\ Text!SearchIsWhole
<1>1. Text!TypeOK
  BY Zenon DEF TextInv, TextTyped, TextFlags, Text!TypeOK
<1> QED BY <1>1 DEF TextInv, Text!SearchIsWhole

-----------------------------------------------------------------------------
(* The listing of files (FileListing).                                        *)

ListBounded == {MaxListed, MaxBatch} \subseteq Nat /\ IsFiniteSet(ListedFiles)

ListTyped ==
    /\ kind \in [ListedFiles -> Listing!Kinds] /\ matches \in [Patterns -> SUBSET ListedFiles]
    /\ how \in {"fd", "walk"} /\ asked \subseteq Patterns
    /\ paths \subseteq ListedFiles /\ visited \subseteq ListedFiles /\ files \subseteq ListedFiles
    /\ Cardinality(files) <= MaxListed /\ Cardinality(paths) <= MaxListed
ListFlags == truncated \in BOOLEAN /\ listLost \in BOOLEAN /\ done \in BOOLEAN

ListSafe(p) == {f \in matches[p] : kind[f] # "unsafe"}
ListFull == Cardinality(paths) >= MaxListed

\* fd has found all there is of the patterns it was run for, unless it is at its
\* limit or lost a place; the walk has listed what it came to, until it stops.
ListFinds ==
    /\ paths \subseteq Listing!Matched
    /\ \A p \in asked : ListFull \/ listLost \/ ListSafe(p) \subseteq paths
ListWalks ==
    /\ visited \subseteq Listing!Matched
    /\ ~done => files \subseteq visited \cap Listing!Wanted
    /\ how = "walk" /\ ~truncated => visited \cap Listing!Wanted \subseteq files
    /\ how = "fd" => visited = {}
    /\ how = "fd" /\ ~done => files = {} /\ ~truncated

ListInv == ListTyped /\ ListFlags /\ ListFinds /\ ListWalks /\ Listing!ListingIsWhole

LEMMA ListCardinality == \A S : Listing!Cardinality(S) = Cardinality(S)
BY DEF Listing!Cardinality, Cardinality

LEMMA ListFulls == Listing!Full(paths) <=> ListFull
BY ListCardinality DEF Listing!Full, ListFull

LEMMA ListParts ==
    ASSUME NEW S \in SUBSET ListedFiles, ListBounded
    PROVE  /\ IsFiniteSet(S) /\ Cardinality(S) \in Nat
           /\ \A T \in SUBSET S : /\ IsFiniteSet(T) /\ Cardinality(T) <= Cardinality(S)
                                  /\ Cardinality(T) \in Nat
                                  /\ (Cardinality(T) = Cardinality(S) => T = S)
<1>1. IsFiniteSet(S)
  BY FS_Subset DEF ListBounded
<1> QED BY <1>1, FS_Subset, FS_CardinalityType

LEMMA ListInitInv == ASSUME ListBounded, Listing!Init PROVE ListInv
<1>1. ListFlags
  BY Zenon DEF Listing!Init, ListFlags
<1>2. /\ asked = {} /\ paths = {} /\ visited = {} /\ files = {} /\ ~truncated /\ ~done
  BY DEF Listing!Init
<1>3. Cardinality({}) = 0
  BY FS_EmptySet
<1>4. ListTyped
  BY <1>2, <1>3 DEF Listing!Init, ListTyped, ListBounded
<1> QED BY <1>1, <1>2, <1>4 DEF ListInv, ListFinds, ListWalks, Listing!ListingIsWhole

\* A run of fd for pattern p finds all of it, or is at its limit or lost a place.
LEMMA ListFdPattern ==
    ASSUME ListBounded, ListInv, NEW p \in Patterns, Listing!FdPattern(p)
    PROVE  ListInv'
<1> USE DEF ListInv
<1>0. PICK raw \in SUBSET matches[p] :
         /\ Listing!Cardinality(raw)
              = Listing!Least(Listing!Cardinality(matches[p]), MaxListed)
         /\ \E found \in SUBSET {f \in raw : kind[f] # "unsafe"} :
               /\ paths' = paths \cup found
               /\ Listing!Cardinality(paths') <= MaxListed
               /\ Listing!Full(paths') \/ {f \in raw : kind[f] # "unsafe"} \subseteq found
         /\ listLost' = (listLost \/ (raw # matches[p] /\ \E f \in raw : kind[f] = "unsafe"))
  BY Zenon DEF Listing!FdPattern
<1>1. PICK found \in SUBSET {f \in raw : kind[f] # "unsafe"} :
         /\ Listing!Cardinality(raw)
              = Listing!Least(Listing!Cardinality(matches[p]), MaxListed)
         /\ paths' = paths \cup found
         /\ Listing!Cardinality(paths') <= MaxListed
         /\ Listing!Full(paths') \/ {f \in raw : kind[f] # "unsafe"} \subseteq found
         /\ listLost' = (listLost \/ (raw # matches[p] /\ \E f \in raw : kind[f] = "unsafe"))
  BY <1>0, Zenon
<1>2. /\ how = "fd" /\ ~done /\ asked' = asked \cup {p}
      /\ UNCHANGED <<kind, matches, how, visited, files, truncated, done>>
  BY Zenon DEF Listing!FdPattern
<1>3. matches[p] \in SUBSET ListedFiles /\ raw \in SUBSET ListedFiles
      /\ paths' \in SUBSET ListedFiles
  BY <1>1 DEF ListTyped
<1>4. ListFlags'
  BY <1>1, <1>2, Zenon DEF ListFlags
<1>5. /\ listLost => listLost'
      /\ raw # matches[p] /\ (\E f \in raw : kind[f] = "unsafe") => listLost'
  BY <1>1, Zenon DEF ListFlags
<1>6. /\ Cardinality(raw) = IF Cardinality(matches[p]) <= MaxListed THEN Cardinality(matches[p])
                                                                    ELSE MaxListed
      /\ Cardinality(paths') <= MaxListed
      /\ Cardinality(paths') >= MaxListed \/ {f \in raw : kind[f] # "unsafe"} \subseteq found
  BY <1>1, ListCardinality DEF Listing!Least, Listing!Full
<1>7. ListTyped'
  BY <1>2, <1>3, <1>6 DEF ListTyped
<1>8. Cardinality(paths') \in Nat /\ Cardinality(matches[p]) \in Nat /\ MaxListed \in Nat
      /\ Cardinality(raw) \in Nat
      /\ (raw \subseteq paths' => Cardinality(raw) <= Cardinality(paths'))
      /\ (Cardinality(raw) = Cardinality(matches[p]) => raw = matches[p])
      /\ (paths \subseteq paths' => Cardinality(paths) <= Cardinality(paths'))
      /\ Cardinality(paths) \in Nat
  <2>1. matches[p] \in SUBSET ListedFiles /\ raw \in SUBSET matches[p]
    BY <1>1, <1>3
  <2>2. /\ Cardinality(paths') \in Nat /\ Cardinality(matches[p]) \in Nat
        /\ (raw \subseteq paths' => Cardinality(raw) <= Cardinality(paths'))
        /\ (paths \subseteq paths' => Cardinality(paths) <= Cardinality(paths'))
    BY <1>3, ListParts
  <2>3. Cardinality(raw) \in Nat /\ (Cardinality(raw) = Cardinality(matches[p]) => raw = matches[p])
    BY <2>1, ListParts
  <2>4. Cardinality(paths) \in Nat
    BY ListParts DEF ListTyped
  <2> QED BY <2>2, <2>3, <2>4 DEF ListBounded
<1>9. ListFull' \/ listLost' \/ ListSafe(p)' \subseteq paths'
  <2>1. CASE raw = matches[p]
    BY <1>1, <1>2, <1>6, <2>1 DEF ListFull, ListSafe
  <2>2. CASE raw # matches[p]
    <3>1. Cardinality(raw) = MaxListed
      BY <1>6, <1>8, <2>2
    <3>2. listLost' \/ {f \in raw : kind[f] # "unsafe"} = raw
      BY <1>5, <2>2
    <3>3. listLost' \/ Cardinality(paths') >= MaxListed
      BY <1>1, <1>6, <1>8, <3>1, <3>2
    <3> QED BY <3>3 DEF ListFull
  <2> QED BY <2>1, <2>2
<1>10. ASSUME NEW q \in asked PROVE ListFull' \/ listLost' \/ ListSafe(q)' \subseteq paths'
  <2>1. ListFull => ListFull'
    BY <1>1, <1>8 DEF ListFull
  <2>2. ListFull \/ listLost \/ ListSafe(q) \subseteq paths
    BY DEF ListFinds
  <2> QED BY <1>1, <1>2, <1>5, <2>1, <2>2 DEF ListSafe
<1>11. ListFinds'
  <2>1. matches[p] \subseteq Listing!Matched /\ Listing!Matched' = Listing!Matched
    BY <1>2 DEF Listing!Matched
  <2>2. paths' \subseteq Listing!Matched'
    BY <1>1, <2>1 DEF ListFinds
  <2> QED BY <1>2, <1>9, <1>10, <2>2 DEF ListFinds
<1>12. ListWalks' /\ Listing!ListingIsWhole'
  BY <1>2 DEF ListWalks, Listing!ListingIsWhole, Listing!Wanted, Listing!Matched
<1> QED BY <1>4, <1>7, <1>11, <1>12

LEMMA ListFallBack ==
    ASSUME ListBounded, ListInv, Listing!FallBack
    PROVE  ListInv'
<1> USE DEF ListInv
<1>1. /\ how = "fd" /\ ~done /\ how' = "walk" /\ asked' = {} /\ paths' = {}
      /\ UNCHANGED <<kind, matches, visited, files, truncated, done>>
  BY DEF Listing!FallBack
<1>2. ListFlags'
  BY <1>1, Zenon DEF ListFlags, Listing!FallBack
<1>3. ListTyped'
  BY <1>1, FS_EmptySet DEF ListTyped, ListBounded
<1>4. ListFinds' /\ ListWalks'
  BY <1>1 DEF ListFinds, ListWalks, Listing!Wanted, Listing!Matched
<1> QED BY <1>1, <1>2, <1>3, <1>4 DEF Listing!ListingIsWhole

LEMMA ListFdAnswer ==
    ASSUME ListBounded, ListInv, Listing!FdAnswer
    PROVE  ListInv'
<1> USE DEF ListInv
<1>1. /\ how = "fd" /\ Listing!ToRun = {} /\ files' = {f \in paths : kind[f] = "listed"}
      /\ UNCHANGED <<kind, matches, how, asked, paths, visited, listLost>>
  BY DEF Listing!FdAnswer
<1>2. truncated' = Listing!Full(paths) /\ done' = TRUE
  BY Zenon DEF Listing!FdAnswer
<1>3. ListFlags'
  <2>1. truncated' \in BOOLEAN
    BY <1>2, ListParts, ListCardinality DEF Listing!Full, ListTyped, ListBounded
  <2> QED BY <1>1, <1>2, <2>1, Zenon DEF ListFlags
<1>4. ListFull => truncated'
  BY <1>2, ListFulls
<1>5. ListTyped'
  <2>1. Cardinality(files') <= Cardinality(paths) /\ Cardinality(files') \in Nat
        /\ Cardinality(paths) \in Nat
    BY <1>1, ListParts DEF ListTyped
  <2> QED BY <1>1, <2>1 DEF ListTyped, ListBounded
<1>6. files' \subseteq Listing!Wanted
  BY <1>1 DEF ListFinds, Listing!Wanted
<1>7. ListFull \/ listLost \/ Listing!Wanted \subseteq files'
  <2>1. ListFull \/ Patterns \subseteq asked
    BY <1>1, ListFulls DEF Listing!ToRun
  <2>2. ASSUME ~ListFull, ~listLost, NEW f \in Listing!Wanted PROVE f \in files'
    <3>1. PICK p \in Patterns : f \in matches[p] /\ kind[f] = "listed"
      BY <2>2 DEF Listing!Wanted, Listing!Matched
    <3>2. f \in ListSafe(p)
      BY <3>1 DEF ListSafe
    <3> QED BY <1>1, <2>1, <2>2, <3>1, <3>2 DEF ListFinds
  <2> QED BY <2>2
<1>8. Listing!ListingIsWhole'
  <2>1. Listing!Wanted' = Listing!Wanted
    BY <1>1 DEF Listing!Wanted, Listing!Matched
  <2> QED BY <1>1, <1>4, <1>6, <1>7, <2>1 DEF Listing!ListingIsWhole
<1>9. ListFinds' /\ ListWalks'
  BY <1>1, <1>2 DEF ListFinds, ListWalks, ListFull, ListSafe, Listing!Wanted, Listing!Matched
<1> QED BY <1>3, <1>5, <1>8, <1>9

LEMMA ListWalkBatch ==
    ASSUME ListBounded, ListInv, NEW part1 \in SUBSET ListedFiles, Listing!WalkBatch(part1)
    PROVE  ListInv'
<1> USE DEF ListInv
<1>1. /\ how = "walk" /\ ~done /\ ~truncated /\ part1 \subseteq Listing!Matched \ visited
      /\ visited' = visited \cup part1
      /\ UNCHANGED <<kind, matches, how, asked, paths, listLost, done>>
  BY DEF Listing!WalkBatch
<1>2. PICK more : more = part1 \cap Listing!Wanted
  OBVIOUS
<1>3. \/ /\ Cardinality(files \cup more) < MaxListed
         /\ files' = files \cup more /\ UNCHANGED truncated
      \/ truncated' = TRUE /\ \E some \in SUBSET more :
            files' = files \cup some /\ Cardinality(files') = MaxListed
  BY <1>2, ListCardinality, Zenon DEF Listing!WalkBatch
<1>4. /\ files' \subseteq files \cup more /\ Cardinality(files') <= MaxListed
      /\ truncated' \in BOOLEAN
      /\ truncated' \/ files' = files \cup more
  <2>1. CASE truncated' = TRUE /\ \E some \in SUBSET more :
                files' = files \cup some /\ Cardinality(files') = MaxListed
    BY <2>1 DEF ListBounded
  <2>2. CASE /\ Cardinality(files \cup more) < MaxListed
             /\ files' = files \cup more /\ UNCHANGED truncated
    <3>1. files \cup more \in SUBSET ListedFiles
      BY <1>1, <1>2 DEF ListTyped
    <3>2. Cardinality(files \cup more) \in Nat
      BY <3>1, ListParts
    <3>3. truncated' \in BOOLEAN
      BY <2>2, Zenon DEF ListFlags
    <3> QED BY <2>2, <3>2, <3>3 DEF ListBounded
  <2> QED BY <1>3, <2>1, <2>2
<1>5. ListFlags'
  BY <1>1, <1>4, Zenon DEF ListFlags
<1>6. ListTyped'
  BY <1>1, <1>2, <1>4 DEF ListTyped
<1>7. Listing!Wanted' = Listing!Wanted /\ Listing!Matched' = Listing!Matched
  BY <1>1 DEF Listing!Wanted, Listing!Matched
<1>8. ListFinds'
  BY <1>1, <1>7 DEF ListFinds, ListFull, ListSafe
<1>9. ListWalks'
  BY <1>1, <1>2, <1>4, <1>7 DEF ListWalks
<1>10. Listing!ListingIsWhole'
  BY <1>1 DEF Listing!ListingIsWhole
<1> QED BY <1>5, <1>6, <1>8, <1>9, <1>10

LEMMA ListPreserved == ASSUME ListBounded, ListInv, [Listing!Next]_listVars PROVE ListInv'
<1>1. CASE \E p \in Patterns : Listing!FdPattern(p)
  BY <1>1, ListFdPattern
<1>2. CASE Listing!FallBack
  BY <1>2, ListFallBack
<1>3. CASE Listing!FdAnswer
  BY <1>3, ListFdAnswer
<1>4. CASE \E b \in SUBSET ListedFiles : Listing!WalkBatch(b)
  BY <1>4, ListWalkBatch
<1>5. CASE Listing!WalkAnswer
  <2>1. /\ how = "walk" /\ (truncated \/ visited = Listing!Matched) /\ ~done
        /\ UNCHANGED <<kind, matches, how, asked, paths, visited, files, truncated, listLost>>
    BY <1>5 DEF Listing!WalkAnswer
  <2>2. ListFlags'
    BY <1>5, Zenon DEF Listing!WalkAnswer, ListInv, ListFlags
  <2>3. Listing!Wanted' = Listing!Wanted /\ Listing!Matched' = Listing!Matched
    BY <2>1 DEF Listing!Wanted, Listing!Matched
  <2>4. ListTyped' /\ ListFinds'
    BY <2>1, <2>3 DEF ListInv, ListTyped, ListFinds, ListFull, ListSafe
  <2>5. ListWalks' /\ Listing!ListingIsWhole'
    BY <2>1, <2>3 DEF ListInv, ListWalks, Listing!ListingIsWhole, Listing!Wanted
  <2> QED BY <2>2, <2>4, <2>5 DEF ListInv
<1>6. CASE UNCHANGED listVars
  BY <1>6 DEF listVars, ListInv, ListTyped, ListFlags, ListFinds, ListWalks, ListFull, ListSafe,
        Listing!ListingIsWhole, Listing!Wanted, Listing!Matched
<1> QED BY <1>1, <1>2, <1>3, <1>4, <1>5, <1>6 DEF Listing!Next

LEMMA ListImplies == ASSUME ListInv PROVE Listing!TypeOK /\ Listing!ListingIsWhole
BY ListCardinality, Zenon DEF ListInv, ListTyped, ListFlags, Listing!TypeOK

-----------------------------------------------------------------------------
(* The hunks of a patch (PatchHunks).  The rewritten text and the one that is *)
(* expected are defined by folds; what they compute is proved by induction    *)
(* over the set of numbers for which it is right.                             *)

\* Numbers that go on from lo, one after the other, reach hi.
LEMMA Reached ==
    ASSUME NEW lo \in Nat, NEW hi \in Nat, NEW right, lo \in right,
           \A n \in lo .. hi - 1 : n \in right => n + 1 \in right
    PROVE  \A n \in lo .. hi : n \in right
<1>1. SUFFICES ASSUME NEW b \in lo .. hi, b \notin right PROVE FALSE
  OBVIOUS
<1>2. PICK wrong : wrong = {n \in lo .. hi : n \notin right}
  OBVIOUS
<1>3. wrong \in SUBSET Nat /\ wrong # {} /\ wrong \in SUBSET (lo .. hi)
  BY <1>1, <1>2
<1>4. IsFiniteSet(wrong)
  <2>1. IsFiniteSet(lo .. hi)
    BY FS_Interval
  <2> QED BY <1>3, <2>1, FS_Subset
<1>5. PICK n \in wrong : \A m \in wrong : n <= m
  BY <1>3, <1>4, LeastNumber
<1>6. n \in lo .. hi /\ n \notin right /\ n # lo
  BY <1>2, <1>5
<1>7. n - 1 \in lo .. hi - 1 /\ n - 1 \in lo .. hi /\ ~(n <= n - 1) /\ n - 1 + 1 = n
  BY <1>6
<1>8. n - 1 \in right
  BY <1>2, <1>5, <1>7
<1> QED BY <1>6, <1>7, <1>8

\* The first pieces of p joined, for any number of them.
Joins(p, n, f) == f = [i \in 1 .. n |-> IF i = 1 THEN p[i] ELSE f[i - 1] \o p[i]]

LEMMA JoinsExist ==
    ASSUME NEW p, NEW n \in Nat
    PROVE  \E f : Joins(p, n, f)
<1>1. PICK right : right = {m \in Nat : \E f : Joins(p, m, f)}
  OBVIOUS
<1>2. 0 \in right
  <2>1. Joins(p, 0, [i \in 1 .. 0 |-> p[i]])
    BY DEF Joins
  <2> QED BY <1>1, <2>1
<1>3. ASSUME NEW m \in 0 .. n - 1, m \in right PROVE m + 1 \in right
  <2>1. PICK f : Joins(p, m, f)
    BY <1>1, <1>3
  <2>2. PICK g : g = [i \in 1 .. m + 1 |-> IF i <= m THEN f[i]
                        ELSE IF i = 1 THEN p[i] ELSE f[i - 1] \o p[i]]
    OBVIOUS
  <2>3. \A i \in 1 .. m : f[i] = IF i = 1 THEN p[i] ELSE f[i - 1] \o p[i]
    BY <2>1 DEF Joins
  <2>4. ASSUME NEW i \in 1 .. m + 1
        PROVE  g[i] = IF i = 1 THEN p[i] ELSE g[i - 1] \o p[i]
    <3>1. CASE i <= m
      <4>1. i \in 1 .. m /\ g[i] = f[i] /\ (i # 1 => g[i - 1] = f[i - 1])
        BY <2>2, <3>1
      <4> QED BY <2>3, <4>1
    <3>2. CASE i = m + 1
      BY <2>2, <3>2
    <3> QED BY <3>1, <3>2
  <2>5. g = [i \in 1 .. m + 1 |-> g[i]]
    BY <2>2
  <2>6. Joins(p, m + 1, g)
    BY <2>4, <2>5 DEF Joins
  <2>7. m + 1 \in Nat
    OBVIOUS
  <2> QED BY <1>1, <2>6, <2>7
<1>4. n \in right
  <2>1. \A m \in 0 .. n : m \in right
    BY <1>2, <1>3, Reached
  <2> QED BY <2>1
<1> QED BY <1>1, <1>4

\* FlattenSeq joins all pieces.
LEMMA Flattened ==
    ASSUME NEW T, NEW p \in Seq(Seq(T))
    PROVE  \E J \in [0 .. Len(p) -> Seq(T)] :
              /\ J[0] = <<>> /\ J[Len(p)] = Hunks!FlattenSeq(p)
              /\ \A i \in 1 .. Len(p) : J[i] = J[i - 1] \o p[i]
<1>1. PICK n \in Nat : n = Len(p)
  OBVIOUS
<1>2. \A i \in 1 .. n : p[i] \in Seq(T)
  BY <1>1, ElementOfSeq
<1>3. PICK f : f = CHOOSE g : Joins(p, n, g)
  OBVIOUS
<1>4. Joins(p, n, f)
  BY <1>3, JoinsExist
<1>5. \A i \in 1 .. n : f[i] = IF i = 1 THEN p[i] ELSE f[i - 1] \o p[i]
  BY <1>4 DEF Joins
<1>6. Hunks!FlattenSeq(p) = IF n = 0 THEN p ELSE f[n]
  BY <1>1, <1>3 DEF Hunks!FlattenSeq, Joins
<1>7. \A i \in 1 .. n : f[i] \in Seq(T)
  <2>1. PICK right : right = {i \in Nat : f[i] \in Seq(T)}
    OBVIOUS
  <2>2. CASE n >= 1
    <3>1. 1 \in right
      BY <1>2, <1>5, <2>1, <2>2
    <3>2. ASSUME NEW i \in 1 .. n - 1, i \in right PROVE i + 1 \in right
      <4>1. PICK m \in 1 .. n : m = i + 1 /\ m # 1 /\ m - 1 = i
        OBVIOUS
      <4>2. f[m] = f[i] \o p[m]
        BY <1>5, <4>1
      <4>3. f[i] \in Seq(T) /\ p[m] \in Seq(T)
        BY <1>2, <2>1, <3>2, <4>1
      <4>4. f[m] \in Seq(T)
        BY <4>2, <4>3, ConcatProperties
      <4> QED BY <2>1, <4>1, <4>4
    <3>3. \A i \in 1 .. n : i \in right
      BY <3>1, <3>2, Reached
    <3> QED BY <2>1, <3>3
  <2> QED BY <2>2
<1>8. PICK J : J = [i \in 0 .. n |-> IF i = 0 THEN <<>> ELSE f[i]]
  OBVIOUS
<1>9. J \in [0 .. n -> Seq(T)] /\ J[0] = <<>>
  BY <1>7, <1>8
<1>10. J[n] = Hunks!FlattenSeq(p)
  <2>1. CASE n = 0
    BY <1>1, <1>6, <1>9, <2>1, EmptySeq
  <2>2. CASE n # 0
    BY <1>6, <1>8, <2>2
  <2> QED BY <2>1, <2>2
<1>11. ASSUME NEW i \in 1 .. n PROVE J[i] = J[i - 1] \o p[i]
  <2>1. CASE i = 1
    <3>1. J[i] = p[1] /\ J[i - 1] = <<>> /\ p[1] \in Seq(T)
      BY <1>2, <1>5, <1>8, <2>1
    <3> QED BY <2>1, <3>1, ConcatEmptySeq
  <2>2. CASE i # 1
    <3>1. J[i] = f[i] /\ J[i - 1] = f[i - 1]
      BY <1>8, <2>2
    <3> QED BY <1>5, <2>2, <3>1
  <2> QED BY <2>1, <2>2
<1> QED BY <1>1, <1>9, <1>10, <1>11


\* Concatenation is associative; naming the operands tells the provers which.
Texts(T, x, y, z) == x \in Seq(T) /\ y \in Seq(T) /\ z \in Seq(T)
Regroups(x, y, z) == (x \o y) \o z = x \o (y \o z)
LEMMA Regrouped ==
    ASSUME NEW T, NEW x, NEW y, NEW z, Texts(T, x, y, z)
    PROVE  Regroups(x, y, z)
BY ConcatAssociative DEF Texts, Regroups

\* From where the pieces are the lines of the text c, or nothing up to line e, the
\* pieces joined go on with those lines.
LineAt(c, e, i) == IF i = Len(c) \/ i < e THEN <<>> ELSE <<c[i + 1]>>
LinesTo(c, e, i) == SubSeq(c, e + 1, IF i < Len(c) THEN i ELSE Len(c))

LEMMA LinesGrow ==
    ASSUME NEW T, NEW c \in Seq(T), NEW e \in 0 .. Len(c), NEW i \in 0 .. Len(c)
    PROVE  /\ LineAt(c, e, i) \in Seq(T) /\ LinesTo(c, e, i) \in Seq(T)
           /\ LinesTo(c, e, i) \o LineAt(c, e, i) = LinesTo(c, e, i + 1)
<1>1. PICK n \in Nat : n = Len(c) /\ \A k \in 1 .. n : c[k] \in T
  BY ElementOfSeq
<1>2. PICK s : s = LinesTo(c, e, i)
  OBVIOUS
<1>3. /\ e \in 0 .. n /\ i \in 0 .. n
      /\ s = SubSeq(c, e + 1, i)
  BY <1>1, <1>2 DEF LinesTo
<1>4. s \in Seq(T)
  <2>1. e + 1 \in Int /\ i \in Int /\ \A k \in e + 1 .. i : c[k] \in T
    BY <1>1, <1>3
  <2> QED BY <1>3, <2>1, SubSeqProperties
<1>5. CASE i = n
  <2>1. LineAt(c, e, i) = <<>> /\ LinesTo(c, e, i + 1) = SubSeq(c, e + 1, i)
    BY <1>1, <1>5 DEF LineAt, LinesTo
  <2>2. <<>> \in Seq(T) /\ s \o <<>> = s
    BY <1>4, EmptySeq, ConcatEmptySeq
  <2> QED BY <1>2, <1>3, <1>4, <2>1, <2>2
<1>6. CASE i # n /\ i < e
  <2>1. LineAt(c, e, i) = <<>> /\ LinesTo(c, e, i + 1) = SubSeq(c, e + 1, i + 1)
    BY <1>1, <1>3, <1>6 DEF LineAt, LinesTo
  <2>2. e + 1 \in Int /\ i \in Int /\ i + 1 \in Int /\ i < e + 1 /\ i + 1 < e + 1
    BY <1>3, <1>6
  <2>3. s = <<>> /\ LinesTo(c, e, i + 1) = <<>>
    BY <1>3, <2>1, <2>2, SubSeqEmpty
  <2>4. <<>> \in Seq(T) /\ <<>> \o <<>> = <<>>
    BY EmptySeq, ConcatEmptySeq
  <2> QED BY <1>2, <2>1, <2>3, <2>4
<1>7. CASE i # n /\ ~(i < e)
  <2>1. PICK m \in 1 .. n : m = i + 1 /\ m - 1 = i
    BY <1>3, <1>7
  <2>2. LineAt(c, e, i) = <<c[m]>> /\ LinesTo(c, e, i + 1) = SubSeq(c, e + 1, m)
    BY <1>1, <1>3, <1>7, <2>1 DEF LineAt, LinesTo
  <2>3. e + 1 \in 1 .. Len(c) /\ m \in e + 1 .. Len(c)
    BY <1>1, <1>3, <1>7, <2>1
  <2>4. SubSeq(c, e + 1, m) = SubSeq(c, e + 1, m - 1) \o <<c[m]>>
    BY <2>3, SubSeqRecursiveSecond
  <2>5. <<c[m]>> \in Seq(T)
    BY <1>1, <2>1
  <2> QED BY <1>2, <1>3, <1>4, <2>1, <2>2, <2>4, <2>5
<1> QED BY <1>5, <1>6, <1>7

\* The pieces p joined one by one, and how far that goes on from x with lines of c.
Joined(T, n, p, J) ==
    /\ p \in [1 .. n -> Seq(T)] /\ J \in [0 .. n -> Seq(T)]
    /\ \A i \in 1 .. n : J[i] = J[i - 1] \o p[i]
GoesOn(J, x, c, e, i) == J[i] = x \o LinesTo(c, e, i)

LEMMA LinesJoined ==
    ASSUME NEW T, NEW c \in Seq(T), NEW p, NEW J, Joined(T, Len(c) + 1, p, J),
           NEW e \in 0 .. Len(c), NEW x \in Seq(T),
           NEW lo \in 0 .. Len(c) + 1, NEW hi \in lo .. Len(c) + 1,
           GoesOn(J, x, c, e, lo), \A i \in lo .. hi - 1 : p[i + 1] = LineAt(c, e, i)
    PROVE  GoesOn(J, x, c, e, hi)
<1>1. PICK n \in Nat : n = Len(c)
  OBVIOUS
<1>2. PICK right : right = {i \in Nat : GoesOn(J, x, c, e, i)}
  OBVIOUS
<1>3. lo \in right
  BY <1>2
<1>4. ASSUME NEW i \in lo .. hi - 1, i \in right PROVE i + 1 \in right
  <2>1. i \in 0 .. n /\ i + 1 \in Nat
    BY <1>1
  <2>2. PICK m \in 1 .. n + 1 : m = i + 1 /\ m - 1 = i
    BY <2>1
  <2>3. PICK y, z, v : y = LinesTo(c, e, i) /\ z = LineAt(c, e, i) /\ v = LinesTo(c, e, m)
    OBVIOUS
  <2>4. y \in Seq(T) /\ z \in Seq(T) /\ y \o z = v
    BY <1>1, <2>1, <2>2, <2>3, LinesGrow
  <2>5. J[m] = (x \o y) \o z
    <3>1. J[m] = J[i] \o p[m]
      BY <1>1, <2>2 DEF Joined
    <3>2. J[i] = x \o y /\ p[m] = z
      BY <1>2, <1>4, <2>2, <2>3 DEF GoesOn
    <3> QED BY <3>1, <3>2
  <2>6. (x \o y) \o z = x \o (y \o z)
    <3>1. Texts(T, x, y, z)
      BY <2>4 DEF Texts
    <3>2. Regroups(x, y, z)
      BY <3>1, Regrouped
    <3> QED BY <3>2 DEF Regroups
  <2> QED BY <1>2, <2>1, <2>2, <2>3, <2>4, <2>5, <2>6 DEF GoesOn
<1>5. lo \in Nat /\ hi \in Nat /\ hi \in lo .. hi
  BY <1>1
<1>6. \A i \in lo .. hi : i \in right
  BY <1>3, <1>4, <1>5, Reached
<1> QED BY <1>2, <1>5, <1>6


\* What Sorted makes of a finite set and an order of it: every member has a rank of
\* its own.
Orders(order, S) ==
    /\ \A g, h \in S : <<g, h>> \in order \/ <<h, g>> \in order
    /\ \A g, h \in S : <<g, h>> \in order /\ <<h, g>> \in order => g = h
    /\ \A f, g, h \in S : <<f, g>> \in order /\ <<g, h>> \in order => <<f, h>> \in order

LEMMA HunksCardinality == \A S : Hunks!Cardinality(S) = Cardinality(S)
BY DEF Hunks!Cardinality, Cardinality

LEMMA RankedInOrder ==
    ASSUME NEW S, IsFiniteSet(S), NEW order, Orders(order, S)
    PROVE  /\ Hunks!Sorted(S, order) \in [1 .. Cardinality(S) -> S]
           /\ \A h \in S : \E k \in 1 .. Cardinality(S) : Hunks!Sorted(S, order)[k] = h
           /\ \A i, j \in 1 .. Cardinality(S) : i < j =>
                 /\ Hunks!Sorted(S, order)[i] # Hunks!Sorted(S, order)[j]
                 /\ <<Hunks!Sorted(S, order)[i], Hunks!Sorted(S, order)[j]>> \in order
<1> DEFINE Upto(h) == {g \in S : <<g, h>> \in order}
<1>1. PICK n \in Nat : n = Cardinality(S)
  BY FS_CardinalityType
<1>2. PICK rank : rank = [h \in S |-> Cardinality(Upto(h))]
  OBVIOUS
<1>3. ASSUME NEW h \in S PROVE /\ IsFiniteSet(Upto(h)) /\ rank[h] \in 1 .. n
                               /\ rank[h] = Cardinality(Upto(h))
  <2>1. Upto(h) \in SUBSET S /\ h \in Upto(h)
    BY DEF Orders
  <2>2. IsFiniteSet(Upto(h)) /\ Cardinality(Upto(h)) <= n
    BY <1>1, <2>1, FS_Subset
  <2>3. Cardinality(Upto(h)) \in Nat /\ Cardinality(Upto(h)) # 0
    BY <2>1, <2>2, FS_CardinalityType, FS_EmptySet
  <2> HIDE DEF Upto
  <2> QED BY <1>2, <2>2, <2>3
<1>4. ASSUME NEW g \in S, NEW h \in S, g # h, <<g, h>> \in order
      PROVE  rank[g] < rank[h]
  <2>1. Upto(g) \in SUBSET Upto(h) /\ h \in Upto(h) /\ h \notin Upto(g)
    BY <1>4 DEF Orders
  <2>2. Cardinality(Upto(g)) <= Cardinality(Upto(h))
        /\ Cardinality(Upto(g)) # Cardinality(Upto(h))
    BY <1>3, <2>1, FS_Subset
  <2>3. rank[g] = Cardinality(Upto(g)) /\ rank[h] = Cardinality(Upto(h))
        /\ rank[g] \in 1 .. n /\ rank[h] \in 1 .. n
    BY <1>3
  <2> QED BY <2>2, <2>3
<1>5. \A g, h \in S : g # h => rank[g] # rank[h]
  <2> SUFFICES ASSUME NEW g \in S, NEW h \in S, g # h PROVE rank[g] # rank[h]
    OBVIOUS
  <2>1. rank[g] \in 1 .. n /\ rank[h] \in 1 .. n
    BY <1>3
  <2>2. CASE <<g, h>> \in order
    BY <1>4, <2>1, <2>2
  <2>3. CASE <<h, g>> \in order
    BY <1>4, <2>1, <2>3
  <2> QED BY <2>2, <2>3 DEF Orders
<1>6. \A k \in 1 .. n : \E h \in S : rank[h] = k
  <2>1. rank \in [S -> 1 .. n]
    BY <1>2, <1>3
  <2>2. rank \in Injection(S, 1 .. n)
    BY <1>5, <2>1 DEF Injection, IsInjective
  <2>3. IsFiniteSet(1 .. n) /\ Cardinality(1 .. n) = n
    <3>1. 1 \in Int /\ n \in Int
      OBVIOUS
    <3>2. IsFiniteSet(1 .. n) /\ Cardinality(1 .. n) = IF 1 > n THEN 0 ELSE n - 1 + 1
      BY <3>1, FS_Interval
    <3> QED BY <3>2
  <2>4. rank \in Surjection(S, 1 .. n)
    BY <1>1, <2>2, <2>3, FS_Injection
  <2> QED BY <2>4 DEF Surjection
<1>7. PICK r : r = Hunks!Sorted(S, order)
  OBVIOUS
<1>8. ASSUME NEW k \in 1 .. n PROVE r[k] \in S /\ rank[r[k]] = k
  <2>1. r[k] = CHOOSE h \in S : Hunks!Cardinality(Upto(h)) = k
    BY <1>1, <1>7, HunksCardinality DEF Hunks!Sorted
  <2>2. \E h \in S : Hunks!Cardinality(Upto(h)) = k
    BY <1>3, <1>6, HunksCardinality
  <2>3. r[k] \in S /\ Cardinality(Upto(r[k])) = k
    <3> HIDE DEF Upto
    <3> QED BY <2>1, <2>2, HunksCardinality
  <2> HIDE DEF Upto
  <2> QED BY <1>3, <2>3
<1>9. r \in [1 .. n -> S]
  BY <1>1, <1>7, <1>8, HunksCardinality DEF Hunks!Sorted
<1>10. ASSUME NEW h \in S PROVE \E k \in 1 .. n : r[k] = h
  <2>1. rank[h] \in 1 .. n /\ r[rank[h]] \in S /\ rank[r[rank[h]]] = rank[h]
    BY <1>3, <1>8
  <2>2. r[rank[h]] = h
    BY <1>5, <2>1
  <2> QED BY <2>1, <2>2
<1>11. ASSUME NEW i \in 1 .. n, NEW j \in 1 .. n, i < j
       PROVE  r[i] # r[j] /\ <<r[i], r[j]>> \in order
  <2>1. r[i] \in S /\ rank[r[i]] = i /\ r[j] \in S /\ rank[r[j]] = j
    BY <1>8
  <2>2. r[i] # r[j]
    BY <1>11, <2>1
  <2>3. CASE <<r[j], r[i]>> \in order
    <3>1. rank[r[j]] < rank[r[i]]
      BY <1>4, <2>1, <2>2, <2>3
    <3> QED BY <1>11, <2>1, <3>1
  <2> QED BY <2>1, <2>2, <2>3 DEF Orders
<1> HIDE DEF Upto
<1> QED BY <1>1, <1>7, <1>9, <1>10, <1>11


\* The text after the hunks at the places d of a set were spliced in, the last of
\* them at the end.
Splices(d, set, g) ==
    g = [places \in SUBSET set |->
           IF places = {} THEN content
           ELSE Hunks!Splice(g[places \ {Hunks!Max(places)}], d[Hunks!Max(places)])]

LEMMA SplicesExist ==
    ASSUME NEW d, NEW n \in Nat
    PROVE  \E g : Splices(d, 1 .. n, g)
<1>1. PICK right : right = {m \in Nat : \E g : Splices(d, 1 .. m, g)}
  OBVIOUS
<1>2. 0 \in right
  <2>1. PICK g : g = [places \in SUBSET (1 .. 0) |-> content]
    OBVIOUS
  <2>2. \A places \in SUBSET (1 .. 0) : places = {}
    OBVIOUS
  <2>3. Splices(d, 1 .. 0, g)
    BY <2>1, <2>2 DEF Splices
  <2> QED BY <1>1, <2>3
<1>3. ASSUME NEW m \in 0 .. n - 1, m \in right PROVE m + 1 \in right
  <2>1. PICK g : Splices(d, 1 .. m, g)
    BY <1>1, <1>3
  <2>2. PICK f : f = [places \in SUBSET (1 .. m + 1) |->
                        IF m + 1 \in places THEN Hunks!Splice(g[places \ {m + 1}], d[m + 1])
                        ELSE g[places]]
    OBVIOUS
  <2>3. ASSUME NEW places \in SUBSET (1 .. m + 1)
        PROVE  f[places] = IF places = {} THEN content
                  ELSE Hunks!Splice(f[places \ {Hunks!Max(places)}], d[Hunks!Max(places)])
    <3>1. PICK last : last = Hunks!Max(places)
      OBVIOUS
    <3>2. places \ {last} \in SUBSET (1 .. m + 1)
      OBVIOUS
    <3>3. CASE m + 1 \in places
      <4>1. last = m + 1
        <5>1. \A y \in places : m + 1 >= y
          OBVIOUS
        <5>2. last \in places /\ \A y \in places : last >= y
          BY <3>1, <3>3, <5>1 DEF Hunks!Max
        <5> QED BY <3>3, <5>1, <5>2
      <4>2. places \ {last} \in SUBSET (1 .. m) /\ m + 1 \notin places \ {last}
        BY <4>1
      <4>3. f[places \ {last}] = g[places \ {last}]
        BY <2>2, <3>2, <4>2
      <4>4. f[places] = Hunks!Splice(g[places \ {last}], d[last])
        BY <2>2, <3>3, <4>1
      <4> QED BY <3>1, <3>3, <4>3, <4>4
    <3>4. CASE m + 1 \notin places
      <4>1. places \in SUBSET (1 .. m) /\ places \ {last} \in SUBSET (1 .. m)
        <5>1. \A y \in places : y \in 1 .. m + 1 /\ y # m + 1
          BY <3>4
        <5>2. \A y \in places : y \in 1 .. m
          BY <5>1
        <5> QED BY <5>2
      <4>2. f[places] = g[places] /\ f[places \ {last}] = g[places \ {last}]
        BY <2>2, <3>2, <3>4
      <4>3. g[places] = IF places = {} THEN content
                  ELSE Hunks!Splice(g[places \ {last}], d[last])
        BY <2>1, <3>1, <4>1 DEF Splices
      <4> QED BY <3>1, <4>2, <4>3
    <3> QED BY <3>3, <3>4
  <2>4. f = [places \in SUBSET (1 .. m + 1) |-> f[places]]
    BY <2>2
  <2>5. Splices(d, 1 .. m + 1, f)
    BY <2>3, <2>4 DEF Splices
  <2>6. m + 1 \in Nat
    OBVIOUS
  <2> QED BY <1>1, <2>5, <2>6
<1>4. n \in right
  <2>1. \A m \in 0 .. n : m \in right
    BY <1>2, <1>3, Reached
  <2> QED BY <2>1
<1> QED BY <1>1, <1>4

\* The rewritten text is what splicing the hunks in one after the other makes.
LEMMA RewrittenStepwise ==
    ASSUME NEW n \in Nat, NEW d, d = Hunks!Sorted(DOMAIN hunksHunks, Hunks!Downwards),
           DOMAIN d = 1 .. n
    PROVE  \E G : /\ G[0] = content /\ G[n] = Hunks!Rewritten
                  /\ \A k \in 1 .. n : G[k] = Hunks!Splice(G[k - 1], d[k])
<1>1. PICK g : g = CHOOSE f : Splices(d, DOMAIN d, f)
  OBVIOUS
<1>2. Splices(d, 1 .. n, g)
  BY <1>1, SplicesExist
<1>3. Hunks!Rewritten = g[DOMAIN d]
  BY <1>1 DEF Hunks!Rewritten, Hunks!FoldLeft, Hunks!MapThenFoldSet, Splices
<1>4. PICK G : G = [k \in 0 .. n |-> g[1 .. k]]
  OBVIOUS
<1>5. G[0] = content
  <2>1. 1 .. 0 = {} /\ {} \in SUBSET (1 .. n)
    OBVIOUS
  <2>2. g[{}] = content
    BY <1>2, <2>1 DEF Splices
  <2> QED BY <1>4, <2>1, <2>2
<1>6. ASSUME NEW k \in 1 .. n PROVE G[k] = Hunks!Splice(G[k - 1], d[k])
  <2>1. 1 .. k \in SUBSET (1 .. n) /\ 1 .. k # {} /\ (1 .. k) \ {k} = 1 .. k - 1
    OBVIOUS
  <2>2. Hunks!Max(1 .. k) = k
    <3>1. PICK set : set = 1 .. k
      OBVIOUS
    <3>2. k \in set /\ \A y \in set : k >= y
      BY <3>1
    <3>3. Hunks!Max(set) \in set /\ \A y \in set : Hunks!Max(set) >= y
      BY <3>2 DEF Hunks!Max
    <3>4. Hunks!Max(set) >= k /\ k >= Hunks!Max(set)
      BY <3>2, <3>3
    <3>5. Hunks!Max(set) \in Nat
      BY <3>1, <3>3
    <3> QED BY <3>1, <3>4, <3>5
  <2>3. g[1 .. k] = Hunks!Splice(g[1 .. k - 1], d[k])
    BY <1>2, <2>1, <2>2 DEF Splices
  <2>4. k \in 0 .. n /\ k - 1 \in 0 .. n
    OBVIOUS
  <2> QED BY <1>4, <2>3, <2>4
<1>7. G[n] = Hunks!Rewritten
  <2>1. n \in 0 .. n
    OBVIOUS
  <2> QED BY <1>3, <1>4, <2>1
<1> WITNESS G
<1> QED BY <1>5, <1>6, <1>7


\* A text that begins with lines of c is cut within those lines.
CutOf(T, t, e, b, x) ==
    t \in Seq(T) /\ b \in 0 .. Len(t) /\ e \in 0 .. b /\ x = SubSeq(t, e + 1, b)
LEMMA Cut ==
    ASSUME NEW T, NEW t, NEW e \in Nat, NEW b \in Nat, NEW x, CutOf(T, t, e, b, x)
    PROVE  x \in Seq(T) /\ Len(x) = b - e /\ \A k \in 1 .. b - e : x[k] = t[e + k]
<1>1. t \in Seq(T) /\ b \in 0 .. Len(t) /\ e \in 0 .. b /\ x = SubSeq(t, e + 1, b)
  BY DEF CutOf
<1>2. PICK a \in Int : a = e + 1
  BY <1>1
<1>3. ASSUME NEW k \in a .. b PROVE t[k] \in T
  <2>1. k \in 1 .. Len(t)
    BY <1>1, <1>2
  <2> QED BY <1>1, <2>1, ElementOfSeq
<1>4. b \in Int /\ x = SubSeq(t, a, b)
  BY <1>1, <1>2
<1>5. /\ x \in Seq(T) /\ Len(x) = IF a <= b THEN b - a + 1 ELSE 0
      /\ \A k \in 1 .. b - a + 1 : x[k] = t[a + k - 1]
  BY <1>3, <1>4, SubSeqProperties
<1>6. b - a + 1 = b - e /\ (a <= b <=> b - e # 0) /\ \A k \in 1 .. b - e : a + k - 1 = e + k
  BY <1>1, <1>2
<1> QED BY <1>1, <1>5, <1>6

Begins(T, t, c, l, q) ==
    c \in Seq(T) /\ q \in Seq(T) /\ l \in 0 .. Len(c) /\ t = SubSeq(c, 1, l) \o q
CutsIn(t, c, l, q, s, e) ==
    /\ SubSeq(t, 1, s) = SubSeq(c, 1, s)
    /\ SubSeq(t, e + 1, Len(t)) = SubSeq(c, e + 1, l) \o q
LEMMA CutWithin ==
    ASSUME NEW T, NEW c \in Seq(T), NEW q \in Seq(T), NEW l \in 0 .. Len(c),
           NEW s \in 0 .. l, NEW e \in 0 .. l, NEW t, Begins(T, t, c, l, q)
    PROVE  CutsIn(t, c, l, q, s, e)
<1>1. PICK n \in Nat : n = Len(c)
  OBVIOUS
<1>2. PICK m \in Nat : m = Len(q)
  OBVIOUS
<1>3. l \in 0 .. n /\ s \in 0 .. l /\ e \in 0 .. l /\ l \in Nat /\ s \in Nat /\ e \in Nat
  BY <1>1
<1>4. PICK h : h = SubSeq(c, 1, l)
  OBVIOUS
<1>5. h \in Seq(T) /\ Len(h) = l /\ \A k \in 1 .. l : h[k] = c[k]
  <2>1. CutOf(T, c, 0, l, h)
    BY <1>1, <1>3, <1>4 DEF CutOf
  <2>2. h \in Seq(T) /\ Len(h) = l - 0 /\ \A k \in 1 .. l - 0 : h[k] = c[0 + k]
    BY <2>1, Cut
  <2> QED BY <1>3, <2>2
<1>6. PICK u \in Nat : u = l + m
  BY <1>3
<1>7. t \in Seq(T) /\ Len(t) = u
      /\ \A k \in 1 .. u : t[k] = IF k <= l THEN c[k] ELSE q[k - l]
  <2>1. t = h \o q
    BY <1>4 DEF Begins
  <2>2. h \o q \in Seq(T) /\ Len(h \o q) = l + m
        /\ \A k \in 1 .. l + m : (h \o q)[k] = IF k <= l THEN h[k] ELSE q[k - l]
    BY <1>2, <1>5, ConcatProperties
  <2>3. \A k \in 1 .. u : k <= l => k \in 1 .. l
    BY <1>3
  <2> QED BY <1>5, <1>6, <2>1, <2>2, <2>3
<1>8. SubSeq(t, 1, s) = SubSeq(c, 1, s)
  <2>1. PICK x, y : x = SubSeq(t, 1, s) /\ y = SubSeq(c, 1, s)
    OBVIOUS
  <2>2. CutOf(T, t, 0, s, x)
    BY <1>1, <1>3, <1>6, <1>7, <2>1 DEF CutOf
  <2>3. x \in Seq(T) /\ Len(x) = s - 0 /\ \A k \in 1 .. s - 0 : x[k] = t[0 + k]
    <3>1. s \in Nat /\ 0 \in Nat
      BY <1>3
    <3>2. t \in Seq(T)
      BY <1>7
    <3> QED BY <3>2, <2>2, <3>1, Cut
  <2>4. CutOf(T, c, 0, s, y)
    BY <1>1, <1>3, <1>6, <1>7, <2>1 DEF CutOf
  <2>5. y \in Seq(T) /\ Len(y) = s - 0 /\ \A k \in 1 .. s - 0 : y[k] = c[0 + k]
    BY <1>3, <2>4, Cut
  <2>6. Len(x) = s /\ Len(y) = s /\ \A k \in 1 .. s : x[k] = t[k] /\ y[k] = c[k]
    BY <1>3, <2>3, <2>5
  <2>7. \A k \in 1 .. s : x[k] = y[k]
    BY <1>3, <1>6, <1>7, <2>6
  <2> QED BY <2>1, <2>3, <2>6, <2>7, <2>5, SeqEqual
<1>9. SubSeq(t, e + 1, u) = SubSeq(c, e + 1, l) \o q
  <2>1. PICK x, y, z : x = SubSeq(t, e + 1, u) /\ y = SubSeq(c, e + 1, l) /\ z = y \o q
    OBVIOUS
  <2>2. CutOf(T, t, e, u, x)
    BY <1>1, <1>3, <1>6, <1>7, <2>1 DEF CutOf
  <2>3. x \in Seq(T) /\ Len(x) = u - e /\ \A k \in 1 .. u - e : x[k] = t[e + k]
    <3>1. u \in Nat /\ e \in Nat
      BY <1>3, <1>6
    <3>2. t \in Seq(T)
      BY <1>7
    <3> QED BY <3>2, <2>2, <3>1, Cut
  <2>4. CutOf(T, c, e, l, y)
    BY <1>1, <1>3, <1>6, <1>7, <2>1 DEF CutOf
  <2>5. y \in Seq(T) /\ Len(y) = l - e /\ \A k \in 1 .. l - e : y[k] = c[e + k]
    BY <1>3, <2>4, Cut
  <2>6. PICK r \in Nat : r = l - e /\ r + m = u - e
    BY <1>3, <1>6
  <2>7. /\ Len(x) = r + m /\ \A k \in 1 .. r + m : x[k] = t[e + k]
        /\ Len(y) = r /\ \A k \in 1 .. r : y[k] = c[e + k]
    BY <2>3, <2>5, <2>6
  <2>8. /\ z \in Seq(T) /\ Len(z) = r + m
        /\ \A k \in 1 .. r + m : z[k] = IF k <= r THEN y[k] ELSE q[k - r]
    <3>1. y \o q \in Seq(T) /\ Len(y \o q) = r + m
          /\ \A k \in 1 .. r + m : (y \o q)[k] = IF k <= r THEN y[k] ELSE q[k - r]
      BY <1>2, <2>5, <2>7, ConcatProperties
    <3> QED BY <2>1, <3>1
  <2>9. ASSUME NEW k \in 1 .. r + m PROVE x[k] = z[k]
    <3>1. PICK i \in 1 .. u : i = e + k
      BY <1>3, <1>6, <2>6
    <3>2. x[k] = IF i <= l THEN c[i] ELSE q[i - l]
      BY <1>7, <2>7, <3>1
    <3>3. CASE i <= l
      <4>1. k \in 1 .. r
        BY <1>3, <2>6, <3>1, <3>3
      <4> QED BY <2>7, <2>8, <3>1, <3>2, <3>3, <4>1
    <3>4. CASE ~(i <= l)
      <4>1. ~(k <= r) /\ k - r = i - l
        BY <1>3, <2>6, <3>1, <3>4
      <4> QED BY <2>8, <3>2, <3>4, <4>1
    <3> QED BY <3>3, <3>4
  <2>10. x = z
    BY <2>3, <2>7, <2>8, <2>9, SeqEqual
  <2> QED BY <2>1, <2>10
<1> QED BY <1>7, <1>8, <1>9 DEF CutsIn


\* What is left of a text when a match in it, its lines s + 1 .. e, becomes w; and
\* how a piece p[s + 1] opens with that w.
Replaced(g, s, e, w) == SubSeq(g, 1, s) \o w \o SubSeq(g, e + 1, Len(g))
Opens(p, w, c, e, s) == p[s + 1] = w \o LineAt(c, e, s)
OnlyLines(p, c, e, lo, hi) == \A i \in lo .. hi - 1 : p[i + 1] = LineAt(c, e, i)
\* From line f on, the text g and the joined pieces J end in the same lines q.
SameRest(J, g, c, f, q) == g = LinesTo(c, 0, f) \o q /\ J[Len(c) + 1] = J[f] \o q

LEMMA OneReplaced ==
    ASSUME NEW T, NEW c \in Seq(T), NEW p, NEW J, Joined(T, Len(c) + 1, p, J),
           NEW e \in 0 .. Len(c), NEW s \in 0 .. e, NEW f \in e .. Len(c) + 1, s < f,
           NEW w \in Seq(T), NEW q \in Seq(T), NEW g,
           Opens(p, w, c, e, s), OnlyLines(p, c, e, s + 1, f), SameRest(J, g, c, f, q)
    PROVE  \E r \in Seq(T) : SameRest(J, Replaced(g, s, e, w), c, s, r)
<1>1. PICK n \in Nat : n = Len(c)
  OBVIOUS
<1>2. /\ e \in Nat /\ s \in Nat /\ f \in Nat /\ e <= n /\ s <= e /\ e <= f /\ f <= n + 1
      /\ s + 1 \in 0 .. n + 1 /\ f \in s + 1 .. n + 1 /\ s \in 0 .. n /\ f \in 0 .. n + 1
  BY <1>1
<1>3. PICK l \in 0 .. n : l = (IF f < n THEN f ELSE n)
  BY <1>2
<1>4. s \in 0 .. l /\ e \in 0 .. l /\ l \in Nat
  BY <1>2, <1>3
<1>5. PICK m, a, x : m = LinesTo(c, e, f) /\ a = LinesTo(c, 0, s) /\ x = J[s] \o w
  OBVIOUS
<1>6. m = SubSeq(c, e + 1, l) /\ a = SubSeq(c, 1, s)
  <2>1. 0 + 1 = 1 /\ (IF s < n THEN s ELSE n) = s
    BY <1>2
  <2> QED BY <1>1, <1>3, <1>5, <2>1 DEF LinesTo
<1>7. m \in Seq(T) /\ a \in Seq(T)
  <2>1. \A k \in 1 .. n : c[k] \in T
    BY <1>1, ElementOfSeq
  <2>2. PICK b \in Nat : b = e + 1
    BY <1>2
  <2>3. \A k \in b .. l : c[k] \in T
    BY <1>2, <1>4, <2>1, <2>2
  <2>4. \A k \in 1 .. s : c[k] \in T
    BY <1>2, <2>1
  <2>5. SubSeq(c, b, l) \in Seq(T)
    BY <1>4, <2>2, <2>3, SubSeqProperties
  <2>6. SubSeq(c, 1, s) \in Seq(T)
    BY <1>2, <2>4, SubSeqProperties
  <2> QED BY <1>6, <2>2, <2>5, <2>6
<1>8. J[s] \in Seq(T) /\ x \in Seq(T)
  <2>1. J[s] \in Seq(T)
    <3>1. J \in [0 .. n + 1 -> Seq(T)] /\ s \in 0 .. n + 1
      BY <1>1, <1>2 DEF Joined
    <3> QED BY <3>1
  <2>2. J[s] \o w \in Seq(T)
    BY <2>1, ConcatProperties
  <2> QED BY <1>5, <2>1, <2>2
<1>9. GoesOn(J, x, c, e, s + 1)
  <2>1. PICK z : z = LineAt(c, e, s)
    OBVIOUS
  <2>2. z \in Seq(T) /\ LinesTo(c, e, s) \o z = LinesTo(c, e, s + 1)
    BY <1>1, <1>2, <2>1, LinesGrow
  <2>3. LinesTo(c, e, s) = <<>>
    <3>1. LinesTo(c, e, s) = SubSeq(c, e + 1, s)
      BY <1>1, <1>2 DEF LinesTo
    <3>2. e + 1 \in Int /\ s \in Int /\ s < e + 1
      BY <1>2
    <3> QED BY <3>1, <3>2, SubSeqEmpty
  <2>4. LinesTo(c, e, s + 1) = z
    <3>1. <<>> \o z = z
      BY <2>2, ConcatEmptySeq
    <3> QED BY <2>2, <2>3, <3>1
  <2>5. PICK k \in 1 .. n + 1 : k = s + 1 /\ k - 1 = s
    BY <1>2
  <2>6. J[k] = J[s] \o (w \o z)
    <3>1. J[k] = J[s] \o p[k]
      BY <1>1, <2>5 DEF Joined
    <3>2. p[k] = w \o z
      BY <2>1, <2>5 DEF Opens
    <3> QED BY <3>1, <3>2
  <2>7. (J[s] \o w) \o z = J[s] \o (w \o z)
    <3>1. Texts(T, J[s], w, z)
      BY <1>8, <2>2 DEF Texts
    <3>2. Regroups(J[s], w, z)
      BY <3>1, Regrouped
    <3> QED BY <3>2 DEF Regroups
  <2>8. J[k] = x \o LinesTo(c, e, k)
    BY <1>5, <2>4, <2>5, <2>6, <2>7
  <2>9. GoesOn(J, x, c, e, k)
    BY <2>8 DEF GoesOn
  <2> QED BY <2>5, <2>9
<1>10. J[f] = x \o m
  <2>1. \A i \in s + 1 .. f - 1 : p[i + 1] = LineAt(c, e, i)
    BY DEF OnlyLines
  <2>2. PICK lo \in 0 .. Len(c) + 1 : lo = s + 1
    BY <1>1, <1>2
  <2>3. f \in lo .. Len(c) + 1 /\ \A i \in lo .. f - 1 : p[i + 1] = LineAt(c, e, i)
    BY <1>1, <1>2, <2>1, <2>2
  <2>4. GoesOn(J, x, c, e, lo)
    BY <1>9, <2>2
  <2>5. GoesOn(J, x, c, e, f)
    BY <1>8, <2>3, <2>4, LinesJoined
  <2> QED BY <1>5, <2>5 DEF GoesOn
<1>11. PICK u, r : u = m \o q /\ r = w \o u
  OBVIOUS
<1>12. u \in Seq(T) /\ r \in Seq(T)
  <2>1. m \o q \in Seq(T)
    BY <1>7, ConcatProperties
  <2>2. w \o u \in Seq(T)
    BY <1>11, <2>1, ConcatProperties
  <2> QED BY <1>11, <2>1, <2>2
<1>13. J[Len(c) + 1] = J[s] \o r
  <2>1. J[Len(c) + 1] = (x \o m) \o q
    BY <1>10 DEF SameRest
  <2>2. (x \o m) \o q = x \o u
    <3>1. Texts(T, x, m, q)
      BY <1>7, <1>8 DEF Texts
    <3>2. Regroups(x, m, q)
      BY <3>1, Regrouped
    <3> QED BY <1>11, <3>2 DEF Regroups
  <2>3. (J[s] \o w) \o u = J[s] \o (w \o u)
    <3>1. Texts(T, J[s], w, u)
      BY <1>8, <1>12 DEF Texts
    <3>2. Regroups(J[s], w, u)
      BY <3>1, Regrouped
    <3> QED BY <3>2 DEF Regroups
  <2> QED BY <1>5, <1>11, <2>1, <2>2, <2>3
<1>14. Replaced(g, s, e, w) = a \o r
  <2>1. Begins(T, g, c, l, q)
    <3>1. LinesTo(c, 0, f) = SubSeq(c, 1, l)
      <4>1. 0 + 1 = 1
        OBVIOUS
      <4> QED BY <1>1, <1>3, <4>1 DEF LinesTo
    <3>2. g = SubSeq(c, 1, l) \o q /\ l \in 0 .. Len(c)
      BY <1>1, <3>1 DEF SameRest
    <3> QED BY <3>2 DEF Begins
  <2>2. /\ SubSeq(g, 1, s) = SubSeq(c, 1, s)
        /\ SubSeq(g, e + 1, Len(g)) = SubSeq(c, e + 1, l) \o q
    <3>1. PICK j \in 0 .. Len(c) : j = l
      BY <1>1
    <3>2. PICK a1 \in 0 .. j, a2 \in 0 .. j : a1 = s /\ a2 = e
      BY <1>4, <3>1
    <3>3. Begins(T, g, c, j, q)
      BY <2>1, <3>1
    <3>4. CutsIn(g, c, j, q, a1, a2)
      BY <3>3, CutWithin
    <3>5. CutsIn(g, c, l, q, s, e)
      BY <3>1, <3>2, <3>4
    <3> QED BY <3>5 DEF CutsIn
  <2>3. SubSeq(g, 1, s) = a /\ SubSeq(g, e + 1, Len(g)) = u
    BY <1>6, <1>11, <2>2
  <2>4. (a \o w) \o u = a \o (w \o u)
    <3>1. Texts(T, a, w, u)
      BY <1>7, <1>12 DEF Texts
    <3>2. Regroups(a, w, u)
      BY <3>1, Regrouped
    <3> QED BY <3>2 DEF Regroups
  <2>5. Replaced(g, s, e, w) = a \o w \o u
    BY <2>3 DEF Replaced
  <2> QED BY <1>11, <2>4, <2>5
<1>15. SameRest(J, Replaced(g, s, e, w), c, s, r)
  BY <1>5, <1>13, <1>14 DEF SameRest
<1> QED BY <1>12, <1>15

\* Matches s[k] .. e[k] that lie apart, from the last in the text to the first.
Apart(n, N, s, e) ==
    /\ s \in [1 .. n -> Nat] /\ e \in [1 .. n -> Nat]
    /\ \A k \in 1 .. n : s[k] <= e[k] /\ e[k] <= N
    /\ \A j, k \in 1 .. n : j < k => s[k] < s[j] /\ e[k] <= s[j]
\* Where the part of the text starts that the first k matches have seen.
From(N, s, k) == IF k = 0 THEN N + 1 ELSE s[k]

LEMMA NoneBefore ==
    ASSUME NEW n \in Nat, NEW N \in Nat, NEW s, NEW e, Apart(n, N, s, e),
           NEW k \in 0 .. n, NEW m \in 1 .. k
    PROVE  From(N, s, k) <= s[m]
<1>1. PICK r \in [1 .. n -> Nat] : r = s
  BY DEF Apart
<1>2. m \in 1 .. n /\ k \in 1 .. n /\ k # 0 /\ (m = k \/ m < k)
  OBVIOUS
<1>3. m < k => r[k] < r[m]
  BY <1>1, <1>2 DEF Apart
<1>4. r[k] <= r[m]
  BY <1>2, <1>3
<1> QED BY <1>1, <1>2, <1>4 DEF From

MatchAt(n, N, s, e, k, j, a, b, f) ==
    /\ k \in 1 .. n /\ j \in 0 .. n - 1 /\ k = j + 1
    /\ a \in Nat /\ b \in Nat /\ f \in Nat
    /\ a = s[k] /\ b = e[k] /\ f = From(N, s, j)
OneAround(n, N, s, e, k, a, b, f) ==
    /\ a <= b /\ b <= N /\ a < f /\ b <= f /\ f <= N + 1
    /\ \A i \in a .. f - 1, m \in 1 .. n : (s[m] <= i /\ i < e[m]) \/ s[m] = i => m = k
LEMMA ApartAround ==
    ASSUME NEW n \in Nat, NEW N \in Nat, NEW s, NEW e, Apart(n, N, s, e),
           NEW k, NEW j, NEW a, NEW b, NEW f, MatchAt(n, N, s, e, k, j, a, b, f)
    PROVE  OneAround(n, N, s, e, k, a, b, f)
<1>1. PICK r \in [1 .. n -> Nat], t \in [1 .. n -> Nat] : r = s /\ t = e
  BY DEF Apart
<1>2. \A m \in 1 .. n : r[m] <= t[m] /\ t[m] <= N
  BY <1>1 DEF Apart
<1>3. \A l, m \in 1 .. n : l < m => r[m] < r[l] /\ t[m] <= r[l]
  BY <1>1 DEF Apart
<1>4. /\ k \in 1 .. n /\ j \in 0 .. n - 1 /\ k = j + 1
      /\ a \in Nat /\ b \in Nat /\ f \in Nat
      /\ a = r[k] /\ b = t[k] /\ f = From(N, s, j)
  BY <1>1 DEF MatchAt
<1>5. a <= b /\ b <= N
  BY <1>2, <1>4
<1>6. a < f /\ b <= f /\ f <= N + 1
  <2>1. CASE j = 0
    <3>1. f = N + 1
      BY <1>4, <2>1 DEF From
    <3> QED BY <1>4, <1>5, <3>1
  <2>2. CASE j # 0
    <3>1. j \in 1 .. n /\ j < k /\ f = r[j]
      BY <1>1, <1>4, <2>2 DEF From
    <3>2. r[k] < r[j] /\ t[k] <= r[j] /\ r[j] <= t[j] /\ t[j] <= N /\ r[j] \in Nat /\ t[j] \in Nat
      BY <1>2, <1>3, <1>4, <3>1
    <3> QED BY <1>4, <3>1, <3>2
  <2> QED BY <2>1, <2>2
<1>7. ASSUME NEW i \in a .. f - 1, NEW m \in 1 .. n, (r[m] <= i /\ i < t[m]) \/ r[m] = i
      PROVE  m = k
  <2>1. PICK x \in Nat, y \in Nat : x = r[m] /\ y = t[m]
    OBVIOUS
  <2>2. CASE m < k
    <3>1. m \in 1 .. j /\ j \in 0 .. n
      BY <1>4, <2>2
    <3>2. f <= x
      BY <1>1, <1>4, <2>1, <3>1, NoneBefore
    <3> QED BY <1>4, <1>7, <2>1, <3>2
  <2>3. CASE k < m
    <3>1. x < a /\ y <= a
      BY <1>3, <1>4, <2>1, <2>3
    <3> QED BY <1>4, <1>7, <2>1, <3>1
  <2> QED BY <1>4, <2>2, <2>3
<1> QED BY <1>1, <1>5, <1>6, <1>7 DEF OneAround

\* When every piece is what the match there inserts and the line that stays,
\* replacing the matches one after the other makes the pieces joined.
Stays(c, n, s, e, i) ==
    IF i = Len(c) \/ \E k \in 1 .. n : s[k] <= i /\ i < e[k] THEN <<>> ELSE <<c[i + 1]>>
PieceByPiece(p, c, n, s, e, w) ==
    /\ \A k \in 1 .. n : p[s[k] + 1] = w[k] \o Stays(c, n, s, e, s[k])
    /\ \A i \in 0 .. Len(c) :
          (\A k \in 1 .. n : s[k] # i) => p[i + 1] = Stays(c, n, s, e, i)
OneByOne(G, n, s, e, w) == \A k \in 1 .. n : G[k] = Replaced(G[k - 1], s[k], e[k], w[k])

LEMMA NextReplaced ==
    ASSUME NEW T, NEW c \in Seq(T), NEW n \in Nat, NEW s, NEW e, Apart(n, Len(c), s, e),
           NEW p, NEW J, Joined(T, Len(c) + 1, p, J),
           NEW k \in 1 .. n, NEW j \in 0 .. n - 1, k = j + 1,
           NEW w, w[k] \in Seq(T), PieceByPiece(p, c, n, s, e, w),
           NEW q \in Seq(T), NEW g, SameRest(J, g, c, From(Len(c), s, j), q)
    PROVE  \E r \in Seq(T) : SameRest(J, Replaced(g, s[k], e[k], w[k]), c, s[k], r)
<1>1. PICK N \in Nat : N = Len(c)
  OBVIOUS
<1>2. PICK a \in Nat, b \in Nat, f \in Nat : a = s[k] /\ b = e[k] /\ f = From(N, s, j)
  <2>1. s[k] \in Nat /\ e[k] \in Nat
    BY DEF Apart
  <2>2. j # 0 => s[j] \in Nat
    BY DEF Apart
  <2>3. From(N, s, j) \in Nat
    BY <2>2 DEF From
  <2> QED BY <2>1, <2>3
<1>3. Apart(n, N, s, e)
  BY <1>1
<1>4. /\ a <= b /\ b <= N /\ a < f /\ b <= f /\ f <= N + 1
      /\ \A i \in a .. f - 1, m \in 1 .. n : (s[m] <= i /\ i < e[m]) \/ s[m] = i => m = k
  <2>1. MatchAt(n, N, s, e, k, j, a, b, f)
    BY <1>2 DEF MatchAt
  <2>2. OneAround(n, N, s, e, k, a, b, f)
    BY <1>3, <2>1, ApartAround
  <2> QED BY <2>2 DEF OneAround
<1>5. ASSUME NEW i \in a .. f - 1 PROVE Stays(c, n, s, e, i) = LineAt(c, b, i)
  <2>1. (\E m \in 1 .. n : s[m] <= i /\ i < e[m]) <=> i < b
    <3>1. ASSUME NEW m \in 1 .. n, s[m] <= i, i < e[m] PROVE i < b
      <4>1. m = k
        BY <1>4, <3>1
      <4> QED BY <1>2, <3>1, <4>1
    <3>2. a <= i
      OBVIOUS
    <3>3. i < b => s[k] <= i /\ i < e[k]
      BY <1>2, <3>2
    <3> QED BY <3>1, <3>3
  <2> QED BY <2>1 DEF Stays, LineAt
<1>6. Opens(p, w[k], c, b, a)
  <2>1. p[s[k] + 1] = w[k] \o Stays(c, n, s, e, s[k])
    BY DEF PieceByPiece
  <2>2. a \in a .. f - 1
    BY <1>4
  <2>3. Stays(c, n, s, e, a) = LineAt(c, b, a)
    BY <1>5, <2>2
  <2> QED BY <1>2, <2>1, <2>3 DEF Opens
<1>7. OnlyLines(p, c, b, a + 1, f)
  <2>1. ASSUME NEW i \in a + 1 .. f - 1 PROVE p[i + 1] = LineAt(c, b, i)
    <3>1. i \in a .. f - 1 /\ i \in 0 .. N /\ i # a
      BY <1>4
    <3>2. \A m \in 1 .. n : s[m] # i
      BY <1>2, <1>4, <3>1
    <3>3. p[i + 1] = Stays(c, n, s, e, i)
      BY <1>1, <3>1, <3>2 DEF PieceByPiece
    <3>4. Stays(c, n, s, e, i) = LineAt(c, b, i)
      BY <1>5, <3>1
    <3> QED BY <3>3, <3>4
  <2> QED BY <2>1 DEF OnlyLines
<1>8. PICK v \in Seq(T) : v = w[k]
  OBVIOUS
<1>9. PICK y \in 0 .. Len(c) : y = b
  BY <1>1, <1>4
<1>10. PICK x \in 0 .. y, h \in y .. Len(c) + 1 : x = a /\ h = f
  BY <1>1, <1>4, <1>9
<1>11. /\ x < h /\ Opens(p, v, c, y, x) /\ OnlyLines(p, c, y, x + 1, h)
       /\ SameRest(J, g, c, h, q)
  BY <1>1, <1>2, <1>4, <1>6, <1>7, <1>8, <1>9, <1>10
<1>12. \E r \in Seq(T) : SameRest(J, Replaced(g, x, y, v), c, x, r)
  BY <1>11, OneReplaced
<1> QED BY <1>2, <1>8, <1>9, <1>10, <1>12

LEMMA AllReplaced ==
    ASSUME NEW T, NEW c \in Seq(T), NEW n \in Nat, NEW s, NEW e, Apart(n, Len(c), s, e),
           NEW w \in [1 .. n -> Seq(T)],
           NEW p, NEW J, Joined(T, Len(c) + 1, p, J), J[0] = <<>>,
           PieceByPiece(p, c, n, s, e, w),
           NEW G, G[0] = c, OneByOne(G, n, s, e, w)
    PROVE  G[n] = J[Len(c) + 1]
<1>1. PICK N \in Nat : N = Len(c)
  OBVIOUS
<1>2. Apart(n, N, s, e)
  BY <1>1
<1>3. PICK right : right = {k \in Nat : \E q \in Seq(T) : SameRest(J, G[k], c, From(N, s, k), q)}
  OBVIOUS
<1>4. <<>> \in Seq(T)
  BY EmptySeq
<1>5. 0 \in right
  <2>1. From(N, s, 0) = N + 1
    BY DEF From
  <2>2. c \o <<>> = c /\ J[N + 1] \o <<>> = J[N + 1]
    <3>1. J[N + 1] \in Seq(T)
      <4>1. N + 1 \in 0 .. N + 1
        OBVIOUS
      <4> QED BY <1>1, <4>1 DEF Joined
    <3> QED BY <3>1, ConcatEmptySeq
  <2>3. LinesTo(c, 0, N + 1) = c
    <3>1. LinesTo(c, 0, N + 1) = SubSeq(c, 1, N)
      <4>1. ~(N + 1 < N) /\ 0 + 1 = 1
        OBVIOUS
      <4> QED BY <1>1, <4>1 DEF LinesTo
    <3> QED BY <1>1, <3>1, SubSeqFull
  <2>4. SameRest(J, G[0], c, From(N, s, 0), <<>>)
    BY <1>1, <2>1, <2>2, <2>3 DEF SameRest
  <2> QED BY <1>3, <1>4, <2>4
<1>6. ASSUME NEW j \in 0 .. n - 1, j \in right PROVE j + 1 \in right
  <2>1. PICK k \in 1 .. n : k = j + 1 /\ k - 1 = j /\ k # 0
    OBVIOUS
  <2>2. PICK g : g = G[j]
    OBVIOUS
  <2>3. PICK q \in Seq(T) : SameRest(J, g, c, From(Len(c), s, j), q)
    BY <1>1, <1>3, <1>6, <2>2
  <2>4. w[k] \in Seq(T)
    OBVIOUS
  <2>5. \E r \in Seq(T) : SameRest(J, Replaced(g, s[k], e[k], w[k]), c, s[k], r)
    BY <2>1, <2>3, <2>4, NextReplaced
  <2>6. G[k] = Replaced(g, s[k], e[k], w[k])
    BY <2>1, <2>2 DEF OneByOne
  <2>7. From(N, s, k) = s[k]
    BY <2>1 DEF From
  <2> QED BY <1>3, <2>1, <2>5, <2>6, <2>7
<1>7. n \in right
  <2>1. 0 \in Nat /\ n \in 0 .. n
    OBVIOUS
  <2>2. \A k \in 0 .. n : k \in right
    BY <1>5, <1>6, <2>1, Reached
  <2> QED BY <2>1, <2>2
<1>8. PICK f : f = From(N, s, n)
  OBVIOUS
<1>9. PICK q \in Seq(T) : SameRest(J, G[n], c, f, q)
  BY <1>3, <1>7, <1>8
<1>10. f \in 0 .. N + 1
  <2>1. CASE n = 0
    BY <1>8, <2>1 DEF From
  <2>2. CASE n # 0
    <3>1. n \in 1 .. n
      BY <2>2
    <3>2. s[n] \in Nat /\ e[n] \in Nat /\ s[n] <= e[n] /\ e[n] <= N
      BY <1>2, <3>1 DEF Apart
    <3>3. f = s[n]
      BY <1>8, <2>2 DEF From
    <3> QED BY <3>2, <3>3
  <2> QED BY <2>1, <2>2
<1>11. PICK hi \in 0 .. Len(c) + 1 : hi = f
  BY <1>1, <1>10
<1>12. ASSUME NEW i \in 0 .. hi - 1 PROVE p[i + 1] = LineAt(c, 0, i)
  <2>1. ASSUME NEW m \in 1 .. n PROVE s[m] # i /\ ~(s[m] <= i)
    <3>1. PICK v \in Nat : v = s[m]
      BY <1>2 DEF Apart
    <3>2. hi <= v
      <4>1. n \in 0 .. n
        OBVIOUS
      <4> QED BY <1>2, <1>11, <1>8, <3>1, <4>1, NoneBefore
    <3> QED BY <3>1, <3>2
  <2>2. i \in 0 .. Len(c) /\ ~(i < 0)
    BY <1>1
  <2>3. Stays(c, n, s, e, i) = LineAt(c, 0, i)
    BY <2>1, <2>2 DEF Stays, LineAt
  <2> QED BY <2>1, <2>2, <2>3 DEF PieceByPiece
<1>13. GoesOn(J, <<>>, c, 0, 0)
  <2>1. LinesTo(c, 0, 0) = <<>>
    <3>1. LinesTo(c, 0, 0) = SubSeq(c, 1, 0)
      <4>1. (IF 0 < N THEN 0 ELSE N) = 0 /\ 0 + 1 = 1
        OBVIOUS
      <4> QED BY <1>1, <4>1 DEF LinesTo
    <3>2. 1 \in Int /\ 0 \in Int /\ 0 < 1
      OBVIOUS
    <3> QED BY <3>1, <3>2, SubSeqEmpty
  <2>2. <<>> \o <<>> = <<>>
    BY <1>4, ConcatEmptySeq
  <2> QED BY <2>1, <2>2 DEF GoesOn
<1>14. J[f] = LinesTo(c, 0, f)
  <2>1. PICK none \in 0 .. Len(c), lo \in 0 .. Len(c) + 1 : none = 0 /\ lo = 0
    BY <1>1
  <2>2. PICK x \in Seq(T) : x = <<>>
    BY <1>4
  <2>3. PICK y : y = LinesTo(c, none, hi)
    OBVIOUS
  <2>4. hi \in lo .. Len(c) + 1 /\ \A i \in lo .. hi - 1 : p[i + 1] = LineAt(c, none, i)
    BY <1>1, <1>12, <2>1
  <2>5. GoesOn(J, x, c, none, lo)
    BY <1>13, <2>1, <2>2
  <2>6. GoesOn(J, x, c, none, hi)
    <3>1. Joined(T, Len(c) + 1, p, J)
      OBVIOUS
    <3> QED BY ONLY <2>4, <2>5, <3>1, LinesJoined
  <2>7. y \in Seq(T)
    <3>1. PICK l \in 0 .. N : y = SubSeq(c, 1, l)
      <4>1. 0 + 1 = 1 /\ (IF hi < N THEN hi ELSE N) \in 0 .. N
        BY <1>1
      <4> QED BY <1>1, <2>1, <2>3, <4>1 DEF LinesTo
    <3>2. \A k \in 1 .. l : c[k] \in T
      <4>1. \A k \in 1 .. l : k \in 1 .. Len(c)
        BY <1>1
      <4> QED BY <4>1, ElementOfSeq
    <3> QED BY <3>1, <3>2, SubSeqProperties
  <2>8. x \o y = y
    BY <2>2, <2>7, ConcatEmptySeq
  <2> QED BY <1>11, <2>1, <2>2, <2>3, <2>6, <2>8 DEF GoesOn
<1> QED BY <1>9, <1>14 DEF SameRest

\* The hunks as they are in the model.
HunksTyped ==
    content \in Seq(Lines) /\ hunksHunks \in Seq(Seq(Hunks!Markers \X Lines))
HunksPlaced == HunksTyped /\ Hunks!Misplaced = {}
HunksDistinct ==
    \A g, h \in DOMAIN hunksHunks : Hunks!Start(g) = Hunks!Start(h) => g = h

LEMMA NumericOrders ==
    ASSUME NEW S \in SUBSET Nat
    PROVE  Orders(Hunks!Numeric(S), S)
<1>1. PICK order : order = Hunks!Numeric(S)
  OBVIOUS
<1>2. \A g, h \in S : <<g, h>> \in order <=> g <= h
  BY <1>1 DEF Hunks!Numeric
<1>3. \A g, h \in S : g \in Nat /\ h \in Nat
  OBVIOUS
<1>4. \A g, h \in S : <<g, h>> \in order \/ <<h, g>> \in order
  <2>1. \A g, h \in S : g <= h \/ h <= g
    BY <1>3
  <2> QED BY <1>2, <2>1
<1>5. \A g, h \in S : <<g, h>> \in order /\ <<h, g>> \in order => g = h
  BY <1>2, <1>3
<1>6. \A f, g, h \in S : <<f, g>> \in order /\ <<g, h>> \in order => <<f, h>> \in order
  BY <1>2, <1>3
<1> QED BY <1>1, <1>4, <1>5, <1>6 DEF Orders

LEMMA SideTyped ==
    ASSUME NEW hunk \in Seq(Hunks!Markers \X Lines), NEW markers
    PROVE  Hunks!Side(hunk, markers) \in Seq(Lines)
<1>1. PICK n \in Nat : n = Len(hunk) /\ DOMAIN hunk = 1 .. n
  OBVIOUS
<1>2. PICK set, d : /\ set = {k \in DOMAIN hunk : hunk[k][1] \in markers}
                    /\ d = Hunks!Sorted(set, Hunks!Numeric(set))
  OBVIOUS
<1>3. set \in SUBSET (1 .. n) /\ set \in SUBSET Nat
  BY <1>1, <1>2
<1>4. IsFiniteSet(set)
  <2>1. IsFiniteSet(1 .. n)
    BY FS_Interval
  <2> QED BY <1>3, <2>1, FS_Subset
<1>5. PICK m \in Nat : m = Cardinality(set)
  BY <1>4, FS_CardinalityType
<1>6. d \in [1 .. m -> set]
  <2>1. Orders(Hunks!Numeric(set), set)
    BY <1>3, NumericOrders
  <2> QED BY <1>2, <1>4, <1>5, <2>1, RankedInOrder
<1>7. DOMAIN d = 1 .. m /\ \A k \in 1 .. m : d[k] \in 1 .. n
  BY <1>3, <1>6
<1>8. \A k \in 1 .. n : hunk[k][2] \in Lines
  <2> SUFFICES ASSUME NEW k \in 1 .. n PROVE hunk[k][2] \in Lines
    OBVIOUS
  <2>1. hunk[k] \in Hunks!Markers \X Lines
    BY <1>1, ElementOfSeq
  <2> QED BY <2>1
<1>9. PICK t : t = [k \in 1 .. m |-> hunk[d[k]][2]]
  OBVIOUS
<1>10. t \in [1 .. m -> Lines]
  BY <1>7, <1>8, <1>9
<1>11. t \in Seq(Lines)
  BY <1>10
<1>12. Hunks!Side(hunk, markers) = t
  BY <1>2, <1>7, <1>9 DEF Hunks!Side
<1> QED BY <1>11, <1>12

LEMMA HunkTyped ==
    ASSUME HunksTyped, NEW h \in DOMAIN hunksHunks
    PROVE  Hunks!Old(hunksHunks[h]) \in Seq(Lines) /\ Hunks!New(hunksHunks[h]) \in Seq(Lines)
<1>1. PICK hunk : hunk = hunksHunks[h]
  OBVIOUS
<1>2. hunk \in Seq(Hunks!Markers \X Lines)
  <2>1. DOMAIN hunksHunks = 1 .. Len(hunksHunks)
    BY DEF HunksTyped
  <2> QED BY <1>1, <2>1, ElementOfSeq DEF HunksTyped
<1>3. Hunks!Side(hunk, {" ", "-"}) \in Seq(Lines) /\ Hunks!Side(hunk, {" ", "+"}) \in Seq(Lines)
  BY <1>2, SideTyped
<1> QED BY <1>1, <1>3 DEF Hunks!Old, Hunks!New

\* A hunk that has its one place lies within the file.
LEMMA HunkPlaced ==
    ASSUME HunksPlaced, NEW h \in DOMAIN hunksHunks
    PROVE  /\ Hunks!Start(h) \in Nat /\ Hunks!End(h) \in Nat
           /\ Hunks!Start(h) <= Hunks!End(h) /\ Hunks!End(h) <= Len(content)
<1>1. PICK old, places : /\ old = Hunks!Old(hunksHunks[h])
                         /\ places = Hunks!Places(content, hunksHunks[h])
  OBVIOUS
<1>2. PICK n \in Nat, m \in Nat : n = Len(content) /\ m = Len(old) /\ (old = <<>> => m = 0)
  <2>1. old \in Seq(Lines) /\ content \in Seq(Lines)
    BY <1>1, HunkTyped DEF HunksPlaced, HunksTyped
  <2>2. old = <<>> => Len(old) = 0
    BY EmptySeq
  <2>3. Len(old) \in Nat /\ Len(content) \in Nat
    BY <2>1, LenProperties
  <2> QED BY <2>2, <2>3
<1>3. places # {}
  <2>1. Cardinality(places) = 1
    <3>1. Hunks!Cardinality(places) = 1
      BY <1>1 DEF HunksPlaced, Hunks!Misplaced
    <3> QED BY <3>1, HunksCardinality
  <2>2. Cardinality({}) = 0
    BY FS_EmptySet
  <2> QED BY <2>1, <2>2
<1>4. PICK s : s = Hunks!Start(h)
  OBVIOUS
<1>5. s \in places
  BY <1>1, <1>3, <1>4 DEF Hunks!Start
<1>6. s \in Nat /\ s + m <= n
  <2>1. CASE old = <<>>
    <3>1. places = {0}
      BY <1>1, <2>1 DEF Hunks!Places
    <3> QED BY <1>2, <1>5, <2>1, <3>1
  <2>2. CASE old # <<>>
    <3>1. s \in 0 .. Len(content) /\ s + Len(old) <= Len(content)
      BY <1>1, <1>5, <2>2 DEF Hunks!Places
    <3> QED BY <1>2, <3>1
  <2> QED BY <2>1, <2>2
<1>7. Hunks!End(h) = s + m
  BY <1>1, <1>2, <1>4 DEF Hunks!End
<1> QED BY <1>2, <1>4, <1>6, <1>7

LEMMA HunksFinite ==
    ASSUME HunksTyped
    PROVE  IsFiniteSet(DOMAIN hunksHunks) /\ DOMAIN hunksHunks \in SUBSET Nat
<1>1. PICK n \in Nat : n = Len(hunksHunks) /\ DOMAIN hunksHunks = 1 .. n
  BY DEF HunksTyped
<1>2. IsFiniteSet(1 .. n)
  BY FS_Interval
<1> QED BY <1>1, <1>2

\* Both orders of the hunks are orders.
LEMMA PlaceOrders ==
    ASSUME HunksPlaced
    PROVE  Orders(Hunks!Upwards, DOMAIN hunksHunks) /\ Orders(Hunks!Downwards, DOMAIN hunksHunks)
<1>1. PICK set, s : set = DOMAIN hunksHunks /\ s = [h \in set |-> Hunks!Start(h)]
  OBVIOUS
<1>2. s \in [set -> Nat] /\ set \in SUBSET Nat
  BY <1>1, HunkPlaced, HunksFinite DEF HunksPlaced
<1>3. PICK up, down : up = Hunks!Upwards /\ down = Hunks!Downwards
  OBVIOUS
<1>4. \A g, h \in set : /\ s[g] \in Nat /\ s[h] \in Nat /\ g \in Nat /\ h \in Nat
                        /\ <<g, h>> \in up <=> s[g] < s[h] \/ (s[g] = s[h] /\ g <= h)
                        /\ <<g, h>> \in down <=> s[g] > s[h] \/ (s[g] = s[h] /\ g <= h)
  <2> SUFFICES ASSUME NEW g \in set, NEW h \in set
               PROVE  /\ s[g] \in Nat /\ s[h] \in Nat /\ g \in Nat /\ h \in Nat
                      /\ <<g, h>> \in up <=> s[g] < s[h] \/ (s[g] = s[h] /\ g <= h)
                      /\ <<g, h>> \in down <=> s[g] > s[h] \/ (s[g] = s[h] /\ g <= h)
    OBVIOUS
  <2>1. s[g] = Hunks!Start(g) /\ s[h] = Hunks!Start(h) /\ <<g, h>> \in Hunks!Pairs
    BY <1>1 DEF Hunks!Pairs
  <2>2. <<g, h>> \in up <=> s[g] < s[h] \/ (s[g] = s[h] /\ g <= h)
    BY <1>3, <2>1 DEF Hunks!Upwards, Hunks!Stable
  <2>3. <<g, h>> \in down <=> s[g] > s[h] \/ (s[g] = s[h] /\ g <= h)
    BY <1>3, <2>1 DEF Hunks!Downwards, Hunks!Stable
  <2> QED BY <1>2, <2>2, <2>3
<1>5. Orders(up, set)
  <2>1. \A g, h \in set : <<g, h>> \in up \/ <<h, g>> \in up
    <3>1. \A g, h \in set : (s[g] < s[h] \/ (s[g] = s[h] /\ g <= h))
                            \/ (s[h] < s[g] \/ (s[h] = s[g] /\ h <= g))
      <4> SUFFICES ASSUME NEW g \in set, NEW h \in set
                   PROVE  (s[g] < s[h] \/ (s[g] = s[h] /\ g <= h))
                          \/ (s[h] < s[g] \/ (s[h] = s[g] /\ h <= g))
        OBVIOUS
      <4>1. PICK x \in Nat, y \in Nat : x = s[g] /\ y = s[h]
        BY <1>2
      <4>2. g \in Nat /\ h \in Nat
        BY <1>2
      <4> QED BY <4>1, <4>2
    <3> QED BY <1>4, <3>1
  <2>2. \A g, h \in set : <<g, h>> \in up /\ <<h, g>> \in up => g = h
    BY <1>4
  <2>3. \A f, g, h \in set : <<f, g>> \in up /\ <<g, h>> \in up => <<f, h>> \in up
    BY <1>4
  <2> QED BY <2>1, <2>2, <2>3 DEF Orders
<1>6. Orders(down, set)
  <2>1. \A g, h \in set : <<g, h>> \in down \/ <<h, g>> \in down
    <3>1. \A g, h \in set : (s[g] > s[h] \/ (s[g] = s[h] /\ g <= h))
                            \/ (s[h] > s[g] \/ (s[h] = s[g] /\ h <= g))
      <4> SUFFICES ASSUME NEW g \in set, NEW h \in set
                   PROVE  (s[g] > s[h] \/ (s[g] = s[h] /\ g <= h))
                          \/ (s[h] > s[g] \/ (s[h] = s[g] /\ h <= g))
        OBVIOUS
      <4>1. PICK x \in Nat, y \in Nat : x = s[g] /\ y = s[h]
        BY <1>2
      <4>2. g \in Nat /\ h \in Nat
        BY <1>2
      <4> QED BY <4>1, <4>2
    <3> QED BY <1>4, <3>1
  <2>2. \A g, h \in set : <<g, h>> \in down /\ <<h, g>> \in down => g = h
    BY <1>4
  <2>3. \A f, g, h \in set : <<f, g>> \in down /\ <<g, h>> \in down => <<f, h>> \in down
    BY <1>4
  <2> QED BY <2>1, <2>2, <2>3 DEF Orders
<1> QED BY <1>1, <1>3, <1>5, <1>6

\* Matches that do not overlap next to each other do not overlap at all.
LEMMA HunksApart ==
    ASSUME HunksPlaced, ~Hunks!Overlapping, NEW g \in DOMAIN hunksHunks,
           NEW h \in DOMAIN hunksHunks, Hunks!Start(g) < Hunks!Start(h)
    PROVE  Hunks!End(g) <= Hunks!Start(h)
<1>1. PICK set, u : set = DOMAIN hunksHunks /\ u = Hunks!Sorted(set, Hunks!Upwards)
  OBVIOUS
<1>2. PICK n \in Nat : n = Cardinality(set)
  BY <1>1, HunksFinite, FS_CardinalityType DEF HunksPlaced
<1>3. /\ u \in [1 .. n -> set] /\ \A f \in set : \E k \in 1 .. n : u[k] = f
      /\ \A i, j \in 1 .. n : i < j => <<u[i], u[j]>> \in Hunks!Upwards
  <2>1. IsFiniteSet(set) /\ Orders(Hunks!Upwards, set)
    BY <1>1, HunksFinite, PlaceOrders DEF HunksPlaced
  <2> QED BY <1>1, <1>2, <2>1, RankedInOrder
<1>4. PICK s, e : s = [k \in 1 .. n |-> Hunks!Start(u[k])] /\ e = [k \in 1 .. n |-> Hunks!End(u[k])]
  OBVIOUS
<1>5. \A k \in 1 .. n : s[k] = Hunks!Start(u[k]) /\ e[k] = Hunks!End(u[k])
  BY <1>4
<1>6. s \in [1 .. n -> Nat] /\ e \in [1 .. n -> Nat]
  <2>1. \A k \in 1 .. n : Hunks!Start(u[k]) \in Nat /\ Hunks!End(u[k]) \in Nat
    BY <1>1, <1>3, HunkPlaced
  <2> QED BY <1>4, <2>1
<1>7. \A i, j \in 1 .. n : i < j => s[i] <= s[j]
  <2> SUFFICES ASSUME NEW i \in 1 .. n, NEW j \in 1 .. n, i < j PROVE s[i] <= s[j]
    OBVIOUS
  <2>1. <<u[i], u[j]>> \in Hunks!Upwards
    BY <1>3
  <2>2. Hunks!Start(u[i]) = Hunks!Start(u[j]) \/ Hunks!Start(u[i]) < Hunks!Start(u[j])
    BY <2>1 DEF Hunks!Upwards, Hunks!Stable
  <2>3. s[i] \in Nat /\ s[j] \in Nat
    BY <1>6
  <2> QED BY <1>5, <2>2, <2>3
<1>8. \A k \in 1 .. n - 1 : ~(e[k] > s[k + 1])
  <2>1. Len(u) = n
    BY <1>3
  <2>2. \A k \in 1 .. Len(u) - 1 : ~(Hunks!End(u[k]) > Hunks!Start(u[k + 1]))
    BY <1>1 DEF Hunks!Overlapping
  <2>3. \A k \in 1 .. n - 1 : k \in 1 .. n /\ k + 1 \in 1 .. n
    OBVIOUS
  <2> QED BY <1>5, <2>1, <2>2, <2>3
<1>9. PICK i, j \in 1 .. n : u[i] = g /\ u[j] = h
  BY <1>1, <1>3
<1>10. s[i] = Hunks!Start(g) /\ e[i] = Hunks!End(g) /\ s[j] = Hunks!Start(h)
  BY <1>5, <1>9
<1>11. i < j
  <2>1. s[i] < s[j]
    BY <1>10
  <2>2. s[i] \in Nat /\ s[j] \in Nat
    BY <1>6
  <2>3. j < i => s[j] <= s[i]
    BY <1>7
  <2> QED BY <2>1, <2>2, <2>3
<1>12. PICK k \in 1 .. n : k = i + 1
  BY <1>11
<1>13. e[i] <= s[k]
  <2>1. i \in 1 .. n - 1
    BY <1>11
  <2>2. ~(e[i] > s[i + 1])
    BY <1>8, <2>1
  <2>3. e[i] \in Nat /\ s[k] \in Nat
    BY <1>6
  <2> QED BY <1>12, <2>2, <2>3
<1>14. s[k] <= s[j]
  <2>1. s[k] \in Nat
    BY <1>6
  <2>2. k = j \/ k < j
    BY <1>11, <1>12
  <2> QED BY <1>7, <2>1, <2>2
<1>15. e[i] \in Nat /\ s[k] \in Nat /\ s[j] \in Nat
  BY <1>6
<1>16. e[i] <= s[j]
  BY <1>13, <1>14, <1>15
<1> QED BY <1>10, <1>16

\* What is inserted before a line: what the hunk there leaves, or nothing.
LEMMA NothingJoined ==
    ASSUME NEW p, p = [i \in 1 .. 0 |-> p[i]]
    PROVE  Hunks!FlattenSeq(p) = <<>>
<1>1. p = <<>> /\ p \in Seq(Seq(Lines)) /\ Len(p) = 0
  OBVIOUS
<1>2. PICK q \in Seq(Seq(Lines)) : q = p
  BY <1>1
<1>3. PICK J : J[0] = <<>> /\ J[Len(q)] = Hunks!FlattenSeq(q)
  BY Flattened
<1> QED BY <1>1, <1>2, <1>3

LEMMA OneJoined ==
    ASSUME NEW t \in Seq(Lines), NEW p, p = [i \in 1 .. 1 |-> t]
    PROVE  Hunks!FlattenSeq(p) = t
<1>1. p \in Seq(Seq(Lines)) /\ Len(p) = 1 /\ p[1] = t
  OBVIOUS
<1>2. PICK q \in Seq(Seq(Lines)) : q = p
  BY <1>1
<1>3. PICK J \in [0 .. Len(q) -> Seq(Lines)] :
               /\ J[0] = <<>> /\ J[Len(q)] = Hunks!FlattenSeq(q)
               /\ \A i \in 1 .. Len(q) : J[i] = J[i - 1] \o q[i]
  BY Flattened
<1>4. 1 \in 1 .. Len(q) /\ 1 - 1 = 0
  BY <1>1, <1>2
<1>5. J[1] = J[0] \o p[1]
  BY <1>3, <1>4, <1>2
<1>6. <<>> \o t = t
  BY ConcatEmptySeq
<1> QED BY <1>1, <1>3, <1>5, <1>6, <1>2

LEMMA NothingInserted ==
    ASSUME NEW k, \A h \in DOMAIN hunksHunks : Hunks!Start(h) # k
    PROVE  Hunks!Inserted(k) = <<>>
<1>1. PICK here, at : /\ here = {h \in DOMAIN hunksHunks : Hunks!Start(h) = k}
                      /\ at = Hunks!Sorted(here, Hunks!Numeric(here))
  OBVIOUS
<1>2. Hunks!Cardinality(here) = 0
  <2>1. here = {}
    BY <1>1
  <2> QED BY <2>1, FS_EmptySet, HunksCardinality
<1>3. PICK p : p = [i \in 1 .. Hunks!Cardinality(here) |-> Hunks!New(hunksHunks[at[i]])]
  OBVIOUS
<1>4. Hunks!Inserted(k) = Hunks!FlattenSeq(p)
  BY <1>1, <1>3 DEF Hunks!Inserted
<1>5. p = [i \in 1 .. 0 |-> p[i]]
  BY <1>2, <1>3
<1> QED BY <1>4, <1>5, NothingJoined

LEMMA OneInserted ==
    ASSUME HunksTyped, HunksDistinct, NEW h \in DOMAIN hunksHunks
    PROVE  Hunks!Inserted(Hunks!Start(h)) = Hunks!New(hunksHunks[h])
<1>1. PICK k : k = Hunks!Start(h)
  OBVIOUS
<1>2. PICK here, at : /\ here = {g \in DOMAIN hunksHunks : Hunks!Start(g) = k}
                      /\ at = Hunks!Sorted(here, Hunks!Numeric(here))
  OBVIOUS
<1>3. here = {h}
  BY <1>1, <1>2 DEF HunksDistinct
<1>4. Cardinality(here) = 1 /\ IsFiniteSet(here)
  BY <1>3, FS_Singleton
<1>5. at[1] = h
  <2>1. here \in SUBSET Nat
    BY <1>2, HunksFinite
  <2>2. Orders(Hunks!Numeric(here), here)
    BY <2>1, NumericOrders
  <2>3. at \in [1 .. 1 -> here]
    BY <1>2, <1>4, <2>2, RankedInOrder
  <2>4. at[1] \in here
    BY <2>3
  <2> QED BY <1>3, <2>4
<1>6. PICK t \in Seq(Lines) : t = Hunks!New(hunksHunks[h])
  BY HunkTyped
<1>7. PICK p : p = [i \in 1 .. Hunks!Cardinality(here) |-> Hunks!New(hunksHunks[at[i]])]
  OBVIOUS
<1>8. Hunks!Inserted(k) = Hunks!FlattenSeq(p)
  BY <1>2, <1>7 DEF Hunks!Inserted
<1>9. p = [i \in 1 .. 1 |-> t]
  <2>1. Hunks!Cardinality(here) = 1
    BY <1>4, HunksCardinality
  <2>2. \A i \in 1 .. 1 : Hunks!New(hunksHunks[at[i]]) = t
    BY <1>5, <1>6
  <2> QED BY <1>7, <2>1, <2>2
<1>10. Hunks!FlattenSeq(p) = t
  BY <1>9, OneJoined
<1> QED BY <1>1, <1>6, <1>8, <1>10

LEMMA RewrittenIsExpected ==
    ASSUME HunksPlaced, ~Hunks!Overlapping, HunksDistinct
    PROVE  Hunks!Rewritten = Hunks!Expected
<1>1. PICK set, d : set = DOMAIN hunksHunks /\ d = Hunks!Sorted(set, Hunks!Downwards)
  OBVIOUS
<1>2. PICK n \in Nat : n = Cardinality(set)
  BY <1>1, HunksFinite, FS_CardinalityType DEF HunksPlaced
<1>3. /\ d \in [1 .. n -> set] /\ \A h \in set : \E k \in 1 .. n : d[k] = h
      /\ \A i, j \in 1 .. n : i < j => d[i] # d[j] /\ <<d[i], d[j]>> \in Hunks!Downwards
  BY <1>1, <1>2, HunksFinite, PlaceOrders, RankedInOrder DEF HunksPlaced
<1>4. PICK c \in Seq(Lines), N \in Nat : c = content /\ N = Len(c)
  BY DEF HunksPlaced, HunksTyped
<1>5. PICK s, e, w : /\ s = [k \in 1 .. n |-> Hunks!Start(d[k])]
                     /\ e = [k \in 1 .. n |-> Hunks!End(d[k])]
                     /\ w = [k \in 1 .. n |-> Hunks!New(hunksHunks[d[k]])]
  OBVIOUS
<1>6. \A k \in 1 .. n : /\ d[k] \in set /\ s[k] = Hunks!Start(d[k]) /\ e[k] = Hunks!End(d[k])
                        /\ w[k] = Hunks!New(hunksHunks[d[k]])
  BY <1>3, <1>5
<1>7. ASSUME NEW k \in 1 .. n
      PROVE  s[k] \in Nat /\ e[k] \in Nat /\ s[k] <= e[k] /\ e[k] <= N /\ w[k] \in Seq(Lines)
  <2>1. d[k] \in DOMAIN hunksHunks
    BY <1>1, <1>6
  <2>2. Hunks!New(hunksHunks[d[k]]) \in Seq(Lines)
    BY <2>1, HunkTyped DEF HunksPlaced
  <2>3. /\ Hunks!Start(d[k]) \in Nat /\ Hunks!End(d[k]) \in Nat
        /\ Hunks!Start(d[k]) <= Hunks!End(d[k]) /\ Hunks!End(d[k]) <= Len(content)
    BY <2>1, HunkPlaced
  <2> QED BY <1>4, <1>6, <2>2, <2>3
<1>8. s \in [1 .. n -> Nat] /\ e \in [1 .. n -> Nat] /\ w \in [1 .. n -> Seq(Lines)]
  BY <1>5, <1>7
<1>9. ASSUME NEW j \in 1 .. n, NEW k \in 1 .. n, j < k PROVE s[k] < s[j] /\ e[k] <= s[j]
  <2>1. PICK g \in set, h \in set : g = d[j] /\ h = d[k]
    BY <1>6
  <2>2. g # h /\ <<g, h>> \in Hunks!Downwards
    BY <1>3, <1>9, <2>1
  <2>3. Hunks!Start(g) # Hunks!Start(h)
    BY <1>1, <2>2 DEF HunksDistinct
  <2>4. Hunks!Start(g) > Hunks!Start(h)
    BY <2>2, <2>3 DEF Hunks!Downwards, Hunks!Stable
  <2>5. Hunks!Start(h) < Hunks!Start(g)
    <3>1. Hunks!Start(g) \in Nat /\ Hunks!Start(h) \in Nat
      BY <1>1, HunkPlaced
    <3> QED BY <2>4, <3>1
  <2>6. Hunks!End(h) <= Hunks!Start(g)
    BY <1>1, <2>5, HunksApart
  <2> QED BY <1>6, <2>1, <2>5, <2>6
<1>10. Apart(n, N, s, e)
  BY <1>7, <1>8, <1>9 DEF Apart
<1>11. PICK G : G[0] = c /\ G[n] = Hunks!Rewritten /\ OneByOne(G, n, s, e, w)
  <2>1. DOMAIN d = 1 .. n
    BY <1>3
  <2>2. PICK G : /\ G[0] = content /\ G[n] = Hunks!Rewritten
                 /\ \A k \in 1 .. n : G[k] = Hunks!Splice(G[k - 1], d[k])
    BY <1>1, <2>1, RewrittenStepwise
  <2>3. ASSUME NEW k \in 1 .. n PROVE G[k] = Replaced(G[k - 1], s[k], e[k], w[k])
    <3>1. PICK g, h : g = G[k - 1] /\ h = d[k]
      OBVIOUS
    <3>2. G[k] = Hunks!Splice(g, h)
      BY <2>2, <3>1
    <3>3. Hunks!Start(h) = s[k] /\ Hunks!End(h) = e[k] /\ Hunks!New(hunksHunks[h]) = w[k]
      BY <1>6, <3>1
    <3>4. Hunks!Splice(g, h) = Replaced(g, s[k], e[k], w[k])
      BY <3>3 DEF Hunks!Splice, Replaced
    <3> QED BY <3>1, <3>2, <3>4
  <2>4. OneByOne(G, n, s, e, w)
    BY <2>3 DEF OneByOne
  <2> QED BY <1>4, <2>2, <2>4
<1>12. PICK p : p = [k \in 1 .. N + 1 |-> Hunks!Inserted(k - 1) \o Hunks!Kept(k - 1)]
  OBVIOUS
<1>13. Hunks!Expected = Hunks!FlattenSeq(p)
  BY <1>4, <1>12 DEF Hunks!Expected
<1>14. ASSUME NEW i \in 0 .. N
       PROVE  Hunks!Kept(i) = Stays(c, n, s, e, i) /\ Hunks!Kept(i) \in Seq(Lines)
  <2>1. (\E h \in DOMAIN hunksHunks : Hunks!Start(h) <= i /\ i < Hunks!End(h))
            <=> (\E k \in 1 .. n : s[k] <= i /\ i < e[k])
    <3>1. ASSUME NEW h \in DOMAIN hunksHunks, Hunks!Start(h) <= i, i < Hunks!End(h)
          PROVE  \E k \in 1 .. n : s[k] <= i /\ i < e[k]
      <4>1. PICK k \in 1 .. n : d[k] = h
        BY <1>1, <1>3
      <4> QED BY <1>6, <3>1, <4>1
    <3>2. ASSUME NEW k \in 1 .. n, s[k] <= i, i < e[k]
          PROVE  \E h \in DOMAIN hunksHunks : Hunks!Start(h) <= i /\ i < Hunks!End(h)
      BY <1>1, <1>6, <3>2
    <3> QED BY <3>1, <3>2
  <2>2. Hunks!Kept(i) = Stays(c, n, s, e, i)
    BY <1>4, <2>1 DEF Hunks!Kept, Stays
  <2>3. Stays(c, n, s, e, i) \in Seq(Lines)
    <3>1. <<>> \in Seq(Lines)
      BY EmptySeq
    <3>2. i # N => <<c[i + 1]>> \in Seq(Lines)
      <4>1. i # N => i + 1 \in 1 .. Len(c)
        BY <1>4
      <4>2. i # N => c[i + 1] \in Lines
        BY <4>1, ElementOfSeq
      <4> QED BY <4>2
    <3> QED BY <1>4, <3>1, <3>2 DEF Stays
  <2> QED BY <2>2, <2>3
<1>15. ASSUME NEW k \in 1 .. n
       PROVE  /\ s[k] \in 0 .. N /\ Hunks!Inserted(s[k]) = w[k]
  <2>1. d[k] \in DOMAIN hunksHunks /\ s[k] = Hunks!Start(d[k])
    BY <1>1, <1>6
  <2>2. Hunks!Inserted(Hunks!Start(d[k])) = Hunks!New(hunksHunks[d[k]])
    BY <2>1, OneInserted DEF HunksPlaced
  <2>3. s[k] \in 0 .. N
    BY <1>7
  <2> QED BY <1>6, <2>1, <2>2, <2>3
<1>16. ASSUME NEW i \in 0 .. N, \A k \in 1 .. n : s[k] # i PROVE Hunks!Inserted(i) = <<>>
  <2>1. ASSUME NEW h \in DOMAIN hunksHunks PROVE Hunks!Start(h) # i
    <3>1. PICK k \in 1 .. n : d[k] = h
      BY <1>1, <1>3
    <3> QED BY <1>6, <1>16, <3>1
  <2> QED BY <2>1, NothingInserted
<1>17. ASSUME NEW i \in 0 .. N
       PROVE  p[i + 1] = Hunks!Inserted(i) \o Hunks!Kept(i) /\ p[i + 1] \in Seq(Lines)
  <2>1. PICK k \in 1 .. N + 1 : k = i + 1 /\ k - 1 = i
    OBVIOUS
  <2>2. p[k] = Hunks!Inserted(i) \o Hunks!Kept(i)
    BY <1>12, <2>1
  <2>3. Hunks!Inserted(i) \in Seq(Lines)
    <3>1. CASE \E m \in 1 .. n : s[m] = i
      <4>1. PICK m \in 1 .. n : s[m] = i
        BY <3>1
      <4>2. Hunks!Inserted(i) = w[m] /\ w[m] \in Seq(Lines)
        BY <1>7, <1>15, <4>1
      <4> QED BY <4>2
    <3>2. CASE \A m \in 1 .. n : s[m] # i
      <4>1. Hunks!Inserted(i) = <<>>
        BY <1>16, <3>2
      <4> QED BY <4>1, EmptySeq
    <3> QED BY <3>1, <3>2
  <2>4. PICK x, y : x = Hunks!Inserted(i) /\ y = Hunks!Kept(i)
    OBVIOUS
  <2>5. x \in Seq(Lines) /\ y \in Seq(Lines)
    BY <1>14, <2>3, <2>4
  <2>6. x \o y \in Seq(Lines)
    BY <2>5, ConcatProperties
  <2> QED BY <2>1, <2>2, <2>4, <2>6
<1>18. PieceByPiece(p, c, n, s, e, w)
  <2>1. ASSUME NEW k \in 1 .. n PROVE p[s[k] + 1] = w[k] \o Stays(c, n, s, e, s[k])
    <3>1. PICK i \in 0 .. N : i = s[k] /\ Hunks!Inserted(i) = w[k]
      BY <1>15
    <3>2. p[i + 1] = Hunks!Inserted(i) \o Hunks!Kept(i) /\ Hunks!Kept(i) = Stays(c, n, s, e, i)
      BY <1>14, <1>17
    <3> QED BY <3>1, <3>2
  <2>2. ASSUME NEW i \in 0 .. Len(c), \A k \in 1 .. n : s[k] # i
        PROVE  p[i + 1] = Stays(c, n, s, e, i)
    <3>1. i \in 0 .. N
      BY <1>4
    <3>2. Hunks!Inserted(i) = <<>>
      BY <1>16, <2>2, <3>1
    <3>3. PICK y : y = Hunks!Kept(i)
      OBVIOUS
    <3>4. y = Stays(c, n, s, e, i) /\ y \in Seq(Lines)
      BY <1>14, <3>1, <3>3
    <3>5. <<>> \o y = y
      BY <3>4, ConcatEmptySeq
    <3>6. p[i + 1] = <<>> \o y
      BY <1>17, <3>1, <3>2, <3>3
    <3> QED BY <3>4, <3>5, <3>6
  <2> QED BY <2>1, <2>2 DEF PieceByPiece
<1>19. p \in [1 .. N + 1 -> Seq(Lines)]
  <2>1. ASSUME NEW k \in 1 .. N + 1 PROVE p[k] \in Seq(Lines)
    <3>1. PICK i \in 0 .. N : i + 1 = k
      <4>1. k - 1 \in 0 .. N /\ k - 1 + 1 = k
        OBVIOUS
      <4> QED BY <4>1
    <3> QED BY <1>17, <3>1
  <2> QED BY <1>12, <2>1
<1>20. p \in Seq(Seq(Lines)) /\ Len(p) = N + 1
  BY <1>19
<1>21. PICK J \in [0 .. Len(p) -> Seq(Lines)] :
              /\ J[0] = <<>> /\ J[Len(p)] = Hunks!FlattenSeq(p)
              /\ \A i \in 1 .. Len(p) : J[i] = J[i - 1] \o p[i]
  BY <1>20, Flattened
<1>22. Joined(Lines, N + 1, p, J)
  BY <1>19, <1>20, <1>21 DEF Joined
<1>23. Joined(Lines, Len(c) + 1, p, J) /\ Apart(n, Len(c), s, e)
  BY <1>4, <1>10, <1>22
<1>24. G[n] = J[Len(c) + 1]
  <2>1. PICK v \in [1 .. n -> Seq(Lines)] : v = w
    BY <1>8
  <2>2. PieceByPiece(p, c, n, s, e, v) /\ OneByOne(G, n, s, e, v)
    BY <1>11, <1>18, <2>1
  <2>3. PICK K : K = J
    OBVIOUS
  <2>4. G[0] = c /\ K[0] = <<>>
    BY <1>11, <1>21, <2>3
  <2>5. Joined(Lines, Len(c) + 1, p, K) /\ Apart(n, Len(c), s, e)
    BY <1>23, <2>3
  <2>6. G[n] = K[Len(c) + 1]
    BY <2>2, <2>4, <2>5, AllReplaced
  <2> QED BY <2>3, <2>6
<1>25. J[N + 1] = Hunks!FlattenSeq(p)
  BY <1>20, <1>21
<1> QED BY <1>4, <1>11, <1>13, <1>24, <1>25

HunksBounded == MaxHunkFile \in Nat /\ MaxHunk \in Nat /\ MaxHunks \in Nat
HunksInv == HunksTyped /\ Hunks!DistinctHunksExact

LEMMA BoundedTyped ==
    ASSUME NEW S, NEW n \in Nat, NEW t \in Hunks!BoundedSeq(S, n)
    PROVE  t \in Seq(S)
BY DEF Hunks!BoundedSeq, Hunks!SeqOf

LEMMA HunksInitInv == HunksBounded /\ Hunks!Init => HunksInv
<1> SUFFICES ASSUME HunksBounded, Hunks!Init PROVE HunksInv
  OBVIOUS
<1>1. content \in Seq(Lines)
  BY BoundedTyped DEF HunksBounded, Hunks!Init
<1>2. PICK some : some = Hunks!BoundedSeq(Hunks!Markers \X Lines, MaxHunk) \ {<<>>}
  OBVIOUS
<1>3. some \subseteq Seq(Hunks!Markers \X Lines)
  BY <1>2, BoundedTyped DEF HunksBounded
<1>4. hunksHunks \in Seq(some)
  BY <1>2, BoundedTyped DEF HunksBounded, Hunks!Init
<1>5. hunksHunks \in Seq(Seq(Hunks!Markers \X Lines))
  BY <1>3, <1>4, SeqMonotonic
<1>6. outcome.status # "applied"
  BY DEF Hunks!Init, Hunks!Pending
<1> QED BY <1>1, <1>5, <1>6 DEF HunksInv, HunksTyped, Hunks!DistinctHunksExact

LEMMA HunksPreserved == HunksInv /\ [Hunks!Next]_hunksVars => HunksInv'
<1> SUFFICES ASSUME HunksInv, [Hunks!Next]_hunksVars PROVE HunksInv'
  OBVIOUS
<1>1. UNCHANGED <<content, hunksHunks>>
  BY DEF hunksVars, Hunks!Next, Hunks!Apply
<1>2. HunksTyped'
  BY <1>1 DEF HunksInv, HunksTyped
<1>3. \A h : Hunks!Start(h)' = Hunks!Start(h)
  BY <1>1 DEF Hunks!Start, Hunks!Places
<1>4. Hunks!Expected' = Hunks!Expected
  BY <1>1 DEF Hunks!Expected, Hunks!Inserted, Hunks!Kept, Hunks!End, Hunks!Start, Hunks!Places
<1>5. HunksDistinct' <=> HunksDistinct
  BY <1>1, <1>3 DEF HunksDistinct
<1>6. Hunks!DistinctHunksExact <=>
          (outcome.status = "applied" /\ HunksDistinct => outcome.lines = Hunks!Expected)
  BY DEF Hunks!DistinctHunksExact, HunksDistinct
<1>7. CASE Hunks!Apply /\ HunksDistinct /\ outcome'.status = "applied"
  <2>1. Hunks!Misplaced = {} /\ ~Hunks!Overlapping /\ outcome'.lines = Hunks!Rewritten
    <3>1. \A code \in {"not found", "ambiguous", "overlap"} : Hunks!Refusal(code).status # "applied"
      BY DEF Hunks!Refusal
    <3> QED BY <1>7, <3>1 DEF Hunks!Apply
  <2>2. Hunks!Rewritten = Hunks!Expected
    BY <1>7, <2>1, RewrittenIsExpected DEF HunksInv, HunksPlaced
  <2>3. outcome'.lines = Hunks!Expected'
    BY <1>4, <2>1, <2>2
  <2> QED BY <1>2, <2>3 DEF HunksInv, Hunks!DistinctHunksExact
<1>8. CASE UNCHANGED hunksVars
  <2>1. outcome' = outcome
    BY <1>8 DEF hunksVars
  <2>2. outcome'.status = "applied" /\ HunksDistinct' => outcome'.lines = Hunks!Expected'
    BY <1>4, <1>5, <1>6, <2>1 DEF HunksInv
  <2> QED BY <1>2, <2>2 DEF HunksInv, Hunks!DistinctHunksExact, HunksDistinct
<1>9. CASE ~HunksDistinct \/ outcome'.status # "applied"
  <2>1. outcome'.status = "applied" /\ HunksDistinct' => outcome'.lines = Hunks!Expected'
    BY <1>5, <1>9
  <2> QED BY <1>2, <2>1 DEF HunksInv, Hunks!DistinctHunksExact, HunksDistinct
<1> QED BY <1>7, <1>8, <1>9 DEF Hunks!Next

-----------------------------------------------------------------------------
(* A behaviour is of one component, which keeps its inductive invariant.      *)

CodingInv ==
    /\ part = "commit" => CommitInv
    /\ part = "hunks" => HunksInv
    /\ part = "stage" => StageInv
    /\ part = "output" => OutputInv
    /\ part = "runs" => RunsInv
    /\ part = "search" => SearchInv
    /\ part = "page" => PageInv
    /\ part = "text" => TextInv
    /\ part = "list" => ListInv

LEMMA CodingConstants ==
    /\ CommitDistinct /\ HunksBounded /\ OutputBounded /\ RunsBounded /\ SearchBounded
    /\ PageBounded /\ TextBounded /\ ListBounded
<1>1. {MaxFaults, MaxMeddling, MaxHunkFile, MaxHunk, MaxHunks, MaxBytes, MaxActive, MaxRetained, MaxSearches, MaxPerOwner,
       MaxFailures, MaxFile, MaxMatches, MaxResults, MaxListed, MaxBatch} \subseteq Nat
  BY CodingToolsAssumption
<1>2. CommitDistinct
  BY <1>1, CodingToolsAssumption DEF CommitDistinct, Commit!Paths
<1>3. HunksBounded /\ OutputBounded /\ PageBounded
  BY <1>1, CodingToolsAssumption DEF HunksBounded, OutputBounded, PageBounded
<1>4. RunsBounded /\ SearchBounded /\ TextBounded /\ ListBounded
  BY <1>1, CodingToolsAssumption DEF RunsBounded, SearchBounded, TextBounded, ListBounded
<1> QED BY <1>2, <1>3, <1>4

LEMMA CodingInit == Init => CodingInv
<1> SUFFICES ASSUME Init PROVE CodingInv
  OBVIOUS
<1>1. CASE part = "commit" /\ Commit!Init
  BY <1>1, CodingConstants, CommitInitInv DEF CodingInv
<1>2. CASE part = "hunks" /\ Hunks!Init
  BY <1>2, CodingConstants, HunksInitInv DEF CodingInv
<1>3. CASE part = "stage" /\ Staging!Init
  BY <1>3, StageInitInv DEF CodingInv
<1>4. CASE part = "output" /\ Output!Init
  BY <1>4, CodingConstants, OutputInitInv DEF CodingInv
<1>5. CASE part = "runs" /\ Runs!Init
  BY <1>5, CodingConstants, RunsInitInv DEF CodingInv
<1>6. CASE part = "search" /\ Search!Init
  BY <1>6, CodingConstants, SearchInitInv DEF CodingInv
<1>7. CASE part = "page" /\ Pages!Init
  BY <1>7, CodingConstants, PageInitInv DEF CodingInv
<1>8. CASE part = "text" /\ Text!Init
  BY <1>8, CodingConstants, TextInitInv DEF CodingInv
<1>9. CASE part = "list" /\ Listing!Init
  BY <1>9, CodingConstants, ListInitInv DEF CodingInv
<1> QED BY <1>1, <1>2, <1>3, <1>4, <1>5, <1>6, <1>7, <1>8, <1>9 DEF Init

\* A step is one of the component the behaviour is of.
LEMMA CodingStep ==
    ASSUME [Next]_vars
    PROVE  /\ part' = part
           /\ part = "commit" => [Commit!Next]_commitVars
           /\ part = "hunks" => [Hunks!Next]_hunksVars
           /\ part = "stage" => [Staging!Next]_stageVars
           /\ part = "output" => [Output!Next]_outputVars
           /\ part = "runs" => [Runs!Next]_runsVars
           /\ part = "search" => [Search!Next]_searchVars
           /\ part = "page" => [Pages!Next]_pageVars
           /\ part = "text" => [Text!Next]_textVars
           /\ part = "list" => [Listing!Next]_listVars
<1>1. CASE Next
  BY <1>1 DEF Next
<1>2. CASE UNCHANGED vars
  BY <1>2 DEF vars
<1> QED BY <1>1, <1>2

LEMMA CodingPreserved == CodingInv /\ [Next]_vars => CodingInv'
<1> SUFFICES ASSUME CodingInv, [Next]_vars PROVE CodingInv'
  OBVIOUS
<1>1. part = "commit" => CommitInv'
  BY CodingConstants, CodingStep, CommitPreserved DEF CodingInv
<1>2. part = "stage" => StageInv'
  BY CodingStep, StagePreserved DEF CodingInv
<1>3. part = "output" => OutputInv'
  BY CodingConstants, CodingStep, OutputPreserved DEF CodingInv
<1>4. part = "runs" => RunsInv'
  BY CodingConstants, CodingStep, RunsPreserved DEF CodingInv
<1>5. part = "search" => SearchInv'
  BY CodingConstants, CodingStep, SearchPreserved DEF CodingInv
<1>6. part = "page" => PageInv'
  BY CodingConstants, CodingStep, PagePreserved DEF CodingInv
<1>7. part = "text" => TextInv'
  BY CodingConstants, CodingStep, TextPreserved DEF CodingInv
<1>8. part = "list" => ListInv'
  BY CodingConstants, CodingStep, ListPreserved DEF CodingInv
<1>9. part = "hunks" => HunksInv'
  BY CodingStep, HunksPreserved DEF CodingInv
<1> QED BY <1>1, <1>2, <1>3, <1>4, <1>5, <1>6, <1>7, <1>8, <1>9, CodingStep DEF CodingInv

\* A patch of any number of operations on any files is staged as they change the
\* files one after the other, and committed as a whole or not at all, whichever
\* step fails, except where somebody else wrote to a file (server.py apply_patch,
\* patching.py commit).
THEOREM PatchesStayWhole == Spec => []AllOrNothing
<1>1. CodingInv => AllOrNothing
  <2> SUFFICES ASSUME CodingInv PROVE AllOrNothing
    OBVIOUS
  <2>1. part = "commit" => Commit!TypeOK /\ Commit!AllOrNothing
    BY CodingConstants, CommitTypedImplies, CommitInvImplies DEF CodingInv, CommitInv
  <2>2. part = "stage" => Staging!StagedAsWritten
    BY StageImplies DEF CodingInv
  <2> QED BY <2>1, <2>2, Zenon DEF AllOrNothing
<1> QED BY <1>1, CodingInit, CodingPreserved, PTL DEF Spec

\* A patch whose hunks start at different lines leaves every line that no hunk
\* quotes as it was and puts what each hunk adds where it quotes, for files, hunks
\* and patches of any length (patching.py apply_update_hunks).
THEOREM PatchesStayExact == Spec => []PatchIsExact
<1>1. CodingInv => PatchIsExact
  BY DEF CodingInv, HunksInv, PatchIsExact
<1> QED BY <1>1, CodingInit, CodingPreserved, PTL DEF Spec

\* Whatever the limits of the buffer and however much a command prints, every
\* byte is read once or counted as dropped, and a read at any offset returns the
\* stream's own bytes (processes.py output buffer, server.py read_output).
THEOREM OutputStaysAccounted == Spec => []OutputAccounted
<1>1. CodingInv => OutputAccounted
  BY CodingConstants, OutputImplies DEF CodingInv, OutputAccounted
<1> QED BY <1>1, CodingInit, CodingPreserved, PTL DEF Spec

\* No command and no search whose process runs is out of reach of its owner's end
\* and of the shutdown, and the limits on both hold, for any number of commands,
\* searches and owners (server.py exec, kill, close; search.py).
THEOREM NoProcessGetsLost == Spec => []NoProcessIsLost
<1>1. CodingInv => NoProcessIsLost
  <2> SUFFICES ASSUME CodingInv PROVE NoProcessIsLost
    OBVIOUS
  <2>1. part = "runs" => Runs!TypeOK /\ Runs!NoCommandIsLost
    BY CodingConstants, RunsImplies DEF CodingInv
  <2>2. part = "search" => Search!TypeOK /\ Search!NoSearchUnowned
    BY SearchImplies DEF CodingInv
  <2> QED BY <2>1, <2>2, Zenon DEF NoProcessIsLost
<1> QED BY <1>1, CodingInit, CodingPreserved, PTL DEF Spec

\* A search that has its verdict keeps it, whoever of collector, timer, stop and
\* shutdown comes next (search.py).
THEOREM VerdictsStayKept == Spec => VerdictsAreKept
<1>1. CodingInv /\ [Next]_vars => [part = "search" => Search!KeepsVerdict]_searchVars
  BY CodingStep, SearchKeeps DEF CodingInv
<1> QED BY <1>1, CodingInit, CodingPreserved, PTL DEF Spec, VerdictsAreKept

\* Of a file of any length the pages show each line asked for once, a text search
\* names its matches or says it was cut short, and a listing is of listed files,
\* all of them unless it says otherwise (server.py).
THEOREM FileToolsStayHonest == Spec => []FileToolsHonest
<1>1. CodingInv => FileToolsHonest
  <2> SUFFICES ASSUME CodingInv PROVE FileToolsHonest
    OBVIOUS
  <2>1. part = "page" => Pages!TypeOK /\ Pages!PagesCoverRange
    BY CodingConstants, PageImplies DEF CodingInv
  <2>2. part = "text" => Text!TypeOK /\ Text!SearchIsWhole
    BY TextImplies DEF CodingInv
  <2>3. part = "list" => Listing!TypeOK /\ Listing!ListingIsWhole
    BY ListImplies DEF CodingInv
  <2> QED BY <2>1, <2>2, <2>3, Zenon DEF FileToolsHonest
<1> QED BY <1>1, CodingInit, CodingPreserved, PTL DEF Spec
=============================================================================
