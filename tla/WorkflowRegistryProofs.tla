----------------------- MODULE WorkflowRegistryProofs -----------------------
(* Theorems about WorkflowRegistry for every value of its constants. *)
EXTENDS WorkflowRegistry, TLAPS

\* The first credential's generation is within the bound.
LEMMA ZeroGeneration == 0 \in Generations
BY ConstantsAssumption DEF Generations

\* The members of Ops and Pcs by name, so that no proof need expand them.
LEMMA Names ==
    /\ \A o \in {"none", "start", "end", "release", "begin", "activate", "expire",
                 "close", "recover"} \cup Kinds : o \in Ops
    /\ \A p \in {"idle", "loop", "release", "probe", "endwait", "end", "endgate",
                 "drain", "cleanup", "cleaned", "enter", "factory", "queue",
                 "admit", "body"} : p \in Pcs
BY DEF Ops, Loops, Pcs

\* An arriving call is well typed.
LEMMA StartType ==
    ASSUME ThreadsOK, NEW t \in Threads, NEW o \in Ops, NEW p \in Pcs,
           NEW w \in Workflows \cup {NoWorkflow}, NEW g \in Generations,
           NEW todo \in SUBSET Workflows, Start(t, o, p, w, g, todo),
           p \notin {"idle", "loop"} => w \in Workflows
    PROVE  ThreadsOK'
BY DEF ThreadsOK, Start, Thread

\* A thread that moves to its next section stays well typed.
LEMMA GoType ==
    ASSUME ThreadsOK, NEW t \in Threads, NEW p \in Pcs, Go(t, p),
           th[t].pc \notin {"idle", "loop"}
    PROVE  ThreadsOK'
BY DEF ThreadsOK, Go, Thread

\* A resting thread is well typed.
LEMMA RestingType == Resting \in Thread
BY ZeroGeneration DEF Resting, Thread, Pcs, Ops

\* A returning thread is well typed.
LEMMA ReturnType ==
    ASSUME ThreadsOK, NEW t \in Threads, Return(t)
    PROVE  ThreadsOK'
BY RestingType DEF ThreadsOK, Return

\* _end and release_idle return to a well typed caller and free a gate.
LEMMA BackType ==
    ASSUME ThreadsOK, LocksOK, NEW t \in Threads, BackToCaller(t)
    PROVE  ThreadsOK' /\ gate' \in [Workflows -> Threads \cup {NoThread}]
<1>1. ThreadsOK'
  BY RestingType DEF ThreadsOK, BackToCaller, Thread, Pcs
<1>2. gate' \in [Workflows -> Threads \cup {NoThread}]
  BY DEF BackToCaller, Free, LocksOK
<1>3. QED BY <1>1, <1>2

\* _state keeps both copies of a row well typed.
LEMMA SetStateType ==
    ASSUME RowsOK, NEW w, NEW s \in States, SetState(w, s)
    PROVE  RowsOK'
BY DEF RowsOK, SetState

\* expire keeps a column of states well typed.
LEMMA LapsedType ==
    ASSUME NEW column \in [Workflows -> States], NEW S
    PROVE  Lapsed(column, S) \in [Workflows -> States]
BY DEF Lapsed, States, Terminal

\* The types hold before the first boot.
LEMMA TypeInit == Init => TypeOK
<1> SUFFICES ASSUME Init PROVE TypeOK
  OBVIOUS
<1>1. ThreadsOK
  BY RestingType DEF Init, ThreadsOK
<1>2. RowsOK
  BY DEF Init, RowsOK, States
<1>3. CredsOK
  BY ZeroGeneration DEF Init, CredsOK, NoResponse, Response
<1>4. LocksOK
  BY DEF Init, LocksOK
<1>5. QED
  BY <1>1, <1>2, <1>3, <1>4 DEF Init, TypeOK, HostOK, MemoryOK, EnvOK

\* Which groups of variables keep their type because they do not change.
LEMMA UnchangedTypes ==
    /\ RowsOK /\ UNCHANGED rows => RowsOK'
    /\ CredsOK /\ UNCHANGED creds => CredsOK'
    /\ HostOK /\ UNCHANGED host => HostOK'
    /\ MemoryOK /\ UNCHANGED memory => MemoryOK'
    /\ LocksOK /\ UNCHANGED locks => LocksOK'
    /\ EnvOK /\ UNCHANGED env => EnvOK'
    /\ ThreadsOK /\ UNCHANGED th => ThreadsOK'
<1>1. RowsOK /\ UNCHANGED rows => RowsOK'
  BY DEF RowsOK, rows
<1>2. CredsOK /\ UNCHANGED creds => CredsOK'
  BY DEF CredsOK, creds
<1>3. HostOK /\ UNCHANGED host => HostOK'
  BY DEF HostOK
<1>4. MemoryOK /\ UNCHANGED memory => MemoryOK'
  BY DEF MemoryOK, memory
<1>5. LocksOK /\ UNCHANGED locks => LocksOK'
  BY DEF LocksOK, locks
<1>6. EnvOK /\ UNCHANGED env => EnvOK'
  BY DEF EnvOK, env
<1>7. ThreadsOK /\ UNCHANGED th => ThreadsOK'
  BY DEF ThreadsOK
<1>8. QED BY <1>1, <1>2, <1>3, <1>4, <1>5, <1>6, <1>7

\* The types survive the arrival of a call.
LEMMA TypeArrive ==
    ASSUME TypeOK, NEW t \in Threads, Arrive(t)
    PROVE  TypeOK'
<1> USE UnchangedTypes, ZeroGeneration DEF TypeOK
<1>1. CASE Expire(t)
  <2>1. PICK o \in {"begin", "activate", "expire"} :
            Start(t, o, "loop", NoWorkflow, 0, {w \in idle : state[w] = "ACTIVE"})
    BY <1>1 DEF Expire
  <2>2. ThreadsOK'
    <3>1. o \in Ops /\ "loop" \in Pcs
      BY Names
    <3>2. {w \in idle : state[w] = "ACTIVE"} \in SUBSET Workflows
      BY DEF EnvOK
    <3>3. QED BY <2>1, <3>1, <3>2, StartType
  <2>3. RowsOK'
    BY <1>1, LapsedType DEF Expire, RowsOK
  <2>4. EnvOK'
    BY <1>1 DEF Expire, EnvOK
  <2>5. QED
    BY <1>1, <2>2, <2>3, <2>4 DEF Expire, LocksOK, locks
<1>2. CASE Close(t)
  <2>1. ThreadsOK'
    <3>1. "close" \in Ops /\ "loop" \in Pcs
      BY Names
    <3>2. Remaining \in SUBSET Workflows
      BY DEF Remaining, MemoryOK
    <3>3. Start(t, "close", "loop", NoWorkflow, 0, Remaining)
      BY <1>2 DEF Close
    <3>4. QED BY <3>1, <3>2, <3>3, StartType
  <2>2. QED
    BY <1>2, <2>1 DEF Close, HostOK
<1>3. CASE Boot(t)
  <2>1. ThreadsOK'
    <3>1. "recover" \in Ops /\ "loop" \in Pcs
      BY Names
    <3>2. PICK open \in SUBSET Workflows :
              Start(t, "recover", "loop", NoWorkflow, 0, open)
      BY <1>3 DEF Boot
    <3>3. QED BY <3>1, <3>2, StartType
  <2>2. RowsOK'
    BY <1>3 DEF Boot, RowsOK, States
  <2>3. QED
    BY <1>3, <2>1, <2>2 DEF Boot, HostOK
<1>4. ASSUME NEW w \in Workflows, Release(t, w) PROVE TypeOK'
  <2>1. ThreadsOK'
    <3>1. "release" \in Ops /\ "release" \in Pcs
      BY Names
    <3>2. QED BY <1>4, <3>1, StartType DEF Release
  <2>2. QED
    BY <1>4, <2>1 DEF Release
<1>5. ASSUME NEW w \in Workflows, NEW g \in Generations, End(t, w, g) PROVE TypeOK'
  <2>1. ThreadsOK'
    <3>1. "end" \in Ops /\ "endwait" \in Pcs
      BY Names
    <3>2. QED BY <1>5, <3>1, StartType DEF End
  <2>2. QED
    BY <1>5, <2>1 DEF End
<1>6. ASSUME NEW w \in Workflows, NEW g \in Generations, NEW k \in Kinds, Use(t, k, w, g)
      PROVE  TypeOK'
  <2>1. ThreadsOK'
    <3>1. k \in Ops /\ "queue" \in Pcs /\ "admit" \in Pcs
      BY Names
    <3>2. QED BY <1>6, <3>1, StartType DEF Use
  <2>2. QED
    BY <1>6, <2>1 DEF Use
<1>7. QED BY <1>1, <1>2, <1>3, <1>4, <1>5, <1>6 DEF Arrive

\* The types survive the sections of begin, activate, use and end.
LEMMA TypeAdmission ==
    ASSUME TypeOK, NEW t \in Threads, Admission(t)
    PROVE  TypeOK'
<1> USE UnchangedTypes, ZeroGeneration DEF TypeOK
<1>1. CASE LoopReturns(t)
  BY <1>1, ReturnType DEF LoopReturns
<1>2. CASE NextRow(t)
  <2>1. ThreadsOK'
    <3>1. PICK w \in th[t].todo :
              th' = [th EXCEPT ![t].todo = @ \ {w}, ![t].wf = w, ![t].pc =
                        IF th[t].op \in {"close", "recover"} THEN "end" ELSE "release"]
      BY <1>2 DEF NextRow
    <3>2. th[t] \in Thread /\ w \in Workflows
      BY DEF ThreadsOK, Thread
    <3> DEFINE p == IF th[t].op \in {"close", "recover"} THEN "end" ELSE "release"
               r == [th[t] EXCEPT !.todo = @ \ {w}, !.wf = w, !.pc = p]
    <3>3. p \in Pcs
      BY Names
    <3>4. r \in Thread
      <4> HIDE DEF p
      <4> QED BY <3>2, <3>3 DEF Thread
    <3>5. th' = [th EXCEPT ![t] = r]
      BY <3>1, <3>2 DEF ThreadsOK, Thread
    <3>6. QED
      <4> HIDE DEF r
      <4> QED BY <3>4, <3>5 DEF ThreadsOK
  <2>2. QED BY <1>2, <2>1 DEF NextRow
<1>3. ASSUME NEW w \in Workflows, Begin(t, w) PROVE TypeOK'
  <2>1. ThreadsOK'
    BY <1>3, ReturnType DEF Begin
  <2>2. RowsOK'
    <3>1. Lapsed(state, due) \in [Workflows -> States]
          /\ Lapsed(metadata, due) \in [Workflows -> States]
      BY LapsedType DEF RowsOK
    <3>2. "RESERVED" \in States
      BY DEF States
    <3>3. /\ state' = [Lapsed(state, due) EXCEPT ![w] = "RESERVED"]
          /\ metadata' = [Lapsed(metadata, due) EXCEPT ![w] = "RESERVED"]
      BY <1>3 DEF Begin
    <3>4. QED BY <3>1, <3>2, <3>3 DEF RowsOK
  <2>3. CredsOK'
    BY <1>3 DEF Begin, CredsOK
  <2>4. QED BY <1>3, <2>1, <2>2, <2>3 DEF Begin
<1>4. ASSUME NEW w \in Workflows, NEW g \in Generations, Locate(t, w, g) PROVE TypeOK'
  <2>1. ThreadsOK'
    <3>1. "enter" \in Pcs /\ "start" \in Ops
      BY Names
    <3> DEFINE r == [th[t] EXCEPT !.pc = "enter", !.op = "start", !.wf = w, !.cred = g]
    <3>2. th[t] \in Thread
      BY DEF ThreadsOK
    <3>3. r \in Thread
      BY <3>1, <3>2 DEF Thread
    <3>4. th' = [th EXCEPT ![t] = r]
      BY <1>4, <3>2 DEF Locate, ThreadsOK, Thread
    <3>5. QED
      <4> HIDE DEF r
      <4> QED BY <3>3, <3>4 DEF ThreadsOK
  <2>2. QED BY <1>4, <2>1 DEF Locate
<1>5. CASE EnterReserved(t)
  <2>1. ThreadsOK'
    <3>1. "factory" \in Pcs
      BY Names
    <3>2. QED BY <1>5, <3>1, GoType DEF EnterReserved, At
  <2>2. RowsOK'
    BY <1>5, SetStateType DEF EnterReserved, States
  <2>3. th[t].wf \in Workflows
    BY <1>5 DEF EnterReserved, At, ThreadsOK, Thread
  <2>4. MemoryOK' /\ EnvOK' /\ LocksOK'
    BY <1>5, <2>3 DEF EnterReserved, MemoryOK, EnvOK, LocksOK
  <2>5. QED BY <1>5, <2>1, <2>2, <2>4 DEF EnterReserved
<1>6. CASE EnterReturns(t)
  <2>1. ThreadsOK'
    BY <1>6, ReturnType DEF EnterReturns
  <2>2. RowsOK'
    BY <1>6, SetStateType DEF EnterReturns, States, Terminal
  <2>3. EnvOK'
    BY <1>6 DEF EnterReturns, EnvOK
  <2>4. QED BY <1>6, <2>1, <2>2, <2>3 DEF EnterReturns
<1>7. CASE Dequeue(t)
  <2>1. ThreadsOK'
    <3>1. "admit" \in Pcs
      BY Names
    <3>2. QED BY <1>7, <3>1, GoType DEF Dequeue, At
  <2>2. LocksOK'
    BY <1>7 DEF Dequeue, LocksOK
  <2>3. QED BY <1>7, <2>1, <2>2 DEF Dequeue
<1>8. CASE Admit(t)
  <2>1. ThreadsOK'
    <3>1. "body" \in Pcs
      BY Names
    <3>2. QED BY <1>8, <3>1, GoType DEF Admit, At
  <2>2. MemoryOK' /\ EnvOK'
    BY <1>8 DEF Admit, MemoryOK, EnvOK, Touched
  <2>3. QED BY <1>8, <2>1, <2>2 DEF Admit
<1>9. CASE AdmitRefused(t)
  <2>1. ThreadsOK'
    BY <1>9, ReturnType DEF AdmitRefused
  <2>2. LocksOK'
    BY <1>9 DEF AdmitRefused, LocksOK, Free
  <2>3. QED BY <1>9, <2>1, <2>2 DEF AdmitRefused
<1>10. CASE EndAllowed(t)
  <2>1. ThreadsOK'
    <3>1. "end" \in Pcs
      BY Names
    <3>2. QED BY <1>10, <3>1, GoType, ReturnType DEF EndAllowed, At
  <2>2. LocksOK'
    BY <1>10 DEF EndAllowed, LocksOK
  <2>3. QED BY <1>10, <2>1, <2>2 DEF EndAllowed
<1>11. QED
  BY <1>1, <1>2, <1>3, <1>4, <1>5, <1>6, <1>7, <1>8, <1>9, <1>10 DEF Admission

\* The types survive the sections of _end, close and recover.
LEMMA TypeEnding ==
    ASSUME TypeOK, NEW t \in Threads, Ending(t)
    PROVE  TypeOK'
<1> USE UnchangedTypes, ZeroGeneration DEF TypeOK
<1>1. CASE Probe(t)
  <2>1. ThreadsOK'
    <3>1. "probe" \in Pcs
      BY Names
    <3>2. QED BY <1>1, <3>1, GoType DEF Probe, At
  <2>2. LocksOK'
    BY <1>1 DEF Probe, LocksOK
  <2>3. QED BY <1>1, <2>1, <2>2 DEF Probe
<1>2. CASE ProbeRefused(t)
  BY <1>2, BackType DEF ProbeRefused, LocksOK
<1>3. CASE ProbeClear(t)
  <2>1. "end" \in Pcs
    BY Names
  <2>2. QED BY <1>3, <2>1, GoType DEF ProbeClear, At
<1>4. CASE EndTerminal(t)
  BY <1>4, BackType DEF EndTerminal, LocksOK
<1>5. CASE EndCloses(t)
  <2>1. ThreadsOK'
    <3> DEFINE r == [th[t] EXCEPT !.pc = "endgate", !.fresh = state[th[t].wf] = "RESERVED"]
    <3>1. "endgate" \in Pcs
      BY Names
    <3>2. th[t] \in Thread /\ th[t].wf \in Workflows
      BY <1>5 DEF EndCloses, At, ThreadsOK, Thread
    <3>3. r \in Thread
      BY <3>1, <3>2 DEF Thread
    <3>4. th' = [th EXCEPT ![t] = r]
      BY <1>5, <3>2 DEF EndCloses, ThreadsOK, Thread
    <3>5. QED
      <4> HIDE DEF r
      <4> QED BY <3>3, <3>4 DEF ThreadsOK
  <2>2. RowsOK'
    BY <1>5, SetStateType DEF EndCloses, States
  <2>3. QED BY <1>5, <2>1, <2>2 DEF EndCloses
<1>6. CASE EndEnters(t)
  <2>1. "drain" \in Pcs
    BY Names
  <2>2. ThreadsOK' /\ LocksOK'
    BY <1>6, <2>1, GoType, BackType DEF EndEnters, At, LocksOK
  <2>3. QED BY <1>6, <2>2 DEF EndEnters
<1>7. CASE EndGateTimeout(t)
  <2>1. ThreadsOK' /\ LocksOK'
    BY <1>7, BackType DEF EndGateTimeout, LocksOK
  <2>2. RowsOK'
    BY <1>7, SetStateType DEF EndGateTimeout, States
  <2>3. QED BY <1>7, <2>1, <2>2 DEF EndGateTimeout
<1>8. CASE DrainDone(t)
  <2>1. "cleanup" \in Pcs
    BY Names
  <2>2. QED BY <1>8, <2>1, GoType DEF DrainDone, At
<1>9. ASSUME Blocked(t) PROVE TypeOK'
  <2>1. ThreadsOK' /\ LocksOK'
    BY <1>9, BackType DEF Blocked, LocksOK
  <2>2. RowsOK'
    BY <1>9, SetStateType DEF Blocked, States
  <2>3. QED BY <1>9, <2>1, <2>2 DEF Blocked
<1>10. CASE Cleanup(t)
  <2>1. ThreadsOK'
    <3>1. "cleaned" \in Pcs
      BY Names
    <3>2. QED BY <1>10, <3>1, GoType DEF Cleanup, At
  <2>2. EnvOK'
    BY <1>10 DEF Cleanup, EnvOK
  <2>3. QED BY <1>10, <2>1, <2>2 DEF Cleanup
<1>11. CASE EndFinishes(t)
  <2>1. ThreadsOK' /\ LocksOK'
    BY <1>11, BackType DEF EndFinishes, LocksOK
  <2>2. RowsOK'
    BY <1>11, SetStateType DEF EndFinishes, States, Terminal
  <2>3. MemoryOK'
    BY <1>11 DEF EndFinishes, MemoryOK
  <2>4. QED BY <1>11, <2>1, <2>2, <2>3 DEF EndFinishes
<1>12. CASE CloseReturns(t)
  BY <1>12, ReturnType DEF CloseReturns, HostOK
<1>13. CASE RecoverReturns(t)
  <2>1. ThreadsOK' /\ HostOK'
    BY <1>13, ReturnType DEF RecoverReturns, HostOK
  <2>2. RowsOK'
    BY <1>13, LapsedType DEF RecoverReturns, RowsOK
  <2>3. QED BY <1>13, <2>1, <2>2 DEF RecoverReturns
<1>14. QED
  BY <1>1, <1>2, <1>3, <1>4, <1>5, <1>6, <1>7, <1>8, <1>9, <1>10, <1>11, <1>12, <1>13
  DEF Ending, DrainTimeout, CleanupFails

\* The types survive the factory and the tool calls.
LEMMA TypeOutside ==
    ASSUME TypeOK, NEW t \in Threads, Outside(t)
    PROVE  TypeOK'
<1> USE UnchangedTypes, ZeroGeneration DEF TypeOK
<1>1. CASE FactoryFails(t)
  <2>1. ThreadsOK'
    BY <1>1, ReturnType DEF FactoryFails
  <2>2. RowsOK'
    BY <1>1, SetStateType DEF FactoryFails, States
  <2>3. MemoryOK' /\ LocksOK'
    BY <1>1 DEF FactoryFails, MemoryOK, LocksOK, Free
  <2>4. QED BY <1>1, <2>1, <2>2, <2>3 DEF FactoryFails
<1>2. CASE FactoryReturns(t)
  <2>1. ThreadsOK'
    <3>1. "end" \in Pcs
      BY Names
    <3>2. QED BY <1>2, <3>1, GoType, ReturnType DEF FactoryReturns, At
  <2>2. RowsOK'
    BY <1>2, SetStateType DEF FactoryReturns, States
  <2>3. th[t].wf \in Workflows
    BY <1>2 DEF FactoryReturns, At, ThreadsOK, Thread
  <2>4. MemoryOK' /\ LocksOK' /\ EnvOK'
    BY <1>2, <2>3 DEF FactoryReturns, MemoryOK, LocksOK, Free, EnvOK
  <2>5. QED BY <1>2, <2>1, <2>2, <2>4 DEF FactoryReturns
<1>3. CASE Leave(t)
  <2>1. ThreadsOK'
    BY <1>3, ReturnType DEF Leave
  <2>2. MemoryOK' /\ LocksOK' /\ EnvOK'
    BY <1>3 DEF Leave, MemoryOK, LocksOK, Free, EnvOK, Touched
  <2>3. QED BY <1>3, <2>1, <2>2 DEF Leave
<1>4. QED BY <1>1, <1>2, <1>3 DEF Outside

\* The types survive resume, the clock and crashes.
LEMMA TypeEnvironment ==
    ASSUME TypeOK, Resume \/ Clock \/ Crash \/ UNCHANGED vars
    PROVE  TypeOK'
<1> USE UnchangedTypes DEF TypeOK
<1>1. ASSUME NEW w \in Workflows, NEW r \in ResumeIds, Rotate(w, r) PROVE TypeOK'
  <2>1. CredsOK'
    BY <1>1 DEF Rotate, CredsOK, Response, Delivered
  <2>2. EnvOK'
    BY <1>1 DEF Rotate, EnvOK
  <2>3. QED BY <1>1, <2>1, <2>2 DEF Rotate
<1>2. ASSUME NEW w \in Workflows, NEW r \in ResumeIds, Replay(w, r) PROVE TypeOK'
  <2>1. CredsOK'
    BY <1>2 DEF Replay, CredsOK, Response, Delivered
  <2>2. QED BY <1>2, <2>1 DEF Replay
<1>3. CASE Clock
  <2>1. CredsOK' /\ EnvOK'
    BY <1>3 DEF Clock, ReservationLapses, ActivityLapses, ResponseLapses, CredsOK,
                EnvOK, creds
  <2>2. QED BY <1>3, <2>1 DEF Clock, ReservationLapses, ActivityLapses, ResponseLapses
<1>4. CASE Crash
  <2>1. RowsOK' /\ HostOK' /\ MemoryOK' /\ LocksOK'
    BY <1>4 DEF Crash, RowsOK, HostOK, MemoryOK, LocksOK, States
  <2>2. ThreadsOK'
    BY <1>4, RestingType DEF Crash, ThreadsOK
  <2>3. QED BY <1>4, <2>1, <2>2 DEF Crash
<1>5. CASE UNCHANGED vars
  BY <1>5 DEF vars
<1>6. QED BY <1>1, <1>2, <1>3, <1>4, <1>5 DEF Resume

\* Type correctness is inductive by itself.
LEMMA TypeStep == TypeOK /\ [Next]_vars => TypeOK'
BY TypeArrive, TypeAdmission, TypeEnding, TypeOutside, TypeEnvironment DEF Next

\* Every variable keeps the type the code gives it; in particular a thread
\* in a section about a row names that row.
THEOREM TypeCorrect == Spec => []TypeOK
BY TypeInit, TypeStep, PTL DEF Spec

-----------------------------------------------------------------------------
(* Threads and the process they run in                                     *)

\* What a step of a call that is under way does to the threads.
Moves(t) ==
    /\ th[t] # Resting
    /\ th'[t].op \in {th[t].op, "none", "start"}
    /\ \A u \in Threads \ {t} : th'[u] = th[u]

\* Going on is a move of one thread.
LEMMA GoMoves ==
    ASSUME ThreadsOK, NEW t \in Threads, NEW p, Go(t, p), th[t].pc # "idle"
    PROVE  Moves(t)
BY DEF ThreadsOK, Thread, Go, Moves, Resting

\* Returning is a move of one thread.
LEMMA ReturnMoves ==
    ASSUME ThreadsOK, NEW t \in Threads, Return(t), th[t].pc # "idle"
    PROVE  Moves(t)
BY DEF ThreadsOK, Return, Moves, Resting

\* So is returning to the calling loop.
LEMMA BackMoves ==
    ASSUME ThreadsOK, NEW t \in Threads, BackToCaller(t), th[t].pc # "idle"
    PROVE  Moves(t)
BY DEF ThreadsOK, Thread, BackToCaller, Moves, Resting

\* Every section of begin, activate, use and end moves its thread only.
LEMMA AdmissionMoves ==
    ASSUME TypeOK, NEW t \in Threads, Admission(t)
    PROVE  Moves(t) /\ UNCHANGED host
<1> USE GoMoves, ReturnMoves DEF TypeOK
<1>1. CASE LoopReturns(t)
  BY <1>1 DEF LoopReturns, LoopOver
<1>2. CASE NextRow(t)
  BY <1>2 DEF NextRow, At, Moves, ThreadsOK, Thread, Resting
<1>3. ASSUME NEW w \in Workflows, Begin(t, w) PROVE Moves(t) /\ UNCHANGED host
  BY <1>3 DEF Begin, LoopOver
<1>4. ASSUME NEW w \in Workflows, NEW g \in Generations, Locate(t, w, g)
      PROVE  Moves(t) /\ UNCHANGED host
  BY <1>4 DEF Locate, LoopOver, Moves, ThreadsOK, Thread, Resting
<1>5. CASE EnterReserved(t) \/ EnterReturns(t)
  BY <1>5 DEF EnterReserved, EnterReturns, At
<1>6. CASE Dequeue(t) \/ Admit(t) \/ AdmitRefused(t) \/ EndAllowed(t)
  BY <1>6 DEF Dequeue, Admit, AdmitRefused, EndAllowed, At
<1>7. QED BY <1>1, <1>2, <1>3, <1>4, <1>5, <1>6 DEF Admission

\* Every section of _end, close and recover moves its thread only.
LEMMA EndingMoves ==
    ASSUME TypeOK, NEW t \in Threads, Ending(t)
    PROVE  Moves(t) /\ (UNCHANGED host \/ CloseReturns(t) \/ RecoverReturns(t))
<1> USE GoMoves, ReturnMoves, BackMoves DEF TypeOK, At
<1>1. CASE Probe(t) \/ ProbeRefused(t) \/ ProbeClear(t)
  BY <1>1 DEF Probe, ProbeRefused, ProbeClear
<1>2. CASE EndTerminal(t) \/ EndEnters(t) \/ EndGateTimeout(t)
  BY <1>2 DEF EndTerminal, EndEnters, EndGateTimeout
<1>3. CASE EndCloses(t)
  BY <1>3 DEF EndCloses, Moves, ThreadsOK, Thread, Resting
<1>4. CASE DrainDone(t) \/ DrainTimeout(t) \/ Cleanup(t) \/ CleanupFails(t) \/ EndFinishes(t)
  BY <1>4 DEF DrainDone, DrainTimeout, Cleanup, CleanupFails, EndFinishes, Blocked
<1>5. CASE CloseReturns(t) \/ RecoverReturns(t)
  BY <1>5 DEF CloseReturns, RecoverReturns, LoopOver
<1>6. QED BY <1>1, <1>2, <1>3, <1>4, <1>5 DEF Ending

\* The factory and the tool calls move their thread only.
LEMMA OutsideMoves ==
    ASSUME TypeOK, NEW t \in Threads, Outside(t)
    PROVE  Moves(t) /\ UNCHANGED host
BY GoMoves, ReturnMoves
DEF TypeOK, Outside, FactoryFails, FactoryReturns, Leave, At

\* A move within one process keeps what is known of it.
LEMMA ProcessMoves ==
    ASSUME ProcessKnown, NEW t \in Threads, Moves(t), UNCHANGED host
    PROVE  ProcessKnown'
BY DEF ProcessKnown, Moves, Closed

\* An arriving call occupies one resting thread.
LEMMA StartMoves ==
    ASSUME ThreadsOK, NEW t \in Threads, NEW o, NEW p, NEW w, NEW g, NEW todo,
           Start(t, o, p, w, g, todo)
    PROVE  /\ th[t] = Resting /\ th'[t].op = o
           /\ \A u \in Threads \ {t} : th'[u] = th[u]
BY DEF ThreadsOK, Start

\* The section an arriving call runs first.
First == {"loop", "release", "endwait", "queue", "admit"}

\* Every arrival but close and boot starts in a first section.
LEMMA ArriveStarts ==
    ASSUME NEW t \in Threads, Arrive(t)
    PROVE  \E p \in First : \E o, w, g, todo : Start(t, o, p, w, g, todo)
<1>1. CASE Expire(t)
  <2>1. PICK o : Start(t, o, "loop", NoWorkflow, 0, {w \in idle : state[w] = "ACTIVE"})
    BY <1>1 DEF Expire
  <2>2. QED BY <2>1 DEF First
<1>2. CASE Close(t)
  BY <1>2 DEF Close, First
<1>3. CASE Boot(t)
  <2>1. PICK todo : Start(t, "recover", "loop", NoWorkflow, 0, todo)
    BY <1>3 DEF Boot
  <2>2. QED BY <2>1 DEF First
<1>4. ASSUME NEW w, Release(t, w) PROVE \E p \in First : \E o, v, g, todo : Start(t, o, p, v, g, todo)
  BY <1>4 DEF Release, First
<1>5. ASSUME NEW w, NEW g, End(t, w, g) PROVE \E p \in First : \E o, v, h, todo : Start(t, o, p, v, h, todo)
  BY <1>5 DEF End, First
<1>6. ASSUME NEW k, NEW w, NEW g, Use(t, k, w, g) PROVE \E p \in First : \E o, v, h, todo : Start(t, o, p, v, h, todo)
  <2>1. Start(t, k, "queue", w, g, {}) \/ Start(t, k, "admit", w, g, {})
    BY <1>6 DEF Use
  <2>2. QED BY <2>1 DEF First
<1>7. QED BY <1>1, <1>2, <1>3, <1>4, <1>5, <1>6 DEF Arrive

\* What is known of the process is inductive.
LEMMA ProcessStep ==
    ASSUME TypeOK, ProcessKnown, [Next]_vars
    PROVE  ProcessKnown'
<1> USE DEF TypeOK
<1>1. ASSUME NEW t \in Threads, Admission(t) \/ Outside(t) PROVE ProcessKnown'
  BY <1>1, AdmissionMoves, OutsideMoves, ProcessMoves
<1>2. ASSUME NEW t \in Threads, CloseReturns(t) PROVE ProcessKnown'
  <2>1. Moves(t) /\ Closed /\ th[t].op # "recover"
    BY <1>2, EndingMoves DEF Ending, CloseReturns, LoopOver, ProcessKnown
  <2>2. Closed' /\ \A u \in Threads : th[u].op # "recover"
    BY <1>2, <2>1 DEF CloseReturns, ProcessKnown, Closed
  <2>3. QED BY <2>1, <2>2 DEF ProcessKnown, Moves, Closed
<1>3. ASSUME NEW t \in Threads, RecoverReturns(t) PROVE ProcessKnown'
  <2>1. Moves(t) /\ th[t].op = "recover" /\ th'[t] = Resting /\ host = "recovering"
    BY <1>3, EndingMoves DEF Ending, RecoverReturns, LoopOver, Return, ProcessKnown, ThreadsOK
  <2>2. \A u \in Threads : th'[u].op \notin {"recover", "close"}
    BY <2>1 DEF Moves, ProcessKnown, Closed, Resting
  <2>3. host' = "open"
    BY <1>3 DEF RecoverReturns
  <2>4. QED BY <2>2, <2>3 DEF ProcessKnown
<1>4. ASSUME NEW t \in Threads, Ending(t) PROVE ProcessKnown'
  BY <1>2, <1>3, <1>4, EndingMoves, ProcessMoves
<1>5. ASSUME NEW t \in Threads, Arrive(t) PROVE ProcessKnown'
  <2>1. ASSUME NEW o \in {"begin", "activate", "expire", "release", "end"} \cup Kinds,
               NEW p, NEW w, NEW g, NEW todo, Start(t, o, p, w, g, todo),
               Serving, UNCHANGED host
        PROVE  ProcessKnown'
    <3>1. o \notin {"close", "recover"}
      BY ConstantsAssumption
    <3>2. QED BY <2>1, <3>1, StartMoves DEF ProcessKnown, Closed, Serving
  <2>2. CASE Expire(t)
    BY <2>1, <2>2 DEF Expire
  <2>3. CASE Close(t)
    <3>1. Start(t, "close", "loop", NoWorkflow, 0, Remaining)
      BY <2>3 DEF Close
    <3>2. QED BY <2>3, <3>1, StartMoves DEF Close, ProcessKnown, Closed
  <2>4. CASE Boot(t)
    <3>1. PICK todo : Start(t, "recover", "loop", NoWorkflow, 0, todo)
      BY <2>4 DEF Boot
    <3>2. host = "down" /\ host' = "recovering"
      BY <2>4 DEF Boot
    <3>3. QED BY <3>1, <3>2, StartMoves DEF ProcessKnown, Closed, Resting
  <2>5. ASSUME NEW w \in Workflows, Release(t, w) PROVE ProcessKnown'
    BY <2>1, <2>5 DEF Release
  <2>6. ASSUME NEW w \in Workflows, NEW g \in Generations,
               End(t, w, g) \/ \E k \in Kinds : Use(t, k, w, g)
        PROVE  ProcessKnown'
    BY <2>1, <2>6 DEF End, Use
  <2>7. QED BY <1>5, <2>2, <2>3, <2>4, <2>5, <2>6 DEF Arrive
<1>6. CASE Crash
  BY <1>6 DEF Crash, ProcessKnown, Resting
<1>7. CASE Resume \/ Clock \/ UNCHANGED vars
  BY <1>7
  DEF Resume, Rotate, Replay, Clock, ReservationLapses, ActivityLapses,
      ResponseLapses, vars, ProcessKnown, Closed
<1>8. QED BY <1>1, <1>4, <1>5, <1>6, <1>7 DEF Next

-----------------------------------------------------------------------------
(* The cached states                                                       *)

\* A step that changes no row keeps the cache in agreement.
LEMMA CacheKept ==
    ASSUME CacheAgrees, UNCHANGED rows, due \subseteq due', host # "down" \/ host' = "down"
    PROVE  CacheAgrees'
BY DEF CacheAgrees, rows, Overdue

\* _state writes the row and its cached copy.
LEMMA CacheSet ==
    ASSUME RowsOK, CacheAgrees, NEW w \in Workflows, NEW s, SetState(w, s),
           UNCHANGED <<host, due>>
    PROVE  CacheAgrees'
BY DEF RowsOK, CacheAgrees, SetState, Overdue

\* expire may cache a lapse before it stores it, never the reverse.
LEMMA CacheLapses ==
    ASSUME RowsOK, CacheAgrees, host # "down", due \subseteq due',
           state' = Lapsed(state, due), metadata' = Lapsed(metadata, due')
    PROVE  CacheAgrees'
BY DEF RowsOK, CacheAgrees, Lapsed, Overdue

\* Arrivals keep the cache in agreement.
LEMMA CacheArrive ==
    ASSUME TypeOK, CacheAgrees, NEW t \in Threads, Arrive(t)
    PROVE  CacheAgrees'
<1> USE DEF TypeOK
<1>1. CASE Expire(t)
  BY <1>1, CacheLapses DEF Expire, Serving
<1>2. CASE Close(t)
  BY <1>2, CacheKept DEF Close, env
<1>3. CASE Boot(t)
  BY <1>3 DEF Boot, CacheAgrees
<1>4. ASSUME NEW w \in Workflows, Release(t, w) PROVE CacheAgrees'
  BY <1>4, CacheKept DEF Release, env
<1>5. ASSUME NEW w \in Workflows, NEW g \in Generations, End(t, w, g) PROVE CacheAgrees'
  BY <1>5, CacheKept DEF End, env
<1>6. ASSUME NEW w \in Workflows, NEW g \in Generations, NEW k \in Kinds, Use(t, k, w, g)
      PROVE  CacheAgrees'
  BY <1>6, CacheKept DEF Use, env
<1>7. QED BY <1>1, <1>2, <1>3, <1>4, <1>5, <1>6 DEF Arrive

\* So do begin, activate, use and end.
LEMMA CacheAdmission ==
    ASSUME TypeOK, CacheAgrees, NEW t \in Threads, Admission(t)
    PROVE  CacheAgrees'
<1> USE DEF TypeOK
<1>1. ASSUME UNCHANGED <<rows, host, due>> PROVE CacheAgrees'
  BY <1>1, CacheKept
<1>2. ASSUME NEW w \in Workflows, Begin(t, w) PROVE CacheAgrees'
  BY <1>2 DEF Begin, CacheAgrees, RowsOK, Lapsed, Overdue, Terminal, env
<1>3. CASE EnterReserved(t)
  BY <1>3, CacheSet DEF EnterReserved, At, ThreadsOK, Thread
<1>4. CASE EnterReturns(t)
  BY <1>4, <1>1, CacheSet DEF EnterReturns, At, ThreadsOK, Thread
<1>5. QED
  BY <1>1, <1>2, <1>3, <1>4
  DEF Admission, LoopReturns, NextRow, Locate, Dequeue, Admit, AdmitRefused,
      EndAllowed, env

\* So do _end, close and recover.
LEMMA CacheEnding ==
    ASSUME TypeOK, ProcessKnown, CacheAgrees, NEW t \in Threads, Ending(t)
    PROVE  CacheAgrees'
<1> USE DEF TypeOK
<1>1. ASSUME UNCHANGED <<rows, host, due>> PROVE CacheAgrees'
  BY <1>1, CacheKept
<1>2. ASSUME NEW s \in States, SetState(th[t].wf, s), UNCHANGED <<host, due>>,
             th[t].pc \notin {"idle", "loop"}
      PROVE  CacheAgrees'
  BY <1>2, CacheSet DEF ThreadsOK, Thread
<1>3. CASE CloseReturns(t)
  BY <1>3, CacheKept DEF CloseReturns, LoopOver, ProcessKnown, Closed, env
<1>4. CASE RecoverReturns(t)
  BY <1>4, CacheLapses DEF RecoverReturns, LoopOver, ProcessKnown, env
<1>5. CASE EndCloses(t)
  BY <1>5, <1>2 DEF EndCloses, At, States, env
<1>6. CASE EndGateTimeout(t)
  BY <1>6, <1>1, <1>2 DEF EndGateTimeout, At, States, env
<1>7. CASE DrainTimeout(t) \/ CleanupFails(t)
  BY <1>7, <1>2 DEF DrainTimeout, CleanupFails, Blocked, At, States, env
<1>8. CASE EndFinishes(t)
  BY <1>8, <1>2 DEF EndFinishes, At, States, Terminal, env
<1>9. QED
  BY <1>1, <1>3, <1>4, <1>5, <1>6, <1>7, <1>8
  DEF Ending, Probe, ProbeRefused, ProbeClear, EndTerminal, EndEnters, DrainDone,
      Cleanup, env

\* Agreement of the cache is inductive, given the types.
LEMMA CacheStep ==
    ASSUME TypeOK, ProcessKnown, CacheAgrees, [Next]_vars
    PROVE  CacheAgrees'
<1> USE DEF TypeOK
<1>1. ASSUME NEW t \in Threads, Outside(t) PROVE CacheAgrees'
  <2>1. th[t].wf \in Workflows \/ At(t, "body")
    BY <1>1 DEF Outside, FactoryFails, FactoryReturns, Leave, At, ThreadsOK, Thread
  <2>2. QED
    BY <1>1, <2>1, CacheSet, CacheKept
    DEF Outside, FactoryFails, FactoryReturns, Leave, At, env
<1>2. CASE Resume \/ Clock
  BY <1>2, CacheKept
  DEF Resume, Rotate, Replay, Clock, ReservationLapses, ActivityLapses,
      ResponseLapses, env
<1>3. CASE Crash
  BY <1>3 DEF Crash, CacheAgrees
<1>4. CASE UNCHANGED vars
  BY <1>4, CacheKept DEF vars, env
<1>5. QED
  BY <1>1, <1>2, <1>3, <1>4, CacheArrive, CacheAdmission, CacheEnding DEF Next

\* What closed_operation_owners() reports from the cache is what the database
\* says, or is about to say.
THEOREM CacheCorrect == Spec => []CacheAgrees
<1> DEFINE I == TypeOK /\ ProcessKnown /\ CacheAgrees
<1>1. Init => I
  BY TypeInit DEF Init, ProcessKnown, CacheAgrees, Resting
<1>2. I /\ [Next]_vars => I'
  BY TypeStep, ProcessStep, CacheStep
<1>3. QED BY <1>1, <1>2, PTL DEF Spec

-----------------------------------------------------------------------------
(* The rows close and recover end                                          *)

\* A thread of close or recover that stays in its sections.
LEMMA DirectKept ==
    ASSUME DirectEnds, NEW t \in Threads, Moves(t),
           th'[t].op \in {"close", "recover"} =>
               th'[t].pc \notin {"release", "probe", "endwait", "enter", "factory"}
    PROVE  DirectEnds'
BY DEF DirectEnds, Moves

\* A thread that is back in its loop.
LEMMA DirectReturned ==
    ASSUME TypeOK, DirectEnds, NEW t \in Threads, Moves(t), Return(t) \/ BackToCaller(t)
    PROVE  DirectEnds'
<1>1. CASE Return(t)
  BY <1>1, DirectKept DEF TypeOK, ThreadsOK, Return, Resting
<1>2. CASE BackToCaller(t)
  <2>1. th'[t].pc \in {"idle", "loop"}
    BY <1>2 DEF TypeOK, ThreadsOK, Thread, BackToCaller, Resting
  <2>2. QED BY <2>1, DirectKept
<1>3. QED BY <1>1, <1>2

\* A thread that goes on to a section of _end.
LEMMA DirectGone ==
    ASSUME TypeOK, DirectEnds, NEW t \in Threads, Moves(t), NEW p, Go(t, p),
           \/ p \notin {"release", "probe", "endwait", "enter", "factory"}
           \/ th[t].pc \in {"release", "probe", "endwait", "enter", "factory"}
    PROVE  DirectEnds'
BY DirectKept DEF TypeOK, ThreadsOK, Thread, Go, DirectEnds

\* close and recover never enter the sections of begin, activate and use.
LEMMA DirectAdmission ==
    ASSUME TypeOK, DirectEnds, NEW t \in Threads, Admission(t)
    PROVE  DirectEnds'
<1> USE AdmissionMoves, DirectReturned, DirectGone DEF At
<1>1. CASE LoopReturns(t)
  BY <1>1 DEF LoopReturns
<1>2. CASE NextRow(t)
  <2>1. th'[t].op \in {"close", "recover"} => th'[t].pc = "end"
    BY <1>2 DEF NextRow, TypeOK, ThreadsOK, Thread
  <2>2. QED BY <2>1, DirectKept
<1>3. ASSUME NEW w \in Workflows, Begin(t, w) PROVE DirectEnds'
  BY <1>3 DEF Begin
<1>4. ASSUME NEW w \in Workflows, NEW g \in Generations, Locate(t, w, g) PROVE DirectEnds'
  <2>1. th'[t].op = "start"
    BY <1>4 DEF Locate, TypeOK, ThreadsOK, Thread
  <2>2. QED BY <2>1, DirectKept
<1>5. CASE EnterReserved(t) \/ EnterReturns(t)
  BY <1>5 DEF EnterReserved, EnterReturns
<1>6. CASE Dequeue(t) \/ Admit(t) \/ AdmitRefused(t) \/ EndAllowed(t)
  BY <1>6 DEF Dequeue, Admit, AdmitRefused, EndAllowed
<1>7. QED BY <1>1, <1>2, <1>3, <1>4, <1>5, <1>6 DEF Admission

\* close and recover go straight through _end.
LEMMA DirectEnding ==
    ASSUME TypeOK, DirectEnds, NEW t \in Threads, Ending(t)
    PROVE  DirectEnds'
<1> USE EndingMoves, DirectReturned, DirectGone DEF At
<1>1. CASE Probe(t) \/ ProbeRefused(t) \/ ProbeClear(t)
  BY <1>1 DEF Probe, ProbeRefused, ProbeClear
<1>2. CASE EndTerminal(t) \/ EndEnters(t) \/ EndGateTimeout(t)
  BY <1>2 DEF EndTerminal, EndEnters, EndGateTimeout
<1>3. CASE EndCloses(t)
  <2>1. th'[t].pc = "endgate"
    BY <1>3 DEF EndCloses, TypeOK, ThreadsOK, Thread
  <2>2. QED BY <2>1, DirectKept
<1>4. CASE DrainDone(t) \/ DrainTimeout(t) \/ Cleanup(t) \/ CleanupFails(t) \/ EndFinishes(t)
  BY <1>4 DEF DrainDone, DrainTimeout, Cleanup, CleanupFails, EndFinishes, Blocked
<1>5. CASE CloseReturns(t) \/ RecoverReturns(t)
  BY <1>5 DEF CloseReturns, RecoverReturns
<1>6. QED BY <1>1, <1>2, <1>3, <1>4, <1>5 DEF Ending

\* Where close and recover can be is inductive.
LEMMA DirectStep ==
    ASSUME TypeOK, DirectEnds, [Next]_vars
    PROVE  DirectEnds'
<1>1. ASSUME NEW t \in Threads, Outside(t) PROVE DirectEnds'
  BY <1>1, OutsideMoves, DirectReturned, DirectGone
  DEF Outside, FactoryFails, FactoryReturns, Leave
<1>2. ASSUME NEW t \in Threads, NEW o, NEW p, NEW w, NEW g, NEW todo,
             Start(t, o, p, w, g, todo),
             p = "loop" \/ o \notin {"close", "recover"}
      PROVE  DirectEnds'
  BY <1>2, StartMoves DEF Start, DirectEnds, TypeOK, ThreadsOK
<1>3. ASSUME NEW t \in Threads, Arrive(t) PROVE DirectEnds'
  <2>1. CASE Expire(t) \/ Close(t) \/ Boot(t)
    BY <1>2, <2>1 DEF Expire, Close, Boot
  <2>2. ASSUME NEW w \in Workflows, Release(t, w) PROVE DirectEnds'
    BY <1>2, <2>2 DEF Release
  <2>3. ASSUME NEW w \in Workflows, NEW g \in Generations,
               End(t, w, g) \/ \E k \in Kinds : Use(t, k, w, g)
        PROVE  DirectEnds'
    BY <1>2, <2>3, ConstantsAssumption DEF End, Use
  <2>4. QED BY <1>3, <2>1, <2>2, <2>3 DEF Arrive
<1>4. CASE Crash
  BY <1>4 DEF Crash, DirectEnds, Resting
<1>5. CASE Resume \/ Clock \/ UNCHANGED vars
  BY <1>5
  DEF Resume, Rotate, Replay, Clock, ReservationLapses, ActivityLapses,
      ResponseLapses, vars, DirectEnds
<1>6. QED
  BY <1>1, <1>3, <1>4, <1>5, DirectAdmission, DirectEnding DEF Next

-----------------------------------------------------------------------------
(* The gates                                                               *)

\* Only the thread t moves.
Only(t) == \A u \in Threads \ {t} : th'[u] = th[u]
Holds(t, w) == HoldsGate(t) /\ th[t].wf = w

\* No gate changes hands while the thread holds the same one.
LEMMA GatesKept ==
    ASSUME GateHeld, NEW t \in Threads, UNCHANGED gate, Only(t),
           \A w \in Workflows : Holds(t, w)' <=> Holds(t, w)
    PROVE  GateHeld'
BY DEF GateHeld, Only, Holds, HoldsGate

\* A free gate is taken by the thread that needs it.
LEMMA GateTaken ==
    ASSUME LocksOK, GateHeld, NEW t \in Threads, NEW w \in Workflows, Only(t),
           gate[w] \in {NoThread, t}, gate' = [gate EXCEPT ![w] = t],
           Holds(t, w)', \A v \in Workflows : Holds(t, v) => v = w
    PROVE  GateHeld'
BY ConstantsAssumption DEF LocksOK, GateHeld, Only, Holds, HoldsGate

\* A gate is freed by the thread that leaves its section.
LEMMA GateFreed ==
    ASSUME LocksOK, GateHeld, NEW t \in Threads, Only(t), gate' = Free(gate, t),
           \A w \in Workflows : ~Holds(t, w)'
    PROVE  GateHeld'
BY ConstantsAssumption DEF LocksOK, GateHeld, Only, Holds, HoldsGate, Free

\* A thread that is back in a loop, or has returned, holds no gate.
LEMMA GateReturned ==
    ASSUME TypeOK, GateHeld, NEW t \in Threads, gate' = Free(gate, t),
           Return(t) \/ BackToCaller(t)
    PROVE  GateHeld'
<1>1. Only(t)
  BY DEF TypeOK, ThreadsOK, Return, BackToCaller, Only
<1>2. th'[t].pc \in {"idle", "loop"}
  <2>1. CASE Return(t)
    BY <2>1 DEF TypeOK, ThreadsOK, Return, Resting
  <2>2. CASE BackToCaller(t)
    BY <2>2 DEF TypeOK, ThreadsOK, Thread, BackToCaller, Resting
  <2>3. QED BY <2>1, <2>2
<1>3. \A w \in Workflows : ~Holds(t, w)'
  BY <1>2 DEF Holds, HoldsGate
<1>4. QED BY <1>1, <1>3, GateFreed DEF TypeOK

\* An arriving call holds no gate.
LEMMA GateStarted ==
    ASSUME TypeOK, GateHeld, NEW t \in Threads, NEW o, NEW p, NEW w, NEW g, NEW todo,
           Start(t, o, p, w, g, todo), UNCHANGED gate,
           p \in First
    PROVE  GateHeld'
<1>1. Only(t) /\ \A v \in Workflows : ~Holds(t, v) /\ ~Holds(t, v)'
  BY DEF TypeOK, ThreadsOK, Thread, Start, First, Only, Holds, HoldsGate, Resting
<1>2. QED BY <1>1, GatesKept

\* Arrivals keep the gates with their holders.
LEMMA GateArrive ==
    ASSUME TypeOK, GateHeld, NEW t \in Threads, Arrive(t)
    PROVE  GateHeld'
<1>1. UNCHANGED gate
  BY DEF Arrive, Expire, Close, Boot, Release, End, Use, locks
<1>2. PICK p \in First : \E o, w, g, todo : Start(t, o, p, w, g, todo)
  BY ArriveStarts
<1>3. QED BY <1>1, <1>2, GateStarted

\* So do begin, activate, use and end.
LEMMA GateAdmission ==
    ASSUME TypeOK, DirectEnds, GateHeld, NEW t \in Threads, Admission(t)
    PROVE  GateHeld'
<1> USE DEF TypeOK, At, LoopOver
<1>1. Only(t)
  BY AdmissionMoves DEF Moves, Only
<1>2. CASE LoopReturns(t) \/ AdmitRefused(t) \/ EnterReturns(t)
  <2>1. ~HoldsGate(t) /\ ~HoldsGate(t)'
    BY <1>2 DEF LoopReturns, AdmitRefused, EnterReturns, HoldsGate, Return, Resting, ThreadsOK
  <2>2. QED
    BY <1>1, <1>2, <2>1, GatesKept
    DEF LoopReturns, AdmitRefused, EnterReturns, Holds, locks
<1>3. CASE NextRow(t)
  <2>1. ~HoldsGate(t) /\ ~HoldsGate(t)'
    BY <1>3 DEF NextRow, HoldsGate, ThreadsOK, Thread
  <2>2. QED BY <1>1, <1>3, <2>1, GatesKept DEF NextRow, Holds, locks
<1>4. ASSUME NEW w \in Workflows, Begin(t, w) PROVE GateHeld'
  <2>1. ~HoldsGate(t) /\ ~HoldsGate(t)'
    BY <1>4 DEF Begin, HoldsGate, Return, Resting, ThreadsOK
  <2>2. QED BY <1>1, <1>4, <2>1, GatesKept DEF Begin, Holds, locks
<1>5. ASSUME NEW w \in Workflows, NEW g \in Generations, Locate(t, w, g) PROVE GateHeld'
  <2>1. ~HoldsGate(t) /\ ~HoldsGate(t)'
    BY <1>5 DEF Locate, HoldsGate, ThreadsOK, Thread
  <2>2. QED BY <1>1, <1>5, <2>1, GatesKept DEF Locate, Holds, locks
<1>6. CASE EnterReserved(t)
  <2>1. /\ th[t].wf \in Workflows
        /\ \A v \in Workflows : ~Holds(t, v)
    BY <1>6 DEF EnterReserved, HoldsGate, Holds, ThreadsOK, Thread
  <2>2. PICK w \in Workflows : w = th[t].wf
    BY <2>1
  <2>3. Holds(t, w)'
    BY <1>6, <2>2 DEF EnterReserved, Go, HoldsGate, Holds, ThreadsOK, Thread
  <2>4. QED BY <1>1, <1>6, <2>1, <2>2, <2>3, GateTaken DEF EnterReserved
<1>7. CASE Dequeue(t) \/ Admit(t)
  <2>1. ~HoldsGate(t) /\ ~HoldsGate(t)'
    BY <1>7 DEF Dequeue, Admit, Go, HoldsGate, ThreadsOK, Thread
  <2>2. QED BY <1>1, <1>7, <2>1, GatesKept DEF Dequeue, Admit, Holds, locks
<1>8. CASE EndAllowed(t)
  <2>1. PICK w \in Workflows : w = th[t].wf
    BY <1>8 DEF EndAllowed, ThreadsOK, Thread
  <2> \A v \in Workflows : ~Holds(t, v)
    BY <1>8 DEF EndAllowed, Holds, HoldsGate
  <2>2. CASE Accepted(th[t].wf, th[t].cred)
    <3>1. th[t].op \notin {"close", "recover"}
      BY <1>8 DEF DirectEnds, EndAllowed
    <3>2. Holds(t, w)'
      BY <1>8, <2>1, <2>2, <3>1 DEF EndAllowed, Go, HoldsGate, Holds, ThreadsOK, Thread
    <3>3. QED BY <1>1, <1>8, <2>1, <2>2, <3>2, GateTaken DEF EndAllowed
  <2>3. CASE ~Accepted(th[t].wf, th[t].cred)
    <3>1. ~HoldsGate(t)'
      BY <1>8, <2>3 DEF EndAllowed, Return, HoldsGate, Resting, ThreadsOK
    <3>2. \A v \in Workflows : ~Holds(t, v)'
      BY <3>1 DEF Holds
    <3>3. QED BY <1>1, <1>8, <2>1, <2>3, <3>2, GatesKept DEF EndAllowed
  <2>4. QED BY <2>2, <2>3
<1>9. QED BY <1>2, <1>3, <1>4, <1>5, <1>6, <1>7, <1>8 DEF Admission

\* So do _end, close and recover.
LEMMA GateEnding ==
    ASSUME TypeOK, DirectEnds, GateHeld, NEW t \in Threads, Ending(t)
    PROVE  GateHeld'
<1> USE DEF TypeOK, At, LoopOver
<1>1. Only(t)
  BY EndingMoves DEF Moves, Only
<1>2. ASSUME NEW p, Go(t, p), HoldsGate(t), UNCHANGED gate,
             \/ p \in {"cleanup", "cleaned"}
             \/ p = "end" /\ th[t].op \notin {"close", "recover"}
      PROVE  GateHeld'
  <2>1. \A w \in Workflows : Holds(t, w)' <=> Holds(t, w)
    BY <1>2 DEF Go, Holds, HoldsGate, ThreadsOK, Thread
  <2>2. QED BY <1>1, <1>2, <2>1, GatesKept
<1>3. CASE Probe(t)
  <2>1. PICK w \in Workflows : w = th[t].wf
    BY <1>3 DEF Probe, ThreadsOK, Thread
  <2>2. \A v \in Workflows : ~Holds(t, v)
    BY <1>3 DEF Probe, Holds, HoldsGate
  <2>3. Holds(t, w)'
    BY <1>3, <2>1 DEF Probe, Go, HoldsGate, Holds, ThreadsOK, Thread
  <2>4. QED BY <1>1, <1>3, <2>1, <2>2, <2>3, GateTaken DEF Probe
<1>4. CASE ProbeRefused(t) \/ EndTerminal(t) \/ EndGateTimeout(t)
  BY <1>4, GateReturned DEF ProbeRefused, EndTerminal, EndGateTimeout, BackToCaller
<1>5. CASE ProbeClear(t)
  <2>1. th[t].op \notin {"close", "recover"}
    BY <1>5 DEF ProbeClear, DirectEnds
  <2>2. QED BY <1>2, <1>5, <2>1 DEF ProbeClear, HoldsGate, locks
<1>6. CASE EndCloses(t)
  <2>1. \A w \in Workflows : Holds(t, w)' <=> Holds(t, w)
    BY <1>6 DEF EndCloses, Holds, HoldsGate, ThreadsOK, Thread
  <2>2. QED BY <1>1, <1>6, <2>1, GatesKept DEF EndCloses, locks
<1>7. CASE EndEnters(t)
  <2>1. PICK w \in Workflows : w = th[t].wf
    BY <1>7 DEF EndEnters, ThreadsOK, Thread
  <2>2. CASE metadata[w] = "ENDED"
    BY <1>7, <2>1, <2>2, GateReturned DEF EndEnters, BackToCaller
  <2>3. CASE metadata[w] # "ENDED"
    <3>1. \A v \in Workflows : Holds(t, v) => v = w
      BY <2>1 DEF Holds
    <3>2. Holds(t, w)'
      BY <1>7, <2>1, <2>3 DEF EndEnters, Go, HoldsGate, Holds, ThreadsOK, Thread
    <3>3. QED BY <1>1, <1>7, <2>1, <2>3, <3>1, <3>2, GateTaken DEF EndEnters
  <2>4. QED BY <2>2, <2>3
<1>8. CASE DrainDone(t)
  BY <1>2, <1>8 DEF DrainDone, HoldsGate, locks
<1>9. CASE DrainTimeout(t) \/ CleanupFails(t) \/ EndFinishes(t)
  BY <1>9, GateReturned DEF DrainTimeout, CleanupFails, Blocked, EndFinishes, BackToCaller
<1>10. CASE Cleanup(t)
  BY <1>2, <1>10 DEF Cleanup, HoldsGate, locks
<1>11. CASE CloseReturns(t) \/ RecoverReturns(t)
  <2>1. \A w \in Workflows : ~Holds(t, w) /\ ~Holds(t, w)'
    BY <1>11 DEF CloseReturns, RecoverReturns, Return, Holds, HoldsGate, Resting, ThreadsOK
  <2>2. QED BY <1>1, <1>11, <2>1, GatesKept DEF CloseReturns, RecoverReturns, locks
<1>12. QED
  BY <1>3, <1>4, <1>5, <1>6, <1>7, <1>8, <1>9, <1>10, <1>11 DEF Ending

\* So do the factory and the tool calls.
LEMMA GateOutside ==
    ASSUME TypeOK, DirectEnds, GateHeld, NEW t \in Threads, Outside(t)
    PROVE  GateHeld'
<1> USE DEF TypeOK, At
<1>1. Only(t)
  BY OutsideMoves DEF Moves, Only
<1>2. CASE FactoryFails(t)
  BY <1>2, GateReturned DEF FactoryFails
<1>3. CASE FactoryReturns(t)
  <2>1. CASE Go(t, "end") /\ UNCHANGED gate
    <3>1. th[t].op \notin {"close", "recover"}
      BY <1>3 DEF FactoryReturns, DirectEnds
    <3>2. \A w \in Workflows : Holds(t, w)' <=> Holds(t, w)
      BY <1>3, <2>1, <3>1 DEF FactoryReturns, Go, Holds, HoldsGate, ThreadsOK, Thread
    <3>3. QED BY <1>1, <2>1, <3>2, GatesKept
  <2>2. CASE Return(t) /\ gate' = Free(gate, t)
    BY <2>2, GateReturned
  <2>3. QED BY <1>3, <2>1, <2>2 DEF FactoryReturns
<1>4. CASE Leave(t)
  <2>1. \A w \in Workflows : ~Holds(t, w) /\ ~Holds(t, w)'
    BY <1>4 DEF Leave, Return, Holds, HoldsGate, Resting, ThreadsOK
  <2>2. QED BY <1>1, <1>4, <2>1, GatesKept DEF Leave
<1>5. QED BY <1>2, <1>3, <1>4 DEF Outside

\* A gate is held exactly by the thread in its sections: inductive.
LEMMA GateStep ==
    ASSUME TypeOK, DirectEnds, GateHeld, [Next]_vars
    PROVE  GateHeld'
<1>1. CASE Crash
  BY <1>1, ConstantsAssumption DEF Crash, GateHeld, HoldsGate, Resting
<1>2. CASE Resume \/ Clock \/ UNCHANGED vars
  BY <1>2
  DEF Resume, Rotate, Replay, Clock, ReservationLapses, ActivityLapses,
      ResponseLapses, vars, locks, GateHeld, HoldsGate
<1>3. QED
  BY <1>1, <1>2, GateArrive, GateAdmission, GateEnding, GateOutside DEF Next

\* Nobody else is in a section that holds the gate of t's row.
LEMMA GateAlone ==
    ASSUME GateHeld, NEW t \in Threads, NEW u \in Threads, NEW w \in Workflows,
           Holds(t, w), Holds(u, w)
    PROVE  u = t
BY DEF GateHeld, Holds

-----------------------------------------------------------------------------
(* The calls and activations that are counted                              *)

Counted == CallsCounted /\ StartsCounted

\* Most steps neither enter nor leave a tool call or a factory.
LEMMA CountsKept ==
    ASSUME Counted, NEW t \in Threads, UNCHANGED <<starting, inflight>>, Only(t),
           th[t].pc \notin {"body", "factory"}, th'[t].pc \notin {"body", "factory"}
    PROVE  Counted'
<1>1. CallsCounted'
  BY DEF Counted, CallsCounted, At, Only
<1>2. StartsCounted'
  BY DEF Counted, StartsCounted, At, Only
<1>3. QED BY <1>1, <1>2 DEF Counted

\* Where a thread is after going on, returning or starting.
LEMMA ThreadGoes ==
    ASSUME ThreadsOK, NEW t \in Threads
    PROVE  /\ \A p : Go(t, p) => th'[t].pc = p /\ th'[t].wf = th[t].wf
           /\ Return(t) => th'[t].pc = "idle"
           /\ BackToCaller(t) => th'[t].pc \in {"idle", "loop"}
<1>1. \A p : Go(t, p) => th'[t].pc = p /\ th'[t].wf = th[t].wf
  BY DEF ThreadsOK, Thread, Go
<1>2. Return(t) => th'[t].pc = "idle"
  BY DEF ThreadsOK, Return, Resting
<1>3. BackToCaller(t) => th'[t].pc \in {"idle", "loop"}
  BY DEF ThreadsOK, Thread, BackToCaller, Resting
<1>4. QED BY <1>1, <1>2, <1>3

\* Calls and activations are counted as they are let in.
LEMMA CountsAdmission ==
    ASSUME TypeOK, Counted, NEW t \in Threads, Admission(t)
    PROVE  Counted'
<1> USE ThreadGoes, CountsKept DEF TypeOK, At, LoopOver, memory
<1>1. Only(t)
  BY AdmissionMoves DEF Moves, Only
<1>2. CASE LoopReturns(t) \/ AdmitRefused(t) \/ EnterReturns(t) \/ Dequeue(t) \/ EndAllowed(t)
  BY <1>1, <1>2 DEF LoopReturns, AdmitRefused, EnterReturns, Dequeue, EndAllowed
<1>3. CASE NextRow(t)
  <2>1. th'[t].pc \in {"end", "release"}
    BY <1>3 DEF NextRow, ThreadsOK, Thread
  <2>2. QED BY <1>1, <1>3, <2>1 DEF NextRow
<1>4. ASSUME NEW w \in Workflows, Begin(t, w) PROVE Counted'
  BY <1>1, <1>4 DEF Begin
<1>5. ASSUME NEW w \in Workflows, NEW g \in Generations, Locate(t, w, g) PROVE Counted'
  <2>1. th'[t].pc = "enter"
    BY <1>5 DEF Locate, ThreadsOK, Thread
  <2>2. QED BY <1>1, <1>5, <2>1 DEF Locate
<1>6. CASE EnterReserved(t)
  <2>1. th'[t].pc = "factory" /\ th'[t].wf = th[t].wf
    BY <1>6 DEF EnterReserved
  <2>2. CallsCounted'
    BY <1>1, <1>6, <2>1 DEF EnterReserved, Counted, CallsCounted, Only
  <2>3. StartsCounted'
    BY <1>1, <1>6, <2>1 DEF EnterReserved, Counted, StartsCounted, Only
  <2>4. QED BY <2>2, <2>3 DEF Counted
<1>7. CASE Admit(t)
  <2>1. th'[t].pc = "body" /\ th'[t].wf = th[t].wf
    BY <1>7 DEF Admit
  <2>2. CallsCounted'
    BY <1>1, <1>7, <2>1 DEF Admit, Counted, CallsCounted, Only, MemoryOK
  <2>3. StartsCounted'
    BY <1>1, <1>7, <2>1 DEF Admit, Counted, StartsCounted, Only
  <2>4. QED BY <2>2, <2>3 DEF Counted
<1>8. QED BY <1>2, <1>3, <1>4, <1>5, <1>6, <1>7 DEF Admission

\* Ending changes neither count.
LEMMA CountsEnding ==
    ASSUME TypeOK, Counted, NEW t \in Threads, Ending(t)
    PROVE  Counted'
<1> USE ThreadGoes, CountsKept DEF TypeOK, At, LoopOver, memory
<1>1. Only(t)
  BY EndingMoves DEF Moves, Only
<1>2. CASE Probe(t) \/ ProbeRefused(t) \/ ProbeClear(t)
  BY <1>1, <1>2 DEF Probe, ProbeRefused, ProbeClear
<1>3. CASE EndTerminal(t) \/ EndEnters(t) \/ EndGateTimeout(t)
  BY <1>1, <1>3 DEF EndTerminal, EndEnters, EndGateTimeout
<1>4. CASE EndCloses(t)
  <2>1. th'[t].pc = "endgate"
    BY <1>4 DEF EndCloses, ThreadsOK, Thread
  <2>2. QED BY <1>1, <1>4, <2>1 DEF EndCloses
<1>5. CASE DrainDone(t) \/ DrainTimeout(t) \/ Cleanup(t) \/ CleanupFails(t) \/ EndFinishes(t)
  BY <1>1, <1>5 DEF DrainDone, DrainTimeout, Cleanup, CleanupFails, EndFinishes, Blocked
<1>6. CASE CloseReturns(t) \/ RecoverReturns(t)
  BY <1>1, <1>6 DEF CloseReturns, RecoverReturns
<1>7. QED BY <1>2, <1>3, <1>4, <1>5, <1>6 DEF Ending

\* Calls and activations are uncounted as they leave.
LEMMA CountsOutside ==
    ASSUME TypeOK, GateHeld, Counted, NEW t \in Threads, Outside(t)
    PROVE  Counted'
<1> USE ThreadGoes DEF TypeOK, At
<1>1. Only(t)
  BY OutsideMoves DEF Moves, Only
<1>2. CASE FactoryFails(t) \/ FactoryReturns(t)
  <2>1. /\ th[t].pc = "factory" /\ th'[t].pc \in {"idle", "end"}
        /\ starting' = starting \ {th[t].wf} /\ UNCHANGED inflight
    BY <1>2 DEF FactoryFails, FactoryReturns
  <2>2. CallsCounted'
    BY <1>1, <2>1 DEF Counted, CallsCounted, Only
  <2>3. th[t].wf \in Workflows
    BY <2>1 DEF ThreadsOK, Thread
  <2>4. \A u \in Threads \ {t} : th[u].pc = "factory" => th[u].wf # th[t].wf
    BY <2>1, <2>3, GateAlone DEF Holds, HoldsGate
  <2>5. StartsCounted'
    BY <1>1, <2>1, <2>4 DEF Counted, StartsCounted, Only
  <2>6. QED BY <2>2, <2>5 DEF Counted
<1>3. CASE Leave(t)
  <2>1. /\ th[t].pc = "body" /\ th'[t].pc = "idle" /\ UNCHANGED starting
        /\ inflight' = [inflight EXCEPT ![th[t].wf] = @ \ {t}]
    BY <1>3 DEF Leave
  <2>2. CallsCounted'
    BY <1>1, <2>1 DEF Counted, CallsCounted, Only, MemoryOK
  <2>3. StartsCounted'
    BY <1>1, <2>1 DEF Counted, StartsCounted, Only
  <2>4. QED BY <2>2, <2>3 DEF Counted
<1>4. QED BY <1>2, <1>3 DEF Outside

\* The counts of calls and activations are exact: inductive.
LEMMA CountsStep ==
    ASSUME TypeOK, GateHeld, Counted, [Next]_vars
    PROVE  Counted'
<1>1. ASSUME NEW t \in Threads, Arrive(t) PROVE Counted'
  <2>1. UNCHANGED <<starting, inflight>>
    BY <1>1 DEF Arrive, Expire, Close, Boot, Release, End, Use, memory
  <2>2. PICK p \in First : \E o, w, g, todo : Start(t, o, p, w, g, todo)
    BY <1>1, ArriveStarts
  <2>3. Only(t) /\ th[t].pc = "idle" /\ th'[t].pc = p
    BY <2>2 DEF Start, Only, Resting, TypeOK, ThreadsOK
  <2>4. QED BY <2>1, <2>3, CountsKept DEF First
<1>2. CASE Crash
  BY <1>2 DEF Crash, Counted, CallsCounted, StartsCounted, At, Resting
<1>3. CASE Resume \/ Clock \/ UNCHANGED vars
  BY <1>3
  DEF Resume, Rotate, Replay, Clock, ReservationLapses, ActivityLapses,
      ResponseLapses, vars, memory, Counted, CallsCounted, StartsCounted, At
<1>4. QED
  BY <1>1, <1>2, <1>3, CountsAdmission, CountsEnding, CountsOutside DEF Next

-----------------------------------------------------------------------------
(* What a row and its sections own                                         *)

owned == <<state, resources, starting, inflight, debris>>
Unstarted == Terminal \cup {"NONE", "RESERVED"}
OwnInv == UnstartedOwnsNothing /\ SectionsKnow /\ LeasesExclusive
IInv == TypeOK /\ LeaseInv

\* v owns nothing new; and its state is the same.
NoMore(v) ==
    /\ v \in resources' => v \in resources
    /\ v \in starting' => v \in starting
    /\ v \in debris' => v \in debris
    /\ inflight'[v] \subseteq inflight[v]
Same(v) == state'[v] = state[v] /\ NoMore(v)

\* The sections that know something about their row.
Inside(t) == th[t].pc \in {"factory", "endgate", "drain", "cleanup", "cleaned"}

\* The row of a section that holds knowledge is one of these.
LEMMA InsideState ==
    ASSUME NEW t \in Threads, Knows(t), Inside(t)
    PROVE  state[th[t].wf] \in {"STARTING", "CLOSING", "CLEANUP_BLOCKED", "ENDED"}
BY DEF Inside, Knows, At

\* A thread still knows what it knew if its row gained nothing.
LEMMA KnowsSame ==
    ASSUME NEW u \in Threads, Knows(u), th'[u] = th[u], Same(th[u].wf)
    PROVE  Knows(u)'
BY DEF Knows, Same, NoMore, At, OwnsNothing

\* A thread outside these sections has nothing to know.
LEMMA KnowsNothing ==
    ASSUME NEW t \in Threads, ~Inside(t)'
    PROVE  Knows(t)'
BY DEF Knows, At, Inside

\* Only the stepping thread's knowledge has to be checked.
LEMMA OthersKnow ==
    ASSUME SectionsKnow, NEW t \in Threads, Only(t), Knows(t)',
           \A u \in Threads \ {t} : Inside(u) /\ Knows(u) => Same(th[u].wf) \/ Knows(u)'
    PROVE  SectionsKnow'
<1>1. ASSUME NEW u \in Threads \ {t} PROVE Knows(u)'
  <2>1. Knows(u) /\ th'[u] = th[u]
    BY DEF SectionsKnow, Only
  <2>2. CASE ~Inside(u)
    <3>1. ~Inside(u)'
      BY <2>1, <2>2 DEF Inside
    <3>2. QED BY <3>1, KnowsNothing
  <2>3. QED BY <2>1, <2>2, KnowsSame
<1>2. QED BY <1>1 DEF SectionsKnow

\* Leases stay exclusive when none is granted.
LEMMA ExclusiveKept ==
    ASSUME LeasesExclusive, \A v \in Workflows : Leased(v)' => Leased(v)
    PROVE  LeasesExclusive'
BY DEF LeasesExclusive, Conflict

\* Rows that own nothing still do when nothing is gained.
LEMMA UnstartedKept ==
    ASSUME UnstartedOwnsNothing,
           \A v \in Workflows : state'[v] \in Unstarted => state[v] \in Unstarted /\ NoMore(v)
    PROVE  UnstartedOwnsNothing'
BY DEF UnstartedOwnsNothing, OwnsNothing, NoMore, Unstarted

\* A step that changes no row keeps what is known, if it enters no section
\* that knows more.
LEMMA QuietStep ==
    ASSUME OwnInv, UNCHANGED owned, NEW t \in Threads, Only(t), Knows(t)'
    PROVE  OwnInv'
<1>1. \A v : Same(v)
  BY DEF Same, NoMore, owned
<1>2. UnstartedOwnsNothing' /\ LeasesExclusive'
  BY <1>1, UnstartedKept, ExclusiveKept DEF OwnInv, Same, Leased
<1>3. SectionsKnow'
  BY <1>1, OthersKnow DEF OwnInv
<1>4. QED BY <1>2, <1>3 DEF OwnInv

\* A step on the row w that leaves every other row as it is.
LEMMA RowStep ==
    ASSUME OwnInv, NEW t \in Threads, Only(t), NEW w \in Workflows,
           \A v : v # w => Same(v),
           Leased(w)' => Leased(w),
           state'[w] \in Unstarted => OwnsNothing(w)',
           Knows(t)',
           \A u \in Threads \ {t} : Inside(u) /\ Knows(u) /\ th[u].wf = w => Knows(u)'
    PROVE  OwnInv'
<1>1. SectionsKnow'
  BY OthersKnow DEF OwnInv
<1>2. LeasesExclusive'
  BY ExclusiveKept DEF OwnInv, Same, Leased
<1>3. UnstartedOwnsNothing'
  BY DEF OwnInv, UnstartedOwnsNothing, OwnsNothing, Same, NoMore, Unstarted
<1>4. QED BY <1>1, <1>2, <1>3 DEF OwnInv

\* A conflict does not depend on who came first.
LEMMA ConflictSymmetric ==
    ASSUME NEW v \in Workflows, NEW w \in Workflows, Conflict(v, w)
    PROVE  Conflict(w, v)
BY DEF Conflict, Overlap

\* A section of a process that runs sees the cache and the row agree.
LEMMA CacheSeen ==
    ASSUME ProcessKnown, CacheAgrees, NEW t \in Threads, th[t].pc # "idle",
           th[t].wf \in Workflows, state[th[t].wf] # "RESERVED"
    PROVE  metadata[th[t].wf] = state[th[t].wf]
BY DEF ProcessKnown, CacheAgrees, Resting, Overdue

\* Ownership survives begin, activate, use and end.
LEMMA OwnAdmission ==
    ASSUME IInv, NEW t \in Threads, Admission(t)
    PROVE  OwnInv'
<1> USE ThreadGoes, KnowsNothing DEF At
<1>1. Only(t) /\ ThreadsOK /\ OwnInv
  BY AdmissionMoves DEF Moves, Only, IInv, LeaseInv, OwnInv, TypeOK
<1>2. CASE LoopReturns(t) \/ Dequeue(t) \/ AdmitRefused(t) \/ EndAllowed(t)
  <2>1. UNCHANGED owned /\ ~Inside(t)'
    BY <1>1, <1>2
    DEF LoopReturns, Dequeue, AdmitRefused, EndAllowed, owned, rows, memory, env, Inside
  <2>2. QED BY <1>1, <2>1, QuietStep
<1>3. CASE NextRow(t)
  <2>1. ~Inside(t)'
    BY <1>1, <1>3 DEF NextRow, ThreadsOK, Thread, Inside
  <2>2. UNCHANGED owned
    BY <1>3 DEF NextRow, owned, rows, memory, env
  <2>3. QED BY <1>1, <2>1, <2>2, QuietStep
<1>4. ASSUME NEW w \in Workflows, NEW g \in Generations, Locate(t, w, g) PROVE OwnInv'
  <2>1. ~Inside(t)'
    BY <1>1, <1>4 DEF Locate, ThreadsOK, Thread, Inside
  <2>2. UNCHANGED owned
    BY <1>4 DEF Locate, owned, rows, memory, env
  <2>3. QED BY <1>1, <2>1, <2>2, QuietStep
<1>5. ASSUME NEW w \in Workflows, Begin(t, w) PROVE OwnInv'
  <2> DEFINE rest == {v \in Workflows : Leased(v) /\ ~(state[v] = "RESERVED" /\ v \in due)}
  <2>1. /\ state[w] = "NONE" /\ \A v \in rest : ~Conflict(v, w)
        /\ state' = [Lapsed(state, due) EXCEPT ![w] = "RESERVED"]
        /\ UNCHANGED <<memory, env>> /\ ~Inside(t)'
    BY <1>1, <1>5 DEF Begin, Inside
  <2>2. \A v \in Workflows : v # w =>
            state'[v] = IF state[v] = "RESERVED" /\ v \in due THEN "EXPIRED" ELSE state[v]
    BY <2>1 DEF Lapsed
  <2>3. state'[w] = "RESERVED"
    BY <1>1, <2>1 DEF Lapsed, IInv, TypeOK, RowsOK
  <2>4. \A v : NoMore(v)
    BY <2>1 DEF NoMore, memory, env
  <2>5. SectionsKnow'
    <3>1. ASSUME NEW u \in Threads \ {t}, Inside(u), Knows(u) PROVE Same(th[u].wf)
      <4>1. state[th[u].wf] \notin {"NONE", "RESERVED"} /\ th[u].wf \in Workflows
        BY <1>1, <3>1, InsideState DEF ThreadsOK, Thread, Inside
      <4>2. QED BY <2>1, <2>2, <2>4, <4>1 DEF Same
    <3>2. QED BY <1>1, <2>1, <3>1, OthersKnow DEF OwnInv
  <2>6. UnstartedOwnsNothing'
    BY <1>1, <2>1, <2>2, <2>4, UnstartedKept DEF OwnInv, Unstarted, Terminal
  <2>7. LeasesExclusive'
    <3>1. \A v \in Workflows : Leased(v)' => v = w \/ v \in rest
      BY <2>2 DEF Leased, Terminal
    <3>2. \A v \in rest : ~Conflict(v, w) /\ ~Conflict(w, v)
      BY <2>1, ConflictSymmetric
    <3>3. QED BY <1>1, <3>1, <3>2 DEF OwnInv, LeasesExclusive, Conflict
  <2>8. QED BY <2>5, <2>6, <2>7 DEF OwnInv
<1>6. CASE EnterReserved(t)
  <2> DEFINE w == th[t].wf
  <2>1. /\ w \in Workflows /\ state[w] = "RESERVED"
        /\ state' = [state EXCEPT ![w] = "STARTING"]
        /\ starting' = starting \cup {w} /\ debris' = debris \cup {w}
        /\ UNCHANGED <<resources, inflight>>
        /\ th'[t].pc = "factory" /\ th'[t].wf = w
    BY <1>1, <1>6 DEF EnterReserved, SetState, ThreadsOK, Thread
  <2>2. state'[w] = "STARTING"
    BY <2>1 DEF IInv, TypeOK, RowsOK
  <2>3. \A v : v # w => Same(v)
    BY <2>1 DEF Same, NoMore, IInv, TypeOK, RowsOK
  <2>4. Knows(t)'
    BY <2>1, <2>2 DEF Knows
  <2>5. ASSUME NEW u \in Threads \ {t}, Inside(u), Knows(u), th[u].wf = w PROVE FALSE
    BY <2>1, <2>5, InsideState
  <2>6. Leased(w)
    BY <2>1 DEF Leased, Terminal
  <2>7. state'[w] \notin Unstarted
    BY <2>2 DEF Unstarted, Terminal
  <2> HIDE DEF w
  <2>8. QED BY <1>1, <2>1, <2>3, <2>4, <2>5, <2>6, <2>7, RowStep
<1>7. CASE EnterReturns(t)
  <2>1. ~Inside(t)' /\ th[t].wf \in Workflows /\ UNCHANGED <<memory, debris>>
    BY <1>1, <1>7 DEF EnterReturns, Inside, ThreadsOK, Thread
  <2>2. CASE UNCHANGED rows
    <3>1. UNCHANGED owned
      BY <2>1, <2>2 DEF owned, memory, rows
    <3>2. QED BY <1>1, <2>1, <3>1, QuietStep
  <2>3. CASE SetState(th[t].wf, "EXPIRED") /\ state[th[t].wf] = "RESERVED"
    <3>0. PICK w \in Workflows : w = th[t].wf
      BY <2>1
    <3>1. \A v : v # w => Same(v)
      BY <2>1, <2>3, <3>0 DEF Same, NoMore, SetState, memory, IInv, TypeOK, RowsOK
    <3>2. Leased(w)
      BY <2>3, <3>0 DEF Leased, Terminal
    <3>3. OwnsNothing(w)'
      BY <1>1, <2>1, <2>3, <3>0 DEF OwnInv, UnstartedOwnsNothing, OwnsNothing, memory
    <3>4. ASSUME NEW u \in Threads \ {t}, Inside(u), Knows(u), th[u].wf = w PROVE FALSE
      BY <2>3, <3>0, <3>4, InsideState
    <3>5. Knows(t)'
      BY <2>1
    <3>6. QED BY <1>1, <3>1, <3>2, <3>3, <3>4, <3>5, RowStep
  <2>4. QED BY <1>7, <2>2, <2>3 DEF EnterReturns, Overdue
<1>8. CASE Admit(t)
  <2> DEFINE w == th[t].wf
  <2>1. /\ w \in Workflows /\ state[w] = "ACTIVE" /\ ~Inside(t)'
        /\ UNCHANGED <<state, resources, starting, debris>>
        /\ inflight' = [inflight EXCEPT ![w] = @ \cup {t}]
    BY <1>1, <1>8 DEF Admit, Admissible, Inside, ThreadsOK, Thread, rows
  <2>2. \A v : v # w => Same(v)
    BY <2>1 DEF Same, NoMore, IInv, TypeOK, MemoryOK
  <2>3. ASSUME NEW u \in Threads \ {t}, Inside(u), Knows(u), th[u].wf = w PROVE FALSE
    BY <2>1, <2>3, InsideState
  <2>4. Leased(w) /\ state'[w] \notin Unstarted
    BY <2>1 DEF Leased, Unstarted, Terminal
  <2>5. Knows(t)'
    BY <2>1
  <2> HIDE DEF w
  <2>6. QED BY <1>1, <2>1, <2>2, <2>3, <2>4, <2>5, RowStep
<1>9. QED BY <1>2, <1>3, <1>4, <1>5, <1>6, <1>7, <1>8 DEF Admission

\* Overdue reservations expire: rows that no section has entered.
LEMMA LapseStep ==
    ASSUME RowsOK, OwnInv, NEW t \in Threads, Only(t), ~Inside(t)', ThreadsOK,
           state' = Lapsed(state, due), UNCHANGED <<memory, debris>>
    PROVE  OwnInv'
<1>1. \A v \in Workflows :
          state'[v] = IF state[v] = "RESERVED" /\ v \in due THEN "EXPIRED" ELSE state[v]
  BY DEF Lapsed
<1>2. \A v : NoMore(v)
  BY DEF NoMore, memory
<1>3. SectionsKnow'
  <2>1. ASSUME NEW u \in Threads \ {t}, Inside(u), Knows(u) PROVE Same(th[u].wf)
    <3>1. state[th[u].wf] \notin {"NONE", "RESERVED"} /\ th[u].wf \in Workflows
      BY <2>1, InsideState DEF ThreadsOK, Thread, Inside
    <3>2. QED BY <1>1, <1>2, <3>1 DEF Same
  <2>2. QED BY <2>1, OthersKnow, KnowsNothing DEF OwnInv
<1>4. UnstartedOwnsNothing'
  BY <1>1, <1>2, UnstartedKept DEF OwnInv, Unstarted, Terminal
<1>5. LeasesExclusive'
  BY <1>1, ExclusiveKept DEF OwnInv, Leased, Terminal
<1>6. QED BY <1>3, <1>4, <1>5 DEF OwnInv

\* Whatever a section knows of its row stays true when the row is CLOSING.
LEMMA KnowsClosing ==
    ASSUME NEW u \in Threads, Knows(u), th'[u] = th[u], NoMore(th[u].wf),
           state'[th[u].wf] \in {"CLOSING", "CLEANUP_BLOCKED"}
    PROVE  Knows(u)'
BY DEF Knows, NoMore, At, OwnsNothing

\* A row that is leased stays so, CLOSING or CLEANUP_BLOCKED.
LEMMA ClosingStep ==
    ASSUME RowsOK, OwnInv, NEW t \in Threads, Only(t), NEW w \in Workflows, Leased(w),
           NEW s \in {"CLOSING", "CLEANUP_BLOCKED"}, SetState(w, s),
           UNCHANGED <<memory, debris>>, Knows(t)'
    PROVE  OwnInv'
<1>1. \A v : v # w => Same(v)
  BY DEF RowsOK, SetState, Same, NoMore, memory
<1>2. state'[w] = s /\ NoMore(w)
  BY DEF RowsOK, SetState, NoMore, memory
<1>3. s \notin Unstarted
  BY DEF Unstarted, Terminal
<1>4. ASSUME NEW u \in Threads \ {t}, Knows(u), th[u].wf = w PROVE Knows(u)'
  BY <1>2, <1>4, KnowsClosing DEF Only
<1>5. QED BY <1>1, <1>2, <1>3, <1>4, RowStep

\* Ownership survives _end, close and recover.
LEMMA OwnEnding ==
    ASSUME IInv, NEW t \in Threads, Ending(t)
    PROVE  OwnInv'
<1> USE ThreadGoes, KnowsNothing DEF At
<1>1. Only(t) /\ ThreadsOK /\ RowsOK /\ OwnInv /\ Knows(t)
  BY EndingMoves DEF Moves, Only, IInv, LeaseInv, OwnInv, TypeOK, SectionsKnow
<1>2. PICK w : w = th[t].wf
  OBVIOUS
<1>3. th[t].pc \notin {"idle", "loop"} => w \in Workflows
  BY <1>1, <1>2 DEF ThreadsOK, Thread
<1>4. CASE Probe(t) \/ ProbeRefused(t) \/ ProbeClear(t) \/ EndTerminal(t) \/ CloseReturns(t)
  <2>1. UNCHANGED owned /\ ~Inside(t)'
    BY <1>1, <1>4
    DEF Probe, ProbeRefused, ProbeClear, EndTerminal, CloseReturns, owned, rows, memory,
        env, Inside
  <2>2. QED BY <1>1, <2>1, QuietStep
<1>5. CASE RecoverReturns(t)
  <2>1. /\ ~Inside(t)' /\ state' = Lapsed(state, due)
        /\ UNCHANGED <<memory, debris>>
    BY <1>1, <1>5 DEF RecoverReturns, Inside, env
  <2>2. QED BY <1>1, <2>1, LapseStep
<1>6. CASE EndCloses(t)
  <2>1. /\ w \in Workflows /\ SetState(w, "CLOSING") /\ UNCHANGED <<memory, debris>>
        /\ state[w] \notin Terminal
    BY <1>2, <1>3, <1>6 DEF EndCloses, env
  <2>2. /\ th'[t].pc = "endgate" /\ th'[t].wf = w
        /\ th'[t].fresh = (state[w] = "RESERVED")
    BY <1>1, <1>2, <1>6 DEF EndCloses, ThreadsOK, Thread
  <2>3. Leased(w)
    BY <1>1, <1>2, <2>1 DEF Leased, IInv, LeaseInv, RowsExist
  <2>4. state'[w] = "CLOSING"
    BY <1>1, <2>1 DEF SetState, RowsOK
  <2>5. th'[t].fresh => OwnsNothing(w)'
    BY <1>1, <2>1, <2>2 DEF OwnInv, UnstartedOwnsNothing, OwnsNothing, memory
  <2>6. Knows(t)'
    BY <2>2, <2>4, <2>5 DEF Knows
  <2>7. QED BY <1>1, <2>1, <2>3, <2>6, ClosingStep
<1>7. CASE EndEnters(t)
  <2>1. UNCHANGED owned
    BY <1>7 DEF EndEnters, owned, rows, memory, env
  <2>2. CASE metadata[w] = "ENDED"
    BY <1>1, <1>2, <1>7, <2>1, <2>2, QuietStep DEF EndEnters, Inside
  <2>3. CASE metadata[w] # "ENDED"
    <3>1. /\ th'[t].pc = "drain" /\ th'[t].wf = w /\ th'[t].fresh = th[t].fresh
      BY <1>1, <1>2, <1>7, <2>3 DEF EndEnters, Go, ThreadsOK, Thread
    <3>2. state[w] \in {"CLOSING", "CLEANUP_BLOCKED"}
      BY <1>1, <1>2, <1>3, <1>7, <2>3, CacheSeen DEF EndEnters, Knows, IInv, LeaseInv
    <3>3. th[t].fresh => OwnsNothing(w)
      BY <1>1, <1>2, <1>7 DEF EndEnters, Knows
    <3>4. Knows(t)'
      BY <2>1, <3>1, <3>2, <3>3 DEF Knows, OwnsNothing, owned
    <3>5. QED BY <1>1, <2>1, <3>4, QuietStep
  <2>4. QED BY <2>2, <2>3
<1>8. CASE EndGateTimeout(t)
  <2>1. ~Inside(t)' /\ UNCHANGED <<memory, debris>> /\ w \in Workflows
    BY <1>1, <1>3, <1>8 DEF EndGateTimeout, Inside, env
  <2>2. CASE metadata[w] = "ENDED"
    <3>1. UNCHANGED owned
      BY <1>2, <1>8, <2>1, <2>2 DEF EndGateTimeout, owned, rows, memory
    <3>2. QED BY <1>1, <2>1, <3>1, QuietStep
  <2>3. CASE metadata[w] # "ENDED"
    <3>1. state[w] \in {"CLOSING", "CLEANUP_BLOCKED"}
      BY <1>1, <1>2, <1>3, <1>8, <2>3, CacheSeen DEF EndGateTimeout, Knows, IInv, LeaseInv
    <3>2. SetState(w, "CLEANUP_BLOCKED") /\ Leased(w)
      BY <1>2, <1>8, <2>3, <3>1 DEF EndGateTimeout, Leased, Terminal
    <3>3. QED BY <1>1, <2>1, <3>2, ClosingStep
  <2>4. QED BY <2>2, <2>3
<1>9. CASE DrainDone(t)
  <2>1. /\ th'[t].pc = "cleanup" /\ th'[t].wf = w /\ th'[t].fresh = th[t].fresh
    BY <1>1, <1>2, <1>9 DEF DrainDone, Go, ThreadsOK, Thread
  <2>2. UNCHANGED owned /\ ~Busy(w)
    BY <1>2, <1>9 DEF DrainDone, owned, rows, memory, env
  <2>3. Knows(t)'
    BY <1>1, <1>2, <1>9, <2>1, <2>2 DEF DrainDone, Knows, Busy, OwnsNothing, owned
  <2>4. QED BY <1>1, <2>2, <2>3, QuietStep
<1>10. CASE DrainTimeout(t) \/ CleanupFails(t)
  <2>1. /\ ~Inside(t)' /\ UNCHANGED <<memory, debris>> /\ w \in Workflows
        /\ SetState(w, "CLEANUP_BLOCKED")
    BY <1>1, <1>2, <1>3, <1>10 DEF DrainTimeout, CleanupFails, Blocked, Inside, env
  <2>2. Leased(w)
    BY <1>1, <1>2, <1>10 DEF DrainTimeout, CleanupFails, Knows, Leased, Terminal
  <2>3. QED BY <1>1, <2>1, <2>2, ClosingStep
<1>11. CASE Cleanup(t)
  <2>1. /\ th'[t].pc = "cleaned" /\ th'[t].wf = w /\ th'[t].fresh = th[t].fresh
    BY <1>1, <1>2, <1>11 DEF Cleanup, Go, ThreadsOK, Thread
  <2>2. /\ UNCHANGED <<state, resources, starting, inflight>>
        /\ debris' \subseteq debris /\ w \in Workflows
    BY <1>3, <1>11 DEF Cleanup, rows, memory
  <2>3. w \notin debris'
    BY <1>1, <1>2, <1>11 DEF Cleanup, NeedsCleanup, Knows, OwnsNothing
  <2>4. \A v : Same(v)
    BY <2>2 DEF Same, NoMore
  <2>5. Knows(t)'
    BY <1>1, <1>2, <1>11, <2>1, <2>2, <2>3 DEF Cleanup, Knows, OwnsNothing
  <2>6. SectionsKnow' /\ UnstartedOwnsNothing' /\ LeasesExclusive'
    BY <1>1, <2>4, <2>5, OthersKnow, UnstartedKept, ExclusiveKept DEF OwnInv, Same, Leased
  <2>7. QED BY <2>6 DEF OwnInv
<1>12. CASE EndFinishes(t)
  <2>1. /\ w \in Workflows /\ SetState(w, "ENDED") /\ resources' = resources \ {w}
        /\ UNCHANGED <<starting, inflight, debris>> /\ ~Inside(t)'
    BY <1>1, <1>2, <1>3, <1>12 DEF EndFinishes, Inside, env
  <2>2. \A v : v # w => Same(v)
    BY <1>1, <2>1 DEF Same, NoMore, SetState, RowsOK
  <2>3. state'[w] = "ENDED" /\ NoMore(w)
    BY <1>1, <2>1 DEF NoMore, SetState, RowsOK
  <2>4. Holds(t, w) /\ inflight[w] = {} /\ w \notin starting /\ w \notin debris
    BY <1>1, <1>2, <1>12 DEF EndFinishes, Knows, Holds, HoldsGate
  <2>5. OwnsNothing(w)'
    BY <2>1, <2>4 DEF OwnsNothing
  <2>6. ASSUME NEW u \in Threads \ {t}, Inside(u), Knows(u), th[u].wf = w PROVE Knows(u)'
    <3>1. At(u, "endgate")
      BY <2>1, <2>4, <2>6, GateAlone DEF Inside, Holds, HoldsGate, IInv, LeaseInv
    <3>2. th'[u] = th[u]
      BY <1>1 DEF Only
    <3>3. QED BY <2>3, <2>5, <2>6, <3>1, <3>2 DEF Knows
  <2>7. Leased(w)' => Leased(w)
    BY <2>3 DEF Leased, Terminal
  <2>8. QED BY <1>1, <2>1, <2>2, <2>5, <2>6, <2>7, RowStep
<1>13. QED
  BY <1>4, <1>5, <1>6, <1>7, <1>8, <1>9, <1>10, <1>11, <1>12 DEF Ending

\* Ownership survives the factory and the tool calls.
LEMMA OwnOutside ==
    ASSUME IInv, NEW t \in Threads, Outside(t)
    PROVE  OwnInv'
<1> USE ThreadGoes, KnowsNothing DEF At
<1>1. Only(t) /\ ThreadsOK /\ RowsOK /\ OwnInv /\ Knows(t) /\ GateHeld
  BY OutsideMoves DEF Moves, Only, IInv, LeaseInv, OwnInv, TypeOK, SectionsKnow
<1>2. PICK w \in Workflows : w = th[t].wf
  BY <1>1 DEF Outside, FactoryFails, FactoryReturns, Leave, ThreadsOK, Thread
<1>3. CASE FactoryFails(t)
  <2>1. /\ SetState(w, "CLEANUP_BLOCKED") /\ starting' = starting \ {w}
        /\ UNCHANGED <<resources, inflight, debris>> /\ ~Inside(t)'
    BY <1>1, <1>2, <1>3 DEF FactoryFails, env, Inside
  <2>2. \A v : v # w => Same(v)
    BY <1>1, <2>1 DEF Same, NoMore, SetState, RowsOK
  <2>3. state'[w] = "CLEANUP_BLOCKED" /\ NoMore(w)
    BY <1>1, <2>1 DEF NoMore, SetState, RowsOK
  <2>4. Leased(w) /\ state'[w] \notin Unstarted
    BY <1>1, <1>2, <1>3, <2>3 DEF FactoryFails, Knows, Leased, Unstarted, Terminal
  <2>5. ASSUME NEW u \in Threads \ {t}, Knows(u), th[u].wf = w PROVE Knows(u)'
    BY <1>1, <2>3, <2>5, KnowsClosing DEF Only
  <2>6. QED BY <1>1, <2>1, <2>2, <2>4, <2>5, RowStep
<1>4. CASE FactoryReturns(t)
  <2>1. /\ resources' = resources \cup {w} /\ starting' = starting \ {w}
        /\ UNCHANGED <<inflight, debris>> /\ ~Inside(t)'
    BY <1>1, <1>2, <1>4 DEF FactoryReturns, Inside
  <2>2. Holds(t, w) /\ w \in starting
    BY <1>2, <1>4 DEF FactoryReturns, Holds, HoldsGate, IInv, LeaseInv, StartsCounted
  <2>3. state[w] \in {"STARTING", "CLOSING", "CLEANUP_BLOCKED"}
    BY <1>1, <1>2, <1>4 DEF FactoryReturns, Knows
  <2>4. Leased(w)
    BY <2>3 DEF Leased, Terminal
  <2>5. ASSUME NEW u \in Threads \ {t}, Inside(u), Knows(u), th[u].wf = w
        PROVE  At(u, "endgate") /\ ~th[u].fresh
    <3>1. At(u, "endgate")
      BY <1>1, <2>2, <2>5, GateAlone DEF Inside, Holds, HoldsGate
    <3>2. QED BY <2>2, <2>5, <3>1 DEF Knows, OwnsNothing
  <2>6. CASE UNCHANGED rows
    <3>1. \A v : v # w => Same(v)
      BY <2>1, <2>6 DEF Same, NoMore, rows
    <3>2. state'[w] = state[w] /\ state'[w] \notin Unstarted
      BY <2>3, <2>6 DEF rows, Unstarted, Terminal
    <3>3. ASSUME NEW u \in Threads \ {t}, Inside(u), Knows(u), th[u].wf = w PROVE Knows(u)'
      BY <1>1, <2>5, <3>2, <3>3 DEF Knows, Only
    <3>4. QED BY <1>1, <2>1, <2>4, <3>1, <3>2, <3>3, RowStep
  <2>7. CASE SetState(w, "ACTIVE") /\ metadata[w] = "STARTING"
    <3>1. \A v : v # w => Same(v)
      BY <1>1, <2>1, <2>7 DEF Same, NoMore, SetState, RowsOK
    <3>2. state'[w] \notin Unstarted
      BY <1>1, <2>7 DEF SetState, RowsOK, Unstarted, Terminal
    <3>3. ASSUME NEW u \in Threads \ {t}, Inside(u), Knows(u), th[u].wf = w PROVE FALSE
      <4>1. state[w] \in {"CLOSING", "CLEANUP_BLOCKED", "ENDED"} /\ At(u, "endgate")
        BY <2>5, <3>3 DEF Knows
      <4>2. metadata[w] = state[w]
        BY <3>3, <4>1, CacheSeen DEF IInv, LeaseInv
      <4>3. QED BY <2>7, <4>1, <4>2
    <3>4. QED BY <1>1, <2>1, <2>4, <3>1, <3>2, <3>3, RowStep
  <2>8. QED BY <1>2, <1>4, <2>6, <2>7 DEF FactoryReturns
<1>5. CASE Leave(t)
  <2>1. /\ UNCHANGED <<state, resources, starting, debris>> /\ ~Inside(t)'
        /\ inflight' = [inflight EXCEPT ![w] = @ \ {t}]
    BY <1>1, <1>2, <1>5 DEF Leave, Inside, rows
  <2>2. \A v \in Workflows : Same(v)
    BY <2>1 DEF Same, NoMore, IInv, TypeOK, MemoryOK
  <2>3. \A u \in Threads : Inside(u) => th[u].wf \in Workflows
    BY <1>1 DEF ThreadsOK, Thread, Inside
  <2>4. SectionsKnow'
    BY <1>1, <2>1, <2>2, <2>3, OthersKnow DEF OwnInv
  <2>5. UnstartedOwnsNothing' /\ LeasesExclusive'
    BY <1>1, <2>2, UnstartedKept, ExclusiveKept DEF OwnInv, Same, Leased
  <2>6. QED BY <2>4, <2>5 DEF OwnInv
<1>6. QED BY <1>3, <1>4, <1>5 DEF Outside

\* Ownership survives the arrival of calls, reboots included.
LEMMA OwnArrive ==
    ASSUME IInv, NEW t \in Threads, Arrive(t)
    PROVE  OwnInv'
<1>1. PICK p \in First : \E o, w, g, todo : Start(t, o, p, w, g, todo)
  BY ArriveStarts
<1>2. ThreadsOK /\ RowsOK /\ OwnInv
  BY DEF IInv, LeaseInv, OwnInv, TypeOK
<1>3. Only(t) /\ ~Inside(t)'
  BY <1>1, <1>2 DEF Start, Only, First, Inside, ThreadsOK
<1>4. CASE Expire(t)
  BY <1>2, <1>3, <1>4, LapseStep DEF Expire
<1>5. CASE Boot(t)
  <2>1. \A u \in Threads : ~Inside(u)
    BY <1>5 DEF Boot, IInv, LeaseInv, ProcessKnown, Inside, Resting
  <2>2. SectionsKnow'
    BY <1>2, <1>3, <2>1, OthersKnow, KnowsNothing DEF OwnInv
  <2>3. \A v \in Workflows :
            state'[v] = IF state[v] \in {"STARTING", "ACTIVE", "CLOSING", "CLEANUP_BLOCKED"}
                        THEN "CLEANUP_BLOCKED" ELSE state[v]
    BY <1>5 DEF Boot
  <2>4. \A v : NoMore(v)
    BY <1>5 DEF Boot, NoMore, memory, env
  <2>5. UnstartedOwnsNothing' /\ LeasesExclusive'
    BY <1>2, <2>3, <2>4, UnstartedKept, ExclusiveKept DEF OwnInv, Leased, Unstarted, Terminal
  <2>6. QED BY <2>2, <2>5 DEF OwnInv
<1>6. CASE UNCHANGED owned
  BY <1>2, <1>3, <1>6, QuietStep, KnowsNothing
<1>7. QED
  BY <1>4, <1>5, <1>6
  DEF Arrive, Close, Release, End, Use, owned, rows, memory, env

\* Who owns what, and who knows it, is inductive with the other parts.
LEMMA OwnStep ==
    ASSUME IInv, [Next]_vars
    PROVE  OwnInv'
<1>1. OwnInv
  BY DEF IInv, LeaseInv, OwnInv
<1>2. CASE Crash
  <2>1. SectionsKnow'
    BY <1>2, KnowsNothing DEF Crash, Inside, Resting, SectionsKnow
  <2>2. UnstartedOwnsNothing'
    BY <1>1, <1>2 DEF Crash, OwnInv, UnstartedOwnsNothing, OwnsNothing, env
  <2>3. LeasesExclusive'
    BY <1>1, <1>2, ExclusiveKept DEF Crash, OwnInv, Leased
  <2>4. QED BY <2>1, <2>2, <2>3 DEF OwnInv
<1>3. CASE Resume \/ Clock \/ UNCHANGED vars
  <2>1. UNCHANGED <<owned, th>>
    BY <1>3
    DEF Resume, Rotate, Replay, Clock, ReservationLapses, ActivityLapses,
        ResponseLapses, vars, owned, rows, memory, env
  <2>2. \A v : Same(v)
    BY <2>1 DEF owned, Same, NoMore
  <2>3. SectionsKnow'
    BY <1>1, <2>1, <2>2, KnowsSame DEF OwnInv, SectionsKnow
  <2>4. UnstartedOwnsNothing' /\ LeasesExclusive'
    BY <1>1, <2>2, UnstartedKept, ExclusiveKept DEF OwnInv, Same, Leased
  <2>5. QED BY <2>3, <2>4 DEF OwnInv
<1>4. QED
  BY <1>2, <1>3, OwnAdmission, OwnEnding, OwnOutside, OwnArrive DEF Next

-----------------------------------------------------------------------------
(* Rows are never deleted, and no section is about a missing one           *)

\* No step removes a row.
LEMMA StateKept ==
    ASSUME RowsOK, ThreadsOK, [Next]_vars, NEW w \in Workflows, state[w] # "NONE"
    PROVE  state'[w] # "NONE"
<1> USE DEF rows
<1>1. ASSUME NEW v, NEW s, SetState(v, s), s # "NONE" PROVE state'[w] # "NONE"
  BY <1>1 DEF SetState, RowsOK
<1>2. ASSUME NEW S, state' = Lapsed(state, S) PROVE state'[w] # "NONE"
  BY <1>2 DEF Lapsed
<1>3. ASSUME NEW t \in Threads, Arrive(t) PROVE state'[w] # "NONE"
  BY <1>2, <1>3 DEF Arrive, Expire, Close, Boot, Release, End, Use
<1>4. ASSUME NEW t \in Threads, Admission(t) PROVE state'[w] # "NONE"
  <2>1. ASSUME NEW v \in Workflows, Begin(t, v) PROVE state'[w] # "NONE"
    BY <2>1 DEF Begin, Lapsed
  <2>2. QED
    BY <1>1, <1>4, <2>1
    DEF Admission, LoopReturns, NextRow, Locate, EnterReserved, EnterReturns, Dequeue,
        Admit, AdmitRefused, EndAllowed
<1>5. ASSUME NEW t \in Threads, Ending(t) PROVE state'[w] # "NONE"
  BY <1>1, <1>2, <1>5
  DEF Ending, Probe, ProbeRefused, ProbeClear, EndTerminal, EndCloses, EndEnters,
      EndGateTimeout, DrainDone, DrainTimeout, Cleanup, CleanupFails, Blocked, EndFinishes,
      CloseReturns, RecoverReturns
<1>6. ASSUME NEW t \in Threads, Outside(t) PROVE state'[w] # "NONE"
  BY <1>1, <1>6 DEF Outside, FactoryFails, FactoryReturns, Leave
<1>7. CASE Resume \/ Clock \/ Crash \/ UNCHANGED vars
  BY <1>7
  DEF Resume, Rotate, Replay, Clock, ReservationLapses, ActivityLapses, ResponseLapses,
      Crash, vars
<1>8. QED BY <1>3, <1>4, <1>5, <1>6, <1>7 DEF Next

Exists(t) == /\ th[t].wf \in Workflows => state[th[t].wf] # "NONE"
             /\ \A w \in th[t].todo : state[w] # "NONE"

\* A call that moves on keeps to its row and to the rows it had to visit.
LEMMA ExistsKept ==
    ASSUME ThreadsOK, NEW t \in Threads, Exists(t),
           \A w \in Workflows : state[w] # "NONE" => state'[w] # "NONE",
           th'[t].wf \in {th[t].wf, NoWorkflow}, th'[t].todo \subseteq th[t].todo
    PROVE  Exists(t)'
BY ConstantsAssumption DEF Exists, ThreadsOK, Thread

\* A thread that goes on stays with its row.
LEMMA ExistsGone ==
    ASSUME ThreadsOK, NEW t \in Threads,
           Return(t) \/ BackToCaller(t) \/ \E p : Go(t, p)
    PROVE  th'[t].wf \in {th[t].wf, NoWorkflow} /\ th'[t].todo \subseteq th[t].todo
<1>1. CASE Return(t)
  BY <1>1 DEF ThreadsOK, Return, Resting
<1>2. CASE BackToCaller(t)
  BY <1>2 DEF ThreadsOK, Thread, BackToCaller, Resting
<1>3. ASSUME NEW p, Go(t, p) PROVE th'[t].wf = th[t].wf /\ th'[t].todo = th[t].todo
  BY <1>3 DEF ThreadsOK, Thread, Go
<1>4. QED BY <1>1, <1>2, <1>3

\* The stepping thread's row, and the rows it has to visit, exist.
LEMMA ExistsMover ==
    ASSUME IInv, NEW t \in Threads, Arrive(t) \/ Admission(t) \/ Ending(t) \/ Outside(t),
           Exists(t), \A w \in Workflows : state[w] # "NONE" => state'[w] # "NONE"
    PROVE  Exists(t)'
<1>1. ThreadsOK
  BY DEF IInv, TypeOK
<1>2. CASE Return(t) \/ BackToCaller(t) \/ \E p : Go(t, p)
  BY <1>1, <1>2, ExistsGone, ExistsKept
<1>3. ASSUME NEW w \in Workflows, NEW g \in Generations, Presents(w, g)
      PROVE  state[w] # "NONE"
  BY <1>3 DEF Presents, Accepted, IInv, LeaseInv, RowsExist
<1>4. ASSUME NEW o, NEW p, NEW w \in Workflows \cup {NoWorkflow}, NEW g,
             NEW todo \in SUBSET Workflows, Start(t, o, p, w, g, todo),
             w \in Workflows => state[w] # "NONE", \A v \in todo : state[v] # "NONE"
      PROVE  Exists(t)'
  BY <1>1, <1>4 DEF Start, Exists, ThreadsOK
<1>5. CASE Expire(t)
  <2>1. {w \in idle : state[w] = "ACTIVE"} \in SUBSET Workflows
    BY DEF IInv, TypeOK, EnvOK
  <2>2. QED BY <1>4, <1>5, <2>1, ConstantsAssumption DEF Expire
<1>6. CASE Close(t)
  <2>1. Remaining \in SUBSET Workflows /\ \A v \in Remaining : state[v] # "NONE"
    BY DEF Remaining, IInv, TypeOK, MemoryOK, LeaseInv, UnstartedOwnsNothing, OwnsNothing
  <2>2. QED BY <1>4, <1>6, <2>1, ConstantsAssumption DEF Close
<1>7. CASE Boot(t)
  <2> DEFINE open == {w \in Workflows :
                         state[w] \in {"STARTING", "ACTIVE", "CLOSING", "CLEANUP_BLOCKED"}}
  <2>1. open \in SUBSET Workflows /\ \A v \in open : state[v] # "NONE"
    OBVIOUS
  <2>2. Start(t, "recover", "loop", NoWorkflow, 0, open)
    BY <1>7 DEF Boot
  <2> HIDE DEF open
  <2>3. QED BY <1>4, <2>1, <2>2, ConstantsAssumption
<1>8. ASSUME NEW w \in Workflows, Release(t, w) PROVE Exists(t)'
  BY <1>4, <1>8 DEF Release
<1>9. ASSUME NEW w \in Workflows, NEW g \in Generations,
             End(t, w, g) \/ \E k \in Kinds : Use(t, k, w, g)
      PROVE  Exists(t)'
  BY <1>3, <1>4, <1>9 DEF End, Use
<1>10. CASE NextRow(t)
  <2>1. PICK w \in th[t].todo : th'[t].wf = w /\ th'[t].todo = th[t].todo \ {w}
    BY <1>1, <1>10 DEF NextRow, ThreadsOK, Thread
  <2>2. th[t].todo \subseteq Workflows
    BY <1>1 DEF ThreadsOK, Thread
  <2>3. QED BY <2>1, <2>2 DEF Exists
<1>11. ASSUME NEW w \in Workflows, NEW g \in Generations, Locate(t, w, g) PROVE Exists(t)'
  <2>1. th'[t].wf = w /\ th'[t].todo = th[t].todo /\ th[t].todo \subseteq Workflows
    BY <1>1, <1>11 DEF Locate, ThreadsOK, Thread
  <2>2. state[w] # "NONE"
    BY <1>3, <1>11 DEF Locate
  <2>3. QED BY <2>1, <2>2 DEF Exists
<1>12. CASE EndCloses(t)
  <2>1. th'[t].wf = th[t].wf /\ th'[t].todo = th[t].todo
    BY <1>1, <1>12 DEF EndCloses, ThreadsOK, Thread
  <2>2. QED BY <1>1, <2>1, ExistsKept
<1>13. CASE Arrive(t)
  BY <1>5, <1>6, <1>7, <1>8, <1>9, <1>13 DEF Arrive
<1>14. CASE Admission(t)
  BY <1>2, <1>10, <1>11, <1>14
  DEF Admission, LoopReturns, Begin, EnterReserved, EnterReturns, Dequeue, Admit,
      AdmitRefused, EndAllowed
<1>15. CASE Ending(t)
  BY <1>2, <1>12, <1>15
  DEF Ending, Probe, ProbeRefused, ProbeClear, EndTerminal, EndEnters, EndGateTimeout,
      DrainDone, DrainTimeout, Cleanup, CleanupFails, Blocked, EndFinishes, CloseReturns,
      RecoverReturns
<1>16. CASE Outside(t)
  BY <1>2, <1>16 DEF Outside, FactoryFails, FactoryReturns, Leave
<1>17. QED BY <1>13, <1>14, <1>15, <1>16

\* No section is about a missing row: inductive.
LEMMA ExistStep ==
    ASSUME IInv, [Next]_vars
    PROVE  RowsExist'
<1>1. RowsOK /\ ThreadsOK /\ CredsOK /\ RowsExist
  BY DEF IInv, LeaseInv, TypeOK
<1>2. \A w \in Workflows : state[w] # "NONE" => state'[w] # "NONE"
  BY <1>1, StateKept
<1>3. ASSUME NEW w \in Workflows, live'[w] # {} PROVE state'[w] # "NONE"
  <2>1. CASE live'[w] = live[w]
    BY <1>1, <1>2, <1>3, <2>1 DEF RowsExist
  <2>2. ASSUME NEW t \in Threads, NEW v \in Workflows, Begin(t, v) PROVE state'[w] # "NONE"
    <3>1. CASE v = w
      BY <1>1, <2>2, <3>1 DEF Begin, Lapsed, RowsOK
    <3>2. CASE v # w
      BY <1>1, <2>1, <2>2, <3>2 DEF Begin, CredsOK
    <3>3. QED BY <3>1, <3>2
  <2>3. ASSUME NEW v \in Workflows, NEW r \in ResumeIds, Rotate(v, r) PROVE state'[w] # "NONE"
    BY <1>1, <1>2, <2>1, <2>3 DEF Rotate, MayResume, CredsOK
  <2>4. CASE UNCHANGED live
    BY <2>1, <2>4
  <2>5. ASSUME NEW t \in Threads, Arrive(t) PROVE UNCHANGED live
    BY <2>5 DEF creds, Arrive, Expire, Close, Boot, Release, End, Use
  <2>6. ASSUME NEW t \in Threads, Admission(t), ~\E v \in Workflows : Begin(t, v)
        PROVE  UNCHANGED live
    BY <2>6
    DEF creds, Admission, LoopReturns, NextRow, Locate, EnterReserved, EnterReturns, Dequeue,
        Admit, AdmitRefused, EndAllowed
  <2>7. ASSUME NEW t \in Threads, Ending(t) PROVE UNCHANGED live
    BY <2>7
    DEF creds, Ending, Probe, ProbeRefused, ProbeClear, EndTerminal, EndCloses, EndEnters,
        EndGateTimeout, DrainDone, DrainTimeout, Cleanup, CleanupFails, Blocked,
        EndFinishes, CloseReturns, RecoverReturns
  <2>8. ASSUME NEW t \in Threads, Outside(t) PROVE UNCHANGED live
    BY <2>8 DEF creds, Outside, FactoryFails, FactoryReturns, Leave
  <2>9. CASE Clock \/ Crash \/ UNCHANGED vars
    BY <2>4, <2>9
    DEF creds, Clock, ReservationLapses, ActivityLapses, ResponseLapses, Crash, vars
  <2>10. CASE Resume
    BY <2>3, <2>4, <2>10 DEF Resume, Replay
  <2>11. QED
    BY <2>2, <2>4, <2>5, <2>6, <2>7, <2>8, <2>9, <2>10 DEF Next
<1>4. ASSUME NEW u \in Threads PROVE Exists(u)'
  <2>1. Exists(u)
    BY <1>1 DEF RowsExist, Exists
  <2>2. CASE th'[u] = th[u]
    BY <1>1, <1>2, <2>1, <2>2, ExistsKept
  <2>3. ASSUME NEW t \in Threads, Arrive(t) \/ Admission(t) \/ Ending(t) \/ Outside(t)
        PROVE  Exists(u)'
    <3>1. Only(t)
      <4>1. CASE Arrive(t)
        <5>1. PICK p \in First : \E o, w, g, todo : Start(t, o, p, w, g, todo)
          BY <4>1, ArriveStarts
        <5>2. QED BY <1>1, <5>1 DEF Start, Only, ThreadsOK
      <4>2. QED
        BY <2>3, <4>1, AdmissionMoves, EndingMoves, OutsideMoves DEF Moves, Only, IInv
    <3>2. CASE u = t
      BY <1>2, <2>1, <2>3, <3>2, ExistsMover
    <3>3. CASE u # t
      BY <2>2, <3>1, <3>3 DEF Only
    <3>4. QED BY <3>2, <3>3
  <2>4. CASE Crash
    BY <2>4, ConstantsAssumption DEF Crash, Exists, Resting
  <2>5. CASE Resume \/ Clock \/ UNCHANGED vars
    BY <2>2, <2>5
    DEF Resume, Rotate, Replay, Clock, ReservationLapses, ActivityLapses,
        ResponseLapses, vars
  <2>6. QED BY <2>3, <2>4, <2>5 DEF Next
<1>5. QED BY <1>3, <1>4 DEF RowsExist, Exists

-----------------------------------------------------------------------------
(* The inductive invariant and what follows from it                        *)

\* The inductive invariant holds before the first boot.
LEMMA InvInit == Init => IInv
<1> SUFFICES ASSUME Init PROVE IInv
  OBVIOUS
<1>1. TypeOK
  BY TypeInit
<1>2. ProcessKnown /\ CacheAgrees /\ DirectEnds /\ GateHeld
  BY ConstantsAssumption
  DEF Init, ProcessKnown, CacheAgrees, DirectEnds, GateHeld, HoldsGate, Resting
<1>3. CallsCounted /\ StartsCounted /\ RowsExist
  BY ConstantsAssumption DEF Init, CallsCounted, StartsCounted, RowsExist, At, Resting
<1>4. UnstartedOwnsNothing /\ LeasesExclusive
  BY DEF Init, UnstartedOwnsNothing, OwnsNothing, LeasesExclusive, Leased
<1>5. SectionsKnow
  BY DEF Init, SectionsKnow, Knows, At, Resting
<1>6. QED BY <1>1, <1>2, <1>3, <1>4, <1>5 DEF IInv, LeaseInv

\* Every step keeps it.
LEMMA InvStep == IInv /\ [Next]_vars => IInv'
<1> SUFFICES ASSUME IInv, [Next]_vars PROVE IInv'
  OBVIOUS
<1>1. TypeOK' /\ ProcessKnown' /\ CacheAgrees'
  BY TypeStep, ProcessStep, CacheStep DEF IInv, LeaseInv
<1>2. DirectEnds' /\ GateHeld'
  BY DirectStep, GateStep DEF IInv, LeaseInv
<1>3. Counted'
  BY CountsStep DEF IInv, LeaseInv, Counted
<1>4. OwnInv' /\ RowsExist'
  BY OwnStep, ExistStep
<1>5. QED BY <1>1, <1>2, <1>3, <1>4 DEF IInv, LeaseInv, Counted, OwnInv

\* It holds of every behaviour.
LEMMA InvCorrect == Spec => []IInv
BY InvInit, InvStep, PTL DEF Spec

\* Every thread is where its gate, its counts and what it knows of its row say:
\* the argument that the lock protocol of activate, use and _end rests on.
THEOREM ProtocolCorrect == Spec => []LeaseInv
BY InvCorrect, PTL DEF IInv

\* A workflow that has given its lease up has no resource, no activation, no
\* call and nothing native left, in any interleaving of _end, activate, use,
\* expire, crashes and recovery.
THEOREM LeaseCoversWork == Spec => []NothingOutlivesItsLease
<1>1. IInv => NothingOutlivesItsLease
  BY DEF IInv, LeaseInv, UnstartedOwnsNothing, OwnsNothing, NothingOutlivesItsLease, Leased
<1>2. QED BY <1>1, InvCorrect, PTL

\* No two workflows whose processes may exist at once conflict, for any set of
\* projects, threads and calls.
THEOREM Exclusion == Spec => []ProjectsNotShared
<1>1. IInv => ProjectsNotShared
  <2> SUFFICES ASSUME IInv, NEW v \in debris, NEW w \in debris, v # w PROVE ~Conflict(v, w)
    BY DEF ProjectsNotShared
  <2>1. v \in Workflows /\ w \in Workflows
    BY DEF IInv, TypeOK, EnvOK
  <2>2. Leased(v) /\ Leased(w)
    BY <2>1 DEF IInv, LeaseInv, UnstartedOwnsNothing, OwnsNothing, Leased
  <2>3. QED BY <2>1, <2>2 DEF IInv, LeaseInv, LeasesExclusive
<1>2. QED BY <1>1, InvCorrect, PTL
=============================================================================
