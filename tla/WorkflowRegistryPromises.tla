---------------------- MODULE WorkflowRegistryPromises ----------------------
(* What the registry promises, for every value of its constants: the leases of
   ProjectLease, and what a tool call, a credential and an end may rely on. *)
EXTENDS WorkflowRegistryProofs

\* The abstract state: leases held, and leases given up.
Held == {w \in Workflows : Leased(w)}
Past == {w \in Workflows : state[w] \in Terminal}

\* A row keeps its abstract state.
Still(w) == /\ Leased(w)' <=> Leased(w)
            /\ state'[w] \in Terminal <=> state[w] \in Terminal

\* Rows that stay on their side of the lease are a stutter.
LEMMA StutterStep ==
    ASSUME \A w \in Workflows : Still(w), UNCHANGED debris
    PROVE  UNCHANGED Lease!vars
BY DEF Still, Lease!vars, Leased

\* Unstarted leases that end together are given up in one step.
LEMMA LapseIsTurnover ==
    ASSUME IInv, NEW S, state' = Lapsed(state, S), UNCHANGED debris
    PROVE  Lease!Next
<1> DEFINE gone == {w \in Workflows : state[w] = "RESERVED" /\ w \in S}
<1>1. \A w \in Workflows : state'[w] = IF w \in gone THEN "EXPIRED" ELSE state[w]
  BY DEF Lapsed
<1>2. gone \subseteq Held \ debris
  BY DEF IInv, LeaseInv, UnstartedOwnsNothing, OwnsNothing, Held, Leased, Terminal
<1>3. Held' = (Held \ gone) \cup {} /\ Past' = Past \cup gone
  BY <1>1 DEF Held, Past, Leased, Terminal
<1>4. Lease!Turnover(gone, {})
  BY <1>2, <1>3 DEF Lease!Turnover, Held, Past
<1>5. gone \in SUBSET Workflows /\ {} \in SUBSET Workflows
  OBVIOUS
<1>6. QED BY <1>4, <1>5 DEF Lease!Next

\* One row gives its lease up.
LEMMA EndIsTurnover ==
    ASSUME TypeOK, NEW w \in Workflows, Leased(w), w \notin debris,
           NEW s \in Terminal, SetState(w, s), UNCHANGED debris
    PROVE  Lease!Next
<1>1. \A v \in Workflows : state'[v] = IF v = w THEN s ELSE state[v]
  BY DEF SetState, TypeOK, RowsOK
<1>2. Held' = (Held \ {w}) \cup {} /\ Past' = Past \cup {w}
  BY <1>1 DEF Held, Past, Leased, Terminal
<1>3. Lease!Turnover({w}, {})
  BY <1>2 DEF Lease!Turnover, Held, Past
<1>4. QED BY <1>3 DEF Lease!Next

\* A leased row moves to another leased state.
LEMMA LeasedMoves ==
    ASSUME TypeOK, NEW w \in Workflows, Leased(w),
           NEW s \in {"STARTING", "ACTIVE", "CLOSING", "CLEANUP_BLOCKED"}, SetState(w, s)
    PROVE  \A v \in Workflows : Still(v)
<1>1. \A v \in Workflows : state'[v] = IF v = w THEN s ELSE state[v]
  BY DEF SetState, TypeOK, RowsOK
<1>2. QED BY <1>1 DEF Still, Leased, Terminal

\* begin: overdue reservations end and the new lease is granted.
LEMMA BeginIsTurnover ==
    ASSUME IInv, NEW t \in Threads, NEW w \in Workflows, Begin(t, w)
    PROVE  Lease!Next
<1> DEFINE gone == {v \in Workflows : state[v] = "RESERVED" /\ v \in due}
<1>1. /\ state[w] = "NONE" /\ UNCHANGED debris
      /\ \A v \in Held \ gone : ~Conflict(v, w)
  BY DEF Begin, Held, env
<1>2. \A v \in Workflows : state'[v] = IF v = w THEN "RESERVED"
                                       ELSE IF v \in gone THEN "EXPIRED" ELSE state[v]
  BY DEF Begin, Lapsed, IInv, TypeOK, RowsOK
<1>3. gone \subseteq Held \ debris
  BY DEF IInv, LeaseInv, UnstartedOwnsNothing, OwnsNothing, Held, Leased, Terminal
<1>4. Held' = (Held \ gone) \cup {w} /\ Past' = Past \cup gone
  BY <1>1, <1>2 DEF Held, Past, Leased, Terminal
<1>5. {w} \cap (Held \cup Past) = {}
  BY <1>1 DEF Held, Past, Leased, Terminal
<1>6. \A u \in {w}, v \in (Held \ gone) \cup {w} : v # u => ~Conflict(v, u)
  BY <1>1
<1> HIDE DEF gone
<1>7. Lease!Turnover(gone, {w})
  BY <1>1, <1>3, <1>4, <1>5, <1>6 DEF Lease!Turnover, Held, Past
<1>8. gone \in SUBSET Workflows /\ {w} \in SUBSET Workflows
  BY DEF gone
<1>9. QED BY <1>7, <1>8 DEF Lease!Next

\* The sections of begin, activate, use and end.
LEMMA AdmissionMaps ==
    ASSUME IInv, NEW t \in Threads, Admission(t)
    PROVE  [Lease!Next]_(Lease!vars)
<1>1. TypeOK
  BY DEF IInv
<1>2. CASE UNCHANGED <<state, debris>>
  BY <1>2, StutterStep DEF Still, Leased
<1>3. ASSUME NEW w \in Workflows, Begin(t, w) PROVE Lease!Next
  BY <1>3, BeginIsTurnover
<1>4. CASE EnterReserved(t)
  <2>1. PICK w \in Workflows : w = th[t].wf
    BY <1>1, <1>4 DEF EnterReserved, At, TypeOK, ThreadsOK, Thread
  <2>2. Leased(w) /\ SetState(w, "STARTING") /\ debris' = debris \cup {w}
    BY <1>4, <2>1 DEF EnterReserved, Leased, Terminal
  <2>3. \A v \in Workflows : Still(v)
    BY <1>1, <2>2, LeasedMoves
  <2>4. Held' = Held /\ Past' = Past /\ w \in Held
    BY <2>2, <2>3 DEF Held, Past, Still, Leased
  <2>5. Lease!Use(w)
    BY <2>2, <2>4 DEF Lease!Use, Held, Past
  <2>6. QED BY <2>5 DEF Lease!Next
<1>5. CASE EnterReturns(t) /\ Overdue(th[t].wf) /\ ~UNCHANGED rows
  <2>1. PICK w \in Workflows : w = th[t].wf
    BY <1>1, <1>5 DEF EnterReturns, At, TypeOK, ThreadsOK, Thread
  <2>2. SetState(w, "EXPIRED") /\ UNCHANGED debris
    BY <1>5, <2>1 DEF EnterReturns
  <2>3. Leased(w) /\ w \notin debris
    BY <1>5, <2>1
    DEF Overdue, Leased, Terminal, IInv, LeaseInv, UnstartedOwnsNothing, OwnsNothing
  <2>4. QED BY <1>1, <2>2, <2>3, EndIsTurnover DEF Terminal
<1>6. CASE EnterReturns(t) /\ (~Overdue(th[t].wf) \/ UNCHANGED rows)
  BY <1>2, <1>6 DEF EnterReturns, rows
<1>7. QED
  BY <1>2, <1>3, <1>4, <1>5, <1>6
  DEF Admission, LoopReturns, NextRow, Locate, Dequeue, Admit, AdmitRefused, EndAllowed,
      rows, env

\* The sections of _end, close and recover.
LEMMA EndingMaps ==
    ASSUME IInv, NEW t \in Threads, Ending(t)
    PROVE  [Lease!Next]_(Lease!vars)
<1>1. TypeOK /\ Knows(t)
  BY DEF IInv, LeaseInv, SectionsKnow
<1>2. CASE UNCHANGED <<state, debris>>
  BY <1>2, StutterStep DEF Still, Leased
<1>3. PICK w : w = th[t].wf
  OBVIOUS
<1>4. th[t].pc \notin {"idle", "loop"} => w \in Workflows
  BY <1>1, <1>3 DEF TypeOK, ThreadsOK, Thread
<1>5. ASSUME w \in Workflows, Leased(w), UNCHANGED debris,
             NEW s \in {"CLOSING", "CLEANUP_BLOCKED"}, SetState(w, s)
      PROVE  UNCHANGED Lease!vars
  BY <1>1, <1>5, LeasedMoves, StutterStep
<1>6. CASE EndCloses(t)
  <2>1. /\ w \in Workflows /\ SetState(w, "CLOSING") /\ UNCHANGED debris
        /\ state[w] \notin Terminal
    BY <1>3, <1>4, <1>6 DEF EndCloses, At, env
  <2>2. Leased(w)
    BY <1>3, <2>1 DEF Leased, IInv, LeaseInv, RowsExist
  <2>3. QED BY <1>5, <2>1, <2>2
<1>7. CASE EndGateTimeout(t) /\ metadata[w] # "ENDED"
  <2>1. w \in Workflows /\ SetState(w, "CLEANUP_BLOCKED") /\ UNCHANGED debris
    BY <1>3, <1>4, <1>7 DEF EndGateTimeout, At, env
  <2>2. state[w] \in {"CLOSING", "CLEANUP_BLOCKED"}
    BY <1>1, <1>3, <1>4, <1>7, CacheSeen DEF EndGateTimeout, At, Knows, IInv, LeaseInv
  <2>3. QED BY <1>5, <2>1, <2>2 DEF Leased, Terminal
<1>8. CASE EndGateTimeout(t) /\ metadata[w] = "ENDED"
  BY <1>2, <1>3, <1>8 DEF EndGateTimeout, rows, env
<1>9. CASE DrainTimeout(t) \/ CleanupFails(t)
  <2>1. w \in Workflows /\ SetState(w, "CLEANUP_BLOCKED") /\ UNCHANGED debris
    BY <1>3, <1>4, <1>9 DEF DrainTimeout, CleanupFails, Blocked, At, env
  <2>2. state[w] \in {"CLOSING", "CLEANUP_BLOCKED"}
    BY <1>1, <1>3, <1>9 DEF DrainTimeout, CleanupFails, Knows, At
  <2>3. QED BY <1>5, <2>1, <2>2 DEF Leased, Terminal
<1>10. CASE Cleanup(t)
  <2>1. UNCHANGED state /\ w \in Workflows
    BY <1>4, <1>10 DEF Cleanup, At, rows
  <2>2. CASE debris' = debris \ {w}
    <3>1. Held' = Held /\ Past' = Past
      BY <2>1 DEF Held, Past, Leased
    <3>2. Lease!Clean(w)
      BY <2>2, <3>1 DEF Lease!Clean, Held, Past
    <3>3. QED BY <2>1, <3>2 DEF Lease!Next
  <2>3. CASE UNCHANGED debris
    BY <1>2, <2>1, <2>3
  <2>4. QED BY <1>3, <1>10, <2>2, <2>3 DEF Cleanup
<1>11. CASE EndFinishes(t)
  <2>1. w \in Workflows /\ SetState(w, "ENDED") /\ UNCHANGED debris
    BY <1>3, <1>4, <1>11 DEF EndFinishes, At, env
  <2>2. Leased(w) /\ w \notin debris
    BY <1>1, <1>3, <1>11 DEF EndFinishes, Knows, At, Leased, Terminal
  <2>3. QED BY <1>1, <2>1, <2>2, EndIsTurnover DEF Terminal
<1>12. CASE RecoverReturns(t)
  BY <1>12, LapseIsTurnover DEF RecoverReturns, env
<1>13. QED
  BY <1>2, <1>3, <1>6, <1>7, <1>8, <1>9, <1>10, <1>11, <1>12
  DEF Ending, Probe, ProbeRefused, ProbeClear, EndTerminal, EndEnters, DrainDone,
      CloseReturns, rows, env

\* The factory: its row holds the lease before and after.
LEMMA OutsideMaps ==
    ASSUME IInv, NEW t \in Threads, Outside(t)
    PROVE  UNCHANGED Lease!vars
<1>1. TypeOK /\ Knows(t)
  BY DEF IInv, LeaseInv, SectionsKnow
<1>2. PICK w \in Workflows : w = th[t].wf
  BY <1>1 DEF Outside, FactoryFails, FactoryReturns, Leave, At, TypeOK, ThreadsOK, Thread
<1>3. UNCHANGED debris
  BY DEF Outside, FactoryFails, FactoryReturns, Leave, env
<1>4. CASE UNCHANGED rows
  BY <1>3, <1>4, StutterStep DEF rows, Still, Leased
<1>5. CASE ~UNCHANGED rows
  <2>1. At(t, "factory") /\ \E s \in {"ACTIVE", "CLEANUP_BLOCKED"} : SetState(w, s)
    BY <1>2, <1>5 DEF Outside, FactoryFails, FactoryReturns, Leave
  <2>2. Leased(w)
    BY <1>1, <1>2, <2>1 DEF Knows, Leased, Terminal
  <2>3. QED BY <1>1, <1>3, <2>1, <2>2, LeasedMoves, StutterStep
<1>6. QED BY <1>4, <1>5

\* Arriving calls; a boot keeps every lease it finds.
LEMMA ArriveMaps ==
    ASSUME IInv, NEW t \in Threads, Arrive(t)
    PROVE  [Lease!Next]_(Lease!vars)
<1>1. CASE Expire(t)
  BY <1>1, LapseIsTurnover DEF Expire
<1>2. CASE Boot(t)
  <2>1. \A w \in Workflows :
            state'[w] = IF state[w] \in {"STARTING", "ACTIVE", "CLOSING", "CLEANUP_BLOCKED"}
                        THEN "CLEANUP_BLOCKED" ELSE state[w]
    BY <1>2 DEF Boot
  <2>2. \A w \in Workflows : Still(w)
    BY <2>1 DEF Still, Leased, Terminal
  <2>3. QED BY <1>2, <2>2, StutterStep DEF Boot, env
<1>3. CASE UNCHANGED <<state, debris>>
  BY <1>3, StutterStep DEF Still, Leased
<1>4. QED
  BY <1>1, <1>2, <1>3 DEF Arrive, Close, Release, End, Use, rows, env

\* Every step of the registry is a step of ProjectLease or changes nothing there.
LEMMA StepMaps == IInv /\ [Next]_vars => [Lease!Next]_(Lease!vars)
<1> SUFFICES ASSUME IInv, [Next]_vars PROVE [Lease!Next]_(Lease!vars)
  OBVIOUS
<1>1. CASE Resume \/ Clock \/ Crash \/ UNCHANGED vars
  <2>1. UNCHANGED <<state, debris>>
    BY <1>1
    DEF Resume, Rotate, Replay, Clock, ReservationLapses, ActivityLapses, ResponseLapses,
        Crash, vars, rows, env
  <2>2. QED BY <2>1, StutterStep DEF Still, Leased
<1>2. QED
  BY <1>1, ArriveMaps, AdmissionMaps, EndingMaps, OutsideMaps DEF Next

\* The registry's leases are those of ProjectLease: granted exclusively, used
\* only while held, given up once, for good, and only when nothing they
\* started is left, through every crash, timeout and failed cleanup.
THEOREM Implements == Spec => LeaseSpec
<1>1. Init => Lease!Init
  BY DEF Init, Lease!Init, Leased, Terminal
<1>2. QED BY <1>1, StepMaps, InvCorrect, PTL DEF Spec, LeaseSpec, Lease!Spec

-----------------------------------------------------------------------------
Reclaimers == {"release", "begin", "activate", "expire"}

\* The sections each public call runs.
Fits(r) == /\ r.pc \in {"release", "probe"} => r.op \in Reclaimers
           /\ r.pc = "endwait" => r.op = "end"
           /\ r.pc \in {"enter", "factory"} => r.op = "start"
           /\ r.pc \in {"queue", "admit", "body"} => r.op \in Kinds
           /\ r.pc = "loop" => r.op \in Loops
OpsFit == \A t \in Threads : Fits(th[t])

\* A call has a resource, an end a credential that was not replaced.
Served == \A t \in Threads : At(t, "body") => th[t].wf \in resources
EndsAccepted == \A t \in Threads :
    At(t, "end") /\ th[t].op = "end" => Accepted(th[t].wf, th[t].cred)
NothingRemains == host = "stopped" => Remaining = {}

CallInv == OpsFit /\ Served /\ EndsAccepted /\ ReclaimsOnlyIdle /\ NothingRemains

Steps(t) == Arrive(t) \/ Admission(t) \/ Ending(t) \/ Outside(t)

-----------------------------------------------------------------------------
(* How threads move                                                        *)

\* A thread changes in its own steps and in a crash only.
LEMMA OwnSteps ==
    ASSUME TypeOK, [Next]_vars, NEW t \in Threads, th'[t] # th[t]
    PROVE  Steps(t) \/ Crash
<1>1. ASSUME NEW u \in Threads, Steps(u) PROVE Only(u)
  <2>1. CASE Arrive(u)
    <3>1. PICK p \in First : \E o, w, g, todo : Start(u, o, p, w, g, todo)
      BY <2>1, ArriveStarts
    <3>2. QED BY <3>1 DEF Start, Only, TypeOK, ThreadsOK
  <2>2. QED
    BY <1>1, <2>1, AdmissionMoves, EndingMoves, OutsideMoves DEF Steps, Moves, Only
<1>2. ASSUME NEW u \in Threads, Steps(u) PROVE u = t
  BY <1>1, <1>2 DEF Only
<1>3. CASE Resume \/ Clock \/ UNCHANGED vars
  BY <1>3
  DEF Resume, Rotate, Replay, Clock, ReservationLapses, ActivityLapses, ResponseLapses, vars
<1>4. QED BY <1>2, <1>3 DEF Next, Steps

\* A thread that goes on keeps its call; one that goes back is done or in a loop.
LEMMA CallKept ==
    ASSUME ThreadsOK, NEW t \in Threads
    PROVE  /\ \A p : Go(t, p) => /\ th'[t].pc = p /\ th'[t].op = th[t].op
                                 /\ th'[t].wf = th[t].wf /\ th'[t].cred = th[t].cred
           /\ Return(t) => th'[t].pc = "idle"
           /\ BackToCaller(t) =>
                  th'[t].pc = "idle" \/ (th'[t].pc = "loop" /\ th'[t].op \in Loops)
<1>1. \A p : Go(t, p) => /\ th'[t].pc = p /\ th'[t].op = th[t].op
                         /\ th'[t].wf = th[t].wf /\ th'[t].cred = th[t].cred
  BY DEF ThreadsOK, Thread, Go
<1>2. Return(t) => th'[t].pc = "idle"
  BY DEF ThreadsOK, Return, Resting
<1>3. ASSUME BackToCaller(t)
      PROVE  th'[t].pc = "idle" \/ (th'[t].pc = "loop" /\ th'[t].op \in Loops)
  <2>1. CASE th[t].op \notin Loops
    BY <1>3, <2>1 DEF ThreadsOK, BackToCaller, Resting
  <2>2. CASE th[t].op \in Loops
    <3>1. th'[t] = [th[t] EXCEPT !.pc = "loop", !.wf = NoWorkflow, !.fresh = FALSE]
      BY <1>3, <2>2 DEF ThreadsOK, BackToCaller
    <3>2. th'[t].pc = "loop" /\ th'[t].op = th[t].op
      BY <3>1 DEF ThreadsOK, Thread
    <3>3. QED BY <2>2, <3>2
  <2>3. QED BY <2>1, <2>2
<1>4. QED BY <1>1, <1>2, <1>3

\* How the sections that matter here are entered.
Entered(t) ==
    /\ Fits(th'[t])
    /\ th'[t].pc = "body" => Admit(t)
    /\ th'[t].pc = "probe" => Probe(t)
    /\ th'[t].pc = "end" =>
           \/ ProbeClear(t) \/ EndAllowed(t) \/ FactoryReturns(t)
           \/ NextRow(t) /\ th[t].op \in {"close", "recover"}

\* A thread enters a loop or a first section when its call arrives.
LEMMA ArriveEnters ==
    ASSUME ThreadsOK, NEW t \in Threads, Arrive(t)
    PROVE  Entered(t)
<1>1. ASSUME NEW o, NEW p \in First, NEW w, NEW g, NEW todo, Start(t, o, p, w, g, todo),
             p = "release" => o \in Reclaimers, p = "endwait" => o = "end",
             p \in {"queue", "admit"} => o \in Kinds, p = "loop" => o \in Loops
      PROVE  Entered(t)
  BY <1>1 DEF Start, ThreadsOK, Entered, Fits, First
<1>2. CASE Expire(t)
  <2>1. PICK o \in {"begin", "activate", "expire"} :
            Start(t, o, "loop", NoWorkflow, 0, {w \in idle : state[w] = "ACTIVE"})
    BY <1>2 DEF Expire
  <2>2. QED BY <1>1, <2>1 DEF First, Loops
<1>3. CASE Close(t)
  BY <1>1, <1>3 DEF Close, First, Loops
<1>4. CASE Boot(t)
  <2>1. PICK todo : Start(t, "recover", "loop", NoWorkflow, 0, todo)
    BY <1>4 DEF Boot
  <2>2. QED BY <1>1, <2>1 DEF First, Loops
<1>5. ASSUME NEW w \in Workflows, Release(t, w) PROVE Entered(t)
  BY <1>1, <1>5 DEF Release, First, Reclaimers
<1>6. ASSUME NEW w \in Workflows, NEW g \in Generations, End(t, w, g) PROVE Entered(t)
  BY <1>1, <1>6 DEF End, First
<1>7. ASSUME NEW k \in Kinds, NEW w \in Workflows, NEW g \in Generations, Use(t, k, w, g)
      PROVE  Entered(t)
  <2>1. Start(t, k, "queue", w, g, {}) \/ Start(t, k, "admit", w, g, {})
    BY <1>7 DEF Use
  <2>2. QED BY <1>1, <2>1 DEF First
<1>8. QED BY <1>2, <1>3, <1>4, <1>5, <1>6, <1>7 DEF Arrive

\* Sections follow each other as the code says.
LEMMA SectionEnters ==
    ASSUME ThreadsOK, NEW t \in Threads, Fits(th[t]),
           Admission(t) \/ Ending(t) \/ Outside(t)
    PROVE  Entered(t)
<1> USE CallKept DEF At, Fits, Entered
<1>1. CASE NextRow(t)
  <2>1. /\ th[t].op \in Loops /\ th'[t].op = th[t].op
        /\ th'[t].pc = IF th[t].op \in {"close", "recover"} THEN "end" ELSE "release"
    BY <1>1 DEF NextRow, ThreadsOK, Thread
  <2>2. QED BY <1>1, <2>1 DEF Loops, Reclaimers
<1>2. ASSUME NEW w \in Workflows, NEW g \in Generations, Locate(t, w, g) PROVE Entered(t)
  <2>1. th'[t].pc = "enter" /\ th'[t].op = "start"
    BY <1>2 DEF Locate, ThreadsOK, Thread
  <2>2. QED BY <2>1
<1>3. CASE EndCloses(t)
  <2>1. th'[t].pc = "endgate"
    BY <1>3 DEF EndCloses, ThreadsOK, Thread
  <2>2. QED BY <2>1
<1>4. CASE LoopReturns(t) \/ (\E w \in Workflows : Begin(t, w)) \/ EnterReturns(t)
           \/ AdmitRefused(t) \/ Leave(t) \/ FactoryFails(t) \/ CloseReturns(t)
           \/ RecoverReturns(t)
  <2>1. Return(t)
    BY <1>4
    DEF LoopReturns, Begin, EnterReturns, AdmitRefused, Leave, FactoryFails, CloseReturns,
        RecoverReturns
  <2>2. QED BY <2>1
<1>5. CASE ProbeRefused(t) \/ EndTerminal(t) \/ EndGateTimeout(t) \/ DrainTimeout(t)
           \/ CleanupFails(t) \/ EndFinishes(t)
  <2>1. BackToCaller(t)
    BY <1>5
    DEF ProbeRefused, EndTerminal, EndGateTimeout, DrainTimeout, CleanupFails, Blocked,
        EndFinishes
  <2>2. QED BY <2>1
<1>6. CASE EnterReserved(t)
  BY <1>6 DEF EnterReserved
<1>7. CASE Dequeue(t) \/ Admit(t)
  BY <1>7 DEF Dequeue, Admit
<1>8. CASE EndAllowed(t)
  BY <1>8 DEF EndAllowed
<1>9. CASE Probe(t) \/ ProbeClear(t)
  BY <1>9 DEF Probe, ProbeClear
<1>10. CASE EndEnters(t) \/ DrainDone(t) \/ Cleanup(t)
  BY <1>10 DEF EndEnters, DrainDone, Cleanup
<1>11. CASE FactoryReturns(t)
  BY <1>11 DEF FactoryReturns
<1>12. QED
  BY <1>1, <1>2, <1>3, <1>4, <1>5, <1>6, <1>7, <1>8, <1>9, <1>10, <1>11
  DEF Admission, Ending, Outside

\* Both together, and for every thread that changes without a crash.
LEMMA Enters ==
    ASSUME TypeOK, OpsFit, [Next]_vars, NEW t \in Threads, th'[t] # th[t], ~Crash
    PROVE  Entered(t)
BY OwnSteps, ArriveEnters, SectionEnters DEF Steps, OpsFit, TypeOK

\* The sections of each call: inductive.
LEMMA FitStep ==
    ASSUME TypeOK, OpsFit, [Next]_vars
    PROVE  OpsFit'
<1>1. CASE Crash
  BY <1>1 DEF Crash, OpsFit, Fits, Resting
<1>2. CASE ~Crash
  BY <1>2, Enters DEF Entered, OpsFit
<1>3. QED BY <1>1, <1>2

-----------------------------------------------------------------------------
(* The invariants of calls                                                 *)

\* A resource goes only with the end of its workflow, or with the process.
LEMMA ResourceGoes ==
    ASSUME [Next]_vars, ~Crash, NEW w \in resources, w \notin resources'
    PROVE  \E u \in Threads : EndFinishes(u) /\ th[u].wf = w
<1> USE DEF memory
<1>1. CASE Resume \/ Clock \/ UNCHANGED vars
  BY <1>1
  DEF Resume, Rotate, Replay, Clock, ReservationLapses, ActivityLapses, ResponseLapses, vars
<1>2. ASSUME NEW t \in Threads, Arrive(t) PROVE FALSE
  BY <1>2 DEF Arrive, Expire, Close, Boot, Release, End, Use
<1>3. ASSUME NEW t \in Threads, Admission(t) PROVE FALSE
  BY <1>3
  DEF Admission, LoopReturns, NextRow, Begin, Locate, EnterReserved, EnterReturns, Dequeue,
      Admit, AdmitRefused, EndAllowed
<1>4. ASSUME NEW t \in Threads, Ending(t) PROVE EndFinishes(t) /\ th[t].wf = w
  BY <1>4
  DEF Ending, Probe, ProbeRefused, ProbeClear, EndTerminal, EndCloses, EndEnters,
      EndGateTimeout, DrainDone, DrainTimeout, Cleanup, CleanupFails, Blocked, EndFinishes,
      CloseReturns, RecoverReturns
<1>5. ASSUME NEW t \in Threads, Outside(t) PROVE FALSE
  BY <1>5 DEF Outside, FactoryFails, FactoryReturns, Leave
<1>6. QED BY <1>1, <1>2, <1>3, <1>4, <1>5 DEF Next

\* A call that was admitted keeps its resource: inductive.
LEMMA ServedStep ==
    ASSUME IInv, CallInv, [Next]_vars
    PROVE  Served'
<1>1. CASE Crash
  BY <1>1 DEF Crash, Served, At, Resting
<1>2. ASSUME ~Crash, NEW t \in Threads, th'[t].pc = "body" PROVE th'[t].wf \in resources'
  <2>1. CASE th'[t] # th[t]
    <3>1. Admit(t)
      BY <1>2, <2>1, Enters DEF Entered, IInv, CallInv
    <3>2. th[t].wf \in resources /\ UNCHANGED resources /\ th'[t].wf = th[t].wf
      BY <3>1, CallKept DEF Admit, Admissible, IInv, TypeOK
    <3>3. QED BY <3>2
  <2>2. CASE th'[t] = th[t]
    <3>1. PICK w : w = th[t].wf
      OBVIOUS
    <3>2. w \in resources /\ w \in Workflows /\ At(t, "body")
      BY <1>2, <2>2, <3>1 DEF CallInv, Served, At, IInv, TypeOK, MemoryOK
    <3>3. inflight[w] # {}
      BY <3>1, <3>2 DEF IInv, LeaseInv, CallsCounted
    <3>4. ASSUME NEW u \in Threads, EndFinishes(u), th[u].wf = w PROVE FALSE
      BY <3>3, <3>4 DEF EndFinishes, At, IInv, LeaseInv, SectionsKnow, Knows
    <3>5. QED BY <1>2, <2>2, <3>1, <3>2, <3>4, ResourceGoes
  <2>3. QED BY <2>1, <2>2
<1>3. QED BY <1>1, <1>2 DEF Served, At

\* A gate that is held keeps the credentials of its row as they are.
LEMMA CredentialsKept ==
    ASSUME TypeOK, [Next]_vars, NEW w \in Workflows, state[w] # "NONE", gate[w] # NoThread
    PROVE  live'[w] = live[w]
<1> USE DEF creds
<1>1. CASE Clock \/ Crash \/ UNCHANGED vars
  BY <1>1 DEF Clock, ReservationLapses, ActivityLapses, ResponseLapses, Crash, vars
<1>2. CASE Resume
  BY <1>2 DEF Resume, Rotate, MayResume, Replay, TypeOK, CredsOK
<1>3. ASSUME NEW t \in Threads, Arrive(t) PROVE UNCHANGED live
  BY <1>3 DEF Arrive, Expire, Close, Boot, Release, End, Use
<1>4. ASSUME NEW t \in Threads, NEW v \in Workflows, Begin(t, v) PROVE live'[w] = live[w]
  BY <1>4 DEF Begin, TypeOK, CredsOK
<1>5. ASSUME NEW t \in Threads, Admission(t), ~\E v \in Workflows : Begin(t, v)
      PROVE  UNCHANGED live
  BY <1>5
  DEF Admission, LoopReturns, NextRow, Locate, EnterReserved, EnterReturns, Dequeue, Admit,
      AdmitRefused, EndAllowed
<1>6. ASSUME NEW t \in Threads, Ending(t) PROVE UNCHANGED live
  BY <1>6
  DEF Ending, Probe, ProbeRefused, ProbeClear, EndTerminal, EndCloses, EndEnters,
      EndGateTimeout, DrainDone, DrainTimeout, Cleanup, CleanupFails, Blocked, EndFinishes,
      CloseReturns, RecoverReturns
<1>7. ASSUME NEW t \in Threads, Outside(t) PROVE UNCHANGED live
  BY <1>7 DEF Outside, FactoryFails, FactoryReturns, Leave
<1>8. QED BY <1>1, <1>2, <1>3, <1>4, <1>5, <1>6, <1>7 DEF Next

\* An end that has the gate has a credential that is still the current one.
LEMMA EndsStep ==
    ASSUME IInv, CallInv, [Next]_vars
    PROVE  EndsAccepted'
<1>0. TypeOK
  BY DEF IInv
<1>1. CASE Crash
  BY <1>1 DEF Crash, EndsAccepted, At, Resting
<1>2. ASSUME ~Crash, NEW t \in Threads, th'[t].pc = "end", th'[t].op = "end"
      PROVE  th'[t].cred \in live'[th'[t].wf]
  <2>1. CASE th'[t] # th[t]
    <3>1. \/ ProbeClear(t) \/ EndAllowed(t) \/ FactoryReturns(t)
          \/ NextRow(t) /\ th[t].op \in {"close", "recover"}
      BY <1>2, <2>1, Enters DEF Entered, IInv, CallInv
    <3>2. Fits(th[t])
      BY DEF CallInv, OpsFit
    <3>3. CASE ProbeClear(t) \/ FactoryReturns(t)
      <4>1. th'[t].op = th[t].op
        BY <1>0, <1>2, <3>3, CallKept DEF ProbeClear, FactoryReturns, TypeOK
      <4>2. QED
        BY <1>2, <3>2, <3>3, <4>1 DEF ProbeClear, FactoryReturns, Fits, At, Reclaimers
    <3>4. CASE NextRow(t) /\ th[t].op \in {"close", "recover"}
      BY <1>0, <1>2, <3>4 DEF NextRow, TypeOK, ThreadsOK, Thread
    <3>5. CASE EndAllowed(t)
      BY <1>0, <1>2, <3>5, CallKept DEF EndAllowed, Accepted, creds, TypeOK
    <3>6. QED BY <3>1, <3>3, <3>4, <3>5
  <2>2. CASE th'[t] = th[t]
    <3>1. PICK w \in Workflows : w = th[t].wf
      BY <1>0, <1>2, <2>2 DEF TypeOK, ThreadsOK, Thread
    <3>2. th[t].cred \in live[w] /\ HoldsGate(t)
      BY <1>2, <2>2, <3>1 DEF CallInv, EndsAccepted, Accepted, At, HoldsGate
    <3>3. gate[w] # NoThread
      BY <3>1, <3>2, ConstantsAssumption DEF IInv, LeaseInv, GateHeld
    <3>4. state[w] # "NONE"
      BY <3>1 DEF IInv, LeaseInv, RowsExist
    <3>5. QED BY <1>0, <2>2, <3>1, <3>2, <3>3, <3>4, CredentialsKept
  <2>3. QED BY <2>1, <2>2
<1>3. QED BY <1>1, <1>2 DEF EndsAccepted, Accepted, At

\* Behind a held gate no call is admitted, and only the holder's factory and
\* calls in their body touch the row.
LEMMA HeldQuiet ==
    ASSUME TypeOK, [Next]_vars, NEW w \in Workflows, gate[w] # NoThread
    PROVE  /\ inflight'[w] \subseteq inflight[w]
           /\ \/ w \in idle => w \in idle'
              \/ \E u \in Threads : (Leave(u) \/ FactoryReturns(u)) /\ th[u].wf = w
<1> USE DEF memory, env
<1>1. CASE Resume \/ Clock \/ UNCHANGED vars
  BY <1>1
  DEF Resume, Rotate, MayResume, Replay, Clock, ReservationLapses, ActivityLapses,
      ResponseLapses, vars
<1>2. CASE Crash
  BY <1>2 DEF Crash
<1>3. ASSUME NEW t \in Threads, Arrive(t) PROVE UNCHANGED <<inflight, idle>>
  BY <1>3 DEF Arrive, Expire, Close, Boot, Release, End, Use
<1>4. ASSUME NEW t \in Threads, Admission(t)
      PROVE  inflight'[w] \subseteq inflight[w] /\ (w \in idle => w \in idle')
  <2>1. CASE Admit(t)
    BY <2>1 DEF Admit, Touched, TypeOK, MemoryOK
  <2>2. CASE EnterReserved(t) \/ EnterReturns(t)
    BY <2>2 DEF EnterReserved, EnterReturns
  <2>3. QED
    BY <1>4, <2>1, <2>2
    DEF Admission, LoopReturns, NextRow, Begin, Locate, Dequeue, AdmitRefused, EndAllowed
<1>5. ASSUME NEW t \in Threads, Ending(t) PROVE UNCHANGED <<inflight, idle>>
  BY <1>5
  DEF Ending, Probe, ProbeRefused, ProbeClear, EndTerminal, EndCloses, EndEnters,
      EndGateTimeout, DrainDone, DrainTimeout, Cleanup, CleanupFails, Blocked, EndFinishes,
      CloseReturns, RecoverReturns
<1>6. ASSUME NEW t \in Threads, Outside(t)
      PROVE  /\ inflight'[w] \subseteq inflight[w]
             /\ \/ w \in idle => w \in idle'
                \/ (Leave(t) \/ FactoryReturns(t)) /\ th[t].wf = w
  BY <1>6 DEF Outside, FactoryFails, FactoryReturns, Leave, Touched, TypeOK, MemoryOK
<1>7. QED BY <1>1, <1>2, <1>3, <1>4, <1>5, <1>6 DEF Next

\* A workflow that is being reclaimed stays idle.
LEMMA ReclaimStep ==
    ASSUME IInv, CallInv, [Next]_vars
    PROVE  ReclaimsOnlyIdle'
<1> DEFINE Reclaiming(r) == r.pc = "probe" \/ (r.pc = "end" /\ r.op \in Reclaimers)
<1>0. TypeOK
  BY DEF IInv
<1>1. CASE Crash
  BY <1>1 DEF Crash, ReclaimsOnlyIdle, At, Resting
<1>2. ASSUME ~Crash, NEW t \in Threads, Reclaiming(th'[t])
      PROVE  inflight'[th'[t].wf] = {} /\ th'[t].wf \in idle'
  <2>1. CASE th'[t] # th[t]
    <3>1. \/ Probe(t) \/ ProbeClear(t) \/ EndAllowed(t) \/ FactoryReturns(t)
          \/ NextRow(t) /\ th[t].op \in {"close", "recover"}
      BY <1>2, <2>1, Enters DEF Entered, IInv, CallInv
    <3>2. Fits(th[t])
      BY DEF CallInv, OpsFit
    <3>3. CASE Probe(t)
      BY <1>0, <3>3, CallKept DEF Probe, Reclaimable, memory, env, TypeOK
    <3>4. CASE ProbeClear(t)
      <4>1. inflight[th[t].wf] = {} /\ th[t].wf \in idle
        BY <3>4 DEF ProbeClear, CallInv, ReclaimsOnlyIdle
      <4>2. QED BY <1>0, <3>4, <4>1, CallKept DEF ProbeClear, memory, env, TypeOK
    <3>5. CASE EndAllowed(t) \/ FactoryReturns(t)
      <4>1. th[t].op \in {"end", "start"}
        BY <3>2, <3>5 DEF EndAllowed, FactoryReturns, Fits, At
      <4>2. th'[t].pc \in {"idle", "end"} /\ (th'[t].pc = "end" => th'[t].op = th[t].op)
        BY <1>0, <3>5, CallKept DEF EndAllowed, FactoryReturns, TypeOK
      <4>3. QED BY <1>2, <4>1, <4>2 DEF Reclaimers
    <3>6. CASE NextRow(t) /\ th[t].op \in {"close", "recover"}
      <4>1. th'[t].pc = "end" /\ th'[t].op = th[t].op
        BY <1>0, <3>6 DEF NextRow, TypeOK, ThreadsOK, Thread
      <4>2. QED BY <1>2, <3>6, <4>1 DEF Reclaimers
    <3>7. QED BY <3>1, <3>3, <3>4, <3>5, <3>6
  <2>2. CASE th'[t] = th[t]
    <3>1. PICK w \in Workflows : w = th[t].wf
      BY <1>0, <1>2, <2>2 DEF TypeOK, ThreadsOK, Thread
    <3>2. inflight[w] = {} /\ w \in idle
      BY <1>2, <2>2, <3>1 DEF CallInv, ReclaimsOnlyIdle, At, Reclaimers
    <3>3. Holds(t, w)
      BY <1>2, <2>2, <3>1 DEF Holds, HoldsGate, Reclaimers
    <3>4. gate[w] # NoThread
      BY <3>3, ConstantsAssumption DEF IInv, LeaseInv, GateHeld, Holds
    <3>5. ASSUME NEW u \in Threads, Leave(u), th[u].wf = w PROVE FALSE
      BY <3>2, <3>5 DEF Leave, IInv, LeaseInv, CallsCounted
    <3>6. ASSUME NEW u \in Threads, FactoryReturns(u), th[u].wf = w PROVE FALSE
      <4>1. At(u, "factory") /\ Holds(u, w)
        BY <3>6 DEF FactoryReturns, Holds, HoldsGate, At
      <4>2. u = t
        BY <3>3, <4>1, GateAlone DEF IInv, LeaseInv
      <4>3. QED BY <1>2, <2>2, <4>1, <4>2 DEF At
    <3>7. QED BY <1>0, <2>2, <3>1, <3>2, <3>4, <3>5, <3>6, HeldQuiet
  <2>3. QED BY <2>1, <2>2
<1>3. QED BY <1>1, <1>2 DEF ReclaimsOnlyIdle, At, Reclaimers

\* After close() nothing is added.
LEMMA RemainsStep ==
    ASSUME IInv, CallInv, [Next]_vars
    PROVE  NothingRemains'
<1> USE DEF memory
<1>1. CASE Resume \/ Clock \/ UNCHANGED vars \/ Crash
  BY <1>1
  DEF Resume, Rotate, Replay, Clock, ReservationLapses, ActivityLapses, ResponseLapses,
      vars, Crash, CallInv, NothingRemains, Remaining
<1>2. ASSUME NEW t \in Threads, Arrive(t) PROVE NothingRemains'
  BY <1>2
  DEF Arrive, Expire, Close, Boot, Release, End, Use, CallInv, NothingRemains, Remaining
<1>3. ASSUME NEW t \in Threads, Admission(t) PROVE NothingRemains'
  BY <1>3
  DEF Admission, LoopReturns, NextRow, Begin, Locate, EnterReserved, EnterReturns, Dequeue,
      Admit, AdmitRefused, EndAllowed, CallInv, NothingRemains, Remaining, Closed
<1>4. ASSUME NEW t \in Threads, Ending(t) PROVE NothingRemains'
  BY <1>4
  DEF Ending, Probe, ProbeRefused, ProbeClear, EndTerminal, EndCloses, EndEnters,
      EndGateTimeout, DrainDone, DrainTimeout, Cleanup, CleanupFails, Blocked, EndFinishes,
      CloseReturns, RecoverReturns, CallInv, NothingRemains, Remaining
<1>5. ASSUME NEW t \in Threads, Outside(t) PROVE NothingRemains'
  <2>1. CASE FactoryReturns(t)
    <3>1. th[t].wf \in starting /\ UNCHANGED host
      BY <2>1
      DEF FactoryReturns, At, IInv, TypeOK, ThreadsOK, Thread, LeaseInv, StartsCounted
    <3>2. QED BY <3>1 DEF CallInv, NothingRemains, Remaining
  <2>2. QED
    BY <1>5, <2>1 DEF Outside, FactoryFails, Leave, CallInv, NothingRemains, Remaining
<1>6. QED BY <1>1, <1>2, <1>3, <1>4, <1>5 DEF Next

\* The invariants of calls hold of every behaviour.
LEMMA CallsCorrect == Spec => [](IInv /\ CallInv)
<1>1. Init => CallInv
  BY DEF Init, CallInv, OpsFit, Fits, Served, EndsAccepted, ReclaimsOnlyIdle,
         NothingRemains, At, Resting
<1>2. IInv /\ CallInv /\ [Next]_vars => CallInv'
  BY FitStep, ServedStep, EndsStep, ReclaimStep, RemainsStep DEF CallInv, IInv
<1>3. QED BY <1>1, <1>2, InvInit, InvStep, PTL DEF Spec

-----------------------------------------------------------------------------
(* What follows                                                            *)

\* No resource is closed, or gone, under a tool call that use() admitted, for
\* any number of calls, ends, reclaims and shutdowns.
THEOREM CallsAreServed == Spec => []CallsKeepTheirResource
<1>1. IInv /\ CallInv => CallsKeepTheirResource
  <2> SUFFICES ASSUME IInv, CallInv, NEW t \in Threads, At(t, "body"),
                      NEW u \in Threads, th[u].pc \in {"cleanup", "cleaned"},
                      th[u].wf = th[t].wf
               PROVE  FALSE
    BY DEF CallsKeepTheirResource, CallInv, Served
  <2>1. inflight[th[t].wf] = {}
    BY DEF IInv, LeaseInv, SectionsKnow, Knows
  <2>2. th[t].wf \in Workflows
    BY DEF At, IInv, TypeOK, ThreadsOK, Thread
  <2>3. QED BY <2>1, <2>2 DEF IInv, LeaseInv, CallsCounted
<1>2. QED BY <1>1, CallsCorrect, PTL

\* release_idle and the expiry loop take a workflow only while nothing uses it.
THEOREM ReclaimsAreIdle == Spec => []ReclaimsOnlyIdle
<1>1. CallInv => ReclaimsOnlyIdle
  BY DEF CallInv
<1>2. QED BY <1>1, CallsCorrect, PTL

\* After a close() that succeeded nothing runs.
THEOREM StoppedForGood == Spec => []StoppedIsEmpty
<1>1. IInv /\ CallInv => StoppedIsEmpty
  <2> SUFFICES ASSUME IInv, CallInv, host = "stopped" PROVE
          /\ resources \cup starting = {}
          /\ \A t \in Threads : th[t].pc \notin {"factory", "body"}
    BY DEF StoppedIsEmpty
  <2>1. resources \cup starting = {}
    BY DEF CallInv, NothingRemains, Remaining
  <2>2. \A t \in Threads : th[t].pc \in {"factory", "body"} => th[t].wf \in Workflows
    BY DEF IInv, TypeOK, ThreadsOK, Thread
  <2>3. QED
    BY <2>1, <2>2 DEF CallInv, Served, IInv, LeaseInv, StartsCounted, At
<1>2. QED BY <1>1, CallsCorrect, PTL

\* A credential that resume() replaced admits no call and ends no workflow,
\* however long its call waited.
THEOREM OldCredentialsAreDead == Spec => ReplacedCredentialsAreDead
<1> DEFINE Uses(t) == \/ At(t, "admit") /\ th'[t].pc = "body"
                      \/ At(t, "end") /\ th[t].op = "end" /\ th'[t].pc = "endgate"
           Dead == \A t \in Threads : Uses(t) => Accepted(th[t].wf, th[t].cred)
<1>1. IInv /\ CallInv /\ [Next]_vars => Dead
  <2> SUFFICES ASSUME IInv, CallInv, [Next]_vars, NEW t \in Threads, Uses(t)
               PROVE  Accepted(th[t].wf, th[t].cred)
    OBVIOUS
  <2>1. CASE At(t, "admit") /\ th'[t].pc = "body"
    <3>1. ~Crash
      BY <2>1 DEF Crash, Resting
    <3>2. Admit(t)
      BY <2>1, <3>1, Enters DEF At, Entered, IInv, CallInv
    <3>3. QED BY <3>2 DEF Admit, Admissible
  <2>2. CASE At(t, "end") /\ th[t].op = "end"
    BY <2>2 DEF CallInv, EndsAccepted
  <2>3. QED BY <2>1, <2>2
<1>2. IInv /\ CallInv /\ [Next]_vars => [Dead]_vars
  BY <1>1
<1> HIDE DEF Dead
<1>3. Spec => [][Dead]_vars
  BY <1>2, CallsCorrect, PTL DEF Spec
<1>4. QED BY <1>3 DEF Dead, ReplacedCredentialsAreDead

-----------------------------------------------------------------------------
(* Credentials                                                             *)

\* A row has the one credential of its generation.
OneCredential == \A w \in Workflows :
    /\ state[w] = "NONE" => live[w] = {} /\ generation[w] = 0
    /\ state[w] # "NONE" => live[w] = {generation[w]}

\* Only begin adds a row.
LEMMA RowAdded ==
    ASSUME IInv, [Next]_vars, NEW w \in Workflows, state[w] = "NONE", state'[w] # "NONE"
    PROVE  \E t \in Threads : Begin(t, w)
<1> USE DEF rows
<1>1. ASSUME NEW t \in Threads, NEW s, SetState(th[t].wf, s) PROVE FALSE
  BY <1>1 DEF SetState, IInv, TypeOK, RowsOK, LeaseInv, RowsExist
<1>2. ASSUME NEW S, state' = Lapsed(state, S) PROVE FALSE
  BY <1>2 DEF Lapsed
<1>3. ASSUME NEW t \in Threads, Arrive(t) PROVE FALSE
  BY <1>2, <1>3 DEF Arrive, Expire, Close, Boot, Release, End, Use
<1>4. ASSUME NEW t \in Threads, Admission(t) PROVE Begin(t, w)
  <2>1. ASSUME NEW v \in Workflows, Begin(t, v) PROVE v = w
    BY <2>1 DEF Begin, Lapsed
  <2>2. QED
    BY <1>1, <1>4, <2>1
    DEF Admission, LoopReturns, NextRow, Locate, EnterReserved, EnterReturns, Dequeue,
        Admit, AdmitRefused, EndAllowed
<1>5. ASSUME NEW t \in Threads, Ending(t) PROVE FALSE
  BY <1>1, <1>2, <1>5
  DEF Ending, Probe, ProbeRefused, ProbeClear, EndTerminal, EndCloses, EndEnters,
      EndGateTimeout, DrainDone, DrainTimeout, Cleanup, CleanupFails, Blocked, EndFinishes,
      CloseReturns, RecoverReturns
<1>6. ASSUME NEW t \in Threads, Outside(t) PROVE FALSE
  BY <1>1, <1>6 DEF Outside, FactoryFails, FactoryReturns, Leave
<1>7. CASE Resume \/ Clock \/ Crash \/ UNCHANGED vars
  BY <1>7
  DEF Resume, Rotate, Replay, Clock, ReservationLapses, ActivityLapses, ResponseLapses,
      Crash, vars
<1>8. QED BY <1>3, <1>4, <1>5, <1>6, <1>7 DEF Next

\* Only begin and resume change credentials or hand them out.
LEMMA CredentialSteps ==
    ASSUME [Next]_vars
    PROVE  \/ \E t \in Threads, w \in Workflows : Begin(t, w)
           \/ \E w \in Workflows, r \in ResumeIds : Rotate(w, r) \/ Replay(w, r)
           \/ UNCHANGED <<live, generation, tokens>>
<1> USE DEF creds
<1>1. CASE Resume \/ Clock \/ Crash \/ UNCHANGED vars
  BY <1>1
  DEF Resume, Clock, ReservationLapses, ActivityLapses, ResponseLapses, Crash, vars
<1>2. ASSUME NEW t \in Threads, Arrive(t) PROVE UNCHANGED creds
  BY <1>2 DEF Arrive, Expire, Close, Boot, Release, End, Use
<1>3. ASSUME NEW t \in Threads, Admission(t), ~\E v \in Workflows : Begin(t, v)
      PROVE  UNCHANGED creds
  BY <1>3
  DEF Admission, LoopReturns, NextRow, Locate, EnterReserved, EnterReturns, Dequeue, Admit,
      AdmitRefused, EndAllowed
<1>4. ASSUME NEW t \in Threads, Ending(t) PROVE UNCHANGED creds
  BY <1>4
  DEF Ending, Probe, ProbeRefused, ProbeClear, EndTerminal, EndCloses, EndEnters,
      EndGateTimeout, DrainDone, DrainTimeout, Cleanup, CleanupFails, Blocked, EndFinishes,
      CloseReturns, RecoverReturns
<1>5. ASSUME NEW t \in Threads, Outside(t) PROVE UNCHANGED creds
  BY <1>5 DEF Outside, FactoryFails, FactoryReturns, Leave
<1>6. QED BY <1>1, <1>2, <1>3, <1>4, <1>5 DEF Next

\* One credential per row: inductive.
LEMMA OneStep ==
    ASSUME IInv, OneCredential, [Next]_vars
    PROVE  OneCredential'
<1>0. RowsOK /\ CredsOK /\ ThreadsOK
  BY DEF IInv, TypeOK
<1>1. \A w \in Workflows : state[w] # "NONE" => state'[w] # "NONE"
  BY <1>0, StateKept
<1>2. ASSUME NEW t \in Threads, NEW v \in Workflows, Begin(t, v) PROVE OneCredential'
  <2>1. /\ \A w \in Workflows : w # v => live'[w] = live[w]
        /\ live'[v] = {0} /\ UNCHANGED generation /\ state[v] = "NONE"
    BY <1>0, <1>2 DEF Begin, CredsOK
  <2>2. \A w \in Workflows : w # v => (state'[w] = "NONE" <=> state[w] = "NONE")
    BY <1>2 DEF Begin, Lapsed
  <2>3. state'[v] # "NONE"
    BY <1>0, <1>2 DEF Begin, Lapsed, RowsOK
  <2>4. QED BY <2>1, <2>2, <2>3 DEF OneCredential
<1>3. ASSUME NEW v \in Workflows, NEW r \in ResumeIds, Rotate(v, r) PROVE OneCredential'
  BY <1>0, <1>3 DEF Rotate, MayResume, CredsOK, OneCredential, rows
<1>4. CASE /\ UNCHANGED <<live, generation>>
           /\ ~\E t \in Threads, w \in Workflows : Begin(t, w)
  BY <1>1, <1>4, RowAdded DEF OneCredential
<1>5. ASSUME NEW v \in Workflows, NEW r \in ResumeIds, Replay(v, r)
      PROVE  UNCHANGED <<live, generation, state>>
  BY <1>5 DEF Replay, rows
<1>6. QED
  BY <1>2, <1>3, <1>4, <1>5, CredentialSteps DEF OneCredential

\* Every credential the client is handed is the current one, also when it
\* answers a request that was repeated after its answer got lost.
THEOREM HandedTokens == Spec => HandedTokensWork
<1> DEFINE Works == \A w \in Workflows : tokens'[w] \ tokens[w] \subseteq live'[w]
<1>1. Init => OneCredential
  BY DEF Init, OneCredential
<1>2. IInv /\ OneCredential /\ [Next]_vars => OneCredential'
  BY OneStep
<1>3. IInv /\ OneCredential /\ [Next]_vars => Works
  <2> SUFFICES ASSUME IInv, OneCredential, [Next]_vars PROVE Works
    OBVIOUS
  <2>0. CredsOK
    BY DEF IInv, TypeOK
  <2>1. ASSUME NEW t \in Threads, NEW w \in Workflows, Begin(t, w) PROVE Works
    BY <2>0, <2>1 DEF Begin, CredsOK
  <2>2. ASSUME NEW w \in Workflows, NEW r \in ResumeIds, Rotate(w, r) PROVE Works
    BY <2>0, <2>2 DEF Rotate, Delivered, CredsOK
  <2>3. ASSUME NEW w \in Workflows, NEW r \in ResumeIds, Replay(w, r) PROVE Works
    <3>1. generation[w] \in live[w] /\ UNCHANGED live
      BY <2>3 DEF Replay, MayResume, OneCredential
    <3>2. Delivered(w, generation[w])
      BY <2>3 DEF Replay, Replayable
    <3>3. QED BY <2>0, <3>1, <3>2 DEF Delivered, CredsOK
  <2>4. QED BY <2>1, <2>2, <2>3, CredentialSteps
<1> HIDE DEF Works
<1>4. Spec => [][Works]_vars
  BY <1>1, <1>2, <1>3, InvInit, InvStep, PTL DEF Spec
<1>5. QED BY <1>4 DEF Works, HandedTokensWork
=============================================================================
