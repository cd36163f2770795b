------------------------ MODULE LocalMachineProofs --------------------------
(* What the host does on its own machine is right for every value of the      *)
(* constants: any number of failures, of tasks, of files in a package.  Each  *)
(* component has its inductive invariant; a behaviour is of one of them.      *)
EXTENDS LocalMachine, TLAPS, FiniteSetTheorems

-----------------------------------------------------------------------------
(* The life of the service (ServiceLifecycle).                                *)

ServiceBounded == MaxServiceFaults \in Nat /\ MaxRetries \in Nat

ServiceClosing == {"closeTunnel", "joinAttempt", "dispose", "joinMaintenance", "closeServer",
                   "closeRuntime", "release"}
ServiceTunnelGone == ~sup.made /\ attempt = "off" /\ runner = "none" /\ clients = 0

\* The flags, the supervisor, and the rest of TypeOK.
ServiceFlags == guard \in BOOLEAN /\ stopping \in BOOLEAN /\ serviceFailed \in BOOLEAN
ServiceSupervisors == [made: BOOLEAN, stop: BOOLEAN, blocked: BOOLEAN, refresh: BOOLEAN,
                       due: BOOLEAN]
ServicePlaces ==
    /\ owner \in Service!Stages /\ attempt \in Service!Steps
    /\ parts \subseteq {"runtime", "server"}
    /\ maint \in {"none", "running", "ended"}
    /\ runner \in {"none", "fresh", "started"}
    /\ clients \in Nat
ServiceCounters == serviceFaults \in 0 .. MaxServiceFaults /\ retries \in 0 .. MaxRetries
ServiceTyped == ServiceFlags /\ sup \in ServiceSupervisors /\ ServicePlaces /\ ServiceCounters

\* The tunnel belongs to a supervisor, and the client to its runner.
ServiceOwned ==
    /\ ~sup.made => ServiceTunnelGone
    /\ clients <= 1
    /\ clients = 1 => runner = "started"
    /\ attempt = "fresh" /\ runner = "none" => clients = 0

\* Without the lock there is nothing.
ServiceLockHeld ==
    /\ ~guard => owner = "down" /\ ServiceTunnelGone /\ parts = {} /\ maint = "none"
    /\ owner \in ServiceClosing => stopping

\* What the stop has already done, and cannot be undone behind its back.
ServiceStopKnows ==
    /\ owner \in {"joinAttempt", "dispose"} => sup.stop
    /\ owner = "dispose" => attempt = "off"
    /\ owner \in {"joinMaintenance", "closeServer", "closeRuntime", "release"} /\ ~serviceFailed =>
           ServiceTunnelGone
    /\ owner \in {"closeServer", "closeRuntime", "release"} => maint = "none"
    /\ owner \in {"closeRuntime", "release"} => "server" \notin parts
    /\ owner = "release" /\ ~serviceFailed => parts = {}

ServiceInv == ServiceTyped /\ ServiceOwned /\ ServiceLockHeld /\ ServiceStopKnows

\* What the supervisor's own flags may become.
ServiceKept == sup' \in ServiceSupervisors /\ sup'.made = sup.made /\ sup'.stop = sup.stop

LEMMA ServiceEdits ==
    ASSUME NEW s \in ServiceSupervisors, NEW b \in BOOLEAN
    PROVE  /\ [s EXCEPT !.due = TRUE] \in ServiceSupervisors
           /\ [s EXCEPT !.refresh = FALSE] \in ServiceSupervisors
           /\ [s EXCEPT !.blocked = b, !.due = b] \in ServiceSupervisors
           /\ [s EXCEPT !.stop = TRUE] \in ServiceSupervisors
           /\ [s EXCEPT !.blocked = FALSE, !.refresh = TRUE, !.due = TRUE] \in ServiceSupervisors
BY DEF ServiceSupervisors

LEMMA ServiceEdited ==
    ASSUME NEW s \in ServiceSupervisors
    PROVE  /\ [s EXCEPT !.due = TRUE].made = s.made
           /\ [s EXCEPT !.due = TRUE].stop = s.stop
           /\ [s EXCEPT !.refresh = FALSE].made = s.made
           /\ [s EXCEPT !.refresh = FALSE].stop = s.stop
           /\ [s EXCEPT !.stop = TRUE].made = s.made
           /\ [s EXCEPT !.stop = TRUE].stop
BY SMT DEF ServiceSupervisors

LEMMA ServiceBlockKeeps == ASSUME sup \in ServiceSupervisors, NEW b \in BOOLEAN, Service!Block(b)
    PROVE ServiceKept
<1>1. CASE sup.stop
  BY <1>1 DEF Service!Block, ServiceKept
<1>2. CASE ~sup.stop
  <2>1. sup' = [sup EXCEPT !.blocked = b, !.due = b]
    BY <1>2 DEF Service!Block
  <2>2. sup' \in ServiceSupervisors
    BY <2>1, ServiceEdits
  <2>3. sup'.made = sup.made /\ sup'.stop = sup.stop
    BY <2>1, SMT DEF ServiceSupervisors
  <2> QED BY <2>2, <2>3 DEF ServiceKept
<1> QED BY <1>1, <1>2

LEMMA ServiceNoSupervisorFits ==
    Service!NoSupervisor \in ServiceSupervisors /\ ~Service!NoSupervisor.made
BY DEF Service!NoSupervisor, ServiceSupervisors

LEMMA ServiceConnectedFits ==
    ASSUME sup \in ServiceSupervisors
    PROVE  /\ Service!Connected \in ServiceSupervisors /\ Service!Connected.made
           /\ sup.made => Service!Connected.stop = sup.stop
<1>1. CASE sup.made
  <2>1. Service!Connected = [sup EXCEPT !.blocked = FALSE, !.refresh = TRUE, !.due = TRUE]
    BY <1>1 DEF Service!Connected
  <2>2. Service!Connected \in ServiceSupervisors
    BY <2>1, ServiceEdits
  <2>3. Service!Connected.made = sup.made /\ Service!Connected.stop = sup.stop
    BY <2>1, SMT DEF ServiceSupervisors
  <2> QED BY <1>1, <2>2, <2>3
<1>2. CASE ~sup.made
  <2>1. Service!Connected = [Service!NoSupervisor EXCEPT !.made = TRUE]
    BY <1>2 DEF Service!Connected
  <2> QED BY <1>2, <2>1 DEF Service!NoSupervisor, ServiceSupervisors
<1> QED BY <1>1, <1>2

\* A dispose that ends, or fails half way, adds no client.
ServiceFewer ==
    \/ runner' = runner /\ clients' = clients
    \/ runner' = "none" /\ clients' = 0
    \/ runner # "none" /\ runner' = runner /\ clients' \in {clients, 0}

LEMMA ServiceInitInv == ASSUME ServiceBounded, Service!Init PROVE ServiceInv
<1>1. ServiceFlags
  BY Zenon DEF Service!Init, Service!NoSupervisor, ServiceBounded, ServiceFlags
<1>2. (sup \in ServiceSupervisors)
  BY SMT DEF Service!Init, Service!NoSupervisor, ServiceBounded, ServiceSupervisors
<1>3. ServicePlaces
  BY SMT
      DEF Service!Init, Service!NoSupervisor, ServiceBounded, ServicePlaces, Service!Stages,
          Service!Steps
<1>4. ServiceCounters
  BY SMT DEF Service!Init, Service!NoSupervisor, ServiceBounded, ServiceCounters, Service!Fault
<1>5. ServiceOwned
  BY SMT
      DEF Service!Init, Service!NoSupervisor, ServiceBounded, ServiceOwned, ServiceTunnelGone,
          ServicePlaces, ServiceSupervisors
<1>6. ServiceLockHeld
  BY SMT
      DEF Service!Init, Service!NoSupervisor, ServiceBounded, ServiceLockHeld,
          ServiceTunnelGone, ServiceClosing, ServiceSupervisors
<1>7. ServiceStopKnows
  BY SMT
     DEF Service!Init, Service!NoSupervisor, ServiceBounded, ServiceStopKnows, ServiceLockHeld,
         ServiceOwned, ServiceTunnelGone, ServiceClosing, ServiceSupervisors
<1> QED BY <1>1, <1>2, <1>3, <1>4, <1>5, <1>6, <1>7 DEF ServiceInv, ServiceTyped

\* An attempt of the supervisor, at any point of the owner's thread.
LEMMA ServiceAttemptKeeps == ASSUME ServiceInv, ServiceBounded, Service!Attempt
    PROVE ServiceInv'
<1> USE DEF ServiceInv, ServiceTyped
<1>1. CASE Service!TakeRefresh
  <2>1. ServiceFlags'
    BY <1>1, Zenon DEF Service!TakeRefresh, ServiceFlags, Service!service
  <2>2. ServiceKept
    <3>1. sup' = sup \/ sup' = [sup EXCEPT !.refresh = FALSE]
      BY <1>1, Zenon DEF Service!TakeRefresh
    <3>2. sup' = [sup EXCEPT !.refresh = FALSE] => ServiceKept
      BY ServiceEdits, ServiceEdited DEF ServiceKept
    <3> QED BY <3>1, <3>2 DEF ServiceKept
  <2>3. ServicePlaces'
    BY <1>1, SMT
        DEF Service!TakeRefresh, ServicePlaces, Service!Stages, Service!Steps, Service!service
  <2>4. ServiceCounters'
    BY <1>1, SMT
        DEF Service!TakeRefresh, ServiceCounters, ServiceBounded, Service!Fault, Service!service
  <2>5. ServiceOwned'
    BY <1>1, <2>2, SMT
        DEF Service!TakeRefresh, ServiceOwned, ServiceTunnelGone, ServicePlaces,
            Service!service, ServiceKept
  <2>6. ServiceLockHeld'
    BY <1>1, <2>2, SMT
        DEF Service!TakeRefresh, ServiceLockHeld, ServiceTunnelGone, ServiceClosing,
            Service!service, ServiceKept
  <2>7. ServiceStopKnows'
    BY <1>1, <2>2, SMT
       DEF Service!TakeRefresh, ServiceStopKnows, ServiceLockHeld, ServiceOwned,
           ServiceTunnelGone, ServiceClosing, Service!service, ServiceKept
  <2> QED BY <2>1, <2>2, <2>3, <2>4, <2>5, <2>6, <2>7 DEF ServiceKept
<1>2. CASE Service!CompareCredentials
  <2>1. ServiceFlags'
    BY <1>2, Zenon DEF Service!CompareCredentials, ServiceFlags, Service!service
  <2>2. (sup \in ServiceSupervisors)'
    BY <1>2, SMT
        DEF Service!CompareCredentials, Service!Disposed, Service!DisposeFails,
            ServiceSupervisors, Service!service
  <2>3. ServicePlaces'
    BY <1>2, SMT
        DEF Service!CompareCredentials, Service!Disposed, Service!DisposeFails, ServicePlaces,
            Service!Stages, Service!Steps, Service!service
  <2>4. ServiceCounters'
    BY <1>2, SMT
        DEF Service!CompareCredentials, Service!Disposed, Service!DisposeFails,
            ServiceCounters, ServiceBounded, Service!Fault, Service!service
  <2>5. ServiceOwned'
    BY <1>2, SMT
       DEF Service!CompareCredentials, Service!Disposed, Service!DisposeFails, ServiceOwned,
           ServiceTunnelGone, ServicePlaces, ServiceSupervisors, Service!service
  <2>6. ServiceLockHeld'
    BY <1>2, SMT
       DEF Service!CompareCredentials, Service!Disposed, Service!DisposeFails, ServiceLockHeld,
           ServiceTunnelGone, ServiceClosing, ServiceSupervisors, Service!service
  <2>7. ServiceStopKnows'
    BY <1>2, SMT
       DEF Service!CompareCredentials, Service!Disposed, Service!DisposeFails,
           ServiceStopKnows, ServiceLockHeld, ServiceOwned, ServiceTunnelGone, ServiceClosing,
               ServiceSupervisors, Service!service
  <2> QED BY <2>1, <2>2, <2>3, <2>4, <2>5, <2>6, <2>7
<1>3. CASE Service!StartClient
  <2>1. ServiceFlags'
    BY <1>3, Zenon DEF Service!StartClient, ServiceFlags, Service!service
  <2>2. (sup \in ServiceSupervisors)'
    BY <1>3, SMT DEF Service!StartClient, ServiceSupervisors, Service!service
  <2>3. ServicePlaces'
    BY <1>3, SMT
        DEF Service!StartClient, ServicePlaces, Service!Stages, Service!Steps, Service!service
  <2>4. ServiceCounters'
    BY <1>3, SMT
        DEF Service!StartClient, ServiceCounters, ServiceBounded, Service!Fault, Service!service
  <2>5. ServiceOwned'
    BY <1>3, SMT
        DEF Service!StartClient, ServiceOwned, ServiceTunnelGone, ServicePlaces,
            ServiceSupervisors, Service!service
  <2>6. ServiceLockHeld'
    BY <1>3, SMT
        DEF Service!StartClient, ServiceLockHeld, ServiceTunnelGone, ServiceClosing,
            ServiceSupervisors, Service!service
  <2>7. ServiceStopKnows'
    BY <1>3, SMT
       DEF Service!StartClient, ServiceStopKnows, ServiceLockHeld, ServiceOwned,
           ServiceTunnelGone, ServiceClosing, ServiceSupervisors, Service!service
  <2> QED BY <2>1, <2>2, <2>3, <2>4, <2>5, <2>6, <2>7
<1>4. CASE Service!Observe
  <2>1. ServiceFlags'
    BY <1>4, Zenon DEF Service!Observe, ServiceFlags, Service!service
  <2>2. ServiceKept
    <3>1. sup' = sup \/ Service!Block(FALSE)
      BY <1>4, Zenon DEF Service!Observe
    <3> QED BY <3>1, ServiceBlockKeeps DEF ServiceKept
  <2>3. ServicePlaces'
    BY <1>4, SMT
        DEF Service!Observe, Service!Disposed, Service!DisposeFails, Service!Block,
            ServicePlaces, Service!Stages, Service!Steps, Service!service
  <2>4. ServiceCounters'
    BY <1>4, SMT
        DEF Service!Observe, Service!Disposed, Service!DisposeFails, Service!Block,
            ServiceCounters, ServiceBounded, Service!Fault, Service!service
  <2>5. ServiceOwned'
    <3>1. ServiceFewer
      BY <1>4, Zenon DEF Service!Observe, Service!Disposed, Service!DisposeFails, ServiceFewer
    <3>2. attempt = "observe" /\ (attempt' = "ending" \/ attempt' = "failing")
      BY <1>4, Zenon DEF Service!Observe
    <3> QED BY <2>2, <3>1, <3>2, SMT
        DEF ServiceOwned, ServiceTunnelGone, ServicePlaces, ServiceFewer, ServiceKept
  <2>6. ServiceLockHeld'
    BY <1>4, <2>2, SMT
       DEF Service!Observe, Service!Disposed, Service!DisposeFails, ServiceLockHeld,
           ServiceTunnelGone, ServiceClosing, Service!service, ServiceKept
  <2>7. ServiceStopKnows'
    BY <1>4, <2>2, SMT
       DEF Service!Observe, Service!Disposed, Service!DisposeFails, ServiceStopKnows,
           ServiceLockHeld, ServiceOwned, ServiceTunnelGone, ServiceClosing, Service!service,
               ServiceKept
  <2> QED BY <2>1, <2>2, <2>3, <2>4, <2>5, <2>6, <2>7 DEF ServiceKept
<1>5. CASE Service!Failing
  <2>1. ServiceFlags'
    BY <1>5, Zenon DEF Service!Failing, ServiceFlags, Service!service
  <2>2. ServiceKept
    <3>1. sup' = sup \/ \E b \in BOOLEAN : Service!Block(b)
      BY <1>5, Zenon DEF Service!Failing
    <3> QED BY <3>1, ServiceBlockKeeps DEF ServiceKept
  <2>3. ServicePlaces'
    BY <1>5, SMT
        DEF Service!Failing, Service!Disposed, Service!DisposeFails, Service!Block,
            ServicePlaces, Service!Stages, Service!Steps, Service!service
  <2>4. ServiceCounters'
    BY <1>5, SMT
        DEF Service!Failing, Service!Disposed, Service!DisposeFails, Service!Block,
            ServiceCounters, ServiceBounded, Service!Fault, Service!service
  <2>5. ServiceOwned'
    <3>1. ServiceFewer
      BY <1>5, Zenon DEF Service!Failing, Service!Disposed, Service!DisposeFails, ServiceFewer
    <3>2. attempt = "failing" /\ (attempt' = "ending" \/ attempt' = "failing")
      BY <1>5, Zenon DEF Service!Failing
    <3> QED BY <2>2, <3>1, <3>2, SMT
        DEF ServiceOwned, ServiceTunnelGone, ServicePlaces, ServiceFewer, ServiceKept
  <2>6. ServiceLockHeld'
    BY <1>5, <2>2, SMT
       DEF Service!Failing, Service!Disposed, Service!DisposeFails, ServiceLockHeld,
           ServiceTunnelGone, ServiceClosing, Service!service, ServiceKept
  <2>7. ServiceStopKnows'
    BY <1>5, <2>2, SMT
       DEF Service!Failing, Service!Disposed, Service!DisposeFails, ServiceStopKnows,
           ServiceLockHeld, ServiceOwned, ServiceTunnelGone, ServiceClosing, Service!service,
               ServiceKept
  <2> QED BY <2>1, <2>2, <2>3, <2>4, <2>5, <2>6, <2>7 DEF ServiceKept
<1>6. CASE Service!Ending
  <2>1. ServiceFlags'
    BY <1>6, Zenon DEF Service!Ending, ServiceFlags, Service!service
  <2>2. (sup \in ServiceSupervisors)'
    BY <1>6, SMT
        DEF Service!Ending, Service!Disposed, Service!DisposeFails, ServiceSupervisors,
            Service!service
  <2>3. ServicePlaces'
    BY <1>6, SMT
        DEF Service!Ending, Service!Disposed, Service!DisposeFails, ServicePlaces,
            Service!Stages, Service!Steps, Service!service
  <2>4. ServiceCounters'
    BY <1>6, SMT
        DEF Service!Ending, Service!Disposed, Service!DisposeFails, ServiceCounters,
            ServiceBounded, Service!Fault, Service!service
  <2>5. ServiceOwned'
    BY <1>6, SMT
        DEF Service!Ending, Service!Disposed, Service!DisposeFails, ServiceOwned,
            ServiceTunnelGone, ServicePlaces, ServiceSupervisors, Service!service
  <2>6. ServiceLockHeld'
    BY <1>6, SMT
       DEF Service!Ending, Service!Disposed, Service!DisposeFails, ServiceLockHeld,
           ServiceTunnelGone, ServiceClosing, ServiceSupervisors, Service!service
  <2>7. ServiceStopKnows'
    BY <1>6, SMT
       DEF Service!Ending, Service!Disposed, Service!DisposeFails, ServiceStopKnows,
           ServiceLockHeld, ServiceOwned, ServiceTunnelGone, ServiceClosing, ServiceSupervisors,
               Service!service
  <2> QED BY <2>1, <2>2, <2>3, <2>4, <2>5, <2>6, <2>7
<1> QED BY <1>1, <1>2, <1>3, <1>4, <1>5, <1>6 DEF Service!Attempt

\* What begins an attempt, or comes from outside.
LEMMA ServiceAroundKeeps ==
    ASSUME ServiceInv, ServiceBounded,
           Service!Begin \/ Service!Due \/ Service!ClientDies \/ Service!Retry
    PROVE ServiceInv'
<1> USE DEF ServiceInv, ServiceTyped
<1>1. CASE Service!Begin
  <2>1. ServiceFlags'
    BY <1>1, Zenon DEF Service!Begin, ServiceFlags, Service!service
  <2>2. (sup \in ServiceSupervisors)'
    BY <1>1, SMT DEF Service!Begin, ServiceSupervisors, Service!service
  <2>3. ServicePlaces'
    BY <1>1, SMT
        DEF Service!Begin, ServicePlaces, Service!Stages, Service!Steps, Service!service
  <2>4. ServiceCounters'
    BY <1>1, SMT
        DEF Service!Begin, ServiceCounters, ServiceBounded, Service!Fault, Service!service
  <2>5. ServiceOwned'
    BY <1>1, SMT
        DEF Service!Begin, ServiceOwned, ServiceTunnelGone, ServicePlaces, ServiceSupervisors,
            Service!service
  <2>6. ServiceLockHeld'
    BY <1>1, SMT
        DEF Service!Begin, ServiceLockHeld, ServiceTunnelGone, ServiceClosing,
            ServiceSupervisors, Service!service
  <2>7. ServiceStopKnows'
    BY <1>1, SMT
        DEF Service!Begin, ServiceStopKnows, ServiceLockHeld, ServiceOwned, ServiceTunnelGone,
            ServiceClosing, ServiceSupervisors, Service!service
  <2> QED BY <2>1, <2>2, <2>3, <2>4, <2>5, <2>6, <2>7
<1>2. CASE Service!Due
  <2>1. ServiceFlags'
    BY <1>2, Zenon DEF Service!Due, ServiceFlags, Service!service
  <2>2. ServiceKept
    <3>1. sup' = [sup EXCEPT !.due = TRUE]
      BY <1>2 DEF Service!Due
    <3> QED BY <3>1, ServiceEdits, ServiceEdited DEF ServiceKept
  <2>3. ServicePlaces'
    BY <1>2, SMT DEF Service!Due, ServicePlaces, Service!Stages, Service!Steps, Service!service
  <2>4. ServiceCounters'
    BY <1>2, SMT
        DEF Service!Due, ServiceCounters, ServiceBounded, Service!Fault, Service!service
  <2>5. ServiceOwned'
    BY <1>2, <2>2, SMT
        DEF Service!Due, ServiceOwned, ServiceTunnelGone, ServicePlaces, Service!service,
            ServiceKept
  <2>6. ServiceLockHeld'
    BY <1>2, <2>2, SMT
        DEF Service!Due, ServiceLockHeld, ServiceTunnelGone, ServiceClosing, Service!service,
            ServiceKept
  <2>7. ServiceStopKnows'
    BY <1>2, <2>2, SMT
        DEF Service!Due, ServiceStopKnows, ServiceLockHeld, ServiceOwned, ServiceTunnelGone,
            ServiceClosing, Service!service, ServiceKept
  <2> QED BY <2>1, <2>2, <2>3, <2>4, <2>5, <2>6, <2>7 DEF ServiceKept
<1>3. CASE Service!ClientDies
  <2>1. ServiceFlags'
    BY <1>3, Zenon DEF Service!ClientDies, ServiceFlags, Service!service
  <2>2. (sup \in ServiceSupervisors)'
    BY <1>3, SMT DEF Service!ClientDies, ServiceSupervisors, Service!service
  <2>3. ServicePlaces'
    BY <1>3, SMT
        DEF Service!ClientDies, ServicePlaces, Service!Stages, Service!Steps, Service!service
  <2>4. ServiceCounters'
    BY <1>3, SMT
        DEF Service!ClientDies, ServiceCounters, ServiceBounded, Service!Fault, Service!service
  <2>5. ServiceOwned'
    BY <1>3, SMT
        DEF Service!ClientDies, ServiceOwned, ServiceTunnelGone, ServicePlaces,
            ServiceSupervisors, Service!service
  <2>6. ServiceLockHeld'
    BY <1>3, SMT
        DEF Service!ClientDies, ServiceLockHeld, ServiceTunnelGone, ServiceClosing,
            ServiceSupervisors, Service!service
  <2>7. ServiceStopKnows'
    BY <1>3, SMT
       DEF Service!ClientDies, ServiceStopKnows, ServiceLockHeld, ServiceOwned,
           ServiceTunnelGone, ServiceClosing, ServiceSupervisors, Service!service
  <2> QED BY <2>1, <2>2, <2>3, <2>4, <2>5, <2>6, <2>7
<1>4. CASE Service!Retry
  <2>1. ServiceFlags'
    BY <1>4, Zenon DEF Service!Retry, ServiceFlags, Service!service
  <2>2. sup' \in ServiceSupervisors /\ sup'.made /\ (sup.made => sup'.stop = sup.stop)
    BY <1>4, ServiceConnectedFits DEF Service!Retry
  <2>3. ServicePlaces'
    BY <1>4, SMT
        DEF Service!Retry, ServicePlaces, Service!Stages, Service!Steps, Service!service
  <2>4. ServiceCounters'
    BY <1>4, SMT
        DEF Service!Retry, ServiceBounded, ServiceCounters, Service!Fault, Service!service
  <2>5. ServiceOwned'
    BY <1>4, <2>2, SMT
        DEF Service!Retry, ServiceBounded, ServiceOwned, ServiceTunnelGone, ServicePlaces,
            Service!service
  <2>6. ServiceLockHeld'
    BY <1>4, <2>2, SMT
        DEF Service!Retry, ServiceBounded, ServiceLockHeld, ServiceTunnelGone, ServiceClosing,
            Service!service
  <2>7. ServiceStopKnows'
    BY <1>4, <2>2, SMT
        DEF Service!Retry, ServiceBounded, ServiceStopKnows, ServiceLockHeld, ServiceOwned,
            ServiceTunnelGone, ServiceClosing, Service!service
  <2> QED BY <2>1, <2>2, <2>3, <2>4, <2>5, <2>6, <2>7
<1> QED BY <1>1, <1>2, <1>3, <1>4

LEMMA ServiceStartKeeps ==
    ASSUME ServiceInv, ServiceBounded,
           \/ Service!Start \/ Service!StartFails \/ Service!Prepare \/ Service!ConnectOrNot
           \/ Service!StartMaintenance \/ Service!MaintenanceEnds \/ Service!Stop
    PROVE  ServiceInv'
<1> USE DEF ServiceInv, ServiceTyped
<1>1. CASE Service!Start
  <2>1. ServiceFlags'
    BY <1>1, Zenon DEF Service!Start, ServiceFlags, Service!tunnel
  <2>2. (sup \in ServiceSupervisors)'
    BY <1>1, SMT DEF Service!Start, ServiceSupervisors, Service!tunnel
  <2>3. ServicePlaces'
    BY <1>1, SMT DEF Service!Start, ServicePlaces, Service!Stages, Service!Steps, Service!tunnel
  <2>4. ServiceCounters'
    BY <1>1, SMT
        DEF Service!Start, ServiceCounters, ServiceBounded, Service!Fault, Service!tunnel
  <2>5. ServiceOwned'
    BY <1>1, SMT
        DEF Service!Start, ServiceOwned, ServiceTunnelGone, ServicePlaces, ServiceSupervisors,
            Service!tunnel
  <2>6. ServiceLockHeld'
    BY <1>1, SMT
        DEF Service!Start, ServiceLockHeld, ServiceTunnelGone, ServiceClosing,
            ServiceSupervisors, Service!tunnel
  <2>7. ServiceStopKnows'
    BY <1>1, SMT
        DEF Service!Start, ServiceStopKnows, ServiceLockHeld, ServiceOwned, ServiceTunnelGone,
            ServiceClosing, ServiceSupervisors, Service!tunnel
  <2> QED BY <2>1, <2>2, <2>3, <2>4, <2>5, <2>6, <2>7
<1>2. CASE Service!StartFails
  <2>1. ServiceFlags'
    BY <1>2, Zenon DEF Service!StartFails, ServiceFlags, Service!tunnel
  <2>2. (sup \in ServiceSupervisors)'
    BY <1>2, SMT DEF Service!StartFails, ServiceSupervisors, Service!tunnel
  <2>3. ServicePlaces'
    BY <1>2, SMT
        DEF Service!StartFails, ServicePlaces, Service!Stages, Service!Steps, Service!tunnel
  <2>4. ServiceCounters'
    BY <1>2, SMT
        DEF Service!StartFails, ServiceCounters, ServiceBounded, Service!Fault, Service!tunnel
  <2>5. ServiceOwned'
    BY <1>2, SMT
        DEF Service!StartFails, ServiceOwned, ServiceTunnelGone, ServicePlaces,
            ServiceSupervisors, Service!tunnel
  <2>6. ServiceLockHeld'
    BY <1>2, SMT
        DEF Service!StartFails, ServiceLockHeld, ServiceTunnelGone, ServiceClosing,
            ServiceSupervisors, Service!tunnel
  <2>7. ServiceStopKnows'
    BY <1>2, SMT
       DEF Service!StartFails, ServiceStopKnows, ServiceLockHeld, ServiceOwned,
           ServiceTunnelGone, ServiceClosing, ServiceSupervisors, Service!tunnel
  <2> QED BY <2>1, <2>2, <2>3, <2>4, <2>5, <2>6, <2>7
<1>3. CASE Service!Prepare
  <2>1. ServiceFlags'
    BY <1>3, Zenon DEF Service!Prepare, Service!Build, ServiceFlags, Service!tunnel
  <2>2. (sup \in ServiceSupervisors)'
    BY <1>3, SMT DEF Service!Prepare, Service!Build, ServiceSupervisors, Service!tunnel
  <2>3. ServicePlaces'
    <3>1. /\ owner' \in {"runtime", "server", "tunnel"}
          /\ parts' \in {parts, parts \cup {"runtime"}, parts \cup {"server"}}
          /\ UNCHANGED <<maint, Service!tunnel>>
      BY <1>3, SMT DEF Service!Prepare, Service!Build
    <3> QED BY <3>1 DEF ServicePlaces, Service!Stages, Service!tunnel
  <2>4. ServiceCounters'
    BY <1>3, SMT
        DEF Service!Prepare, Service!Build, ServiceCounters, ServiceBounded, Service!Fault,
            Service!tunnel
  <2>5. ServiceOwned'
    BY <1>3, SMT
        DEF Service!Prepare, Service!Build, ServiceOwned, ServiceTunnelGone, ServicePlaces,
            ServiceSupervisors, Service!tunnel
  <2>6. ServiceLockHeld'
    BY <1>3, SMT
        DEF Service!Prepare, Service!Build, ServiceLockHeld, ServiceTunnelGone, ServiceClosing,
            ServiceSupervisors, Service!tunnel
  <2>7. ServiceStopKnows'
    BY <1>3, SMT
       DEF Service!Prepare, Service!Build, ServiceStopKnows, ServiceLockHeld, ServiceOwned,
           ServiceTunnelGone, ServiceClosing, ServiceSupervisors, Service!tunnel
  <2> QED BY <2>1, <2>2, <2>3, <2>4, <2>5, <2>6, <2>7
<1>4. CASE Service!ConnectOrNot
  <2>1. ServiceFlags'
    BY <1>4, Zenon DEF Service!ConnectOrNot, Service!Only, ServiceFlags, Service!tunnel
  <2>2. sup' \in ServiceSupervisors /\ (sup' = sup \/ sup'.made)
    BY <1>4, ServiceConnectedFits DEF Service!ConnectOrNot
  <2>3. ServicePlaces'
    BY <1>4, SMT
        DEF Service!ConnectOrNot, Service!Only, ServicePlaces, Service!Stages, Service!Steps,
            Service!tunnel
  <2>4. ServiceCounters'
    BY <1>4, SMT
        DEF Service!ConnectOrNot, Service!Only, ServiceCounters, ServiceBounded, Service!Fault,
            Service!tunnel
  <2>5. ServiceOwned'
    BY <1>4, <2>2, SMT
        DEF Service!ConnectOrNot, Service!Only, ServiceOwned, ServiceTunnelGone, ServicePlaces,
            Service!tunnel
  <2>6. ServiceLockHeld'
    BY <1>4, <2>2, SMT
        DEF Service!ConnectOrNot, Service!Only, ServiceLockHeld, ServiceTunnelGone,
            ServiceClosing, Service!tunnel
  <2>7. ServiceStopKnows'
    BY <1>4, <2>2, SMT
       DEF Service!ConnectOrNot, Service!Only, ServiceStopKnows, ServiceLockHeld, ServiceOwned,
           ServiceTunnelGone, ServiceClosing, Service!tunnel
  <2> QED BY <2>1, <2>2, <2>3, <2>4, <2>5, <2>6, <2>7
<1>5. CASE Service!StartMaintenance
  <2>1. ServiceFlags'
    BY <1>5, Zenon DEF Service!StartMaintenance, ServiceFlags, Service!tunnel
  <2>2. (sup \in ServiceSupervisors)'
    BY <1>5, SMT DEF Service!StartMaintenance, ServiceSupervisors, Service!tunnel
  <2>3. ServicePlaces'
    BY <1>5, SMT
        DEF Service!StartMaintenance, ServicePlaces, Service!Stages, Service!Steps,
            Service!tunnel
  <2>4. ServiceCounters'
    BY <1>5, SMT
        DEF Service!StartMaintenance, ServiceCounters, ServiceBounded, Service!Fault,
            Service!tunnel
  <2>5. ServiceOwned'
    BY <1>5, SMT
        DEF Service!StartMaintenance, ServiceOwned, ServiceTunnelGone, ServicePlaces,
            ServiceSupervisors, Service!tunnel
  <2>6. ServiceLockHeld'
    BY <1>5, SMT
        DEF Service!StartMaintenance, ServiceLockHeld, ServiceTunnelGone, ServiceClosing,
            ServiceSupervisors, Service!tunnel
  <2>7. ServiceStopKnows'
    BY <1>5, SMT
       DEF Service!StartMaintenance, ServiceStopKnows, ServiceLockHeld, ServiceOwned,
           ServiceTunnelGone, ServiceClosing, ServiceSupervisors, Service!tunnel
  <2> QED BY <2>1, <2>2, <2>3, <2>4, <2>5, <2>6, <2>7
<1>6. CASE Service!MaintenanceEnds
  <2>1. ServiceFlags'
    BY <1>6, Zenon DEF Service!MaintenanceEnds, ServiceFlags, Service!tunnel
  <2>2. (sup \in ServiceSupervisors)'
    BY <1>6, SMT DEF Service!MaintenanceEnds, ServiceSupervisors, Service!tunnel
  <2>3. ServicePlaces'
    BY <1>6, SMT
        DEF Service!MaintenanceEnds, ServicePlaces, Service!Stages, Service!Steps,
            Service!tunnel
  <2>4. ServiceCounters'
    BY <1>6, SMT
        DEF Service!MaintenanceEnds, ServiceCounters, ServiceBounded, Service!Fault,
            Service!tunnel
  <2>5. ServiceOwned'
    BY <1>6, SMT
        DEF Service!MaintenanceEnds, ServiceOwned, ServiceTunnelGone, ServicePlaces,
            ServiceSupervisors, Service!tunnel
  <2>6. ServiceLockHeld'
    BY <1>6, SMT
        DEF Service!MaintenanceEnds, ServiceLockHeld, ServiceTunnelGone, ServiceClosing,
            ServiceSupervisors, Service!tunnel
  <2>7. ServiceStopKnows'
    BY <1>6, SMT
       DEF Service!MaintenanceEnds, ServiceStopKnows, ServiceLockHeld, ServiceOwned,
           ServiceTunnelGone, ServiceClosing, ServiceSupervisors, Service!tunnel
  <2> QED BY <2>1, <2>2, <2>3, <2>4, <2>5, <2>6, <2>7
<1>7. CASE Service!Stop
  <2>1. ServiceFlags'
    BY <1>7, Zenon DEF Service!Stop, ServiceFlags, Service!tunnel
  <2>2. (sup \in ServiceSupervisors)'
    BY <1>7, SMT DEF Service!Stop, ServiceSupervisors, Service!tunnel
  <2>3. ServicePlaces'
    BY <1>7, SMT DEF Service!Stop, ServicePlaces, Service!Stages, Service!Steps, Service!tunnel
  <2>4. ServiceCounters'
    BY <1>7, SMT
        DEF Service!Stop, ServiceCounters, ServiceBounded, Service!Fault, Service!tunnel
  <2>5. ServiceOwned'
    BY <1>7, SMT
        DEF Service!Stop, ServiceOwned, ServiceTunnelGone, ServicePlaces, ServiceSupervisors,
            Service!tunnel
  <2>6. ServiceLockHeld'
    BY <1>7, SMT
        DEF Service!Stop, ServiceLockHeld, ServiceTunnelGone, ServiceClosing,
            ServiceSupervisors, Service!tunnel
  <2>7. ServiceStopKnows'
    BY <1>7, SMT
        DEF Service!Stop, ServiceStopKnows, ServiceLockHeld, ServiceOwned, ServiceTunnelGone,
            ServiceClosing, ServiceSupervisors, Service!tunnel
  <2> QED BY <2>1, <2>2, <2>3, <2>4, <2>5, <2>6, <2>7
<1> QED BY <1>1, <1>2, <1>3, <1>4, <1>5, <1>6, <1>7

LEMMA ServiceStopKeeps == ASSUME ServiceInv, ServiceBounded, Service!StopStep PROVE ServiceInv'
<1> USE DEF ServiceInv, ServiceTyped
<1>1. CASE Service!CloseTunnel
  <2>1. ServiceFlags'
    BY <1>1, Zenon DEF Service!CloseTunnel, Service!Only, ServiceFlags
  <2>2. sup' \in ServiceSupervisors /\ sup'.made = sup.made /\ (sup.made => sup'.stop)
    <3>1. (sup' = sup /\ ~sup.made) \/ sup' = [sup EXCEPT !.stop = TRUE]
      BY <1>1, Zenon DEF Service!CloseTunnel
    <3>2. sup' = [sup EXCEPT !.stop = TRUE] =>
              sup' \in ServiceSupervisors /\ sup'.made = sup.made /\ sup'.stop
      BY ServiceEdits, ServiceEdited
    <3> QED BY <3>1, <3>2
  <2>0. /\ owner = "closeTunnel"
        /\ UNCHANGED <<guard, stopping, parts, maint, serviceFailed, attempt, runner, clients>>
        /\ \/ sup.made /\ owner' = "joinAttempt"
           \/ ~sup.made /\ owner' = "joinMaintenance"
    BY <1>1, Zenon DEF Service!CloseTunnel, Service!Only
  <2>3. ServicePlaces'
    BY <1>1, SMT
        DEF Service!CloseTunnel, Service!Only, ServicePlaces, Service!Stages, Service!Steps
  <2>4. ServiceCounters'
    BY <1>1, SMT
        DEF Service!CloseTunnel, Service!Only, ServiceCounters, ServiceBounded, Service!Fault
  <2>5. ServiceOwned'
    BY <1>1, <2>2, SMT
        DEF Service!CloseTunnel, Service!Only, ServiceOwned, ServiceTunnelGone, ServicePlaces
  <2>6. ServiceLockHeld'
    BY <2>0, <2>2, SMT DEF ServiceLockHeld, ServiceTunnelGone, ServiceClosing
  <2>7. ServiceStopKnows'
    BY <2>0, <2>2, SMT
        DEF ServiceStopKnows, ServiceLockHeld, ServiceOwned, ServiceTunnelGone, ServiceClosing
  <2> QED BY <2>1, <2>2, <2>3, <2>4, <2>5, <2>6, <2>7
<1>2. CASE Service!JoinAttempt
  <2>0. /\ owner = "joinAttempt" /\ UNCHANGED <<guard, stopping, parts, maint, Service!tunnel>>
        /\ \/ attempt = "off" /\ owner' = "dispose" /\ serviceFailed' = serviceFailed
           \/ owner' = "joinMaintenance" /\ serviceFailed'
    BY <1>2, Zenon DEF Service!JoinAttempt, Service!Only
  <2>1. ServiceFlags'
    BY <1>2, Zenon DEF Service!JoinAttempt, Service!Only, ServiceFlags, Service!tunnel
  <2>2. (sup \in ServiceSupervisors)'
    BY <1>2, SMT DEF Service!JoinAttempt, Service!Only, ServiceSupervisors, Service!tunnel
  <2>3. ServicePlaces'
    BY <2>0, SMT DEF ServicePlaces, Service!Stages, Service!Steps, Service!tunnel
  <2>4. ServiceCounters'
    BY <1>2, SMT
        DEF Service!JoinAttempt, Service!Only, ServiceCounters, ServiceBounded, Service!Fault,
            Service!tunnel
  <2>5. ServiceOwned'
    BY <1>2, SMT
        DEF Service!JoinAttempt, Service!Only, ServiceOwned, ServiceTunnelGone, ServicePlaces,
            ServiceSupervisors, Service!tunnel
  <2>6. ServiceLockHeld'
    BY <2>0, SMT DEF ServiceLockHeld, ServiceTunnelGone, ServiceClosing, Service!tunnel
  <2>7. ServiceStopKnows'
    BY <2>0, SMT
        DEF ServiceStopKnows, ServiceLockHeld, ServiceOwned, ServiceTunnelGone, ServiceClosing,
            Service!tunnel
  <2> QED BY <2>1, <2>2, <2>3, <2>4, <2>5, <2>6, <2>7
<1>3. CASE Service!Dispose
  <2>1. ServiceFlags'
    BY <1>3, Zenon DEF Service!Dispose, ServiceFlags
  <2>2. sup' \in ServiceSupervisors /\ (sup' = sup \/ ~sup'.made)
    BY <1>3, ServiceNoSupervisorFits DEF Service!Dispose
  <2>0. /\ owner = "dispose" /\ owner' = "joinMaintenance"
        /\ UNCHANGED <<guard, stopping, parts, maint, attempt>>
        /\ \/ ~sup'.made /\ runner' = "none" /\ clients' = 0
           \/ sup' = sup /\ serviceFailed' /\ ServiceFewer
    BY <1>3, ServiceNoSupervisorFits, Zenon
        DEF Service!Dispose, Service!Disposed, Service!DisposeFails, ServiceFewer
  <2>3. ServicePlaces'
    BY <1>3, SMT
        DEF Service!Dispose, Service!Disposed, Service!DisposeFails, ServicePlaces,
            Service!Stages, Service!Steps
  <2>4. ServiceCounters'
    BY <1>3, SMT
        DEF Service!Dispose, Service!Disposed, Service!DisposeFails, ServiceCounters,
            ServiceBounded, Service!Fault
  <2>5. ServiceOwned'
    BY <2>0, <2>2, SMT
        DEF ServiceOwned, ServiceStopKnows, ServiceTunnelGone, ServicePlaces, ServiceFewer
  <2>6. ServiceLockHeld'
    BY <1>3, <2>2, SMT
        DEF Service!Dispose, Service!Disposed, Service!DisposeFails, ServiceLockHeld,
            ServiceTunnelGone, ServiceClosing
  <2>7. ServiceStopKnows'
    BY <2>0, <2>2, SMT DEF ServiceStopKnows, ServiceTunnelGone
  <2> QED BY <2>1, <2>2, <2>3, <2>4, <2>5, <2>6, <2>7
<1>4. CASE Service!JoinMaintenance
  <2>1. ServiceFlags'
    BY <1>4, Zenon DEF Service!JoinMaintenance, ServiceFlags, Service!tunnel
  <2>2. (sup \in ServiceSupervisors)'
    BY <1>4, SMT DEF Service!JoinMaintenance, ServiceSupervisors, Service!tunnel
  <2>3. ServicePlaces'
    BY <1>4, SMT
        DEF Service!JoinMaintenance, ServicePlaces, Service!Stages, Service!Steps,
            Service!tunnel
  <2>4. ServiceCounters'
    BY <1>4, SMT
        DEF Service!JoinMaintenance, ServiceCounters, ServiceBounded, Service!Fault,
            Service!tunnel
  <2>5. ServiceOwned'
    BY <1>4, SMT
        DEF Service!JoinMaintenance, ServiceOwned, ServiceTunnelGone, ServicePlaces,
            ServiceSupervisors, Service!tunnel
  <2>6. ServiceLockHeld'
    BY <1>4, SMT
        DEF Service!JoinMaintenance, ServiceLockHeld, ServiceTunnelGone, ServiceClosing,
            ServiceSupervisors, Service!tunnel
  <2>7. ServiceStopKnows'
    BY <1>4, SMT
       DEF Service!JoinMaintenance, ServiceStopKnows, ServiceLockHeld, ServiceOwned,
           ServiceTunnelGone, ServiceClosing, ServiceSupervisors, Service!tunnel
  <2> QED BY <2>1, <2>2, <2>3, <2>4, <2>5, <2>6, <2>7
<1>5. CASE Service!CloseServer
  <2>1. ServiceFlags'
    BY <1>5, Zenon DEF Service!CloseServer, ServiceFlags, Service!tunnel
  <2>2. (sup \in ServiceSupervisors)'
    BY <1>5, SMT DEF Service!CloseServer, ServiceSupervisors, Service!tunnel
  <2>3. ServicePlaces'
    BY <1>5, SMT
        DEF Service!CloseServer, ServicePlaces, Service!Stages, Service!Steps, Service!tunnel
  <2>4. ServiceCounters'
    BY <1>5, SMT
        DEF Service!CloseServer, ServiceCounters, ServiceBounded, Service!Fault, Service!tunnel
  <2>5. ServiceOwned'
    BY <1>5, SMT
        DEF Service!CloseServer, ServiceOwned, ServiceTunnelGone, ServicePlaces,
            ServiceSupervisors, Service!tunnel
  <2>6. ServiceLockHeld'
    BY <1>5, SMT
        DEF Service!CloseServer, ServiceLockHeld, ServiceTunnelGone, ServiceClosing,
            ServiceSupervisors, Service!tunnel
  <2>7. ServiceStopKnows'
    BY <1>5, SMT
       DEF Service!CloseServer, ServiceStopKnows, ServiceLockHeld, ServiceOwned,
           ServiceTunnelGone, ServiceClosing, ServiceSupervisors, Service!tunnel
  <2> QED BY <2>1, <2>2, <2>3, <2>4, <2>5, <2>6, <2>7
<1>6. CASE Service!CloseRuntime
  <2>0. /\ owner = "closeRuntime" /\ owner' = "release"
        /\ UNCHANGED <<guard, stopping, maint, Service!tunnel>>
        /\ \/ parts' = parts \ {"runtime"} /\ serviceFailed' = serviceFailed
           \/ parts' = parts /\ serviceFailed'
    BY <1>6, Zenon DEF Service!CloseRuntime
  <2>1. ServiceFlags'
    BY <1>6, Zenon DEF Service!CloseRuntime, ServiceFlags, Service!tunnel
  <2>2. (sup \in ServiceSupervisors)'
    BY <1>6, SMT DEF Service!CloseRuntime, ServiceSupervisors, Service!tunnel
  <2>3. ServicePlaces'
    <3>1. parts' \subseteq {"runtime", "server"}
      BY <2>0, Zenon DEF ServicePlaces
    <3>2. owner' \in Service!Stages
      BY <2>0, SMT DEF Service!Stages
    <3> QED BY <2>0, <3>1, <3>2 DEF ServicePlaces, Service!tunnel
  <2>4. ServiceCounters'
    BY <1>6, SMT
        DEF Service!CloseRuntime, ServiceCounters, ServiceBounded, Service!Fault, Service!tunnel
  <2>5. ServiceOwned'
    BY <1>6, SMT
        DEF Service!CloseRuntime, ServiceOwned, ServiceTunnelGone, ServicePlaces,
            ServiceSupervisors, Service!tunnel
  <2>6. ServiceLockHeld'
    BY <2>0, SMT DEF ServiceLockHeld, ServiceTunnelGone, ServiceClosing, Service!tunnel
  <2>7. ServiceStopKnows'
    <3>1. "server" \notin parts'
      BY <2>0, SMT DEF ServiceStopKnows
    <3>2. ~serviceFailed' => parts' = {}
      <4>1. parts \subseteq {"runtime", "server"} /\ "server" \notin parts
        BY <2>0, SMT DEF ServicePlaces, ServiceStopKnows
      <4>2. parts \ {"runtime"} = {}
        BY <4>1, Zenon
      <4> QED BY <2>0, <4>2, Zenon
    <3> QED BY <2>0, <3>1, <3>2, SMT DEF ServiceStopKnows, ServiceTunnelGone, Service!tunnel
  <2> QED BY <2>1, <2>2, <2>3, <2>4, <2>5, <2>6, <2>7
<1>7. CASE Service!Release
  <2>0. /\ owner = "release" /\ owner' = "down" /\ (guard' <=> serviceFailed)
        /\ UNCHANGED <<stopping, parts, maint, serviceFailed, Service!tunnel>>
    BY <1>7, SMT DEF Service!Release, ServiceFlags
  <2>1. ServiceFlags'
    BY <1>7, Zenon DEF Service!Release, ServiceFlags, Service!tunnel
  <2>2. (sup \in ServiceSupervisors)'
    BY <1>7, SMT DEF Service!Release, ServiceSupervisors, Service!tunnel
  <2>3. ServicePlaces'
    BY <1>7, SMT
        DEF Service!Release, ServicePlaces, Service!Stages, Service!Steps, Service!tunnel
  <2>4. ServiceCounters'
    BY <1>7, SMT
        DEF Service!Release, ServiceCounters, ServiceBounded, Service!Fault, Service!tunnel
  <2>5. ServiceOwned'
    BY <1>7, SMT
        DEF Service!Release, ServiceOwned, ServiceTunnelGone, ServicePlaces,
            ServiceSupervisors, Service!tunnel
  <2>6. ServiceLockHeld'
    BY <2>0, SMT
        DEF ServiceLockHeld, ServiceStopKnows, ServiceTunnelGone, ServiceClosing, Service!tunnel
  <2>7. ServiceStopKnows'
    BY <1>7, SMT
        DEF Service!Release, ServiceStopKnows, ServiceLockHeld, ServiceOwned,
            ServiceTunnelGone, ServiceClosing, ServiceSupervisors, Service!tunnel
  <2> QED BY <2>1, <2>2, <2>3, <2>4, <2>5, <2>6, <2>7
<1> QED BY <1>1, <1>2, <1>3, <1>4, <1>5, <1>6, <1>7 DEF Service!StopStep

LEMMA ServicePreserved == ASSUME ServiceInv, ServiceBounded, [Service!Next]_serviceVars
    PROVE ServiceInv'
<1>1. CASE Service!Next
  BY <1>1, ServiceAttemptKeeps, ServiceAroundKeeps, ServiceStartKeeps, ServiceStopKeeps
      DEF Service!Next
<1>2. CASE UNCHANGED serviceVars
  BY <1>2
      DEF serviceVars, ServiceInv, ServiceTyped, ServiceFlags, ServicePlaces, ServiceCounters,
          ServiceOwned, ServiceLockHeld, ServiceStopKnows, ServiceTunnelGone
<1> QED BY <1>1, <1>2

LEMMA ServiceInvImplies == ASSUME ServiceInv
    PROVE Service!TypeOK /\ Service!LockCoversEverything
<1>1. Service!TypeOK
  BY
      DEF ServiceInv, ServiceTyped, ServiceFlags, ServiceSupervisors, ServicePlaces,
          ServiceCounters, Service!TypeOK
<1>2. Service!LockCoversEverything
  BY SMT
      DEF ServiceInv, ServiceOwned, ServiceLockHeld, ServiceTunnelGone,
          Service!LockCoversEverything
<1> QED BY <1>1, <1>2


-----------------------------------------------------------------------------
(* Switching releases (ReleaseSwitch): where the switch is tells what it has  *)
(* done, as long as nobody interferes and at most one thing failed.           *)

SwitchFlags ==
    /\ receipt \in BOOLEAN /\ dying \in BOOLEAN /\ flows \in BOOLEAN /\ locked \in BOOLEAN
    /\ unseen \in BOOLEAN /\ lost \in BOOLEAN /\ loose \in BOOLEAN
    /\ killed \in BOOLEAN
SwitchXml ==
    /\ swapTask \in Switch!Versions /\ previous \in Switch!Versions /\ base \in Switch!Versions
    /\ backup \in Switch!Versions \cup {"none"} /\ restored \in Switch!Versions \cup {"none"}
    /\ edited \subseteq Switch!Edits
SwitchPlaces ==
    /\ pc \in Switch!Pcs
    /\ swapService \in {"none", "old", "new"}
    /\ result \in {"none", "LOCAL_READY", "ROLLED_BACK", "NOT_COMPLETED"}

\* The database is locked from the check for workflows until the process is
\* gone, so what dies without a stop given up on dies without a workflow.
SwitchLocked ==
    /\ locked <=> pc \in {"stop", "wait", "restop", "rewait"}
    /\ locked => ~flows
    /\ dying => swapService # "none" /\ (loose \/ pc \in {"wait", "rewait"})
    /\ killed => loose

\* A write follows a look at the task: what stands there now is what was seen,
\* or an edit made since.
SwitchLooked ==
    /\ pc = "register" => (swapTask = base /\ backup = base) \/ unseen
    /\ pc \in {"undoWrite", "putBackWrite", "restoreWrite"} => swapTask = "new" \/ unseen
    /\ ~lost

\* The steps by the task they find registered, and by the service that runs.
BeforeInstall == {"preflight", "idle1", "previous", "status", "validate", "compare", "register"}
Installed == {"verify", "undo", "undoWrite", "check", "idle2", "lock", "stop", "wait", "start",
              "ready", "rollback", "putBack", "putBackWrite", "relock", "restop", "rewait",
              "restore", "restoreWrite"}
Untouched == BeforeInstall \cup {"verify", "latest", "undo", "undoWrite", "check", "idle2", "lock",
                                 "stop", "putBack", "putBackWrite", "reready"}
Stopped == {"start", "restore", "restoreWrite", "reread", "restart"}
AfterFailure == {"relock", "restop", "rewait", "restore", "restoreWrite", "reread", "restart"}

\* Nobody edited the task, the process went when told, and one step failed at most.
Undisturbed == edited = {} /\ ~loose /\ troubles <= 1

SwitchTask ==
    Undisturbed =>
        /\ previous = "old" /\ base = "old" /\ (pc = "restart" => restored = "old") /\ swapTask \in {"old", "new"}
        /\ pc \in BeforeInstall \cup {"reread", "restart", "reready"} => swapTask = "old"
        /\ pc \in Installed => swapTask = "new"

SwitchService ==
    Undisturbed =>
        /\ pc \in BeforeInstall => troubles = 0
        /\ pc \in AfterFailure => troubles = 1
        /\ pc \in Untouched => swapService = "old"
        /\ pc \in Stopped => swapService = "none"
        /\ pc = "ready" => swapService = "new" \/ (swapService = "none" /\ troubles = 1)
        /\ pc = "rollback" => swapService = "old" \/ troubles = 1
        /\ pc \in {"wait", "rewait"} => (dying <=> swapService # "none")
        /\ swapService = "none" => ~flows
        /\ pc = "done" =>
               swapService # "none" /\ (result = "NOT_COMPLETED" \/ swapTask = swapService)

SwitchTyped == SwitchFlags /\ SwitchXml /\ SwitchPlaces /\ troubles \in 0 .. MaxTroubles
SwitchInv == SwitchTyped /\ SwitchLocked /\ SwitchLooked /\ SwitchTask /\ SwitchService

LEMMA SwitchFlagsKept ==
    ASSUME SwitchFlags, Switch!Next PROVE SwitchFlags'
<1> USE DEF Switch!Look, Switch!Sees, Switch!Refuse, Switch!Keeps, Switch!NoTrouble, Switch!Trouble, Switch!Go,
            Switch!End, Switch!Idle, Switch!env, Switch!ghosts, Switch!Comparison, Switch!Write,
            Switch!WriteOr, Switch!Restoring, Switch!known
<1> USE DEF SwitchFlags
<1>1. CASE Switch!Preflight \/ Switch!WaitIdle \/ Switch!ReadPrevious
  BY <1>1, Zenon DEF Switch!Preflight, Switch!WaitIdle, Switch!ReadPrevious
<1>2. CASE Switch!Enable
  <2>1. CASE Switch!ReadBase \/ Switch!Validate \/ Switch!Compare
    BY <2>1, Zenon DEF Switch!ReadBase, Switch!Validate, Switch!Compare
  <2>2. CASE Switch!Register
    BY <2>2, Zenon DEF Switch!Register
  <2>3. CASE Switch!Verify \/ Switch!Latest
    BY <2>3, Zenon DEF Switch!Verify, Switch!Latest
  <2>4. CASE Switch!Undo
    BY <2>4, Zenon DEF Switch!Undo
  <2> QED BY <1>2, <2>1, <2>2, <2>3, <2>4 DEF Switch!Enable
<1>3. CASE Switch!Switch
  BY <1>3, Zenon DEF Switch!Switch, Switch!Check, Switch!Lock, Switch!StopTask,
         Switch!WaitStopped, Switch!StartTask, Switch!Ready
<1>4. CASE Switch!RollbackSteps
  <2>1. CASE \/ Switch!Lock("relock", "restop", Switch!End("NOT_COMPLETED"))
             \/ Switch!StopTask("restop", "rewait", Switch!End("NOT_COMPLETED"))
             \/ Switch!WaitStopped("rewait", "restore", Switch!End("NOT_COMPLETED"))
    BY <2>1, Zenon DEF Switch!Lock, Switch!StopTask, Switch!WaitStopped
  <2>2. CASE \/ Switch!StartTask("restart", restored, "old", "reready", Switch!End("NOT_COMPLETED"))
             \/ Switch!Ready("reready", "old", "ROLLED_BACK", Switch!End("NOT_COMPLETED"))
    BY <2>2, Zenon DEF Switch!StartTask, Switch!Ready
  <2>3. CASE \/ Switch!Rollback
             \/ Switch!Restore("putBack", "putBackWrite")
             \/ Switch!Restore("restore", "restoreWrite")
             \/ Switch!Reread
    BY <2>3, Zenon DEF Switch!Rollback, Switch!Restore, Switch!Reread
  <2>4. CASE \/ Switch!RestoreWrite("putBackWrite", "reready")
             \/ Switch!RestoreWrite("restoreWrite", "reread")
    BY <2>4, Zenon DEF Switch!RestoreWrite
  <2> QED BY <1>4, <2>1, <2>2, <2>3, <2>4 DEF Switch!RollbackSteps
<1>5. CASE Switch!Edit \/ Switch!Workflow \/ Switch!ProcessEnds
  BY <1>5, Zenon DEF Switch!Edit, Switch!Workflow, Switch!ProcessEnds
<1> QED BY <1>1, <1>2, <1>3, <1>4, <1>5 DEF Switch!Next

LEMMA SwitchPlacesKept ==
    ASSUME SwitchPlaces, Switch!Next PROVE SwitchPlaces'
<1> USE DEF Switch!Look, Switch!Sees, Switch!Refuse, Switch!Keeps, Switch!NoTrouble, Switch!Trouble, Switch!Go,
            Switch!End, Switch!Idle, Switch!env, Switch!ghosts, Switch!Comparison, Switch!Write,
            Switch!WriteOr, Switch!Restoring, Switch!known
<1> USE DEF SwitchPlaces, Switch!Pcs
<1>1. CASE Switch!Preflight \/ Switch!WaitIdle \/ Switch!ReadPrevious
  BY <1>1, SMT DEF Switch!Preflight, Switch!WaitIdle, Switch!ReadPrevious
<1>2. CASE Switch!Enable
  BY <1>2, SMT DEF Switch!Enable, Switch!ReadBase, Switch!Validate, Switch!Compare,
         Switch!Register, Switch!Verify, Switch!Latest, Switch!Undo
<1>3. CASE Switch!Switch
  BY <1>3, SMT DEF Switch!Switch, Switch!Check, Switch!Lock, Switch!StopTask,
         Switch!WaitStopped, Switch!StartTask, Switch!Ready
<1>4. CASE Switch!RollbackSteps
  BY <1>4, SMT DEF Switch!RollbackSteps, Switch!Rollback, Switch!Restore, Switch!Reread,
         Switch!RestoreWrite, Switch!Lock, Switch!StopTask, Switch!WaitStopped, Switch!StartTask,
         Switch!Ready
<1>5. CASE Switch!Edit \/ Switch!Workflow \/ Switch!ProcessEnds
  BY <1>5, SMT DEF Switch!Edit, Switch!Workflow, Switch!ProcessEnds
<1> QED BY <1>1, <1>2, <1>3, <1>4, <1>5 DEF Switch!Next

LEMMA SwitchXmlKept ==
    ASSUME SwitchXml, Switch!Next PROVE SwitchXml'
<1> USE DEF Switch!Look, Switch!Sees, Switch!Refuse, Switch!Keeps, Switch!NoTrouble, Switch!Trouble, Switch!Go,
            Switch!End, Switch!Idle, Switch!env, Switch!ghosts, Switch!Comparison, Switch!Write,
            Switch!WriteOr, Switch!Restoring, Switch!known
<1>0. "old" \in Switch!Versions /\ "new" \in Switch!Versions /\ Switch!Edits \subseteq Switch!Versions
  BY Zenon DEF Switch!Versions
<1> USE <1>0 DEF SwitchXml
<1>1. CASE Switch!Preflight \/ Switch!WaitIdle \/ Switch!ReadPrevious
  BY <1>1, SMT DEF Switch!Preflight, Switch!WaitIdle, Switch!ReadPrevious
<1>2. CASE Switch!Enable
  BY <1>2, SMT DEF Switch!Enable, Switch!ReadBase, Switch!Validate, Switch!Compare,
         Switch!Register, Switch!Verify, Switch!Latest, Switch!Undo
<1>3. CASE Switch!Switch
  BY <1>3, SMT DEF Switch!Switch, Switch!Check, Switch!Lock, Switch!StopTask,
         Switch!WaitStopped, Switch!StartTask, Switch!Ready
<1>4. CASE Switch!RollbackSteps
  BY <1>4, SMT DEF Switch!RollbackSteps, Switch!Rollback, Switch!Restore, Switch!Reread,
         Switch!RestoreWrite, Switch!Lock, Switch!StopTask, Switch!WaitStopped, Switch!StartTask,
         Switch!Ready
<1>5. CASE Switch!Edit \/ Switch!Workflow \/ Switch!ProcessEnds
  BY <1>5, SMT DEF Switch!Edit, Switch!Workflow, Switch!ProcessEnds
<1> QED BY <1>1, <1>2, <1>3, <1>4, <1>5 DEF Switch!Next

LEMMA SwitchTroublesKept ==
    ASSUME MaxTroubles \in Nat, troubles \in 0 .. MaxTroubles, Switch!Next
    PROVE  (troubles \in 0 .. MaxTroubles)'
<1> USE DEF Switch!Look, Switch!Sees, Switch!Refuse, Switch!Keeps, Switch!NoTrouble, Switch!Trouble, Switch!Go,
            Switch!End, Switch!Idle, Switch!env, Switch!ghosts, Switch!Comparison, Switch!Write,
            Switch!WriteOr, Switch!Restoring, Switch!known
<1> USE DEF Switch!Pcs, Switch!Edits,
            Switch!Owned, Switch!Managed, Switch!OldBundle, Switch!Versions
<1>1. CASE Switch!Preflight \/ Switch!WaitIdle \/ Switch!ReadPrevious
  BY <1>1, SMT DEF Switch!Preflight, Switch!WaitIdle, Switch!ReadPrevious
<1>2. CASE Switch!Enable
  BY <1>2, SMT DEF Switch!Enable, Switch!ReadBase, Switch!Validate, Switch!Compare,
         Switch!Register, Switch!Verify, Switch!Latest, Switch!Undo
<1>3. CASE Switch!Switch
  BY <1>3, SMT DEF Switch!Switch, Switch!Check, Switch!Lock, Switch!StopTask,
         Switch!WaitStopped, Switch!StartTask, Switch!Ready
<1>4. CASE Switch!RollbackSteps
  BY <1>4, SMT DEF Switch!RollbackSteps, Switch!Rollback, Switch!Restore, Switch!Reread,
         Switch!RestoreWrite, Switch!Lock, Switch!StopTask, Switch!WaitStopped, Switch!StartTask,
         Switch!Ready
<1>5. CASE Switch!Edit \/ Switch!Workflow \/ Switch!ProcessEnds
  BY <1>5, SMT DEF Switch!Edit, Switch!Workflow, Switch!ProcessEnds
<1> QED BY <1>1, <1>2, <1>3, <1>4, <1>5 DEF Switch!Next

LEMMA SwitchLookedKept ==
    ASSUME SwitchInv, Switch!Next PROVE SwitchLooked'
<1> USE DEF Switch!Look, Switch!Sees, Switch!Refuse, Switch!Keeps, Switch!NoTrouble, Switch!Trouble, Switch!Go,
            Switch!End, Switch!Idle, Switch!env, Switch!ghosts, Switch!Comparison, Switch!Write,
            Switch!WriteOr, Switch!Restoring, Switch!known
<1> USE DEF SwitchInv, SwitchTyped, SwitchFlags, SwitchXml, SwitchPlaces, SwitchLooked, Switch!Pcs, Switch!Edits,
            Switch!Owned, Switch!Managed, Switch!OldBundle, Switch!Versions
<1>1. CASE Switch!Preflight \/ Switch!WaitIdle \/ Switch!ReadPrevious
  BY <1>1, SMT DEF Switch!Preflight, Switch!WaitIdle, Switch!ReadPrevious
<1>2. CASE Switch!Enable
  BY <1>2, SMT DEF Switch!Enable, Switch!ReadBase, Switch!Validate, Switch!Compare,
         Switch!Register, Switch!Verify, Switch!Latest, Switch!Undo
<1>3. CASE Switch!Switch
  BY <1>3, SMT DEF Switch!Switch, Switch!Check, Switch!Lock, Switch!StopTask,
         Switch!WaitStopped, Switch!StartTask, Switch!Ready
<1>4. CASE Switch!RollbackSteps
  BY <1>4, SMT DEF Switch!RollbackSteps, Switch!Rollback, Switch!Restore, Switch!Reread,
         Switch!RestoreWrite, Switch!Lock, Switch!StopTask, Switch!WaitStopped, Switch!StartTask,
         Switch!Ready
<1>5. CASE Switch!Edit \/ Switch!Workflow \/ Switch!ProcessEnds
  BY <1>5, SMT DEF Switch!Edit, Switch!Workflow, Switch!ProcessEnds
<1> QED BY <1>1, <1>2, <1>3, <1>4, <1>5 DEF Switch!Next

LEMMA SwitchTaskKept ==
    ASSUME SwitchInv, Switch!Next PROVE SwitchTask'
<1> USE DEF Switch!Look, Switch!Sees, Switch!Refuse, Switch!Keeps, Switch!NoTrouble, Switch!Trouble, Switch!Go,
            Switch!End, Switch!Idle, Switch!env, Switch!ghosts, Switch!Comparison, Switch!Write,
            Switch!WriteOr, Switch!Restoring, Switch!known
<1> USE DEF SwitchInv, SwitchTyped, SwitchFlags, SwitchXml, SwitchPlaces, SwitchLocked, SwitchTask,
            SwitchService, Undisturbed, Untouched, BeforeInstall, Installed, Stopped, AfterFailure,
            Switch!Pcs, Switch!Edits,
            Switch!Owned, Switch!Managed, Switch!OldBundle, Switch!Versions
<1>1. CASE Switch!Preflight \/ Switch!WaitIdle \/ Switch!ReadPrevious
  BY <1>1, SMT DEF Switch!Preflight, Switch!WaitIdle, Switch!ReadPrevious
<1>2. CASE Switch!Enable
  BY <1>2, SMT DEF Switch!Enable, Switch!ReadBase, Switch!Validate, Switch!Compare,
         Switch!Register, Switch!Verify, Switch!Latest, Switch!Undo
<1>3. CASE Switch!Switch
  BY <1>3, SMT DEF Switch!Switch, Switch!Check, Switch!Lock, Switch!StopTask,
         Switch!WaitStopped, Switch!StartTask, Switch!Ready
<1>4. CASE Switch!RollbackSteps
  BY <1>4, SMT DEF Switch!RollbackSteps, Switch!Rollback, Switch!Restore, Switch!Reread,
         Switch!RestoreWrite, Switch!Lock, Switch!StopTask, Switch!WaitStopped, Switch!StartTask,
         Switch!Ready
<1>5. CASE Switch!Edit \/ Switch!Workflow \/ Switch!ProcessEnds
  BY <1>5, SMT DEF Switch!Edit, Switch!Workflow, Switch!ProcessEnds
<1> QED BY <1>1, <1>2, <1>3, <1>4, <1>5 DEF Switch!Next

LEMMA SwitchServiceKept ==
    ASSUME SwitchInv, Switch!Next PROVE SwitchService'
<1> USE DEF Switch!Look, Switch!Sees, Switch!Refuse, Switch!Keeps, Switch!NoTrouble, Switch!Trouble, Switch!Go,
            Switch!End, Switch!Idle, Switch!env, Switch!ghosts, Switch!Comparison, Switch!Write,
            Switch!WriteOr, Switch!Restoring, Switch!known
<1> USE DEF SwitchInv, SwitchTyped, SwitchFlags, SwitchXml, SwitchPlaces, SwitchLocked, SwitchTask,
            SwitchService, Undisturbed, Untouched, BeforeInstall, Installed, Stopped, AfterFailure,
            Switch!Pcs, Switch!Edits,
            Switch!Owned, Switch!Managed, Switch!OldBundle, Switch!Versions
<1>1. CASE Switch!Preflight \/ Switch!WaitIdle \/ Switch!ReadPrevious
  BY <1>1, SMT DEF Switch!Preflight, Switch!WaitIdle, Switch!ReadPrevious
<1>2. CASE Switch!Enable
  BY <1>2, SMT DEF Switch!Enable, Switch!ReadBase, Switch!Validate, Switch!Compare,
         Switch!Register, Switch!Verify, Switch!Latest, Switch!Undo
<1>3. CASE Switch!Switch
  BY <1>3, SMT DEF Switch!Switch, Switch!Check, Switch!Lock, Switch!StopTask,
         Switch!WaitStopped, Switch!StartTask, Switch!Ready
<1>4. CASE Switch!RollbackSteps
  BY <1>4, SMT DEF Switch!RollbackSteps, Switch!Rollback, Switch!Restore, Switch!Reread,
         Switch!RestoreWrite, Switch!Lock, Switch!StopTask, Switch!WaitStopped, Switch!StartTask,
         Switch!Ready
<1>5. CASE Switch!Edit \/ Switch!Workflow \/ Switch!ProcessEnds
  BY <1>5, SMT DEF Switch!Edit, Switch!Workflow, Switch!ProcessEnds
<1> QED BY <1>1, <1>2, <1>3, <1>4, <1>5 DEF Switch!Next

LEMMA SwitchLockedKept ==
    ASSUME SwitchInv, Switch!Next PROVE SwitchLocked'
<1> USE DEF Switch!Look, Switch!Sees, Switch!Refuse, Switch!Keeps, Switch!NoTrouble, Switch!Trouble, Switch!Go,
            Switch!End, Switch!Idle, Switch!env, Switch!ghosts, Switch!Comparison, Switch!Write,
            Switch!WriteOr, Switch!Restoring, Switch!known
<1> USE DEF SwitchInv, SwitchTyped, SwitchFlags, SwitchXml, SwitchPlaces, SwitchLocked, Switch!Pcs, Switch!Edits,
            Switch!Owned, Switch!Managed, Switch!OldBundle, Switch!Versions
<1>1. CASE Switch!Preflight \/ Switch!WaitIdle \/ Switch!ReadPrevious
  BY <1>1, SMT DEF Switch!Preflight, Switch!WaitIdle, Switch!ReadPrevious
<1>2. CASE Switch!Enable
  BY <1>2, SMT DEF Switch!Enable, Switch!ReadBase, Switch!Validate, Switch!Compare,
         Switch!Register, Switch!Verify, Switch!Latest, Switch!Undo
<1>3. CASE Switch!Switch
  <2>1. CASE Switch!Lock("lock", "stop", Switch!Go("rollback"))
    <3>1. /\ pc = "lock"
          /\ \/ ~flows /\ pc' = "stop" /\ locked'
             \/ pc' = "rollback" /\ ~locked'
          /\ UNCHANGED <<flows, dying, swapService, loose, killed>>
      BY <2>1, Zenon DEF Switch!Lock
    <3> QED BY <3>1, SMT
  <2>2. CASE Switch!StopTask("stop", "wait", Switch!Go("rollback"))
    <3>1. pc = "stop" /\ UNCHANGED <<flows, swapService, killed>>
      BY <2>2, Zenon DEF Switch!StopTask
    <3>2. CASE pc' = "wait" /\ UNCHANGED <<locked, loose>> /\ dying' = (swapService # "none")
      <4>1. (dying' <=> swapService # "none") /\ (locked' <=> locked) /\ (loose' <=> loose)
        BY <3>2, Zenon
      <4> QED BY <3>1, <3>2, <4>1, SMT
    <3>3. CASE pc' = "rollback" /\ ~locked' /\ dying' = (swapService # "none") /\ loose'
      <4>1. (dying' <=> swapService # "none")
        BY <3>3, Zenon
      <4> QED BY <3>1, <3>3, <4>1, SMT
    <3>4. CASE pc' = "rollback" /\ ~locked' /\ UNCHANGED <<dying, loose>>
      <4>1. (dying' <=> dying) /\ (loose' <=> loose)
        BY <3>4, Zenon
      <4> QED BY <3>1, <3>4, <4>1, SMT
    <3> QED BY <2>2, <3>2, <3>3, <3>4, Zenon DEF Switch!StopTask
  <2>3. CASE Switch!WaitStopped("wait", "start", Switch!Go("rollback"))
    BY <2>3, SMT DEF Switch!WaitStopped
  <2>4. CASE Switch!StartTask("start", "new", "new", "ready", Switch!Go("rollback"))
    BY <2>4, SMT DEF Switch!StartTask
  <2>5. CASE Switch!Check \/ Switch!Ready("ready", "new", "LOCAL_READY", Switch!Go("rollback"))
    BY <2>5, SMT DEF Switch!Check, Switch!Ready
  <2> QED BY <1>3, <2>1, <2>2, <2>3, <2>4, <2>5 DEF Switch!Switch
<1>4. CASE Switch!RollbackSteps
  <2>1. CASE Switch!Lock("relock", "restop", Switch!End("NOT_COMPLETED"))
    <3>1. /\ pc = "relock"
          /\ \/ ~flows /\ pc' = "restop" /\ locked'
             \/ pc' = "done" /\ ~locked'
          /\ UNCHANGED <<flows, dying, swapService, loose, killed>>
      BY <2>1, Zenon DEF Switch!Lock
    <3> QED BY <3>1, SMT
  <2>2. CASE Switch!StopTask("restop", "rewait", Switch!End("NOT_COMPLETED"))
    <3>1. pc = "restop" /\ UNCHANGED <<flows, swapService, killed>>
      BY <2>2, Zenon DEF Switch!StopTask
    <3>2. CASE pc' = "rewait" /\ UNCHANGED <<locked, loose>> /\ dying' = (swapService # "none")
      <4>1. (dying' <=> swapService # "none") /\ (locked' <=> locked) /\ (loose' <=> loose)
        BY <3>2, Zenon
      <4> QED BY <3>1, <3>2, <4>1, SMT
    <3>3. CASE pc' = "done" /\ ~locked' /\ dying' = (swapService # "none") /\ loose'
      <4>1. (dying' <=> swapService # "none")
        BY <3>3, Zenon
      <4> QED BY <3>1, <3>3, <4>1, SMT
    <3>4. CASE pc' = "done" /\ ~locked' /\ UNCHANGED <<dying, loose>>
      <4>1. (dying' <=> dying) /\ (loose' <=> loose)
        BY <3>4, Zenon
      <4> QED BY <3>1, <3>4, <4>1, SMT
    <3> QED BY <2>2, <3>2, <3>3, <3>4, Zenon DEF Switch!StopTask
  <2>3. CASE Switch!WaitStopped("rewait", "restore", Switch!End("NOT_COMPLETED"))
    BY <2>3, SMT DEF Switch!WaitStopped
  <2>4. CASE Switch!StartTask("restart", restored, "old", "reready", Switch!End("NOT_COMPLETED"))
    BY <2>4, SMT DEF Switch!StartTask
  <2>5. CASE Switch!Ready("reready", "old", "ROLLED_BACK", Switch!End("NOT_COMPLETED"))
    BY <2>5, SMT DEF Switch!Ready
  <2>6. CASE \/ Switch!Rollback
             \/ Switch!Restore("putBack", "putBackWrite")
             \/ Switch!RestoreWrite("putBackWrite", "reready")
             \/ Switch!Restore("restore", "restoreWrite")
             \/ Switch!RestoreWrite("restoreWrite", "reread")
             \/ Switch!Reread
    BY <2>6, SMT DEF Switch!Rollback, Switch!Restore, Switch!RestoreWrite, Switch!Reread
  <2> QED BY <1>4, <2>1, <2>2, <2>3, <2>4, <2>5, <2>6 DEF Switch!RollbackSteps
<1>5. CASE Switch!Edit \/ Switch!Workflow \/ Switch!ProcessEnds
  BY <1>5, SMT DEF Switch!Edit, Switch!Workflow, Switch!ProcessEnds
<1> QED BY <1>1, <1>2, <1>3, <1>4, <1>5 DEF Switch!Next

LEMMA SwitchInit == ASSUME MaxTroubles \in Nat, Switch!Init PROVE SwitchInv
<1>1. SwitchFlags
  BY Zenon DEF Switch!Init, SwitchFlags
<1>2. SwitchXml /\ SwitchPlaces /\ troubles \in 0 .. MaxTroubles
  BY SMT DEF Switch!Init, SwitchXml, SwitchPlaces, Switch!Pcs, Switch!Versions
<1>3. SwitchLocked /\ SwitchLooked /\ SwitchTask /\ SwitchService
  BY SMT DEF Switch!Init, SwitchLocked, SwitchLooked, SwitchTask, SwitchService, Undisturbed,
         Untouched, BeforeInstall, Installed, Stopped, AfterFailure
<1> QED BY <1>1, <1>2, <1>3 DEF SwitchInv, SwitchTyped

LEMMA SwitchPreserved ==
    ASSUME MaxTroubles \in Nat, SwitchInv, [Switch!Next]_swapVars PROVE SwitchInv'
<1>1. CASE Switch!Next
  BY <1>1, SwitchFlagsKept, SwitchXmlKept, SwitchPlacesKept, SwitchTroublesKept, SwitchLockedKept,
     SwitchLookedKept, SwitchTaskKept, SwitchServiceKept DEF SwitchInv, SwitchTyped
<1>2. CASE UNCHANGED swapVars
  <2> USE <1>2 DEF swapVars
  <2>1. SwitchTyped'
    BY DEF SwitchInv, SwitchTyped, SwitchFlags, SwitchXml, SwitchPlaces
  <2>2. SwitchLocked' /\ SwitchLooked'
    BY DEF SwitchInv, SwitchLocked, SwitchLooked
  <2>3. SwitchTask' /\ SwitchService'
    BY DEF SwitchInv, SwitchTask, SwitchService, Undisturbed
  <2> QED BY <2>1, <2>2, <2>3 DEF SwitchInv
<1> QED BY <1>1, <1>2

LEMMA SwitchImplies == ASSUME SwitchInv PROVE Switch!TypeOK /\ Switch!SwitchIsSafe
<1>1. Switch!TypeOK
  BY DEF SwitchInv, SwitchTyped, SwitchFlags, SwitchXml, SwitchPlaces, Switch!TypeOK
<1>2. Switch!WorkIsNotInterrupted /\ Switch!EditsStand
  BY DEF SwitchInv, SwitchLocked, SwitchLooked, Switch!WorkIsNotInterrupted, Switch!EditsStand
<1>3. Switch!OneFailureIsSurvived
  BY SMT DEF SwitchInv, SwitchTyped, SwitchFlags, SwitchXml, SwitchPlaces, SwitchLocked, SwitchTask,
         SwitchService, Undisturbed, Switch!OneFailureIsSurvived
<1> QED BY <1>1, <1>2, <1>3 DEF Switch!SwitchIsSafe

-----------------------------------------------------------------------------
(* Putting a release together (PackageUpdate): the files still to do may hold *)
(* anything, the others what the preparation has made of them, or an edit.    *)

UpdateTrees == [Update!Packages -> [Update!Files -> Update!Contents]]
UpdateListings == [whole: BOOLEAN, of: [Update!Files -> Update!Contents]]
UpdateTyped ==
    /\ tree \in UpdateTrees
    /\ manifest \in [Update!Packages -> UpdateListings]
    /\ updateStep \in {"idle", "copying", "clearing", "overlaying", "writing", "checking"}
    /\ left \subseteq Update!Files /\ exists \in BOOLEAN
UpdateCounters == runs \in 0 .. MaxRuns /\ edits \in 0 .. MaxEdits

Or(content) == {content, "edited"}
Whole(f) ==
    IF f \in UpdateFiles THEN Or("new")
    ELSE IF f \in BaseFiles \ AppFiles THEN Or("old") ELSE {"none"}

\* What a file of the new release may be at each step.
MayBe(f) ==
    CASE updateStep = "idle" -> Update!Contents
      [] updateStep \in {"copying", "clearing", "overlaying"} /\ f \in left -> Update!Contents
      [] updateStep = "copying" /\ f \notin left ->
             IF f \in BaseFiles THEN Or("old") ELSE {"none"}
      [] updateStep = "clearing" /\ f \notin left ->
             IF f \in BaseFiles \ AppFiles THEN Or("old") ELSE {"none"}
      [] updateStep = "overlaying" /\ f \notin left -> Whole(f)
      [] updateStep \in {"writing", "checking"} -> Whole(f)

UpdateSources ==
    \A f \in Update!Files :
        /\ tree["base"][f] \in (IF f \in BaseFiles THEN Or("old") ELSE {"none"})
        /\ tree["update"][f] \in (IF f \in UpdateFiles THEN Or("new") ELSE {"none"})
UpdateTarget ==
    /\ \A f \in Update!Files : tree["target"][f] \in MayBe(f)
    /\ updateStep = "clearing" => left \subseteq AppFiles
    /\ updateStep = "overlaying" => left \subseteq UpdateFiles
UpdateFresh ==
    ~exists => /\ updateStep = "idle" /\ manifest["target"].whole = FALSE
               /\ \A f \in Update!Files : tree["target"][f] = "none"

\* The manifests: of the installed release as it was, and for the new release
\* none, that one, or one of a whole release.
UpdateManifests ==
    /\ manifest["base"] = Update!Listing(Update!Package(BaseFiles, "old"))
    /\ \/ manifest["target"].whole = FALSE
       \/ manifest["target"] = manifest["base"]
       \/ \A f \in Update!Files : manifest["target"].of[f] \in Whole(f)

UpdateInv ==
    /\ UpdateTyped /\ UpdateCounters /\ UpdateSources /\ UpdateTarget /\ UpdateFresh
    /\ UpdateManifests

LEMMA UpdateLists ==
    ASSUME manifest \in [Update!Packages -> UpdateListings], NEW l \in UpdateListings,
           manifest' = [manifest EXCEPT !["target"] = l]
    PROVE  /\ manifest' \in [Update!Packages -> UpdateListings]
           /\ manifest'["target"] = l /\ manifest'["base"] = manifest["base"]
BY SMT DEF Update!Packages

\* A listing says what it lists; nothing is listed as absent everywhere.
LEMMA UpdateListed ==
    /\ \A t \in [Update!Files -> Update!Contents] :
           /\ Update!Listing(t) \in UpdateListings
           /\ Update!Listing(t).of = t /\ Update!Listing(t).whole = TRUE
    /\ Update!Empty \in [Update!Files -> Update!Contents]
    /\ \A f \in Update!Files : Update!Empty[f] = "none"
    /\ Update!NoListing \in UpdateListings /\ Update!NoListing.whole = FALSE
BY DEF Update!Listing, UpdateListings, Update!Empty, Update!Package, Update!NoListing,
       Update!Contents

\* An edit may be made of any file that may be there.
LEMMA UpdateMay ==
    ASSUME UpdateTyped, NEW f \in Update!Files
    PROVE  /\ MayBe(f) \subseteq Update!Contents
           /\ "edited" \in MayBe(f) \/ MayBe(f) = {"none"}
BY SMT DEF UpdateTyped, MayBe, Whole, Or, Update!Contents

LEMMA UpdateInit ==
    ASSUME {MaxRuns, MaxEdits} \subseteq Nat, Update!Init PROVE UpdateInv
<1>1. /\ tree["base"] = Update!Package(BaseFiles, "old")
      /\ tree["update"] = Update!Package(UpdateFiles, "new")
      /\ tree["target"] = Update!Empty
      /\ manifest["base"] = Update!Listing(tree["base"])
      /\ manifest["update"] = Update!Listing(tree["update"])
      /\ manifest["target"] = Update!NoListing
      /\ updateStep = "idle" /\ left = {} /\ exists = FALSE /\ runs = 0 /\ edits = 0
  BY DEF Update!Init
<1>2. \A names, content : content \in Update!Contents =>
          /\ Update!Package(names, content) \in [Update!Files -> Update!Contents]
          /\ \A f \in Update!Files :
                 Update!Package(names, content)[f] = IF f \in names THEN content ELSE "none"
  BY DEF Update!Package, Update!Contents
<1>3. tree["base"] \in [Update!Files -> Update!Contents]
      /\ tree["update"] \in [Update!Files -> Update!Contents]
      /\ tree["target"] \in [Update!Files -> Update!Contents]
  BY <1>1, <1>2, UpdateListed DEF Update!Contents
<1>4. tree \in UpdateTrees
  <2>1. tree = [p \in Update!Packages |-> tree[p]]
    BY DEF Update!Init, Update!Packages
  <2> QED BY <1>3, <2>1 DEF UpdateTrees, Update!Packages
<1>5. manifest \in [Update!Packages -> UpdateListings]
  <2>1. manifest = [p \in Update!Packages |-> manifest[p]]
    BY DEF Update!Init, Update!Packages
  <2> QED BY <1>1, <1>3, <2>1, UpdateListed DEF Update!Packages
<1>6. UpdateTyped /\ UpdateCounters
  <2>1. exists \in BOOLEAN
    BY <1>1, Zenon
  <2> QED BY <1>1, <1>4, <1>5, <2>1 DEF UpdateTyped, UpdateCounters
<1>7. UpdateSources
  BY <1>1, <1>2 DEF UpdateSources, Or, Update!Contents
<1>8. UpdateTarget /\ UpdateFresh
  BY <1>1, UpdateListed DEF UpdateTarget, UpdateFresh, MayBe, Update!Contents
<1>9. UpdateManifests
  BY <1>1, UpdateListed DEF UpdateManifests
<1> QED BY <1>6, <1>7, <1>8, <1>9 DEF UpdateInv

LEMMA UpdatePresent ==
    ASSUME UpdateSources
    PROVE  Update!Present("base") = BaseFiles /\ Update!Present("update") = UpdateFiles
BY SMT DEF UpdateSources, Update!Present, Update!Files, Or

\* The steps that write no file and no manifest.
LEMMA UpdateMoves ==
    ASSUME UpdateInv, MaxRuns \in Nat, AppFiles \subseteq Update!Files,
           UNCHANGED <<tree, manifest, edits>>,
           \/ Update!Prepare \/ Update!Copied \/ Update!Cleared \/ Update!Overlaid \/ Update!Stop
    PROVE  UpdateInv'
<1> USE DEF UpdateInv
<1>1. /\ updateStep' \in {"idle", "copying", "clearing", "overlaying", "writing"}
      /\ left' \subseteq Update!Files /\ exists' = TRUE /\ runs' \in 0 .. MaxRuns
      /\ \A f \in Update!Files : tree["target"][f] \in MayBe(f)'
      /\ updateStep' = "clearing" => left' \subseteq AppFiles
      /\ updateStep' = "overlaying" => left' \subseteq UpdateFiles
  <2>1. CASE Update!Prepare
    <3>1. left' = BaseFiles
      BY <2>1, UpdatePresent DEF Update!Prepare
    <3>2. \A f \in Update!Files : tree["target"][f] = "none"
      BY <2>1 DEF Update!Prepare, UpdateFresh
    <3> QED BY <2>1, <3>1, <3>2, SMT DEF Update!Prepare, MayBe, Update!Contents, UpdateCounters,
               Update!Files
  <2>2. CASE Update!Copied
    <3>1. exists = TRUE
      BY <2>2 DEF Update!Copied, UpdateFresh, UpdateTyped
    <3>2. \A f \in Update!Files : tree["target"][f] \in
              (IF f \in BaseFiles THEN Or("old") ELSE {"none"})
      BY <2>2, SMT DEF Update!Copied, UpdateTarget, MayBe
    <3> QED BY <2>2, <3>1, <3>2, SMT DEF Update!Copied, MayBe, Update!Contents, UpdateCounters,
               UpdateTyped, UpdateTrees, Or
  <2>3. CASE Update!Cleared
    <3>1. exists = TRUE
      BY <2>3 DEF Update!Cleared, UpdateFresh, UpdateTyped
    <3>2. \A f \in Update!Files : tree["target"][f] \in
              (IF f \in BaseFiles \ AppFiles THEN Or("old") ELSE {"none"})
      BY <2>3, SMT DEF Update!Cleared, UpdateTarget, MayBe
    <3>3. left' = UpdateFiles
      BY <2>3, UpdatePresent DEF Update!Cleared
    <3> QED BY <2>3, <3>1, <3>2, <3>3, SMT DEF Update!Cleared, MayBe, Whole, Or, Update!Contents,
               UpdateCounters, Update!Files
  <2>4. CASE Update!Overlaid
    <3>1. exists = TRUE
      BY <2>4 DEF Update!Overlaid, UpdateFresh, UpdateTyped
    <3> QED BY <2>4, <3>1, SMT DEF Update!Overlaid, UpdateTarget, MayBe, UpdateCounters, UpdateTyped
  <2>5. CASE Update!Stop
    <3>1. exists = TRUE
      BY <2>5 DEF Update!Stop, UpdateFresh, UpdateTyped
    <3> QED BY <2>5, <3>1, SMT DEF Update!Stop, MayBe, UpdateCounters, UpdateTyped, UpdateTrees,
               Update!Packages
  <2> QED BY <2>1, <2>2, <2>3, <2>4, <2>5
<1>2. UpdateTyped' /\ UpdateCounters'
  BY <1>1 DEF UpdateTyped, UpdateCounters
<1>3. UpdateTarget' /\ UpdateFresh'
  BY <1>1 DEF UpdateTarget, UpdateFresh
<1>4. UpdateSources' /\ UpdateManifests'
  BY DEF UpdateSources, UpdateManifests
<1> QED BY <1>2, <1>3, <1>4

\* The steps that write one file of the new release, or edit one of any package.
LEMMA UpdateFileWrites ==
    ASSUME UpdateInv, NEW f \in Update!Files,
           Update!Copy(f) \/ Update!Clear(f) \/ Update!Overlay(f)
    PROVE  UpdateInv'
<1> USE DEF UpdateInv
<1>1. PICK c \in Update!Contents :
          /\ tree' = [tree EXCEPT !["target"][f] = c]
          /\ left' = left \/ left' = left \ {f}
          /\ c \in MayBe(f)'
          /\ updateStep \in {"copying", "clearing", "overlaying"} /\ f \in left
          /\ UNCHANGED <<manifest, updateStep, exists, runs, edits>>
  <2>1. CASE Update!Copy(f)
    <3>1. tree["base"][f] \in Or("old") \cup {"none"}
          /\ (f \in BaseFiles => tree["base"][f] \in Or("old"))
          /\ (f \notin BaseFiles => tree["base"][f] \in {"none"})
      BY DEF UpdateSources
    <3> QED BY <2>1, <3>1, SMT DEF Update!Copy, Update!Put, MayBe, Or, Update!Contents
  <2>2. CASE Update!Clear(f)
    <3>1. f \in AppFiles
      BY <2>2 DEF Update!Clear, UpdateTarget
    <3> QED BY <2>2, <3>1, SMT DEF Update!Clear, MayBe, Or, Update!Contents
  <2>3. CASE Update!Overlay(f)
    <3>1. f \in UpdateFiles /\ tree["update"][f] \in Or("new")
      BY <2>3 DEF Update!Overlay, Update!Put, UpdateTarget, UpdateSources
    <3> QED BY <2>3, <3>1, SMT DEF Update!Overlay, Update!Put, MayBe, Whole, Or, Update!Contents
  <2> QED BY <2>1, <2>2, <2>3
<1>2. /\ tree' \in UpdateTrees /\ tree'["target"][f] = c
      /\ \A q \in Update!Packages, g \in Update!Files :
             q # "target" \/ g # f => tree'[q][g] = tree[q][g]
  <2>1. "target" \in Update!Packages
    BY DEF Update!Packages
  <2>2. tree \in UpdateTrees
    BY DEF UpdateTyped
  <2> QED BY <1>1, <2>1, <2>2, SMT DEF UpdateTrees
<1>3. exists = TRUE
  BY <1>1 DEF UpdateFresh, UpdateTyped
<1>4. UpdateTyped' /\ UpdateCounters'
  BY <1>1, <1>2 DEF UpdateTyped, UpdateCounters
<1>5. UpdateTarget'
  <2>1. \A g \in Update!Files : g # f => MayBe(g)' = MayBe(g)
    BY <1>1, SMT DEF MayBe, Whole
  <2>2. \A g \in Update!Files : tree'["target"][g] \in MayBe(g)'
    BY <1>1, <1>2, <2>1 DEF UpdateTarget, Update!Packages
  <2> QED BY <1>1, <2>2 DEF UpdateTarget
<1>6. UpdateSources'
  BY <1>1, <1>2 DEF UpdateSources, Update!Packages
<1>7. UpdateFresh' /\ UpdateManifests'
  BY <1>1, <1>3 DEF UpdateFresh, UpdateManifests
<1> QED BY <1>4, <1>5, <1>6, <1>7

LEMMA UpdateEdits ==
    ASSUME UpdateInv, MaxEdits \in Nat, NEW f \in Update!Files, NEW p \in Update!Packages,
           Update!Edit(p, f)
    PROVE  UpdateInv'
<1> USE DEF UpdateInv
<1>1. /\ tree' = [tree EXCEPT ![p][f] = "edited"] /\ tree[p][f] # "none"
      /\ edits' \in 0 .. MaxEdits
      /\ UNCHANGED <<manifest, updateStep, left, exists, runs>>
  BY DEF Update!Edit, Update!Present, UpdateCounters
<1>2. /\ tree' \in UpdateTrees /\ tree'[p][f] = "edited"
      /\ \A q \in Update!Packages, g \in Update!Files :
             q # p \/ g # f => tree'[q][g] = tree[q][g]
  <2>1. "edited" \in Update!Contents
    BY DEF Update!Contents
  <2>2. tree \in UpdateTrees
    BY DEF UpdateTyped
  <2> QED BY <1>1, <2>1, <2>2, SMT DEF UpdateTrees
<1>3. UpdateTyped' /\ UpdateCounters'
  BY <1>1, <1>2 DEF UpdateTyped, UpdateCounters
<1>4. UpdateTarget'
  <2>1. \A g \in Update!Files : MayBe(g)' = MayBe(g)
    BY <1>1, SMT DEF MayBe, Whole
  <2>2. \A g \in Update!Files : tree'["target"][g] \in MayBe(g)
    <3>1. TAKE g \in Update!Files
    <3>2. CASE p = "target" /\ g = f
      <4>1. MayBe(f) # {"none"}
        BY <1>1, <3>2 DEF UpdateTarget
      <4> QED BY <1>2, <3>2, <4>1, UpdateMay
    <3>3. CASE ~(p = "target" /\ g = f)
      BY <1>2, <3>3 DEF UpdateTarget, Update!Packages
    <3> QED BY <3>2, <3>3
  <2> QED BY <1>1, <2>1, <2>2 DEF UpdateTarget
<1>5. UpdateSources'
  BY <1>1, <1>2, SMT DEF UpdateSources, Update!Packages, Or
<1>6. UpdateFresh' /\ UpdateManifests'
  BY <1>1, <1>2 DEF UpdateFresh, UpdateManifests, Update!Packages
<1> QED BY <1>3, <1>4, <1>5, <1>6

\* The steps that write a manifest: the installed one is copied, or one is written
\* of what is there, or cut short.
LEMMA UpdateWritesList ==
    ASSUME UpdateInv, Update!CopyManifest \/ Update!Write
    PROVE  UpdateInv'
<1> USE DEF UpdateInv
<1>1. exists = TRUE
  BY DEF Update!CopyManifest, Update!Write, UpdateFresh, UpdateTyped
<1>2. tree["target"] \in [Update!Files -> Update!Contents]
  BY DEF UpdateTyped, UpdateTrees, Update!Packages
<1>3. PICK l \in UpdateListings :
          /\ manifest' = [manifest EXCEPT !["target"] = l]
          /\ \/ l.whole = FALSE \/ l = manifest["base"]
             \/ \A f \in Update!Files : l.of[f] \in Whole(f)
  <2>1. CASE Update!CopyManifest
    BY <2>1 DEF Update!CopyManifest, UpdateTyped, Update!Packages
  <2>2. CASE Update!Write /\ manifest' = [manifest EXCEPT !["target"] = Update!NoListing]
    BY <2>2, UpdateListed
  <2>3. CASE /\ Update!Write
             /\ manifest' = [manifest EXCEPT !["target"] = Update!Listing(tree["target"])]
    <3>1. \A f \in Update!Files : tree["target"][f] \in Whole(f)
      BY <2>3, SMT DEF Update!Write, UpdateTarget, MayBe
    <3> QED BY <1>2, <2>3, <3>1, UpdateListed
  <2> QED BY <2>1, <2>2, <2>3 DEF Update!Write
<1>4. /\ manifest' \in [Update!Packages -> UpdateListings]
      /\ manifest'["target"] = l /\ manifest'["base"] = manifest["base"]
  BY <1>3, UpdateLists DEF UpdateTyped
<1>5. /\ UNCHANGED <<tree, left, exists, runs, edits>>
      /\ updateStep' = updateStep
         \/ (updateStep = "writing" /\ updateStep' \in {"checking", "idle"})
  BY DEF Update!CopyManifest, Update!Write
<1>6. UpdateTyped' /\ UpdateCounters'
  BY <1>4, <1>5 DEF UpdateTyped, UpdateCounters
<1>7. UpdateTarget'
  <2>1. \A f \in Update!Files : MayBe(f) \subseteq MayBe(f)'
    <3>1. CASE updateStep' = "idle"
      <4>1. \A f \in Update!Files : MayBe(f)' = Update!Contents
        BY <3>1, SMT DEF MayBe
      <4> QED BY <4>1, UpdateMay
    <3>2. CASE updateStep = "writing" /\ updateStep' = "checking"
      BY <3>2, SMT DEF MayBe, Whole
    <3>3. CASE updateStep' = updateStep
      BY <1>5, <3>3, SMT DEF MayBe, Whole
    <3> QED BY <1>5, <3>1, <3>2, <3>3
  <2> QED BY <1>5, <2>1 DEF UpdateTarget
<1>8. UpdateSources' /\ UpdateFresh'
  BY <1>1, <1>5 DEF UpdateSources, UpdateFresh
<1>9. UpdateManifests'
  BY <1>3, <1>4 DEF UpdateManifests
<1> QED BY <1>6, <1>7, <1>8, <1>9

LEMMA UpdateRemoves == ASSUME UpdateInv, Update!Remove PROVE UpdateInv'
<1> USE DEF UpdateInv
<1>1. /\ tree' = [tree EXCEPT !["target"] = Update!Empty]
      /\ manifest' = [manifest EXCEPT !["target"] = Update!NoListing]
      /\ updateStep = "idle" /\ exists' = FALSE
      /\ UNCHANGED <<updateStep, left, runs, edits>>
  BY DEF Update!Remove
<1>2. /\ tree' \in UpdateTrees /\ tree'["target"] = Update!Empty
      /\ tree'["base"] = tree["base"] /\ tree'["update"] = tree["update"]
  BY <1>1, UpdateListed, SMT DEF UpdateTyped, UpdateTrees, Update!Packages
<1>3. /\ manifest' \in [Update!Packages -> UpdateListings]
      /\ manifest'["target"] = Update!NoListing /\ manifest'["base"] = manifest["base"]
  BY <1>1, UpdateListed, UpdateLists DEF UpdateTyped
<1>4. UpdateTyped' /\ UpdateCounters'
  <2>1. exists' \in BOOLEAN
    BY <1>1, Zenon
  <2> QED BY <1>1, <1>2, <1>3, <2>1 DEF UpdateTyped, UpdateCounters
<1>5. UpdateTarget' /\ UpdateFresh'
  BY <1>1, <1>2, <1>3, UpdateListed DEF UpdateTarget, UpdateFresh, MayBe, Update!Contents
<1>6. UpdateSources' /\ UpdateManifests'
  BY <1>2, <1>3, UpdateListed DEF UpdateSources, UpdateManifests
<1> QED BY <1>4, <1>5, <1>6

LEMMA UpdatePreserved ==
    ASSUME {MaxRuns, MaxEdits} \subseteq Nat, AppFiles \subseteq Update!Files,
           UpdateInv, [Update!Next]_updateVars
    PROVE  UpdateInv'
<1>1. CASE Update!Prepare \/ Update!Copied \/ Update!Cleared \/ Update!Overlaid \/ Update!Stop
  <2>1. UNCHANGED <<tree, manifest, edits>>
    BY <1>1 DEF Update!Prepare, Update!Copied, Update!Cleared, Update!Overlaid, Update!Stop
  <2> QED BY <1>1, <2>1, UpdateMoves
<1>2. CASE Update!CopyManifest \/ Update!Write
  BY <1>2, UpdateWritesList
<1>3. CASE Update!Remove
  BY <1>3, UpdateRemoves
<1>4. CASE \E f \in Update!Files : Update!Copy(f) \/ Update!Clear(f) \/ Update!Overlay(f)
  BY <1>4, UpdateFileWrites
<1>5. CASE \E f \in Update!Files : \E p \in Update!Packages : Update!Edit(p, f)
  BY <1>5, UpdateEdits
<1>6. CASE UNCHANGED updateVars
  BY <1>6 DEF updateVars, UpdateInv, UpdateTyped, UpdateCounters, UpdateSources, UpdateTarget,
         UpdateFresh, UpdateManifests, MayBe, Whole
<1> QED BY <1>1, <1>2, <1>3, <1>4, <1>5, <1>6 DEF Update!Next

LEMMA UpdateImplies ==
    ASSUME UpdateInv, AppFiles \subseteq Update!Files
    PROVE  Update!TypeOK /\ Update!SwitchedIsWhole
<1> USE DEF UpdateInv
<1>1. Update!TypeOK
  BY DEF UpdateTyped, UpdateCounters, UpdateTrees, UpdateListings, Update!TypeOK
<1>2. ASSUME Update!MaySwitch
      PROVE  \/ \A f \in Update!Files :
                    tree["target"][f] = IF f \in BaseFiles THEN "old" ELSE "none"
             \/ \A f \in Update!Files : tree["target"][f] \in Whole(f)
  <2>1. manifest["target"].whole = TRUE /\ manifest["target"].of = tree["target"]
    BY <1>2 DEF Update!MaySwitch, Update!Valid, Update!Listing
  <2>2. CASE manifest["target"] = manifest["base"]
    BY <2>1, <2>2 DEF UpdateManifests, Update!Listing, Update!Package
  <2>3. CASE \A f \in Update!Files : manifest["target"].of[f] \in Whole(f)
    BY <2>1, <2>3
  <2> QED BY <2>1, <2>2, <2>3 DEF UpdateManifests
<1>3. ASSUME \A f \in Update!Files : tree["target"][f] = IF f \in BaseFiles THEN "old" ELSE "none"
      PROVE  Update!Present("target") = BaseFiles /\ \A f \in BaseFiles : Update!Of(f, "old")
  BY <1>3 DEF Update!Present, Update!Of, Update!Files
<1>4. ASSUME \A f \in Update!Files : tree["target"][f] \in Whole(f)
      PROVE  /\ Update!Present("target") = UpdateFiles \cup (BaseFiles \ AppFiles)
             /\ \A f \in Update!Present("target") :
                    Update!Of(f, IF f \in UpdateFiles THEN "new" ELSE "old")
  BY <1>4, SMT DEF Update!Present, Update!Of, Update!Files, Whole, Or
<1> QED BY <1>1, <1>2, <1>3, <1>4 DEF Update!SwitchedIsWhole

-----------------------------------------------------------------------------
(* The end of a workflow (HostCleanup): behind a close that runs, what the    *)
(* parts it has passed still hold is theirs to answer for.                    *)

CleanupTyped ==
    /\ cleanupStep \in 0 .. 5 /\ ends \in Nat
    /\ cleanupTask \in {"none", "begun", "ended"}
    /\ outcome \in {"unopened", "open", "closed", "incomplete"}
    /\ held \in [Cleanup!Parts -> {"none", "open", "busy"}]
    /\ cleanupFailed \subseteq Cleanup!Parts

CleanupOnce ==
    /\ ends <= 1
    /\ ends = 1 => cleanupTask = "ended"
    /\ outcome = "unopened" => cleanupStep = 0 /\ cleanupTask = "none" /\ ends = 0

\* The parts a close has passed: all of them once it is over.
Passed ==
    IF cleanupStep = 0 /\ outcome \in {"open", "unopened"} THEN {}
    ELSE {p \in Cleanup!Parts :
            \/ cleanupStep = 0 \/ cleanupStep = 5
            \/ p = "native" /\ cleanupStep > 1
            \/ p = "searches" /\ cleanupStep > 2
            \/ p = "desktop" /\ cleanupStep > 3}

CleanupPassed ==
    /\ \A p \in Passed : held[p] # "none" => p \in cleanupFailed
    /\ "native" \in Passed /\ cleanupTask = "begun" => "native" \in cleanupFailed
    /\ outcome = "closed" => cleanupStep = 0 /\ cleanupFailed = {}

CleanupInv == CleanupTyped /\ CleanupOnce /\ CleanupPassed

LEMMA CleanupInit == ASSUME Cleanup!Init PROVE CleanupInv
BY DEF Cleanup!Init, CleanupInv, CleanupTyped, CleanupOnce, CleanupPassed, Passed, Cleanup!Parts

\* The part a step of close() is about, step by step.
LEMMA CleanupPart ==
    ASSUME cleanupStep \in 1 .. 4
    PROVE  Cleanup!Part = (CASE cleanupStep = 1 -> "native" [] cleanupStep = 2 -> "searches"
                             [] cleanupStep = 3 -> "desktop" [] cleanupStep = 4 -> "coding")
<1>1. cleanupStep = 1 \/ cleanupStep = 2 \/ cleanupStep = 3 \/ cleanupStep = 4
  OBVIOUS
<1> QED BY <1>1 DEF Cleanup!Part, Cleanup!Order

LEMMA CleanupPreserved == ASSUME CleanupInv, [Cleanup!Next]_cleanupVars PROVE CleanupInv'
<1> USE DEF CleanupInv, CleanupTyped, CleanupOnce, CleanupPassed, Passed, Cleanup!Parts
<1>1. CASE \E b \in BOOLEAN : Cleanup!Open(b)
  BY <1>1, SMT DEF Cleanup!Open
<1>2. CASE \E b \in BOOLEAN : Cleanup!Close(b)
  BY <1>2, SMT DEF Cleanup!Close
<1>3. CASE \E p \in Cleanup!Parts : Cleanup!Acquire(p) \/ Cleanup!Subside(p)
  <2>1. PICK p \in Cleanup!Parts : Cleanup!Acquire(p) \/ Cleanup!Subside(p)
    BY <1>3
  <2>2. /\ \A q \in Cleanup!Parts : held'[q] # "none" => held[q] # "none" \/ Passed = {}
        /\ held' \in [Cleanup!Parts -> {"none", "open", "busy"}]
    BY <2>1, SMT DEF Cleanup!Acquire, Cleanup!Subside
  <2>3. UNCHANGED <<cleanupStep, cleanupTask, cleanupFailed, outcome, ends>>
    BY <2>1 DEF Cleanup!Acquire, Cleanup!Subside
  <2> QED BY <2>2, <2>3, SMT
<1>4. CASE Cleanup!Step /\ Cleanup!Released
  BY <1>4, CleanupPart, SMT DEF Cleanup!Step, Cleanup!Released, Cleanup!Ends
<1>5. CASE Cleanup!Step /\ Cleanup!Fails
  BY <1>5, CleanupPart, SMT DEF Cleanup!Step, Cleanup!Fails, Cleanup!Ends, Cleanup!AfterFailure
<1>6. CASE Cleanup!Closed
  BY <1>6, SMT DEF Cleanup!Closed
<1>7. CASE UNCHANGED cleanupVars
  BY <1>7 DEF cleanupVars
<1> QED BY <1>1, <1>2, <1>3, <1>4, <1>5, <1>6, <1>7 DEF Cleanup!Next, Cleanup!Step

LEMMA CleanupImplies == ASSUME CleanupInv PROVE Cleanup!CleanupGoesOn
BY SMT DEF CleanupInv, CleanupTyped, CleanupOnce, CleanupPassed, Passed, Cleanup!Parts,
       Cleanup!CleanupGoesOn

-----------------------------------------------------------------------------
(* The end of a task (TaskCleanup): who holds the session's lock, what a      *)
(* session without an entry cannot have, and what an end has done so far.     *)

TaskSets ==
    /\ ending \subseteq Tasks /\ orphans \subseteq Tasks /\ refusing \subseteq Tasks
    /\ pending \subseteq Tasks /\ taskFailed \subseteq Tasks /\ erred \subseteq Tasks
TaskMaps ==
    /\ status \in [Tasks -> {"active", "ended"}]
    /\ jobs \in [Tasks -> SUBSET {"app", "tree"}]
    /\ session \in [Tasks -> {"none", "starting", "active", "cleanup_failed"}]
    /\ holder \in [Tasks -> {"none", "start", "call", "end"}]
    /\ worker \in [Tasks -> {"none", "alive", "closed"}]
    /\ instance \in [Tasks -> {"none", "managed", "attached"}]
    /\ starter \in [Tasks -> {"idle", "checked", "reserved", "launch", "pending", "launched",
                              "unpend", "worker", "boot", "close"}]
    /\ ender \in [Tasks -> {"idle", "hooks", "unblock", "wait", "close", "hybrid", "jobs"}]
TaskFaults == taskFaults \in 0 .. MaxTaskFaults
TaskTyped == TaskSets /\ TaskMaps /\ TaskFaults

\* The session's lock is held by who is in its section, and a start or a call
\* inside one has its session.
TaskLock(t) ==
    /\ holder[t] = "start" <=> starter[t] \notin {"idle", "checked"}
    /\ holder[t] = "end" <=> ender[t] = "close"
    /\ holder[t] \in {"start", "call"} => session[t] # "none"

\* An application that was launched is in the books of the WebView2 manager,
\* under one heading.
TaskBooks(t) ==
    /\ session[t] = "none" => worker[t] = "none" /\ instance[t] = "none"
    /\ t \in pending <=> starter[t] \in {"pending", "launched"}
    /\ t \in pending => t \notin taskFailed /\ instance[t] = "none"
    /\ starter[t] = "pending" => "tree" \notin jobs[t]
    /\ instance[t] = "managed" => t \notin taskFailed
    /\ "tree" \in jobs[t] => instance[t] = "managed" \/ t \in pending \/ t \in taskFailed

\* What an end has left behind it when none of its hooks failed.
TaskEnd(t) ==
    /\ ender[t] # "idle" => status[t] = "active" /\ t \in ending /\ t \notin orphans
    /\ ender[t] \in {"hybrid", "jobs"} /\ t \notin erred => session[t] = "none"
    /\ ender[t] = "jobs" /\ t \notin erred => t \notin taskFailed
    /\ status[t] = "ended" =>
           /\ session[t] = "none" /\ t \notin taskFailed /\ jobs[t] = {}
           /\ t \notin orphans

TaskOk(t) == TaskLock(t) /\ TaskBooks(t) /\ TaskEnd(t)

Managed == {t \in Tasks : instance[t] = "managed"}
Launches == Cardinality(Managed) + Cardinality(pending) + Cardinality(taskFailed)
TaskCounted == Launches <= MaxManaged

TaskInv == TaskTyped /\ (\A t \in Tasks : TaskOk(t)) /\ TaskCounted

\* The component counts as this module does.
LEMMA TaskCardinality == \A S : Task!Cardinality(S) = Cardinality(S)
BY DEF Task!Cardinality, Cardinality

LEMMA TaskCards ==
    ASSUME IsFiniteSet(Tasks)
    PROVE  \A S \in SUBSET Tasks :
               /\ IsFiniteSet(S) /\ Cardinality(S) \in Nat
               /\ \A R \in SUBSET S : Cardinality(R) <= Cardinality(S)
               /\ \A t \in S : Cardinality(S \ {t}) = Cardinality(S) - 1
               /\ \A t \in Tasks : t \notin S => Cardinality(S \cup {t}) = Cardinality(S) + 1
BY FS_Subset, FS_CardinalityType, FS_RemoveElement, FS_AddElement, Zenon

\* The books shrink, or one entry moves to another heading, or one is added
\* below the limit.
LEMMA TaskCountShrinks ==
    ASSUME IsFiniteSet(Tasks), MaxManaged \in Nat, TaskSets, TaskSets', TaskCounted,
           Managed' \subseteq Managed, pending' \subseteq pending, taskFailed' \subseteq taskFailed
    PROVE  TaskCounted'
<1>1. /\ Cardinality(Managed') <= Cardinality(Managed)
      /\ Cardinality(pending') <= Cardinality(pending)
      /\ Cardinality(taskFailed') <= Cardinality(taskFailed)
  BY TaskCards DEF TaskSets, Managed
<1>2. /\ Cardinality(Managed) \in Nat /\ Cardinality(Managed') \in Nat
      /\ Cardinality(pending) \in Nat /\ Cardinality(pending') \in Nat
      /\ Cardinality(taskFailed) \in Nat /\ Cardinality(taskFailed') \in Nat
  BY TaskCards DEF TaskSets, Managed
<1> QED BY <1>1, <1>2 DEF TaskCounted, Launches

LEMMA TaskCountMoves ==
    ASSUME IsFiniteSet(Tasks), MaxManaged \in Nat, TaskSets, TaskSets', TaskCounted,
           NEW t \in pending, t \notin taskFailed, t \notin Managed, pending' = pending \ {t},
           \/ Managed' = Managed \cup {t} /\ taskFailed' = taskFailed
           \/ taskFailed' = taskFailed \cup {t} /\ Managed' = Managed
    PROVE  TaskCounted'
<1>1. /\ Cardinality(pending') = Cardinality(pending) - 1
      /\ Cardinality(Managed \cup {t}) = Cardinality(Managed) + 1
      /\ Cardinality(taskFailed \cup {t}) = Cardinality(taskFailed) + 1
  BY TaskCards DEF TaskSets, Managed
<1>2. /\ Cardinality(Managed) \in Nat /\ Cardinality(pending) \in Nat
      /\ Cardinality(taskFailed) \in Nat
  BY TaskCards DEF TaskSets, Managed
<1>3. \/ /\ Cardinality(Managed') = Cardinality(Managed) + 1
         /\ Cardinality(taskFailed') = Cardinality(taskFailed)
      \/ /\ Cardinality(Managed') = Cardinality(Managed)
         /\ Cardinality(taskFailed') = Cardinality(taskFailed) + 1
  BY <1>1, Zenon
<1> QED BY <1>1, <1>2, <1>3, SMT DEF TaskCounted, Launches

LEMMA TaskCountGrows ==
    ASSUME IsFiniteSet(Tasks), MaxManaged \in Nat, TaskSets, TaskSets', Launches < MaxManaged,
           NEW t \in Tasks, t \notin pending, pending' = pending \cup {t},
           Managed' = Managed, taskFailed' = taskFailed
    PROVE  TaskCounted'
<1>1. Cardinality(pending') = Cardinality(pending) + 1
  BY TaskCards DEF TaskSets
<1>2. /\ Cardinality(Managed) \in Nat /\ Cardinality(pending) \in Nat
      /\ Cardinality(taskFailed) \in Nat
  BY TaskCards DEF TaskSets, Managed
<1> QED BY <1>1, <1>2 DEF TaskCounted, Launches

LEMMA TaskInit ==
    ASSUME IsFiniteSet(Tasks), {MaxManaged, MaxTaskFaults} \subseteq Nat, Task!Init PROVE TaskInv
<1>1. TaskTyped
  BY DEF Task!Init, TaskTyped, TaskSets, TaskMaps, TaskFaults
<1>2. \A t \in Tasks : TaskOk(t)
  BY DEF Task!Init, TaskOk, TaskLock, TaskBooks, TaskEnd
<1>3. TaskCounted
  <2>1. Managed = {} /\ pending = {} /\ taskFailed = {}
    BY DEF Task!Init, Managed
  <2> QED BY <2>1, FS_EmptySet DEF TaskCounted, Launches
<1> QED BY <1>1, <1>2, <1>3 DEF TaskInv

\* What a close of the session may do.
LEMMA TaskClosing ==
    ASSUME MaxTaskFaults \in Nat, TaskTyped, NEW t \in Tasks, Task!CloseSession(t)
    PROVE  /\ worker' \in [Tasks -> {"none", "alive", "closed"}]
           /\ instance' \in [Tasks -> {"none", "managed", "attached"}]
           /\ session' \in [Tasks -> {"none", "starting", "active", "cleanup_failed"}]
           /\ jobs' \in [Tasks -> SUBSET {"app", "tree"}] /\ TaskFaults'
           /\ \A u \in Tasks : u # t =>
                  /\ worker'[u] = worker[u] /\ instance'[u] = instance[u]
                  /\ session'[u] = session[u] /\ jobs'[u] = jobs[u]
           /\ \/ /\ session'[t] = "none" /\ worker'[t] = "none" /\ instance'[t] = "none"
                 /\ jobs'[t] \subseteq jobs[t]
                 /\ instance[t] = "managed" => "tree" \notin jobs'[t]
              \/ /\ worker[t] # "none" \/ instance[t] = "managed"
                 /\ session'[t] \in {session[t], "cleanup_failed"}
                 /\ instance'[t] = instance[t] /\ jobs'[t] = jobs[t]
<1> USE DEF TaskTyped, TaskMaps, TaskFaults
<1>1. CASE /\ worker' = [worker EXCEPT ![t] = "none"]
           /\ instance' = [instance EXCEPT ![t] = "none"]
           /\ jobs' = IF instance[t] = "managed" THEN [jobs EXCEPT ![t] = @ \ {"tree"}] ELSE jobs
           /\ session' = [session EXCEPT ![t] = "none"]
           /\ UNCHANGED taskFaults
  BY <1>1
<1>2. CASE /\ worker[t] # "none" /\ Task!Fault
           /\ session' = [session EXCEPT ![t] = "cleanup_failed"]
           /\ UNCHANGED <<worker, instance, jobs>>
  BY <1>2 DEF Task!Fault
<1>3. CASE /\ instance[t] = "managed" /\ "tree" \in jobs[t] /\ Task!Fault
           /\ worker' = [worker EXCEPT ![t] = IF @ = "none" THEN @ ELSE "closed"]
           /\ UNCHANGED <<session, instance, jobs>>
  BY <1>3 DEF Task!Fault
<1> QED BY <1>1, <1>2, <1>3, Zenon DEF Task!CloseSession

\* What a close of the jobs may do.
LEMMA TaskClosesJobs ==
    ASSUME MaxTaskFaults \in Nat, TaskTyped, NEW t \in Tasks, NEW names, Task!CloseJobs(t, names)
    PROVE  /\ jobs' \in [Tasks -> SUBSET {"app", "tree"}] /\ TaskFaults'
           /\ \A u \in Tasks : u # t => jobs'[u] = jobs[u]
           /\ jobs'[t] \subseteq jobs[t]
BY DEF TaskTyped, TaskMaps, TaskFaults, Task!CloseJobs, Task!Fault

\* A start before and after the launch of an application, and the launches of one.
LEMMA TaskStartKeeps ==
    ASSUME MaxTaskFaults \in Nat, TaskInv, NEW t \in Tasks,
           \/ Task!StartCheck(t) \/ Task!StartReserve(t) \/ Task!StartAbandon(t)
           \/ Task!StartLaunch(t) \/ Task!StartWorker(t) \/ Task!StartBooted(t)
    PROVE  TaskTyped' /\ (\A u \in Tasks : TaskOk(u))'
<1> USE DEF TaskInv, TaskTyped, TaskSets, TaskMaps, TaskFaults,
            Task!At, Task!GoTo, Task!Elsewhere, Task!hybrid, Task!Usable, Task!Admitted,
            Task!Live, Task!Fault
<1>1. CASE Task!StartCheck(t)
  <2>1. TaskTyped'
    BY <1>1, SMT DEF Task!StartCheck
  <2>2. (\A u \in Tasks : TaskOk(u))'
    BY <1>1, SMT DEF Task!StartCheck, TaskOk, TaskLock, TaskBooks, TaskEnd
  <2> QED BY <2>1, <2>2
<1>2. CASE Task!StartReserve(t)
  <2>1. TaskTyped'
    BY <1>2, SMT DEF Task!StartReserve
  <2>2. (\A u \in Tasks : TaskOk(u))'
    BY <1>2, SMT DEF Task!StartReserve, TaskOk, TaskLock, TaskBooks, TaskEnd
  <2> QED BY <2>1, <2>2
<1>3. CASE Task!StartAbandon(t)
  <2>1. TaskTyped'
    BY <1>3, SMT DEF Task!StartAbandon
  <2>2. (\A u \in Tasks : TaskOk(u))'
    BY <1>3, SMT DEF Task!StartAbandon, TaskOk, TaskLock, TaskBooks, TaskEnd
  <2> QED BY <2>1, <2>2
<1>4. CASE Task!StartLaunch(t)
  <2>1. TaskTyped'
    BY <1>4, SMT DEF Task!StartLaunch
  <2>2. (\A u \in Tasks : TaskOk(u))'
    BY <1>4, SMT DEF Task!StartLaunch, TaskOk, TaskLock, TaskBooks, TaskEnd
  <2> QED BY <2>1, <2>2
<1>5. CASE Task!StartWorker(t)
  <2>1. TaskTyped'
    BY <1>5, SMT DEF Task!StartWorker
  <2>2. (\A u \in Tasks : TaskOk(u))'
    BY <1>5, SMT DEF Task!StartWorker, TaskOk, TaskLock, TaskBooks, TaskEnd
  <2> QED BY <2>1, <2>2
<1>6. CASE Task!StartBooted(t)
  <2>1. TaskTyped'
    BY <1>6, SMT DEF Task!StartBooted
  <2>2. (\A u \in Tasks : TaskOk(u))'
    BY <1>6, SMT DEF Task!StartBooted, TaskOk, TaskLock, TaskBooks, TaskEnd
  <2> QED BY <2>1, <2>2
<1> QED BY <1>1, <1>2, <1>3, <1>4, <1>5, <1>6

LEMMA TaskLaunchKeeps ==
    ASSUME MaxTaskFaults \in Nat, TaskInv, NEW t \in Tasks,
           \/ Task!LaunchApp(t) \/ Task!ReserveManaged(t) \/ Task!AcceptTree(t)
           \/ Task!AttachTree(t) \/ Task!CallBegin(t)
    PROVE  TaskTyped' /\ (\A u \in Tasks : TaskOk(u))'
<1> USE DEF TaskInv, TaskTyped, TaskSets, TaskMaps, TaskFaults,
            Task!At, Task!GoTo, Task!Elsewhere, Task!hybrid, Task!Usable, Task!Admitted,
            Task!Live, Task!Fault
<1>1. CASE Task!LaunchApp(t)
  <2>1. TaskTyped'
    BY <1>1, SMT DEF Task!LaunchApp
  <2>2. (\A u \in Tasks : TaskOk(u))'
    BY <1>1, SMT DEF Task!LaunchApp, TaskOk, TaskLock, TaskBooks, TaskEnd
  <2> QED BY <2>1, <2>2
<1>2. CASE Task!ReserveManaged(t)
  <2>1. TaskTyped'
    BY <1>2, SMT DEF Task!ReserveManaged
  <2>2. (\A u \in Tasks : TaskOk(u))'
    BY <1>2, SMT DEF Task!ReserveManaged, TaskOk, TaskLock, TaskBooks, TaskEnd
  <2> QED BY <2>1, <2>2
<1>3. CASE Task!AcceptTree(t)
  <2>1. TaskTyped'
    BY <1>3, SMT DEF Task!AcceptTree
  <2>2. (\A u \in Tasks : TaskOk(u))'
    BY <1>3, SMT DEF Task!AcceptTree, TaskOk, TaskLock, TaskBooks, TaskEnd
  <2> QED BY <2>1, <2>2
<1>4. CASE Task!AttachTree(t)
  <2>1. TaskTyped'
    BY <1>4, SMT DEF Task!AttachTree
  <2>2. (\A u \in Tasks : TaskOk(u))'
    BY <1>4, SMT DEF Task!AttachTree, TaskOk, TaskLock, TaskBooks, TaskEnd
  <2> QED BY <2>1, <2>2
<1>5. CASE Task!CallBegin(t)
  <2>1. TaskTyped'
    BY <1>5, SMT DEF Task!CallBegin
  <2>2. (\A u \in Tasks : TaskOk(u))'
    BY <1>5, SMT DEF Task!CallBegin, TaskOk, TaskLock, TaskBooks, TaskEnd
  <2> QED BY <2>1, <2>2
<1> QED BY <1>1, <1>2, <1>3, <1>4, <1>5

\* An end, up to the close of the session.
LEMMA TaskEndKeeps ==
    ASSUME MaxTaskFaults \in Nat, TaskInv, NEW t \in Tasks,
           \/ Task!EndFence(t) \/ Task!EndList(t) \/ Task!EndUnblock(t) \/ Task!EndLock(t)
    PROVE  TaskTyped' /\ (\A u \in Tasks : TaskOk(u))'
<1> USE DEF TaskInv, TaskTyped, TaskSets, TaskMaps, TaskFaults,
            Task!EndAt, Task!EndGoTo, Task!EndElsewhere, Task!hybrid, Task!Usable,
            Task!Admitted, Task!Live, Task!Fault
<1>1. CASE Task!EndFence(t)
  <2>1. TaskTyped'
    BY <1>1, SMT DEF Task!EndFence
  <2>2. (\A u \in Tasks : TaskOk(u))'
    BY <1>1, SMT DEF Task!EndFence, TaskOk, TaskLock, TaskBooks, TaskEnd
  <2> QED BY <2>1, <2>2
<1>2. CASE Task!EndList(t)
  <2>1. TaskTyped'
    BY <1>2, SMT DEF Task!EndList
  <2>2. (\A u \in Tasks : TaskOk(u))'
    BY <1>2, SMT DEF Task!EndList, TaskOk, TaskLock, TaskBooks, TaskEnd
  <2> QED BY <2>1, <2>2
<1>3. CASE Task!EndUnblock(t)
  <2>1. TaskTyped'
    BY <1>3, SMT DEF Task!EndUnblock
  <2>2. (\A u \in Tasks : TaskOk(u))'
    BY <1>3, SMT DEF Task!EndUnblock, TaskOk, TaskLock, TaskBooks, TaskEnd
  <2> QED BY <2>1, <2>2
<1>4. CASE Task!EndLock(t)
  <2>1. TaskTyped'
    BY <1>4, SMT DEF Task!EndLock
  <2>2. (\A u \in Tasks : TaskOk(u))'
    BY <1>4, SMT DEF Task!EndLock, TaskOk, TaskLock, TaskBooks, TaskEnd
  <2> QED BY <2>1, <2>2
<1> QED BY <1>1, <1>2, <1>3, <1>4

LEMMA TaskLaunchTreeKeeps ==
    ASSUME MaxTaskFaults \in Nat, TaskInv, NEW t \in Tasks, Task!LaunchTree(t)
    PROVE  TaskTyped' /\ (\A u \in Tasks : TaskOk(u))'
<1> USE DEF TaskInv, TaskTyped, TaskSets, TaskMaps, TaskFaults, Task!At, Task!GoTo,
            Task!Elsewhere, Task!hybrid, Task!Usable, Task!Admitted, Task!Live, Task!Fault
<1>1. TaskTyped'
  BY SMT DEF Task!LaunchTree
<1>2. /\ starter[t] = "pending" /\ t \in pending
      /\ \A u \in Tasks : u # t => starter'[u] = starter[u] /\ jobs'[u] = jobs[u]
      /\ \/ starter'[t] = "launched" /\ pending' = pending
         \/ /\ starter'[t] = "close" /\ pending' = pending \ {t}
            /\ "tree" \in jobs'[t] => "tree" \in jobs[t]
      /\ jobs'[t] # jobs[t] => status[t] = "active"
  BY SMT DEF Task!LaunchTree, TaskBooks, TaskOk
<1>3. UNCHANGED <<status, ending, orphans, session, holder, worker, instance, taskFailed, ender,
                  erred>>
  BY DEF Task!LaunchTree
<1>4. \A u \in Tasks : TaskLock(u)'
  BY <1>2, <1>3, SMT DEF TaskOk, TaskLock
<1>5. \A u \in Tasks : TaskBooks(u)'
  BY <1>2, <1>3, SMT DEF TaskOk, TaskBooks
<1>6. \A u \in Tasks : TaskEnd(u)'
  BY <1>2, <1>3, SMT DEF TaskOk, TaskEnd
<1> QED BY <1>1, <1>4, <1>5, <1>6 DEF TaskOk

LEMMA TaskRejectKeeps ==
    ASSUME MaxTaskFaults \in Nat, TaskInv, NEW t \in Tasks, Task!RejectTree(t)
    PROVE  TaskTyped' /\ (\A u \in Tasks : TaskOk(u))'
<1> USE DEF TaskInv, TaskTyped, TaskSets, TaskMaps, TaskFaults, Task!At, Task!GoTo,
            Task!Elsewhere, Task!hybrid, Task!Usable, Task!Admitted, Task!Live, Task!Fault
<1>1. /\ jobs' \in [Tasks -> SUBSET {"app", "tree"}] /\ TaskFaults'
      /\ \A u \in Tasks : u # t => jobs'[u] = jobs[u]
      /\ jobs'[t] \subseteq jobs[t]
  BY TaskClosesJobs DEF Task!RejectTree
<1>2. TaskTyped'
  <2>1. /\ UNCHANGED <<status, session, holder, worker, instance, ender>>
        /\ UNCHANGED <<ending, orphans, refusing, erred>>
        /\ starter' = [starter EXCEPT ![t] = "close"] /\ pending' = pending \ {t}
        /\ taskFailed' \subseteq taskFailed \cup {t}
    BY DEF Task!RejectTree
  <2> QED BY <1>1, <2>1, SMT
<1>3. (\A u \in Tasks : TaskOk(u))'
  BY <1>1, SMT DEF Task!RejectTree, TaskOk, TaskLock, TaskBooks, TaskEnd
<1> QED BY <1>2, <1>3

\* The steps that close a session.
LEMMA TaskCloseKeeps ==
    ASSUME MaxTaskFaults \in Nat, TaskInv, NEW t \in Tasks, Task!CloseSession(t),
           Task!StartClose(t) \/ Task!CallEnd(t) \/ Task!EndClose(t)
    PROVE  TaskTyped' /\ (\A u \in Tasks : TaskOk(u))'
<1>1. TaskTyped
  BY DEF TaskInv
<1> DEFINE Wholly ==
             /\ session'[t] = "none" /\ worker'[t] = "none" /\ instance'[t] = "none"
             /\ jobs'[t] \subseteq jobs[t]
             /\ instance[t] = "managed" => "tree" \notin jobs'[t]
           Partly ==
             /\ worker[t] # "none" \/ instance[t] = "managed"
             /\ session'[t] \in {session[t], "cleanup_failed"}
             /\ instance'[t] = instance[t] /\ jobs'[t] = jobs[t]
<1>2. /\ worker' \in [Tasks -> {"none", "alive", "closed"}]
      /\ instance' \in [Tasks -> {"none", "managed", "attached"}]
      /\ session' \in [Tasks -> {"none", "starting", "active", "cleanup_failed"}]
      /\ jobs' \in [Tasks -> SUBSET {"app", "tree"}] /\ TaskFaults'
      /\ \A u \in Tasks : u # t =>
             /\ worker'[u] = worker[u] /\ instance'[u] = instance[u]
             /\ session'[u] = session[u] /\ jobs'[u] = jobs[u]
      /\ Wholly \/ Partly
  BY <1>1, TaskClosing
<1> USE DEF TaskInv, TaskTyped, TaskSets, TaskMaps, TaskFaults
<1>3. CASE Task!StartClose(t)
  <2> USE DEF Task!StartClose, Task!At, Task!GoTo, Task!Elsewhere
  <2>1. TaskTyped'
    BY <1>2, <1>3, SMT
  <2>2. (\A u \in Tasks : TaskOk(u))'
    BY <1>2, <1>3, SMT DEF TaskOk, TaskLock, TaskBooks, TaskEnd
  <2> QED BY <2>1, <2>2
<1>4. CASE Task!CallEnd(t)
  <2>0. /\ holder[t] = "call" /\ holder' = [holder EXCEPT ![t] = "none"]
        /\ UNCHANGED <<status, ending, orphans, refusing, ender, erred, starter, pending,
                       taskFailed>>
    BY <1>4, Zenon DEF Task!CallEnd, Task!Elsewhere
  <2>1. TaskTyped'
    BY <1>2, <2>0, SMT
  <2>2. (\A u \in Tasks : TaskOk(u))'
    BY <1>2, <2>0, SMT DEF TaskOk, TaskLock, TaskBooks, TaskEnd
  <2> QED BY <2>1, <2>2
<1>5. CASE Task!EndClose(t)
  <2> USE DEF Task!EndClose, Task!EndAt, Task!EndGoTo, Task!EndElsewhere, Task!Closed
  <2>1. TaskTyped'
    BY <1>2, <1>5, SMT
  <2>2. (\A u \in Tasks : TaskOk(u))'
    BY <1>2, <1>5, SMT DEF TaskOk, TaskLock, TaskBooks, TaskEnd
  <2> QED BY <2>1, <2>2
<1> QED BY <1>3, <1>4, <1>5

LEMMA TaskCallReturns ==
    ASSUME TaskInv, NEW t \in Tasks, Task!CallEnd(t), ~Task!CloseSession(t)
    PROVE  TaskTyped' /\ (\A u \in Tasks : TaskOk(u))'
<1> USE DEF TaskInv, TaskTyped, TaskSets, TaskMaps, TaskFaults, Task!CallEnd, Task!Elsewhere
<1>1. TaskTyped'
  BY SMT
<1>2. (\A u \in Tasks : TaskOk(u))'
  BY SMT DEF TaskOk, TaskLock, TaskBooks, TaskEnd
<1> QED BY <1>1, <1>2

LEMMA TaskHybridKeeps ==
    ASSUME MaxTaskFaults \in Nat, TaskInv, NEW t \in Tasks, Task!EndHybrid(t)
    PROVE  TaskTyped' /\ (\A u \in Tasks : TaskOk(u))'
<1> USE DEF TaskInv, TaskTyped, TaskSets, TaskMaps, TaskFaults, Task!EndAt, Task!EndGoTo,
            Task!EndElsewhere
<1>1. /\ jobs' \in [Tasks -> SUBSET {"app", "tree"}] /\ TaskFaults'
      /\ \A u \in Tasks : u # t => jobs'[u] = jobs[u]
      /\ jobs'[t] \subseteq jobs[t]
  BY TaskClosesJobs DEF Task!EndHybrid
<1>2. TaskTyped'
  <2>1. /\ UNCHANGED <<status, session, holder, worker, starter>>
        /\ UNCHANGED <<ending, orphans, refusing, pending>>
        /\ ender' = [ender EXCEPT ![t] = "jobs"]
        /\ instance' = instance \/ instance' = [instance EXCEPT ![t] = "none"]
        /\ taskFailed' \subseteq taskFailed /\ erred' \subseteq erred \cup {t}
    BY DEF Task!EndHybrid
  <2> QED BY <1>1, <2>1, SMT
<1>3. (\A u \in Tasks : TaskOk(u))'
  BY <1>1, SMT DEF Task!EndHybrid, TaskOk, TaskLock, TaskBooks, TaskEnd
<1> QED BY <1>2, <1>3

LEMMA TaskJobsKeeps ==
    ASSUME MaxTaskFaults \in Nat, TaskInv, NEW t \in Tasks, Task!EndJobs(t)
    PROVE  TaskTyped' /\ (\A u \in Tasks : TaskOk(u))'
<1> USE DEF TaskInv, TaskTyped, TaskSets, TaskMaps, TaskFaults, Task!EndAt, Task!EndGoTo,
            Task!EndElsewhere, Task!hybrid
<1>1. /\ jobs' \in [Tasks -> SUBSET {"app", "tree"}] /\ TaskFaults'
      /\ \A u \in Tasks : u # t => jobs'[u] = jobs[u]
      /\ jobs'[t] \subseteq jobs[t]
  BY TaskClosesJobs DEF Task!EndJobs
<1>2. TaskTyped'
  <2>1. /\ UNCHANGED <<session, holder, worker, instance, starter>>
        /\ UNCHANGED <<orphans, refusing, pending, taskFailed, erred>>
        /\ ender' = [ender EXCEPT ![t] = "idle"] /\ ending' \subseteq ending
        /\ status' = status \/ status' = [status EXCEPT ![t] = "ended"]
    BY DEF Task!EndJobs
  <2> QED BY <1>1, <2>1, SMT
<1>3. (\A u \in Tasks : TaskOk(u))'
  BY <1>1, SMT DEF Task!EndJobs, TaskOk, TaskLock, TaskBooks, TaskEnd
<1> QED BY <1>2, <1>3

LEMMA TaskRestartKeeps ==
    ASSUME IsFiniteSet(Tasks), {MaxTaskFaults, MaxManaged} \subseteq Nat, TaskInv, Task!Restart
    PROVE  TaskInv'
<1> USE DEF TaskInv, TaskTyped, TaskSets, TaskMaps, TaskFaults
<1>1. PICK alive \in SUBSET {t \in Tasks : jobs[t] # {} \/ t \in orphans} :
          orphans' = alive /\ status' = Task!Recovered(alive)
  BY DEF Task!Restart
<1>2. TaskTyped'
  BY <1>1, SMT DEF Task!Restart, Task!Recovered
<1>3. (\A u \in Tasks : TaskOk(u))'
  BY <1>1, SMT DEF Task!Restart, Task!Recovered, TaskOk, TaskLock, TaskBooks, TaskEnd
<1>4. TaskCounted'
  <2>1. Managed' = {} /\ pending' = {} /\ taskFailed' = {}
    BY DEF Task!Restart, Managed
  <2> QED BY <2>1, FS_EmptySet DEF TaskCounted, Launches
<1> QED BY <1>2, <1>3, <1>4


\* The books stay in their limit: what adds to them, and what moves or strikes an entry.
LEMMA TaskCountKept ==
    ASSUME IsFiniteSet(Tasks), {MaxTaskFaults, MaxManaged} \subseteq Nat, TaskInv, TaskSets',
           NEW t \in Tasks,
           \/ Task!LaunchApp(t) \/ Task!StartCheck(t) \/ Task!Starting(t) \/ Task!CallBegin(t)
           \/ Task!CallEnd(t) \/ Task!EndFence(t) \/ Task!Ending(t)
    PROVE  TaskCounted'
<1> USE DEF TaskInv, TaskTyped, TaskMaps
<1>1. CASE UNCHANGED <<pending, instance, taskFailed>>
  BY <1>1, TaskCountShrinks DEF Managed
<1>2. CASE Task!ReserveManaged(t)
  <2>1. CASE UNCHANGED pending
    BY <1>1, <1>2, <2>1 DEF Task!ReserveManaged
  <2>2. CASE Task!CountManaged < MaxManaged /\ ~Task!Live(t) /\ pending' = pending \cup {t}
    <3>1. Launches < MaxManaged /\ t \notin pending
      <4>1. Launches = Task!CountManaged
        BY TaskCardinality, Zenon DEF Launches, Managed, Task!CountManaged
      <4> QED BY <2>2, <4>1 DEF Task!Live
    <3>2. Managed' = Managed /\ taskFailed' = taskFailed
      BY <1>2 DEF Task!ReserveManaged, Managed
    <3> QED BY <2>2, <3>1, <3>2, TaskCountGrows
  <2> QED BY <1>2, <2>1, <2>2 DEF Task!ReserveManaged
<1>3. CASE Task!AcceptTree(t)
  <2>1. t \in pending /\ t \notin taskFailed /\ t \notin Managed
    BY <1>3 DEF Task!AcceptTree, Task!At, TaskOk, TaskBooks, Managed
  <2>2. /\ Managed' = Managed \cup {t} /\ taskFailed' = taskFailed
        /\ pending' = pending \ {t}
    BY <1>3, SMT DEF Task!AcceptTree, Managed
  <2> QED BY <2>1, <2>2, TaskCountMoves
<1>4. CASE Task!RejectTree(t)
  <2>1. t \in pending /\ t \notin taskFailed /\ t \notin Managed
    BY <1>4 DEF Task!RejectTree, Task!At, TaskOk, TaskBooks, Managed
  <2>2. Managed' = Managed /\ pending' = pending \ {t}
    BY <1>4 DEF Task!RejectTree, Managed
  <2>3. CASE taskFailed' = taskFailed
    BY <2>2, <2>3, TaskCountShrinks
  <2>4. CASE taskFailed' = taskFailed \cup {t}
    BY <2>1, <2>2, <2>4, TaskCountMoves
  <2> QED BY <1>4, <2>3, <2>4 DEF Task!RejectTree
<1>5. CASE \/ Task!LaunchTree(t) \/ Task!AttachTree(t)
           \/ Task!StartClose(t) \/ Task!CallEnd(t) \/ Task!EndClose(t) \/ Task!EndHybrid(t)
  <2>1. ASSUME Task!CloseSession(t)
        PROVE  \A u \in Tasks : instance'[u] = "managed" => instance[u] = "managed"
    BY <2>1, TaskClosing
  <2>2. \A u \in Tasks : instance'[u] = "managed" => instance[u] = "managed"
    <3>1. CASE Task!StartClose(t) \/ Task!EndClose(t)
      BY <2>1, <3>1 DEF Task!StartClose, Task!EndClose
    <3>2. CASE Task!CallEnd(t)
      BY <2>1, <3>2 DEF Task!CallEnd
    <3>3. CASE Task!LaunchTree(t)
      BY <3>3 DEF Task!LaunchTree
    <3>4. CASE Task!AttachTree(t)
      BY <3>4 DEF Task!AttachTree
    <3>5. CASE Task!EndHybrid(t)
      BY <3>5 DEF Task!EndHybrid
    <3> QED BY <1>5, <3>1, <3>2, <3>3, <3>4, <3>5
  <2>3. pending' \subseteq pending /\ taskFailed' \subseteq taskFailed
    BY <1>5 DEF Task!LaunchTree, Task!AttachTree, Task!StartClose, Task!CallEnd, Task!EndClose,
           Task!EndHybrid
  <2>4. Managed' \subseteq Managed
    BY <2>2 DEF Managed
  <2> QED BY <2>3, <2>4, TaskCountShrinks
<1>6. CASE \/ Task!LaunchApp(t) \/ Task!StartCheck(t) \/ Task!StartReserve(t)
           \/ Task!StartAbandon(t) \/ Task!StartLaunch(t) \/ Task!StartWorker(t)
           \/ Task!StartBooted(t) \/ Task!CallBegin(t)
  BY <1>1, <1>6 DEF Task!LaunchApp, Task!StartCheck, Task!StartReserve, Task!StartAbandon,
         Task!StartLaunch, Task!StartWorker, Task!StartBooted, Task!CallBegin, Task!hybrid
<1>7. CASE \/ Task!EndFence(t) \/ Task!EndList(t) \/ Task!EndUnblock(t) \/ Task!EndLock(t)
           \/ Task!EndJobs(t)
  BY <1>1, <1>7 DEF Task!EndFence, Task!EndList, Task!EndUnblock, Task!EndLock, Task!EndJobs,
         Task!hybrid
<1> QED BY <1>2, <1>3, <1>4, <1>5, <1>6, <1>7 DEF Task!Starting, Task!Ending

LEMMA TaskPreserved ==
    ASSUME IsFiniteSet(Tasks), {MaxTaskFaults, MaxManaged} \subseteq Nat, TaskInv,
           [Task!Next]_taskVars
    PROVE  TaskInv'
<1>1. ASSUME NEW t \in Tasks,
             \/ Task!LaunchApp(t) \/ Task!StartCheck(t) \/ Task!Starting(t) \/ Task!CallBegin(t)
             \/ Task!CallEnd(t) \/ Task!EndFence(t) \/ Task!Ending(t)
      PROVE  TaskInv'
  <2>1. TaskTyped' /\ (\A u \in Tasks : TaskOk(u))'
    <3>1. CASE Task!CallEnd(t) /\ ~Task!CloseSession(t)
      BY <3>1, TaskCallReturns
    <3>2. CASE Task!StartClose(t) \/ Task!EndClose(t)
      BY <3>2, TaskCloseKeeps DEF Task!StartClose, Task!EndClose
    <3>3. CASE Task!CallEnd(t) /\ Task!CloseSession(t)
      BY <3>3, TaskCloseKeeps
    <3> QED BY <1>1, <3>1, <3>2, <3>3, TaskStartKeeps, TaskLaunchKeeps, TaskEndKeeps,
               TaskLaunchTreeKeeps, TaskRejectKeeps, TaskHybridKeeps, TaskJobsKeeps
            DEF Task!Starting, Task!Ending
  <2>2. TaskCounted'
    BY <1>1, <2>1, TaskCountKept DEF TaskTyped
  <2> QED BY <2>1, <2>2 DEF TaskInv
<1>2. CASE Task!Restart
  BY <1>2, TaskRestartKeeps
<1>3. CASE UNCHANGED taskVars
  <2> USE <1>3 DEF taskVars
  <2>1. TaskTyped'
    BY DEF TaskInv, TaskTyped, TaskSets, TaskMaps, TaskFaults
  <2>2. (\A u \in Tasks : TaskOk(u))'
    BY DEF TaskInv, TaskOk, TaskLock, TaskBooks, TaskEnd
  <2>3. TaskCounted'
    BY DEF TaskInv, TaskCounted, Launches, Managed
  <2> QED BY <2>1, <2>2, <2>3 DEF TaskInv
<1> QED BY <1>1, <1>2, <1>3 DEF Task!Next

LEMMA TaskImplies ==
    ASSUME IsFiniteSet(Tasks), MaxManaged \in Nat, TaskInv
    PROVE  Task!TypeOK /\ Task!EndedOwnsNothing /\ Task!ManagedWithinLimit
<1> USE DEF TaskInv
<1>1. Task!TypeOK
  BY DEF TaskTyped, TaskSets, TaskMaps, TaskFaults, Task!TypeOK
<1>2. Task!EndedOwnsNothing
  BY SMT DEF TaskTyped, TaskMaps, TaskOk, TaskLock, TaskBooks, TaskEnd, Task!EndedOwnsNothing,
         Task!Live
<1>3. Task!ManagedWithinLimit
  <2>1. \A t \in Tasks : "tree" \in jobs[t] => Task!Live(t)
    BY DEF TaskOk, TaskBooks, Task!Live
  <2> DEFINE Trees == {t \in Tasks : "tree" \in jobs[t]}
  <2>2. Trees \subseteq Managed \cup pending \cup taskFailed
    BY DEF TaskOk, TaskBooks, Managed
  <2>3. /\ IsFiniteSet(Managed) /\ IsFiniteSet(pending) /\ IsFiniteSet(taskFailed)
        /\ Cardinality(Managed) \in Nat /\ Cardinality(pending) \in Nat
        /\ Cardinality(taskFailed) \in Nat
    BY TaskCards DEF TaskTyped, TaskSets, Managed
  <2>4. /\ IsFiniteSet(Managed \cup pending)
        /\ Cardinality(Managed \cup pending) <= Cardinality(Managed) + Cardinality(pending)
    <3>1. /\ IsFiniteSet(Managed \cap pending) /\ Cardinality(Managed \cap pending) \in Nat
      BY <2>3, FS_Intersection, FS_CardinalityType
    <3>2. /\ IsFiniteSet(Managed \cup pending)
          /\ Cardinality(Managed \cup pending)
                 = Cardinality(Managed) + Cardinality(pending) - Cardinality(Managed \cap pending)
      BY <2>3, FS_Union
    <3> QED BY <2>3, <3>1, <3>2
  <2>5. /\ IsFiniteSet(Managed \cup pending \cup taskFailed)
        /\ Cardinality(Managed \cup pending \cup taskFailed)
               <= Cardinality(Managed) + Cardinality(pending) + Cardinality(taskFailed)
    <3> DEFINE Booked == Managed \cup pending
    <3>1. /\ IsFiniteSet(Booked \cap taskFailed) /\ Cardinality(Booked \cap taskFailed) \in Nat
          /\ Cardinality(Booked) \in Nat
      BY <2>3, <2>4, FS_Intersection, FS_CardinalityType
    <3>2. /\ IsFiniteSet(Booked \cup taskFailed)
          /\ Cardinality(Booked \cup taskFailed)
                 = Cardinality(Booked) + Cardinality(taskFailed)
                       - Cardinality(Booked \cap taskFailed)
      BY <2>3, <2>4, FS_Union
    <3> QED BY <2>3, <2>4, <3>1, <3>2
  <2>6. /\ Cardinality(Trees) \in Nat
        /\ Cardinality(Trees) <= Cardinality(Managed \cup pending \cup taskFailed)
        /\ Cardinality(Managed \cup pending \cup taskFailed) \in Nat
    BY <2>2, <2>5, FS_Subset, FS_CardinalityType
  <2>7. Cardinality(Trees) <= MaxManaged
    BY <2>3, <2>5, <2>6 DEF TaskCounted, Launches
  <2> QED BY <2>1, <2>7, TaskCardinality, Zenon DEF Task!ManagedWithinLimit
<1> QED BY <1>1, <1>2, <1>3

-----------------------------------------------------------------------------
(* A behaviour is of one component, whose invariant it keeps.                 *)

MachineInv ==
    /\ part = "service" => ServiceInv
    /\ part = "swap" => SwitchInv
    /\ part = "update" => UpdateInv
    /\ part = "cleanup" => CleanupInv
    /\ part = "task" => TaskInv

LEMMA MachineConstants ==
    /\ ServiceBounded /\ IsFiniteSet(Tasks)
    /\ MaxTroubles \in Nat /\ {MaxRuns, MaxEdits} \subseteq Nat
    /\ {MaxTaskFaults, MaxManaged} \subseteq Nat /\ {MaxManaged, MaxTaskFaults} \subseteq Nat
    /\ AppFiles \subseteq Update!Files
BY LocalMachineAssumption DEF ServiceBounded, Update!Files

LEMMA MachineInit == Init => MachineInv
<1> SUFFICES ASSUME Init PROVE MachineInv
  OBVIOUS
<1>1. CASE part = "service" /\ Service!Init
  BY <1>1, MachineConstants, ServiceInitInv DEF MachineInv
<1>2. CASE part = "swap" /\ Switch!Init
  BY <1>2, MachineConstants, SwitchInit DEF MachineInv
<1>3. CASE part = "update" /\ Update!Init
  BY <1>3, MachineConstants, UpdateInit DEF MachineInv
<1>4. CASE part = "cleanup" /\ Cleanup!Init
  BY <1>4, CleanupInit DEF MachineInv
<1>5. CASE part = "task" /\ Task!Init
  BY <1>5, MachineConstants, TaskInit DEF MachineInv
<1> QED BY <1>1, <1>2, <1>3, <1>4, <1>5 DEF Init

LEMMA MachineStep ==
    ASSUME [Next]_vars
    PROVE  /\ part' = part
           /\ part = "service" => [Service!Next]_serviceVars
           /\ part = "swap" => [Switch!Next]_swapVars
           /\ part = "update" => [Update!Next]_updateVars
           /\ part = "cleanup" => [Cleanup!Next]_cleanupVars
           /\ part = "task" => [Task!Next]_taskVars
<1>1. CASE Next
  BY <1>1 DEF Next
<1>2. CASE UNCHANGED vars
  BY <1>2 DEF vars
<1> QED BY <1>1, <1>2

LEMMA MachinePreserved == MachineInv /\ [Next]_vars => MachineInv'
<1> SUFFICES ASSUME MachineInv, [Next]_vars PROVE MachineInv'
  OBVIOUS
<1>1. part = "service" => ServiceInv'
  BY MachineConstants, MachineStep, ServicePreserved DEF MachineInv
<1>2. part = "swap" => SwitchInv'
  BY MachineConstants, MachineStep, SwitchPreserved DEF MachineInv
<1>3. part = "update" => UpdateInv'
  BY MachineConstants, MachineStep, UpdatePreserved DEF MachineInv
<1>4. part = "cleanup" => CleanupInv'
  BY MachineStep, CleanupPreserved DEF MachineInv
<1>5. part = "task" => TaskInv'
  BY MachineConstants, MachineStep, TaskPreserved DEF MachineInv
<1> QED BY <1>1, <1>2, <1>3, <1>4, <1>5, MachineStep DEF MachineInv

\* The instance lock is not given up while a client, an attempt, the server, the
\* runtime or the maintenance thread is left, however many starts, stops and
\* cleanups fail and are repeated (service.py, tunnel_supervisor.py).
THEOREM LockIsKept == Spec => []LockCoversEverything
<1>1. MachineInv => LockCoversEverything
  BY ServiceInvImplies DEF MachineInv, LockCoversEverything
<1> QED BY <1>1, MachineInit, MachinePreserved, PTL DEF Spec

\* Whatever files a release and an update have, wherever a preparation stops and
\* whoever edits a package, what may be switched to is a whole release; and a
\* switch interrupts no work, overwrites no edit it could have seen, and leaves
\* the service running after one failure (prepare_update.py,
\* switch_managed_release.py, autostart.py).
THEOREM UpdatesStaySafe == Spec => []UpdatesAreSafe
<1>1. MachineInv => UpdatesAreSafe
  <2> SUFFICES ASSUME MachineInv PROVE UpdatesAreSafe
    OBVIOUS
  <2>1. part = "update" => Update!TypeOK /\ Update!SwitchedIsWhole
    BY MachineConstants, UpdateImplies DEF MachineInv
  <2>2. part = "swap" => Switch!TypeOK /\ Switch!SwitchIsSafe
    BY SwitchImplies DEF MachineInv
  <2> QED BY <2>1, <2>2, Zenon DEF UpdatesAreSafe
<1> QED BY <1>1, MachineInit, MachinePreserved, PTL DEF Spec

\* For any number of tasks that start sessions, call them and end while others
\* do, a task that ended owns nothing and the launched applications stay in
\* their books and their limit; and the end of a workflow leaves only what its
\* failed steps held (task_store.py, browser/manager.py, hybrid/manager.py,
\* host.py WorkflowResources.close).
THEOREM EndsStayWhole == Spec => []EndsAreWhole
<1>1. MachineInv => EndsAreWhole
  <2> SUFFICES ASSUME MachineInv PROVE EndsAreWhole
    OBVIOUS
  <2>1. part = "task" => Task!TypeOK /\ Task!EndedOwnsNothing /\ Task!ManagedWithinLimit
    BY MachineConstants, TaskImplies DEF MachineInv
  <2>2. part = "cleanup" => Cleanup!CleanupGoesOn
    BY CleanupImplies DEF MachineInv
  <2> QED BY <2>1, <2>2, Zenon DEF EndsAreWhole
<1> QED BY <1>1, MachineInit, MachinePreserved, PTL DEF Spec
=============================================================================
