--------------------------- MODULE SearchSessions ---------------------------
(***************************************************************************)
(* The rg searches of all workflows: a collector thread reads each one, a  *)
(* timer limits it, stop, release, the end of the owner and the shutdown   *)
(* end it, all under the search's own lock; sessions are counted against   *)
(* the limits until they are released.  Closing the job of a search kills  *)
(* its processes or, MaxFailures times, raises and leaves them.            *)
(***************************************************************************)
EXTENDS Naturals, FiniteSets

CONSTANTS Searches, Clients,    \* search ids, owners
          MaxSearches, MaxPerOwner,     \* max_sessions, max_per_owner
          MaxFailures           \* bound: closes of a job that fail

VARIABLES
    verdict,      \* Search.state, "none" before start
    rg,           \* the process: none, alive, dead
    collector,    \* where the collector thread is
    timer,        \* searches whose timer is armed
    sessions,     \* registered searches
    searcher,     \* their owners
    stopper,      \* where a stop or release of the search is
    searchClosed, jobFailures
vars == <<verdict, rg, collector, timer, sessions, searcher, stopper, searchClosed, jobFailures>>

Settled == {"completed", "failed", "partial", "stopped"}

TypeOK ==
    /\ verdict \in [Searches -> {"none", "running"} \cup Settled]
    /\ rg \in [Searches -> {"none", "alive", "dead"}]
    /\ collector \in [Searches -> {"none", "reading", "left", "ended", "closing", "done", "died"}]
    /\ {timer, sessions} \subseteq SUBSET Searches
    /\ searcher \in [Searches -> Clients]
    /\ stopper \in [Searches -> {"idle", "joining", "joined"}]
    /\ searchClosed \in BOOLEAN /\ jobFailures \in 0..MaxFailures

Init ==
    /\ verdict = [s \in Searches |-> "none"]
    /\ rg = [s \in Searches |-> "none"]
    /\ collector = [s \in Searches |-> "none"]
    /\ stopper = [s \in Searches |-> "idle"]
    /\ searcher \in [Searches -> Clients]
    /\ timer = {} /\ sessions = {} /\ searchClosed = FALSE /\ jobFailures = 0

(* OwnedJob.close ends every process of the job, or raises.                 *)
JobClosed(s) == rg' = [rg EXCEPT ![s] = "dead"] /\ UNCHANGED jobFailures
JobRaises == jobFailures < MaxFailures /\ jobFailures' = jobFailures + 1 /\ UNCHANGED rg

Start(s) ==
    /\ verdict[s] = "none" /\ ~searchClosed
    /\ Cardinality(sessions) < MaxSearches
    /\ Cardinality({t \in sessions : searcher[t] = searcher[s]}) < MaxPerOwner
    /\ verdict' = [verdict EXCEPT ![s] = "running"]
    /\ rg' = [rg EXCEPT ![s] = "alive"]
    /\ collector' = [collector EXCEPT ![s] = "reading"]
    /\ timer' = timer \cup {s} /\ sessions' = sessions \cup {s}
    /\ UNCHANGED <<searcher, stopper, searchClosed, jobFailures>>

RgExit(s) ==
    /\ rg[s] = "alive" /\ rg' = [rg EXCEPT ![s] = "dead"]
    /\ UNCHANGED <<verdict, collector, timer, sessions, searcher, stopper, searchClosed, jobFailures>>

(* _timeout *)
Timeout(s) ==
    /\ s \in timer
    /\ timer' = timer \ {s}
    /\ IF verdict[s] = "running"
         THEN verdict' = [verdict EXCEPT ![s] = "partial"] /\ (JobClosed(s) \/ JobRaises)
         ELSE UNCHANGED <<verdict, rg, jobFailures>>
    /\ UNCHANGED <<collector, sessions, searcher, stopper, searchClosed>>

-----------------------------------------------------------------------------
(* _collect: the loop ends at a limit, which settles the search, at a bad   *)
(* result, at the first line after somebody settled the search,             *)
CollectBreak(s) ==
    /\ collector[s] = "reading" /\ rg[s] = "alive"
    /\ verdict' \in IF verdict[s] = "running" THEN {verdict, [verdict EXCEPT ![s] = "partial"]}
                    ELSE {verdict}
    /\ collector' = [collector EXCEPT ![s] = "left"]
    /\ UNCHANGED <<rg, timer, sessions, searcher, stopper, searchClosed, jobFailures>>

(* or at the end of the output;                                             *)
CollectEnd(s) ==
    /\ collector[s] = "reading" /\ rg[s] = "dead"
    /\ collector' = [collector EXCEPT ![s] = "left"]
    /\ UNCHANGED <<verdict, rg, timer, sessions, searcher, stopper, searchClosed, jobFailures>>

(* the timer is cancelled and a search settled by then killed;              *)
CollectKill(s) ==
    /\ collector[s] = "left"
    /\ timer' = timer \ {s}
    /\ rg' = IF verdict[s] = "running" THEN rg ELSE [rg EXCEPT ![s] = "dead"]
    /\ collector' = [collector EXCEPT ![s] = "ended"]
    /\ UNCHANGED <<verdict, sessions, searcher, stopper, searchClosed, jobFailures>>

(* one that does not end within five seconds is killed too;                 *)
CollectWait(s) ==
    /\ collector[s] = "ended"
    /\ rg' = [rg EXCEPT ![s] = "dead"]
    /\ collector' = [collector EXCEPT ![s] = "closing"]
    /\ UNCHANGED <<verdict, timer, sessions, searcher, stopper, searchClosed, jobFailures>>

(* the job is closed, and what still runs is completed or failed.           *)
CollectClose(s) ==
    /\ collector[s] = "closing"
    /\ \/ JobRaises /\ collector' = [collector EXCEPT ![s] = "died"] /\ UNCHANGED verdict
       \/ /\ JobClosed(s) /\ collector' = [collector EXCEPT ![s] = "done"]
          /\ verdict' \in IF verdict[s] # "running" THEN {verdict}
                          ELSE {[verdict EXCEPT ![s] = v] : v \in {"completed", "failed"}}
    /\ UNCHANGED <<timer, sessions, searcher, stopper, searchClosed>>

Collect(s) == CollectEnd(s) \/ CollectKill(s) \/ CollectWait(s) \/ CollectClose(s)

-----------------------------------------------------------------------------
\* Mutant: a search that has its verdict gets another one.
StopOnce(s) ==
    /\ s \in sessions /\ stopper[s] = "idle"
    /\ verdict' = [verdict EXCEPT ![s] = "stopped"]
    /\ stopper' = [stopper EXCEPT ![s] = "joining"]
    /\ JobClosed(s)
    /\ UNCHANGED <<collector, timer, sessions, searcher, searchClosed>>

(* _stop: settle and close the job, *)
Stop(s) ==
    /\ s \in sessions /\ stopper[s] = "idle"
    /\ IF verdict[s] = "running"
         THEN /\ verdict' = [verdict EXCEPT ![s] = "stopped"]
              /\ \/ JobClosed(s) /\ stopper' = [stopper EXCEPT ![s] = "joining"]
                 \/ JobRaises /\ UNCHANGED stopper
         ELSE stopper' = [stopper EXCEPT ![s] = "joining"] /\ UNCHANGED <<verdict, rg, jobFailures>>
    /\ UNCHANGED <<collector, timer, sessions, searcher, searchClosed>>

(* join the collector for six seconds, close the job again,                 *)
Joined(s) == collector[s] \in {"done", "died"}
StopJoin(s) ==
    /\ stopper[s] = "joining"
    /\ \/ Joined(s) /\ JobClosed(s) /\ stopper' = [stopper EXCEPT ![s] = "joined"]
       \/ Joined(s) /\ JobRaises /\ stopper' = [stopper EXCEPT ![s] = "idle"]
       \/ ~Joined(s) /\ stopper' = [stopper EXCEPT ![s] = "idle"] /\ UNCHANGED <<rg, jobFailures>>
    /\ UNCHANGED <<verdict, collector, timer, sessions, searcher, searchClosed>>

(* and, for release, end_owner and close, give the place back.              *)
StopReturn(s) ==
    /\ stopper[s] = "joined"
    /\ sessions' \in {sessions, sessions \ {s}}
    /\ stopper' = [stopper EXCEPT ![s] = "idle"]
    /\ UNCHANGED <<verdict, rg, collector, timer, searcher, searchClosed, jobFailures>>

CloseManager ==
    /\ ~searchClosed /\ searchClosed' = TRUE
    /\ UNCHANGED <<verdict, rg, collector, timer, sessions, searcher, stopper, jobFailures>>

Next ==
    \/ \E s \in Searches :
          \/ Start(s) \/ RgExit(s) \/ Timeout(s) \/ CollectBreak(s) \/ Collect(s)
          \/ Stop(s) \/ StopJoin(s) \/ StopReturn(s)
    \/ CloseManager
Spec == Init /\ [][Next]_vars

-----------------------------------------------------------------------------
(* A search whose rg is alive holds its place, so that its owner's end and  *)
(* the shutdown find it, and the places of one owner and of all are bounded.*)
NoSearchUnowned ==
    /\ \A s \in Searches : rg[s] = "alive" => s \in sessions
    /\ Cardinality(sessions) <= MaxSearches
    /\ \A o \in Clients : Cardinality({s \in sessions : searcher[s] = o}) <= MaxPerOwner

(* Collector, timer and stop agree on one verdict, and there always is one  *)
(* unless closing the job killed the collector.                             *)
KeepsVerdict == \A s \in Searches : verdict[s] \in Settled => verdict'[s] = verdict[s]
Unsettled(s) == verdict[s] = "running" /\ collector[s] # "died"
GetsVerdict == \A s \in Searches : Unsettled(s) ~> ~Unsettled(s)
=============================================================================
