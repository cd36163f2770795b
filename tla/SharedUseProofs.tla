--------------------------- MODULE SharedUseProofs ----------------------------
(* What is used at once is kept apart for every value of the constants: any   *)
(* number of requests, calls, windows, pages and clients.  Here are the calls *)
(* of the host, the protocol front, transfers, the counters of the coding     *)
(* tools and authorization; SharedDesktopProofs has the other components.     *)
(* Each has its inductive invariant; a behaviour is of one of them, and its   *)
(* invariant is kept.                                                         *)
EXTENDS SharedDesktopProofs

-----------------------------------------------------------------------------
(* How the host runs the calls of one workflow (HostCalls).                   *)

\* What the theorems ask of the constants.
HostApart == Host!NoCaller \notin Callers /\ "none" \notin RequestIds

HostIds == RequestIds \cup {"none"}
HostTyped ==
    /\ Host!TypeOK
    /\ hostCall \in [Callers -> [kind : Host!Kinds \cup {"none"}, id : HostIds]]
    /\ receipts \in [RequestIds -> [kind : Host!Journaled \cup {"none"},
                                    state : {"none", "running", "completed", "unknown"}]]
    /\ works \subseteq [by : Callers, kind : Host!Kinds, id : HostIds, state : {"pending",
                        "uncertain"}]

\* A caller has the gate exactly while it runs a write.
HostGateHeld == \A c \in Callers : gate = c <=> (pc[c] # "idle" /\ hostCall[c].kind \in Host!Gated)

\* Journaled calls have an id, and a receipt once they are cleared; native ones
\* wait, the others run.
HostCallsFit ==
    \A c \in Callers : pc[c] # "idle" =>
        /\ hostCall[c].kind \in Host!Kinds
        /\ hostCall[c].kind \in Host!Journaled <=> hostCall[c].id # "none"
        /\ pc[c] = "running" => hostCall[c].kind \notin Host!Native
        /\ (pc[c] # "entered"
            /\ hostCall[c].kind \in Host!Journaled)
               => receipts[hostCall[c].id].kind = hostCall[c].kind

\* Work that is not native has its caller still in the tool.
HostAttended ==
    \A w \in works :
        /\ w.kind \in Host!Journaled <=> w.id # "none"
        /\ w.kind \notin Host!Native => (pc[w.by] = "running" /\ hostCall[w.by].kind = w.kind)
        /\ w.kind \in Host!Journaled => receipts[w.id].kind = w.kind

\* One write at a time, and none when the next is cleared.
HostWritesAlone ==
    /\ \A v, w \in works : v.kind \in Host!Gated /\ w.kind \in Host!Gated => v = w
    /\ \A c \in Callers : pc[c] = "cleared" /\ hostCall[c].kind \in Host!Gated =>
           \A w \in works : w.kind \notin Host!Gated

\* One piece of work of a request id, and none when one is cleared.
HostIdsOnce ==
    /\ \A v, w \in works : v.id # "none" /\ v.id = w.id => v = w
    /\ \A c \in Callers : pc[c] = "cleared" /\ hostCall[c].id # "none" =>
           /\ \A w \in works : w.id # hostCall[c].id
           /\ \A d \in Callers : pc[d] = "cleared" /\ d # c => hostCall[d].id # hostCall[c].id

HostInv == /\ HostTyped /\ HostGateHeld /\ HostCallsFit /\ HostAttended /\ HostWritesAlone
    /\ HostIdsOnce

-----------------------------------------------------------------------------
(* Steps in which calls only leave and work only ends                      *)

HostRecedes ==
    /\ \A c \in Callers : \/ pc'[c] = pc[c] /\ hostCall'[c] = hostCall[c]
                          \/ pc'[c] = "idle"
    /\ works' \subseteq works
    /\ \A i \in RequestIds : receipts'[i].kind = receipts[i].kind
    /\ \A w \in works' : w.kind \notin Host!Native => pc'[w.by] = pc[w.by]

LEMMA HostReceding ==
    ASSUME HostApart, HostInv, HostRecedes, HostTyped', HostGateHeld'
    PROVE  HostInv'
<1>1. HostCallsFit'
  <2>. SUFFICES ASSUME NEW c \in Callers, pc'[c] # "idle"
                PROVE  /\ hostCall'[c].kind \in Host!Kinds
                       /\ hostCall'[c].kind \in Host!Journaled <=> hostCall'[c].id # "none"
                       /\ pc'[c] = "running" => hostCall'[c].kind \notin Host!Native
                       /\ (pc'[c] # "entered" /\ hostCall'[c].kind \in Host!Journaled)
                              => receipts'[hostCall'[c].id].kind = hostCall'[c].kind
    BY DEF HostCallsFit
  <2>1. pc'[c] = pc[c] /\ hostCall'[c] = hostCall[c]
    BY DEF HostRecedes
  <2>2. hostCall[c].id # "none" => hostCall[c].id \in RequestIds
    BY DEF HostInv, HostTyped, HostIds
  <2>. QED BY <2>1, <2>2 DEF HostInv, HostCallsFit, HostRecedes
<1>2. HostAttended'
  <2>. SUFFICES ASSUME NEW w \in works'
                PROVE  /\ w.kind \in Host!Journaled <=> w.id # "none"
                       /\ w.kind \notin Host!Native => (pc'[w.by] = "running"
                                        /\ hostCall'[w.by].kind = w.kind)
                       /\ w.kind \in Host!Journaled => receipts'[w.id].kind = w.kind
    BY DEF HostAttended
  <2>1. w \in works /\ w.by \in Callers /\ w.id \in HostIds
    BY DEF HostRecedes, HostInv, HostTyped
  <2>2. w.id # "none" => w.id \in RequestIds
    BY <2>1 DEF HostIds
  <2>. QED BY <2>1, <2>2 DEF HostInv, HostAttended, HostRecedes
<1>3. HostWritesAlone'
  BY DEF HostInv, HostWritesAlone, HostRecedes
<1>4. HostIdsOnce'
  <2>1. \A c \in Callers : pc'[c] = "cleared" => pc[c] = "cleared" /\ hostCall'[c] = hostCall[c]
    BY DEF HostRecedes
  <2>2. works' \subseteq works
    BY DEF HostRecedes
  <2>. QED BY <2>1, <2>2 DEF HostInv, HostIdsOnce
<1>. QED BY <1>1, <1>2, <1>3, <1>4 DEF HostInv

\* Leaving keeps types and the gate.
LEMMA HostLeaves ==
    ASSUME HostApart, HostInv, NEW c \in Callers, NEW a, Host!Leave(c, a), pc[c] # "idle"
    PROVE  /\ pc' \in [Callers -> {"idle", "entered", "cleared", "running", "waiting"}]
           /\ gate' \in Callers \cup {Host!NoCaller}
           /\ hostCall' \in [Callers -> [kind : Host!Kinds \cup {"none"}, id : HostIds]]
           /\ HostGateHeld'
           /\ pc'[c] = "idle"
           /\ \A d \in Callers : d # c => pc'[d] = pc[d] /\ hostCall'[d] = hostCall[d]
<1>1. /\ pc' = [pc EXCEPT ![c] = "idle"]
      /\ hostCall' = [hostCall EXCEPT ![c] = Host!NoCall]
      /\ gate' = IF gate = c THEN Host!NoCaller ELSE gate
  BY DEF Host!Leave
<1>2. /\ pc \in [Callers -> {"idle", "entered", "cleared", "running", "waiting"}]
      /\ hostCall \in [Callers -> [kind : Host!Kinds \cup {"none"}, id : HostIds]]
      /\ gate \in Callers \cup {Host!NoCaller}
  BY DEF HostInv, HostTyped, Host!TypeOK
<1>3. Host!NoCall \in [kind : Host!Kinds \cup {"none"}, id : HostIds]
  BY DEF Host!NoCall, HostIds
<1>4. /\ pc' \in [Callers -> {"idle", "entered", "cleared", "running", "waiting"}]
      /\ gate' \in Callers \cup {Host!NoCaller}
      /\ pc'[c] = "idle"
      /\ \A d \in Callers : d # c => pc'[d] = pc[d] /\ hostCall'[d] = hostCall[d]
  BY <1>1, <1>2
<1>5. hostCall' \in [Callers -> [kind : Host!Kinds \cup {"none"}, id : HostIds]]
  BY <1>1, <1>2, <1>3
<1>6. HostGateHeld'
  <2>. SUFFICES ASSUME NEW d \in Callers
                PROVE  gate' = d <=> (pc'[d] # "idle" /\ hostCall'[d].kind \in Host!Gated)
    BY DEF HostGateHeld
  <2>1. CASE d = c
    BY <2>1, <1>1, <1>4 DEF HostApart
  <2>2. CASE d # c
    BY <2>2, <1>1, <1>4 DEF HostApart, HostInv, HostGateHeld
  <2>. QED BY <2>1, <2>2
<1>. QED BY <1>4, <1>5, <1>6

\* Recording an outcome leaves the kind of every receipt.
LEMMA HostRecords ==
    ASSUME HostInv, NEW kind, NEW id, kind \in Host!Journaled => id \in RequestIds,
           NEW state \in {"completed", "unknown"}, Host!Record(kind, id, state)
    PROVE  /\ receipts' \in [RequestIds -> [kind : Host!Journaled \cup {"none"},
                                state : {"none", "running", "completed", "unknown"}]]
           /\ \A i \in RequestIds : receipts'[i].kind = receipts[i].kind
<1>1. receipts \in [RequestIds -> [kind : Host!Journaled \cup {"none"},
                        state : {"none", "running", "completed", "unknown"}]]
  BY DEF HostInv, HostTyped
<1>2. CASE kind \notin Host!Journaled
  BY <1>1, <1>2 DEF Host!Record
<1>3. CASE kind \in Host!Journaled
  <2>. DEFINE s == IF state = "unknown"
                                        /\ receipts[id].state # "running"
                                     THEN receipts[id].state ELSE state
  <2>1. receipts' = [receipts EXCEPT ![id] = [receipts[id] EXCEPT !.state = s]]
    BY <1>1, <1>3 DEF Host!Record
  <2>2. s \in {"none", "running", "completed", "unknown"}
    BY <1>1, <1>3
  <2>3. /\ [receipts[id] EXCEPT !.state = s] \in [kind : Host!Journaled \cup {"none"},
                        state : {"none", "running", "completed", "unknown"}]
        /\ [receipts[id] EXCEPT !.state = s].kind = receipts[id].kind
    <3>. HIDE DEF s
    <3>. QED BY <1>1, <1>3, <2>2
  <2>. HIDE DEF s
  <2>. QED BY <1>1, <1>3, <2>1, <2>3
<1>. QED BY <1>2, <1>3

-----------------------------------------------------------------------------
(* The actions, one by one                                                 *)

LEMMA HostInitInv ==
    ASSUME HostApart, Host!Init
    PROVE  HostInv
<1>1. HostTyped
  BY DEF Host!Init, HostTyped, Host!TypeOK, Host!NoCall, Host!NoReceipt, HostIds
<1>2. HostGateHeld
  BY DEF Host!Init, HostGateHeld, HostApart
<1>3. HostCallsFit /\ HostAttended /\ HostWritesAlone /\ HostIdsOnce
  BY DEF Host!Init, HostCallsFit, HostAttended, HostWritesAlone, HostIdsOnce
<1>. QED BY <1>1, <1>2, <1>3 DEF HostInv

LEMMA HostEnters ==
    ASSUME HostApart, HostInv, NEW c \in Callers, NEW k \in Host!Kinds, NEW i \in HostIds,
           k \in Host!Journaled => i # "none", Host!Enter(c, k, i)
    PROVE  HostInv'
<1>. DEFINE began == [kind |-> k, id |-> i]
<1>1. /\ pc[c] = "idle"
      /\ k \in Host!Gated => gate = Host!NoCaller
      /\ k \notin Host!Journaled => i = "none"
      /\ pc' = [pc EXCEPT ![c] = "entered"]
      /\ hostCall' = [hostCall EXCEPT ![c] = began]
      /\ gate' = IF k \in Host!Gated THEN c ELSE gate
      /\ receipts' = receipts /\ works' = works
  BY DEF Host!Enter
<1>2. /\ pc \in [Callers -> {"idle", "entered", "cleared", "running", "waiting"}]
      /\ hostCall \in [Callers -> [kind : Host!Kinds \cup {"none"}, id : HostIds]]
      /\ gate \in Callers \cup {Host!NoCaller}
  BY DEF HostInv, HostTyped, Host!TypeOK
<1>3. /\ began \in [kind : Host!Kinds \cup {"none"}, id : HostIds]
      /\ began.kind = k /\ began.id = i
  OBVIOUS
<1>. HIDE DEF began
<1>4. /\ pc'[c] = "entered" /\ hostCall'[c] = began
      /\ \A d \in Callers : d # c => pc'[d] = pc[d] /\ hostCall'[d] = hostCall[d]
  BY <1>1, <1>2
<1>5. HostTyped'
  <2>1. /\ pc' \in [Callers -> {"idle", "entered", "cleared", "running", "waiting"}]
        /\ hostCall' \in [Callers -> [kind : Host!Kinds \cup {"none"}, id : HostIds]]
        /\ gate' \in Callers \cup {Host!NoCaller}
    BY <1>1, <1>2, <1>3
  <2>. QED BY <2>1, <1>1 DEF HostInv, HostTyped, Host!TypeOK
<1>6. HostGateHeld'
  <2>. SUFFICES ASSUME NEW d \in Callers
                PROVE  gate' = d <=> (pc'[d] # "idle" /\ hostCall'[d].kind \in Host!Gated)
    BY DEF HostGateHeld
  <2>1. gate = d <=> (pc[d] # "idle" /\ hostCall[d].kind \in Host!Gated)
    BY DEF HostInv, HostGateHeld
  <2>2. CASE d = c
    BY <2>1, <2>2, <1>1, <1>3, <1>4
  <2>3. CASE d # c
    BY <2>1, <2>3, <1>1, <1>3, <1>4 DEF HostApart
  <2>. QED BY <2>2, <2>3
<1>7. HostCallsFit'
  BY <1>1, <1>3, <1>4 DEF HostInv, HostCallsFit
<1>8. HostAttended'
  <2>1. \A w \in works : w.by \in Callers
    BY DEF HostInv, HostTyped
  <2>. QED BY <1>1, <1>4, <2>1 DEF HostInv, HostAttended
<1>9. HostWritesAlone' /\ HostIdsOnce'
  BY <1>1, <1>4 DEF HostInv, HostWritesAlone, HostIdsOnce
<1>. QED BY <1>5, <1>6, <1>7, <1>8, <1>9 DEF HostInv

\* A call that only leaves: it is answered from its receipt, refused, or given up.
LEMMA HostOnlyLeaves ==
    ASSUME HostApart, HostInv, NEW c \in Callers, NEW a, Host!Leave(c, a),
           pc[c] \notin {"idle", "running"}, receipts' = receipts, works' = works
    PROVE  HostInv'
<1>1. /\ pc' \in [Callers -> {"idle", "entered", "cleared", "running", "waiting"}]
      /\ gate' \in Callers \cup {Host!NoCaller}
      /\ hostCall' \in [Callers -> [kind : Host!Kinds \cup {"none"}, id : HostIds]]
      /\ HostGateHeld' /\ pc'[c] = "idle"
      /\ \A d \in Callers : d # c => pc'[d] = pc[d] /\ hostCall'[d] = hostCall[d]
  BY HostLeaves
<1>2. HostTyped'
  BY <1>1 DEF HostInv, HostTyped, Host!TypeOK
<1>3. \A w \in works : w.kind \notin Host!Native => pc'[w.by] = pc[w.by]
  <2>1. \A w \in works : w.by \in Callers
    BY DEF HostInv, HostTyped
  <2>. QED BY <1>1, <2>1 DEF HostInv, HostAttended
<1>4. HostRecedes
  BY <1>1, <1>3 DEF HostRecedes
<1>. QED BY <1>1, <1>2, <1>4, HostReceding

LEMMA HostRefusals ==
    ASSUME HostApart, HostInv, NEW c \in Callers, Host!Repeat(c) \/ Host!Refuse(c) \/ Host!GiveUp(c)
    PROVE  HostInv'
<1>1. PICK a : Host!Leave(c, a)
  BY DEF Host!Repeat, Host!Refuse, Host!GiveUp
<1>2. pc[c] \notin {"idle", "running"} /\ receipts' = receipts /\ works' = works
  BY DEF Host!Repeat, Host!Refuse, Host!GiveUp
<1>. QED BY <1>1, <1>2, HostOnlyLeaves

LEMMA HostCallOf ==
    ASSUME HostInv, NEW c \in Callers, pc[c] # "idle"
    PROVE  /\ hostCall[c].kind \in Host!Kinds /\ hostCall[c].id \in HostIds
           /\ hostCall[c].kind \in Host!Journaled => hostCall[c].id \in RequestIds
BY DEF HostInv, HostCallsFit, HostTyped, HostIds

LEMMA HostClears ==
    ASSUME HostApart, HostInv, NEW c \in Callers, Host!Clear(c)
    PROVE  HostInv'
<1>. DEFINE k == hostCall[c].kind
            i == hostCall[c].id
            receipt == [kind |-> k, state |-> "running"]
<1>1. /\ pc[c] = "entered" /\ ~Host!Fenced(k)
      /\ k \in Host!Journaled => receipts[i] = Host!NoReceipt
      /\ receipts' = IF k \in Host!Journaled THEN [receipts EXCEPT ![i] = receipt] ELSE receipts
      /\ pc' = [pc EXCEPT ![c] = "cleared"]
      /\ hostCall' = hostCall /\ gate' = gate /\ works' = works
  BY DEF Host!Clear
<1>2. /\ pc \in [Callers -> {"idle", "entered", "cleared", "running", "waiting"}]
      /\ receipts \in [RequestIds -> [kind : Host!Journaled \cup {"none"},
                                      state : {"none", "running", "completed", "unknown"}]]
  BY DEF HostInv, HostTyped, Host!TypeOK
<1>3. k \in Host!Kinds /\ i \in HostIds /\ (k \in Host!Journaled <=> i # "none")
    /\ (k \in Host!Journaled => i \in RequestIds)
  BY <1>1, HostCallOf DEF HostInv, HostCallsFit
<1>4. receipt.kind = k
      /\ (k \in Host!Journaled => receipt \in [kind : Host!Journaled \cup {"none"},
                                 state : {"none", "running", "completed", "unknown"}])
  OBVIOUS
<1>5. Host!NoReceipt.kind = "none"
  BY DEF Host!NoReceipt
<1>. HIDE DEF receipt
<1>6. /\ pc'[c] = "cleared"
      /\ \A d \in Callers : d # c => pc'[d] = pc[d]
      /\ \A d \in Callers : pc'[d] # "idle" => pc[d] # "idle"
      /\ \A d \in Callers : pc[d] = "running" => pc'[d] = "running"
  BY <1>1, <1>2
<1>7. \A j \in RequestIds : (receipts[j].kind # "none"
                             \/ j # i) => receipts'[j].kind = receipts[j].kind
  BY <1>1, <1>2, <1>3, <1>5
<1>8. k \in Host!Journaled => receipts'[i].kind = k
  BY <1>1, <1>2, <1>3, <1>4
<1>9. "none" \notin Host!Journaled
  BY DEF Host!Journaled
<1>10. HostTyped'
  <2>1. /\ pc' \in [Callers -> {"idle", "entered", "cleared", "running", "waiting"}]
        /\ receipts' \in [RequestIds -> [kind : Host!Journaled \cup {"none"},
                                      state : {"none", "running", "completed", "unknown"}]]
    BY <1>1, <1>2, <1>3, <1>4
  <2>. QED BY <2>1, <1>1 DEF HostInv, HostTyped, Host!TypeOK
<1>11. HostGateHeld'
  <2>1. \A d \in Callers : pc'[d] # "idle" <=> pc[d] # "idle"
    BY <1>1, <1>6
  <2>. QED BY <2>1, <1>1 DEF HostInv, HostGateHeld
<1>12. HostCallsFit'
  <2>. SUFFICES ASSUME NEW d \in Callers, pc'[d] # "idle"
                PROVE  /\ hostCall'[d].kind \in Host!Kinds
                       /\ hostCall'[d].kind \in Host!Journaled <=> hostCall'[d].id # "none"
                       /\ pc'[d] = "running" => hostCall'[d].kind \notin Host!Native
                       /\ (pc'[d] # "entered" /\ hostCall'[d].kind \in Host!Journaled)
                              => receipts'[hostCall'[d].id].kind = hostCall'[d].kind
    BY DEF HostCallsFit
  <2>1. hostCall'[d] = hostCall[d]
    BY <1>1
  <2>2. CASE d = c
    BY <2>1, <2>2, <1>3, <1>6, <1>8
  <2>3. CASE d # c
    BY <2>1, <2>3, <1>6, <1>7, <1>9, HostCallOf DEF HostInv, HostCallsFit
  <2>. QED BY <2>2, <2>3
<1>13. HostAttended'
  <2>. SUFFICES ASSUME NEW w \in works
                PROVE  /\ w.kind \in Host!Journaled <=> w.id # "none"
                       /\ w.kind \notin Host!Native => (pc'[w.by] = "running"
                                        /\ hostCall'[w.by].kind = w.kind)
                       /\ w.kind \in Host!Journaled => receipts'[w.id].kind = w.kind
    BY <1>1 DEF HostAttended
  <2>1. w.by \in Callers /\ (w.id # "none" => w.id \in RequestIds)
    BY DEF HostInv, HostTyped, HostIds
  <2>. QED BY <2>1, <1>1, <1>6, <1>7, <1>9 DEF HostInv, HostAttended
<1>14. HostWritesAlone'
  <2>1. ASSUME NEW d \in Callers, pc'[d] = "cleared", hostCall'[d].kind \in Host!Gated,
                                      NEW w \in works, w.kind \in Host!Gated
        PROVE  FALSE
    <3>1. CASE d # c
      BY <3>1, <2>1, <1>1, <1>6 DEF HostInv, HostWritesAlone
    <3>2. CASE d = c
      <4>1. k \in Host!Gated /\ w.kind \notin Host!Native
        BY <3>2, <2>1, <1>1 DEF Host!Fenced, Host!Unresolved
      <4>2. pc[w.by] = "running" /\ hostCall[w.by].kind = w.kind /\ w.by \in Callers
        BY <4>1 DEF HostInv, HostAttended, HostTyped
      <4>3. gate = c /\ gate = w.by
        BY <4>1, <4>2, <2>1, <1>1 DEF HostInv, HostGateHeld
      <4>. QED BY <4>2, <4>3, <1>1
    <3>. QED BY <3>1, <3>2
  <2>. QED BY <2>1, <1>1 DEF HostInv, HostWritesAlone
<1>15. HostIdsOnce'
  <2>1. ASSUME i # "none"
        PROVE  /\ \A w \in works : w.id # i
               /\ \A d \in Callers : pc[d] = "cleared" => hostCall[d].id # i
    <3>1. k \in Host!Journaled /\ receipts[i].kind = "none"
      BY <2>1, <1>1, <1>3, <1>5
    <3>2. \A w \in works : w.id # i
      BY <3>1, <1>9, <2>1 DEF HostInv, HostAttended
    <3>3. \A d \in Callers : pc[d] = "cleared" => hostCall[d].id # i
      BY <3>1, <1>9, <2>1 DEF HostInv, HostCallsFit
    <3>. QED BY <3>2, <3>3
  <2>. QED BY <2>1, <1>1, <1>6 DEF HostInv, HostIdsOnce
<1>. QED BY <1>10, <1>11, <1>12, <1>13, <1>14, <1>15 DEF HostInv

\* A cleared call sets to work: in its caller, or natively.
LEMMA HostWorks ==
    ASSUME HostApart, HostInv, NEW c \in Callers, Host!Begin(c) \/ Host!Submit(c)
    PROVE  HostInv'
<1>. DEFINE new == [by |-> c, kind |-> hostCall[c].kind, id |-> hostCall[c].id, state |-> "pending"]
<1>1. /\ pc[c] = "cleared"
      /\ works' = works \cup {new}
      /\ hostCall' = hostCall /\ gate' = gate /\ receipts' = receipts
  BY DEF Host!Begin, Host!Submit
<1>2. \/ hostCall[c].kind \notin Host!Native /\ pc' = [pc EXCEPT ![c] = "running"]
      \/ hostCall[c].kind \in Host!Native /\ pc' = [pc EXCEPT ![c] = "waiting"]
  BY DEF Host!Begin, Host!Submit
<1>3. pc \in [Callers -> {"idle", "entered", "cleared", "running", "waiting"}]
  BY DEF HostInv, HostTyped, Host!TypeOK
<1>4. hostCall[c].kind \in Host!Kinds /\ hostCall[c].id \in HostIds
  BY <1>1, HostCallOf
<1>5. /\ new.by = c /\ new.kind = hostCall[c].kind /\ new.id = hostCall[c].id
                                        /\ new.state = "pending"
      /\ new \in [by : Callers, kind : Host!Kinds, id : HostIds, state : {"pending", "uncertain"}]
  BY <1>4
<1>. HIDE DEF new
<1>6. /\ pc'[c] \in {"running", "waiting"}
      /\ pc'[c] = "running" <=> hostCall[c].kind \notin Host!Native
      /\ \A d \in Callers : d # c => pc'[d] = pc[d]
      /\ pc' \in [Callers -> {"idle", "entered", "cleared", "running", "waiting"}]
  BY <1>2, <1>3
<1>7. HostTyped'
  <2>1. works' \subseteq [by : Callers, kind : Host!Kinds, id : HostIds, state : {"pending",
                          "uncertain"}]
    BY <1>1, <1>5 DEF HostInv, HostTyped
  <2>2. \A w \in works' : w.kind \in Host!Kinds /\ w.state \in {"pending", "uncertain"}
    BY <2>1
  <2>. QED BY <2>1, <2>2, <1>1, <1>6 DEF HostInv, HostTyped, Host!TypeOK
<1>8. HostGateHeld'
  <2>1. \A d \in Callers : pc'[d] # "idle" <=> pc[d] # "idle"
    BY <1>1, <1>6
  <2>. QED BY <2>1, <1>1 DEF HostInv, HostGateHeld
<1>9. HostCallsFit'
  <2>1. \A d \in Callers : pc'[d] # "idle" => pc[d] # "idle"
    BY <1>1, <1>6
  <2>2. \A d \in Callers : pc'[d] # "entered" /\ pc'[d] # "idle" => pc[d] # "entered"
    BY <1>1, <1>6
  <2>. QED BY <2>1, <2>2, <1>1, <1>6 DEF HostInv, HostCallsFit
<1>10. HostAttended'
  <2>. SUFFICES ASSUME NEW w \in works'
                PROVE  /\ w.kind \in Host!Journaled <=> w.id # "none"
                       /\ w.kind \notin Host!Native => (pc'[w.by] = "running"
                                        /\ hostCall'[w.by].kind = w.kind)
                       /\ w.kind \in Host!Journaled => receipts'[w.id].kind = w.kind
    BY DEF HostAttended
  <2>1. CASE w = new
    BY <2>1, <1>1, <1>5, <1>6 DEF HostInv, HostCallsFit
  <2>2. CASE w \in works
    <3>1. w.by \in Callers
      BY <2>2 DEF HostInv, HostTyped
    <3>. QED BY <2>2, <3>1, <1>1, <1>6 DEF HostInv, HostAttended
  <2>. QED BY <2>1, <2>2, <1>1
<1>11. HostWritesAlone'
  <2>1. \A v, w \in works' : v.kind \in Host!Gated /\ w.kind \in Host!Gated => v = w
    BY <1>1, <1>5 DEF HostInv, HostWritesAlone
  <2>2. ASSUME NEW d \in Callers, pc'[d] = "cleared", hostCall'[d].kind \in Host!Gated
        PROVE  \A w \in works' : w.kind \notin Host!Gated
    <3>1. d # c /\ pc[d] = "cleared" /\ hostCall[d].kind \in Host!Gated
      BY <2>2, <1>1, <1>6
    <3>2. hostCall[c].kind \notin Host!Gated
      BY <3>1, <1>1 DEF HostInv, HostGateHeld
    <3>. QED BY <3>1, <3>2, <1>1, <1>5 DEF HostInv, HostWritesAlone
  <2>. QED BY <2>1, <2>2 DEF HostWritesAlone
<1>12. HostIdsOnce'
  <2>1. \A d \in Callers : pc'[d] = "cleared" => d # c /\ pc[d] = "cleared"
    BY <1>6
  <2>2. \A v, w \in works' : v.id # "none" /\ v.id = w.id => v = w
    BY <1>1, <1>5 DEF HostInv, HostIdsOnce
  <2>3. \A d \in Callers : pc'[d] = "cleared" /\ hostCall[d].id # "none" =>
           /\ \A w \in works' : w.id # hostCall[d].id
           /\ \A e \in Callers : pc'[e] = "cleared" /\ e # d => hostCall[e].id # hostCall[d].id
    BY <2>1, <1>1, <1>5 DEF HostInv, HostIdsOnce
  <2>. QED BY <2>2, <2>3, <1>1 DEF HostIdsOnce
<1>. QED BY <1>7, <1>8, <1>9, <1>10, <1>11, <1>12 DEF HostInv

\* A call ends in its caller, or is not even submitted.
LEMMA HostEnds ==
    ASSUME HostApart, HostInv, NEW c \in Callers,
           Host!Unavailable(c) \/ \E o \in {"completed", "unknown"} : Host!Finish(c, o)
    PROVE  HostInv'
<1>1. PICK a : Host!Leave(c, a)
  BY DEF Host!Unavailable, Host!Finish
<1>2. PICK o \in {"completed", "unknown"} : Host!Record(hostCall[c].kind, hostCall[c].id, o)
  BY DEF Host!Unavailable, Host!Finish
<1>3. /\ pc[c] \in {"cleared", "running"}
      /\ works' = works \/ works' = {w \in works : w.by # c \/ w.kind \in Host!Native}
      /\ pc[c] = "running" => works' = {w \in works : w.by # c \/ w.kind \in Host!Native}
  BY DEF Host!Unavailable, Host!Finish
<1>4. /\ pc' \in [Callers -> {"idle", "entered", "cleared", "running", "waiting"}]
      /\ gate' \in Callers \cup {Host!NoCaller}
      /\ hostCall' \in [Callers -> [kind : Host!Kinds \cup {"none"}, id : HostIds]]
      /\ HostGateHeld' /\ pc'[c] = "idle"
      /\ \A d \in Callers : d # c => pc'[d] = pc[d] /\ hostCall'[d] = hostCall[d]
  BY <1>1, <1>3, HostLeaves
<1>5. /\ receipts' \in [RequestIds -> [kind : Host!Journaled \cup {"none"},
                                state : {"none", "running", "completed", "unknown"}]]
      /\ \A i \in RequestIds : receipts'[i].kind = receipts[i].kind
  BY <1>2, <1>3, HostCallOf, HostRecords
<1>6. works' \subseteq works
  BY <1>3
<1>7. HostTyped'
  BY <1>4, <1>5, <1>6 DEF HostInv, HostTyped, Host!TypeOK
<1>8. \A w \in works' : w.kind \notin Host!Native => pc'[w.by] = pc[w.by]
  <2>1. \A w \in works : w.by \in Callers
    BY DEF HostInv, HostTyped
  <2>. QED BY <1>3, <1>4, <1>6, <2>1 DEF HostInv, HostAttended
<1>9. HostRecedes
  BY <1>4, <1>5, <1>6, <1>8 DEF HostRecedes
<1>. QED BY <1>4, <1>7, <1>9, HostReceding

LEMMA HostResolves ==
    ASSUME HostApart, HostInv, NEW w \in works, Host!Resolve(w)
    PROVE  HostInv'
<1>1. /\ w.kind \in Host!Native
      /\ works' = works \ {w}
      /\ Host!Record(w.kind, w.id, "completed")
  BY DEF Host!Resolve
<1>2. w.by \in Callers /\ (w.kind \in Host!Journaled => w.id \in RequestIds)
  BY DEF HostInv, HostTyped, HostAttended, HostIds
<1>3. /\ receipts' \in [RequestIds -> [kind : Host!Journaled \cup {"none"},
                                state : {"none", "running", "completed", "unknown"}]]
      /\ \A i \in RequestIds : receipts'[i].kind = receipts[i].kind
  BY <1>1, <1>2, HostRecords
<1>4. \/ pc[w.by] = "waiting" /\ Host!Leave(w.by, "result")
      \/ pc' = pc /\ hostCall' = hostCall /\ gate' = gate
  BY DEF Host!Resolve, Host!Waits
<1>5. /\ pc' \in [Callers -> {"idle", "entered", "cleared", "running", "waiting"}]
      /\ gate' \in Callers \cup {Host!NoCaller}
      /\ hostCall' \in [Callers -> [kind : Host!Kinds \cup {"none"}, id : HostIds]]
      /\ HostGateHeld'
      /\ \A d \in Callers : \/ pc'[d] = pc[d] /\ hostCall'[d] = hostCall[d]
                            \/ pc'[d] = "idle" /\ pc[d] = "waiting"
  <2>1. CASE pc[w.by] = "waiting" /\ Host!Leave(w.by, "result")
    BY <2>1, <1>2, HostLeaves
  <2>2. CASE pc' = pc /\ hostCall' = hostCall /\ gate' = gate
    BY <2>2 DEF HostInv, HostTyped, Host!TypeOK, HostGateHeld
  <2>. QED BY <1>4, <2>1, <2>2
<1>6. HostTyped'
  BY <1>1, <1>3, <1>5 DEF HostInv, HostTyped, Host!TypeOK
<1>7. \A v \in works' : v.kind \notin Host!Native => pc'[v.by] = pc[v.by]
  <2>1. \A v \in works : v.by \in Callers
    BY DEF HostInv, HostTyped
  <2>. QED BY <1>1, <1>5, <2>1 DEF HostInv, HostAttended
<1>8. HostRecedes
  BY <1>1, <1>3, <1>5, <1>7 DEF HostRecedes
<1>. QED BY <1>5, <1>6, <1>8, HostReceding

LEMMA HostRetires ==
    ASSUME HostApart, HostInv, Host!Retire
    PROVE  HostInv'
<1>1. /\ works' \subseteq works
      /\ pc' = pc /\ hostCall' = hostCall /\ gate' = gate /\ receipts' = receipts
  BY DEF Host!Retire
<1>2. HostTyped' /\ HostGateHeld'
  BY <1>1 DEF HostInv, HostTyped, Host!TypeOK, HostGateHeld
<1>3. HostRecedes
  BY <1>1 DEF HostRecedes
<1>. QED BY <1>2, <1>3, HostReceding

\* A broken connection: its work stays in the world, its callers leave.
LEMMA HostBreaks ==
    ASSUME HostApart, HostInv, Host!Break
    PROVE  HostInv'
<1>. DEFINE cut == {w \in works : w.kind \in Host!Native /\ w.state = "pending"}
            leaves == {c \in Callers : \E w \in cut : w.by = c /\ Host!Waits(w)}
            after(w) == [w EXCEPT !.state = "uncertain"]
<1>1. /\ works' = (works \ cut) \cup {after(w) : w \in cut}
      /\ receipts' = [i \in RequestIds |->
            IF /\ receipts[i].state = "running"
               /\ \E w \in cut : w.id = i /\ w.kind \in Host!Journaled
            THEN [receipts[i] EXCEPT !.state = "unknown"] ELSE receipts[i]]
      /\ pc' = [c \in Callers |-> IF c \in leaves THEN "idle" ELSE pc[c]]
      /\ hostCall' = [c \in Callers |-> IF c \in leaves THEN Host!NoCall ELSE hostCall[c]]
      /\ gate' = IF gate \in leaves THEN Host!NoCaller ELSE gate
  BY DEF Host!Break
<1>2. works \subseteq [by : Callers, kind : Host!Kinds, id : HostIds, state : {"pending",
                       "uncertain"}]
  BY DEF HostInv, HostTyped
<1>3. \A w \in cut : /\ after(w) \in [by : Callers, kind : Host!Kinds, id : HostIds,
                                 state : {"pending", "uncertain"}]
                        /\ after(w).by = w.by /\ after(w).kind = w.kind /\ after(w).id = w.id
  BY <1>2
<1>4. \A c \in leaves : c \in Callers /\ pc[c] = "waiting"
  BY DEF Host!Waits
<1>5. cut \subseteq works /\ \A w \in cut : w.kind \in Host!Native
  OBVIOUS
<1>6. \A i \in RequestIds :
         /\ receipts'[i] \in [kind : Host!Journaled \cup {"none"},
                              state : {"none", "running", "completed", "unknown"}]
         /\ receipts'[i].kind = receipts[i].kind
  <2>. SUFFICES ASSUME NEW i \in RequestIds
                PROVE  /\ receipts'[i] \in [kind : Host!Journaled \cup {"none"},
                                            state : {"none", "running", "completed", "unknown"}]
                       /\ receipts'[i].kind = receipts[i].kind
    OBVIOUS
  <2>1. receipts[i] \in [kind : Host!Journaled \cup {"none"},
                         state : {"none", "running", "completed", "unknown"}]
    BY DEF HostInv, HostTyped
  <2>2. receipts'[i] \in {receipts[i], [receipts[i] EXCEPT !.state = "unknown"]}
    <3>. HIDE DEF cut
    <3>. QED BY <1>1
  <2>3. /\ [receipts[i] EXCEPT !.state = "unknown"] \in [kind : Host!Journaled \cup {"none"},
                              state : {"none", "running", "completed", "unknown"}]
        /\ [receipts[i] EXCEPT !.state = "unknown"].kind = receipts[i].kind
    BY <2>1
  <2>. QED BY <2>1, <2>2, <2>3
<1>. HIDE DEF cut, leaves, after
<1>7. \A c \in Callers : /\ c \in leaves => pc'[c] = "idle" /\ hostCall'[c] = Host!NoCall
                         /\ c \notin leaves => pc'[c] = pc[c] /\ hostCall'[c] = hostCall[c]
  BY <1>1
\* Every piece of work there is was there, under the same name.
<1>8. \A w \in works' : \E v \in works : /\ w.by = v.by /\ w.kind = v.kind /\ w.id = v.id
                                         /\ w = IF v \in cut THEN after(v) ELSE v
  BY <1>1, <1>3, <1>5
<1>9. HostTyped'
  <2>1. works' \subseteq [by : Callers, kind : Host!Kinds, id : HostIds, state : {"pending",
                          "uncertain"}]
    BY <1>1, <1>2, <1>3
  <2>2. \A w \in works' : w.kind \in Host!Kinds /\ w.state \in {"pending", "uncertain"}
    BY <2>1
  <2>3. /\ pc' \in [Callers -> {"idle", "entered", "cleared", "running", "waiting"}]
        /\ gate' \in Callers \cup {Host!NoCaller}
    BY <1>1 DEF HostInv, HostTyped, Host!TypeOK
  <2>4. Host!NoCall \in [kind : Host!Kinds \cup {"none"}, id : HostIds]
    BY DEF Host!NoCall, HostIds
  <2>5. hostCall' \in [Callers -> [kind : Host!Kinds \cup {"none"}, id : HostIds]]
    BY <1>1, <2>4 DEF HostInv, HostTyped
  <2>6. receipts' \in [RequestIds -> [kind : Host!Journaled \cup {"none"},
                                      state : {"none", "running", "completed", "unknown"}]]
    <3>1. receipts' = [i \in RequestIds |-> receipts'[i]]
      BY <1>1
    <3>. QED BY <3>1, <1>6
  <2>. QED BY <2>1, <2>2, <2>3, <2>5, <2>6 DEF HostTyped, Host!TypeOK
<1>10. HostGateHeld'
  <2>. SUFFICES ASSUME NEW d \in Callers
                PROVE  gate' = d <=> (pc'[d] # "idle" /\ hostCall'[d].kind \in Host!Gated)
    BY DEF HostGateHeld
  <2>1. gate = d <=> (pc[d] # "idle" /\ hostCall[d].kind \in Host!Gated)
    BY DEF HostInv, HostGateHeld
  <2>2. CASE d \in leaves
    BY <2>2, <1>1, <1>7 DEF HostApart
  <2>3. CASE d \notin leaves
    BY <2>1, <2>3, <1>1, <1>7 DEF HostApart
  <2>. QED BY <2>2, <2>3
<1>11. HostCallsFit'
  <2>1. \A c \in Callers : pc'[c] # "idle" => pc'[c] = pc[c] /\ hostCall'[c] = hostCall[c]
    BY <1>7
  <2>2. \A c \in Callers : hostCall[c].id # "none" => hostCall[c].id \in RequestIds
    BY DEF HostInv, HostTyped, HostIds
  <2>. QED BY <2>1, <2>2, <1>6 DEF HostInv, HostCallsFit
<1>12. HostAttended'
  <2>. SUFFICES ASSUME NEW w \in works'
                PROVE  /\ w.kind \in Host!Journaled <=> w.id # "none"
                       /\ w.kind \notin Host!Native => (pc'[w.by] = "running"
                                        /\ hostCall'[w.by].kind = w.kind)
                       /\ w.kind \in Host!Journaled => receipts'[w.id].kind = w.kind
    BY DEF HostAttended
  <2>1. PICK v \in works : w.by = v.by /\ w.kind = v.kind /\ w.id = v.id
    BY <1>8
  <2>2. v.by \in Callers /\ (v.id # "none" => v.id \in RequestIds)
    BY <1>2 DEF HostIds
  <2>3. v.kind \notin Host!Native => v.by \notin leaves
    BY <1>4 DEF HostInv, HostAttended
  <2>. QED BY <2>1, <2>2, <2>3, <1>6, <1>7 DEF HostInv, HostAttended
<1>13. \A c \in Callers : pc'[c] = "cleared" => pc[c] = "cleared" /\ hostCall'[c] = hostCall[c]
  BY <1>7
<1>14. HostWritesAlone'
  BY <1>8, <1>13 DEF HostInv, HostWritesAlone
<1>15. HostIdsOnce'
  BY <1>8, <1>13 DEF HostInv, HostIdsOnce
<1>. QED BY <1>9, <1>10, <1>11, <1>12, <1>14, <1>15 DEF HostInv

LEMMA HostPreserved ==
    ASSUME HostApart, HostInv, [Host!Next]_hostVars
    PROVE  HostInv'
<1>1. CASE \E c \in Callers, k \in Host!Kinds, i \in RequestIds \cup {"none"} :
              (k \in Host!Journaled => i # "none") /\ Host!Enter(c, k, i)
  BY <1>1, HostEnters DEF HostIds
<1>2. CASE \E c \in Callers : Host!Repeat(c) \/ Host!Refuse(c) \/ Host!GiveUp(c)
  BY <1>2, HostRefusals
<1>3. CASE \E c \in Callers : Host!Clear(c)
  BY <1>3, HostClears
<1>4. CASE \E c \in Callers : Host!Begin(c) \/ Host!Submit(c)
  BY <1>4, HostWorks
<1>5. CASE \E c \in Callers : Host!Unavailable(c) \/ \E o \in {"completed",
                                        "unknown"} : Host!Finish(c, o)
  BY <1>5, HostEnds
<1>6. CASE \E w \in works : Host!Resolve(w)
  BY <1>6, HostResolves
<1>7. CASE Host!Break
  BY <1>7, HostBreaks
<1>8. CASE Host!Retire
  BY <1>8, HostRetires
<1>9. CASE UNCHANGED hostVars
  BY <1>9 DEF hostVars, HostInv, HostTyped, Host!TypeOK, HostGateHeld, HostCallsFit, HostAttended,
      HostWritesAlone, HostIdsOnce
<1>. QED BY <1>1, <1>2, <1>3, <1>4, <1>5, <1>6, <1>7, <1>8, <1>9 DEF Host!Next

LEMMA HostCardinality == \A S : Host!Cardinality(S) = Cardinality(S)
BY DEF Host!Cardinality, Cardinality

LEMMA HostImplies ==
    ASSUME HostApart, HostInv
    PROVE  Host!TypeOK /\ Host!OneWriteAtATime
<1>1. Cardinality({w \in works : w.kind \in Host!Gated}) <= 1
  BY AtMostOne DEF HostInv, HostWritesAlone
<1>2. \A i \in RequestIds : Cardinality({w \in works : w.id = i}) <= 1
  BY AtMostOne DEF HostInv, HostIdsOnce, HostApart
<1>3. \A w \in works : w.kind \in Host!Journaled => receipts[w.id].kind = w.kind
  BY DEF HostInv, HostAttended
<1>. QED BY <1>1, <1>2, <1>3, HostCardinality DEF HostInv, HostTyped, Host!OneWriteAtATime

-----------------------------------------------------------------------------
(* How a message is answered by the two transports (RpcFront).                *)

\* Both transports answer the same message, which does not change.
FrontInv ==
    frontTrouble = "nothing" =>
        /\ message \in Front!Messages /\ headers \in Front!Headers
        /\ \/ http = Front!NoReply /\ stdio = Front!Silence
           \/ http = Front!Post(message, headers) /\ stdio = Front!Stdio(message)

LEMMA FrontInit == Front!Init => FrontInv
<1> SUFFICES ASSUME Front!Init PROVE FrontInv
  OBVIOUS
<1>1. "nothing" \notin DOMAIN Front!Refusals \cup Front!Verbs
  BY DEF Front!Refusals, Front!Verbs
<1> QED BY <1>1 DEF FrontInv, Front!Init

LEMMA FrontPreserved ==
    ASSUME FrontInv, [Front!Next]_frontVars
    PROVE  FrontInv'
<1> USE DEF FrontInv
<1>0. "nothing" \notin DOMAIN Front!Refusals \cup Front!Verbs
  BY DEF Front!Refusals, Front!Verbs
<1>1. CASE Front!Exchange
  BY <1>1 DEF Front!Exchange
<1>2. CASE Front!Refuse
  BY <1>0, <1>2 DEF Front!Refuse
<1>3. ASSUME NEW path \in Front!Paths, NEW f \in BOOLEAN, NEW a \in BOOLEAN,
             Front!Other(path, f, a)
      PROVE  FrontInv'
  BY <1>0, <1>3 DEF Front!Other
<1>4. CASE UNCHANGED frontVars
  BY <1>4 DEF frontVars
<1> QED BY <1>1, <1>2, <1>3, <1>4 DEF Front!Next

\* An answered message with an outcome that is an error code: what each
\* transport says of it.
FrontCodes == {0, 1, 2, 32600, 32601, 32602, 32022}

LEMMA FrontOutcome ==
    ASSUME NEW m \in Front!Messages
    PROVE  /\ Front!Handled(m) \in FrontCodes /\ Front!Outcome(m) \in FrontCodes
           /\ Front!Era(m) \in {"modern", "legacy"}
           /\ Front!Era(m) = "modern" => m.params.kind = "meta"
           /\ m.params.kind = "meta" => Front!MetaFault(m.params) \in {0, 32602, 32022}
<1> USE DEF FrontCodes
<1>1. /\ m.ending \in Front!Endings
      /\ m.params \in Front!Params
  BY DEF Front!Messages
<1>2. Front!Handled(m) \in FrontCodes
  <2>1. Front!Asked(m) \in FrontCodes
    BY <1>1 DEF Front!Asked, Front!Endings
  <2> QED BY <2>1 DEF Front!Handled
<1>3. m.params.kind = "meta" => m.params.version \in Front!MetaVersions
  BY <1>1 DEF Front!Params
<1>4. m.params.kind = "meta" => Front!MetaFault(m.params) \in {0, 32602, 32022}
  BY <1>3 DEF Front!MetaFault, Front!MetaVersions
<1>5. /\ Front!Era(m) \in {"modern", "legacy"}
      /\ Front!Era(m) = "modern" => m.params.kind = "meta"
  BY DEF Front!Era
<1>6. Front!Outcome(m) \in FrontCodes
  BY <1>2, <1>4, <1>5 DEF Front!Outcome
<1> QED BY <1>2, <1>4, <1>5, <1>6

\* Over HTTP, a message that mirrors its headers gets the dispatcher's verdict.
LEMMA FrontFaithful ==
    ASSUME NEW m \in Front!Messages, NEW h \in Front!Headers,
           Front!Faithful(m, h), ~Front!Raises(m)
    PROVE  Front!Post(m, h).body = Front!Stdio(m)
<1> DEFINE out == Front!Outcome(m)
<1>1. Front!Stdio(m) = Front!Dispatched(m) /\ Front!Handle(m) = Front!Dispatched(m)
  BY DEF Front!Stdio, Front!Handle
<1>2. CASE ~Front!EnvelopeOk(m)
  BY <1>1, <1>2 DEF Front!Post, Front!Dispatched, Front!Reply
<1>3. CASE Front!EnvelopeOk(m) /\ Front!Era(m) = "modern" /\ Front!BodyRefused(m, h)
  <2>1. /\ m.params.kind = "meta" /\ Front!MetaFault(m.params) \in {32602, 32022}
        /\ m.id # "absent" /\ ~h.twice
    BY <1>3, FrontOutcome DEF Front!BodyRefused, Front!Faithful
  <2>2. out = Front!MetaFault(m.params)
    BY <1>3, <2>1 DEF Front!Outcome
  <2>3. Front!Dispatched(m) = Front!Fault(Front!MetaFault(m.params), Front!ResponseId(m))
    BY <1>3, <2>1, <2>2 DEF Front!Dispatched, Front!Silenced
  <2>4. Front!Post(m, h).body = Front!Fault(Front!MetaFault(m.params), Front!ResponseId(m))
    BY <1>3, <2>1 DEF Front!Post, Front!Reply
  <2> QED BY <1>1, <2>3, <2>4
<1>4. CASE Front!EnvelopeOk(m) /\ ~(Front!Era(m) = "modern" /\ Front!BodyRefused(m, h))
  <2>1. /\ ~(Front!Era(m) = "modern" /\ h.twice)
        /\ ~(Front!Era(m) = "legacy" /\ h.version = "unknown")
        /\ Front!Mirrored(m, h)
    BY FrontOutcome DEF Front!Faithful, Front!Mirrored
  <2>2. Front!Post(m, h).body = Front!Handle(m)
    BY <1>4, <2>1 DEF Front!Post, Front!Reply
  <2> QED BY <1>1, <2>2
<1> QED BY <1>2, <1>3, <1>4

\* A wrong body gets it whatever single headers surround it.
LEMMA FrontWrongBody ==
    ASSUME NEW m \in Front!Messages, NEW h \in Front!Headers,
           Front!EnvelopeOk(m), m.id # "absent", Front!Era(m) = "modern", ~h.twice,
           Front!MetaFault(m.params) # 0
    PROVE  Front!Post(m, h).body = Front!Stdio(m)
<1>1. m.params.kind = "meta" /\ Front!MetaFault(m.params) \in {32602, 32022}
  BY FrontOutcome
<1>2. Front!Outcome(m) = Front!MetaFault(m.params)
  BY <1>1 DEF Front!Outcome
<1>3. Front!Stdio(m) = Front!Fault(Front!MetaFault(m.params), Front!ResponseId(m))
  BY <1>1, <1>2 DEF Front!Stdio, Front!Raises, Front!Dispatched, Front!Silenced
<1>4. Front!Post(m, h).body = Front!Fault(Front!MetaFault(m.params), Front!ResponseId(m))
  BY <1>1 DEF Front!Post, Front!BodyRefused, Front!Reply
<1> QED BY <1>3, <1>4

\* Over stdio a notification is not answered, and an answer bears its id.
LEMMA FrontIds ==
    ASSUME NEW m \in Front!Messages
    PROVE  /\ Front!EnvelopeOk(m) /\ m.id = "absent" => Front!Stdio(m) = Front!Silence
           /\ m.id = "given" => \/ Front!Stdio(m).kind = "silence"
                                \/ Front!Stdio(m).id = "given"
BY SMT DEF Front!Stdio, Front!Raises, Front!Dispatched, Front!Silenced, Front!Silence,
       Front!Fault, Front!Answer, Front!ResponseId

LEMMA FrontImplies == FrontInv => Front!OneVerdict
<1> SUFFICES ASSUME FrontInv, Front!Exchanged PROVE Front!OneVerdict
  BY DEF Front!OneVerdict
<1>1. /\ message \in Front!Messages /\ headers \in Front!Headers
      /\ http = Front!Post(message, headers) /\ stdio = Front!Stdio(message)
  BY DEF FrontInv, Front!Exchanged
<1> QED BY <1>1, FrontFaithful, FrontWrongBody, FrontIds DEF Front!OneVerdict

-----------------------------------------------------------------------------
(* Counting.  The least number of a finite set is the code that goes first    *)
(* when there is no room (OAuthCodes), and what a sum rests on (FileTransfer, *)
(* Telemetry): it is defined by a fold, which is the only solution of its     *)
(* equations.  A count of pairs solves them too, and needs no induction.      *)

\* A finite set of numbers that is not empty has a least one: otherwise each has
\* a number below it, so that two have as many below them, and one is below the other.
LEMMA FewerBelow ==
    ASSUME NEW I \in SUBSET Nat, IsFiniteSet(I), NEW n \in I, NEW m \in I, m < n
    PROVE  Cardinality({k \in I : k < m}) # Cardinality({k \in I : k < n})
<1>1. PICK S, T : S = {k \in I : k < m} /\ T = {k \in I : k < n}
  OBVIOUS
<1>2. T \in SUBSET I /\ m \in T /\ m \notin S
  BY <1>1
<1>3. \A k \in S : k \in I /\ k < m /\ k < n
  BY <1>1
<1>4. S \in SUBSET T
  BY <1>1, <1>3
<1>5. IsFiniteSet(T)
  BY <1>2, FS_Subset
<1>6. Cardinality(S) = Cardinality(T) => S = T
  BY <1>4, <1>5, FS_Subset
<1> QED BY <1>1, <1>2, <1>6

LEMMA Least ==
    ASSUME NEW I \in SUBSET Nat, IsFiniteSet(I), I # {}
    PROVE  \E n \in I : \A m \in I : n <= m
<1>1. SUFFICES ASSUME \A n \in I : \E m \in I : m < n
               PROVE  FALSE
  OBVIOUS
<1>2. PICK rank : rank = [n \in I |-> Cardinality({k \in I : k < n})]
  OBVIOUS
<1>3. PICK many \in Nat : many = Cardinality(I)
  BY FS_CardinalityType
<1>4. ASSUME NEW n \in I PROVE rank[n] \in 1 .. many - 1
  <2>1. PICK S : S = {k \in I : k < n}
    OBVIOUS
  <2>2. S \in SUBSET I /\ n \notin S /\ S # {} /\ rank[n] = Cardinality(S)
    BY <1>1, <1>2, <2>1
  <2>3. IsFiniteSet(S) /\ Cardinality(S) <= many /\ (Cardinality(S) = many => S = I)
    BY <1>3, <2>2, FS_Subset
  <2>4. Cardinality(S) \in Nat /\ Cardinality(S) # 0
    BY <2>2, <2>3, FS_CardinalityType, FS_EmptySet
  <2> QED BY <2>2, <2>3, <2>4
<1>5. many # 0
  BY <1>3, FS_EmptySet
<1>6. IsFiniteSet(1 .. many - 1) /\ Cardinality(1 .. many - 1) < many
  <2>1. many - 1 \in Int /\ 1 \in Int
    OBVIOUS
  <2>2. IsFiniteSet(1 .. many - 1)
          /\ Cardinality(1 .. many - 1) = IF 1 > many - 1 THEN 0 ELSE many - 1 - 1 + 1
    BY <2>1, FS_Interval
  <2> QED BY <1>5, <2>2
<1>7. rank \in [I -> 1 .. many - 1]
  BY <1>2, <1>4
<1>8. PICK n, m \in I : n # m /\ rank[n] = rank[m]
  BY <1>3, <1>6, <1>7, FS_PigeonHole
<1>9. n < m \/ m < n
  BY <1>8
<1> QED BY <1>2, <1>8, <1>9, FewerBelow

\* As many pairs as the numbers f gives the members of S come to.
Tally(f, S) == {p \in S \X Nat : 1 <= p[2] /\ p[2] <= f[p[1]]}
SumOf(f, S) == Cardinality(Tally(f, S))

LEMMA CountUpTo ==
    ASSUME NEW n \in Nat
    PROVE  IsFiniteSet(1 .. n) /\ Cardinality(1 .. n) = n
<1>1. 1 \in Int /\ n \in Int
  OBVIOUS
<1>2. IsFiniteSet(1 .. n) /\ Cardinality(1 .. n) = IF 1 > n THEN 0 ELSE n - 1 + 1
  BY <1>1, FS_Interval
<1> QED BY <1>2

LEMMA TallyFinite ==
    ASSUME NEW S, IsFiniteSet(S), NEW f, \A x \in S : f[x] \in Nat
    PROVE  IsFiniteSet(Tally(f, S))
<1> DEFINE Row(x) == {x} \X (1 .. f[x])
<1>1. ASSUME NEW x \in S PROVE IsFiniteSet(Row(x))
  <2>1. IsFiniteSet({x}) /\ IsFiniteSet(1 .. f[x])
    BY FS_Singleton, CountUpTo
  <2> QED BY <2>1, FS_Product
<1>2. IsFiniteSet({Row(x) : x \in S})
  <2>1. PICK rows : rows = [x \in S |-> Row(x)]
    OBVIOUS
  <2>2. rows \in Surjection(S, {Row(x) : x \in S})
    BY <2>1 DEF Surjection
  <2> QED BY <2>2, FS_Surjection
<1>3. IsFiniteSet(UNION {Row(x) : x \in S})
  BY <1>1, <1>2, FS_UNION
<1>4. Tally(f, S) = UNION {Row(x) : x \in S}
  BY DEF Tally
<1> QED BY <1>3, <1>4

LEMMA TallyStep ==
    ASSUME NEW S, NEW f, NEW x \in S, f[x] \in Nat, IsFiniteSet(Tally(f, S \ {x}))
    PROVE  SumOf(f, S) = f[x] + SumOf(f, S \ {x})
<1>1. PICK n \in Nat : n = f[x]
  OBVIOUS
<1>2. PICK P : P = {x} \X (1 .. n)
  OBVIOUS
<1>3. IsFiniteSet(P) /\ Cardinality(P) = n
  <2>1. IsFiniteSet(1 .. n) /\ Cardinality(1 .. n) = n
    BY CountUpTo
  <2>2. IsFiniteSet({x}) /\ Cardinality({x}) = 1
    BY FS_Singleton
  <2>3. IsFiniteSet(P) /\ Cardinality(P) = 1 * n
    BY <1>2, <2>1, <2>2, FS_Product
  <2> QED BY <1>1, <2>3
<1>4. Tally(f, S) = Tally(f, S \ {x}) \cup P
  BY <1>1, <1>2 DEF Tally
<1>5. Tally(f, S \ {x}) \cap P = {}
  BY <1>2 DEF Tally
<1>6. Cardinality(Tally(f, S)) = Cardinality(Tally(f, S \ {x})) + Cardinality(P) - Cardinality({})
  BY <1>3, <1>4, <1>5, FS_Union
<1>7. Cardinality({}) = 0 /\ Cardinality(Tally(f, S \ {x})) \in Nat
  BY FS_EmptySet, FS_CardinalityType
<1> QED BY <1>1, <1>3, <1>6, <1>7 DEF SumOf

LEMMA SumType ==
    ASSUME NEW S, IsFiniteSet(S), NEW f, \A x \in S : f[x] \in Nat
    PROVE  SumOf(f, S) \in Nat
BY TallyFinite, FS_CardinalityType DEF SumOf

LEMMA SumEmpty == \A f : SumOf(f, {}) = 0
<1>1. \A f : Tally(f, {}) = {}
  BY DEF Tally
<1> QED BY <1>1, FS_EmptySet DEF SumOf

LEMMA SumRemove ==
    ASSUME NEW S, IsFiniteSet(S), NEW f, \A x \in S : f[x] \in Nat, NEW x \in S
    PROVE  SumOf(f, S) = f[x] + SumOf(f, S \ {x})
<1>1. IsFiniteSet(S \ {x})
  BY FS_RemoveElement
<1>2. IsFiniteSet(Tally(f, S \ {x}))
  BY <1>1, TallyFinite
<1> QED BY <1>2, TallyStep

LEMMA SumSubset ==
    ASSUME NEW S, IsFiniteSet(S), NEW f, \A x \in S : f[x] \in Nat, NEW T \in SUBSET S
    PROVE  SumOf(f, T) <= SumOf(f, S)
<1>1. Tally(f, T) \in SUBSET Tally(f, S)
  BY DEF Tally
<1> QED BY <1>1, TallyFinite, FS_Subset DEF SumOf

LEMMA SumSame ==
    ASSUME NEW S, NEW f, NEW g, \A x \in S : f[x] = g[x]
    PROVE  SumOf(f, S) = SumOf(g, S)
<1>1. Tally(f, S) = Tally(g, S)
  BY DEF Tally
<1> QED BY <1>1 DEF SumOf

\* What the fold computes at a set, given what it computes at smaller ones.
Adds(f, S, h) == h = [s \in SUBSET S |-> IF s = {} THEN 0
                 ELSE f[CHOOSE x \in s : TRUE] + h[s \ {CHOOSE x \in s : TRUE}]]

LEMMA SumSolves ==
    ASSUME NEW S, IsFiniteSet(S), NEW f, \A x \in S : f[x] \in Nat
    PROVE  Adds(f, S, [s \in SUBSET S |-> SumOf(f, s)])
<1> DEFINE g == [s \in SUBSET S |-> SumOf(f, s)]
<1>1. ASSUME NEW s \in SUBSET S
      PROVE  g[s] = IF s = {} THEN 0
                 ELSE f[CHOOSE x \in s : TRUE] + g[s \ {CHOOSE x \in s : TRUE}]
  <2>1. CASE s = {}
    BY <2>1, SumEmpty
  <2>2. CASE s # {}
    <3>1. PICK x : x = CHOOSE y \in s : TRUE
      OBVIOUS
    <3>2. x \in s
      BY <2>2, <3>1
    <3>3. IsFiniteSet(s) /\ \A y \in s : f[y] \in Nat
      BY FS_Subset
    <3>4. SumOf(f, s) = f[x] + SumOf(f, s \ {x})
      BY <3>2, <3>3, SumRemove
    <3>5. s \ {x} \in SUBSET S
      OBVIOUS
    <3>6. g[s] = f[x] + g[s \ {x}]
      BY <3>4, <3>5
    <3> QED BY <2>2, <3>1, <3>6
  <2> QED BY <2>1, <2>2
<1>2. g = [s \in SUBSET S |-> IF s = {} THEN 0
                 ELSE f[CHOOSE x \in s : TRUE] + g[s \ {CHOOSE x \in s : TRUE}]]
  BY <1>1
<1> HIDE DEF g
<1> QED BY <1>2 DEF Adds, g

LEMMA OneSolution ==
    ASSUME NEW S, IsFiniteSet(S), NEW f, NEW g, NEW h, Adds(f, S, g), Adds(f, S, h)
    PROVE  g[S] = h[S]
<1>1. SUFFICES ASSUME g[S] # h[S] PROVE FALSE
  OBVIOUS
<1> DEFINE Off == {s \in SUBSET S : g[s] # h[s]}
<1>2. \A s \in SUBSET S : IsFiniteSet(s) /\ Cardinality(s) \in Nat
                            /\ Cardinality(s) <= Cardinality(S)
  BY FS_Subset, FS_CardinalityType
<1> DEFINE I == {Cardinality(s) : s \in Off}
<1>3. I \in SUBSET Nat /\ I # {}
  BY <1>1, <1>2
<1>4. IsFiniteSet(I)
  <2>1. PICK n \in Nat : n = Cardinality(S)
    BY <1>2
  <2>2. IsFiniteSet(0 .. n)
    BY FS_Interval
  <2>3. I \in SUBSET (0 .. n)
    BY <1>2, <2>1
  <2> QED BY <2>2, <2>3, FS_Subset
<1>5. PICK s \in Off : \A u \in Off : Cardinality(s) <= Cardinality(u)
  <2>1. PICK n \in I : \A m \in I : n <= m
    BY <1>3, <1>4, Least
  <2> QED BY <2>1
<1>6. s \in SUBSET S /\ g[s] # h[s]
  OBVIOUS
<1>7. s # {}
  BY <1>6 DEF Adds
<1>8. PICK x : x = CHOOSE y \in s : TRUE
  OBVIOUS
<1>9. x \in s
  BY <1>7, <1>8
<1>10. g[s] = f[x] + g[s \ {x}] /\ h[s] = f[x] + h[s \ {x}]
  BY <1>6, <1>7, <1>8 DEF Adds
<1>11. s \ {x} \in Off
  BY <1>6, <1>10
<1>12. Cardinality(s \ {x}) = Cardinality(s) - 1
  BY <1>2, <1>6, <1>9, FS_RemoveElement
<1>13. Cardinality(s) <= Cardinality(s \ {x}) /\ Cardinality(s) \in Nat
  BY <1>2, <1>5, <1>6, <1>11
<1> QED BY <1>12, <1>13

LEMMA SolutionIsSum ==
    ASSUME NEW S, IsFiniteSet(S), NEW f, NEW h, \A x \in S : f[x] \in Nat, Adds(f, S, h)
    PROVE  h[S] = SumOf(f, S)
<1>1. PICK g : g = [s \in SUBSET S |-> SumOf(f, s)]
  OBVIOUS
<1>2. Adds(f, S, g)
  BY <1>1, SumSolves
<1>3. g[S] = h[S]
  BY <1>2, OneSolution
<1> QED BY <1>1, <1>3

LEMMA FoldIsSum ==
    ASSUME NEW S, IsFiniteSet(S), NEW f, \A x \in S : f[x] \in Nat
    PROVE  (CHOOSE h : Adds(f, S, h))[S] = SumOf(f, S)
<1>1. Adds(f, S, [s \in SUBSET S |-> SumOf(f, s)])
  BY SumSolves
<1>2. PICK h : h = CHOOSE k : Adds(f, S, k)
  OBVIOUS
<1>3. Adds(f, S, h)
  BY <1>1, <1>2
<1> QED BY <1>2, <1>3, SolutionIsSum

-----------------------------------------------------------------------------
(* Uploads and downloads (FileTransfer). *)

TransferApart == {"nobody", "others"} \cap Transfers = {}
TransferBounded ==
    {MaxFile, MaxTrouble, MaxStored, MaxPerPeer} \subseteq Nat /\ IsFiniteSet(Transfers)

TransferTyped ==
    /\ transferTransfer \in
         [Transfers -> {"free", "upload", "download", "committed", "over"}]
    /\ peer \in [Transfers -> Peers]
    /\ size \in [Transfers -> 0 .. MaxFile] /\ sent \in [Transfers -> 0 .. MaxFile]
    /\ wrong \subseteq Transfers /\ expired \subseteq Transfers
    /\ recorded \subseteq Transfers /\ orphan \subseteq Transfers
    /\ moved \subseteq Transfers
    /\ orphanIs \in {"absent", "fresh", "old", "unknown"}
    /\ target \in Transfers \cup {"nobody", "others"}
    /\ transferTrouble \in 0 .. MaxTrouble

\* An upload that a commit has under way stays complete and right: the lock is held.
TransferCommits ==
    \/ committing = <<"idle", "nobody">>
    \/ \E t \in Transfers :
          /\ committing \in {<<"checked", t>>, <<"linked", t>>}
          /\ transferTransfer[t] = "upload" /\ sent[t] = size[t] /\ t \notin wrong

TransferSteady == TransferTyped /\ TransferCommits

\* The bytes recorded and those of the orphan are within the limit together, an
\* unfinished transfer is recorded, and one that has not begun is nowhere.
TransferKeeps ==
    /\ SumOf(size, recorded) + SumOf(size, orphan) <= MaxStored
    /\ \A t \in Transfers :
          /\ transferTransfer[t] \in {"upload", "download"} => t \in recorded
          /\ transferTransfer[t] = "free" => t \notin recorded \cup orphan

\* What an owner holds of the server at once.
Holds(o, kinds, owners) ==
    {t \in Transfers : kinds[t] \in {"upload", "download", "committed"} /\ owners[t] = o}
TransferShares == \A o \in Peers : Cardinality(Holds(o, transferTransfer, peer)) <= MaxPerPeer

TransferInv == TransferSteady /\ TransferKeeps /\ TransferShares

LEMMA TransferInitSteady ==
    ASSUME TransferBounded, Transfer!Init
    PROVE  TransferSteady
<1>1. TransferTyped
  BY DEF Transfer!Init, TransferTyped, TransferBounded, Transfer!Nobody
<1>2. TransferCommits
  BY DEF Transfer!Init, TransferCommits, Transfer!Idle, Transfer!Nobody
<1> QED BY <1>1, <1>2 DEF TransferSteady

\* Of what goes wrong, one thing more at most.
LEMMA TransferTroubles ==
    ASSUME TransferTyped, TransferBounded, UNCHANGED transferTrouble \/ Transfer!Trouble
    PROVE  transferTrouble' \in 0 .. MaxTrouble
BY DEF TransferTyped, TransferBounded, Transfer!Trouble

\* A staged file is removed, or is left.
LEMMA TransferRemoves ==
    ASSUME TransferTyped, NEW t \in Transfers, Transfer!RemoveStaged(t)
    PROVE  recorded' \subseteq Transfers /\ (UNCHANGED transferTrouble \/ Transfer!Trouble)
BY DEF TransferTyped, Transfer!RemoveStaged, Transfer!Trouble

\* While no commit is under way, the staged files may change.
LEMMA TransferIdle ==
    ASSUME committing = Transfer!Idle, UNCHANGED committing
    PROVE  TransferCommits'
BY DEF TransferCommits, Transfer!Idle, Transfer!Nobody

\* While one is, they do not.
LEMMA TransferHeld ==
    ASSUME TransferCommits, UNCHANGED <<transferTransfer, sent, size, wrong, committing>>
    PROVE  TransferCommits'
BY DEF TransferCommits

LEMMA TransferBegins ==
    ASSUME TransferBounded, TransferSteady, NEW t \in Transfers, NEW n \in 0 .. MaxFile,
           NEW way \in {"upload", "download"}, Transfer!Begin(t, n, way)
    PROVE  TransferSteady'
<1> USE DEF TransferSteady
<1>1. /\ UNCHANGED <<peer, sent, wrong, expired, target, moved, committing>>
      /\ size' = [size EXCEPT ![t] = n] /\ committing = Transfer!Idle
      /\ transferTransfer' = [transferTransfer EXCEPT ![t] = way]
            \/ transferTransfer' = [transferTransfer EXCEPT ![t] = "over"]
      /\ recorded' = recorded \/ recorded' = recorded \cup {t}
      /\ UNCHANGED transferTrouble \/ Transfer!Trouble
      /\ Transfer!Refreshed
  BY DEF Transfer!Begin, Transfer!Handling, Transfer!place
<1>2. /\ orphan' \subseteq Transfers /\ orphanIs' \in {"absent", "fresh", "old", "unknown"}
  BY <1>1 DEF TransferTyped, Transfer!Refreshed, Transfer!OrphanLeft
<1>3. transferTrouble' \in 0 .. MaxTrouble
  BY <1>1, TransferTroubles
<1>4. TransferTyped'
  BY <1>1, <1>2, <1>3 DEF TransferTyped
<1>5. TransferCommits'
  BY <1>1, TransferIdle
<1> QED BY <1>4, <1>5

LEMMA TransferChunk ==
    ASSUME TransferBounded, TransferSteady, NEW t \in Transfers, NEW n \in 0 .. MaxFile,
           Transfer!Chunk(t, n)
    PROVE  TransferSteady'
<1> USE DEF TransferSteady
<1>1. /\ UNCHANGED <<transferTransfer, peer, size, expired, recorded, orphan, orphanIs, target,
                     moved, committing, transferTrouble>>
      /\ sent' = [sent EXCEPT ![t] = @ + n] /\ sent[t] + n <= size[t]
      /\ wrong' \in {wrong, wrong \cup {t}} /\ committing = Transfer!Idle
  BY DEF Transfer!Chunk, Transfer!Handling, Transfer!place, Transfer!cache
<1>2. sent[t] + n \in 0 .. MaxFile
  BY <1>1 DEF TransferTyped, TransferBounded
<1>3. TransferTyped'
  BY <1>1, <1>2 DEF TransferTyped
<1>4. TransferCommits'
  BY <1>1, TransferIdle
<1> QED BY <1>3, <1>4

LEMMA TransferCommit ==
    ASSUME TransferBounded, TransferSteady, NEW t \in Transfers,
           \/ Transfer!CommitCheck(t) \/ Transfer!CommitLink(t) \/ Transfer!CommitEnd(t)
    PROVE  TransferSteady'
<1> USE DEF TransferSteady
<1>1. CASE Transfer!CommitCheck(t)
  <2>1. TransferTyped'
    BY <1>1 DEF Transfer!CommitCheck, Transfer!item, Transfer!cache, Transfer!place,
       TransferTyped
  <2>2. TransferCommits'
    BY <1>1 DEF Transfer!CommitCheck, Transfer!item, TransferCommits
  <2> QED BY <2>1, <2>2
<1>2. CASE Transfer!CommitLink(t)
  <2>1. TransferTyped'
    BY <1>2 DEF Transfer!CommitLink, Transfer!item, Transfer!cache, TransferTyped
  <2>2. TransferCommits'
    BY <1>2 DEF Transfer!CommitLink, Transfer!item, TransferCommits, Transfer!Idle,
       Transfer!Nobody
  <2> QED BY <2>1, <2>2
<1>3. CASE Transfer!CommitEnd(t)
  <2>1. /\ UNCHANGED <<peer, size, sent, wrong, expired, orphan, orphanIs, target, moved>>
        /\ committing' = Transfer!Idle
        /\ \/ transferTransfer' = [transferTransfer EXCEPT ![t] = "committed"]
              /\ Transfer!RemoveStaged(t)
           \/ Transfer!Trouble /\ UNCHANGED <<transferTransfer, recorded>>
    BY <1>3 DEF Transfer!CommitEnd, Transfer!place
  <2>2. recorded' \subseteq Transfers /\ (UNCHANGED transferTrouble \/ Transfer!Trouble)
    <3>1. CASE Transfer!RemoveStaged(t)
      BY <3>1, TransferRemoves
    <3>2. CASE Transfer!Trouble /\ UNCHANGED recorded
      BY <3>2 DEF TransferTyped
    <3> QED BY <2>1, <3>1, <3>2
  <2>3. transferTrouble' \in 0 .. MaxTrouble
    BY <2>2, TransferTroubles
  <2>4. TransferTyped'
    BY <2>1, <2>2, <2>3 DEF TransferTyped
  <2>5. TransferCommits'
    BY <2>1 DEF TransferCommits, Transfer!Idle, Transfer!Nobody
  <2> QED BY <2>4, <2>5
<1> QED BY <1>1, <1>2, <1>3

LEMMA TransferDiscard ==
    ASSUME TransferBounded, TransferSteady, NEW t \in Transfers,
           Transfer!Discard(t) \/ Transfer!Expire(t)
    PROVE  TransferSteady'
<1> USE DEF TransferSteady
<1>1. CASE Transfer!Discard(t)
  <2>1. /\ UNCHANGED <<peer, size, sent, wrong, expired, orphan, orphanIs, target, moved,
                       committing>>
        /\ transferTransfer' = [transferTransfer EXCEPT ![t] = "over"]
        /\ Transfer!RemoveStaged(t)
    BY <1>1 DEF Transfer!Discard, Transfer!place
  <2>2. recorded' \subseteq Transfers /\ transferTrouble' \in 0 .. MaxTrouble
    BY <2>1, TransferRemoves, TransferTroubles
  <2>3. TransferTyped'
    BY <2>1, <2>2 DEF TransferTyped
  <2>4. TransferCommits'
    BY <1>1, <2>1, TransferIdle DEF Transfer!Discard
  <2> QED BY <2>3, <2>4
<1>2. CASE Transfer!Expire(t)
  <2>1. /\ UNCHANGED <<transferTransfer, peer, size, sent, wrong, recorded, orphan, orphanIs,
                       target, moved, committing, transferTrouble>>
        /\ expired' = expired \cup {t}
    BY <1>2 DEF Transfer!Expire, Transfer!place, Transfer!cache
  <2>2. TransferTyped'
    BY <2>1 DEF TransferTyped
  <2> QED BY <2>1, <2>2, TransferHeld
<1> QED BY <1>1, <1>2

\* What happens around the transfers.
LEMMA TransferOthers ==
    ASSUME TransferBounded, TransferSteady,
           \/ Transfer!BeginRefused \/ Transfer!Crash \/ Transfer!OrphanAges \/ Transfer!Meddle
           \/ UNCHANGED transferVars
    PROVE  TransferSteady'
<1> USE DEF TransferSteady, Transfer!item, Transfer!cache, Transfer!place
<1>1. CASE Transfer!BeginRefused \/ Transfer!OrphanAges \/ UNCHANGED transferVars
  <2>1. /\ UNCHANGED <<transferTransfer, peer, size, sent, wrong, expired, recorded, target,
                       moved, committing, transferTrouble>>
        /\ orphan' \subseteq Transfers
        /\ orphanIs' \in {"absent", "fresh", "old", "unknown"}
    BY <1>1 DEF Transfer!BeginRefused, Transfer!OrphanAges, Transfer!Refreshed,
       Transfer!OrphanLeft, transferVars, TransferTyped
  <2>2. TransferTyped'
    BY <2>1 DEF TransferTyped
  <2> QED BY <2>1, <2>2, TransferHeld
<1>2. CASE Transfer!Crash
  <2>1. transferTrouble' \in 0 .. MaxTrouble
    BY <1>2, TransferTroubles DEF Transfer!Crash
  <2>2. TransferTyped'
    BY <1>2, <2>1 DEF Transfer!Crash, TransferTyped
  <2>3. TransferCommits'
    BY <1>2 DEF Transfer!Crash, TransferCommits, Transfer!Idle, Transfer!Nobody
  <2> QED BY <2>2, <2>3
<1>3. CASE Transfer!Meddle
  <2>1. transferTrouble' \in 0 .. MaxTrouble
    BY <1>3, TransferTroubles DEF Transfer!Meddle
  <2>2. /\ UNCHANGED <<transferTransfer, peer, size, sent, wrong, expired, recorded, orphan,
                       committing>>
        /\ target' \in Transfers \cup {"nobody", "others"} /\ moved' \subseteq Transfers
        /\ orphanIs' \in {"absent", "fresh", "old", "unknown"}
    BY <1>3 DEF Transfer!Meddle, TransferTyped, Transfer!Nobody, Transfer!Others
  <2>3. TransferTyped'
    BY <2>1, <2>2 DEF TransferTyped
  <2> QED BY <2>2, <2>3, TransferHeld
<1> QED BY <1>1, <1>2, <1>3

LEMMA TransferStaysSteady ==
    ASSUME TransferBounded, TransferSteady, [Transfer!Next]_transferVars
    PROVE  TransferSteady'
<1>1. ASSUME NEW t \in Transfers, NEW n \in 0 .. MaxFile,
             \/ Transfer!Begin(t, n, "upload") \/ Transfer!Begin(t, n, "download")
             \/ Transfer!Chunk(t, n)
      PROVE  TransferSteady'
  BY <1>1, TransferBegins, TransferChunk
<1>2. ASSUME NEW t \in Transfers,
             \/ Transfer!CommitCheck(t) \/ Transfer!CommitLink(t) \/ Transfer!CommitEnd(t)
             \/ Transfer!Discard(t) \/ Transfer!Expire(t)
      PROVE  TransferSteady'
  BY <1>2, TransferCommit, TransferDiscard
<1> QED BY <1>1, <1>2, TransferOthers DEF Transfer!Next

LEMMA TransferCardinality == \A S : Transfer!Cardinality(S) = Cardinality(S)
BY DEF Transfer!Cardinality, Cardinality

LEMMA TransferSums ==
    ASSUME TransferBounded, TransferTyped
    PROVE  \A S \in SUBSET Transfers :
              /\ IsFiniteSet(S) /\ SumOf(size, S) \in Nat
              /\ Transfer!Reserved(S) = SumOf(size, S)
<1> SUFFICES ASSUME NEW S \in SUBSET Transfers
             PROVE  /\ IsFiniteSet(S) /\ SumOf(size, S) \in Nat
                    /\ Transfer!Reserved(S) = SumOf(size, S)
  OBVIOUS
<1>1. IsFiniteSet(S) /\ \A t \in S : size[t] \in Nat
  BY FS_Subset DEF TransferBounded, TransferTyped
<1>2. Transfer!Reserved(S) = (CHOOSE h : Adds(size, S, h))[S]
  BY DEF Transfer!Reserved, Transfer!MapThenSumSet, Transfer!MapThenFoldSet, Adds
<1> QED BY <1>1, <1>2, SumType, FoldIsSum

\* A transfer that an owner gets besides those it has, or loses.
LEMMA TransferHolders ==
    ASSUME TransferBounded, NEW kinds, NEW owners, NEW o
    PROVE  /\ IsFiniteSet(Holds(o, kinds, owners))
           /\ Cardinality(Holds(o, kinds, owners)) \in Nat
<1>1. Holds(o, kinds, owners) \in SUBSET Transfers
  BY DEF Holds
<1> QED BY <1>1, FS_Subset, FS_CardinalityType DEF TransferBounded

LEMMA TransferFewer ==
    ASSUME TransferBounded, TransferTyped, TransferShares, UNCHANGED peer,
           \A t \in Transfers :
              \/ transferTransfer'[t] \notin {"upload", "download", "committed"}
              \/ transferTransfer[t] \in {"upload", "download", "committed"}
    PROVE  TransferShares'
<1> SUFFICES ASSUME NEW o \in Peers
             PROVE  Cardinality(Holds(o, transferTransfer, peer)') <= MaxPerPeer
  BY DEF TransferShares
<1>1. Holds(o, transferTransfer, peer)' \in SUBSET Holds(o, transferTransfer, peer)
  BY DEF Holds
<1>2. Cardinality(Holds(o, transferTransfer, peer)') <= Cardinality(Holds(o, transferTransfer, peer))
  BY <1>1, TransferHolders, FS_Subset
<1>3. Cardinality(Holds(o, transferTransfer, peer)) <= MaxPerPeer
  BY DEF TransferShares
<1>4. Cardinality(Holds(o, transferTransfer, peer)') \in Nat
  BY <1>1, TransferHolders, FS_Subset, FS_CardinalityType
<1> QED BY <1>2, <1>3, <1>4, TransferHolders DEF TransferBounded

LEMMA TransferBeginsWithin ==
    ASSUME TransferBounded, TransferInv, NEW t \in Transfers, NEW n \in 0 .. MaxFile,
           NEW way \in {"upload", "download"}, Transfer!Begin(t, n, way)
    PROVE  TransferKeeps' /\ TransferShares'
<1> USE DEF TransferInv, TransferSteady
<1>1. /\ transferTransfer[t] = "free" /\ UNCHANGED peer
      /\ Cardinality({u \in Transfer!Live : peer[u] = peer[t]}) < MaxPerPeer
      /\ size' = [size EXCEPT ![t] = n] /\ orphan' = Transfer!OrphanLeft
      /\ n + Transfer!Reserved(Transfer!OrphanLeft) + Transfer!Reserved(recorded) <= MaxStored
      /\ \/ /\ recorded' = recorded \cup {t}
            /\ transferTransfer' = [transferTransfer EXCEPT ![t] = way]
         \/ /\ recorded' \in {recorded, recorded \cup {t}}
            /\ transferTransfer' = [transferTransfer EXCEPT ![t] = "over"]
  BY TransferCardinality DEF Transfer!Begin, Transfer!Room, Transfer!Refreshed
<1>2. /\ recorded \in SUBSET Transfers /\ orphan' \in SUBSET Transfers
      /\ t \notin recorded /\ t \notin orphan'
  BY <1>1 DEF TransferKeeps, TransferTyped, Transfer!OrphanLeft
<1>3. n + SumOf(size, orphan') + SumOf(size, recorded) <= MaxStored
  BY <1>1, <1>2, TransferSums
<1>4. SumOf(size', orphan') = SumOf(size, orphan') /\ SumOf(size', recorded) = SumOf(size, recorded)
  <2>1. \A u \in Transfers \ {t} : size[u] = size'[u]
    BY <1>1 DEF TransferTyped
  <2>2. (\A u \in orphan' : size'[u] = size[u]) /\ (\A u \in recorded : size'[u] = size[u])
    BY <1>2, <2>1
  <2> QED BY <2>2, SumSame
<1>5. SumOf(size', recorded \cup {t}) = n + SumOf(size, recorded)
  <2>1. IsFiniteSet(recorded \cup {t})
    BY <1>2, FS_Subset DEF TransferBounded
  <2>2. \A u \in recorded \cup {t} : size'[u] \in Nat
    BY <1>1, <1>2 DEF TransferTyped, TransferBounded
  <2>3. SumOf(size', recorded \cup {t}) = size'[t] + SumOf(size', (recorded \cup {t}) \ {t})
    BY <2>1, <2>2, SumRemove
  <2>4. (recorded \cup {t}) \ {t} = recorded /\ size'[t] = n
    BY <1>1, <1>2 DEF TransferTyped
  <2> QED BY <1>4, <2>3, <2>4
<1>6. SumOf(size, orphan') \in Nat /\ SumOf(size, recorded) \in Nat /\ MaxStored \in Nat
  BY <1>2, TransferSums DEF TransferBounded
<1>7. (SumOf(size, recorded) + SumOf(size, orphan) <= MaxStored)'
  <2>1. SumOf(size', recorded') \in {SumOf(size, recorded), n + SumOf(size, recorded)}
    BY <1>1, <1>4, <1>5
  <2>2. SumOf(size', recorded') + SumOf(size', orphan') <= MaxStored
    BY <1>3, <1>4, <1>6, <2>1
  <2> QED BY <2>2
<1>8. TransferKeeps'
  <2>1. ASSUME NEW u \in Transfers
        PROVE  /\ transferTransfer'[u] \in {"upload", "download"} => u \in recorded'
               /\ transferTransfer'[u] = "free" => u \notin recorded' \cup orphan'
    <3>1. orphan' \subseteq orphan
      BY <1>1 DEF Transfer!OrphanLeft
    <3>2. recorded \subseteq recorded' /\ recorded' \subseteq recorded \cup {t}
      BY <1>1
    <3>3. CASE u = t
      BY <1>1, <3>3 DEF TransferTyped
    <3>4. CASE u # t
      BY <1>1, <3>1, <3>2, <3>4 DEF TransferTyped, TransferKeeps
    <3> QED BY <3>3, <3>4
  <2> QED BY <1>7, <2>1 DEF TransferKeeps
<1>9. TransferShares'
  <2> SUFFICES ASSUME NEW o \in Peers
               PROVE  Cardinality(Holds(o, transferTransfer, peer)') <= MaxPerPeer
    BY DEF TransferShares
  <2>1. Cardinality(Holds(o, transferTransfer, peer)) <= MaxPerPeer
    BY DEF TransferShares
  <2>2. CASE o = peer[t]
    <3>1. Holds(o, transferTransfer, peer) = {u \in Transfer!Live : peer[u] = peer[t]}
      BY <2>2 DEF Holds, Transfer!Live
    <3>2. Cardinality(Holds(o, transferTransfer, peer)) < MaxPerPeer
      BY <1>1, <3>1
    <3>3. \/ Holds(o, transferTransfer, peer)' = Holds(o, transferTransfer, peer) \cup {t}
          \/ Holds(o, transferTransfer, peer)' = Holds(o, transferTransfer, peer)
      BY <1>1, <2>2 DEF Holds, TransferTyped
    <3>4. Cardinality(Holds(o, transferTransfer, peer) \cup {t})
            <= Cardinality(Holds(o, transferTransfer, peer)) + 1
      BY TransferHolders, FS_AddElement
    <3>5. /\ Cardinality(Holds(o, transferTransfer, peer)) \in Nat
          /\ IsFiniteSet(Holds(o, transferTransfer, peer) \cup {t})
      BY TransferHolders, FS_AddElement
    <3>6. Cardinality(Holds(o, transferTransfer, peer) \cup {t}) \in Nat
      BY <3>5, FS_CardinalityType
    <3>7. MaxPerPeer \in Nat
      BY DEF TransferBounded
    <3>8. Cardinality(Holds(o, transferTransfer, peer)') \in
             {Cardinality(Holds(o, transferTransfer, peer)),
              Cardinality(Holds(o, transferTransfer, peer) \cup {t})}
      BY <3>3
    <3> QED BY <3>2, <3>4, <3>5, <3>6, <3>7, <3>8
  <2>3. CASE o # peer[t]
    <3>1. Holds(o, transferTransfer, peer)' = Holds(o, transferTransfer, peer)
      BY <1>1, <2>3 DEF Holds, TransferTyped
    <3> QED BY <2>1, <3>1
  <2> QED BY <2>2, <2>3
<1> QED BY <1>8, <1>9

\* Of what is kept, less at most; and what is no longer recorded is no upload.
LEMMA TransferLess ==
    ASSUME TransferBounded, TransferInv, UNCHANGED <<size, peer>>,
           recorded' \subseteq recorded, orphan' \subseteq orphan,
           \A t \in Transfers :
              \/ transferTransfer'[t] = transferTransfer[t] /\ (t \in recorded => t \in recorded')
              \/ transferTransfer'[t] = "over"
              \/ /\ transferTransfer'[t] = "committed"
                 /\ transferTransfer[t] \in {"upload", "download", "committed"}
    PROVE  TransferKeeps' /\ TransferShares'
<1> USE DEF TransferInv, TransferSteady
<1>1. recorded \in SUBSET Transfers /\ orphan \in SUBSET Transfers
  BY DEF TransferTyped
<1>2. SumOf(size, recorded') <= SumOf(size, recorded) /\ SumOf(size, orphan') <= SumOf(size, orphan)
  <2>1. \A t \in Transfers : size[t] \in Nat
    BY DEF TransferTyped, TransferBounded
  <2>2. IsFiniteSet(recorded) /\ IsFiniteSet(orphan)
    BY <1>1, TransferSums
  <2>3. (\A t \in recorded : size[t] \in Nat) /\ (\A t \in orphan : size[t] \in Nat)
    BY <1>1, <2>1
  <2>4. SumOf(size, recorded') <= SumOf(size, recorded)
    BY <2>2, <2>3, SumSubset
  <2>5. SumOf(size, orphan') <= SumOf(size, orphan)
    BY <2>2, <2>3, SumSubset
  <2> QED BY <2>4, <2>5
<1>3. /\ SumOf(size, recorded) \in Nat /\ SumOf(size, orphan) \in Nat
      /\ SumOf(size, recorded') \in Nat /\ SumOf(size, orphan') \in Nat
  BY <1>1, TransferSums
<1>4. SumOf(size, recorded)' = SumOf(size, recorded') /\ SumOf(size, orphan)' = SumOf(size, orphan')
  OBVIOUS
<1>5. SumOf(size, recorded) + SumOf(size, orphan) <= MaxStored
  BY DEF TransferKeeps
<1>6. SumOf(size, recorded') + SumOf(size, orphan') <= MaxStored
  BY <1>2, <1>3, <1>5 DEF TransferBounded
<1>7. TransferKeeps'
  BY <1>4, <1>6 DEF TransferKeeps
<1>8. TransferShares'
  BY TransferFewer
<1> QED BY <1>7, <1>8

LEMMA TransferCrashes ==
    ASSUME TransferBounded, TransferInv, Transfer!Crash
    PROVE  TransferKeeps' /\ TransferShares'
<1> USE DEF TransferInv, TransferSteady
<1>1. /\ transferTransfer' = [t \in Transfers |-> IF t \in Transfer!Live THEN "over"
                                                  ELSE transferTransfer[t]]
      /\ orphan' = recorded /\ recorded' = {} /\ UNCHANGED <<size, peer>>
  BY DEF Transfer!Crash
<1>2. /\ recorded \in SUBSET Transfers /\ orphan \in SUBSET Transfers
  BY DEF TransferTyped
<1>3. SumOf(size, recorded) \in Nat /\ SumOf(size, orphan) \in Nat
  BY <1>2, TransferSums
<1>4. SumOf(size', recorded') = 0 /\ SumOf(size', orphan') = SumOf(size, recorded)
  BY <1>1, SumEmpty
<1>5. SumOf(size', recorded') + SumOf(size', orphan') <= MaxStored
  BY <1>3, <1>4 DEF TransferKeeps, TransferBounded
<1>6. TransferKeeps'
  BY <1>1, <1>5 DEF TransferKeeps, Transfer!Live, TransferTyped
<1>7. TransferShares'
  BY <1>1, TransferFewer DEF Transfer!Live
<1> QED BY <1>6, <1>7

LEMMA TransferAccounts ==
    ASSUME TransferBounded, TransferInv, [Transfer!Next]_transferVars
    PROVE  TransferKeeps' /\ TransferShares'
<1> USE DEF TransferInv, TransferSteady, Transfer!item, Transfer!cache, Transfer!place
<1>1. ASSUME NEW t \in Transfers, NEW n \in 0 .. MaxFile,
             Transfer!Begin(t, n, "upload") \/ Transfer!Begin(t, n, "download")
      PROVE  TransferKeeps' /\ TransferShares'
  BY <1>1, TransferBeginsWithin
<1>2. ASSUME NEW t \in Transfers, Transfer!CommitEnd(t)
      PROVE  TransferKeeps' /\ TransferShares'
  <2>1. transferTransfer[t] = "upload"
    BY <1>2 DEF Transfer!CommitEnd, TransferCommits
  <2>2. /\ UNCHANGED <<size, peer, orphan>> /\ recorded' \subseteq recorded
        /\ recorded \ {t} \subseteq recorded'
        /\ \/ transferTransfer' = [transferTransfer EXCEPT ![t] = "committed"]
           \/ UNCHANGED <<transferTransfer, recorded>>
    BY <1>2 DEF Transfer!CommitEnd, Transfer!RemoveStaged
  <2> QED BY <2>1, <2>2, TransferLess DEF TransferTyped
<1>3. ASSUME NEW t \in Transfers, Transfer!Discard(t)
      PROVE  TransferKeeps' /\ TransferShares'
  <2>1. /\ UNCHANGED <<size, peer, orphan>> /\ recorded' \subseteq recorded
        /\ recorded \ {t} \subseteq recorded'
        /\ transferTransfer' = [transferTransfer EXCEPT ![t] = "over"]
    BY <1>3 DEF Transfer!Discard, Transfer!RemoveStaged
  <2> QED BY <2>1, TransferLess DEF TransferTyped
<1>4. CASE \/ Transfer!BeginRefused \/ Transfer!OrphanAges \/ Transfer!Meddle
           \/ UNCHANGED transferVars
           \/ \E t \in Transfers :
                 \/ Transfer!CommitCheck(t) \/ Transfer!CommitLink(t) \/ Transfer!Expire(t)
                 \/ \E n \in 0 .. MaxFile : Transfer!Chunk(t, n)
  <2>1. /\ UNCHANGED <<size, peer, transferTransfer, recorded>>
        /\ orphan' \subseteq orphan
    BY <1>4 DEF Transfer!BeginRefused, Transfer!OrphanAges, Transfer!Meddle, transferVars,
       Transfer!CommitCheck, Transfer!CommitLink, Transfer!Expire, Transfer!Chunk,
       Transfer!Refreshed, Transfer!OrphanLeft
  <2> QED BY <2>1, TransferLess
<1> QED BY <1>1, <1>2, <1>3, <1>4, TransferCrashes DEF Transfer!Next

LEMMA TransferInitInv ==
    ASSUME TransferBounded, Transfer!Init
    PROVE  TransferInv
<1>1. SumOf(size, recorded) = 0 /\ SumOf(size, orphan) = 0
  BY SumEmpty DEF Transfer!Init
<1>2. TransferKeeps
  BY <1>1 DEF Transfer!Init, TransferKeeps, TransferBounded
<1>3. \A o : Holds(o, transferTransfer, peer) = {}
  BY DEF Transfer!Init, Holds
<1>4. TransferShares
  BY <1>3, FS_EmptySet DEF TransferShares, TransferBounded
<1> QED BY <1>2, <1>4, TransferInitSteady DEF TransferInv

LEMMA TransferPreserved ==
    ASSUME TransferBounded, TransferInv, [Transfer!Next]_transferVars
    PROVE  TransferInv'
BY TransferStaysSteady, TransferAccounts DEF TransferInv

LEMMA TransferWithin ==
    ASSUME TransferBounded, TransferInv
    PROVE  Transfer!StorageWithinLimit
<1>1. recorded \in SUBSET Transfers /\ orphan \in SUBSET Transfers
  BY DEF TransferInv, TransferSteady, TransferTyped
<1>2. /\ Transfer!Reserved(recorded) = SumOf(size, recorded)
      /\ Transfer!Reserved(orphan) = SumOf(size, orphan)
  BY <1>1, TransferSums DEF TransferInv, TransferSteady
<1>3. \A o \in Peers : {t \in Transfer!Live : peer[t] = o} = Holds(o, transferTransfer, peer)
  BY DEF Transfer!Live, Holds
<1>4. \A o \in Peers : Transfer!Cardinality({t \in Transfer!Live : peer[t] = o}) <= MaxPerPeer
  BY <1>3, TransferCardinality DEF TransferInv, TransferShares
<1> QED BY <1>2, <1>4 DEF TransferInv, TransferKeeps, Transfer!StorageWithinLimit

LEMMA TransferImplies ==
    ASSUME TransferInv
    PROVE  Transfer!TypeOK
<1>1. committing \in {Transfer!Idle} \cup ({"checked", "linked"} \X Transfers)
  BY DEF TransferInv, TransferSteady, TransferCommits, Transfer!Idle, Transfer!Nobody
<1> QED BY <1>1 DEF TransferInv, TransferSteady, TransferTyped, Transfer!TypeOK, Transfer!Nobody,
        Transfer!Others

LEMMA TransferCreates ==
    ASSUME TransferApart, TransferInv, [Transfer!Next]_transferVars
    PROVE  Transfer!CreatesOnly
<1> USE DEF Transfer!CreatesOnly, Transfer!item, Transfer!cache, Transfer!place
<1>1. ASSUME NEW t \in Transfers, Transfer!CommitLink(t)
      PROVE  Transfer!CreatesOnly
  <2>1. committing = <<"checked", t>> /\ sent[t] = size[t] /\ t \notin wrong
    BY <1>1 DEF Transfer!CommitLink, TransferInv, TransferSteady, TransferCommits
  <2>2. target' # target => target = "nobody" /\ target' = t
    BY <1>1 DEF Transfer!CommitLink, Transfer!Nobody
  <2>3. UNCHANGED <<sent, size, wrong>>
    BY <1>1 DEF Transfer!CommitLink
  <2> QED BY <2>1, <2>2, <2>3 DEF Transfer!Nobody
<1>2. CASE Transfer!Meddle
  <2>1. target' \in {target, "nobody", "others"}
    BY <1>2 DEF Transfer!Meddle, Transfer!Nobody, Transfer!Others
  <2> QED BY <2>1 DEF TransferApart
<1>3. ASSUME NEW t \in Transfers,
             \/ \E n \in 0 .. MaxFile :
                   \/ Transfer!Begin(t, n, "upload") \/ Transfer!Begin(t, n, "download")
                   \/ Transfer!Chunk(t, n)
             \/ Transfer!CommitCheck(t) \/ Transfer!CommitEnd(t)
             \/ Transfer!Discard(t) \/ Transfer!Expire(t)
      PROVE  UNCHANGED target
  BY <1>3 DEF Transfer!Begin, Transfer!Chunk, Transfer!CommitCheck, Transfer!CommitEnd,
     Transfer!Discard, Transfer!Expire
<1>4. CASE \/ Transfer!BeginRefused \/ Transfer!Crash \/ Transfer!OrphanAges
           \/ UNCHANGED transferVars
  BY <1>4 DEF Transfer!BeginRefused, Transfer!Crash, Transfer!OrphanAges, transferVars
<1> QED BY <1>1, <1>2, <1>3, <1>4 DEF Transfer!Next

-----------------------------------------------------------------------------
(* Counters and events of the coding tools (Telemetry).                       *)

TellBounded ==
    /\ ErrorLimit \in Nat /\ QueueLimit \in Nat
    /\ IsFiniteSet(Tools) /\ IsFiniteSet(Threads)

TellEvents ==
    {Tell!Start, [kind |-> "handshake"]}
      \cup [kind : {"tool_error"}, tool : Tools, row : Nat]
      \cup [kind : {"tool_summary"}, tool : Tools, calls : Nat, errors : Nat]
      \cup [kind : {"session_end"}, calls : Nat, dropped : Nat, requests : Nat]

TellCalls == [tool : Tools, ok : BOOLEAN, session : BOOLEAN]

TellTyped ==
    /\ active \in BOOLEAN /\ finished \in BOOLEAN
    /\ served \in Nat /\ errorsSent \in Nat /\ errorsDropped \in Nat
    /\ stats \in [Tools -> [calls : Nat, errors : Nat]]
    /\ streak \in [tool : Tools \cup {"none"}, length : Nat]
    /\ telling \in [Threads -> Seq(TellEvents)]
    /\ queue \in Seq(TellEvents) /\ batch \in Seq(TellEvents) /\ told \in Seq(TellEvents)
    /\ overflowed \in Nat /\ posted \in Nat
    /\ happened \in [requests : Nat, calls : Seq(TellCalls)]
    /\ summed \in [requests : Nat, calls : Seq(TellCalls)]

\* How many calls of a sequence are of a set; the counters are what happened.
OftenIn(calls, set) == Cardinality({i \in 1 .. Len(calls) : calls[i] \in set})
TellRow(row, x, calls) ==
    /\ row.calls = OftenIn(calls, Tell!CallsOf({x}, BOOLEAN, BOOLEAN))
    /\ row.errors = OftenIn(calls, Tell!CallsOf({x}, {FALSE}, BOOLEAN))
TellRows(table, calls) == \A x \in Tools : TellRow(table[x], x, calls)
TellCounted ==
    /\ served = happened.requests
    /\ TellRows(stats, happened.calls)
    /\ SumOf([x \in Tools |-> stats[x].calls], Tools) = Len(happened.calls)
    /\ errorsSent + errorsDropped = OftenIn(happened.calls, Tell!CallsOf(Tools, {FALSE}, {TRUE}))

\* Where events of a kind are in a sequence, and how many are told or about to be.
Of(kind, s) == {i \in 1 .. Len(s) : s[i].kind = kind}
Count(kind, s) == Cardinality(Of(kind, s))
Total(kind, ts, tt) == Count(kind, ts) + SumOf([t \in Threads |-> Count(kind, tt[t])], Threads)

\* What is told of the end of a session is whole, and what a log says it is.
SummariesIn(s) == {s[j] : j \in {k \in 1 .. Len(s) : s[k].kind = "tool_summary"}}
Whole(s, log) ==
    /\ SummariesIn(s) # {} => Of("session_end", s) # {}
    /\ Of("session_end", s) # {} => SummariesIn(s) = Tell!TrueRows(log)
    /\ \A i \in Of("session_end", s) : s[i] = Tell!TrueEnd(log)
WholeAll(ts, tt, log) == Whole(ts, log) /\ \A t \in Threads : Whole(tt[t], log)

\* A session starts once, and ends once if it started.
TellSession ==
    /\ Total("session_start", told, telling) = IF active THEN 1 ELSE 0
    /\ Total("session_end", told, telling) = IF active /\ finished THEN 1 ELSE 0

\* Every failure in a session is told or counted as dropped.
TellFailures ==
    /\ Total("tool_error", told, telling) = errorsSent /\ errorsSent <= ErrorLimit
    /\ errorsDropped > 0 => errorsSent = ErrorLimit

TellWhole == WholeAll(told, telling, summed)

\* No event is lost but for room.
TellQueued ==
    /\ Len(told) = overflowed + posted + Len(batch) + Len(queue)
    /\ Len(queue) <= QueueLimit

TellInv == TellTyped /\ TellCounted /\ TellSession /\ TellFailures /\ TellWhole /\ TellQueued

\* Counting in sequences.
LEMMA CountType ==
    ASSUME NEW E, NEW s \in Seq(E), NEW kind
    PROVE  IsFiniteSet(Of(kind, s)) /\ Count(kind, s) \in Nat
<1>1. IsFiniteSet(1 .. Len(s)) /\ Of(kind, s) \in SUBSET (1 .. Len(s))
  BY CountUpTo DEF Of
<1> QED BY <1>1, FS_Subset, FS_CardinalityType DEF Count

LEMMA CountNone ==
    ASSUME NEW E, NEW s \in Seq(E), NEW kind
    PROVE  Count(kind, s) = 0 <=> \A i \in 1 .. Len(s) : s[i].kind # kind
<1>1. Count(kind, s) = 0 <=> Of(kind, s) = {}
  BY CountType, FS_EmptySet DEF Count
<1> QED BY <1>1 DEF Of

LEMMA CountEmpty == \A kind : Count(kind, <<>>) = 0
<1>1. \A kind : Of(kind, <<>>) = {}
  BY DEF Of
<1> QED BY <1>1, FS_EmptySet DEF Count

LEMMA CountOne ==
    ASSUME NEW e, NEW kind
    PROVE  Count(kind, <<e>>) = IF e.kind = kind THEN 1 ELSE 0
<1>1. Of(kind, <<e>>) = IF e.kind = kind THEN {1} ELSE {}
  BY DEF Of
<1> QED BY <1>1, FS_EmptySet, FS_Singleton DEF Count

LEMMA CountConcat ==
    ASSUME NEW E, NEW s \in Seq(E), NEW u \in Seq(E), NEW kind
    PROVE  Count(kind, s \o u) = Count(kind, s) + Count(kind, u)
<1>1. PICK n \in Nat : n = Len(s)
  OBVIOUS
<1>2. PICK S : S = {i \in (n + 1) .. (n + Len(u)) : u[i - n].kind = kind}
  OBVIOUS
<1>3. Of(kind, s \o u) = Of(kind, s) \cup S
  BY <1>1, <1>2 DEF Of
<1>4. Of(kind, s) \cap S = {}
  BY <1>1, <1>2 DEF Of
<1>5. PICK shift : shift = [i \in Of(kind, u) |-> n + i]
  OBVIOUS
<1>6. shift \in Bijection(Of(kind, u), S)
  <2>1. shift \in [Of(kind, u) -> S]
    BY <1>2, <1>5 DEF Of
  <2>2. \A i, j \in Of(kind, u) : shift[i] = shift[j] => i = j
    BY <1>5 DEF Of
  <2>3. ASSUME NEW k \in S PROVE \E i \in Of(kind, u) : shift[i] = k
    <3>1. k - n \in Of(kind, u) /\ n + (k - n) = k
      BY <1>2 DEF Of
    <3> QED BY <1>5, <3>1
  <2> QED BY <2>1, <2>2, <2>3 DEF Bijection, Injection, Surjection, IsInjective
<1>7. IsFiniteSet(S) /\ Cardinality(S) = Count(kind, u)
  BY <1>6, CountType, FS_Bijection DEF ExistsBijection, Count
<1>8. IsFiniteSet(Of(kind, s)) /\ Cardinality(Of(kind, s)) = Count(kind, s)
  BY CountType DEF Count
<1>9. Cardinality(Of(kind, s \o u)) = Count(kind, s) + Count(kind, u) - Cardinality({})
  BY <1>3, <1>4, <1>7, <1>8, FS_Union
<1> QED BY <1>9, CountType, FS_EmptySet DEF Count

\* One number of a sum is another.
LEMMA SumChange ==
    ASSUME NEW S, IsFiniteSet(S), NEW f, NEW g, NEW x \in S,
           \A y \in S : f[y] \in Nat /\ g[y] \in Nat, \A y \in S \ {x} : f[y] = g[y]
    PROVE  SumOf(g, S) + f[x] = SumOf(f, S) + g[x]
<1>1. SumOf(f, S) = f[x] + SumOf(f, S \ {x}) /\ SumOf(g, S) = g[x] + SumOf(g, S \ {x})
  BY SumRemove
<1>2. SumOf(f, S \ {x}) = SumOf(g, S \ {x})
  BY SumSame
<1>3. IsFiniteSet(S \ {x})
  BY FS_RemoveElement
<1>4. SumOf(f, S \ {x}) \in Nat
  BY <1>3, SumType
<1> QED BY <1>1, <1>2, <1>4

LEMMA SumZero ==
    ASSUME NEW S, NEW f, \A x \in S : f[x] = 0
    PROVE  SumOf(f, S) = 0
<1>1. Tally(f, S) = {}
  BY DEF Tally
<1> QED BY <1>1, FS_EmptySet DEF SumOf

LEMMA TellCardinality == \A S : Tell!Cardinality(S) = Cardinality(S)
BY DEF Tell!Cardinality, Cardinality

\* What is told, and what threads are about to tell.
LEMMA TotalType ==
    ASSUME TellBounded, NEW ts \in Seq(TellEvents), NEW tt \in [Threads -> Seq(TellEvents)],
           NEW kind
    PROVE  /\ Total(kind, ts, tt) \in Nat /\ Count(kind, ts) \in Nat
           /\ Total(kind, ts, tt) = 0 =>
                 Count(kind, ts) = 0 /\ \A t \in Threads : Count(kind, tt[t]) = 0
           /\ \A t \in Threads : /\ Count(kind, tt[t]) \in Nat
                                 /\ Count(kind, ts) + Count(kind, tt[t]) <= Total(kind, ts, tt)
           /\ Count(kind, ts) <= Total(kind, ts, tt)
<1> DEFINE f == [t \in Threads |-> Count(kind, tt[t])]
<1>1. IsFiniteSet(Threads) /\ \A t \in Threads : f[t] \in Nat
  BY CountType DEF TellBounded
<1>2. SumOf(f, Threads) \in Nat
  BY <1>1, SumType
<1>3. Count(kind, ts) \in Nat
  BY CountType
<1>4. ASSUME NEW t \in Threads PROVE f[t] <= SumOf(f, Threads)
  <2>1. IsFiniteSet(Threads \ {t}) /\ \A u \in Threads \ {t} : f[u] \in Nat
    BY <1>1, FS_RemoveElement
  <2>2. SumOf(f, Threads \ {t}) \in Nat
    BY <2>1, SumType
  <2>3. SumOf(f, Threads) = f[t] + SumOf(f, Threads \ {t})
    BY <1>1, SumRemove
  <2> QED BY <1>1, <2>2, <2>3
<1>5. Total(kind, ts, tt) = Count(kind, ts) + SumOf(f, Threads)
  BY DEF Total
<1>6. \A t \in Threads : f[t] = Count(kind, tt[t])
  OBVIOUS
<1> HIDE DEF f
<1> QED BY <1>1, <1>2, <1>3, <1>4, <1>5, <1>6

SameBut(t, tt, uu) == \A u \in Threads \ {t} : tt[u] = uu[u]

LEMMA TotalChange ==
    ASSUME TellBounded, NEW ts \in Seq(TellEvents), NEW kind, NEW t \in Threads,
           NEW tt \in [Threads -> Seq(TellEvents)], NEW uu \in [Threads -> Seq(TellEvents)],
           SameBut(t, tt, uu)
    PROVE  Total(kind, ts, uu) + Count(kind, tt[t]) = Total(kind, ts, tt) + Count(kind, uu[t])
<1> DEFINE f == [u \in Threads |-> Count(kind, tt[u])]
           g == [u \in Threads |-> Count(kind, uu[u])]
<1>1. IsFiniteSet(Threads)
  BY DEF TellBounded
<1>2. \A u \in Threads : f[u] \in Nat /\ g[u] \in Nat
  BY CountType
<1>3. \A u \in Threads \ {t} : f[u] = g[u]
  BY DEF SameBut
<1>4. f[t] = Count(kind, tt[t]) /\ g[t] = Count(kind, uu[t])
  OBVIOUS
<1> HIDE DEF f, g
<1>5. SumOf(g, Threads) + f[t] = SumOf(f, Threads) + g[t]
  BY <1>1, <1>2, <1>3, SumChange
<1>6. SumOf(f, Threads) \in Nat /\ SumOf(g, Threads) \in Nat
  BY <1>1, <1>2, SumType
<1>7. /\ Total(kind, ts, tt) = Count(kind, ts) + SumOf(f, Threads)
      /\ Total(kind, ts, uu) = Count(kind, ts) + SumOf(g, Threads)
  BY DEF Total, f, g
<1>8. Count(kind, ts) \in Nat
  BY CountType
<1> QED BY <1>2, <1>4, <1>5, <1>6, <1>7, <1>8

LEMMA TotalEnqueued ==
    ASSUME TellBounded, NEW ts \in Seq(TellEvents), NEW kind, NEW t \in Threads,
           NEW tt \in [Threads -> Seq(TellEvents)], NEW uu \in [Threads -> Seq(TellEvents)],
           SameBut(t, tt, uu), Count(kind, uu[t]) = 0
    PROVE  Total(kind, ts \o tt[t], uu) = Total(kind, ts, tt)
<1> DEFINE rest == SumOf([u \in Threads |-> Count(kind, uu[u])], Threads)
<1>1. Total(kind, ts, uu) + Count(kind, tt[t]) = Total(kind, ts, tt) + Count(kind, uu[t])
  BY TotalChange
<1>2. Count(kind, ts \o tt[t]) = Count(kind, ts) + Count(kind, tt[t]) /\ Count(kind, uu[t]) = 0
  BY CountConcat
<1>3. /\ Total(kind, ts, uu) = Count(kind, ts) + rest
      /\ Total(kind, ts \o tt[t], uu) = Count(kind, ts \o tt[t]) + rest
  BY DEF Total
<1>4. rest \in Nat
  <2>1. PICK g : g = [u \in Threads |-> Count(kind, uu[u])]
    OBVIOUS
  <2>2. IsFiniteSet(Threads) /\ \A u \in Threads : g[u] \in Nat
    BY <2>1, CountType DEF TellBounded
  <2> QED BY <2>1, <2>2, SumType
<1>5. Count(kind, ts) \in Nat /\ Count(kind, tt[t]) \in Nat /\ Total(kind, ts, tt) \in Nat
  BY CountType, TotalType
<1> HIDE DEF rest
<1> QED BY <1>1, <1>2, <1>3, <1>4, <1>5

\* The sums of the module.
LEMMA TellCallsAre ==
    ASSUME TellBounded, TellTyped
    PROVE  Tell!Calls = SumOf([x \in Tools |-> stats[x].calls], Tools)
<1> DEFINE f == [x \in Tools |-> stats[x].calls]
<1>1. IsFiniteSet(Tools) /\ \A x \in Tools : f[x] \in Nat
  BY DEF TellBounded, TellTyped
<1>2. PICK h : h = CHOOSE k : k = [s \in SUBSET Tools |-> IF s = {} THEN 0
                 ELSE stats[CHOOSE x \in s : TRUE].calls + k[s \ {CHOOSE x \in s : TRUE}]]
  OBVIOUS
<1>3. Tell!Calls = h[Tools]
  BY <1>2 DEF Tell!Calls, Tell!MapThenSumSet, Tell!MapThenFoldSet
<1>4. \A s \in SUBSET Tools : s # {} => f[CHOOSE x \in s : TRUE] = stats[CHOOSE x \in s : TRUE].calls
  OBVIOUS
<1> HIDE DEF f
<1>5. \A k : Adds(f, Tools, k) <=> k = [s \in SUBSET Tools |-> IF s = {} THEN 0
                 ELSE stats[CHOOSE x \in s : TRUE].calls + k[s \ {CHOOSE x \in s : TRUE}]]
  BY <1>4 DEF Adds
<1>6. Adds(f, Tools, [s \in SUBSET Tools |-> SumOf(f, s)])
  BY <1>1, SumSolves
<1>7. Adds(f, Tools, h)
  BY <1>2, <1>5, <1>6
<1>8. h[Tools] = SumOf(f, Tools)
  BY <1>1, <1>7, SolutionIsSum
<1> QED BY <1>3, <1>8 DEF f

\* A call more is one more of the sets it is of.
LEMMA OftenType ==
    ASSUME NEW E, NEW s \in Seq(E), NEW set
    PROVE  OftenIn(s, set) \in Nat /\ IsFiniteSet({i \in 1 .. Len(s) : s[i] \in set})
<1>1. IsFiniteSet(1 .. Len(s)) /\ {i \in 1 .. Len(s) : s[i] \in set} \in SUBSET (1 .. Len(s))
  BY CountUpTo
<1> QED BY <1>1, FS_Subset, FS_CardinalityType DEF OftenIn

LEMMA OftenNone == \A set : OftenIn(<<>>, set) = 0
<1>1. \A set : {i \in 1 .. Len(<<>>) : <<>>[i] \in set} = {}
  OBVIOUS
<1> QED BY <1>1, FS_EmptySet DEF OftenIn

LEMMA OftenAppend ==
    ASSUME NEW E, NEW s \in Seq(E), NEW e \in E, NEW set
    PROVE  OftenIn(Append(s, e), set) = OftenIn(s, set) + IF e \in set THEN 1 ELSE 0
<1>1. PICK n \in Nat : n = Len(s)
  OBVIOUS
<1>2. PICK u : u = Append(s, e)
  OBVIOUS
<1>3. Len(u) = n + 1 /\ u[n + 1] = e /\ \A i \in 1 .. n : u[i] = s[i]
  BY <1>1, <1>2
<1>4. PICK S : S = {i \in 1 .. n : s[i] \in set}
  OBVIOUS
<1>5. IsFiniteSet(S) /\ Cardinality(S) = OftenIn(s, set) /\ OftenIn(s, set) \in Nat
  BY <1>1, <1>4, OftenType DEF OftenIn
<1>6. {i \in 1 .. Len(u) : u[i] \in set} = S \cup (IF e \in set THEN {n + 1} ELSE {})
  BY <1>1, <1>3, <1>4
<1>7. n + 1 \notin S
  BY <1>1, <1>4
<1>8. CASE e \in set
  <2>1. Cardinality(S \cup {n + 1}) = Cardinality(S) + 1
    BY <1>5, <1>7, FS_AddElement
  <2> QED BY <1>2, <1>5, <1>6, <1>8, <2>1 DEF OftenIn
<1>9. CASE e \notin set
  <2>1. {i \in 1 .. Len(u) : u[i] \in set} = S
    BY <1>6, <1>9
  <2>2. OftenIn(u, set) = Cardinality(S)
    BY <2>1 DEF OftenIn
  <2> QED BY <1>2, <1>5, <1>9, <2>2
<1> QED BY <1>8, <1>9

LEMMA TellOften == \A log, set : Tell!Often(log, set) = OftenIn(log.calls, set)
BY TellCardinality DEF Tell!Often, OftenIn

\* The rows of the tools that were called are those that happened.
LEMMA TellRowsAre ==
    ASSUME TellBounded, TellTyped, TellCounted, NEW R,
           R = {[kind |-> "tool_summary", tool |-> x, calls |-> stats[x].calls,
                 errors |-> stats[x].errors] : x \in {y \in Tools : stats[y].calls > 0}}
    PROVE  /\ IsFiniteSet(R) /\ R = Tell!TrueRows(happened)
           /\ R \subseteq [kind : {"tool_summary"}, tool : Tools, calls : Nat, errors : Nat]
<1>1. PICK U : U = {y \in Tools : stats[y].calls > 0}
  OBVIOUS
<1>2. PICK row : row = [x \in U |-> [kind |-> "tool_summary", tool |-> x,
                                     calls |-> stats[x].calls, errors |-> stats[x].errors]]
  OBVIOUS
<1>3. IsFiniteSet(U)
  BY <1>1, FS_Subset DEF TellBounded
<1>4. R = {row[x] : x \in U}
  BY <1>1, <1>2
<1>5. IsFiniteSet(R)
  <2>1. row \in Surjection(U, R)
    BY <1>2, <1>4 DEF Surjection
  <2> QED BY <1>3, <2>1, FS_Surjection
<1>6. \A x \in U : row[x] \in [kind : {"tool_summary"}, tool : Tools, calls : Nat, errors : Nat]
  BY <1>1, <1>2 DEF TellTyped
<1>7. ASSUME NEW x \in Tools
      PROVE  /\ stats[x].calls = Tell!Often(happened, Tell!CallsOf({x}, BOOLEAN, BOOLEAN))
             /\ stats[x].errors = Tell!Often(happened, Tell!CallsOf({x}, {FALSE}, BOOLEAN))
  BY TellOften DEF TellCounted, TellRows, TellRow
<1>8. \A x \in U : row[x] = Tell!TrueRow(happened, x)
  BY <1>1, <1>2, <1>7 DEF Tell!TrueRow
<1>9. U = {y \in Tools : Tell!Often(happened, Tell!CallsOf({y}, BOOLEAN, BOOLEAN)) > 0}
  BY <1>1, <1>7
<1>10. R = Tell!TrueRows(happened)
  BY <1>4, <1>8, <1>9 DEF Tell!TrueRows
<1> QED BY <1>4, <1>5, <1>6, <1>10

\* As a sequence, a set has all its members and no other.
LEMMA TellSequence ==
    ASSUME NEW R, IsFiniteSet(R)
    PROVE  /\ Tell!SetToSeq(R) \in Seq(R)
           /\ R = {Tell!SetToSeq(R)[i] : i \in 1 .. Len(Tell!SetToSeq(R))}
<1>1. PICK n \in Nat : n = Cardinality(R)
  BY FS_CardinalityType
<1>2. PICK s : s = Tell!SetToSeq(R)
  OBVIOUS
<1>3. s = CHOOSE f \in [1 .. n -> R] : IsInjective(f)
  BY <1>1, <1>2, TellCardinality DEF Tell!SetToSeq, Tell!IsInjective, IsInjective
<1>4. PICK f : f \in Bijection(1 .. n, R)
  BY <1>1, FS_CardinalityType DEF ExistsBijection
<1>5. f \in [1 .. n -> R] /\ IsInjective(f)
  BY <1>4 DEF Bijection, Injection
<1>6. s \in [1 .. n -> R] /\ IsInjective(s)
  BY <1>3, <1>5
<1>7. s \in Surjection(1 .. n, R)
  <2>1. s \in Injection(1 .. n, R)
    BY <1>6 DEF Injection
  <2>2. Cardinality(1 .. n) = Cardinality(R)
    BY <1>1, CountUpTo
  <2> QED BY <2>1, <2>2, FS_Injection
<1>8. s \in Seq(R) /\ Len(s) = n
  BY <1>6
<1>9. R = {s[i] : i \in 1 .. n}
  BY <1>6, <1>7 DEF Surjection
<1> QED BY <1>2, <1>8, <1>9

\* What a session's end tells.
LEMMA TellEnd ==
    ASSUME TellBounded, TellTyped, TellCounted, TellFailures,
           NEW new, new = Append(Tell!Summaries, Tell!End)
    PROVE  /\ new \in Seq(TellEvents) /\ Whole(new, happened)
           /\ Count("session_end", new) = 1
           /\ Count("session_start", new) = 0 /\ Count("tool_error", new) = 0
<1>1. PICK R : R = {[kind |-> "tool_summary", tool |-> x, calls |-> stats[x].calls,
                 errors |-> stats[x].errors] : x \in {y \in Tools : stats[y].calls > 0}}
  OBVIOUS
<1>2. /\ IsFiniteSet(R) /\ R = Tell!TrueRows(happened)
      /\ R \subseteq [kind : {"tool_summary"}, tool : Tools, calls : Nat, errors : Nat]
  BY <1>1, TellRowsAre
<1>3. PICK s : s = Tell!SetToSeq(R)
  OBVIOUS
<1>4. s \in Seq(R) /\ R = {s[i] : i \in 1 .. Len(s)}
  <2>1. IsFiniteSet(R)
    BY <1>2
  <2> QED BY <1>3, <2>1, TellSequence
<1>5. PICK e : e = Tell!End
  OBVIOUS
<1>6. /\ e \in [kind : {"session_end"}, calls : Nat, dropped : Nat, requests : Nat]
      /\ e.kind = "session_end" /\ e = Tell!TrueEnd(happened)
  <2>1. Tell!Calls = Len(happened.calls) /\ Len(happened.calls) \in Nat
    BY TellCallsAre DEF TellCounted, TellTyped
  <2>2. PICK fails : fails = Tell!Often(happened, Tell!CallsOf(Tools, {FALSE}, {TRUE}))
    OBVIOUS
  <2>3. errorsSent + errorsDropped = fails
    BY <2>2, TellOften DEF TellCounted
  <2>4. /\ errorsSent \in Nat /\ errorsDropped \in Nat /\ ErrorLimit \in Nat
        /\ errorsSent <= ErrorLimit /\ (errorsDropped > 0 => errorsSent = ErrorLimit)
    BY DEF TellTyped, TellBounded, TellFailures
  <2>5. errorsDropped = Tell!Excess(fails)
    BY <2>3, <2>4 DEF Tell!Excess
  <2>6. served = happened.requests /\ served \in Nat
    BY DEF TellCounted, TellTyped
  <2>7. e = Tell!TrueEnd(happened)
    BY <1>5, <2>1, <2>2, <2>5, <2>6 DEF Tell!End, Tell!TrueEnd
  <2> QED BY <1>5, <2>1, <2>4, <2>6, <2>7 DEF Tell!End
<1>7. new = Append(s, e)
  BY <1>1, <1>3, <1>5 DEF Tell!Summaries
<1>8. \A i \in 1 .. Len(s) : s[i] \in R /\ s[i].kind = "tool_summary"
  BY <1>2, <1>4
<1>9. s \in Seq(TellEvents) /\ e \in TellEvents
  <2>1. R \subseteq TellEvents
    BY <1>2 DEF TellEvents
  <2>2. s \in Seq(TellEvents)
    BY <1>4, <2>1
  <2>3. e \in TellEvents
    BY <1>6 DEF TellEvents
  <2> QED BY <2>2, <2>3
<1>10. PICK n \in Nat : n = Len(s)
  BY <1>4
<1>11. /\ new \in Seq(TellEvents) /\ Len(new) = n + 1 /\ new[n + 1] = e
       /\ \A i \in 1 .. n : new[i] = s[i]
  BY <1>7, <1>9, <1>10
<1>12. Of("session_end", new) = {n + 1} /\ Of("session_start", new) = {}
       /\ Of("tool_error", new) = {}
  BY <1>6, <1>8, <1>10, <1>11 DEF Of
<1>13. SummariesIn(new) = R
  <2>1. {k \in 1 .. Len(new) : new[k].kind = "tool_summary"} = 1 .. n
    BY <1>6, <1>8, <1>10, <1>11
  <2> QED BY <1>4, <1>10, <1>11, <2>1 DEF SummariesIn
<1>14. Whole(new, happened)
  BY <1>2, <1>6, <1>11, <1>12, <1>13 DEF Whole
<1> QED BY <1>11, <1>12, <1>14, FS_EmptySet, FS_Singleton DEF Count

\* What is whole stays so: a session that ends tells it all at once.
LEMMA WholeOthers ==
    ASSUME NEW s \in Seq(TellEvents),
           \A i \in 1 .. Len(s) : s[i].kind \notin {"tool_summary", "session_end"}
    PROVE  \A log : Whole(s, log)
BY DEF Whole, Of, SummariesIn

LEMMA WholeNone == \A log : Whole(<<>>, log)
BY DEF Whole, Of, SummariesIn

\* While no end is told, what is whole is so for any log.
LEMMA WholeYet ==
    ASSUME TellBounded, NEW ts \in Seq(TellEvents), NEW tt \in [Threads -> Seq(TellEvents)],
           NEW old, NEW log, WholeAll(ts, tt, old), Total("session_end", ts, tt) = 0
    PROVE  WholeAll(ts, tt, log)
<1>1. ASSUME NEW s \in Seq(TellEvents), Whole(s, old), Count("session_end", s) = 0
      PROVE  Whole(s, log)
  <2>1. Of("session_end", s) = {}
    BY <1>1, CountType, FS_EmptySet DEF Count
  <2> QED BY <1>1, <2>1 DEF Whole
<1>2. Count("session_end", ts) = 0 /\ \A t \in Threads : Count("session_end", tt[t]) = 0
  BY TotalType
<1>3. Whole(ts, log)
  BY <1>1, <1>2 DEF WholeAll
<1>4. ASSUME NEW t \in Threads PROVE Whole(tt[t], log)
  <2>1. tt[t] \in Seq(TellEvents) /\ Whole(tt[t], old)
    BY DEF WholeAll
  <2> QED BY <1>1, <1>2, <2>1
<1> QED BY <1>3, <1>4 DEF WholeAll

LEMMA WholeConcat ==
    ASSUME NEW s \in Seq(TellEvents), NEW u \in Seq(TellEvents), NEW log,
           Whole(s, log), Whole(u, log),
           Of("session_end", s) = {} \/ Of("session_end", u) = {}
    PROVE  Whole(s \o u, log)
<1>1. PICK n \in Nat, m \in Nat : n = Len(s) /\ m = Len(u)
  OBVIOUS
<1>2. PICK w : w = s \o u
  OBVIOUS
<1>3. /\ Len(w) = n + m /\ \A i \in 1 .. n : w[i] = s[i]
      /\ \A i \in 1 .. m : w[n + i] = u[i] /\ n + i \in 1 .. n + m
      /\ \A k \in 1 .. n + m : k \in 1 .. n \/ (k - n \in 1 .. m /\ k = n + (k - n))
  BY <1>1, <1>2
<1>4. SummariesIn(w) = SummariesIn(s) \cup SummariesIn(u)
  <2>1. ASSUME NEW e \in SummariesIn(w) PROVE e \in SummariesIn(s) \cup SummariesIn(u)
    <3>1. PICK k \in 1 .. n + m : w[k].kind = "tool_summary" /\ e = w[k]
      BY <1>3 DEF SummariesIn
    <3>2. CASE k \in 1 .. n
      BY <1>1, <1>3, <3>1, <3>2 DEF SummariesIn
    <3>3. CASE k - n \in 1 .. m /\ k = n + (k - n)
      <4>1. w[k] = u[k - n]
        BY <1>3, <3>3
      <4> QED BY <1>1, <3>1, <3>3, <4>1 DEF SummariesIn
    <3> QED BY <1>3, <3>2, <3>3
  <2>2. ASSUME NEW e \in SummariesIn(s) PROVE e \in SummariesIn(w)
    <3>1. PICK k \in 1 .. n : s[k].kind = "tool_summary" /\ e = s[k]
      BY <1>1 DEF SummariesIn
    <3>2. k \in 1 .. n + m /\ w[k] = s[k]
      BY <1>3
    <3> QED BY <1>3, <3>1, <3>2 DEF SummariesIn
  <2>3. ASSUME NEW e \in SummariesIn(u) PROVE e \in SummariesIn(w)
    <3>1. PICK k \in 1 .. m : u[k].kind = "tool_summary" /\ e = u[k]
      BY <1>1 DEF SummariesIn
    <3>2. n + k \in 1 .. n + m /\ w[n + k] = u[k]
      BY <1>3
    <3> QED BY <1>3, <3>1, <3>2 DEF SummariesIn
  <2> QED BY <2>1, <2>2, <2>3
<1>5. \A i \in Of("session_end", w) : \/ i \in Of("session_end", s) /\ w[i] = s[i]
                                      \/ i - n \in Of("session_end", u) /\ w[i] = u[i - n]
  <2> SUFFICES ASSUME NEW i \in Of("session_end", w)
               PROVE  \/ i \in Of("session_end", s) /\ w[i] = s[i]
                      \/ i - n \in Of("session_end", u) /\ w[i] = u[i - n]
    OBVIOUS
  <2>1. i \in 1 .. n + m /\ w[i].kind = "session_end"
    BY <1>3 DEF Of
  <2>2. CASE i \in 1 .. n
    BY <1>1, <1>3, <2>1, <2>2 DEF Of
  <2>3. CASE i - n \in 1 .. m /\ i = n + (i - n)
    <3>1. w[i] = u[i - n]
      BY <1>3, <2>3
    <3> QED BY <1>1, <2>1, <2>3, <3>1 DEF Of
  <2> QED BY <1>3, <2>1, <2>2, <2>3
<1>6. /\ \A i \in Of("session_end", s) : i \in Of("session_end", w)
      /\ \A i \in Of("session_end", u) : n + i \in Of("session_end", w)
  BY <1>1, <1>3 DEF Of
<1>7. CASE Of("session_end", u) = {}
  <2>1. SummariesIn(w) = SummariesIn(s)
    BY <1>4, <1>7 DEF Whole
  <2> QED BY <1>2, <1>5, <1>6, <1>7, <2>1 DEF Whole
<1>8. CASE Of("session_end", s) = {}
  <2>1. SummariesIn(w) = SummariesIn(u)
    BY <1>4, <1>8 DEF Whole
  <2> QED BY <1>2, <1>5, <1>6, <1>8, <2>1 DEF Whole
<1> QED BY <1>7, <1>8

\* A silent thread is about to tell something.
LEMMA TellSays ==
    ASSUME TellBounded, TellTyped, NEW log, WholeAll(told, telling, log),
           NEW t \in Threads, Tell!Silent(t), NEW new \in Seq(TellEvents), Whole(new, log),
           telling' = [telling EXCEPT ![t] = new], told' = told
    PROVE  /\ telling' \in [Threads -> Seq(TellEvents)] /\ WholeAll(told', telling', log)
           /\ \A kind : Total(kind, told', telling') = Total(kind, told, telling) + Count(kind, new)
<1>1. telling \in [Threads -> Seq(TellEvents)] /\ told \in Seq(TellEvents)
  BY DEF TellTyped
<1>2. /\ telling' \in [Threads -> Seq(TellEvents)] /\ telling'[t] = new
      /\ SameBut(t, telling, telling')
  BY <1>1 DEF SameBut
<1>3. ASSUME NEW kind
      PROVE  Total(kind, told, telling') = Total(kind, told, telling) + Count(kind, new)
  <2>1. Total(kind, told, telling') + Count(kind, telling[t])
          = Total(kind, told, telling) + Count(kind, telling'[t])
    <3>1. PICK after : after = telling'
      OBVIOUS
    <3>2. after \in [Threads -> Seq(TellEvents)] /\ SameBut(t, telling, after)
      BY <1>2, <3>1
    <3>3. Total(kind, told, after) + Count(kind, telling[t])
            = Total(kind, told, telling) + Count(kind, after[t])
      BY <1>1, <3>2, TotalChange
    <3> QED BY <3>1, <3>3
  <2>2. Count(kind, telling[t]) = 0
    BY CountEmpty DEF Tell!Silent
  <2>3. Total(kind, told, telling') \in Nat
    BY <1>1, <1>2, TotalType
  <2> QED BY <1>2, <2>1, <2>2, <2>3
<1>4. WholeAll(told', telling', log)
  BY <1>1 DEF WholeAll
<1> QED BY <1>2, <1>3, <1>4

LEMMA TellInitInv ==
    ASSUME TellBounded, Tell!Init
    PROVE  TellInv
<1> USE DEF Tell!Init
<1>1. TellTyped
  <2>1. telling \in [Threads -> Seq(TellEvents)]
    OBVIOUS
  <2>2. queue \in Seq(TellEvents) /\ batch \in Seq(TellEvents) /\ told \in Seq(TellEvents)
    OBVIOUS
  <2>3. stats \in [Tools -> [calls : Nat, errors : Nat]]
          /\ streak \in [tool : Tools \cup {"none"}, length : Nat]
    BY DEF Tell!NoStreak
  <2>4. /\ happened \in [requests : Nat, calls : Seq(TellCalls)]
        /\ summed \in [requests : Nat, calls : Seq(TellCalls)]
    OBVIOUS
  <2> QED BY <2>1, <2>2, <2>3, <2>4 DEF TellTyped
<1>2. ASSUME NEW kind PROVE Total(kind, told, telling) = 0
  <2>1. Count(kind, told) = 0 /\ \A t \in Threads : Count(kind, telling[t]) = 0
    BY CountEmpty
  <2>2. SumOf([t \in Threads |-> Count(kind, telling[t])], Threads) = 0
    BY <2>1, SumZero
  <2> QED BY <2>1, <2>2 DEF Total
<1>3. TellCounted
  <2>1. SumOf([x \in Tools |-> stats[x].calls], Tools) = 0
    BY SumZero
  <2>2. happened.calls = <<>> /\ happened.requests = 0 /\ Len(<<>>) = 0
    OBVIOUS
  <2>3. TellRows(stats, <<>>)
    BY OftenNone DEF TellRows, TellRow
  <2> QED BY <2>1, <2>2, <2>3, OftenNone DEF TellCounted
<1>4. TellSession /\ TellFailures
  BY <1>2, <1>3 DEF TellSession, TellFailures, TellBounded
<1>5. TellWhole
  BY WholeNone DEF TellWhole, WholeAll
<1>6. TellQueued
  BY DEF TellQueued, TellBounded
<1> QED BY <1>1, <1>3, <1>4, <1>5, <1>6 DEF TellInv

LEMMA TellRequests ==
    ASSUME TellBounded, TellInv, NEW t \in Threads,
           Tell!RecordSessionStart(t) \/ \E b \in BOOLEAN : Tell!RecordRequest(t, b)
    PROVE  TellInv'
<1> USE DEF TellInv
<1>1. PICK starts \in BOOLEAN, rest \in {<<>>, <<[kind |-> "handshake"]>>} :
         /\ Tell!Silent(t)
         /\ starts => ~active /\ ~finished
         /\ active' = (active \/ starts)
         /\ telling' = [telling EXCEPT ![t] = (IF starts THEN <<Tell!Start>> ELSE <<>>) \o rest]
  <2>1. CASE Tell!RecordSessionStart(t)
    <3> WITNESS (~active /\ ~finished) \in BOOLEAN, <<[kind |-> "handshake"]>> \in {<<>>, <<[kind |-> "handshake"]>>}
    <3> QED BY <2>1 DEF Tell!RecordSessionStart, Tell!Activates
  <2>2. ASSUME NEW b \in BOOLEAN, Tell!RecordRequest(t, b)
        PROVE  \E starts \in BOOLEAN, rest \in {<<>>, <<[kind |-> "handshake"]>>} :
         /\ Tell!Silent(t)
         /\ starts => ~active /\ ~finished
         /\ active' = (active \/ starts)
         /\ telling' = [telling EXCEPT ![t] = (IF starts THEN <<Tell!Start>> ELSE <<>>) \o rest]
    <3> WITNESS (~b /\ Tell!Activates) \in BOOLEAN, <<>> \in {<<>>, <<[kind |-> "handshake"]>>}
    <3> QED BY <2>2 DEF Tell!RecordRequest, Tell!Activates
  <2> QED BY <2>1, <2>2
<1>0. /\ UNCHANGED <<finished, stats, streak, errorsSent, errorsDropped, queue, batch, told,
                     overflowed, posted, summed>>
      /\ \/ served' = served /\ happened' = happened
         \/ served' = served + 1 /\ happened' = [happened EXCEPT !.requests = @ + 1]
  BY DEF Tell!RecordSessionStart, Tell!RecordRequest, Tell!counters, Tell!sender, Tell!history
<1>2. PICK new : new = (IF starts THEN <<Tell!Start>> ELSE <<>>) \o rest
  OBVIOUS
<1>3. /\ new \in Seq(TellEvents)
      /\ \A i \in 1 .. Len(new) : new[i].kind \in {"session_start", "handshake"}
      /\ Count("session_start", new) = IF starts THEN 1 ELSE 0
      /\ Count("session_end", new) = 0 /\ Count("tool_error", new) = 0
  <2>1. rest \in Seq(TellEvents) /\ <<Tell!Start>> \in Seq(TellEvents)
    <3>1. PICK h : h = [kind |-> "handshake"]
      OBVIOUS
    <3>2. Tell!Start \in TellEvents /\ h \in TellEvents
      BY <3>1 DEF TellEvents
    <3>3. <<>> \in Seq(TellEvents) /\ <<h>> \in Seq(TellEvents) /\ <<Tell!Start>> \in Seq(TellEvents)
      BY <3>2
    <3> QED BY <3>1, <3>3
  <2>2. /\ Count("session_start", rest) = 0 /\ Count("session_end", rest) = 0
        /\ Count("tool_error", rest) = 0
    BY CountEmpty, CountOne
  <2>3. /\ Count("session_start", <<Tell!Start>>) = 1 /\ Count("session_end", <<Tell!Start>>) = 0
        /\ Count("tool_error", <<Tell!Start>>) = 0
    BY CountOne DEF Tell!Start
  <2>4. CASE starts
    <3>1. new = <<Tell!Start>> \o rest
      BY <1>2, <2>4
    <3>2. \A kind : Count(kind, new) = Count(kind, <<Tell!Start>>) + Count(kind, rest)
      BY <2>1, <3>1, CountConcat
    <3>3. new \in Seq(TellEvents) /\ \A i \in 1 .. Len(new) : new[i].kind \in {"session_start", "handshake"}
      BY <2>1, <3>1 DEF Tell!Start
    <3> QED BY <2>2, <2>3, <2>4, <3>2, <3>3
  <2>5. CASE ~starts
    <3>1. new = rest
      BY <1>2, <2>1, <2>5
    <3> QED BY <2>1, <2>2, <2>5, <3>1
  <2> QED BY <2>4, <2>5
<1>4. Whole(new, summed)
  BY <1>3, WholeOthers
<1>5. /\ telling' \in [Threads -> Seq(TellEvents)] /\ WholeAll(told', telling', summed)
      /\ \A kind : Total(kind, told', telling') = Total(kind, told, telling) + Count(kind, new)
  <2>1. told' = told /\ telling' = [telling EXCEPT ![t] = new]
    BY <1>0, <1>1, <1>2
  <2>2. WholeAll(told, telling, summed) /\ Tell!Silent(t) /\ new \in Seq(TellEvents)
    BY <1>1, <1>3 DEF TellWhole
  <2> QED BY <1>4, <2>1, <2>2, TellSays
<1>11. TellWhole'
  BY <1>0, <1>5 DEF TellWhole
<1>12. /\ happened'.calls = happened.calls /\ served' = happened'.requests
       /\ happened' \in [requests : Nat, calls : Seq(TellCalls)] /\ served' \in Nat
  <2>1. happened \in [requests : Nat, calls : Seq(TellCalls)]
    BY DEF TellTyped
  <2>2. served = happened.requests /\ served \in Nat
    BY DEF TellTyped, TellCounted
  <2> QED BY <1>0, <2>1, <2>2
<1>13. TellCounted'
  BY <1>0, <1>12 DEF TellCounted
<1>6. /\ Total("session_start", told, telling) \in Nat /\ Total("session_end", told, telling) \in Nat
      /\ Total("tool_error", told, telling) \in Nat
  BY TotalType DEF TellTyped
<1>7. TellTyped'
  BY <1>0, <1>1, <1>5, <1>12 DEF TellTyped
<1>8. TellSession'
  <2>1. CASE starts
    <3>1. active' = TRUE /\ active = FALSE /\ finished' = FALSE /\ finished = FALSE
      <4>1. /\ ~active /\ ~finished /\ active' = (active \/ starts) /\ finished' = finished
            /\ active \in BOOLEAN /\ finished \in BOOLEAN
        BY <1>0, <1>1, <2>1 DEF TellTyped
      <4> QED BY <2>1, <4>1
    <3> QED BY <1>3, <1>5, <1>6, <2>1, <3>1 DEF TellSession
  <2>2. CASE ~starts
    <3>1. active' = active /\ finished' = finished
      BY <1>0, <1>1, <2>2 DEF TellTyped
    <3> QED BY <1>3, <1>5, <1>6, <2>2, <3>1 DEF TellSession
  <2> QED BY <2>1, <2>2
<1>9. TellFailures'
  <2>1. errorsSent' = errorsSent /\ errorsDropped' = errorsDropped
    BY <1>0
  <2> QED BY <1>3, <1>5, <1>6, <2>1 DEF TellFailures
<1>10. TellQueued'
  BY <1>0 DEF TellQueued
<1> QED BY <1>7, <1>8, <1>9, <1>10, <1>11, <1>13

\* The rows and their sum, a call later.
LEMMA TellRowsLater ==
    ASSUME NEW table \in [Tools -> [calls : Nat, errors : Nat]], NEW calls \in Seq(TellCalls),
           TellRows(table, calls), NEW x \in Tools, NEW ok \in BOOLEAN,
           NEW c \in TellCalls, c.tool = x, c.ok = ok,
           NEW later, later = [table EXCEPT ![x] = Tell!Counted(@, ok)]
    PROVE  TellRows(later, Append(calls, c))
<1>1. ASSUME NEW y \in Tools
      PROVE  /\ c \in Tell!CallsOf({y}, BOOLEAN, BOOLEAN) <=> y = x
             /\ c \in Tell!CallsOf({y}, {FALSE}, BOOLEAN) <=> y = x /\ ~ok
  BY DEF TellCalls, Tell!CallsOf
<1>2. ASSUME NEW y \in Tools PROVE TellRow(later[y], y, Append(calls, c))
  <2>1. PICK all, fails : /\ all = Tell!CallsOf({y}, BOOLEAN, BOOLEAN)
                          /\ fails = Tell!CallsOf({y}, {FALSE}, BOOLEAN)
    OBVIOUS
  <2>2. table[y].calls = OftenIn(calls, all) /\ table[y].errors = OftenIn(calls, fails)
    BY <2>1 DEF TellRows, TellRow
  <2>3. /\ OftenIn(Append(calls, c), all) = OftenIn(calls, all) + IF y = x THEN 1 ELSE 0
        /\ OftenIn(Append(calls, c), fails) = OftenIn(calls, fails) + IF y = x /\ ~ok THEN 1 ELSE 0
    BY <1>1, <2>1, OftenAppend
  <2>4. later[y] = IF y = x THEN Tell!Counted(table[x], ok) ELSE table[y]
    OBVIOUS
  <2>5. table[y].calls \in Nat /\ table[y].errors \in Nat
    OBVIOUS
  <2>6. /\ later[y].calls = OftenIn(Append(calls, c), all)
        /\ later[y].errors = OftenIn(Append(calls, c), fails)
    BY <2>2, <2>3, <2>4, <2>5 DEF Tell!Counted
  <2> QED BY <2>1, <2>6 DEF TellRow
<1> QED BY <1>2 DEF TellRows

\* A sum of which one member grew by one.
LEMMA SumOneMore ==
    ASSUME NEW S, IsFiniteSet(S), NEW x \in S, NEW f, NEW g,
           \A y \in S : f[y] \in Nat /\ g[y] \in Nat,
           \A y \in S \ {x} : f[y] = g[y], g[x] = f[x] + 1
    PROVE  SumOf(g, S) = SumOf(f, S) + 1
<1>1. SumOf(g, S) + f[x] = SumOf(f, S) + g[x]
  BY SumChange
<1>2. SumOf(f, S) \in Nat /\ SumOf(g, S) \in Nat
  BY SumType
<1> QED BY <1>1, <1>2

LEMMA TellServes ==
    ASSUME TellBounded, TellInv, NEW t \in Threads, NEW x \in Tools, NEW ok \in BOOLEAN,
           Tell!RecordToolCall(t, x, ok)
    PROVE  TellInv'
<1> USE DEF TellInv
<1>1. PICK tells \in BOOLEAN : tells = (~ok /\ active /\ errorsSent < ErrorLimit)
  OBVIOUS
<1>2. PICK e : e = [kind |-> "tool_error", tool |-> x, row |-> streak'.length]
  OBVIOUS
<1>14. PICK c : c = [tool |-> x, ok |-> ok, session |-> active]
  OBVIOUS
<1>3. /\ Tell!Silent(t)
      /\ stats' = [stats EXCEPT ![x] = Tell!Counted(@, ok)]
      /\ streak' = IF ok THEN Tell!NoStreak
                   ELSE [tool |-> x, length |-> IF streak.tool = x THEN streak.length + 1 ELSE 1]
      /\ errorsSent' = errorsSent + (IF tells THEN 1 ELSE 0)
      /\ errorsDropped' = errorsDropped + (IF ~ok /\ active /\ ~tells THEN 1 ELSE 0)
      /\ telling' = [telling EXCEPT ![t] = IF tells THEN <<e>> ELSE <<>>]
      /\ UNCHANGED <<active, finished, served, queue, batch, told, overflowed, posted, summed>>
  BY <1>1, <1>2, <1>14 DEF Tell!RecordToolCall, Tell!sender
<1>19. happened' = [happened EXCEPT !.calls = Append(@, c)]
  BY <1>14 DEF Tell!RecordToolCall
<1>4. PICK new : new = IF tells THEN <<e>> ELSE <<>>
  OBVIOUS
<1>5. streak' \in [tool : Tools \cup {"none"}, length : Nat]
  BY <1>3 DEF TellTyped, Tell!NoStreak
<1>6. e \in TellEvents /\ e.kind = "tool_error"
  BY <1>2, <1>5 DEF TellEvents
<1>7. /\ new \in Seq(TellEvents) /\ \A log : Whole(new, log)
      /\ Count("session_start", new) = 0 /\ Count("session_end", new) = 0
      /\ Count("tool_error", new) = IF tells THEN 1 ELSE 0
  <2>1. CASE tells
    <3>1. new = <<e>>
      BY <1>4, <2>1
    <3>2. new \in Seq(TellEvents) /\ \A i \in 1 .. Len(new) : new[i].kind = "tool_error"
      BY <1>6, <3>1
    <3>3. \A log : Whole(new, log)
      BY <3>2, WholeOthers
    <3> QED BY <1>6, <2>1, <3>1, <3>2, <3>3, CountOne
  <2>2. CASE ~tells
    <3>1. new = <<>> /\ <<>> \in Seq(TellEvents)
      BY <1>4, <2>2
    <3> QED BY <2>2, <3>1, WholeNone, CountEmpty
  <2> QED BY <2>1, <2>2
<1>8. /\ telling' \in [Threads -> Seq(TellEvents)] /\ WholeAll(told', telling', summed)
      /\ \A kind : Total(kind, told', telling') = Total(kind, told, telling) + Count(kind, new)
  <2>1. telling' = [telling EXCEPT ![t] = new] /\ told' = told
    BY <1>3, <1>4
  <2> QED BY <1>3, <1>7, <2>1, TellSays DEF TellWhole
<1>15. TellWhole'
  BY <1>3, <1>8 DEF TellWhole
<1>16. /\ c \in TellCalls /\ c.tool = x /\ c.ok = ok /\ c.session = active
       /\ happened.calls \in Seq(TellCalls) /\ happened'.calls = Append(happened.calls, c)
       /\ happened' \in [requests : Nat, calls : Seq(TellCalls)]
       /\ happened'.requests = happened.requests
  <2>1. c \in TellCalls /\ c.tool = x /\ c.ok = ok /\ c.session = active
    BY <1>14 DEF TellTyped, TellCalls
  <2>2. happened \in [requests : Nat, calls : Seq(TellCalls)]
    BY DEF TellTyped
  <2>3. Append(happened.calls, c) \in Seq(TellCalls)
    BY <2>1, <2>2
  <2> QED BY <1>19, <2>1, <2>2, <2>3
<1>9. /\ Total("session_start", told, telling) \in Nat /\ Total("session_end", told, telling) \in Nat
      /\ Total("tool_error", told, telling) \in Nat
  BY TotalType DEF TellTyped
<1>10. TellTyped'
  <2>1. stats' \in [Tools -> [calls : Nat, errors : Nat]]
    BY <1>3 DEF TellTyped, Tell!Counted
  <2>2. errorsSent' \in Nat /\ errorsDropped' \in Nat
    BY <1>3 DEF TellTyped
  <2> QED BY <1>3, <1>5, <1>8, <1>16, <2>1, <2>2 DEF TellTyped
<1>11. TellSession'
  <2>1. active' = active /\ finished' = finished
    BY <1>3
  <2> QED BY <1>7, <1>8, <1>9, <2>1 DEF TellSession
<1>12. /\ errorsSent' \in Nat /\ errorsDropped' \in Nat
       /\ errorsSent' <= ErrorLimit /\ (errorsDropped' > 0 => errorsSent' = ErrorLimit)
       /\ errorsSent' + errorsDropped' =
             errorsSent + errorsDropped + (IF ~ok /\ active THEN 1 ELSE 0)
       /\ errorsSent' = errorsSent + (IF tells THEN 1 ELSE 0)
  <2>1. /\ errorsSent \in Nat /\ errorsDropped \in Nat /\ ErrorLimit \in Nat
        /\ errorsSent <= ErrorLimit /\ (errorsDropped > 0 => errorsSent = ErrorLimit)
    BY DEF TellTyped, TellBounded, TellFailures
  <2>2. /\ errorsSent' = errorsSent + (IF tells THEN 1 ELSE 0)
        /\ errorsDropped' = errorsDropped + (IF ~ok /\ active /\ ~tells THEN 1 ELSE 0)
    BY <1>3
  <2>3. CASE tells
    <3>1. ~ok /\ active /\ errorsSent < ErrorLimit
      BY <1>1, <2>3
    <3> QED BY <2>1, <2>2, <2>3, <3>1
  <2>4. CASE ~tells /\ ~ok /\ active
    <3>1. ~(errorsSent < ErrorLimit)
      BY <1>1, <2>4
    <3> QED BY <2>1, <2>2, <2>4, <3>1
  <2>5. CASE ~tells /\ ~(~ok /\ active)
    BY <2>1, <2>2, <2>5
  <2> QED BY <2>3, <2>4, <2>5
<1>17. TellFailures'
  <2>1. Total("tool_error", told', telling') = errorsSent'
    BY <1>7, <1>8, <1>9, <1>12 DEF TellFailures
  <2> QED BY <1>12, <2>1 DEF TellFailures
<1>18. TellCounted'
  <2>1. TellRows(stats', Append(happened.calls, c))
    BY <1>3, <1>16, TellRowsLater DEF TellTyped, TellCounted
  <2>2. SumOf([y \in Tools |-> stats'[y].calls], Tools) = Len(happened.calls) + 1
    <3>1. PICK f, g : /\ f = [y \in Tools |-> stats[y].calls]
                      /\ g = [y \in Tools |-> stats'[y].calls]
      OBVIOUS
    <3>2. /\ \A y \in Tools : f[y] \in Nat /\ g[y] \in Nat
          /\ \A y \in Tools \ {x} : f[y] = g[y]
          /\ g[x] = f[x] + 1
      BY <1>3, <3>1 DEF TellTyped, Tell!Counted
    <3>3. IsFiniteSet(Tools)
      BY DEF TellBounded
    <3>4. SumOf(g, Tools) = SumOf(f, Tools) + 1
      BY <3>2, <3>3, SumOneMore
    <3>5. SumOf(f, Tools) = Len(happened.calls)
      BY <3>1 DEF TellCounted
    <3> QED BY <3>1, <3>4, <3>5
  <2>3. Len(Append(happened.calls, c)) = Len(happened.calls) + 1
    BY <1>16
  <2>4. OftenIn(Append(happened.calls, c), Tell!CallsOf(Tools, {FALSE}, {TRUE}))
          = OftenIn(happened.calls, Tell!CallsOf(Tools, {FALSE}, {TRUE}))
              + (IF ~ok /\ active THEN 1 ELSE 0)
    <3>1. c \in Tell!CallsOf(Tools, {FALSE}, {TRUE}) <=> ~ok /\ active
      BY <1>14 DEF Tell!CallsOf, TellTyped
    <3> QED BY <1>16, <3>1, OftenAppend
  <2>5. served' = happened'.requests
    BY <1>3, <1>16 DEF TellCounted
  <2> QED BY <1>12, <1>16, <2>1, <2>2, <2>3, <2>4, <2>5 DEF TellCounted
<1>13. TellQueued'
  BY <1>3 DEF TellQueued
<1> QED BY <1>10, <1>11, <1>13, <1>15, <1>17, <1>18

LEMMA TellFinishes ==
    ASSUME TellBounded, TellInv, NEW t \in Threads, Tell!Finish(t)
    PROVE  TellInv'
<1> USE DEF TellInv
<1>1. PICK new : new = IF active THEN Append(Tell!Summaries, Tell!End) ELSE <<>>
  OBVIOUS
<1>2. /\ Tell!Silent(t) /\ finished = FALSE /\ finished' = TRUE
      /\ telling' = [telling EXCEPT ![t] = new]
      /\ UNCHANGED <<active, served, stats, streak, errorsSent, errorsDropped, queue, batch, told,
                     overflowed, posted, happened>>
      /\ summed' = happened
  BY <1>1 DEF Tell!Finish, Tell!counters, Tell!sender, TellTyped
<1>3. /\ new \in Seq(TellEvents) /\ Whole(new, happened)
      /\ Count("session_start", new) = 0 /\ Count("tool_error", new) = 0
      /\ Count("session_end", new) = IF active THEN 1 ELSE 0
  <2>1. CASE active
    <3>1. new = Append(Tell!Summaries, Tell!End)
      BY <1>1, <2>1
    <3> QED BY <2>1, <3>1, TellEnd
  <2>2. CASE ~active
    <3>1. new = <<>> /\ <<>> \in Seq(TellEvents)
      BY <1>1, <2>2
    <3> QED BY <2>2, <3>1, WholeNone, CountEmpty
  <2> QED BY <2>1, <2>2
<1>4. /\ telling' \in [Threads -> Seq(TellEvents)] /\ WholeAll(told', telling', happened)
      /\ \A kind : Total(kind, told', telling') = Total(kind, told, telling) + Count(kind, new)
  <2>1. told' = told
    BY <1>2
  <2>2. Total("session_end", told, telling) = 0
    BY <1>2 DEF TellSession
  <2>3. WholeAll(told, telling, happened)
    BY <2>2, WholeYet DEF TellTyped, TellWhole
  <2> QED BY <1>2, <1>3, <2>1, <2>3, TellSays
<1>10. TellWhole'
  BY <1>2, <1>4 DEF TellWhole
<1>11. TellCounted'
  BY <1>2 DEF TellCounted
<1>5. /\ Total("session_start", told, telling) \in Nat /\ Total("session_end", told, telling) \in Nat
      /\ Total("tool_error", told, telling) \in Nat
  BY TotalType DEF TellTyped
<1>6. TellTyped'
  BY <1>2, <1>4 DEF TellTyped
<1>7. TellSession'
  <2>1. active' = active /\ finished' = TRUE /\ finished = FALSE
    BY <1>2
  <2> QED BY <1>3, <1>4, <1>5, <2>1 DEF TellSession
<1>8. TellFailures'
  <2>1. stats' = stats /\ errorsSent' = errorsSent /\ errorsDropped' = errorsDropped
    BY <1>2
  <2> QED BY <1>3, <1>4, <1>5, <2>1 DEF TellFailures
<1>9. TellQueued'
  BY <1>2 DEF TellQueued
<1> QED BY <1>6, <1>7, <1>8, <1>9, <1>10, <1>11

\* The lesser of two numbers.
LEMMA TellLesser ==
    ASSUME NEW a \in Nat, NEW b \in Nat
    PROVE  /\ Tell!Min({a, b}) \in Nat
           /\ Tell!Min({a, b}) <= a /\ Tell!Min({a, b}) <= b
<1>1. \E x \in {a, b} : \A y \in {a, b} : x <= y
  OBVIOUS
<1>2. Tell!Min({a, b}) \in {a, b} /\ \A y \in {a, b} : Tell!Min({a, b}) <= y
  BY <1>1 DEF Tell!Min
<1> QED BY <1>2

LEMMA TellEnqueues ==
    ASSUME TellBounded, TellInv, NEW t \in Threads, Tell!Enqueue(t)
    PROVE  TellInv'
<1> USE DEF TellInv
<1>1. /\ telling \in [Threads -> Seq(TellEvents)] /\ told \in Seq(TellEvents)
      /\ queue \in Seq(TellEvents) /\ batch \in Seq(TellEvents)
      /\ Len(queue) <= QueueLimit
  BY DEF TellTyped, TellQueued
<1>2. PICK s \in Seq(TellEvents) : s = telling[t]
  BY <1>1
<1>3. PICK taken : taken = Tell!Min({QueueLimit - Len(queue), Len(s)})
  OBVIOUS
<1>4. /\ queue' = queue \o SubSeq(s, 1, taken)
      /\ overflowed' = overflowed + Len(s) - taken
      /\ told' = told \o s
      /\ telling' = [telling EXCEPT ![t] = <<>>]
      /\ UNCHANGED <<active, finished, served, stats, streak, errorsSent, errorsDropped, batch,
                     posted, happened, summed>>
  BY <1>2, <1>3 DEF Tell!Enqueue, Tell!counters, Tell!history
<1>5. taken \in Nat /\ taken <= QueueLimit - Len(queue) /\ taken <= Len(s)
  <2>1. QueueLimit - Len(queue) \in Nat /\ Len(s) \in Nat
    BY <1>1, <1>2 DEF TellBounded
  <2> QED BY <1>3, <2>1, TellLesser
<1>6. /\ SubSeq(s, 1, taken) \in Seq(TellEvents) /\ Len(SubSeq(s, 1, taken)) = taken
  BY <1>2, <1>5
<1>7. /\ queue' \in Seq(TellEvents) /\ Len(queue') = Len(queue) + taken
      /\ told' \in Seq(TellEvents) /\ Len(told') = Len(told) + Len(s)
      /\ Len(s) \in Nat /\ Len(queue) \in Nat /\ Len(told) \in Nat /\ Len(batch) \in Nat
  BY <1>1, <1>2, <1>4, <1>6
<1>8. telling' \in [Threads -> Seq(TellEvents)] /\ telling'[t] = <<>> /\ SameBut(t, telling, telling')
  BY <1>1, <1>4 DEF SameBut
<1>9. ASSUME NEW kind
      PROVE  Total(kind, told', telling') = Total(kind, told, telling)
  <2>1. PICK after : after = telling'
    OBVIOUS
  <2>2. after \in [Threads -> Seq(TellEvents)] /\ SameBut(t, telling, after)
    BY <1>8, <2>1
  <2>3. Count(kind, after[t]) = 0
    BY <1>8, <2>1, CountEmpty
  <2>4. Total(kind, told \o telling[t], after) = Total(kind, told, telling)
    BY <1>1, <2>2, <2>3, TotalEnqueued
  <2> QED BY <1>2, <1>4, <2>1, <2>4
<1>10. TellTyped'
  <2>1. overflowed' \in Nat
    BY <1>4, <1>5, <1>7 DEF TellTyped
  <2> QED BY <1>4, <1>7, <1>8, <2>1 DEF TellTyped
<1>11. TellSession' /\ TellFailures' /\ TellCounted'
  <2>1. /\ active' = active /\ finished' = finished
        /\ stats' = stats /\ errorsSent' = errorsSent /\ errorsDropped' = errorsDropped
        /\ served' = served /\ happened' = happened
    BY <1>4
  <2> QED BY <1>9, <2>1 DEF TellSession, TellFailures, TellCounted
<1>12. TellWhole'
  <2>1. Whole(told, summed) /\ Whole(s, summed)
    BY <1>2 DEF TellWhole, WholeAll
  <2>2. Of("session_end", told) = {} \/ Of("session_end", s) = {}
    <3>1. /\ Count("session_end", told) \in Nat /\ Count("session_end", s) \in Nat
          /\ Total("session_end", told, telling) \in Nat
          /\ Count("session_end", told) + Count("session_end", s)
                <= Total("session_end", told, telling)
      BY <1>1, <1>2, TotalType
    <3>2. Total("session_end", told, telling) <= 1
      BY <3>1 DEF TellSession
    <3>3. Count("session_end", told) = 0 \/ Count("session_end", s) = 0
      BY <3>1, <3>2
    <3>4. IsFiniteSet(Of("session_end", told)) /\ IsFiniteSet(Of("session_end", s))
      BY <1>1, <1>2, CountType
    <3> QED BY <3>3, <3>4, FS_EmptySet DEF Count
  <2>3. Whole(told', summed)
    BY <1>1, <1>2, <1>4, <2>1, <2>2, WholeConcat
  <2>4. Whole(<<>>, summed) /\ summed' = summed
    BY <1>4, WholeNone
  <2>5. \A u \in Threads : telling'[u] = telling[u] \/ telling'[u] = <<>>
    BY <1>1, <1>4
  <2> QED BY <2>3, <2>4, <2>5 DEF TellWhole, WholeAll
<1>13. TellQueued'
  <2>1. Len(told) = overflowed + posted + Len(batch) + Len(queue) /\ Len(queue) <= QueueLimit
    BY DEF TellQueued
  <2>2. overflowed \in Nat /\ posted \in Nat /\ QueueLimit \in Nat
    BY DEF TellTyped, TellBounded
  <2>3. batch' = batch /\ posted' = posted
    BY <1>4
  <2>4. overflowed' = overflowed + Len(s) - taken
    BY <1>4
  <2>5. Len(told') = overflowed' + posted' + Len(batch') + Len(queue')
    BY <1>5, <1>7, <2>1, <2>2, <2>3, <2>4
  <2>6. Len(queue') <= QueueLimit
    BY <1>5, <1>7, <2>2
  <2> QED BY <2>5, <2>6 DEF TellQueued
<1> QED BY <1>10, <1>11, <1>12, <1>13

LEMMA TellSends ==
    ASSUME TellBounded, TellInv, Tell!Take \/ Tell!Post \/ UNCHANGED tellVars
    PROVE  TellInv'
<1> USE DEF TellInv
<1>1. /\ UNCHANGED <<active, finished, served, stats, streak, errorsSent, errorsDropped, telling,
                     told, overflowed, happened, summed>>
      /\ \/ batch = <<>> /\ batch' = queue /\ queue' = <<>> /\ posted' = posted
         \/ batch' = <<>> /\ queue' = queue /\ posted' = posted + Len(batch)
         \/ batch' = batch /\ queue' = queue /\ posted' = posted
  BY DEF Tell!Take, Tell!Post, tellVars, Tell!counters, Tell!history
<1>2. PICK none \in Seq(TellEvents) : none = <<>> /\ Len(none) = 0
  <2>1. <<>> \in Seq(TellEvents) /\ Len(<<>>) = 0
    OBVIOUS
  <2> QED BY <2>1
<1>3. /\ \A s \in Seq(TellEvents) : Len(s) \in Nat
      /\ batch \in Seq(TellEvents) /\ queue \in Seq(TellEvents) /\ posted \in Nat
      /\ Len(told) = overflowed + posted + Len(batch) + Len(queue) /\ Len(queue) <= QueueLimit
      /\ overflowed \in Nat /\ QueueLimit \in Nat
  BY DEF TellTyped, TellQueued, TellBounded
<1>4. /\ batch' \in Seq(TellEvents) /\ queue' \in Seq(TellEvents) /\ posted' \in Nat
      /\ Len(told) = overflowed + posted' + Len(batch') + Len(queue') /\ Len(queue') <= QueueLimit
  <2>1. CASE batch = <<>> /\ batch' = queue /\ queue' = <<>> /\ posted' = posted
    <3>1. batch = none /\ queue' = none
      BY <1>2, <2>1
    <3> QED BY <1>2, <1>3, <2>1, <3>1
  <2>2. CASE batch' = <<>> /\ queue' = queue /\ posted' = posted + Len(batch)
    <3>1. batch' = none /\ posted' \in Nat
      BY <1>2, <1>3, <2>2
    <3> QED BY <1>2, <1>3, <2>2, <3>1
  <2>3. CASE batch' = batch /\ queue' = queue /\ posted' = posted
    BY <1>3, <2>3
  <2> QED BY <1>1, <2>1, <2>2, <2>3
<1>5. TellSession' /\ TellFailures' /\ TellWhole' /\ TellCounted'
  <2>1. /\ active' = active /\ finished' = finished /\ stats' = stats /\ told' = told
        /\ telling' = telling /\ errorsSent' = errorsSent /\ errorsDropped' = errorsDropped
        /\ served' = served /\ happened' = happened /\ summed' = summed
    BY <1>1
  <2> QED BY <2>1 DEF TellSession, TellFailures, TellWhole, TellCounted
<1>6. TellTyped' /\ TellQueued'
  BY <1>1, <1>4 DEF TellTyped, TellQueued
<1> QED BY <1>5, <1>6

LEMMA TellPreserved ==
    ASSUME TellBounded, TellInv, [Tell!Next]_tellVars
    PROVE  TellInv'
<1>1. ASSUME NEW t \in Threads,
             \/ Tell!RecordSessionStart(t) \/ Tell!Finish(t) \/ Tell!Enqueue(t)
             \/ \E b \in BOOLEAN : Tell!RecordRequest(t, b)
             \/ \E x \in Tools, ok \in BOOLEAN : Tell!RecordToolCall(t, x, ok)
      PROVE  TellInv'
  BY <1>1, TellRequests, TellServes, TellFinishes, TellEnqueues
<1> QED BY <1>1, TellSends DEF Tell!Next

LEMMA TellImplies ==
    ASSUME TellBounded, TellInv
    PROVE  Tell!TelemetryAddsUp
<1> USE DEF TellInv
<1>1. told \in Seq(TellEvents) /\ telling \in [Threads -> Seq(TellEvents)]
  BY DEF TellTyped
<1>2. \A kind : Tell!Times(kind) = Count(kind, told)
  BY TellCardinality DEF Tell!Times, Count, Of
<1>3. ASSUME NEW kind
      PROVE  /\ Count(kind, told) \in Nat /\ Total(kind, told, telling) \in Nat
             /\ Count(kind, told) <= Total(kind, told, telling)
             /\ Tell!AllSilent => Count(kind, told) = Total(kind, told, telling)
  <2>1. /\ Count(kind, told) \in Nat /\ Total(kind, told, telling) \in Nat
        /\ Count(kind, told) <= Total(kind, told, telling)
    BY <1>1, TotalType
  <2>2. ASSUME Tell!AllSilent PROVE Count(kind, told) = Total(kind, told, telling)
    <3>1. \A t \in Threads : Count(kind, telling[t]) = 0
      BY <2>2, CountEmpty DEF Tell!AllSilent, Tell!Silent
    <3>2. SumOf([t \in Threads |-> Count(kind, telling[t])], Threads) = 0
      BY <3>1, SumZero
    <3> QED BY <2>1, <3>2 DEF Total
  <2> QED BY <2>1, <2>2
<1>4. /\ Tell!Times("session_start") <= 1 /\ Tell!Times("session_end") <= 1
      /\ Tell!Times("tool_error") <= ErrorLimit
  <2>1. Total("session_start", told, telling) <= 1 /\ Total("session_end", told, telling) <= 1
    BY <1>3 DEF TellSession
  <2>2. Total("tool_error", told, telling) <= ErrorLimit
    BY DEF TellFailures
  <2> QED BY <1>2, <1>3, <2>1, <2>2 DEF TellBounded
<1>5. Whole(told, summed) /\ Tell!ToldOf("tool_summary") = SummariesIn(told)
  BY DEF TellWhole, WholeAll, Tell!ToldOf, SummariesIn
<1>7. Tell!ToldOf("session_end") = {told[i] : i \in Of("session_end", told)}
  BY DEF Tell!ToldOf, Of
<1>8. Tell!ToldOf("tool_summary") # {} => Tell!ToldOf("session_end") # {}
  BY <1>5, <1>7 DEF Whole
<1>9. ASSUME Tell!ToldOf("session_end") # {}
      PROVE  /\ active /\ finished
             /\ Tell!ToldOf("session_end") = {Tell!TrueEnd(summed)}
             /\ Tell!ToldOf("tool_summary") = Tell!TrueRows(summed)
  <2>1. Of("session_end", told) # {}
    BY <1>7, <1>9
  <2>2. Count("session_end", told) # 0
    BY <1>1, <2>1, CountType, FS_EmptySet DEF Count
  <2>3. active /\ finished
    BY <1>3, <2>2 DEF TellSession
  <2> QED BY <1>5, <1>7, <2>1, <2>3 DEF Whole
<1>6. Tell!AllSilent =>
          /\ Tell!Times("session_start") = (IF active THEN 1 ELSE 0)
          /\ Tell!Times("session_end") = (IF active /\ finished THEN 1 ELSE 0)
          /\ Tell!Times("tool_error") = errorsSent
  BY <1>2, <1>3 DEF TellSession, TellFailures
<1>10. errorsSent + errorsDropped
         = Tell!Often(happened, Tell!CallsOf(Tools, {FALSE}, {TRUE}))
  BY TellOften DEF TellCounted
<1> QED BY <1>4, <1>6, <1>8, <1>9, <1>10 DEF Tell!TelemetryAddsUp, TellFailures, TellQueued

-----------------------------------------------------------------------------
(* Codes and tokens (OAuthCodes). *)

OAuthBounded ==
    /\ CodeTTL \in Nat /\ TokenTTL \in Nat /\ MaxTime \in Nat /\ MaxCodes \in Nat \ {0}
    /\ Terms \cup Approvals \subseteq Redirects \X Bases \X Verifiers

OAuthCode == [id : Nat, client : Clients, redirect : Redirects, resource : Bases,
              challenge : Verifiers, expires : Nat]
OAuthTaken == [step : {"taken"}, client : Clients, redirect : Redirects, resource : Bases,
               verifier : Verifiers, code : OAuthCode]

OAuthClient(c) ==
    \/ clients[c] \in {Auth!Unknown, Auth!Gone}
    \/ clients[c].method \in Auth!Methods /\ clients[c].redirects \subseteq Redirects
OAuthTyped ==
    /\ DOMAIN clients = Clients /\ \A c \in Clients : OAuthClient(c)
    /\ now \in 0 .. MaxTime
    /\ approved \in Seq(OAuthCode) /\ \A i \in 1 .. Len(approved) : approved[i].id = i
    /\ asked \in [TokenRequests -> OAuthTaken \cup {Auth!Idle}]

\* A code is the one its user approved: what a client makes of its id.
OAuthIs(code) == code.id \in 1 .. Len(approved) /\ approved[code.id] = code
OAuthPending ==
    /\ \A code \in pending : code \in OAuthCode /\ OAuthIs(code)
    /\ IsFiniteSet(pending) /\ Cardinality(pending) <= MaxCodes

\* A code is pending, with one request, or spent.
OAuthAsked ==
    /\ \A q \in TokenRequests : asked[q] # Auth!Idle =>
          /\ OAuthIs(asked[q].code) /\ asked[q].code \notin pending
          /\ \A t \in tokens : t.code # asked[q].code.id
    /\ \A q, r \in TokenRequests :
          asked[q] # Auth!Idle /\ asked[r] # Auth!Idle /\ asked[q].code = asked[r].code => q = r
OAuthToken(t) ==
    /\ t.code \in 1 .. Len(approved) /\ approved[t.code] \notin pending
    /\ t.client = approved[t.code].client /\ t.resource = approved[t.code].resource
    /\ t.redirect = approved[t.code].redirect /\ t.verifier = approved[t.code].challenge
    /\ t.at <= approved[t.code].expires /\ t.expires = t.at + TokenTTL
OAuthTokens ==
    /\ \A t \in tokens : OAuthToken(t)
    /\ \A t, u \in tokens : t.code = u.code => t = u

OAuthInv == OAuthTyped /\ OAuthPending /\ OAuthAsked /\ OAuthTokens

LEMMA OAuthCardinality == \A S : Auth!Cardinality(S) = Cardinality(S)
BY DEF Auth!Cardinality, Cardinality

LEMMA OAuthInitInv ==
    ASSUME OAuthBounded, Preregistered \subseteq Clients, Auth!Init
    PROVE  OAuthInv
<1> USE DEF Auth!Init
<1>1. DOMAIN clients = Clients
  OBVIOUS
<1>2. ASSUME NEW c \in Clients PROVE OAuthClient(c)
  BY DEF OAuthClient, Auth!Methods
<1>3. /\ now \in 0 .. MaxTime /\ approved \in Seq(OAuthCode) /\ Len(approved) = 0
      /\ asked \in [TokenRequests -> OAuthTaken \cup {Auth!Idle}]
  BY DEF OAuthBounded
<1>4. OAuthTyped
  BY <1>1, <1>2, <1>3 DEF OAuthTyped
<1>5. OAuthPending
  BY FS_EmptySet DEF OAuthPending, OAuthBounded
<1>6. OAuthAsked /\ OAuthTokens
  BY DEF OAuthAsked, OAuthTokens
<1> QED BY <1>4, <1>5, <1>6 DEF OAuthInv

\* What only clients and the clock change leaves the codes and tokens as they are.
LEMMA OAuthStays ==
    ASSUME OAuthInv, UNCHANGED <<pending, asked, approved, tokens>>
    PROVE  OAuthPending' /\ OAuthAsked' /\ OAuthTokens'
<1>1. OAuthPending'
  BY DEF OAuthInv, OAuthPending, OAuthIs
<1>2. OAuthAsked'
  BY DEF OAuthInv, OAuthAsked, OAuthIs
<1>3. OAuthTokens'
  BY DEF OAuthInv, OAuthTokens, OAuthToken
<1> QED BY <1>1, <1>2, <1>3

LEMMA OAuthRegister ==
    ASSUME OAuthInv, NEW c \in Clients, NEW m \in Auth!Methods,
           NEW uris \in SUBSET Redirects, Auth!Register(c, m, uris)
    PROVE  OAuthInv'
<1>1. /\ clients' = [clients EXCEPT ![c] = [method |-> m, redirects |-> uris]]
      /\ UNCHANGED <<pending, asked, now, approved, tokens>>
  BY DEF Auth!Register
<1>2. DOMAIN clients' = Clients /\ \A d \in Clients : OAuthClient(d)'
  BY <1>1 DEF OAuthInv, OAuthTyped, OAuthClient
<1>3. OAuthTyped'
  BY <1>1, <1>2 DEF OAuthInv, OAuthTyped
<1> QED BY <1>1, <1>3, OAuthStays DEF OAuthInv

LEMMA OAuthTick ==
    ASSUME OAuthBounded, OAuthInv, Auth!Tick \/ UNCHANGED oauthVars
    PROVE  OAuthInv'
<1>1. UNCHANGED <<clients, pending, asked, approved, tokens>> /\ now' \in 0 .. MaxTime
  BY DEF Auth!Tick, oauthVars, OAuthInv, OAuthTyped, OAuthBounded
<1>2. OAuthTyped'
  BY <1>1 DEF OAuthInv, OAuthTyped, OAuthClient
<1> QED BY <1>1, <1>2, OAuthStays DEF OAuthInv

LEMMA OAuthRestart ==
    ASSUME OAuthBounded, OAuthInv, Auth!Restart
    PROVE  OAuthInv'
<1> USE DEF Auth!Restart
<1>1. DOMAIN clients' = Clients
  OBVIOUS
<1>2. ASSUME NEW c \in Clients PROVE OAuthClient(c)'
  <2>1. clients'[c] \in {clients[c], Auth!Gone}
    OBVIOUS
  <2>2. OAuthClient(c)
    BY DEF OAuthInv, OAuthTyped
  <2> QED BY <2>1, <2>2 DEF OAuthClient
<1>3. OAuthTyped'
  BY <1>1, <1>2 DEF OAuthInv, OAuthTyped
<1>4. OAuthPending'
  BY FS_EmptySet DEF OAuthPending, OAuthBounded
<1>5. OAuthAsked'
  BY DEF OAuthAsked
<1>6. OAuthTokens'
  BY DEF OAuthInv, OAuthTokens, OAuthToken
<1> QED BY <1>3, <1>4, <1>5, <1>6 DEF OAuthInv

\* Two codes of one id are one code.
LEMMA OAuthOneCode ==
    ASSUME OAuthInv, NEW a \in pending, NEW b \in pending, a.id = b.id
    PROVE  a = b
BY DEF OAuthInv, OAuthPending, OAuthIs

\* There is room for one more code, and what made room is older than what stays.
LEMMA OAuthRoom ==
    ASSUME OAuthBounded, OAuthInv
    PROVE  LET kept == Auth!Roomed(Auth!Timely)
           IN  /\ kept \subseteq pending /\ IsFiniteSet(kept)
               /\ Cardinality(kept) + 1 <= MaxCodes
               /\ \A code \in Auth!Timely \ kept :
                     /\ Cardinality(kept) + 1 = MaxCodes
                     /\ \A other \in kept : other.id > code.id
<1>1. PICK T, kept : T = Auth!Timely /\ kept = Auth!Roomed(T)
  OBVIOUS
<1>2. T \subseteq pending /\ IsFiniteSet(T) /\ Cardinality(T) <= MaxCodes
  <2>1. T \in SUBSET pending
    BY <1>1 DEF Auth!Timely
  <2>2. IsFiniteSet(pending) /\ Cardinality(pending) <= MaxCodes /\ Cardinality(pending) \in Nat
    BY FS_CardinalityType DEF OAuthInv, OAuthPending
  <2>3. IsFiniteSet(T) /\ Cardinality(T) <= Cardinality(pending)
    BY <2>1, <2>2, FS_Subset
  <2>4. Cardinality(T) \in Nat
    BY <2>3, FS_CardinalityType
  <2> QED BY <2>1, <2>2, <2>3, <2>4 DEF OAuthBounded
<1>3. Cardinality(T) \in Nat /\ MaxCodes \in Nat \ {0}
  BY <1>2, FS_CardinalityType DEF OAuthBounded
<1>4. CASE Cardinality(T) < MaxCodes
  <2>1. kept = T
    BY <1>1, <1>4, OAuthCardinality DEF Auth!Roomed
  <2> QED BY <1>1, <1>2, <1>3, <1>4, <2>1
<1>5. CASE ~(Cardinality(T) < MaxCodes)
  <2>1. kept = {code \in T : \E other \in T : other.id < code.id}
    BY <1>1, <1>5, OAuthCardinality DEF Auth!Roomed
  <2>2. Cardinality(T) = MaxCodes /\ T # {}
    BY <1>2, <1>3, <1>5, FS_EmptySet
  <2>3. PICK I : I = {code.id : code \in T}
    OBVIOUS
  <2>4. Len(approved) \in Nat /\ \A code \in T : code.id \in 1 .. Len(approved)
    BY <1>2 DEF OAuthInv, OAuthTyped, OAuthPending, OAuthIs
  <2>5. I \in SUBSET (1 .. Len(approved)) /\ I # {}
    BY <2>2, <2>3, <2>4
  <2>6. IsFiniteSet(I) /\ I \in SUBSET Nat
    <3>1. IsFiniteSet(1 .. Len(approved))
      <4>1. 1 \in Int /\ Len(approved) \in Int
        BY <2>4
      <4> QED BY <4>1, FS_Interval
    <3>2. IsFiniteSet(I)
      BY <2>5, <3>1, FS_Subset
    <3>3. I \in SUBSET Nat
      BY <2>4, <2>5
    <3> QED BY <3>2, <3>3
  <2>7. PICK n \in I : \A m \in I : n <= m
    BY <2>5, <2>6, Least
  <2>8. PICK oldest \in T : oldest.id = n
    BY <2>3
  <2>9. ASSUME NEW code \in T PROVE n <= code.id /\ code.id \in Nat /\ n \in Nat
    BY <2>3, <2>6, <2>7
  <2>10. ASSUME NEW code \in T, code # oldest PROVE oldest.id < code.id
    <3>1. code.id # oldest.id
      BY <1>2, <2>10, OAuthOneCode
    <3> QED BY <2>8, <2>9, <3>1
  <2>11. kept = T \ {oldest}
    <3>1. ASSUME NEW code \in kept PROVE code \in T \ {oldest}
      BY <2>1, <2>8, <2>9
    <3>2. ASSUME NEW code \in T \ {oldest} PROVE code \in kept
      BY <2>1, <2>10
    <3> QED BY <3>1, <3>2
  <2>12. IsFiniteSet(kept) /\ Cardinality(kept) = Cardinality(T) - 1
    BY <1>2, <2>11, FS_RemoveElement
  <2>13. Cardinality(kept) + 1 = MaxCodes
    BY <1>3, <2>2, <2>12
  <2>14. ASSUME NEW code \in T \ kept, NEW other \in kept PROVE other.id > code.id
    <3>1. code = oldest /\ other \in T /\ other # oldest
      BY <2>11
    <3>2. oldest.id < other.id /\ oldest.id \in Nat /\ other.id \in Nat
      BY <2>9, <2>10, <3>1
    <3> QED BY <3>1, <3>2
  <2>15. Cardinality(kept) + 1 <= MaxCodes
    BY <1>3, <2>13
  <2> QED BY <1>1, <1>2, <2>11, <2>12, <2>13, <2>14, <2>15
<1> QED BY <1>4, <1>5

\* A new code is approved: it is the last of them, and the others stay theirs.
LEMMA OAuthApproved ==
    ASSUME OAuthInv, NEW code \in OAuthCode, code.id = Len(approved) + 1,
           approved' = Append(approved, code)
    PROVE  /\ approved' \in Seq(OAuthCode) /\ Len(approved) \in Nat
           /\ Len(approved') = Len(approved) + 1 /\ approved'[Len(approved) + 1] = code
           /\ \A i \in 1 .. Len(approved) : approved'[i] = approved[i]
           /\ \A i \in 1 .. Len(approved') : approved'[i].id = i
           /\ OAuthIs(code)' /\ ~OAuthIs(code)
           /\ \A other : OAuthIs(other) => OAuthIs(other)'
<1>1. approved \in Seq(OAuthCode) /\ \A i \in 1 .. Len(approved) : approved[i].id = i
  BY DEF OAuthInv, OAuthTyped
<1>2. /\ approved' \in Seq(OAuthCode) /\ Len(approved) \in Nat
      /\ Len(approved') = Len(approved) + 1 /\ approved'[Len(approved) + 1] = code
      /\ \A i \in 1 .. Len(approved) : approved'[i] = approved[i]
  BY <1>1
<1>3. ASSUME NEW i \in 1 .. Len(approved') PROVE approved'[i].id = i
  <2>1. CASE i = Len(approved) + 1
    BY <1>2, <2>1
  <2>2. CASE i # Len(approved) + 1
    <3>1. i \in 1 .. Len(approved)
      BY <1>2, <2>2
    <3> QED BY <1>1, <1>2, <3>1
  <2> QED BY <2>1, <2>2
<1>4. OAuthIs(code)'
  BY <1>2 DEF OAuthIs
<1>5. ~OAuthIs(code)
  BY <1>2 DEF OAuthIs
<1>6. ASSUME NEW other, OAuthIs(other) PROVE OAuthIs(other)'
  <2>1. other.id \in 1 .. Len(approved) /\ approved[other.id] = other
    BY <1>6 DEF OAuthIs
  <2>2. other.id \in 1 .. Len(approved') /\ approved'[other.id] = other
    BY <1>2, <2>1
  <2> QED BY <2>2 DEF OAuthIs
<1> QED BY <1>2, <1>3, <1>4, <1>5, <1>6

LEMMA OAuthAuthorize ==
    ASSUME OAuthBounded, OAuthInv, NEW c \in Clients, NEW uri \in Redirects, NEW b \in Bases,
           NEW v \in Verifiers, Auth!Authorize(c, uri, b, v)
    PROVE  OAuthInv' /\ Auth!LeavesForCause
<1>1. PICK code, kept :
         /\ code = [id |-> Len(approved) + 1, client |-> c, redirect |-> uri, resource |-> b,
                    challenge |-> v, expires |-> now + CodeTTL]
         /\ kept = Auth!Roomed(Auth!Timely)
  OBVIOUS
<1>2. /\ pending' = kept \cup {code} /\ approved' = Append(approved, code)
      /\ UNCHANGED <<clients, asked, now, tokens>>
  BY <1>1 DEF Auth!Authorize
<1>3. code \in OAuthCode /\ code.id = Len(approved) + 1
  <2>1. Len(approved) + 1 \in Nat /\ now + CodeTTL \in Nat
    BY DEF OAuthInv, OAuthTyped, OAuthBounded
  <2> QED BY <1>1, <2>1 DEF OAuthCode
<1>4. /\ approved' \in Seq(OAuthCode) /\ Len(approved) \in Nat
      /\ Len(approved') = Len(approved) + 1 /\ approved'[Len(approved) + 1] = code
      /\ \A i \in 1 .. Len(approved) : approved'[i] = approved[i]
      /\ \A i \in 1 .. Len(approved') : approved'[i].id = i
      /\ OAuthIs(code)' /\ ~OAuthIs(code)
      /\ \A other : OAuthIs(other) => OAuthIs(other)'
  BY <1>2, <1>3, OAuthApproved
<1>5. /\ kept \subseteq pending /\ IsFiniteSet(kept) /\ Cardinality(kept) + 1 <= MaxCodes
      /\ \A old \in Auth!Timely \ kept : /\ Cardinality(kept) + 1 = MaxCodes
                                         /\ \A other \in kept : other.id > old.id
  BY <1>1, OAuthRoom
<1>6. \A other \in pending : other \in OAuthCode /\ OAuthIs(other)
  BY DEF OAuthInv, OAuthPending
<1>7. IsFiniteSet(pending') /\ Cardinality(pending') = Cardinality(kept) + 1
  <2>1. code \notin kept
    BY <1>4, <1>5, <1>6
  <2> QED BY <1>2, <1>5, <2>1, FS_AddElement
<1>8. OAuthTyped'
  <2>1. \A d \in Clients : OAuthClient(d)'
    BY <1>2 DEF OAuthInv, OAuthTyped, OAuthClient
  <2> QED BY <1>2, <1>4, <2>1 DEF OAuthInv, OAuthTyped
<1>9. OAuthPending'
  <2>1. \A other \in pending' : other \in OAuthCode /\ OAuthIs(other)'
    BY <1>2, <1>3, <1>4, <1>5, <1>6
  <2> QED BY <1>5, <1>7, <2>1 DEF OAuthPending
<1>10. OAuthAsked'
  <2>1. ASSUME NEW q \in TokenRequests, asked[q] # Auth!Idle
        PROVE  /\ OAuthIs(asked[q].code)' /\ asked[q].code \notin pending'
               /\ \A t \in tokens : t.code # asked[q].code.id
    BY <1>2, <1>4, <1>5, <2>1 DEF OAuthInv, OAuthAsked
  <2>2. asked' = asked /\ tokens' = tokens
    BY <1>2
  <2>3. \A q, r \in TokenRequests :
           asked[q] # Auth!Idle /\ asked[r] # Auth!Idle /\ asked[q].code = asked[r].code => q = r
    BY DEF OAuthInv, OAuthAsked
  <2>4. \A q \in TokenRequests : asked'[q] # Auth!Idle =>
          /\ OAuthIs(asked[q].code)' /\ asked'[q].code \notin pending'
          /\ \A t \in tokens' : t.code # asked'[q].code.id
    BY <2>1, <2>2
  <2> QED BY <2>2, <2>3, <2>4 DEF OAuthAsked
<1>11. OAuthTokens'
  <2>1. ASSUME NEW t \in tokens PROVE OAuthToken(t)'
    <3>1. OAuthToken(t)
      BY DEF OAuthInv, OAuthTokens
    <3>2. t.code \in 1 .. Len(approved') /\ approved'[t.code] = approved[t.code]
      BY <1>4, <3>1 DEF OAuthToken
    <3>3. approved[t.code] # code
      BY <1>3, <1>4, <3>1 DEF OAuthToken, OAuthInv, OAuthTyped
    <3> QED BY <1>2, <1>5, <3>1, <3>2, <3>3 DEF OAuthToken
  <2> QED BY <1>2, <2>1 DEF OAuthInv, OAuthTokens
<1>12. Auth!LeavesForCause
  <2>1. ASSUME NEW old \in pending \ pending', Auth!Unexpired(old)
        PROVE  /\ Auth!Cardinality(pending') = MaxCodes
               /\ \A other \in pending' : other.id > old.id
    <3>1. old \in Auth!Timely \ kept
      BY <1>2, <2>1 DEF Auth!Timely
    <3>2. Cardinality(pending') = MaxCodes
      BY <1>5, <1>7, <3>1
    <3>3. code.id > old.id
      BY <1>3, <1>4, <1>6 DEF OAuthIs
    <3> QED BY <1>2, <1>5, <3>1, <3>2, <3>3, OAuthCardinality
  <2> QED BY <2>1 DEF Auth!LeavesForCause
<1> QED BY <1>8, <1>9, <1>10, <1>11, <1>12 DEF OAuthInv

LEMMA OAuthTake ==
    ASSUME OAuthBounded, OAuthInv, NEW q \in TokenRequests, NEW c \in Clients,
           NEW m \in Auth!Methods, NEW s \in Clients \cup {"none"}, NEW id \in 1 .. MaxIssued,
           NEW uri \in Redirects, NEW b \in Bases, NEW v \in Verifiers,
           Auth!TokenTake(q, c, m, s, id, uri, b, v)
    PROVE  OAuthInv' /\ Auth!LeavesForCause
<1>1. /\ asked[q] = Auth!Idle /\ UNCHANGED <<clients, now, approved, tokens>>
      /\ pending' = {code \in pending : code.id # id}
  BY DEF Auth!TokenTake, Auth!Left
<1>2. pending' \in SUBSET pending
  BY <1>1
<1>3. OAuthPending'
  <2>1. IsFiniteSet(pending') /\ Cardinality(pending') <= Cardinality(pending)
    BY <1>2, FS_Subset DEF OAuthInv, OAuthPending
  <2>2. Cardinality(pending') \in Nat /\ Cardinality(pending) \in Nat
    BY <2>1, FS_CardinalityType DEF OAuthInv, OAuthPending
  <2>3. Cardinality(pending') <= MaxCodes
    BY <2>1, <2>2 DEF OAuthInv, OAuthPending, OAuthBounded
  <2> QED BY <1>1, <1>2, <2>1, <2>3 DEF OAuthInv, OAuthPending, OAuthIs
<1>4. OAuthTokens'
  BY <1>1, <1>2 DEF OAuthInv, OAuthTokens, OAuthToken
<1>5. \A d \in Clients : OAuthClient(d)'
  BY <1>1 DEF OAuthInv, OAuthTyped, OAuthClient
<1>6. PICK found : found = {code \in pending : code.id = id}
  OBVIOUS
<1>7. CASE found = {}
  <2>1. asked' = [asked EXCEPT ![q] = Auth!Idle] /\ pending' = pending
    BY <1>1, <1>6, <1>7 DEF Auth!TokenTake
  <2>2. asked' = asked
    BY <1>1, <2>1 DEF OAuthInv, OAuthTyped
  <2>3. OAuthTyped'
    BY <1>1, <1>5, <2>2 DEF OAuthInv, OAuthTyped
  <2>4. OAuthAsked'
    BY <1>1, <2>1, <2>2 DEF OAuthInv, OAuthAsked, OAuthIs
  <2>5. Auth!LeavesForCause
    BY <2>1 DEF Auth!LeavesForCause
  <2> QED BY <1>3, <1>4, <2>3, <2>4, <2>5 DEF OAuthInv
<1>8. CASE found # {}
  <2>1. PICK k, a : /\ k = (CHOOSE code \in found : TRUE)
                    /\ a = [step |-> "taken", client |-> c, redirect |-> uri,
                            resource |-> b, verifier |-> v, code |-> k]
    OBVIOUS
  <2>2. k \in found
    BY <1>8, <2>1
  <2>3. asked' = [asked EXCEPT ![q] = a]
    BY <1>6, <1>8, <2>1 DEF Auth!TokenTake
  <2>4. k \in pending /\ k.id = id /\ k \in OAuthCode /\ OAuthIs(k) /\ k \notin pending'
    BY <1>1, <1>6, <2>2 DEF OAuthInv, OAuthPending
  <2>5. a \in OAuthTaken /\ a.code = k /\ a # Auth!Idle
    BY <2>1, <2>4 DEF OAuthTaken, Auth!Idle
  <2>6. /\ asked' \in [TokenRequests -> OAuthTaken \cup {Auth!Idle}] /\ asked'[q] = a
        /\ \A r \in TokenRequests \ {q} : asked'[r] = asked[r]
    BY <2>3, <2>5 DEF OAuthInv, OAuthTyped
  <2>7. OAuthTyped'
    BY <1>1, <1>5, <2>6 DEF OAuthInv, OAuthTyped
  <2>8. \A t \in tokens : t.code # k.id
    BY <2>4 DEF OAuthInv, OAuthTokens, OAuthToken, OAuthIs
  <2>9. \A r \in TokenRequests : asked[r] # Auth!Idle => asked[r].code # k
    BY <2>4 DEF OAuthInv, OAuthAsked
  <2>10. ASSUME NEW r \in TokenRequests, asked'[r] # Auth!Idle
         PROVE  /\ OAuthIs(asked'[r].code) /\ asked'[r].code \notin pending'
                /\ \A t \in tokens : t.code # asked'[r].code.id
    <3>1. CASE r = q
      BY <2>4, <2>5, <2>6, <2>8, <3>1
    <3>2. CASE r # q
      BY <1>2, <2>6, <2>10, <3>2 DEF OAuthInv, OAuthAsked
    <3> QED BY <3>1, <3>2
  <2>11. ASSUME NEW r \in TokenRequests, NEW u \in TokenRequests, asked'[r] # Auth!Idle,
                asked'[u] # Auth!Idle, asked'[r].code = asked'[u].code
         PROVE  r = u
    BY <2>5, <2>6, <2>9, <2>11 DEF OAuthInv, OAuthAsked
  <2>12. OAuthAsked'
    BY <1>1, <2>10, <2>11 DEF OAuthAsked, OAuthIs
  <2>13. Auth!LeavesForCause
    <3>1. ASSUME NEW code \in pending \ pending' PROVE code = k
      BY <1>1, <2>4, OAuthOneCode
    <3> QED BY <2>5, <2>6, <3>1 DEF Auth!LeavesForCause
  <2> QED BY <1>3, <1>4, <2>7, <2>12, <2>13 DEF OAuthInv
<1> QED BY <1>7, <1>8

LEMMA OAuthAnswer ==
    ASSUME OAuthInv, NEW q \in TokenRequests, Auth!TokenAnswer(q)
    PROVE  OAuthInv' /\ UNCHANGED pending
<1>1. /\ asked[q] # Auth!Idle /\ asked' = [asked EXCEPT ![q] = Auth!Idle]
      /\ UNCHANGED <<clients, pending, now, approved>>
  BY DEF Auth!TokenAnswer
<1>2. /\ asked' \in [TokenRequests -> OAuthTaken \cup {Auth!Idle}] /\ asked'[q] = Auth!Idle
      /\ \A r \in TokenRequests \ {q} : asked'[r] = asked[r]
  BY <1>1 DEF OAuthInv, OAuthTyped
<1>3. OAuthTyped'
  <2>1. \A d \in Clients : OAuthClient(d)'
    BY <1>1 DEF OAuthInv, OAuthTyped, OAuthClient
  <2> QED BY <1>1, <1>2, <2>1 DEF OAuthInv, OAuthTyped
<1>4. OAuthPending'
  BY <1>1 DEF OAuthInv, OAuthPending, OAuthIs
<1>5. PICK a, k : a = asked[q] /\ k = a.code
  OBVIOUS
<1>6. /\ OAuthIs(k) /\ k \notin pending /\ \A t \in tokens : t.code # k.id
      /\ \A r \in TokenRequests \ {q} : asked[r] # Auth!Idle => asked[r].code # k
  BY <1>1, <1>5 DEF OAuthInv, OAuthAsked
<1>7. ASSUME tokens' = tokens PROVE OAuthAsked' /\ OAuthTokens'
  <2>1. OAuthAsked'
    BY <1>1, <1>2, <1>7 DEF OAuthInv, OAuthAsked, OAuthIs
  <2>2. OAuthTokens'
    BY <1>1, <1>7 DEF OAuthInv, OAuthTokens, OAuthToken
  <2> QED BY <2>1, <2>2
<1>8. ASSUME NEW t, tokens' = tokens \cup {t}, t.code = k.id, t.client = k.client,
             t.resource = k.resource, t.redirect = k.redirect, t.verifier = k.challenge,
             t.at <= k.expires, t.expires = t.at + TokenTTL
      PROVE  OAuthAsked' /\ OAuthTokens'
  <2>1. ASSUME NEW r \in TokenRequests, asked'[r] # Auth!Idle
        PROVE  /\ OAuthIs(asked'[r].code) /\ asked'[r].code \notin pending
               /\ \A u \in tokens' : u.code # asked'[r].code.id
    <3>1. r # q /\ asked'[r] = asked[r]
      BY <1>2, <2>1
    <3>2. /\ OAuthIs(asked[r].code) /\ asked[r].code \notin pending
          /\ \A u \in tokens : u.code # asked[r].code.id
      BY <2>1, <3>1 DEF OAuthInv, OAuthAsked
    <3>3. asked[r].code.id # k.id
      BY <1>6, <2>1, <3>1, <3>2 DEF OAuthIs
    <3> QED BY <1>8, <3>1, <3>2, <3>3
  <2>2. OAuthAsked'
    BY <1>1, <1>2, <2>1 DEF OAuthInv, OAuthAsked, OAuthIs
  <2>3. OAuthToken(t)
    BY <1>6, <1>8 DEF OAuthToken, OAuthIs
  <2>4. \A u \in tokens' : OAuthToken(u)'
    BY <1>1, <1>8, <2>3 DEF OAuthInv, OAuthTokens, OAuthToken
  <2>5. \A u, w \in tokens' : u.code = w.code => u = w
    BY <1>6, <1>8 DEF OAuthInv, OAuthTokens
  <2> QED BY <2>2, <2>4, <2>5 DEF OAuthTokens
<1>9. CASE Auth!Honoured(a)
  <2>1. PICK t : t = [code |-> k.id, by |-> q, at |-> now, client |-> a.client,
                      resource |-> a.resource, redirect |-> a.redirect,
                      verifier |-> a.verifier, expires |-> now + TokenTTL]
    OBVIOUS
  <2>2. tokens' = tokens \cup {t}
    BY <1>5, <1>9, <2>1 DEF Auth!TokenAnswer
  <2>3. /\ t.code = k.id /\ t.client = k.client /\ t.resource = k.resource
        /\ t.redirect = k.redirect /\ t.verifier = k.challenge
        /\ t.at <= k.expires /\ t.expires = t.at + TokenTTL
    BY <1>5, <1>9, <2>1 DEF Auth!Honoured, Auth!Unexpired
  <2> QED BY <1>1, <1>3, <1>4, <1>8, <2>2, <2>3 DEF OAuthInv
<1>10. CASE ~Auth!Honoured(a)
  <2>1. tokens' = tokens
    BY <1>5, <1>10 DEF Auth!TokenAnswer
  <2> QED BY <1>1, <1>3, <1>4, <1>7, <2>1 DEF OAuthInv
<1> QED BY <1>9, <1>10

LEMMA OAuthPreserved ==
    ASSUME OAuthBounded, OAuthInv, [Auth!Next]_oauthVars
    PROVE  OAuthInv' /\ Auth!LeavesForCause
<1>1. ASSUME NEW c \in Clients, NEW m \in Auth!Methods, NEW uris \in SUBSET Redirects,
             Auth!Register(c, m, uris)
      PROVE  OAuthInv' /\ Auth!LeavesForCause
  <2>1. UNCHANGED pending
    BY <1>1 DEF Auth!Register
  <2> QED BY <1>1, <2>1, OAuthRegister DEF Auth!LeavesForCause
<1>0. \A terms \in Terms \cup Approvals :
         terms[1] \in Redirects /\ terms[2] \in Bases /\ terms[3] \in Verifiers
  BY DEF OAuthBounded
<1>2. ASSUME NEW c \in Clients, NEW terms \in Approvals,
             Auth!Authorize(c, terms[1], terms[2], terms[3])
      PROVE  OAuthInv' /\ Auth!LeavesForCause
  <2>1. PICK uri \in Redirects, b \in Bases, v \in Verifiers :
           uri = terms[1] /\ b = terms[2] /\ v = terms[3]
    BY <1>0
  <2> QED BY <1>2, <2>1, OAuthAuthorize
<1>3. ASSUME NEW q \in TokenRequests, NEW c \in Clients, NEW m \in Auth!Methods,
             NEW s \in Clients \cup {"none"}, NEW id \in 1 .. MaxIssued, NEW terms \in Terms,
             Auth!TokenTake(q, c, m, s, id, terms[1], terms[2], terms[3])
      PROVE  OAuthInv' /\ Auth!LeavesForCause
  <2>1. PICK uri \in Redirects, b \in Bases, v \in Verifiers :
           uri = terms[1] /\ b = terms[2] /\ v = terms[3]
    BY <1>0
  <2> QED BY <1>3, <2>1, OAuthTake
<1>4. ASSUME NEW q \in TokenRequests, Auth!TokenAnswer(q)
      PROVE  OAuthInv' /\ Auth!LeavesForCause
  BY <1>4, OAuthAnswer DEF Auth!LeavesForCause
<1>5. CASE Auth!Tick \/ UNCHANGED oauthVars
  <2>1. UNCHANGED pending
    BY <1>5 DEF Auth!Tick, oauthVars
  <2> QED BY <1>5, <2>1, OAuthTick DEF Auth!LeavesForCause
<1>6. CASE Auth!Restart
  <2>1. ASSUME NEW c \in Clients \ Preregistered PROVE ~Auth!Known(c)'
    BY <1>6 DEF Auth!Restart, Auth!Known, Auth!Gone, Auth!Methods
  <2>2. pending' = {}
    BY <1>6 DEF Auth!Restart
  <2> QED BY <1>6, <2>1, <2>2, OAuthRestart DEF Auth!LeavesForCause
<1> QED BY <1>1, <1>2, <1>3, <1>4, <1>5, <1>6 DEF Auth!Next

LEMMA OAuthImplies ==
    ASSUME OAuthInv
    PROVE  Auth!TypeOK /\ Auth!TokensAreApproved
<1>1. Auth!TypeOK
  <2>1. \A code \in pending : \E i \in 1 .. Len(approved) : approved[i] = code
    BY DEF OAuthInv, OAuthPending, OAuthIs
  <2> QED BY <2>1, OAuthCardinality
          DEF OAuthInv, OAuthTyped, OAuthClient, OAuthPending, Auth!TypeOK
<1>2. Auth!TokensAreApproved
  BY DEF OAuthInv, OAuthTokens, OAuthToken, Auth!TokensAreApproved, Auth!Admitted
<1> QED BY <1>1, <1>2

------------------------------------------------------------------------------
(* The components side by side *)
SharedInv ==
    /\ part = "transfer" => TransferInv
    /\ part = "browser" => BrowserInv
    /\ part = "desk" => DeskInv
    /\ part = "window" => WindowInv
    /\ part = "client" => ClientInv
    /\ part = "oauth" => OAuthInv
    /\ part = "browse" => BrowseInv
    /\ part = "front" => FrontInv
    /\ part = "tell" => TellInv
    /\ part = "host" => HostInv

LEMMA SharedConstants ==
    /\ TransferBounded /\ TransferApart /\ BrowserBounded /\ BrowserApart
    /\ DeskBounded /\ DeskApart /\ WindowBounded /\ WindowApart
    /\ ClientBounded /\ ClientApart /\ OAuthBounded /\ Preregistered \subseteq Clients
    /\ BrowseBounded /\ BrowseApart /\ HostApart /\ TellBounded
<1>1. TransferBounded /\ TransferApart /\ BrowserBounded /\ BrowserApart
  BY SharedUseAssumption DEF TransferBounded, TransferApart, BrowserBounded, BrowserApart
<1>2. DeskBounded /\ DeskApart /\ WindowBounded /\ WindowApart
  BY SharedUseAssumption DEF DeskBounded, DeskApart, WindowBounded, WindowApart
<1>3. ClientBounded /\ ClientApart /\ OAuthBounded /\ Preregistered \subseteq Clients
  BY SharedUseAssumption DEF ClientBounded, ClientApart, OAuthBounded
<1>4. BrowseBounded /\ BrowseApart /\ HostApart /\ TellBounded
  BY SharedUseAssumption DEF BrowseBounded, BrowseApart, HostApart, Host!NoCaller, TellBounded
<1> QED BY <1>1, <1>2, <1>3, <1>4

LEMMA SharedInit == Init => SharedInv
<1> SUFFICES ASSUME Init PROVE SharedInv
  OBVIOUS
<1>1. CASE part = "transfer" /\ Transfer!Init
  BY <1>1, SharedConstants, TransferInitInv DEF SharedInv
<1>2. CASE part = "browser" /\ Browser!Init
  BY <1>2, SharedConstants, BrowserInitInv DEF SharedInv
<1>3. CASE part = "desk" /\ Desk!Init
  BY <1>3, SharedConstants, DeskInitInv DEF SharedInv
<1>4. CASE part = "window" /\ Window!Init
  BY <1>4, SharedConstants, WindowInitInv DEF SharedInv
<1>5. CASE part = "client" /\ Client!Init
  BY <1>5, SharedConstants, ClientInitInv DEF SharedInv
<1>6. CASE part = "oauth" /\ Auth!Init
  BY <1>6, SharedConstants, OAuthInitInv DEF SharedInv
<1>7. CASE part = "browse" /\ Browse!Init
  BY <1>7, SharedConstants, BrowseInitInv DEF SharedInv
<1>8. CASE part = "front" /\ Front!Init
  BY <1>8, FrontInit DEF SharedInv
<1>9. CASE part = "host" /\ Host!Init
  BY <1>9, SharedConstants, HostInitInv DEF SharedInv
<1>10. CASE part = "tell" /\ Tell!Init
  BY <1>10, SharedConstants, TellInitInv DEF SharedInv
<1> QED BY <1>1, <1>2, <1>3, <1>4, <1>5, <1>6, <1>7, <1>8, <1>9, <1>10 DEF Init

\* A step is one of the component the behaviour is of.
LEMMA SharedStep ==
    ASSUME [Next]_vars
    PROVE  /\ part' = part
           /\ part = "transfer" => [Transfer!Next]_transferVars
           /\ part = "browser" => [Browser!Next]_browserVars
           /\ part = "desk" => [Desk!Next]_deskVars
           /\ part = "window" => [Window!Next]_windowVars
           /\ part = "client" => [Client!Next]_clientVars
           /\ part = "oauth" => [Auth!Next]_oauthVars
           /\ part = "browse" => [Browse!Next]_browseVars
           /\ part = "front" => [Front!Next]_frontVars
           /\ part = "tell" => [Tell!Next]_tellVars
           /\ part = "host" => [Host!Next]_hostVars
<1>1. CASE Next
  BY <1>1 DEF Next
<1>2. CASE UNCHANGED vars
  BY <1>2 DEF vars
<1> QED BY <1>1, <1>2

LEMMA SharedPreserved == SharedInv /\ [Next]_vars => SharedInv'
<1> SUFFICES ASSUME SharedInv, [Next]_vars PROVE SharedInv'
  OBVIOUS
<1>1. part = "transfer" => TransferInv'
  BY SharedConstants, SharedStep, TransferPreserved DEF SharedInv
<1>2. part = "browser" => BrowserInv'
  BY SharedConstants, SharedStep, BrowserPreserved DEF SharedInv
<1>3. part = "desk" => DeskInv'
  BY SharedConstants, SharedStep, DeskPreserved DEF SharedInv
<1>4. part = "window" => WindowInv'
  BY SharedConstants, SharedStep, WindowPreserved DEF SharedInv
<1>5. part = "client" => ClientInv'
  BY SharedConstants, SharedStep, ClientPreserved DEF SharedInv
<1>6. part = "oauth" => OAuthInv'
  BY SharedConstants, SharedStep, OAuthPreserved DEF SharedInv
<1>7. part = "browse" => BrowseInv'
  BY SharedConstants, SharedStep, BrowsePreserved DEF SharedInv
<1>8. part = "front" => FrontInv'
  BY SharedStep, FrontPreserved DEF SharedInv
<1>9. part = "host" => HostInv'
  BY SharedConstants, SharedStep, HostPreserved DEF SharedInv
<1>10. part = "tell" => TellInv'
  BY SharedConstants, SharedStep, TellPreserved DEF SharedInv
<1> QED BY <1>1, <1>2, <1>3, <1>4, <1>5, <1>6, <1>7, <1>8, <1>9, <1>10, SharedStep DEF SharedInv

\* Every upload there can be creates its file whole and once, and replaces
\* nothing that anyone made, however transfers and crashes interleave
\* (file_transfer.py).
THEOREM UploadsStayCreations == Spec => UploadsOnlyCreate
<1>1. SharedInv => (part = "transfer" => Transfer!TypeOK)
  BY TransferImplies DEF SharedInv
<1>2. SharedInv /\ [Next]_vars => [part = "transfer" => Transfer!CreatesOnly]_transferVars
  BY SharedConstants, SharedStep, TransferCreates DEF SharedInv
<1> QED BY <1>1, <1>2, SharedInit, SharedPreserved, PTL DEF Spec, UploadsOnlyCreate

\* Of any number of browser requests, one recorded as completed took effect and one
\* recorded as failed did not, but for an upload whose record says accepted and a
\* navigation whose page was given up; a snapshot of any page shows that page as it
\* is, and an action that is not accepted did nothing to it, but for a download too
\* large to keep; whatever the browser's news and the workers' ends are
\* (browser/manager.py, operation_store.py, engine.py, actions.py, transfers.py).
THEOREM BrowserStaysTrue == Spec => []BrowserIsTrue
<1>1. SharedInv => BrowserIsTrue
  <2> SUFFICES ASSUME SharedInv PROVE BrowserIsTrue
    OBVIOUS
  <2>1. part = "browser" => Browser!TypeOK /\ Browser!BrowserRecordsTrue
    BY BrowserImplies DEF SharedInv
  <2>2. part = "browse" => Browse!TypeOK /\ Browse!PagesAreTrue
    BY SharedConstants, BrowseImplies DEF SharedInv
  <2> QED BY <2>1, <2>2, Zenon DEF BrowserIsTrue
<1> QED BY <1>1, SharedInit, SharedPreserved, PTL DEF Spec

\* Whoever lost control of the desktop sends no more input to it, and what is
\* answered about any window is what was done to it, whoever else moves windows
\* (desktop_console.py, lease.py, window_control.py).
THEOREM DesktopStaysMinded == Spec => []DesktopIsMinded
<1>1. SharedInv => DesktopIsMinded
  <2> SUFFICES ASSUME SharedInv PROVE DesktopIsMinded
    OBVIOUS
  <2>1. part = "desk" => Desk!TypeOK /\ Desk!ControlEndsWhenRevoked
    BY SharedConstants, DeskImplies DEF SharedInv
  <2>2. part = "window" => Window!TypeOK /\ Window!WindowsAnswerTrue
    BY SharedConstants, WindowImplies DEF SharedInv
  <2> QED BY <2>1, <2>2, Zenon DEF DesktopIsMinded
<1> QED BY <1>1, SharedInit, SharedPreserved, PTL DEF Spec

\* A runtime that was seen listening is found and ended, by whichever client
\* comes after whatever crash and however pids are given again
\* (apps/desktop-client runtime.py, app.py).
THEOREM NothingGetsLost == Spec => []NothingIsLost
<1>1. SharedInv => NothingIsLost
  BY SharedConstants, ClientImplies DEF SharedInv, NothingIsLost
<1> QED BY <1>1, SharedInit, SharedPreserved, PTL DEF Spec

\* Every token stands for a code that was approved for its client, redirect,
\* resource and verifier, presented in its time and redeemed once, and admits only to
\* that resource and until it lapses; a code leaves only when it is redeemed, lapsed
\* or out of room, for any number of clients and codes (oauth.py, server.py).
THEOREM TokensStayApproved == Spec => TokensAreApproved
<1>1. SharedInv => (part = "oauth" => Auth!TypeOK /\ Auth!TokensAreApproved)
  BY OAuthImplies DEF SharedInv
<1>2. SharedInv /\ [Next]_vars => [part = "oauth" => Auth!LeavesForCause]_oauthVars
  BY SharedConstants, SharedStep, OAuthPreserved DEF SharedInv
<1> QED BY <1>1, <1>2, SharedInit, SharedPreserved, PTL DEF Spec, TokensAreApproved

\* Any message has one verdict over HTTP and over stdio; and of any number of
\* journaled writes of a workflow one is dispatched at a time, and none while the
\* outcome of an earlier one is open (protocol.py, transport_stdio.py, server.py;
\* host.py _call_tool).
THEOREM CallsStayJudged == Spec => []CallsAreJudged
<1>1. SharedInv => CallsAreJudged
  <2> SUFFICES ASSUME SharedInv PROVE CallsAreJudged
    OBVIOUS
  <2>1. part = "front" => Front!OneVerdict
    BY FrontImplies DEF SharedInv
  <2>2. part = "host" => Host!TypeOK /\ Host!OneWriteAtATime
    BY SharedConstants, HostImplies DEF SharedInv
  <2> QED BY <2>1, <2>2, Zenon DEF CallsAreJudged
<1> QED BY <1>1, SharedInit, SharedPreserved, PTL DEF Spec

\* What any number of transfers keep stays within the limit, whatever is begun,
\* left behind and removed; every failure in a session, however many threads count,
\* is told or counted as dropped; and the summaries a session tells, all together or
\* none, are the calls and requests served up to its end, tool by tool and in total
\* (file_transfer.py, telemetry.py).
THEOREM CountsStayRight == Spec => []CountsAddUp
<1>1. SharedInv => CountsAddUp
  <2> SUFFICES ASSUME SharedInv PROVE CountsAddUp
    OBVIOUS
  <2>1. part = "transfer" => Transfer!StorageWithinLimit
    BY SharedConstants, TransferWithin DEF SharedInv
  <2>2. part = "tell" => Tell!TelemetryAddsUp
    BY SharedConstants, TellImplies DEF SharedInv
  <2> QED BY <2>1, <2>2, Zenon DEF CountsAddUp
<1> QED BY <1>1, SharedInit, SharedPreserved, PTL DEF Spec
===============================================================================
