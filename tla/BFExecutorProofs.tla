-------------------------- MODULE BFExecutorProofs --------------------------
(* Theorems about BFExecutor for every value of its constants. *)
EXTENDS BFExecutor, TLAPS

\* Generations follow one another: those before the current one are dead,
\* those after it have not started, and only a serving one is connected.
Succession ==
    /\ \A g \in Generations : /\ g < current => thread[g] = "dead"
                              /\ g > current => thread[g] = "none"
    /\ \A g \in connected : thread[g] = "serving"

NoneLeft == \A g \in Generations : thread[g] = "dead" => requests[g] = {}

Filed(f) == future[f].owner # NoOwner

\* A future is in the tables of its generation until somebody claims it, and
\* an error puts its owner under suspicion.
Accounted(f) ==
    /\ ~Filed(f) => future[f] = NoFuture
    /\ Filed(f) => future[f].native # "none"
    /\ \A g \in Generations :
           f \in requests[g] <=> Filed(f) /\ future[f].gen = g /\ future[f].step = "none"
    /\ f \in pending <=> Filed(f) /\ future[f].step # "done"
    /\ future[f].step = "none" <=> future[f].verdict = "none"
    /\ future[f].reply = "ok" => future[f].native = "ended"
    /\ future[f].verdict = "ok" => future[f].native = "ended"
    /\ future[f].verdict = "error" => OwnerOf(f) \in uncertain[future[f].gen]
    /\ future[f].native = "running" => thread[future[f].gen] \in {"serving", "joining"}
AllAccounted == \A f \in Futures : Accounted(f)

\* What a drain may rely on at each of its steps about a call it has seen;
\* a submission knows whose call it sends.
Suspected(c, f) ==
    /\ caller[c].pc = "waiting" =>
           f \in caller[c].wait \/ caller[c].owner \in uncertain[caller[c].gen]
    /\ caller[c].pc = "checking" => caller[c].owner \in uncertain[caller[c].gen]
    /\ caller[c].pc # "drained"
Drains(c) ==
    /\ caller[c].pc = "ready" => caller[c].owner # NoOwner
    /\ caller[c].pc \in {"waiting", "checking", "joining", "drained"} =>
           \A f \in caller[c].seen :
               /\ Filed(f) /\ OwnerOf(f) = caller[c].owner
               /\ future[f].native = "running" =>
                      future[f].gen = caller[c].gen /\ Suspected(c, f)

\* A close still has to drain the owner of every unresolved call.
Closes(c) ==
    /\ caller[c].pc \in {"stopping", "ended"} => caller[c].op = "close"
    /\ caller[c].pc = "ended" => caller[c].todo = {}
    /\ caller[c].op = "close" =>
           /\ closed /\ caller[c].gen = current
           /\ \A f \in Futures : Filed(f) /\ ~Resolved(f) =>
                  \/ OwnerOf(f) \in caller[c].todo
                  \/ caller[c].pc = "waiting" /\ f \in caller[c].wait
CallersInformed == \A c \in Callers : Drains(c) /\ Closes(c)

Inv == /\ TypeOK /\ Succession /\ NoneLeft /\ AllAccounted /\ CallersInformed

-----------------------------------------------------------------------------
(* What no step takes back                                                 *)

\* Calls keep their owner and generation, suspicion and closing are for good,
\* and nothing new is filed after closing.
Grows ==
    /\ \A f \in Futures : Filed(f) =>
           /\ future'[f].owner = future[f].owner /\ future'[f].gen = future[f].gen
           /\ future'[f].native = "running" => future[f].native = "running"
           /\ Resolved(f) => Resolved(f)'
    /\ \A f \in Futures : ~Filed(f) /\ closed => ~Filed(f)'
    /\ \A g \in Generations : uncertain[g] \subseteq uncertain'[g]
    /\ closed => closed' /\ current' = current

\* A caller that does not move loses nothing it relies on.
LEMMA CallerKept ==
    ASSUME Inv, Grows, NEW c \in Callers, caller'[c] = caller[c]
    PROVE  Drains(c)' /\ Closes(c)'
<1>1. /\ Drains(c) /\ Closes(c) /\ caller[c].gen \in Generations
      /\ caller[c].seen \subseteq Futures
  BY DEF Inv, CallersInformed, TypeOK, Caller
<1>2. Drains(c)'
  <2>1. SUFFICES ASSUME caller[c].pc \in {"waiting", "checking", "joining", "drained"},
                        NEW f \in caller[c].seen
                 PROVE  /\ Filed(f)' /\ OwnerOf(f)' = caller[c].owner
                        /\ future'[f].native = "running" =>
                               future'[f].gen = caller[c].gen /\ Suspected(c, f)'
    BY <1>1 DEF Drains, OwnerOf, Filed, Suspected
  <2>2. f \in Futures /\ Filed(f) /\ OwnerOf(f) = caller[c].owner
    BY <1>1, <2>1 DEF Drains
  <2>3. /\ future'[f].owner = future[f].owner /\ future'[f].gen = future[f].gen
        /\ future'[f].native = "running" => future[f].native = "running"
    BY <2>2 DEF Grows
  <2>4. Filed(f)' /\ OwnerOf(f)' = caller[c].owner
    BY <2>2, <2>3 DEF Filed, OwnerOf
  <2>5. ASSUME future[f].native = "running"
        PROVE  future[f].gen = caller[c].gen /\ Suspected(c, f)'
    BY <1>1, <2>1, <2>5 DEF Drains, Suspected, Grows
  <2>6. QED BY <2>3, <2>4, <2>5
<1>3. Closes(c)'
  BY <1>1 DEF Closes, Grows, Filed, OwnerOf
<1>4. QED BY <1>2, <1>3

\* Steps of the server, the protocol, _finished and the threads.
LEMMA NobodyMoves ==
    ASSUME Inv, Grows, UNCHANGED caller
    PROVE  CallersInformed'
  BY CallerKept DEF CallersInformed

\* One caller moves; it may close the executor or stop a generation.
LEMMA CallerMoves ==
    ASSUME Inv, NEW c \in Callers, NEW r \in Caller, caller' = [caller EXCEPT ![c] = r],
           UNCHANGED <<lifecycle, accepting, tables, future>>, Drains(c)', Closes(c)',
           closed => closed', closed' \in BOOLEAN, stop' \subseteq Generations
    PROVE  Inv'
<1>1. Grows
  BY DEF Grows, lifecycle, tables, Filed, Resolved
<1>2. \A e \in Callers : e # c => caller'[e] = caller[e]
  BY DEF Inv, TypeOK
<1>3. CallersInformed'
  BY <1>1, <1>2, CallerKept DEF CallersInformed
<1>4. TypeOK'
  BY DEF Inv, TypeOK, lifecycle, tables
<1>5. Succession' /\ NoneLeft'
  BY DEF Inv, Succession, NoneLeft, lifecycle, tables
<1>6. AllAccounted'
  BY DEF Inv, AllAccounted, Accounted, Filed, OwnerOf, lifecycle, tables
<1>7. QED BY <1>3, <1>4, <1>5, <1>6 DEF Inv

\* Resting is a caller's record, and asks nothing of it.
LEMMA RestingIsCaller == Resting \in Caller /\ 1 \in Generations
  BY ConstantsAssumption DEF Resting, Caller, Generations

\* One caller moves, and nothing else does.
LEMMA OnlyCallerMoves ==
    ASSUME Inv, NEW c \in Callers, NEW r \in Caller, caller' = [caller EXCEPT ![c] = r],
           UNCHANGED <<lifecycle, flags, tables, closed, future>>, Drains(c)', Closes(c)'
    PROVE  Inv'
<1>1. /\ lifecycle' = lifecycle /\ accepting' = accepting /\ tables' = tables
      /\ future' = future /\ closed' = closed /\ stop' = stop
  BY DEF flags
<1>2. UNCHANGED <<lifecycle, accepting, tables, future>>
  BY <1>1
<1>3. closed \in BOOLEAN /\ stop \subseteq Generations
  BY DEF Inv, TypeOK
<1>4. closed' \in BOOLEAN /\ stop' \subseteq Generations
  BY <1>1, <1>3
<1>5. closed => closed'
  BY <1>1, <1>3
<1>6. QED BY <1>2, <1>4, <1>5, CallerMoves

\* A caller returns.
LEMMA CallerReturns ==
    ASSUME Inv, NEW c \in Callers, Return(c),
           UNCHANGED <<lifecycle, flags, tables, closed, future>>
    PROVE  Inv'
<1>1. caller' = [caller EXCEPT ![c] = Resting] /\ caller'[c] = Resting
  BY DEF Return, Inv, TypeOK
<1>2. Drains(c)' /\ Closes(c)'
  BY <1>1 DEF Drains, Closes, Resting
<1>3. QED BY <1>1, <1>2, OnlyCallerMoves, RestingIsCaller

-----------------------------------------------------------------------------
(* submit                                                                  *)

\* A dead generation is followed by the next.
LEMMA SubmitStep ==
    ASSUME Inv, NEW c \in Callers, NEW o \in Owners, Submit(c, o)
    PROVE  Inv'
<1> DEFINE replace == thread[current] = "dead"
<1> DEFINE g == IF replace THEN current + 1 ELSE current
<1> DEFINE r == [Resting EXCEPT !.op = "submit", !.pc = "ready", !.owner = o, !.gen = g]
<1>1. /\ ~closed /\ g \in Generations /\ current' = g
      /\ thread' = IF replace THEN [thread EXCEPT ![g] = "connecting"] ELSE thread
      /\ caller' = [caller EXCEPT ![c] = r]
      /\ UNCHANGED <<ready, connected, accepting, stop, requests, uncertain, pending, closed, future>>
  BY DEF Submit, flags, tables
<1>2. r \in Caller /\ r.op = "submit" /\ r.pc = "ready" /\ r.owner # NoOwner
  BY <1>1, RestingIsCaller, ConstantsAssumption DEF Resting, Caller
<1> HIDE DEF r
<1>3. /\ caller'[c] = r /\ \A e \in Callers : e # c => caller'[e] = caller[e]
  BY <1>1 DEF Inv, TypeOK
<1>4. TypeOK'
  BY <1>1, <1>2 DEF Inv, TypeOK
<1>5. \A h \in Generations : \/ thread'[h] = thread[h]
                             \/ h = g /\ replace /\ thread[h] = "none" /\ thread'[h] = "connecting"
  <2>1. CASE replace
    <3>1. thread[g] = "none"
      BY <1>1, <2>1 DEF Inv, TypeOK, Succession, Generations
    <3>2. QED BY <1>1, <2>1, <3>1 DEF Inv, TypeOK
  <2>2. QED BY <1>1, <2>1
<1>6. Succession'
  BY <1>1, <1>5 DEF Inv, TypeOK, Succession, Generations
<1>7. NoneLeft'
  BY <1>1, <1>5 DEF Inv, NoneLeft
<1>8. ASSUME NEW f \in Futures PROVE Accounted(f)'
  <2>1. Accounted(f) /\ future[f].gen \in Generations
    BY DEF Inv, AllAccounted, TypeOK, Future
  <2>2. thread[future[f].gen] \in {"serving", "joining"} =>
            thread'[future[f].gen] = thread[future[f].gen]
    BY <1>5, <2>1
  <2>3. QED BY <1>1, <2>1, <2>2 DEF Accounted, Filed, OwnerOf
<1>9. Grows
  BY <1>1 DEF Grows, Filed, Resolved
<1>10. Drains(c)' /\ Closes(c)'
  BY <1>2, <1>3 DEF Drains, Closes
<1>11. CallersInformed'
  BY <1>3, <1>9, <1>10, CallerKept DEF CallersInformed
<1>12. QED BY <1>4, <1>6, <1>7, <1>8, <1>11 DEF Inv, AllAccounted

\* A call is sent to a generation that serves.
LEMMA DispatchStep ==
    ASSUME Inv, NEW c \in Callers, NEW f \in Futures, Dispatch(c, f)
    PROVE  Inv' /\ \A e \in Futures : e # f => future'[e] = future[e]
<1> DEFINE g == caller[c].gen
<1> DEFINE o == caller[c].owner
<1> DEFINE sent == [NoFuture EXCEPT !.owner = o, !.gen = g, !.native = "running"]
<1>1. /\ ~closed /\ g \in connected /\ future[f] = NoFuture
      /\ future' = [future EXCEPT ![f] = sent]
      /\ requests' = [requests EXCEPT ![g] = @ \cup {f}]
      /\ pending' = pending \cup {f}
      /\ caller' = [caller EXCEPT ![c] = Resting]
      /\ UNCHANGED <<current, thread, ready, connected, accepting, stop, uncertain, closed>>
      /\ caller[c].pc = "ready"
  BY DEF Dispatch, Usable, Return, lifecycle, flags, At
<1>2. g \in Generations /\ thread[g] = "serving" /\ o \in Owners \cup {NoOwner}
  BY <1>1 DEF Inv, TypeOK, Succession, Caller
<1>3. /\ sent \in Future /\ sent.owner = o /\ sent.gen = g /\ sent.native = "running"
      /\ sent.reply = "none" /\ sent.step = "none" /\ sent.verdict = "none"
  BY <1>2, RestingIsCaller DEF NoFuture, Future
<1> HIDE DEF sent
<1>4. o # NoOwner
  BY <1>1 DEF Inv, CallersInformed, Drains
<1>5. /\ future'[f] = sent /\ \A e \in Futures : e # f => future'[e] = future[e]
      /\ requests'[g] = requests[g] \cup {f}
      /\ \A h \in Generations : h # g => requests'[h] = requests[h]
      /\ caller'[c] = Resting /\ \A e \in Callers : e # c => caller'[e] = caller[e]
  BY <1>1, <1>2 DEF Inv, TypeOK
<1>6. TypeOK'
  BY <1>1, <1>2, <1>3, RestingIsCaller DEF Inv, TypeOK
<1>7. Succession' /\ NoneLeft'
  BY <1>1, <1>2, <1>5 DEF Inv, Succession, NoneLeft
<1>8. /\ ~Filed(f) /\ NoFuture.step = "none" /\ NoFuture.owner = NoOwner
  BY <1>1 DEF Filed, NoFuture
<1>9. ASSUME NEW e \in Futures PROVE Accounted(e)'
  <2>1. Accounted(e)
    BY DEF Inv, AllAccounted
  <2>2. CASE e = f
    <3>1. \A h \in Generations : f \notin requests[h]
      BY <1>8, <2>1, <2>2 DEF Accounted
    <3>2. \A h \in Generations : f \in requests'[h] <=> h = g
      BY <1>5, <3>1
    <3>3. Filed(f)'
      BY <1>3, <1>4, <1>5 DEF Filed
    <3>4. QED BY <1>1, <1>2, <1>3, <1>5, <2>2, <3>2, <3>3 DEF Accounted
  <2>3. CASE e # f
    <3>1. \A h \in Generations : e \in requests'[h] <=> e \in requests[h]
      BY <1>5, <2>3
    <3>2. QED BY <1>1, <1>5, <2>1, <2>3, <3>1 DEF Accounted, Filed, OwnerOf
  <2>4. QED BY <2>2, <2>3
<1>10. Grows
  BY <1>1, <1>5, <1>8 DEF Grows, Filed, Resolved
<1>11. Drains(c)' /\ Closes(c)'
  BY <1>5 DEF Drains, Closes, Resting
<1>12. CallersInformed'
  BY <1>5, <1>10, <1>11, CallerKept DEF CallersInformed
<1>13. QED BY <1>5, <1>6, <1>7, <1>9, <1>12 DEF Inv, AllAccounted

\* A submission is refused.
LEMMA SubmitRefusedStep ==
    ASSUME Inv, NEW c \in Callers, SubmitRefused(c)
    PROVE  Inv'
  BY CallerReturns DEF SubmitRefused

-----------------------------------------------------------------------------
(* The server, the protocol and _finished                                  *)

\* One filed call moves; its owner and generation stay, its worker does not
\* start again and it is not unresolved again.
LEMMA CallMoves ==
    ASSUME Inv, NEW f \in Futures, Filed(f), NEW r \in Future,
           future' = [future EXCEPT ![f] = r],
           r.owner = future[f].owner, r.gen = future[f].gen, r.native # "none",
           r.native = "running" => future[f].native = "running",
           Resolved(f) => r.step \in {"set", "done"},
           r.step = "none" <=> r.verdict = "none",
           r.reply = "ok" => r.native = "ended",
           r.verdict = "ok" => r.native = "ended",
           r.verdict = "error" => r.owner \in uncertain'[r.gen],
           \A g \in Generations : f \in requests'[g] <=> r.gen = g /\ r.step = "none",
           f \in pending' <=> r.step # "done",
           \A g \in Generations, e \in Futures :
               e # f => (e \in requests'[g] <=> e \in requests[g]),
           \A e \in Futures : e # f => (e \in pending' <=> e \in pending),
           requests' \in [Generations -> SUBSET Futures], pending' \subseteq Futures,
           uncertain' \in [Generations -> SUBSET Owners],
           \A g \in Generations : uncertain[g] \subseteq uncertain'[g],
           accepting' \subseteq Generations, stop' \subseteq Generations,
           \A g \in Generations : requests'[g] \subseteq requests[g],
           UNCHANGED <<lifecycle, closed, caller>>
    PROVE  Inv' /\ \A e \in Futures : e # f => future'[e] = future[e]
<1>1. /\ future'[f] = r /\ \A e \in Futures : e # f => future'[e] = future[e]
      /\ UNCHANGED <<current, thread, ready, connected>>
  BY DEF Inv, TypeOK, lifecycle
<1>2. TypeOK'
  BY <1>1 DEF Inv, TypeOK
<1>3. Succession' /\ NoneLeft'
  BY <1>1 DEF Inv, Succession, NoneLeft
<1>4. ASSUME NEW e \in Futures PROVE Accounted(e)'
  <2>1. Accounted(e) /\ future[e].gen \in Generations
    BY DEF Inv, AllAccounted, TypeOK, Future
  <2>2. CASE e = f
    <3>1. Filed(f)'
      BY <1>1 DEF Filed
    <3>2. QED BY <1>1, <2>1, <2>2, <3>1 DEF Accounted, OwnerOf
  <2>3. CASE e # f
    BY <1>1, <2>1, <2>3 DEF Accounted, Filed, OwnerOf
  <2>4. QED BY <2>2, <2>3
<1>5. Grows
  BY <1>1 DEF Grows, Filed, Resolved
<1>6. CallersInformed'
  BY <1>5, NobodyMoves
<1>7. QED BY <1>1, <1>2, <1>3, <1>4, <1>6 DEF Inv, AllAccounted

\* The worker ends, or the protocol answers.
LEMMA OutsideStep ==
    ASSUME Inv, NEW f \in Futures, NativeEnds(f) \/ ReplyOk(f) \/ ReplyError(f)
    PROVE  /\ Inv' /\ \A e \in Futures : e # f => future'[e] = future[e]
           /\ future'[f].verdict = future[f].verdict
<1>1. /\ UNCHANGED <<lifecycle, accepting, stop, requests, uncertain, pending, closed, caller>>
      /\ future[f].native # "none"
      /\ \/ future' = [future EXCEPT ![f] = [@ EXCEPT !.native = "ended"]]
         \/ /\ future' = [future EXCEPT ![f] = [@ EXCEPT !.reply = "ok"]]
            /\ future[f].native = "ended"
         \/ future' = [future EXCEPT ![f] = [@ EXCEPT !.reply = "error"]]
  BY DEF NativeEnds, ReplyOk, ReplyError, flags, tables
<1>2. PICK r : /\ future' = [future EXCEPT ![f] = r]
               /\ \/ r = [future[f] EXCEPT !.native = "ended"]
                  \/ r = [future[f] EXCEPT !.reply = "ok"] /\ future[f].native = "ended"
                  \/ r = [future[f] EXCEPT !.reply = "error"]
  BY <1>1
<1>3. future[f] \in Future /\ Accounted(f)
  BY DEF Inv, TypeOK, AllAccounted
<1>4. Filed(f)
  BY <1>1, <1>3 DEF Accounted, NoFuture
<1>5. /\ r \in Future /\ r.owner = future[f].owner /\ r.gen = future[f].gen
      /\ r.native # "none"
      /\ r.native = "running" => future[f].native = "running"
      /\ r.step = future[f].step /\ r.verdict = future[f].verdict
      /\ r.reply = "ok" => r.native = "ended"
      /\ r.verdict = "ok" => r.native = "ended"
  BY <1>1, <1>2, <1>3 DEF Future, Accounted
<1>6. /\ \A g \in Generations : f \in requests[g] <=> r.gen = g /\ r.step = "none"
      /\ f \in pending <=> r.step # "done"
      /\ r.step = "none" <=> r.verdict = "none"
      /\ r.verdict = "error" => r.owner \in uncertain[r.gen]
  BY <1>3, <1>4, <1>5 DEF Accounted, OwnerOf
<1>7. Resolved(f) => r.step \in {"set", "done"}
  BY <1>5 DEF Resolved
<1>8. /\ requests \in [Generations -> SUBSET Futures] /\ pending \subseteq Futures
      /\ uncertain \in [Generations -> SUBSET Owners]
      /\ accepting \subseteq Generations /\ stop \subseteq Generations
  BY DEF Inv, TypeOK
<1>9. /\ requests' = requests /\ uncertain' = uncertain /\ pending' = pending
      /\ accepting' = accepting /\ stop' = stop
      /\ UNCHANGED <<lifecycle, closed, caller>>
  BY <1>1
<1>10. future' = [future EXCEPT ![f] = r]
  BY <1>2
<1>11. Inv' /\ \A e \in Futures : e # f => future'[e] = future[e]
  BY <1>4, <1>5, <1>6, <1>7, <1>8, <1>9, <1>10, CallMoves
<1>12. future'[f] = r
  BY <1>10 DEF Inv, TypeOK
<1>13. QED BY <1>5, <1>11, <1>12

\* A call is claimed once, from its generation's requests.
LEMMA ClaimStep ==
    ASSUME Inv, NEW f \in Futures, NEW verdict \in {"ok", "error"},
           NEW by \in {"callback", "thread"}, Claim(f, verdict, by),
           verdict = "ok" => future[f].reply = "ok"
    PROVE  /\ Inv' /\ \A e \in Futures : e # f => future'[e] = future[e]
           /\ future[f].verdict = "none"
<1> DEFINE g == future[f].gen
<1> DEFINE r == [future[f] EXCEPT !.step = "removed", !.verdict = verdict, !.by = by]
<1>1. /\ f \in requests[g]
      /\ requests' = [requests EXCEPT ![g] = @ \ {f}]
      /\ uncertain' = Fenced(g, OwnerOf(f), verdict)
      /\ accepting' = IF verdict = "error" THEN accepting \ {g} ELSE accepting
      /\ future' = [future EXCEPT ![f] = r]
      /\ UNCHANGED <<lifecycle, stop, pending, closed, caller>>
  BY DEF Claim, Unclaimed
<1>2. future[f] \in Future /\ Accounted(f) /\ g \in Generations
  BY DEF Inv, TypeOK, AllAccounted, Future
<1>3. Filed(f) /\ future[f].step = "none" /\ future[f].verdict = "none"
  BY <1>1, <1>2 DEF Accounted
<1>4. /\ r \in Future /\ r.owner = future[f].owner /\ r.gen = g
      /\ r.native = future[f].native /\ r.native # "none" /\ r.reply = future[f].reply
      /\ r.step = "removed" /\ r.verdict = verdict
  BY <1>2, <1>3 DEF Future, Accounted
<1>5. OwnerOf(f) \in Owners
  BY <1>2, <1>3 DEF OwnerOf, Filed, Future
<1>6. /\ uncertain' \in [Generations -> SUBSET Owners]
      /\ \A h \in Generations : uncertain[h] \subseteq uncertain'[h]
      /\ verdict = "error" => OwnerOf(f) \in uncertain'[g]
  BY <1>1, <1>2, <1>5 DEF Fenced, Inv, TypeOK
<1>7. /\ requests' \in [Generations -> SUBSET Futures]
      /\ \A h \in Generations : requests'[h] \subseteq requests[h]
      /\ \A h \in Generations, e \in Futures :
             e # f => (e \in requests'[h] <=> e \in requests[h])
      /\ f \notin requests'[g]
  BY <1>1, <1>2 DEF Inv, TypeOK
<1>8. \A h \in Generations : f \notin requests'[h]
  BY <1>2, <1>3, <1>7 DEF Accounted
<1>9. /\ f \in pending
      /\ r.reply = "ok" => r.native = "ended"
      /\ r.verdict = "ok" => r.native = "ended"
      /\ ~Resolved(f)
  BY <1>2, <1>3, <1>4 DEF Accounted, Resolved
<1>10. /\ accepting' \subseteq Generations /\ stop' \subseteq Generations
       /\ pending' = pending /\ pending \subseteq Futures
  BY <1>1 DEF Inv, TypeOK
<1>11. r.verdict = "error" => r.owner \in uncertain'[r.gen]
  BY <1>4, <1>6 DEF OwnerOf
<1>12. UNCHANGED <<lifecycle, closed, caller>>
  BY <1>1
<1>13. future' = [future EXCEPT ![f] = r]
  BY <1>1
<1> HIDE DEF r
<1>14. QED
  BY <1>3, <1>4, <1>6, <1>7, <1>8, <1>9, <1>10, <1>11, <1>12, <1>13, CallMoves

\* The later steps of _finished.
LEMMA FinishStep ==
    ASSUME Inv, NEW f \in Futures, StopGeneration(f) \/ Resolve(f) \/ Discard(f)
    PROVE  /\ Inv' /\ \A e \in Futures : e # f => future'[e] = future[e]
           /\ future'[f].verdict = future[f].verdict
<1>1. future[f] \in Future /\ Accounted(f) /\ future[f].gen \in Generations
  BY DEF Inv, TypeOK, AllAccounted, Future
<1>2. PICK s \in {"stopped", "set", "done"} :
          /\ future' = [future EXCEPT ![f] = [@ EXCEPT !.step = s]]
          /\ future[f].step # "none"
          /\ Resolved(f) => s = "done"
          /\ pending' = IF s = "done" THEN pending \ {f} ELSE pending
          /\ future[f].step # "done"
          /\ stop' = stop \/ stop' = StopWith(f)
          /\ UNCHANGED <<lifecycle, accepting, requests, uncertain, closed, caller>>
  <2>1. CASE StopGeneration(f)
    BY <2>1 DEF StopGeneration, Resolved, tables
  <2>2. CASE Resolve(f)
    BY <2>2 DEF Resolve, Resolved, tables, flags
  <2>3. CASE Discard(f)
    BY <2>3 DEF Discard, Resolved, flags
  <2>4. QED BY <2>1, <2>2, <2>3
<1> DEFINE r == [future[f] EXCEPT !.step = s]
<1>3. future' = [future EXCEPT ![f] = r]
  BY <1>2
<1>4. Filed(f)
  BY <1>1, <1>2 DEF Accounted, NoFuture
<1>5. /\ r \in Future /\ r.owner = future[f].owner /\ r.gen = future[f].gen
      /\ r.native = future[f].native /\ r.native # "none" /\ r.reply = future[f].reply
      /\ r.step = s /\ r.verdict = future[f].verdict /\ r.verdict # "none"
  BY <1>1, <1>2, <1>4 DEF Future, Accounted
<1> HIDE DEF r
<1>6. /\ \A g \in Generations : f \notin requests[g]
      /\ f \in pending
      /\ r.verdict = "error" => r.owner \in uncertain[r.gen]
      /\ r.reply = "ok" => r.native = "ended"
      /\ r.verdict = "ok" => r.native = "ended"
  BY <1>1, <1>2, <1>4, <1>5 DEF Accounted, OwnerOf
<1>7. /\ requests \in [Generations -> SUBSET Futures] /\ pending' \subseteq Futures
      /\ uncertain \in [Generations -> SUBSET Owners]
      /\ accepting \subseteq Generations /\ stop' \subseteq Generations
  BY <1>1, <1>2 DEF Inv, TypeOK, StopWith
<1>8. /\ \A e \in Futures : e # f => (e \in pending' <=> e \in pending)
      /\ f \in pending' <=> r.step # "done"
      /\ Resolved(f) => r.step \in {"set", "done"}
  BY <1>2, <1>5, <1>6
<1>9. UNCHANGED <<lifecycle, closed, caller>> /\ requests' = requests
      /\ uncertain' = uncertain /\ accepting' = accepting
  BY <1>2
<1>10. Inv' /\ \A e \in Futures : e # f => future'[e] = future[e]
  BY <1>2, <1>3, <1>4, <1>5, <1>6, <1>7, <1>8, <1>9, CallMoves
<1>11. future'[f] = r
  BY <1>3 DEF Inv, TypeOK
<1>12. QED BY <1>5, <1>10, <1>11

-----------------------------------------------------------------------------
(* The thread of a generation                                              *)

\* The thread of the current generation moves on, and joins its workers first.
LEMMA ThreadMoves ==
    ASSUME Inv, NEW g \in Generations, thread[g] \notin {"none", "dead"},
           NEW s \in {"serving", "joining", "retiring", "dead"},
           thread' = [thread EXCEPT ![g] = s],
           ready' \in [Generations -> {"pending", "ok", "failed"}],
           connected' \subseteq Generations, accepting' \subseteq Generations,
           stop' \subseteq Generations,
           \A h \in connected' : h # g => h \in connected,
           g \in connected' => s = "serving",
           s = "dead" => requests[g] = {},
           s \in {"serving", "joining"} \/ thread[g] \notin {"serving", "joining"} \/
               WorkersJoined(g),
           UNCHANGED <<current, tables, closed, future, caller>>
    PROVE  Inv'
<1>1. /\ thread'[g] = s /\ \A h \in Generations : h # g => thread'[h] = thread[h]
      /\ UNCHANGED <<requests, uncertain, pending>>
  BY DEF Inv, TypeOK, tables
<1>2. TypeOK'
  BY <1>1 DEF Inv, TypeOK
<1>3. g = current
  BY DEF Inv, TypeOK, Succession, Generations
<1>4. Succession'
  BY <1>1, <1>3 DEF Inv, TypeOK, Succession, Generations
<1>5. NoneLeft'
  BY <1>1 DEF Inv, NoneLeft
<1>6. ASSUME NEW f \in Futures PROVE Accounted(f)'
  <2>1. Accounted(f) /\ future[f].gen \in Generations
    BY DEF Inv, AllAccounted, TypeOK, Future
  <2>2. future[f].native = "running" => thread'[future[f].gen] \in {"serving", "joining"}
    BY <1>1, <2>1 DEF Accounted, WorkersJoined, NativeDone
  <2>3. QED BY <1>1, <2>1, <2>2 DEF Accounted, Filed, OwnerOf
<1>7. Grows
  BY <1>1 DEF Grows, Filed, Resolved
<1>8. CallersInformed'
  BY <1>7, NobodyMoves
<1>9. QED BY <1>2, <1>4, <1>5, <1>6, <1>8 DEF Inv, AllAccounted

\* Connecting, serving, joining, retiring and dying.
LEMMA LivingStep ==
    ASSUME Inv, NEW g \in Generations, Living(g)
    PROVE  Inv'
<1>1. /\ ready \in [Generations -> {"pending", "ok", "failed"}]
      /\ connected \subseteq Generations /\ accepting \subseteq Generations
      /\ stop \subseteq Generations
      /\ g \in connected => thread[g] = "serving"
  BY DEF Inv, TypeOK, Succession
<1>2. CASE Connect(g)
  BY <1>1, <1>2, ThreadMoves DEF Connect
<1>3. CASE ConnectFails(g)
  BY <1>1, <1>3, ThreadMoves DEF ConnectFails, flags
<1>4. CASE LeaveMain(g)
  BY <1>1, <1>4, ThreadMoves DEF LeaveMain
<1>5. CASE Retire(g)
  BY <1>1, <1>5, ThreadMoves DEF Retire
<1>6. CASE Die(g)
  <2>1. ready' \in [Generations -> {"pending", "ok", "failed"}]
    BY <1>1, <1>6 DEF Die
  <2>2. QED BY <1>1, <1>6, <2>1, ThreadMoves DEF Die, flags, Abandoned
<1>7. QED BY <1>2, <1>3, <1>4, <1>5, <1>6 DEF Living

\* The connection is lost; the thread learns of it later.
LEMMA DisconnectStep ==
    ASSUME Inv, NEW g \in Generations, Disconnect(g)
    PROVE  Inv'
<1>1. /\ connected' = connected \ {g}
      /\ UNCHANGED <<current, thread, ready, accepting, stop, requests, uncertain, pending,
                     closed, future, caller>>
  BY DEF Disconnect, flags, tables
<1>2. TypeOK' /\ Succession' /\ NoneLeft'
  BY <1>1 DEF Inv, TypeOK, Succession, NoneLeft
<1>3. AllAccounted'
  BY <1>1 DEF Inv, AllAccounted, Accounted, Filed, OwnerOf
<1>4. Grows
  BY <1>1 DEF Grows, Filed, Resolved
<1>5. QED BY <1>1, <1>2, <1>3, <1>4, NobodyMoves DEF Inv

-----------------------------------------------------------------------------
(* drain and close                                                         *)

\* Native work that still runs belongs to the current generation, and is
\* pending unless it was reported as uncertain.
LEMMA RunningCalls ==
    ASSUME Inv, NEW f \in Futures, future[f].native = "running"
    PROVE  /\ Filed(f) /\ future[f].gen = current
           /\ Resolved(f) \/ f \notin pending => OwnerOf(f) \in uncertain[future[f].gen]
<1>1. /\ Accounted(f) /\ future[f].gen \in Generations
      /\ future[f].verdict \in {"none", "ok", "error"}
  BY DEF Inv, AllAccounted, TypeOK, Future
<1>2. thread[future[f].gen] \notin {"none", "dead"}
  BY <1>1 DEF Accounted
<1>3. future[f].gen = current
  BY <1>1, <1>2 DEF Inv, Succession, TypeOK, Generations
<1>4. Filed(f)
  BY <1>1 DEF Accounted, NoFuture
<1>5. QED BY <1>1, <1>3, <1>4 DEF Accounted, Resolved

\* A drain begins with what is pending for its owner.
LEMMA SnapshotDrains ==
    ASSUME Inv, NEW c \in Callers, NEW o \in Owners, NEW r,
           r.pc = "waiting", r.owner = o, r.gen = current, r.wait = pending \cap Of(o),
           r.seen = Of(o), caller'[c] = r, UNCHANGED <<tables, future>>
    PROVE  Drains(c)'
<1>1. UNCHANGED <<future, pending, uncertain>>
  BY DEF tables
<1>2. ASSUME NEW f \in Of(o)
      PROVE  /\ Filed(f) /\ OwnerOf(f) = o
             /\ future[f].native = "running" =>
                    /\ future[f].gen = current
                    /\ f \in pending \cap Of(o) \/ o \in uncertain[current]
  BY <1>2, RunningCalls, ConstantsAssumption DEF Of, Filed, OwnerOf
<1>3. QED BY <1>1, <1>2 DEF Drains, Suspected, Filed, OwnerOf

\* drain() starts.
LEMMA DrainStep ==
    ASSUME Inv, NEW c \in Callers, NEW o \in Owners, Drain(c, o)
    PROVE  Inv'
<1> DEFINE r == [Snapshot(c, o) EXCEPT !.op = "drain"]
<1>1. /\ caller' = [caller EXCEPT ![c] = r]
      /\ UNCHANGED <<lifecycle, flags, tables, closed, future>>
  BY DEF Drain
<1>2. /\ r \in Caller /\ r.pc = "waiting" /\ r.op = "drain" /\ r.owner = o
      /\ r.gen = current /\ r.wait = pending \cap Of(o) /\ r.seen = Of(o)
  BY DEF Inv, TypeOK, Caller, Snapshot, Of
<1> HIDE DEF r
<1>3. caller'[c] = r
  BY <1>1 DEF Inv, TypeOK
<1>4. Drains(c)'
  BY <1>1, <1>2, <1>3, SnapshotDrains
<1>5. Closes(c)'
  BY <1>2, <1>3 DEF Closes
<1>6. QED BY <1>1, <1>2, <1>4, <1>5, OnlyCallerMoves

\* close() drains one of its owners.
LEMMA CloseDrainsStep ==
    ASSUME Inv, NEW c \in Callers, CloseDrains(c)
    PROVE  Inv'
<1>1. PICK o \in caller[c].todo :
          caller' = [caller EXCEPT ![c] = [Snapshot(c, o) EXCEPT !.todo = @ \ {o}]]
  BY DEF CloseDrains
<1> DEFINE r == [Snapshot(c, o) EXCEPT !.todo = @ \ {o}]
<1>2. /\ caller[c] \in Caller /\ Closes(c) /\ caller[c].pc = "stopping"
      /\ UNCHANGED <<lifecycle, flags, tables, closed, future>>
  BY DEF Inv, TypeOK, CallersInformed, CloseDrains, At
<1>3. o \in Owners
  BY <1>2 DEF Caller
<1>4. /\ r \in Caller /\ r.pc = "waiting" /\ r.op = caller[c].op /\ r.owner = o
      /\ r.gen = current /\ r.wait = pending \cap Of(o) /\ r.seen = Of(o)
      /\ r.todo = caller[c].todo \ {o}
  BY <1>2, <1>3 DEF Inv, TypeOK, Caller, Snapshot, Of
<1>5. caller' = [caller EXCEPT ![c] = r]
  BY <1>1
<1> HIDE DEF r
<1>6. caller'[c] = r
  BY <1>5 DEF Inv, TypeOK
<1>7. Drains(c)'
  BY <1>2, <1>3, <1>4, <1>6, SnapshotDrains
<1>8. ASSUME NEW f \in Futures, Filed(f), ~Resolved(f)
      PROVE  OwnerOf(f) \in r.todo \/ f \in r.wait
  <2>1. OwnerOf(f) \in caller[c].todo
    BY <1>2, <1>8 DEF Closes
  <2>2. f \in pending
    BY <1>8 DEF Inv, AllAccounted, Accounted, Resolved
  <2>3. QED BY <1>4, <2>1, <2>2 DEF Of
<1>9. UNCHANGED <<closed, current, future>>
  BY <1>2 DEF lifecycle
<1>10. Closes(c)'
  BY <1>2, <1>4, <1>6, <1>8, <1>9 DEF Closes, Filed, Resolved, OwnerOf
<1>11. QED BY <1>2, <1>4, <1>5, <1>7, <1>10, OnlyCallerMoves

\* A drain or a close goes on to its next step.
LEMMA GoStep ==
    ASSUME Inv, NEW c \in Callers, NEW p \in {"checking", "joining", "drained", "stopping"},
           Go(c, p), UNCHANGED <<lifecycle, flags, tables, closed, future>>,
           caller[c].pc \in {"waiting", "checking", "joining", "drained"},
           p = "checking" => caller[c].pc = "waiting",
           caller[c].pc = "waiting" => \A f \in caller[c].wait : Resolved(f),
           p \in {"joining", "drained"} => caller[c].pc \in {"checking", "joining"},
           p = "drained" => \/ /\ caller[c].pc = "checking"
                               /\ caller[c].owner \notin uncertain[caller[c].gen]
                            \/ thread[caller[c].gen] = "dead",
           p = "stopping" => caller[c].op = "close"
    PROVE  Inv'
<1> DEFINE r == [caller[c] EXCEPT !.pc = p]
<1>1. caller' = [caller EXCEPT ![c] = r]
  BY DEF Go
<1>2. /\ caller[c] \in Caller /\ Drains(c) /\ Closes(c)
  BY DEF Inv, TypeOK, CallersInformed
<1>3. /\ r \in Caller /\ r.pc = p /\ r.op = caller[c].op /\ r.owner = caller[c].owner
      /\ r.gen = caller[c].gen /\ r.wait = caller[c].wait /\ r.seen = caller[c].seen
      /\ r.todo = caller[c].todo
  BY <1>2 DEF Caller
<1> HIDE DEF r
<1>4. caller'[c] = r
  BY <1>1 DEF Inv, TypeOK
<1>5. UNCHANGED <<current, thread, uncertain, closed, future>>
  BY DEF lifecycle, tables
<1>6. ASSUME NEW f \in caller[c].seen, future[f].native = "running", p # "stopping"
      PROVE  /\ future[f].gen = caller[c].gen /\ p # "drained"
             /\ p = "checking" => caller[c].owner \in uncertain[caller[c].gen]
  <2>1. /\ f \in Futures /\ Filed(f) /\ OwnerOf(f) = caller[c].owner
        /\ future[f].gen = caller[c].gen /\ Suspected(c, f) /\ Accounted(f)
    BY <1>2, <1>6 DEF Drains, Caller, Inv, AllAccounted
  <2>2. thread[caller[c].gen] # "dead"
    BY <1>6, <2>1 DEF Accounted
  <2>3. p # "drained"
    BY <2>1, <2>2 DEF Suspected
  <2>4. p = "checking" => caller[c].owner \in uncertain[caller[c].gen]
    BY <1>6, <2>1, RunningCalls DEF Suspected
  <2>5. QED BY <2>1, <2>3, <2>4
<1>7. Drains(c)'
  BY <1>2, <1>3, <1>4, <1>5, <1>6 DEF Drains, Suspected, Filed, OwnerOf
<1>8. Closes(c)'
  BY <1>2, <1>3, <1>4, <1>5 DEF Closes, Filed, Resolved, OwnerOf
<1>9. QED BY <1>1, <1>3, <1>7, <1>8, OnlyCallerMoves

\* The steps of drain() after its snapshot, and of close() around it.
LEMMA DrainSteps ==
    ASSUME Inv, NEW c \in Callers,
           \/ DrainWaits(c) \/ DrainChecks(c) \/ DrainJoins(c)
           \/ DrainTimesOut(c) \/ Drained(c)
    PROVE  Inv'
<1>1. CASE DrainWaits(c)
  BY <1>1, GoStep DEF DrainWaits, At
<1>2. CASE DrainChecks(c)
  BY <1>2, GoStep DEF DrainChecks, At
<1>3. CASE DrainJoins(c)
  BY <1>3, GoStep DEF DrainJoins, At
<1>4. CASE DrainTimesOut(c)
  BY <1>4, CallerReturns DEF DrainTimesOut
<1>5. CASE Drained(c)
  BY <1>5, GoStep, CallerReturns DEF Drained, At
<1>6. QED BY <1>1, <1>2, <1>3, <1>4, <1>5

\* close() starts: every unresolved call is pending, so its owner is drained.
LEMMA CloseStep ==
    ASSUME Inv, NEW c \in Callers, Close(c)
    PROVE  Inv'
<1> DEFINE todo == {OwnerOf(f) : f \in pending} \cup uncertain[current]
<1> DEFINE r == [Resting EXCEPT !.op = "close", !.pc = "stopping", !.gen = current,
                                !.todo = todo]
<1>1. /\ caller' = [caller EXCEPT ![c] = r] /\ closed' = TRUE
      /\ UNCHANGED <<lifecycle, accepting, stop, tables, future>>
  BY DEF Close, flags
<1>2. \A f \in pending : f \in Futures /\ OwnerOf(f) \in Owners
  BY DEF Inv, TypeOK, AllAccounted, Accounted, Filed, OwnerOf, Future
<1>3. todo \in SUBSET Owners /\ current \in Generations
  BY <1>2 DEF Inv, TypeOK
<1> HIDE DEF todo
<1>4. /\ r \in Caller /\ r.op = "close" /\ r.pc = "stopping" /\ r.gen = current
      /\ r.todo = todo
  BY <1>3, RestingIsCaller DEF Resting, Caller
<1> HIDE DEF r
<1>5. caller'[c] = r
  BY <1>1 DEF Inv, TypeOK
<1>6. ASSUME NEW f \in Futures, Filed(f), ~Resolved(f) PROVE OwnerOf(f) \in todo
  BY <1>6 DEF Inv, AllAccounted, Accounted, Resolved, todo
<1>7. Drains(c)'
  BY <1>4, <1>5 DEF Drains
<1>8. Closes(c)'
  BY <1>1, <1>4, <1>5, <1>6 DEF Closes, Filed, Resolved, OwnerOf, lifecycle
<1>9. stop' \subseteq Generations
  BY <1>1 DEF Inv, TypeOK
<1>10. QED BY <1>1, <1>4, <1>7, <1>8, <1>9, CallerMoves

\* close() stops its generation when every owner has been drained.
LEMMA CloseStopsStep ==
    ASSUME Inv, NEW c \in Callers, CloseStops(c)
    PROVE  Inv'
<1> DEFINE r == [caller[c] EXCEPT !.pc = "ended"]
<1>1. /\ caller' = [caller EXCEPT ![c] = r] /\ stop' = stop \cup {caller[c].gen}
      /\ caller[c].pc = "stopping" /\ caller[c].todo = {}
      /\ UNCHANGED <<lifecycle, accepting, tables, closed, future>>
  BY DEF CloseStops, Go, At
<1>2. caller[c] \in Caller /\ Closes(c)
  BY DEF Inv, TypeOK, CallersInformed
<1>3. /\ r \in Caller /\ r.pc = "ended" /\ r.op = caller[c].op
      /\ r.gen = caller[c].gen /\ r.todo = caller[c].todo
  BY <1>2 DEF Caller
<1> HIDE DEF r
<1>4. caller'[c] = r
  BY <1>1 DEF Inv, TypeOK
<1>5. Drains(c)'
  BY <1>3, <1>4 DEF Drains
<1>6. Closes(c)'
  BY <1>1, <1>2, <1>3, <1>4 DEF Closes, Filed, Resolved, OwnerOf, lifecycle
<1>7. /\ stop' \subseteq Generations /\ closed' \in BOOLEAN
      /\ closed => closed'
  BY <1>1, <1>2 DEF Inv, TypeOK, Caller
<1>8. QED BY <1>1, <1>3, <1>5, <1>6, <1>7, CallerMoves

\* close() returns.
LEMMA CloseEndsStep ==
    ASSUME Inv, NEW c \in Callers, CloseEnds(c)
    PROVE  Inv'
  BY CallerReturns DEF CloseEnds

-----------------------------------------------------------------------------
(* The theorems                                                            *)

\* The executor after its constructor.
LEMMA Initially == Init => Inv
<1> SUFFICES ASSUME Init PROVE Inv
  OBVIOUS
<1>1. NoFuture \in Future
  BY RestingIsCaller DEF NoFuture, Future
<1>2. TypeOK
  BY <1>1, RestingIsCaller DEF Init, TypeOK
<1>3. Succession /\ NoneLeft
  BY RestingIsCaller, ConstantsAssumption DEF Init, Succession, NoneLeft, Generations
<1>4. AllAccounted
  BY DEF Init, AllAccounted, Accounted, Filed, NoFuture
<1>5. CallersInformed
  BY DEF Init, CallersInformed, Drains, Closes, Resting
<1>6. QED BY <1>2, <1>3, <1>4, <1>5 DEF Inv

\* What a step may do to one call's outcome.
Final(f) == future[f].verdict # "none" =>
    /\ future'[f].verdict = future[f].verdict
    /\ future'[f].verdict = "ok" => future[f].native = "ended"

\* Each step keeps the invariant, and no outcome is taken back.
LEMMA Preserved == Inv /\ [Next]_vars => Inv' /\ \A f \in Futures : Final(f)
<1> SUFFICES ASSUME Inv, [Next]_vars PROVE Inv' /\ \A f \in Futures : Final(f)
  OBVIOUS
<1>1. \A f \in Futures : future[f].verdict = "ok" => future[f].native = "ended"
  BY DEF Inv, AllAccounted, Accounted
<1>2. future' = future => \A f \in Futures : Final(f)
  BY <1>1 DEF Final
<1>3. CASE \E c \in Callers, o \in Owners : Submit(c, o)
  BY <1>2, <1>3, SubmitStep DEF Submit
<1>4. ASSUME NEW c \in Callers, NEW f \in Futures, Dispatch(c, f)
      PROVE  Inv' /\ \A e \in Futures : Final(e)
  <2>1. Inv' /\ \A e \in Futures : e # f => future'[e] = future[e]
    BY <1>4, DispatchStep
  <2>2. future[f].verdict = "none"
    BY <1>4 DEF Dispatch, NoFuture
  <2>3. QED BY <1>1, <2>1, <2>2 DEF Final
<1>5. CASE \E c \in Callers : SubmitRefused(c)
  BY <1>2, <1>5, SubmitRefusedStep DEF SubmitRefused
<1>6. ASSUME NEW f \in Futures,
             \/ NativeEnds(f) \/ ReplyOk(f) \/ ReplyError(f)
             \/ StopGeneration(f) \/ Resolve(f) \/ Discard(f)
      PROVE  Inv' /\ \A e \in Futures : Final(e)
  <2>1. /\ Inv' /\ \A e \in Futures : e # f => future'[e] = future[e]
        /\ future'[f].verdict = future[f].verdict
    BY <1>6, OutsideStep, FinishStep
  <2>2. QED BY <1>1, <2>1 DEF Final
<1>7. ASSUME NEW f \in Futures, ByCallback(f) \/ Abandon(f)
      PROVE  Inv' /\ \A e \in Futures : Final(e)
  <2>1. future[f].reply \in {"none", "ok", "error"}
    BY DEF Inv, TypeOK, Future
  <2>2. CASE ByCallback(f)
    <3>1. future[f].reply \in {"ok", "error"} /\ Claim(f, future[f].reply, "callback")
      BY <2>1, <2>2 DEF ByCallback
    <3>2. /\ Inv' /\ \A e \in Futures : e # f => future'[e] = future[e]
          /\ future[f].verdict = "none"
      BY <3>1, ClaimStep
    <3>3. QED BY <1>1, <3>2 DEF Final
  <2>3. CASE Abandon(f)
    <3>1. Claim(f, "error", "thread")
      BY <2>3 DEF Abandon
    <3>2. /\ Inv' /\ \A e \in Futures : e # f => future'[e] = future[e]
          /\ future[f].verdict = "none"
      BY <3>1, ClaimStep
    <3>3. QED BY <1>1, <3>2 DEF Final
  <2>4. QED BY <1>7, <2>2, <2>3
<1>8. CASE \E g \in Generations : Living(g)
  BY <1>2, <1>8, LivingStep DEF Living, Connect, ConnectFails, LeaveMain, Retire, Die
<1>9. CASE \E g \in Generations : Disconnect(g)
  BY <1>2, <1>9, DisconnectStep DEF Disconnect
<1>10. CASE \E c \in Callers, o \in Owners : Drain(c, o)
  BY <1>2, <1>10, DrainStep DEF Drain
<1>11. ASSUME NEW c \in Callers,
              \/ DrainWaits(c) \/ DrainChecks(c) \/ DrainJoins(c)
              \/ DrainTimesOut(c) \/ Drained(c)
       PROVE  Inv' /\ \A f \in Futures : Final(f)
  BY <1>2, <1>11, DrainSteps
  DEF DrainWaits, DrainChecks, DrainJoins, DrainTimesOut, Drained
<1>12. ASSUME NEW c \in Callers, Close(c) \/ CloseDrains(c) \/ CloseStops(c) \/ CloseEnds(c)
       PROVE  Inv' /\ \A f \in Futures : Final(f)
  <2>1. Inv'
    BY <1>12, CloseStep, CloseDrainsStep, CloseStopsStep, CloseEndsStep
  <2>2. future' = future
    BY <1>12 DEF Close, CloseDrains, CloseStops, CloseEnds
  <2>3. QED BY <1>2, <2>1, <2>2
<1>13. CASE UNCHANGED vars
  <2>1. UNCHANGED <<current, thread, ready, connected, accepting, stop, requests, uncertain,
                    pending, closed, future, caller>>
    BY <1>13 DEF vars, lifecycle, flags, tables
  <2>2. TypeOK' /\ Succession' /\ NoneLeft'
    BY <2>1 DEF Inv, TypeOK, Succession, NoneLeft
  <2>3. AllAccounted'
    BY <2>1 DEF Inv, AllAccounted, Accounted, Filed, OwnerOf
  <2>4. Grows
    BY <2>1 DEF Grows, Filed, Resolved
  <2>5. QED BY <1>2, <2>1, <2>2, <2>3, <2>4, NobodyMoves DEF Inv
<1>14. QED
  BY <1>3, <1>4, <1>5, <1>6, <1>7, <1>8, <1>9, <1>10, <1>11, <1>12, <1>13
  DEF Next, Calling, Finishing

\* The invariant holds throughout.
LEMMA Invariant == Spec => []Inv
<1>1. Inv /\ [Next]_vars => Inv'
  BY Preserved
<1>2. QED BY Initially, <1>1, PTL DEF Spec

\* TypeOK: generations, Futures and callers keep their types.
THEOREM TypeCorrect == Spec => []TypeOK
<1>1. Inv => TypeOK
  BY DEF Inv
<1>2. QED BY Invariant, <1>1, PTL

\* OneGenerationWorks: native work only ever runs in the current generation,
\* however often the executor reconnects, and a dead one left no request.
THEOREM GenerationsApart == Spec => []OneGenerationWorks
<1>1. Inv => OneGenerationWorks
  BY RunningCalls DEF Inv, NoneLeft, OneGenerationWorks
<1>2. QED BY Invariant, <1>1, PTL

\* DrainMeansQuiet: a drain that returns has outlasted all native work of its
\* owner dispatched before it, uncertain outcomes included.
THEOREM DrainIsQuiet == Spec => []DrainMeansQuiet
<1>1. ASSUME Inv PROVE DrainMeansQuiet
  BY <1>1 DEF Inv, CallersInformed, Drains, Suspected, DrainMeansQuiet, NativeDone, At
<1>2. QED BY Invariant, <1>1, PTL

\* CloseMeansQuiet: a close that sees its thread dead leaves no native worker
\* and no unresolved Future behind.
THEOREM CloseIsQuiet == Spec => []CloseMeansQuiet
<1>1. ASSUME Inv PROVE CloseMeansQuiet
  <2>1. SUFFICES ASSUME NEW c \in Callers, At(c, "ended"), thread[caller[c].gen] = "dead"
                 PROVE  /\ NativeDone(Futures)
                        /\ \A f \in Futures : future[f].owner # NoOwner => Resolved(f)
    BY DEF CloseMeansQuiet
  <2>2. /\ caller[c].gen = current /\ caller[c].todo = {} /\ caller[c].pc = "ended"
        /\ caller[c].op = "close" /\ Closes(c)
    BY <1>1, <2>1 DEF Inv, CallersInformed, Closes, At
  <2>3. \A f \in Futures : future[f].owner # NoOwner => Resolved(f)
    BY <2>2 DEF Closes, Filed
  <2>4. ASSUME NEW f \in Futures, future[f].native = "running" PROVE FALSE
    <3>1. future[f].gen = current
      BY <1>1, <2>4, RunningCalls
    <3>2. QED BY <1>1, <2>1, <2>2, <2>4, <3>1 DEF Inv, AllAccounted, Accounted
  <2>5. QED BY <2>3, <2>4 DEF NativeDone
<1>2. QED BY Invariant, <1>1, PTL

\* ResolvedOnce: whoever claims a Future decides it for good, and reports a
\* result only for work that ended.
THEOREM OutcomeOnce == Spec => ResolvedOnce
<1> DEFINE AllFinal == \A f \in Futures : future[f].verdict # "none" =>
           /\ future'[f].verdict = future[f].verdict
           /\ future'[f].verdict = "ok" => future[f].native = "ended"
<1>1. Inv /\ [Next]_vars => [AllFinal]_vars
  BY Preserved DEF Final
<1>2. QED BY Invariant, <1>1, PTL DEF Spec, ResolvedOnce
=============================================================================
