----------------------- MODULE OperationJournalProofs -----------------------
(* Theorems about OperationJournal for every value of its constants. *)
EXTENDS OperationJournal, TLAPS

Settled == {"completed", "failed"}

\* A caller inside run() has a receipt for what it asks, of an open owner.
CallsRecorded == \A c \in Callers : pc[c] # "idle" =>
    /\ call[c] \in [key : Keys, digest : Digests]
    /\ Key(c)[1] \notin closed
    /\ rows[Key(c)].state # "none" /\ rows[Key(c)].digest = call[c].digest

\* No two callers run the same request.
CallersApart == \A c, d \in Callers :
    pc[c] # "idle" /\ pc[d] # "idle" /\ Key(c) = Key(d) => c = d

NoRowsBlank == \A k \in Keys : rows[k].state = "none" => rows[k] = NoRow

\* What a request's receipt and its Future say of its effect.
Truthful(k) ==
    /\ effect[k].times <= 1
    /\ effect[k].times = 0 => /\ effect[k].outcome = "none" /\ future[k] = "none"
                              /\ rows[k].state \notin Settled
    /\ rows[k].state = "none" /\ k[1] \notin closed => effect[k].times = 0
    /\ rows[k].state # "none" /\ effect[k].times = 1 => rows[k].digest = effect[k].digest
    /\ rows[k].state \in Settled =>
           rows[k].outcome = effect[k].outcome /\ rows[k].outcome \in Definite
    /\ future[k] = "pending" => effect[k].outcome = "none"
    /\ Done(k) => future[k] = effect[k].outcome
EffectsTruthful == \A k \in Keys : Truthful(k)
NotifiedDone == \A k \in notify : Done(k)

\* What each section of run() knows of the effect.
Aware(c) ==
    /\ pc[c] = "reserved" => effect[Key(c)].times = 0
    /\ pc[c] = "running" => /\ effect[Key(c)].times = 1 /\ effect[Key(c)].outcome = "none"
                            /\ future[Key(c)] = "none"
    /\ pc[c] = "waiting" => future[Key(c)] # "none"
    /\ pc[c] = "complete" => /\ effect[Key(c)].times = 1
                             /\ outcome[c] = effect[Key(c)].outcome /\ outcome[c] # "none"
SectionsAware == \A c \in Callers : Aware(c)

AnswersTrue == \A a \in answers :
    effect[a[1]] = [times |-> 1, digest |-> a[2], outcome |-> a[3]]

Inv == /\ TypeOK /\ CallsRecorded /\ CallersApart /\ NoRowsBlank
       /\ EffectsTruthful /\ NotifiedDone /\ SectionsAware /\ AnswersTrue

-----------------------------------------------------------------------------
(* Types                                                                   *)

RowsOK == rows \in [Keys -> Row]
States == {"idle", "reserved", "running", "waiting", "complete", "unknown"}

\* Pruning drops results and nothing else.
LEMMA PruneKeeps ==
    ASSUME NEW table \in [Keys -> Row], NEW pruned \in Prunes(table)
    PROVE  /\ pruned \in [Keys -> Row]
           /\ \A k \in Keys : /\ pruned[k].state = table[k].state
                              /\ pruned[k].digest = table[k].digest
                              /\ pruned[k].outcome = table[k].outcome
                              /\ table[k] = NoRow => pruned[k] = NoRow
<1>1. PICK dropped \in SUBSET {k \in Keys : table[k].kept} :
          pruned = [k \in Keys |-> IF k \in dropped THEN [table[k] EXCEPT !.kept = FALSE]
                                   ELSE table[k]]
  BY DEF Prunes
<1>2. \A k \in dropped : table[k].kept
  BY <1>1
<1>3. \A k \in Keys : pruned[k] = IF k \in dropped THEN [table[k] EXCEPT !.kept = FALSE]
                                  ELSE table[k]
  BY <1>1
<1>4. ASSUME NEW k \in Keys PROVE pruned[k] \in Row
  <2>1. table[k] \in Row
    OBVIOUS
  <2>2. [table[k] EXCEPT !.kept = FALSE] \in Row
    BY <2>1 DEF Row
  <2>3. QED BY <1>3, <2>1, <2>2
<1>5. \A k \in Keys : table[k] = NoRow => k \notin dropped
  BY <1>2 DEF NoRow
<1>6. QED BY <1>1, <1>3, <1>4, <1>5 DEF Row

\* A row's receipt stays, and a settled outcome is not touched.
Kept(k) == /\ rows'[k].digest = rows[k].digest
           /\ rows'[k].state = "none" <=> rows[k].state = "none"
           /\ rows[k] = NoRow => rows'[k] = NoRow
           /\ rows[k].state \in Settled =>
                  rows'[k].state = rows[k].state /\ rows'[k].outcome = rows[k].outcome

\* Marking a row unknown settles nothing.
LEMMA UnknownKeeps ==
    ASSUME RowsOK, NEW k \in Keys, SetUnknown(k)
    PROVE  /\ RowsOK'
           /\ \A j \in Keys : Kept(j) /\ (rows'[j].state \in Settled => rows[j].state \in Settled)
<1>1. \A j \in Keys : rows'[j] = IF j = k THEN Marked(k) ELSE rows[j]
  BY DEF SetUnknown, RowsOK
<1>2. Marked(k) \in Row
  BY DEF Marked, RowsOK, Row
<1>3. RowsOK'
  BY <1>2 DEF SetUnknown, RowsOK
<1>4. QED
  BY <1>1, <1>3 DEF RowsOK, Row, Marked, Kept, Settled, NoRow

\* Completing a row settles that row only, with the outcome given.
LEMMA CompleteKeeps ==
    ASSUME RowsOK, NEW k \in Keys, NEW o \in Outcomes, SetComplete(k, o)
    PROVE  /\ RowsOK'
           /\ \A j \in Keys : Kept(j)
           /\ \A j \in Keys : rows'[j].state \in Settled =>
                  \/ rows[j].state \in Settled
                  \/ j = k /\ rows'[j].outcome = o /\ o \in Definite
<1> DEFINE table == [rows EXCEPT ![k] = Completed(k, o)]
<1>1. Completed(k, o) \in Row
  BY DEF Completed, RowsOK, Row, Recordable
<1>2. table \in [Keys -> Row]
  BY <1>1 DEF RowsOK
<1>3. \A j \in Keys : table[j] = IF j = k THEN Completed(k, o) ELSE rows[j]
  BY DEF RowsOK
<1>4. rows' \in Prunes(table)
  BY DEF SetComplete
<1>5. /\ Completed(k, o).digest = rows[k].digest
      /\ rows[k].state \notin Recordable => Completed(k, o) = rows[k]
      /\ rows[k].state \in Recordable =>
             /\ Completed(k, o).state \in {"completed", "failed", "unknown"}
             /\ Completed(k, o).outcome = o
             /\ Completed(k, o).state \in Settled => o \in Definite
  BY DEF Completed, RowsOK, Row, Settled, Definite
<1> HIDE DEF table
<1>6. /\ RowsOK'
      /\ \A j \in Keys : /\ rows'[j].state = table[j].state
                         /\ rows'[j].digest = table[j].digest
                         /\ rows'[j].outcome = table[j].outcome
                         /\ table[j] = NoRow => rows'[j] = NoRow
  BY <1>2, <1>4, PruneKeeps DEF RowsOK
<1>7. NoRow.state \notin Recordable
  BY DEF NoRow, Recordable
<1>8. \A j \in Keys : Kept(j)
  <2>1. ASSUME NEW j \in Keys, j # k PROVE Kept(j)
    BY <1>3, <1>6, <2>1 DEF Kept
  <2>2. CASE rows[k].state \notin Recordable
    BY <1>3, <1>5, <1>6, <2>2 DEF Kept
  <2>3. CASE rows[k].state \in Recordable
    BY <1>3, <1>5, <1>6, <1>7, <2>3 DEF Kept, Settled, Recordable
  <2>4. QED BY <2>1, <2>2, <2>3
<1>9. QED BY <1>3, <1>5, <1>6, <1>8

-----------------------------------------------------------------------------
(* Steps that keep every receipt                                           *)

\* What holds of receipts and effects survives a step that keeps all rows,
\* effects and Futures, and settles rows with what happened only.
LEMMA RecordStep ==
    ASSUME Inv, RowsOK', \A k \in Keys : Kept(k),
           \A k \in Keys : rows'[k].state \in Settled =>
               \/ rows[k].state \in Settled
               \/ /\ effect[k].times = 1 /\ rows'[k].outcome = effect[k].outcome
                  /\ rows'[k].outcome \in Definite,
           UNCHANGED <<future, effect, closed>>
    PROVE  EffectsTruthful' /\ NoRowsBlank'
<1>1. NoRowsBlank'
  BY DEF Inv, NoRowsBlank, Kept
<1>2. ASSUME NEW k \in Keys PROVE Truthful(k)'
  BY DEF Inv, EffectsTruthful, Truthful, Kept, Done, TypeOK
<1>3. QED BY <1>1, <1>2 DEF EffectsTruthful

\* Callers that stay where they are, or return, know no less.
LEMMA CallersStep ==
    ASSUME Inv, \A k \in Keys : Kept(k), UNCHANGED <<future, effect, closed>>,
           \A c \in Callers : \/ pc'[c] = "idle"
                              \/ /\ pc'[c] = pc[c] /\ call'[c] = call[c]
                                 /\ outcome'[c] = outcome[c]
    PROVE  CallsRecorded' /\ CallersApart' /\ SectionsAware'
<1>1. CallsRecorded'
  BY DEF Inv, CallsRecorded, Kept, Key
<1>2. CallersApart'
  BY DEF Inv, CallersApart, Key
<1>3. SectionsAware'
  BY DEF Inv, SectionsAware, Aware, Key
<1>4. QED BY <1>1, <1>2, <1>3

-----------------------------------------------------------------------------
(* The steps of run()                                                      *)

\* A repeated request is answered with what happened.
LEMMA RepeatStep ==
    ASSUME Inv, NEW c \in Callers, NEW k \in Keys, NEW d \in Digests, Repeat(c, k, d)
    PROVE  Inv'
<1>1. RowsOK /\ rows' \in Prunes(rows)
  BY DEF Inv, TypeOK, RowsOK, Repeat
<1>2. /\ RowsOK'
      /\ \A j \in Keys : Kept(j) /\ (rows'[j].state \in Settled => rows[j].state \in Settled)
  BY <1>1, PruneKeeps DEF RowsOK, Kept
<1>3. UNCHANGED <<callers, future, notify, closed, effect>>
  BY DEF Repeat
<1>4. EffectsTruthful' /\ NoRowsBlank'
  BY <1>2, <1>3, RecordStep DEF callers
<1>5. CallsRecorded' /\ CallersApart' /\ SectionsAware'
  BY <1>2, <1>3, CallersStep DEF callers
<1>6. /\ rows[k].outcome \in Definite /\ rows[k].digest = d
      /\ effect[k].times = 1 /\ effect[k].digest = d /\ effect[k].outcome = rows[k].outcome
  <2>1. rows[k].state \in Settled /\ rows[k].digest = d
    BY DEF Repeat, Replayable, Settled
  <2>2. Truthful(k) /\ effect[k].times \in Nat
    BY DEF Inv, EffectsTruthful, TypeOK
  <2>3. QED BY <2>1, <2>2 DEF Truthful, Settled
<1>7. effect[k] = [times |-> 1, digest |-> d, outcome |-> rows[k].outcome]
  BY <1>6 DEF Inv, TypeOK
<1>8. AnswersTrue' /\ answers' \in SUBSET (Keys \X Digests \X Definite)
  BY <1>3, <1>6, <1>7 DEF Repeat, Inv, AnswersTrue, TypeOK
<1>9. TypeOK' /\ NotifiedDone'
  BY <1>2, <1>3, <1>8 DEF Inv, TypeOK, RowsOK, callers, NotifiedDone, Done
<1>10. QED BY <1>4, <1>5, <1>8, <1>9 DEF Inv

\* A reservation adds a receipt for what has not happened; the receipts it
\* reclaims are those of closed owners.
LEMMA ReserveStep ==
    ASSUME Inv, NEW c \in Callers, NEW k \in Keys, NEW d \in Digests, Reserve(c, k, d)
    PROVE  Inv'
<1> DEFINE gone == Reclaimed(k)
<1>1. PICK table \in Prunes(rows) :
          rows' = [j \in Keys |-> IF j = k THEN Reserved(d)
                                  ELSE IF j \in gone THEN NoRow ELSE table[j]]
  BY DEF Reserve
<1>2. \A j \in gone : j[1] \in closed
  BY DEF Reclaimed, Reclaimable
<1>3. /\ table \in [Keys -> Row]
      /\ \A j \in Keys : /\ table[j].state = rows[j].state
                         /\ table[j].digest = rows[j].digest
                         /\ table[j].outcome = rows[j].outcome
                         /\ rows[j] = NoRow => table[j] = NoRow
  BY <1>1, PruneKeeps DEF Inv, TypeOK
<1>4. /\ pc[c] = "idle" /\ k[1] \notin closed /\ rows[k] = NoRow
      /\ UNCHANGED <<outcome, future, notify, closed, effect, answers>>
      /\ pc' = [pc EXCEPT ![c] = "reserved"]
      /\ call' = [call EXCEPT ![c] = [key |-> k, digest |-> d]]
  BY DEF Reserve, Known
<1> HIDE DEF gone
<1>5. /\ rows'[k] = Reserved(d)
      /\ \A j \in Keys : j # k => rows'[j] = IF j \in gone THEN NoRow ELSE table[j]
  BY <1>1
<1>6. Reserved(d) \in Row /\ NoRow \in Row
  BY DEF Reserved, NoRow, Row
<1>7. rows' \in [Keys -> Row]
  BY <1>1, <1>3, <1>6
<1>8. TypeOK'
  BY <1>4, <1>7 DEF Inv, TypeOK
<1>9. /\ Reserved(d).state = "running" /\ Reserved(d).digest = d
      /\ NoRow.state = "none"
  BY DEF Reserved, NoRow
<1>10. effect[k].times = 0
  BY <1>4, <1>9 DEF Inv, EffectsTruthful, Truthful
<1>11. NoRowsBlank'
  BY <1>3, <1>5, <1>9 DEF Inv, NoRowsBlank
<1>12. ASSUME NEW j \in Keys PROVE Truthful(j)'
  <2>1. Truthful(j)
    BY DEF Inv, EffectsTruthful
  <2>2. CASE j = k
    BY <1>4, <1>5, <1>9, <1>10, <2>1, <2>2 DEF Truthful, Done, Settled
  <2>3. CASE j # k /\ j \in gone
    BY <1>2, <1>4, <1>5, <1>9, <2>1, <2>3 DEF Truthful, Done, Settled
  <2>4. CASE j # k /\ j \notin gone
    BY <1>3, <1>4, <1>5, <2>1, <2>4 DEF Truthful, Done
  <2>5. QED BY <2>2, <2>3, <2>4
<1>13. ASSUME NEW e \in Callers, pc[e] # "idle"
       PROVE  /\ Key(e) \in Keys /\ Key(e) # k /\ Key(e) \notin gone /\ e # c
              /\ pc'[e] = pc[e] /\ call'[e] = call[e]
  BY <1>2, <1>4, <1>9, <1>13 DEF Inv, CallsRecorded, Key, TypeOK
<1>14. /\ pc'[c] = "reserved" /\ call'[c] = [key |-> k, digest |-> d]
       /\ \A e \in Callers : e # c => pc'[e] = pc[e] /\ call'[e] = call[e]
  BY <1>4 DEF Inv, TypeOK
<1>15. CallsRecorded'
  BY <1>3, <1>4, <1>5, <1>9, <1>13, <1>14 DEF Inv, CallsRecorded, Key
<1>16. CallersApart'
  BY <1>13, <1>14 DEF Inv, CallersApart, Key
<1>17. SectionsAware'
  BY <1>4, <1>10, <1>13, <1>14 DEF Inv, SectionsAware, Aware, Key
<1>18. AnswersTrue' /\ NotifiedDone'
  BY <1>4 DEF Inv, AnswersTrue, NotifiedDone, Done
<1>19. QED BY <1>8, <1>11, <1>12, <1>15, <1>16, <1>17, <1>18 DEF Inv, EffectsTruthful

\* The one execution starts, in the caller or as a Future.
LEMMA StartStep ==
    ASSUME Inv, NEW c \in Callers, Execute(c) \/ Submit(c)
    PROVE  Inv'
<1> DEFINE k == Key(c)
<1>1. /\ pc[c] = "reserved" /\ k \in Keys /\ call[c].digest \in Digests
      /\ rows[k].digest = call[c].digest /\ rows[k].state # "none"
      /\ effect[k].times = 0 /\ future[k] = "none" /\ rows[k].state \notin Settled
  <2>1. pc[c] = "reserved"
    BY DEF Execute, Submit
  <2>2. call[c] \in [key : Keys, digest : Digests]
    BY <2>1 DEF Inv, CallsRecorded
  <2>3. QED
    BY <2>1, <2>2
    DEF Inv, CallsRecorded, SectionsAware, Aware, EffectsTruthful, Truthful, Key
<1>2. /\ effect' = [effect EXCEPT ![k] =
                       [times |-> @.times + 1, digest |-> call[c].digest, outcome |-> "none"]]
      /\ UNCHANGED <<rows, call, outcome, notify, closed, answers>>
  BY DEF Execute, Submit, Starts
<1>3. \/ pc' = [pc EXCEPT ![c] = "running"] /\ UNCHANGED future
      \/ pc' = [pc EXCEPT ![c] = "waiting"] /\ future' = [future EXCEPT ![k] = "pending"]
  BY DEF Execute, Submit
<1>4. /\ effect'[k] = [times |-> 1, digest |-> call[c].digest, outcome |-> "none"]
      /\ \A j \in Keys : j # k => effect'[j] = effect[j] /\ future'[j] = future[j]
      /\ \/ pc'[c] = "running" /\ future'[k] = "none"
         \/ pc'[c] = "waiting" /\ future'[k] = "pending"
      /\ \A e \in Callers : e # c => pc'[e] = pc[e]
  BY <1>1, <1>2, <1>3 DEF Inv, TypeOK
<1> HIDE DEF k
<1>5. TypeOK'
  BY <1>1, <1>2, <1>3, <1>4 DEF Inv, TypeOK
<1>6. CallsRecorded' /\ CallersApart' /\ NoRowsBlank'
  BY <1>1, <1>2, <1>4 DEF Inv, CallsRecorded, CallersApart, NoRowsBlank, Key
<1>7. ASSUME NEW j \in Keys PROVE Truthful(j)'
  <2>1. Truthful(j)
    BY DEF Inv, EffectsTruthful
  <2>2. CASE j = k
    BY <1>1, <1>2, <1>4, <2>2 DEF Truthful, Done
  <2>3. CASE j # k
    BY <1>2, <1>4, <2>1, <2>3 DEF Truthful, Done
  <2>4. QED BY <2>2, <2>3
<1>8. ASSUME NEW e \in Callers PROVE Aware(e)'
  <2>1. CASE e = c
    BY <1>2, <1>4, <2>1 DEF Aware, Key, k
  <2>2. CASE e # c /\ pc[e] # "idle"
    <3>1. Key(e) \in Keys /\ Key(e) # k
      BY <1>1, <2>2 DEF Inv, CallsRecorded, CallersApart, Key, k
    <3>2. QED BY <1>2, <1>4, <2>2, <3>1 DEF Inv, SectionsAware, Aware, Key
  <2>3. CASE e # c /\ pc[e] = "idle"
    BY <1>4, <2>3 DEF Aware
  <2>4. QED BY <2>1, <2>2, <2>3
<1>9. AnswersTrue'
  <2>1. ASSUME NEW a \in answers PROVE a[1] \in Keys /\ a[1] # k
    <3>1. a \in Keys \X Digests \X Definite
      BY DEF Inv, TypeOK
    <3>2. effect[a[1]] = [times |-> 1, digest |-> a[2], outcome |-> a[3]]
      BY DEF Inv, AnswersTrue
    <3>3. effect[a[1]].times = 1
      BY <3>2
    <3>4. QED BY <1>1, <3>1, <3>3
  <2>2. QED BY <1>2, <1>4, <2>1 DEF Inv, AnswersTrue
<1>10. NotifiedDone'
  BY <1>1, <1>2, <1>4 DEF Inv, NotifiedDone, Done, TypeOK
<1>11. QED
  BY <1>5, <1>6, <1>7, <1>8, <1>9, <1>10 DEF Inv, EffectsTruthful, SectionsAware

\* The tool is not reached: the caller has only the exception to record.
LEMMA SubmitFailsStep ==
    ASSUME Inv, NEW c \in Callers, SubmitFails(c)
    PROVE  Inv'
<1>1. /\ pc[c] = "reserved" /\ pc' = [pc EXCEPT ![c] = "unknown"]
      /\ UNCHANGED <<rows, call, outcome, future, notify, closed, effect, answers>>
  BY DEF SubmitFails
<1>2. /\ pc'[c] = "unknown" /\ \A e \in Callers : e # c => pc'[e] = pc[e]
      /\ pc' \in [Callers -> States]
  BY <1>1 DEF Inv, TypeOK, States
<1>3. TypeOK'
  BY <1>1, <1>2 DEF Inv, TypeOK, States
<1>4. CallsRecorded' /\ CallersApart' /\ SectionsAware'
  BY <1>1, <1>2 DEF Inv, CallsRecorded, CallersApart, SectionsAware, Aware, Key
<1>5. NoRowsBlank' /\ EffectsTruthful' /\ NotifiedDone' /\ AnswersTrue'
  BY <1>1 DEF Inv, NoRowsBlank, EffectsTruthful, Truthful, NotifiedDone, Done, AnswersTrue
<1>6. QED BY <1>3, <1>4, <1>5 DEF Inv

\* An answer says that its request was executed.
LEMMA AnswersExecuted ==
    ASSUME Inv, NEW a \in answers
    PROVE  a[1] \in Keys /\ effect[a[1]].times = 1 /\ effect[a[1]].outcome \in Definite
<1>1. a \in Keys \X Digests \X Definite
  BY DEF Inv, TypeOK
<1>2. effect[a[1]] = [times |-> 1, digest |-> a[2], outcome |-> a[3]]
  BY DEF Inv, AnswersTrue
<1>3. effect[a[1]].times = 1 /\ effect[a[1]].outcome = a[3]
  BY <1>2
<1>4. QED BY <1>1, <1>3

\* The outcome of an execution under way disturbs no receipt and no answer.
LEMMA EffectStep ==
    ASSUME Inv, NEW k \in Keys, NEW o \in Outcomes,
           effect[k].outcome = "none",
           effect' = [effect EXCEPT ![k].outcome = o],
           future'[k] \in {"none", o}, \A j \in Keys : j # k => future'[j] = future[j],
           effect[k].times = 1, UNCHANGED <<rows, closed, answers>>
    PROVE  /\ \A j \in Keys : j # k => effect'[j] = effect[j]
           /\ effect'[k].times = 1 /\ effect'[k].outcome = o
           /\ effect' \in [Keys -> [times : Nat, digest : Digests \cup {"none"},
                                    outcome : Outcomes \cup {"none"}]]
           /\ EffectsTruthful' /\ AnswersTrue' /\ NoRowsBlank'
<1>1. /\ \A j \in Keys : j # k => effect'[j] = effect[j]
      /\ effect'[k].times = 1 /\ effect'[k].outcome = o
      /\ effect'[k].digest = effect[k].digest
  BY DEF Inv, TypeOK
<1>2. effect' \in [Keys -> [times : Nat, digest : Digests \cup {"none"},
                            outcome : Outcomes \cup {"none"}]]
  BY DEF Inv, TypeOK
<1>3. ASSUME NEW j \in Keys PROVE Truthful(j)'
  <2>1. Truthful(j)
    BY DEF Inv, EffectsTruthful
  <2>2. CASE j = k
    <3>1. rows[k].state \notin Settled
      BY <2>1, <2>2 DEF Truthful, Definite
    <3>2. QED BY <1>1, <2>1, <2>2, <3>1 DEF Truthful, Done, Outcomes
  <2>3. CASE j # k
    BY <1>1, <2>1, <2>3 DEF Truthful, Done
  <2>4. QED BY <2>2, <2>3
<1>4. ASSUME NEW a \in answers'
      PROVE  effect'[a[1]] = [times |-> 1, digest |-> a[2], outcome |-> a[3]]
  <2>1. a[1] \in Keys /\ a[1] # k
    BY AnswersExecuted DEF Definite
  <2>2. QED BY <1>1, <2>1 DEF Inv, AnswersTrue
<1>5. NoRowsBlank'
  BY DEF Inv, NoRowsBlank
<1>6. QED BY <1>1, <1>2, <1>3, <1>4, <1>5 DEF EffectsTruthful, AnswersTrue

\* The tool ends in the caller's thread.
LEMMA ToolEndsStep ==
    ASSUME Inv, NEW c \in Callers, NEW o \in Outcomes, ToolEnds(c, o)
    PROVE  Inv'
<1> DEFINE k == Key(c)
<1>1. /\ pc[c] = "running" /\ effect' = [effect EXCEPT ![k].outcome = o]
      /\ UNCHANGED <<rows, call, future, notify, closed, answers>>
      /\ pc' = [pc EXCEPT ![c] = IF o = "raised" THEN "unknown" ELSE "complete"]
      /\ outcome' = [outcome EXCEPT ![c] = o]
  BY DEF ToolEnds, Take
<1>2. /\ k \in Keys /\ effect[k].times = 1 /\ effect[k].outcome = "none"
      /\ future[k] = "none"
  BY <1>1 DEF Inv, CallsRecorded, SectionsAware, Aware, Key
<1>3. /\ pc'[c] \in {"unknown", "complete"} /\ outcome'[c] = o
      /\ \A e \in Callers : e # c => pc'[e] = pc[e] /\ outcome'[e] = outcome[e]
      /\ pc' \in [Callers -> States] /\ outcome' \in [Callers -> Outcomes \cup {"none"}]
  BY <1>1 DEF Inv, TypeOK, States
<1>4. /\ \A j \in Keys : j # k => effect'[j] = effect[j]
      /\ effect'[k].times = 1 /\ effect'[k].outcome = o
      /\ effect' \in [Keys -> [times : Nat, digest : Digests \cup {"none"},
                               outcome : Outcomes \cup {"none"}]]
      /\ EffectsTruthful' /\ AnswersTrue' /\ NoRowsBlank'
  BY <1>1, <1>2, EffectStep
<1> HIDE DEF k
<1>5. TypeOK'
  BY <1>1, <1>3, <1>4 DEF Inv, TypeOK, States
<1>6. CallsRecorded' /\ CallersApart'
  BY <1>1, <1>3 DEF Inv, CallsRecorded, CallersApart, Key
<1>7. ASSUME NEW e \in Callers PROVE Aware(e)'
  <2>1. CASE e = c
    BY <1>1, <1>3, <1>4, <2>1 DEF Aware, Key, k, Outcomes
  <2>2. CASE e # c /\ pc[e] # "idle"
    <3>1. Key(e) \in Keys /\ Key(e) # k
      BY <1>1, <2>2 DEF Inv, CallsRecorded, CallersApart, Key, k
    <3>2. QED BY <1>1, <1>3, <1>4, <2>2, <3>1 DEF Inv, SectionsAware, Aware, Key
  <2>3. CASE e # c /\ pc[e] = "idle"
    BY <1>3, <2>3 DEF Aware
  <2>4. QED BY <2>1, <2>2, <2>3
<1>8. NotifiedDone'
  BY <1>1 DEF Inv, NotifiedDone, Done
<1>9. QED BY <1>4, <1>5, <1>6, <1>7, <1>8 DEF Inv, SectionsAware

\* The Future is resolved in the executor's thread, whoever waits.
LEMMA FutureEndsStep ==
    ASSUME Inv, NEW k \in Keys, NEW o \in Outcomes, FutureEnds(k, o)
    PROVE  Inv'
<1>1. /\ future[k] = "pending" /\ future' = [future EXCEPT ![k] = o]
      /\ notify' = notify \cup {k} /\ effect' = [effect EXCEPT ![k].outcome = o]
      /\ UNCHANGED <<rows, pc, call, outcome, closed, answers>>
  BY DEF FutureEnds, callers
<1>2. effect[k].outcome = "none" /\ effect[k].times = 1
  <2>1. Truthful(k) /\ effect[k].times \in Nat
    BY DEF Inv, EffectsTruthful, TypeOK
  <2>2. QED BY <1>1, <2>1 DEF Truthful
<1>3. /\ future'[k] = o /\ \A j \in Keys : j # k => future'[j] = future[j]
      /\ future' \in [Keys -> Outcomes \cup {"none", "pending"}]
  BY <1>1 DEF Inv, TypeOK
<1>4. /\ \A j \in Keys : j # k => effect'[j] = effect[j]
      /\ effect'[k].times = 1 /\ effect'[k].outcome = o
      /\ effect' \in [Keys -> [times : Nat, digest : Digests \cup {"none"},
                               outcome : Outcomes \cup {"none"}]]
      /\ EffectsTruthful' /\ AnswersTrue' /\ NoRowsBlank'
  BY <1>1, <1>2, <1>3, EffectStep
<1>5. TypeOK'
  BY <1>1, <1>3, <1>4 DEF Inv, TypeOK
<1>6. CallsRecorded' /\ CallersApart'
  BY <1>1 DEF Inv, CallsRecorded, CallersApart, Key
<1>7. ASSUME NEW e \in Callers PROVE Aware(e)'
  <2>1. Aware(e)
    BY DEF Inv, SectionsAware
  <2>2. CASE pc[e] = "idle"
    BY <1>1, <2>2 DEF Aware
  <2>3. CASE pc[e] # "idle" /\ Key(e) = k
    BY <1>1, <1>2, <1>3, <2>1, <2>3 DEF Aware, Key, Outcomes
  <2>4. CASE pc[e] # "idle" /\ Key(e) # k
    <3>1. Key(e) \in Keys
      BY <2>4 DEF Inv, CallsRecorded, Key
    <3>2. QED BY <1>1, <1>3, <1>4, <2>1, <2>4, <3>1 DEF Aware, Key
  <2>5. QED BY <2>2, <2>3, <2>4
<1>8. NotifiedDone'
  BY <1>1, <1>3 DEF Inv, NotifiedDone, Done, Outcomes, TypeOK
<1>9. QED BY <1>4, <1>5, <1>6, <1>7, <1>8 DEF Inv, SectionsAware

\* The wait ends with the outcome of the Future.
LEMMA WaitEndsStep ==
    ASSUME Inv, NEW c \in Callers, WaitEnds(c)
    PROVE  Inv'
<1> DEFINE o == future[Key(c)]
<1>1. /\ pc[c] = "waiting" /\ Done(Key(c))
      /\ pc' = [pc EXCEPT ![c] = IF o = "raised" THEN "unknown" ELSE "complete"]
      /\ outcome' = [outcome EXCEPT ![c] = o]
      /\ UNCHANGED <<rows, call, future, notify, closed, effect, answers>>
  BY DEF WaitEnds, Take
<1>2. Key(c) \in Keys
  BY <1>1 DEF Inv, CallsRecorded, Key
<1>3. /\ o \in Outcomes /\ o = effect[Key(c)].outcome /\ o # "none"
      /\ effect[Key(c)].times = 1
  <2>1. Truthful(Key(c)) /\ effect[Key(c)].times \in Nat
    BY <1>2 DEF Inv, EffectsTruthful, TypeOK
  <2>2. future[Key(c)] \in Outcomes \cup {"none", "pending"}
    BY <1>2 DEF Inv, TypeOK
  <2>3. QED BY <1>1, <2>1, <2>2 DEF Truthful, Done
<1> HIDE DEF o
<1>4. /\ pc'[c] \in {"unknown", "complete"} /\ outcome'[c] = o
      /\ \A e \in Callers : e # c => pc'[e] = pc[e] /\ outcome'[e] = outcome[e]
      /\ pc' \in [Callers -> States] /\ outcome' \in [Callers -> Outcomes \cup {"none"}]
  BY <1>1, <1>3 DEF Inv, TypeOK, States
<1>5. TypeOK'
  BY <1>1, <1>4 DEF Inv, TypeOK, States
<1>6. CallsRecorded' /\ CallersApart'
  BY <1>1, <1>4 DEF Inv, CallsRecorded, CallersApart, Key
<1>7. SectionsAware'
  BY <1>1, <1>3, <1>4 DEF Inv, SectionsAware, Aware, Key
<1>8. NoRowsBlank' /\ EffectsTruthful' /\ NotifiedDone' /\ AnswersTrue'
  BY <1>1 DEF Inv, NoRowsBlank, EffectsTruthful, Truthful, NotifiedDone, Done, AnswersTrue
<1>9. QED BY <1>5, <1>6, <1>7, <1>8 DEF Inv

\* A caller that returns is idle and has the types of a fresh one.
LEMMA ReturnStep ==
    ASSUME TypeOK, NEW c \in Callers, Return(c)
    PROVE  /\ pc'[c] = "idle"
           /\ \A e \in Callers : e # c => /\ pc'[e] = pc[e] /\ call'[e] = call[e]
                                         /\ outcome'[e] = outcome[e]
           /\ pc' \in [Callers -> States]
           /\ call' \in [Callers -> [key : Keys, digest : Digests] \cup {NoCall}]
           /\ outcome' \in [Callers -> Outcomes \cup {"none"}]
<1>1. NoCall \in [key : Keys, digest : Digests] \cup {NoCall}
  OBVIOUS
<1>2. call' = [call EXCEPT ![c] = NoCall]
  BY DEF Return
<1>3. call' \in [Callers -> [key : Keys, digest : Digests] \cup {NoCall}]
  BY <1>1, <1>2 DEF TypeOK
<1>4. QED BY <1>3 DEF TypeOK, Return, States

\* The wait times out; the receipt and the Future are left as they are.
LEMMA WaitTimesOutStep ==
    ASSUME Inv, NEW c \in Callers, WaitTimesOut(c)
    PROVE  Inv'
<1>1. pc[c] = "waiting" /\ UNCHANGED <<rows, future, notify, closed, effect, answers>>
  BY DEF WaitTimesOut
<1>2. NoRowsBlank' /\ EffectsTruthful' /\ NotifiedDone' /\ AnswersTrue'
  BY <1>1 DEF Inv, NoRowsBlank, EffectsTruthful, Truthful, NotifiedDone, Done, AnswersTrue
<1>3. CASE Done(Key(c))
  <2>1. pc' = [pc EXCEPT ![c] = "unknown"] /\ UNCHANGED <<call, outcome>>
    BY <1>3 DEF WaitTimesOut
  <2>2. /\ pc'[c] = "unknown" /\ \A e \in Callers : e # c => pc'[e] = pc[e]
        /\ pc' \in [Callers -> States]
    BY <2>1 DEF Inv, TypeOK, States
  <2>3. TypeOK'
    BY <1>1, <2>1, <2>2 DEF Inv, TypeOK, States
  <2>4. CallsRecorded' /\ CallersApart' /\ SectionsAware'
    BY <1>1, <2>1, <2>2 DEF Inv, CallsRecorded, CallersApart, SectionsAware, Aware, Key
  <2>5. QED BY <1>2, <2>3, <2>4 DEF Inv
<1>4. CASE ~Done(Key(c))
  <2>1. Return(c)
    BY <1>4 DEF WaitTimesOut
  <2>2. /\ pc'[c] = "idle"
        /\ \A e \in Callers : e # c => /\ pc'[e] = pc[e] /\ call'[e] = call[e]
                                      /\ outcome'[e] = outcome[e]
        /\ pc' \in [Callers -> States]
        /\ call' \in [Callers -> [key : Keys, digest : Digests] \cup {NoCall}]
        /\ outcome' \in [Callers -> Outcomes \cup {"none"}]
    BY <2>1, ReturnStep DEF Inv
  <2>3. TypeOK'
    BY <1>1, <2>2 DEF Inv, TypeOK, States
  <2>4. \A k \in Keys : Kept(k)
    BY <1>1 DEF Kept
  <2>5. CallsRecorded' /\ CallersApart' /\ SectionsAware'
    BY <1>1, <2>2, <2>4, CallersStep
  <2>6. QED BY <1>2, <2>3, <2>5 DEF Inv
<1>5. QED BY <1>3, <1>4

-----------------------------------------------------------------------------
(* Recording outcomes, and the world around                                *)

\* The types, after a step that changes rows in the ways above.
LEMMA RowsTyped ==
    ASSUME Inv, RowsOK', UNCHANGED <<future, notify, closed, effect, answers>>,
           pc' \in [Callers -> States],
           call' \in [Callers -> [key : Keys, digest : Digests] \cup {NoCall}],
           outcome' \in [Callers -> Outcomes \cup {"none"}]
    PROVE  TypeOK'
  BY DEF Inv, TypeOK, RowsOK, States

\* The caller records its outcome and answers its client with it.
LEMMA CallerCompletesStep ==
    ASSUME Inv, NEW c \in Callers, CallerCompletes(c)
    PROVE  Inv'
<1> DEFINE k == Key(c)
<1> DEFINE o == outcome[c]
<1>1. /\ pc[c] = "complete" /\ SetComplete(k, o) /\ Return(c)
      /\ answers' = IF o \in Definite THEN answers \cup {<<k, call[c].digest, o>>} ELSE answers
      /\ UNCHANGED <<future, notify, closed, effect>>
  BY DEF CallerCompletes
<1>2. /\ k \in Keys /\ call[c].digest \in Digests /\ o \in Outcomes
      /\ effect[k].times = 1 /\ effect[k].outcome = o /\ effect[k].digest = call[c].digest
  <2>1. /\ k \in Keys /\ call[c].digest \in Digests
        /\ rows[k].state # "none" /\ rows[k].digest = call[c].digest
    BY <1>1 DEF Inv, CallsRecorded, Key
  <2>2. effect[k].times = 1 /\ effect[k].outcome = o /\ o # "none"
    BY <1>1 DEF Inv, SectionsAware, Aware
  <2>3. Truthful(k)
    BY <2>1 DEF Inv, EffectsTruthful
  <2>4. o \in Outcomes
    BY <2>2 DEF Inv, TypeOK
  <2>5. QED BY <2>1, <2>2, <2>3, <2>4 DEF Truthful
<1> HIDE DEF k, o
<1>3. /\ RowsOK'
      /\ \A j \in Keys : Kept(j)
      /\ \A j \in Keys : rows'[j].state \in Settled =>
             \/ rows[j].state \in Settled
             \/ j = k /\ rows'[j].outcome = o /\ o \in Definite
  BY <1>1, <1>2, CompleteKeeps DEF Inv, TypeOK, RowsOK
<1>4. EffectsTruthful' /\ NoRowsBlank'
  BY <1>1, <1>2, <1>3, RecordStep
<1>5. /\ pc'[c] = "idle"
      /\ \A e \in Callers : e # c => /\ pc'[e] = pc[e] /\ call'[e] = call[e]
                                    /\ outcome'[e] = outcome[e]
      /\ pc' \in [Callers -> States]
      /\ call' \in [Callers -> [key : Keys, digest : Digests] \cup {NoCall}]
      /\ outcome' \in [Callers -> Outcomes \cup {"none"}]
  BY <1>1, ReturnStep DEF Inv
<1>6. CallsRecorded' /\ CallersApart' /\ SectionsAware'
  BY <1>1, <1>3, <1>5, CallersStep
<1>7. effect[k] = [times |-> 1, digest |-> call[c].digest, outcome |-> o]
  BY <1>2 DEF Inv, TypeOK
<1>8. AnswersTrue' /\ answers' \in SUBSET (Keys \X Digests \X Definite)
  BY <1>1, <1>2, <1>7 DEF Inv, AnswersTrue, TypeOK
<1>9. TypeOK'
  BY <1>1, <1>3, <1>5, <1>8 DEF Inv, TypeOK, RowsOK, States
<1>10. NotifiedDone'
  BY <1>1 DEF Inv, NotifiedDone, Done
<1>11. QED BY <1>4, <1>6, <1>8, <1>9, <1>10 DEF Inv

\* The caller records that the outcome is not known.
LEMMA CallerMarksStep ==
    ASSUME Inv, NEW c \in Callers, CallerMarks(c)
    PROVE  Inv'
<1>1. /\ pc[c] # "idle" /\ SetUnknown(Key(c)) /\ Return(c)
      /\ UNCHANGED <<future, notify, closed, effect, answers>>
  BY DEF CallerMarks
<1>2. Key(c) \in Keys
  BY <1>1 DEF Inv, CallsRecorded, Key
<1>3. /\ RowsOK'
      /\ \A j \in Keys : Kept(j) /\ (rows'[j].state \in Settled => rows[j].state \in Settled)
  BY <1>1, <1>2, UnknownKeeps DEF Inv, TypeOK, RowsOK
<1>4. EffectsTruthful' /\ NoRowsBlank'
  BY <1>1, <1>3, RecordStep
<1>5. /\ pc'[c] = "idle"
      /\ \A e \in Callers : e # c => /\ pc'[e] = pc[e] /\ call'[e] = call[e]
                                    /\ outcome'[e] = outcome[e]
      /\ pc' \in [Callers -> States]
      /\ call' \in [Callers -> [key : Keys, digest : Digests] \cup {NoCall}]
      /\ outcome' \in [Callers -> Outcomes \cup {"none"}]
  BY <1>1, ReturnStep DEF Inv
<1>6. CallsRecorded' /\ CallersApart' /\ SectionsAware'
  BY <1>1, <1>3, <1>5, CallersStep
<1>7. TypeOK'
  BY <1>1, <1>3, <1>5, RowsTyped
<1>8. AnswersTrue' /\ NotifiedDone'
  BY <1>1 DEF Inv, AnswersTrue, NotifiedDone, Done
<1>9. QED BY <1>4, <1>6, <1>7, <1>8 DEF Inv

\* A done callback records what the Future holds, before or after its caller.
LEMMA CallbackStep ==
    ASSUME Inv, NEW k \in Keys, Callback(k)
    PROVE  Inv'
<1> DEFINE o == future[k]
<1>1. /\ k \in notify /\ notify' = notify \ {k}
      /\ IF o \in {"raised", "garbled"} THEN SetUnknown(k) ELSE SetComplete(k, o)
      /\ UNCHANGED <<pc, call, outcome, future, closed, effect, answers>>
  BY DEF Callback, callers
<1>2. o \in Outcomes /\ effect[k].times = 1 /\ effect[k].outcome = o
  <2>1. Done(k) /\ Truthful(k) /\ effect[k].times \in Nat
    BY <1>1 DEF Inv, NotifiedDone, EffectsTruthful, TypeOK
  <2>2. o \in Outcomes \cup {"none", "pending"}
    BY DEF Inv, TypeOK
  <2>3. QED BY <2>1, <2>2 DEF Done, Truthful
<1> HIDE DEF o
<1>3. /\ RowsOK'
      /\ \A j \in Keys : Kept(j)
      /\ \A j \in Keys : rows'[j].state \in Settled =>
             \/ rows[j].state \in Settled
             \/ j = k /\ rows'[j].outcome = o /\ o \in Definite
  <2>1. RowsOK
    BY DEF Inv, TypeOK, RowsOK
  <2>2. CASE o \in {"raised", "garbled"}
    BY <1>1, <2>1, <2>2, UnknownKeeps
  <2>3. CASE o \notin {"raised", "garbled"}
    BY <1>1, <1>2, <2>1, <2>3, CompleteKeeps
  <2>4. QED BY <2>2, <2>3
<1>4. EffectsTruthful' /\ NoRowsBlank'
  BY <1>1, <1>2, <1>3, RecordStep
<1>5. CallsRecorded' /\ CallersApart' /\ SectionsAware'
  BY <1>1, <1>3, CallersStep
<1>6. TypeOK'
  BY <1>1, <1>3 DEF Inv, TypeOK, RowsOK
<1>7. AnswersTrue' /\ NotifiedDone'
  BY <1>1 DEF Inv, AnswersTrue, NotifiedDone, Done
<1>8. QED BY <1>4, <1>5, <1>6, <1>7 DEF Inv

\* Asking for a status may prune results.
LEMMA StatusStep ==
    ASSUME Inv, Status
    PROVE  Inv'
<1>1. /\ rows' \in Prunes(rows)
      /\ UNCHANGED <<pc, call, outcome, future, notify, closed, effect, answers>>
  BY DEF Status, callers
<1>2. /\ RowsOK'
      /\ \A j \in Keys : Kept(j) /\ (rows'[j].state \in Settled => rows[j].state \in Settled)
  BY <1>1, PruneKeeps DEF Inv, TypeOK, RowsOK, Kept
<1>3. EffectsTruthful' /\ NoRowsBlank'
  BY <1>1, <1>2, RecordStep
<1>4. CallsRecorded' /\ CallersApart' /\ SectionsAware'
  BY <1>1, <1>2, CallersStep
<1>5. TypeOK' /\ AnswersTrue' /\ NotifiedDone'
  BY <1>1, <1>2 DEF Inv, TypeOK, RowsOK, AnswersTrue, NotifiedDone, Done
<1>6. QED BY <1>3, <1>4, <1>5 DEF Inv

\* An owner is closed when it has no call; its receipts may go from now on.
LEMMA CloseOwnerStep ==
    ASSUME Inv, NEW o \in Owners, CloseOwner(o)
    PROVE  Inv'
<1>1. /\ \A c \in Callers : pc[c] # "idle" => Key(c)[1] # o
      /\ closed' = closed \cup {o}
      /\ UNCHANGED <<rows, pc, call, outcome, future, notify, effect, answers>>
  BY DEF CloseOwner, callers
<1>2. TypeOK'
  BY <1>1 DEF Inv, TypeOK
<1>3. CallsRecorded' /\ CallersApart' /\ SectionsAware'
  BY <1>1 DEF Inv, CallsRecorded, CallersApart, SectionsAware, Aware, Key
<1>4. NoRowsBlank' /\ NotifiedDone' /\ AnswersTrue'
  BY <1>1 DEF Inv, NoRowsBlank, NotifiedDone, Done, AnswersTrue
<1>5. EffectsTruthful'
  BY <1>1 DEF Inv, EffectsTruthful, Truthful, Done
<1>6. QED BY <1>2, <1>3, <1>4, <1>5 DEF Inv

\* A restart forgets every caller and Future, and leaves the receipts.
LEMMA RestartStep ==
    ASSUME Inv, Restart
    PROVE  Inv' /\ \A k \in Keys : Kept(k)
<1>1. UNCHANGED <<closed, effect, answers>> /\ notify' = {}
  BY DEF Restart
<1>2. /\ rows' = [k \in Keys |-> Interrupted(rows[k])]
      /\ pc' = [c \in Callers |-> "idle"] /\ call' = [c \in Callers |-> NoCall]
      /\ outcome' = [c \in Callers |-> "none"] /\ future' = [k \in Keys |-> "none"]
  BY DEF Restart
<1>3. ASSUME NEW k \in Keys
      PROVE  /\ rows'[k] \in Row /\ Kept(k) /\ rows'[k].outcome = rows[k].outcome
             /\ rows'[k].state \in Settled => rows[k].state \in Settled
  <2>1. rows'[k] = Interrupted(rows[k]) /\ rows[k] \in Row
    BY <1>2 DEF Inv, TypeOK
  <2>2. QED BY <2>1 DEF Interrupted, Row, Kept, Settled, NoRow
<1>4. /\ rows' \in [Keys -> Row] /\ \A k \in Keys : future'[k] = "none"
      /\ \A c \in Callers : pc'[c] = "idle"
  BY <1>2, <1>3
<1>5. call' \in [Callers -> [key : Keys, digest : Digests] \cup {NoCall}]
  BY <1>2
<1>6. TypeOK'
  BY <1>1, <1>2, <1>4, <1>5 DEF Inv, TypeOK
<1>7. CallsRecorded' /\ CallersApart' /\ SectionsAware'
  BY <1>4 DEF CallsRecorded, CallersApart, SectionsAware, Aware
<1>8. NoRowsBlank' /\ NotifiedDone' /\ AnswersTrue'
  BY <1>1, <1>3 DEF Inv, NoRowsBlank, Kept, NotifiedDone, AnswersTrue
<1>9. ASSUME NEW k \in Keys PROVE Truthful(k)'
  <2>1. Truthful(k)
    BY DEF Inv, EffectsTruthful
  <2>2. QED BY <1>1, <1>3, <1>4, <2>1 DEF Truthful, Done, Kept
<1>10. QED BY <1>3, <1>6, <1>7, <1>8, <1>9 DEF Inv, EffectsTruthful

-----------------------------------------------------------------------------
(* The theorems                                                            *)

\* The empty journal.
LEMMA Initially == Init => Inv
<1> SUFFICES ASSUME Init PROVE Inv
  OBVIOUS
<1>1. NoRow \in Row /\ NoRow.state = "none" /\ NoRow.state \notin Settled
  BY DEF NoRow, Row, Settled
<1>2. /\ NoEffect \in [times : Nat, digest : Digests \cup {"none"},
                       outcome : Outcomes \cup {"none"}]
      /\ NoEffect.times = 0 /\ NoEffect.outcome = "none"
  BY DEF NoEffect
<1>3. TypeOK
  BY <1>1, <1>2 DEF Init, TypeOK
<1>4. CallsRecorded /\ CallersApart /\ SectionsAware
  BY DEF Init, CallsRecorded, CallersApart, SectionsAware, Aware
<1>5. NoRowsBlank /\ NotifiedDone /\ AnswersTrue
  BY DEF Init, NoRowsBlank, NotifiedDone, AnswersTrue
<1>6. EffectsTruthful
  BY <1>1, <1>2 DEF Init, EffectsTruthful, Truthful, Done
<1>7. QED BY <1>3, <1>4, <1>5, <1>6 DEF Inv

\* Every step keeps the invariant.
LEMMA Preserved == Inv /\ [Next]_vars => Inv'
<1> SUFFICES ASSUME Inv, [Next]_vars PROVE Inv'
  OBVIOUS
<1>1. CASE \E c \in Callers, k \in Keys, d \in Digests : Repeat(c, k, d)
  BY <1>1, RepeatStep
<1>2. CASE \E c \in Callers, k \in Keys, d \in Digests : Reserve(c, k, d)
  BY <1>2, ReserveStep
<1>3. CASE \E c \in Callers : Execute(c) \/ Submit(c)
  BY <1>3, StartStep
<1>4. CASE \E c \in Callers : SubmitFails(c)
  BY <1>4, SubmitFailsStep
<1>5. CASE \E c \in Callers : WaitEnds(c)
  BY <1>5, WaitEndsStep
<1>6. CASE \E c \in Callers : WaitTimesOut(c)
  BY <1>6, WaitTimesOutStep
<1>7. CASE \E c \in Callers : CallerCompletes(c)
  BY <1>7, CallerCompletesStep
<1>8. CASE \E c \in Callers : CallerMarks(c)
  BY <1>8, CallerMarksStep
<1>9. CASE \E c \in Callers, o \in Outcomes : ToolEnds(c, o)
  BY <1>9, ToolEndsStep
<1>10. CASE \E k \in Keys : Callback(k)
  BY <1>10, CallbackStep
<1>11. CASE \E k \in Keys, o \in Outcomes : FutureEnds(k, o)
  BY <1>11, FutureEndsStep
<1>12. CASE Status
  BY <1>12, StatusStep
<1>13. CASE Restart
  BY <1>13, RestartStep
<1>14. CASE \E o \in Owners : CloseOwner(o)
  BY <1>14, CloseOwnerStep
<1>15. CASE UNCHANGED vars
  BY <1>15 DEF vars, Inv, TypeOK, CallsRecorded, CallersApart, NoRowsBlank, EffectsTruthful,
               Truthful, NotifiedDone, Done, SectionsAware, Aware, AnswersTrue, Key
<1>16. QED
  BY <1>1, <1>2, <1>3, <1>4, <1>5, <1>6, <1>7, <1>8, <1>9, <1>10, <1>11, <1>12, <1>13,
     <1>14, <1>15
  DEF Next, Running

\* The invariant holds throughout.
LEMMA Invariant == Spec => []Inv
  BY Initially, Preserved, PTL DEF Spec

\* TypeOK: the journal's rows, callers, Futures and answers keep their types.
THEOREM TypeCorrect == Spec => []TypeOK
<1>1. Inv => TypeOK
  BY DEF Inv
<1>2. QED BY Invariant, <1>1, PTL

\* AtMostOnce: no request is ever executed twice, whatever is repeated, times
\* out, fails, expires, is reclaimed, or is cut short by a restart.
THEOREM OnlyOnce == Spec => []AtMostOnce
<1>1. Inv => AtMostOnce
  BY DEF Inv, EffectsTruthful, Truthful, AtMostOnce
<1>2. QED BY Invariant, <1>1, PTL

\* ReceiptsAreTrue: a definite receipt, and a definite answer to a client, is
\* the outcome of the one execution of what was asked.
THEOREM TrueReceipts == Spec => []ReceiptsAreTrue
<1>1. ASSUME Inv PROVE ReceiptsAreTrue
  <2>1. ASSUME NEW k \in Keys, rows[k].state \in Settled
        PROVE  rows[k].digest = effect[k].digest /\ rows[k].outcome = effect[k].outcome
    <3>1. Truthful(k) /\ effect[k].times \in Nat
      BY <1>1 DEF Inv, EffectsTruthful, TypeOK
    <3>2. QED BY <2>1, <3>1 DEF Truthful, Settled
  <2>2. QED BY <1>1, <2>1 DEF Inv, AnswersTrue, ReceiptsAreTrue, Settled
<1>2. QED BY Invariant, <1>1, PTL

\* OutcomesAreFinal: a settled receipt is not taken back before its owner is
\* closed for good.
THEOREM FinalOutcomes == Spec => OutcomesAreFinal
<1> DEFINE Final == \A k \in Keys : rows[k].state \in {"completed", "failed"} =>
               \/ rows'[k].state = rows[k].state /\ rows'[k].outcome = rows[k].outcome
               \/ rows'[k] = NoRow /\ k[1] \in closed
<1>1. (\A k \in Keys : Kept(k)) => Final
  BY DEF Kept, Settled
<1>2. ASSUME Inv, Next PROVE Final
  <2>1. RowsOK
    BY <1>2 DEF Inv, TypeOK, RowsOK
  <2>2. CASE rows' = rows
    BY <2>2
  <2>3. CASE rows' \in Prunes(rows)
    BY <1>1, <2>1, <2>3, PruneKeeps DEF RowsOK, Kept
  <2>4. CASE \E k \in Keys : SetUnknown(k)
    BY <1>1, <2>1, <2>4, UnknownKeeps
  <2>5. CASE \E k \in Keys, o \in Outcomes : SetComplete(k, o)
    BY <1>1, <2>1, <2>5, CompleteKeeps
  <2>6. CASE Restart
    BY <1>1, <1>2, <2>6, RestartStep
  <2>7. ASSUME NEW c \in Callers, NEW k \in Keys, NEW d \in Digests, Reserve(c, k, d)
        PROVE  Final
    <3>1. PICK table \in Prunes(rows) :
              rows' = [j \in Keys |-> IF j = k THEN Reserved(d)
                                      ELSE IF j \in Reclaimed(k) THEN NoRow ELSE table[j]]
      BY <2>7 DEF Reserve
    <3>2. \A j \in Keys : table[j].state = rows[j].state /\ table[j].outcome = rows[j].outcome
      BY <2>1, <3>1, PruneKeeps DEF RowsOK
    <3>3. rows[k] = NoRow /\ NoRow.state = "none"
      BY <2>7 DEF Reserve, Known, NoRow
    <3>4. \A j \in Reclaimed(k) : j[1] \in closed
      BY DEF Reclaimed, Reclaimable
    <3>5. \A j \in Keys : j # k => rows'[j] = IF j \in Reclaimed(k) THEN NoRow ELSE table[j]
      BY <3>1
    <3>6. QED BY <3>2, <3>3, <3>4, <3>5
  <2>8. ASSUME NEW c \in Callers, CallerCompletes(c) PROVE Final
    <3>1. Key(c) \in Keys /\ outcome[c] \in Outcomes
      BY <1>2, <2>8 DEF CallerCompletes, Inv, CallsRecorded, Key, SectionsAware, Aware, TypeOK
    <3>2. QED BY <2>5, <2>8, <3>1 DEF CallerCompletes
  <2>9. ASSUME NEW c \in Callers, CallerMarks(c) PROVE Final
    <3>1. Key(c) \in Keys
      BY <1>2, <2>9 DEF CallerMarks, Inv, CallsRecorded, Key
    <3>2. QED BY <2>4, <2>9, <3>1 DEF CallerMarks
  <2>10. ASSUME NEW k \in Keys, Callback(k) PROVE Final
    <3>1. future[k] \in Outcomes
      BY <1>2, <2>10 DEF Callback, Inv, TypeOK, NotifiedDone, Done
    <3>2. QED BY <2>4, <2>5, <2>10, <3>1 DEF Callback
  <2>11. ASSUME NEW c \in Callers,
                \/ Execute(c) \/ Submit(c) \/ SubmitFails(c) \/ WaitEnds(c) \/ WaitTimesOut(c)
                \/ \E o \in Outcomes : ToolEnds(c, o)
         PROVE  Final
    BY <2>2, <2>11 DEF Execute, Submit, SubmitFails, WaitEnds, WaitTimesOut, ToolEnds
  <2>12. CASE \E k \in Keys, o \in Outcomes : FutureEnds(k, o)
    BY <2>2, <2>12 DEF FutureEnds
  <2>13. CASE \E o \in Owners : CloseOwner(o)
    BY <2>2, <2>13 DEF CloseOwner
  <2>14. CASE \E c \in Callers, k \in Keys, d \in Digests : Repeat(c, k, d)
    BY <2>3, <2>14 DEF Repeat
  <2>15. CASE Status
    BY <2>3, <2>15 DEF Status
  <2> HIDE DEF Final
  <2>16. QED
    BY <1>2, <2>6, <2>7, <2>8, <2>9, <2>10, <2>11, <2>12, <2>13, <2>14, <2>15 DEF Next, Running
<1>3. Inv /\ [Next]_vars => [Final]_vars
  BY <1>2
<1>4. QED BY Invariant, <1>3, PTL DEF Spec, OutcomesAreFinal
=============================================================================
