------------------------- MODULE SharedDesktopProofs --------------------------
(* The components of SharedUse that act on the desktop, for every value of    *)
(* the constants: browser requests, pages, desktop sessions, windows and the  *)
(* processes of the desktop client.  Each has its inductive invariant, and a  *)
(* lemma that every step of it preserves it; SharedUseProofs puts them        *)
(* together.                                                                  *)
EXTENDS SharedUse, Sequences, TLAPS, FiniteSetTheorems

\* A set with no two elements has at most one.
LEMMA AtMostOne ==
    ASSUME NEW S, \A v, w \in S : v = w
    PROVE  Cardinality(S) <= 1
<1>1. CASE S = {}
  BY <1>1, FS_EmptySet
<1>2. CASE S # {}
  <2>1. PICK v \in S : S = {v}
    BY <1>2
  <2>. QED BY <2>1, FS_Singleton
<1>. QED BY <1>1, <1>2

-----------------------------------------------------------------------------
(* Writing browser operations and their records (BrowserCalls).               *)

BrowserApart == "none" \notin BrowserRequests
BrowserBounded == {MaxSessions, MaxKills} \subseteq Nat

BrowserTyped ==
    /\ record \in [BrowserRequests -> {"none", "queued", "dispatched", "completed", "failed",
                                       "unknown"}]
    /\ answered \in [BrowserRequests -> {"none"} \cup Browser!Answers]
    /\ effects \in [BrowserRequests -> 0 .. 1]
    /\ inbox \in Seq(BrowserRequests)
    /\ replies \in Seq((BrowserRequests \X Browser!Answers) \cup {Browser!Eof})
BrowserCounted ==
    /\ Len(replies) <= 2 /\ workerClosed \in BOOLEAN
    /\ workers \in 0 .. MaxSessions /\ kills \in 0 .. MaxKills
BrowserCallings ==
    {Browser!Quiet} \cup (BrowserRequests \X {"reserved", "dispatched", "sent", "unknown"})

\* The frame of a request waits for the worker, its answer for the call.
BrowserIn(r) == \E i \in 1 .. Len(inbox) : inbox[i] = r
BrowserAnswered(r) == \E i \in 1 .. Len(replies) : replies[i][1] = r
BrowserUnsent(r) == effects[r] = 0 /\ ~BrowserIn(r) /\ ~BrowserAnswered(r)

\* The record of the request that holds the lock is as far as the call.
BrowserCalling ==
    /\ calling \in BrowserCallings
    /\ \A r \in BrowserRequests :
          /\ calling = <<r, "reserved">> => record[r] = "queued"
          /\ calling \in {<<r, "dispatched">>, <<r, "sent">>, <<r, "unknown">>} =>
                 record[r] = "dispatched"

\* What was not sent did nothing; what waits did nothing yet and may still; what
\* was settled did what its record says, or its record says which answer it was
\* that told less.
BrowserExcused(r) ==
    \/ answered[r] = "unverified" /\ r \in Uploads
    \/ answered[r] = "refused" /\ r \in Navigations
BrowserOk(r) ==
    /\ record[r] \in {"none", "queued"} => BrowserUnsent(r)
    /\ calling = <<r, "dispatched">> => BrowserUnsent(r)
    /\ BrowserIn(r) => effects[r] = 0 /\ record[r] \in {"dispatched", "unknown"}
    /\ record[r] = "completed" => effects[r] = 1
    /\ record[r] = "failed" => effects[r] = 0 \/ BrowserExcused(r)

\* A frame is there once, and not beside its answer; the answer is true.
BrowserOnce == \A i, j \in 1 .. Len(inbox) : inbox[i] = inbox[j] => i = j
BrowserTrue(reply) ==
    /\ ~BrowserIn(reply[1])
    /\ reply[2] = "ok" => effects[reply[1]] = 1
    /\ reply[2] = "refused" => effects[reply[1]] = 0 \/ reply[1] \in Navigations
    /\ reply[2] = "unverified" => reply[1] \in Uploads
BrowserFrames == BrowserOnce /\ \A i \in 1 .. Len(replies) : BrowserTrue(replies[i])

BrowserInv ==
    /\ BrowserTyped /\ BrowserCounted /\ BrowserCalling /\ BrowserFrames
    /\ \A r \in BrowserRequests : BrowserOk(r)

LEMMA BrowserInitInv ==
    ASSUME BrowserApart, BrowserBounded, Browser!Init
    PROVE  BrowserInv
BY DEF BrowserApart, BrowserBounded, Browser!Init, BrowserInv, BrowserTyped, BrowserCounted,
       BrowserCalling, BrowserCallings, BrowserFrames, BrowserOnce, BrowserTrue, BrowserOk, BrowserExcused,
       BrowserUnsent, BrowserIn, BrowserAnswered, Browser!Quiet, Browser!None

LEMMA BrowserStart ==
    ASSUME BrowserApart, BrowserBounded, BrowserInv, Browser!StartWorker
    PROVE  BrowserInv'
<1> USE DEF Browser!StartWorker, BrowserInv, Browser!Quiet, Browser!None, BrowserApart
<1>1. BrowserTyped'
  BY DEF BrowserTyped
<1>2. BrowserCounted'
  <2>1. workerClosed' \in BOOLEAN
    BY Zenon
  <2>2. Len(replies') = 0 /\ workers' \in 0 .. MaxSessions /\ kills' \in 0 .. MaxKills
    BY DEF BrowserCounted, BrowserBounded
  <2> QED BY <2>1, <2>2 DEF BrowserCounted
<1>3. BrowserCalling'
  BY DEF BrowserCalling
<1>4. BrowserFrames'
  BY DEF BrowserFrames, BrowserOnce, BrowserTrue, BrowserIn
<1>5. (\A r \in BrowserRequests : BrowserOk(r))'
  BY DEF BrowserOk, BrowserExcused, BrowserUnsent, BrowserIn, BrowserAnswered, BrowserCalling
<1> QED BY <1>1, <1>2, <1>3, <1>4, <1>5

LEMMA BrowserReserve ==
    ASSUME BrowserApart, BrowserBounded, BrowserInv, NEW r \in BrowserRequests,
           Browser!Reserve(r) \/ Browser!Dispatch(r)
    PROVE  BrowserInv'
<1> USE DEF Browser!Reserve, Browser!Dispatch, BrowserInv, Browser!Quiet, Browser!None, BrowserApart
<1>1. BrowserTyped'
  BY DEF BrowserTyped
<1>2. BrowserCounted'
  BY DEF BrowserCounted
<1>3. BrowserCalling'
  BY DEF BrowserTyped, BrowserCalling, BrowserCallings
<1>4. BrowserFrames'
  BY DEF BrowserFrames, BrowserOnce, BrowserTrue, BrowserIn
<1>5. (\A q \in BrowserRequests : BrowserOk(q))'
  BY DEF BrowserTyped, BrowserOk, BrowserExcused, BrowserUnsent, BrowserIn, BrowserAnswered, BrowserCalling
<1> QED BY <1>1, <1>2, <1>3, <1>4, <1>5

LEMMA BrowserSend ==
    ASSUME BrowserApart, BrowserBounded, BrowserInv, NEW r \in BrowserRequests, Browser!Send(r)
    PROVE  BrowserInv'
<1> USE DEF Browser!Send, BrowserInv, BrowserApart
<1>0. /\ BrowserUnsent(r) /\ record[r] = "dispatched" /\ calling = <<r, "dispatched">>
      /\ UNCHANGED <<record, answered, replies, effects, workers, kills>>
  BY DEF BrowserOk, BrowserExcused, BrowserCalling
<1>1. \/ calling' = <<r, "unknown">> /\ UNCHANGED inbox
      \/ calling' = <<r, "sent">> /\ inbox' = Append(inbox, r)
  BY Zenon
<1>2. workerClosed' \in BOOLEAN
  <2>1. workerClosed \in BOOLEAN
    BY DEF BrowserCounted
  <2> QED BY <2>1, Zenon
<1> HIDE DEF Browser!Send
<1>3. BrowserTyped'
  <2>1. inbox \in Seq(BrowserRequests) /\ Append(inbox, r) \in Seq(BrowserRequests)
    BY DEF BrowserTyped
  <2>2. inbox' \in Seq(BrowserRequests)
    BY <1>1, <2>1, Zenon
  <2> QED BY <1>0, <2>2 DEF BrowserTyped
<1>4. BrowserCounted'
  BY <1>0, <1>2 DEF BrowserCounted
<1>5. BrowserCalling'
  <2>1. calling' \in BrowserCallings
    BY <1>1 DEF BrowserCallings
  <2>2. \A q \in BrowserRequests :
           /\ calling' # <<q, "reserved">>
           /\ calling' \in {<<q, "dispatched">>, <<q, "sent">>, <<q, "unknown">>} => q = r
    BY <1>1
  <2> QED BY <1>0, <2>1, <2>2 DEF BrowserCalling
<1>6. CASE calling' = <<r, "unknown">> /\ UNCHANGED inbox
  <2>1. BrowserFrames'
    BY <1>0, <1>6 DEF BrowserFrames, BrowserOnce, BrowserTrue, BrowserIn
  <2>2. (\A q \in BrowserRequests : BrowserOk(q))'
    BY <1>0, <1>6 DEF BrowserOk, BrowserExcused, BrowserUnsent, BrowserIn, BrowserAnswered
  <2> QED BY <1>3, <1>4, <1>5, <2>1, <2>2
<1>7. CASE calling' = <<r, "sent">> /\ inbox' = Append(inbox, r)
  <2>1. /\ Len(inbox') = Len(inbox) + 1 /\ Len(inbox) \in Nat
        /\ \A i \in 1 .. Len(inbox) : inbox'[i] = inbox[i]
        /\ inbox'[Len(inbox) + 1] = r
    BY <1>7 DEF BrowserTyped
  <2>2. \A q : BrowserIn(q)' <=> BrowserIn(q) \/ q = r
    BY <2>1 DEF BrowserIn
  <2>3. BrowserOnce'
    BY <1>0, <2>1 DEF BrowserFrames, BrowserOnce, BrowserIn, BrowserUnsent
  <2>4. BrowserFrames'
    BY <1>0, <2>2, <2>3 DEF BrowserFrames, BrowserTrue, BrowserUnsent, BrowserAnswered
  <2>5. (\A q \in BrowserRequests : BrowserOk(q))'
    BY <1>0, <1>7, <2>2 DEF BrowserOk, BrowserExcused, BrowserUnsent, BrowserAnswered
  <2> QED BY <1>3, <1>4, <1>5, <2>4, <2>5
<1> QED BY <1>1, <1>6, <1>7

\* What three of the answers say.
LEMMA BrowserTruthful ==
    ASSUME NEW r, NEW answer, NEW acted, Browser!Truthful(r, answer, acted)
    PROVE  /\ answer = "ok" => acted = 1
           /\ answer = "refused" => acted = 0 \/ r \in Navigations
           /\ answer = "unverified" => r \in Uploads
BY DEF Browser!Truthful

\* The worker takes the oldest frame, and answers it if there is room.
LEMMA BrowserWork ==
    ASSUME BrowserApart, BrowserBounded, BrowserInv, Browser!Work
    PROVE  BrowserInv'
<1> USE DEF BrowserInv, BrowserApart
<1>0. PICK r : r = Head(inbox)
  OBVIOUS
<1>1. PICK answer \in Browser!Answers, acted \in {0, 1} :
         /\ answer = "ok" => acted = 1
         /\ answer = "refused" => acted = 0 \/ r \in Navigations
         /\ answer = "unverified" => r \in Uploads
         /\ effects' = [effects EXCEPT ![r] = @ + acted]
         /\ replies' = IF Len(replies) < 2 THEN Append(replies, <<r, answer>>) ELSE replies
  BY <1>0, BrowserTruthful, Zenon DEF Browser!Work
<1>2. /\ inbox # <<>> /\ inbox' = Tail(inbox)
      /\ UNCHANGED <<record, answered, calling, workerClosed, workers, kills>>
  BY DEF Browser!Work
<1>3. /\ r \in BrowserRequests /\ r = inbox[1] /\ Len(inbox) \in Nat /\ Len(inbox) > 0
      /\ Len(inbox') = Len(inbox) - 1 /\ inbox' \in Seq(BrowserRequests)
      /\ \A i \in 1 .. Len(inbox') : inbox'[i] = inbox[i + 1]
  BY <1>0, <1>2 DEF BrowserTyped
<1>4. BrowserIn(r) /\ effects[r] = 0 /\ effects'[r] = acted /\ acted \in 0 .. 1
  <2>1. BrowserIn(r)
    BY <1>3 DEF BrowserIn
  <2> QED BY <1>1, <1>3, <2>1 DEF BrowserOk, BrowserExcused, BrowserTyped
<1>5. \A q : BrowserIn(q)' <=> BrowserIn(q) /\ q # r
  <2> TAKE q
  <2>1. ASSUME BrowserIn(q)' PROVE BrowserIn(q) /\ q # r
    <3>1. PICK i \in 1 .. Len(inbox') : inbox'[i] = q
      BY <2>1 DEF BrowserIn
    <3>2. i + 1 \in 1 .. Len(inbox) /\ i + 1 # 1 /\ 1 \in 1 .. Len(inbox) /\ inbox[i + 1] = q
      BY <1>3, <3>1
    <3> QED BY <1>3, <3>2 DEF BrowserIn, BrowserFrames, BrowserOnce
  <2>2. ASSUME BrowserIn(q), q # r PROVE BrowserIn(q)'
    <3>1. PICK i \in 1 .. Len(inbox) : inbox[i] = q
      BY <2>2 DEF BrowserIn
    <3>2. i - 1 \in 1 .. Len(inbox') /\ inbox'[i - 1] = q
      BY <1>3, <2>2, <3>1
    <3> QED BY <3>2 DEF BrowserIn
  <2> QED BY <2>1, <2>2
<1>6. \A q \in BrowserRequests \ {r} : effects'[q] = effects[q]
  BY <1>1 DEF BrowserTyped
<1>7. /\ replies' \in Seq((BrowserRequests \X Browser!Answers) \cup {Browser!Eof})
      /\ Len(replies) \in Nat /\ Len(replies') \in {Len(replies), Len(replies) + 1}
      /\ Len(replies') <= 2
      /\ \A i \in 1 .. Len(replies) : replies'[i] = replies[i]
      /\ Len(replies') = Len(replies) + 1 => replies'[Len(replies')] = <<r, answer>>
  BY <1>1, <1>3 DEF BrowserTyped, BrowserCounted
<1>8. BrowserTyped'
  BY <1>1, <1>2, <1>3, <1>4, <1>7 DEF BrowserTyped
<1>9. BrowserCounted'
  BY <1>2, <1>7 DEF BrowserCounted
<1>10. BrowserCalling'
  BY <1>2 DEF BrowserCalling
<1>11. \A i \in 1 .. Len(replies) : replies[i][1] # r
  BY <1>4 DEF BrowserFrames, BrowserTrue
<1>12. \A i \in 1 .. Len(replies) : replies[i][1] \in BrowserRequests \/ replies[i] = Browser!Eof
  BY DEF BrowserTyped
<1>13. BrowserOnce'
  BY <1>3 DEF BrowserFrames, BrowserOnce
<1>14. BrowserFrames'
  <2>1. BrowserTrue(<<r, answer>>)'
    BY <1>1, <1>4, <1>5 DEF BrowserTrue
  <2>2. ASSUME NEW i \in 1 .. Len(replies) PROVE BrowserTrue(replies[i])'
    <3>1. BrowserTrue(replies[i]) /\ replies[i][1] # r
      BY <1>11 DEF BrowserFrames
    <3>2. replies'[i] = replies[i]
      BY <1>7
    <3>3. CASE replies[i] = Browser!Eof
      BY <1>5, <3>1, <3>2, <3>3 DEF Browser!Eof, BrowserTrue
    <3>4. CASE replies[i][1] \in BrowserRequests
      BY <1>5, <1>6, <3>1, <3>2, <3>4 DEF BrowserTrue
    <3> QED BY <1>12, <3>3, <3>4
  <2>3. \A i \in 1 .. Len(replies') : i \in 1 .. Len(replies) \/ replies'[i] = <<r, answer>>
    BY <1>7
  <2> QED BY <1>13, <2>1, <2>2, <2>3 DEF BrowserFrames
<1>15. (\A q \in BrowserRequests : BrowserOk(q))'
  <2> SUFFICES ASSUME NEW q \in BrowserRequests PROVE BrowserOk(q)'
    OBVIOUS
  <2>1. CASE q = r
    BY <1>2, <1>4, <1>5, <2>1 DEF BrowserOk, BrowserExcused, BrowserCalling, BrowserUnsent
  <2>2. CASE q # r
    <3>1. BrowserAnswered(q)' => BrowserAnswered(q)
      BY <1>7, <2>2 DEF BrowserAnswered
    <3> QED BY <1>2, <1>5, <1>6, <2>2, <3>1 DEF BrowserOk, BrowserExcused, BrowserUnsent
  <2> QED BY <2>1, <2>2
<1> QED BY <1>8, <1>9, <1>10, <1>14, <1>15

\* The pipe ends, or the worker is closed: frames are lost, an end is answered.
LEMMA BrowserDies ==
    ASSUME BrowserApart, BrowserBounded, BrowserInv, Browser!WorkerDies \/ Browser!EndTask
    PROVE  BrowserInv'
<1> USE DEF BrowserInv, BrowserApart
<1>1. /\ inbox' = <<>> /\ workerClosed' \in BOOLEAN
      /\ replies' = IF Len(replies) < 2 THEN Append(replies, Browser!Eof) ELSE replies
      /\ UNCHANGED <<record, answered, calling, effects, workers, kills>>
  <2>1. workerClosed \in BOOLEAN
    BY DEF BrowserCounted
  <2> QED BY <2>1, Zenon DEF Browser!WorkerDies, Browser!EndTask, Browser!Closed
<1>2. /\ replies' \in Seq((BrowserRequests \X Browser!Answers) \cup {Browser!Eof})
      /\ Len(replies) \in Nat /\ Len(replies') \in {Len(replies), Len(replies) + 1}
      /\ Len(replies') <= 2
      /\ \A i \in 1 .. Len(replies) : replies'[i] = replies[i]
      /\ Len(replies') = Len(replies) + 1 => replies'[Len(replies')] = Browser!Eof
  BY <1>1 DEF BrowserTyped, BrowserCounted
<1>3. BrowserTyped' /\ BrowserCounted' /\ BrowserCalling'
  BY <1>1, <1>2 DEF BrowserTyped, BrowserCounted, BrowserCalling
<1>4. \A q : ~BrowserIn(q)'
  BY <1>1 DEF BrowserIn
<1>5. BrowserFrames'
  <2>1. BrowserTrue(Browser!Eof)'
    BY <1>4 DEF BrowserTrue, Browser!Eof
  <2>2. \A i \in 1 .. Len(replies) : BrowserTrue(replies[i])'
    BY <1>1, <1>2, <1>4 DEF BrowserFrames, BrowserTrue
  <2>3. \A i \in 1 .. Len(replies') : i \in 1 .. Len(replies) \/ replies'[i] = Browser!Eof
    BY <1>2
  <2>4. BrowserOnce'
    BY <1>1 DEF BrowserOnce
  <2> QED BY <2>1, <2>2, <2>3, <2>4 DEF BrowserFrames
<1>6. \A q \in BrowserRequests : BrowserAnswered(q)' => BrowserAnswered(q)
  BY <1>2 DEF BrowserAnswered, Browser!Eof, Browser!None
<1>7. (\A q \in BrowserRequests : BrowserOk(q))'
  BY <1>1, <1>4, <1>6 DEF BrowserOk, BrowserExcused, BrowserUnsent
<1> QED BY <1>3, <1>5, <1>7

\* The call takes the oldest answer; only its own settles it.
LEMMA BrowserReceive ==
    ASSUME BrowserApart, BrowserBounded, BrowserInv, NEW r \in BrowserRequests,
           Browser!Receive(r)
    PROVE  BrowserInv'
<1> USE DEF BrowserInv, BrowserApart
<1>0. PICK reply : reply = Head(replies)
  OBVIOUS
<1>1. /\ calling = <<r, "sent">> /\ replies # <<>> /\ replies' = Tail(replies)
      /\ record[r] = "dispatched"
      /\ UNCHANGED <<effects, workers, kills>>
  BY DEF Browser!Receive, BrowserCalling
<1>2. /\ Len(replies) \in Nat /\ Len(replies) > 0 /\ Len(replies') = Len(replies) - 1
      /\ replies' \in Seq((BrowserRequests \X Browser!Answers) \cup {Browser!Eof})
      /\ \A i \in 1 .. Len(replies') : i + 1 \in 1 .. Len(replies) /\ replies'[i] = replies[i + 1]
      /\ reply = replies[1] /\ 1 \in 1 .. Len(replies)
      /\ reply \in (BrowserRequests \X Browser!Answers) \cup {Browser!Eof}
  BY <1>0, <1>1 DEF BrowserTyped
<1>3. BrowserTrue(reply)
  BY <1>2 DEF BrowserFrames
<1>4. \A q : BrowserAnswered(q)' => BrowserAnswered(q)
  BY <1>2 DEF BrowserAnswered
<1>5. CASE /\ reply[1] = r /\ calling' = Browser!Quiet
           /\ record' = [record EXCEPT ![r] = Browser!Known(reply[2])]
           /\ answered' = [answered EXCEPT ![r] = reply[2]]
           /\ UNCHANGED <<workerClosed, inbox>>
  <2>1. reply[2] \in Browser!Answers
    BY <1>2, <1>5 DEF Browser!Eof, Browser!None
  <2>2. /\ Browser!Known(reply[2]) \in {"completed", "failed", "unknown"}
        /\ Browser!Known(reply[2]) = "completed" => reply[2] = "ok"
        /\ Browser!Known(reply[2]) = "failed" => reply[2] \in {"refused", "unverified"}
    BY <2>1 DEF Browser!Known, Browser!Answers
  <2>3. PICK state : state = Browser!Known(reply[2])
    OBVIOUS
  <2>4. BrowserTyped'
    BY <1>1, <1>2, <1>5, <2>1, <2>2 DEF BrowserTyped
  <2>5. BrowserCounted' /\ BrowserCalling'
    BY <1>1, <1>2, <1>5 DEF BrowserCounted, BrowserCalling, BrowserCallings, Browser!Quiet,
           Browser!None
  <2>6. \A q : BrowserIn(q)' <=> BrowserIn(q)
    BY <1>5 DEF BrowserIn
  <2>7. BrowserFrames'
    BY <1>1, <1>2, <1>5, <2>6 DEF BrowserFrames, BrowserOnce, BrowserTrue
  <2>8. (\A q \in BrowserRequests : BrowserOk(q))'
    <3> SUFFICES ASSUME NEW q \in BrowserRequests PROVE BrowserOk(q)'
      OBVIOUS
    <3>1. CASE q = r
      <4>1. record'[r] = state /\ ~BrowserIn(r) /\ calling' # <<r, "dispatched">>
        BY <1>3, <1>5, <2>3 DEF BrowserTyped, BrowserTrue, Browser!Quiet
      <4>2. state = "completed" => effects'[r] = 1
        BY <1>1, <1>3, <1>5, <2>2, <2>3 DEF BrowserTrue
      <4>3. state = "failed" => effects'[r] = 0 \/ BrowserExcused(r)'
        <5>1. answered'[r] = reply[2]
          BY <1>5 DEF BrowserTyped
        <5> QED BY <1>1, <1>3, <1>5, <2>2, <2>3, <5>1 DEF BrowserTrue, BrowserExcused
      <4> QED BY <2>2, <2>3, <2>6, <3>1, <4>1, <4>2, <4>3 DEF BrowserOk, BrowserExcused
    <3>2. CASE q # r
      <4>1. /\ record'[q] = record[q] /\ effects'[q] = effects[q] /\ answered'[q] = answered[q]
            /\ calling' # <<q, "dispatched">>
        BY <1>1, <1>5, <3>2 DEF BrowserTyped, Browser!Quiet, Browser!None
      <4> QED BY <1>4, <2>6, <4>1 DEF BrowserOk, BrowserUnsent, BrowserExcused
    <3> QED BY <3>1, <3>2
  <2> QED BY <2>4, <2>5, <2>7, <2>8
<1>6. CASE /\ calling' = <<r, "unknown">> /\ workerClosed' = TRUE /\ inbox' = <<>>
           /\ UNCHANGED <<record, answered>>
  <2>1. BrowserTyped' /\ BrowserCounted'
    BY <1>1, <1>2, <1>6 DEF BrowserTyped, BrowserCounted
  <2>2. BrowserCalling'
    BY <1>1, <1>6 DEF BrowserCalling, BrowserCallings
  <2>3. \A q : ~BrowserIn(q)'
    BY <1>6 DEF BrowserIn
  <2>4. BrowserFrames'
    BY <1>1, <1>2, <1>6, <2>3 DEF BrowserFrames, BrowserOnce, BrowserTrue
  <2>5. (\A q \in BrowserRequests : BrowserOk(q))'
    BY <1>1, <1>4, <1>6, <2>3 DEF BrowserOk, BrowserExcused, BrowserUnsent
  <2> QED BY <2>1, <2>2, <2>4, <2>5
<1> QED BY <1>0, <1>5, <1>6, Zenon DEF Browser!Receive, Browser!Finished, Browser!Closed

\* A call without an answer closes the worker; what is not known is unknown.
LEMMA BrowserGiveUp ==
    ASSUME BrowserApart, BrowserBounded, BrowserInv, NEW r \in BrowserRequests,
           Browser!GiveUp(r) \/ Browser!FinishUnknown(r)
    PROVE  BrowserInv'
<1> USE DEF BrowserInv, BrowserApart
<1>1. CASE Browser!GiveUp(r)
  <2>1. /\ calling = <<r, "sent">> /\ calling' = <<r, "unknown">> /\ inbox' = <<>>
        /\ workerClosed' = TRUE /\ UNCHANGED <<record, answered, replies, effects, workers, kills>>
    BY <1>1 DEF Browser!GiveUp, Browser!Closed
  <2>2. BrowserTyped' /\ BrowserCounted'
    BY <2>1 DEF BrowserTyped, BrowserCounted
  <2>3. BrowserCalling'
    BY <2>1 DEF BrowserCalling, BrowserCallings
  <2>4. \A q : ~BrowserIn(q)'
    BY <2>1 DEF BrowserIn
  <2>5. BrowserFrames'
    BY <2>1, <2>4 DEF BrowserFrames, BrowserOnce, BrowserTrue
  <2>6. (\A q \in BrowserRequests : BrowserOk(q))'
    BY <2>1, <2>4 DEF BrowserOk, BrowserExcused, BrowserUnsent, BrowserAnswered
  <2> QED BY <2>2, <2>3, <2>5, <2>6
<1>2. CASE Browser!FinishUnknown(r)
  <2>1. /\ calling = <<r, "unknown">> /\ calling' = Browser!Quiet
        /\ record' = [record EXCEPT ![r] = "unknown"]
        /\ answered' = [answered EXCEPT ![r] = "none"]
        /\ UNCHANGED <<inbox, replies, workerClosed, effects, workers, kills>>
    BY <1>2 DEF Browser!FinishUnknown, Browser!Finished, Browser!None
  <2>2. BrowserTyped' /\ BrowserCounted'
    BY <2>1 DEF BrowserTyped, BrowserCounted
  <2>3. BrowserCalling'
    BY <2>1 DEF BrowserCalling, BrowserCallings, Browser!Quiet, Browser!None
  <2>4. BrowserFrames'
    BY <2>1 DEF BrowserFrames, BrowserOnce, BrowserTrue, BrowserIn
  <2>5. (\A q \in BrowserRequests : BrowserOk(q))'
    BY <2>1 DEF BrowserTyped, BrowserOk, BrowserExcused, BrowserUnsent, BrowserIn, BrowserAnswered,
           Browser!Quiet, Browser!None
  <2> QED BY <2>2, <2>3, <2>4, <2>5
<1> QED BY <1>1, <1>2

\* The next server settles what the last one left.
LEMMA BrowserKill ==
    ASSUME BrowserApart, BrowserBounded, BrowserInv, Browser!Kill
    PROVE  BrowserInv'
<1> USE DEF BrowserInv, BrowserApart, Browser!Kill, Browser!Closed, Browser!Quiet, Browser!None
<1>1. \A r \in BrowserRequests :
         /\ record'[r] \in {"none", "queued", "dispatched", "completed", "failed", "unknown"}
         /\ record'[r] = "none" => record[r] = "none"
         /\ record'[r] # "queued"
         /\ record'[r] = "completed" => record[r] = "completed"
         /\ record'[r] = "failed" => record[r] \in {"failed", "queued"}
  BY DEF BrowserTyped, Browser!Recovered
<1>2. BrowserTyped'
  BY <1>1 DEF BrowserTyped
<1>3. BrowserCounted'
  BY DEF BrowserCounted, BrowserBounded
<1>4. BrowserCalling'
  BY DEF BrowserCalling, BrowserCallings
<1>5. (\A q : ~BrowserIn(q))'
  BY DEF BrowserIn
<1>6. BrowserFrames'
  BY <1>5 DEF BrowserFrames, BrowserOnce
<1>7. (\A q \in BrowserRequests : BrowserOk(q))'
  BY <1>1, <1>5 DEF BrowserOk, BrowserExcused, BrowserUnsent, BrowserAnswered
<1> QED BY <1>2, <1>3, <1>4, <1>6, <1>7

LEMMA BrowserPreserved ==
    ASSUME BrowserApart, BrowserBounded, BrowserInv, [Browser!Next]_browserVars
    PROVE  BrowserInv'
<1>1. CASE UNCHANGED browserVars
  BY <1>1 DEF browserVars, BrowserInv, BrowserTyped, BrowserCounted, BrowserCalling,
         BrowserFrames, BrowserOnce, BrowserTrue, BrowserOk, BrowserExcused, BrowserUnsent, BrowserIn,
         BrowserAnswered
<1>2. CASE Browser!Next
  BY <1>2, BrowserStart, BrowserReserve, BrowserSend, BrowserWork, BrowserDies, BrowserReceive,
     BrowserGiveUp, BrowserKill DEF Browser!Next
<1> QED BY <1>1, <1>2

LEMMA BrowserImplies ==
    ASSUME BrowserInv
    PROVE  Browser!TypeOK /\ Browser!BrowserRecordsTrue
<1>1. Browser!TypeOK
  BY DEF BrowserInv, BrowserTyped, BrowserCounted, BrowserCalling, BrowserCallings,
         Browser!TypeOK, Browser!Final, Browser!None
<1>2. Browser!BrowserRecordsTrue
  BY DEF BrowserInv, BrowserTyped, BrowserOk, BrowserExcused, BrowserUnsent, Browser!BrowserRecordsTrue,
         Browser!None
<1> QED BY <1>1, <1>2

-----------------------------------------------------------------------------
(* The pages of a browser worker, snapshots and actions (BrowserPages).       *)

BrowseBounded ==
    /\ IsFiniteSet(Pages) /\ {MaxPages, MaxVersions} \subseteq Nat /\ MaxDocs \in Nat \ {0}
BrowseApart == "none" \notin Pages

BrowseNews == {"appeared", "navigated", "closed"}
BrowseTyped ==
    /\ open \subseteq Pages /\ bound \subseteq named /\ named \subseteq Pages
    /\ ending \subseteq Pages
    /\ doc \in [Pages -> 0 .. MaxDocs] /\ news \in [Pages -> Seq(BrowseNews)]
    /\ revision \in [Pages -> Nat]
    /\ snapshots \in [Pages -> [version : 0 .. MaxVersions, docs : SUBSET (0 .. MaxDocs)]]
    /\ versions \in 0 .. MaxVersions
    /\ Cardinality(bound) <= MaxPages

BrowseRequests ==
    [step : {"idle", "creating", "created", "collecting", "checking", "acting"},
     on : Pages \cup {"none"}, revision : Nat, part : 0 .. 2, version : 0 .. MaxVersions,
     docs : SUBSET (0 .. MaxDocs), acted : BOOLEAN, answer : Browse!Answers]

\* News that make what was seen of a page old, and the news that bind it.
BrowseMoved(p) == \E i \in 1 .. Len(news[p]) : news[p][i] # "appeared"
BrowseComing(p) == \E i \in 1 .. Len(news[p]) : news[p][i] = "appeared"
BrowseGone(p) == \E i \in 1 .. Len(news[p]) : news[p][i] = "closed"
BrowseCreated(p) == request.step = "created" /\ request.on = p

\* A page has news only once it was opened, and its end is not to be told of
\* while it is open; an open page is owned, given up, or yet to be looked at.
BrowseOwned(p) ==
    /\ doc[p] = 0 => p \notin open /\ p \notin named /\ news[p] = <<>>
    /\ p \in open => ~BrowseGone(p)
    /\ p \in open /\ p \in named => p \in bound
    /\ p \in open => p \in bound \cup ending \/ BrowseComing(p) \/ BrowseCreated(p)

\* The documents seen of a page are the one it shows, or it has moved on.
BrowseSeen(p, docs) == (docs \subseteq {doc[p]} /\ p \in open) \/ BrowseMoved(p)
BrowseKept(p) ==
    snapshots[p].version # 0 =>
        p \in named /\ snapshots[p].docs # {} /\ BrowseSeen(p, snapshots[p].docs)

\* What a snapshot under way has seen, as long as its revision is the page's.
BrowseCollecting ==
    request.step = "collecting" =>
        /\ request.on \in Pages /\ request.revision <= revision[request.on]
        /\ request.part # 0 => request.docs # {}
        /\ request.revision = revision[request.on] =>
               request.on \in named /\ BrowseSeen(request.on, request.docs)

BrowseAsked ==
    /\ request \in BrowseRequests
    /\ request.step \in {"created", "checking", "acting"} => request.on \in Pages
    /\ request.step # "idle" => request.answer = "" /\ ~request.acted
    /\ request.answer = "refused" => ~request.acted

BrowseInv ==
    /\ BrowseTyped /\ closed \in BOOLEAN /\ BrowseAsked /\ BrowseCollecting
    /\ \A p \in Pages : BrowseOwned(p) /\ BrowseKept(p)

LEMMA BrowseCardinality == \A S : Browse!Cardinality(S) = Cardinality(S)
BY DEF Browse!Cardinality, Cardinality

LEMMA BrowseIdle ==
    ASSUME BrowseBounded
    PROVE  Browse!Idle \in BrowseRequests
<1>1. FALSE \in BOOLEAN /\ "" \in Browse!Answers /\ 0 \in 0 .. 2 /\ 0 \in 0 .. MaxVersions
  BY DEF BrowseBounded, Browse!Answers
<1> QED BY <1>1 DEF Browse!Idle, Browse!NoPage, BrowseRequests

LEMMA BrowseAnswers ==
    ASSUME BrowseBounded, NEW answer \in Browse!Answers
    PROVE  /\ [Browse!Idle EXCEPT !.answer = answer] \in BrowseRequests
           /\ [Browse!Idle EXCEPT !.answer = answer].step = "idle"
           /\ [Browse!Idle EXCEPT !.answer = answer].answer = answer
           /\ ~[Browse!Idle EXCEPT !.answer = answer].acted
<1>1. Browse!Idle \in BrowseRequests /\ Browse!Idle.step = "idle" /\ ~Browse!Idle.acted
  BY BrowseIdle DEF Browse!Idle
<1>2. [Browse!Idle EXCEPT !.answer = answer] \in BrowseRequests
  BY <1>1 DEF BrowseRequests
<1> QED BY <1>1, <1>2 DEF BrowseRequests

LEMMA BrowseDone ==
    ASSUME BrowseBounded, NEW answer \in Browse!Answers, NEW acted \in BOOLEAN
    PROVE  /\ [Browse!Idle EXCEPT !.answer = answer, !.acted = acted] \in BrowseRequests
           /\ [Browse!Idle EXCEPT !.answer = answer, !.acted = acted].step = "idle"
           /\ [Browse!Idle EXCEPT !.answer = answer, !.acted = acted].answer = answer
           /\ [Browse!Idle EXCEPT !.answer = answer, !.acted = acted].acted = acted
<1>1. Browse!Idle \in BrowseRequests /\ Browse!Idle.step = "idle"
  BY BrowseIdle DEF Browse!Idle
<1>2. [Browse!Idle EXCEPT !.answer = answer, !.acted = acted] \in BrowseRequests
  BY <1>1 DEF BrowseRequests
<1> QED BY <1>1, <1>2 DEF BrowseRequests

LEMMA BrowseInitInv ==
    ASSUME BrowseBounded, BrowseApart, Browse!Init
    PROVE  BrowseInv
<1> USE DEF Browse!Init, Browse!NoSnapshot, Browse!Idle, Browse!NoPage, BrowseBounded
<1>1. BrowseTyped
  <2> DEFINE None == [version |-> 0, docs |-> {}]
  <2>1. Cardinality(bound) = 0
    BY FS_EmptySet
  <2>2. /\ MaxVersions \in Nat /\ MaxDocs \in Nat /\ MaxPages \in Nat
        /\ open = {} /\ bound = {} /\ named = {} /\ ending = {} /\ versions = 0
        /\ doc = [p \in Pages |-> 0] /\ news = [p \in Pages |-> <<>>]
        /\ revision = [p \in Pages |-> 0] /\ snapshots = [p \in Pages |-> None]
    BY Zenon
  <2> HIDE DEF Browse!Init
  <2>3. None \in [version : 0 .. MaxVersions, docs : SUBSET (0 .. MaxDocs)]
    BY <2>2
  <2>4. <<>> \in Seq(BrowseNews)
    OBVIOUS
  <2> HIDE DEF None
  <2>5. /\ doc \in [Pages -> 0 .. MaxDocs] /\ news \in [Pages -> Seq(BrowseNews)]
        /\ revision \in [Pages -> Nat]
        /\ snapshots \in [Pages -> [version : 0 .. MaxVersions, docs : SUBSET (0 .. MaxDocs)]]
    BY <2>2, <2>3, <2>4
  <2> QED BY <2>1, <2>2, <2>5 DEF BrowseTyped
<1>2. closed \in BOOLEAN
  BY Zenon
<1>3. BrowseAsked
  BY BrowseIdle DEF BrowseAsked
<1>4. BrowseCollecting
  BY DEF BrowseCollecting
<1>5. \A p \in Pages : BrowseOwned(p) /\ BrowseKept(p)
  BY DEF BrowseOwned, BrowseKept, BrowseGone
<1> QED BY <1>1, <1>2, <1>3, <1>4, <1>5 DEF BrowseInv

-----------------------------------------------------------------------------
\* Something to tell of a page is told after the rest.
LEMMA BrowseTells ==
    ASSUME BrowseTyped, NEW p \in Pages, NEW what \in BrowseNews, Browse!Tell(p, what)
    PROVE  /\ news' \in [Pages -> Seq(BrowseNews)]
           /\ \A q \in Pages \ {p} : news'[q] = news[q]
           /\ news'[p] # <<>>
           /\ BrowseMoved(p)' <=> BrowseMoved(p) \/ what # "appeared"
           /\ BrowseComing(p)' <=> BrowseComing(p) \/ what = "appeared"
           /\ BrowseGone(p)' <=> BrowseGone(p) \/ what = "closed"
<1>1. news' = [news EXCEPT ![p] = Append(news[p], what)] /\ news[p] \in Seq(BrowseNews)
  BY DEF Browse!Tell, BrowseTyped
<1>2. /\ Append(news[p], what) \in Seq(BrowseNews) /\ Len(news[p]) \in Nat
      /\ Len(Append(news[p], what)) = Len(news[p]) + 1
      /\ \A i \in 1 .. Len(news[p]) : Append(news[p], what)[i] = news[p][i]
      /\ Append(news[p], what)[Len(news[p]) + 1] = what
      /\ Append(news[p], what) # <<>>
  BY <1>1
<1>3. news'[p] = Append(news[p], what)
  BY <1>1 DEF BrowseTyped
<1>4. news' \in [Pages -> Seq(BrowseNews)] /\ \A q \in Pages \ {p} : news'[q] = news[q]
  BY <1>1, <1>2 DEF BrowseTyped
<1> QED BY <1>2, <1>3, <1>4 DEF BrowseMoved, BrowseComing, BrowseGone

\* What the browser does to its pages, as far as the engine's books go.
BrowseWorld ==
    /\ open' \subseteq Pages /\ doc' \in [Pages -> 0 .. MaxDocs]
    /\ news' \in [Pages -> Seq(BrowseNews)]
    /\ \A q \in named, docs \in SUBSET (0 .. MaxDocs) : BrowseSeen(q, docs) => BrowseSeen(q, docs)'
    /\ \A q \in Pages : doc'[q] = 0 => doc[q] = 0 /\ q \notin open' /\ news'[q] = <<>>
    /\ \A q \in open' : ~BrowseGone(q)'
    /\ \A q \in open' : \/ q \in open /\ (BrowseComing(q) => BrowseComing(q)')
                        \/ q \notin named /\ BrowseComing(q)'

LEMMA BrowseOpens ==
    ASSUME BrowseBounded, BrowseInv, NEW p \in Pages, Browse!Opens(p)
    PROVE  BrowseWorld
<1> USE DEF BrowseInv
<1>1. /\ doc[p] = 0 /\ doc' = [doc EXCEPT ![p] = 1] /\ open' = open \cup {p}
      /\ Browse!Tell(p, "appeared")
  BY DEF Browse!Opens
<1>2. /\ news' \in [Pages -> Seq(BrowseNews)]
      /\ \A q \in Pages \ {p} : news'[q] = news[q]
      /\ BrowseComing(p)' /\ (BrowseGone(p)' <=> BrowseGone(p))
  BY <1>1, BrowseTells DEF BrowseNews
<1>3. /\ p \notin open /\ p \notin named /\ ~BrowseGone(p)
  BY <1>1 DEF BrowseOwned, BrowseGone
<1>4. \A q \in Pages \ {p} : /\ BrowseMoved(q)' <=> BrowseMoved(q)
                             /\ BrowseComing(q)' <=> BrowseComing(q)
                             /\ BrowseGone(q)' <=> BrowseGone(q)
                             /\ doc'[q] = doc[q]
  BY <1>1, <1>2 DEF BrowseMoved, BrowseComing, BrowseGone, BrowseTyped
<1>5. open' \subseteq Pages /\ doc' \in [Pages -> 0 .. MaxDocs] /\ doc'[p] = 1
  BY <1>1 DEF BrowseTyped, BrowseBounded
<1>6. \A q \in named, docs \in SUBSET (0 .. MaxDocs) : BrowseSeen(q, docs) => BrowseSeen(q, docs)'
  BY <1>1, <1>3, <1>4 DEF BrowseSeen, BrowseTyped
<1>7. \A q \in Pages : doc'[q] = 0 => doc[q] = 0 /\ q \notin open' /\ news'[q] = <<>>
  BY <1>1, <1>2, <1>4, <1>5 DEF BrowseOwned
<1>8. \A q \in open' : ~BrowseGone(q)'
  BY <1>1, <1>2, <1>3, <1>4 DEF BrowseOwned, BrowseTyped
<1>9. \A q \in open' : \/ q \in open /\ (BrowseComing(q) => BrowseComing(q)')
                       \/ q \notin named /\ BrowseComing(q)'
  BY <1>1, <1>2, <1>3, <1>4 DEF BrowseTyped
<1> QED BY <1>2, <1>5, <1>6, <1>7, <1>8, <1>9 DEF BrowseWorld

LEMMA BrowseNavigates ==
    ASSUME BrowseBounded, BrowseInv, NEW p \in Pages, Browse!Navigates(p)
    PROVE  BrowseWorld
<1> USE DEF BrowseInv
<1>1. /\ p \in open /\ doc[p] < MaxDocs /\ doc' = [doc EXCEPT ![p] = @ + 1] /\ open' = open
      /\ Browse!Tell(p, "navigated")
  BY DEF Browse!Navigates
<1>2. /\ news' \in [Pages -> Seq(BrowseNews)] /\ news'[p] # <<>>
      /\ \A q \in Pages \ {p} : news'[q] = news[q]
      /\ BrowseMoved(p)' /\ (BrowseGone(p)' <=> BrowseGone(p))
      /\ BrowseComing(p)' <=> BrowseComing(p)
  BY <1>1, BrowseTells DEF BrowseNews
<1>4. \A q \in Pages \ {p} : /\ BrowseMoved(q)' <=> BrowseMoved(q)
                             /\ BrowseComing(q)' <=> BrowseComing(q)
                             /\ BrowseGone(q)' <=> BrowseGone(q)
                             /\ doc'[q] = doc[q]
  BY <1>1, <1>2 DEF BrowseMoved, BrowseComing, BrowseGone, BrowseTyped
<1>5. open' \subseteq Pages /\ doc' \in [Pages -> 0 .. MaxDocs] /\ doc'[p] # 0
  BY <1>1 DEF BrowseTyped, BrowseBounded
<1>6. \A q \in named, docs \in SUBSET (0 .. MaxDocs) : BrowseSeen(q, docs) => BrowseSeen(q, docs)'
  BY <1>1, <1>2, <1>4 DEF BrowseSeen, BrowseTyped
<1>7. \A q \in Pages : doc'[q] = 0 => doc[q] = 0 /\ q \notin open' /\ news'[q] = <<>>
  BY <1>1, <1>2, <1>4, <1>5 DEF BrowseOwned
<1>8. \A q \in open' : ~BrowseGone(q)'
  BY <1>1, <1>2, <1>4 DEF BrowseOwned, BrowseTyped
<1>9. \A q \in open' : \/ q \in open /\ (BrowseComing(q) => BrowseComing(q)')
                       \/ q \notin named /\ BrowseComing(q)'
  BY <1>1, <1>2, <1>4 DEF BrowseTyped
<1> QED BY <1>2, <1>5, <1>6, <1>7, <1>8, <1>9 DEF BrowseWorld

LEMMA BrowseEnds ==
    ASSUME BrowseBounded, BrowseInv, NEW p \in Pages, Browse!Ends(p)
    PROVE  BrowseWorld /\ p \notin open'
<1> USE DEF BrowseInv
<1>1. p \in open /\ doc' = doc /\ open' = open \ {p} /\ Browse!Tell(p, "closed")
  BY DEF Browse!Ends
<1>2. /\ news' \in [Pages -> Seq(BrowseNews)] /\ news'[p] # <<>>
      /\ \A q \in Pages \ {p} : news'[q] = news[q]
      /\ BrowseMoved(p)'
  BY <1>1, BrowseTells DEF BrowseNews
<1>4. \A q \in Pages \ {p} : /\ BrowseMoved(q)' <=> BrowseMoved(q)
                             /\ BrowseComing(q)' <=> BrowseComing(q)
                             /\ BrowseGone(q)' <=> BrowseGone(q)
  BY <1>2 DEF BrowseMoved, BrowseComing, BrowseGone
<1>5. open' \subseteq Pages /\ doc' \in [Pages -> 0 .. MaxDocs] /\ doc[p] # 0
  BY <1>1 DEF BrowseTyped, BrowseOwned
<1>6. \A q \in named, docs \in SUBSET (0 .. MaxDocs) : BrowseSeen(q, docs) => BrowseSeen(q, docs)'
  BY <1>1, <1>2, <1>4 DEF BrowseSeen, BrowseTyped
<1>7. \A q \in Pages : doc'[q] = 0 => doc[q] = 0 /\ q \notin open' /\ news'[q] = <<>>
  BY <1>1, <1>2, <1>4, <1>5 DEF BrowseOwned
<1>8. \A q \in open' : ~BrowseGone(q)'
  BY <1>1, <1>4, <1>5 DEF BrowseOwned
<1>9. \A q \in open' : \/ q \in open /\ (BrowseComing(q) => BrowseComing(q)')
                       \/ q \notin named /\ BrowseComing(q)'
  BY <1>1, <1>4, <1>5
<1> QED BY <1>1, <1>2, <1>5, <1>6, <1>7, <1>8, <1>9 DEF BrowseWorld

\* The engine's books beside a change of the pages: pages named stay so, an open
\* one stays bound or given up, and what is kept of a page is kept.
LEMMA BrowseBooks ==
    ASSUME BrowseBounded, BrowseApart, BrowseInv, BrowseWorld,
           UNCHANGED <<revision, snapshots, versions, closed, named>>,
           bound' \subseteq bound, ending' \subseteq ending,
           open' \cap (bound \ bound') = {}, open' \cap (ending \ ending') = {},
           BrowseAsked',
           \A q \in open' : BrowseCreated(q) => BrowseCreated(q)',
           request' = request \/ request'.step # "collecting"
    PROVE  BrowseInv'
<1> USE DEF BrowseInv
<1>1. BrowseTyped'
  <2>1. IsFiniteSet(bound)
    BY FS_Subset DEF BrowseTyped, BrowseBounded
  <2>2. Cardinality(bound') <= Cardinality(bound) /\ Cardinality(bound') \in Nat
        /\ Cardinality(bound) \in Nat
    BY <2>1, FS_Subset, FS_CardinalityType
  <2>3. Cardinality(bound') <= MaxPages
    BY <2>2 DEF BrowseTyped, BrowseBounded
  <2> QED BY <2>3 DEF BrowseTyped, BrowseWorld
<1>2. closed' \in BOOLEAN
  BY Zenon
<1>3. BrowseCollecting'
  <2>1. CASE request' = request /\ request.step = "collecting"
    <3>1. request.docs \in SUBSET (0 .. MaxDocs)
      BY DEF BrowseAsked, BrowseRequests
    <3> QED BY <2>1, <3>1 DEF BrowseCollecting, BrowseWorld, BrowseSeen
  <2>2. CASE request'.step # "collecting"
    BY <2>2 DEF BrowseCollecting
  <2>3. CASE request' = request /\ request.step # "collecting"
    BY <2>3 DEF BrowseCollecting
  <2> QED BY <2>1, <2>2, <2>3
<1>4. ASSUME NEW q \in Pages PROVE BrowseOwned(q)'
  BY <1>4 DEF BrowseOwned, BrowseWorld, BrowseTyped
<1>5. ASSUME NEW q \in Pages PROVE BrowseKept(q)'
  <2>1. snapshots[q].docs \in SUBSET (0 .. MaxDocs)
    BY DEF BrowseTyped
  <2> QED BY <2>1 DEF BrowseKept, BrowseWorld, BrowseSeen
<1> QED BY <1>1, <1>2, <1>3, <1>4, <1>5

LEMMA BrowsePagesStep ==
    ASSUME BrowseBounded, BrowseApart, BrowseInv, NEW p \in Pages,
           Browse!Popup(p) \/ Browse!Navigate(p) \/ Browse!Close(p) \/ Browse!Closing(p)
    PROVE  BrowseInv'
<1>1. BrowseWorld /\ (Browse!Closing(p) => p \notin open')
  BY BrowseOpens, BrowseNavigates, BrowseEnds
     DEF Browse!Popup, Browse!Navigate, Browse!Close, Browse!Closing
<1>2. /\ UNCHANGED <<revision, snapshots, versions, closed, named, bound, request>>
      /\ ending' = ending \/ (Browse!Closing(p) /\ ending' = ending \ {p})
  BY DEF Browse!Popup, Browse!Navigate, Browse!Close, Browse!Closing, Browse!EngineAlone
<1>3. BrowseAsked' /\ \A q \in open' : BrowseCreated(q) => BrowseCreated(q)'
  BY <1>2 DEF BrowseInv, BrowseAsked, BrowseCreated
<1> QED BY <1>1, <1>2, <1>3, BrowseBooks

LEMMA BrowseCreate ==
    ASSUME BrowseBounded, BrowseApart, BrowseInv, NEW p \in Pages, Browse!Create(p)
    PROVE  BrowseInv'
<1>1. /\ BrowseWorld /\ request.step = "creating" /\ Browse!EngineAlone
      /\ request' = [request EXCEPT !.step = "created", !.on = p]
  BY BrowseOpens DEF Browse!Create, Browse!At
<1>2. /\ request' \in BrowseRequests /\ request'.step = "created" /\ request'.on = p
      /\ request'.answer = request.answer /\ request'.acted = request.acted
  BY <1>1 DEF BrowseInv, BrowseAsked, BrowseRequests
<1>3. BrowseAsked' /\ \A q \in open' : BrowseCreated(q) => BrowseCreated(q)'
  BY <1>1, <1>2 DEF BrowseInv, BrowseAsked, BrowseCreated
<1> QED BY <1>1, <1>2, <1>3, BrowseBooks DEF Browse!EngineAlone

LEMMA BrowseGoto ==
    ASSUME BrowseBounded, BrowseApart, BrowseInv, NEW p \in Pages, Browse!Goto(p)
    PROVE  BrowseInv'
<1>1. PICK answer \in {"done", "error"} : request' = [Browse!Idle EXCEPT !.answer = answer]
  BY DEF Browse!Goto, Browse!Answer
<1>2. BrowseWorld /\ (bound' # bound => bound' = bound \ {p} /\ p \notin open')
  BY BrowseNavigates, BrowseEnds DEF Browse!Goto, Browse!EngineAlone
<1>3. /\ UNCHANGED <<revision, snapshots, versions, closed, named, ending>>
      /\ request.step = "idle"
  BY DEF Browse!Goto, Browse!EngineAlone, Browse!At
<1>4. /\ request' \in BrowseRequests /\ request'.step = "idle" /\ request'.answer = answer
      /\ ~request'.acted
  BY <1>1, BrowseAnswers DEF Browse!Answers
<1>5. BrowseAsked' /\ \A q \in open' : BrowseCreated(q) => BrowseCreated(q)'
  BY <1>3, <1>4 DEF BrowseAsked, BrowseCreated
<1> QED BY <1>2, <1>3, <1>4, <1>5, BrowseBooks

\* A page that is bound is within the limit; one that is not is given up.
LEMMA BrowseBinds ==
    ASSUME BrowseBounded, BrowseTyped, NEW p \in Pages, Browse!Bound(p)
    PROVE  /\ bound \subseteq bound' /\ bound' \subseteq named' /\ named' \subseteq Pages
           /\ named \subseteq named' /\ named' \subseteq named \cup bound'
           /\ named' \subseteq named \cup {p}
           /\ ending \subseteq ending' /\ ending' \subseteq Pages
           /\ p \in named \/ p \in bound' \cup ending'
           /\ Cardinality(bound') <= MaxPages
<1> USE DEF BrowseTyped
<1>1. CASE UNCHANGED <<bound, named, ending>> /\ p \in named
  BY <1>1
<1>2. CASE /\ p \notin named /\ Browse!MayBind /\ UNCHANGED ending
           /\ bound' = bound \cup {p} /\ named' = named \cup {p}
  <2>1. IsFiniteSet(bound) /\ Cardinality(bound) \in Nat
    BY FS_Subset, FS_CardinalityType DEF BrowseBounded
  <2>2. p \notin bound
    BY <1>2
  <2>3. Cardinality(bound \cup {p}) = Cardinality(bound) + 1
    BY <2>1, <2>2, FS_AddElement
  <2>4. Cardinality(bound) < MaxPages
    BY <1>2, BrowseCardinality DEF Browse!MayBind
  <2>5. Cardinality(bound') <= MaxPages
    BY <1>2, <2>1, <2>3, <2>4 DEF BrowseBounded
  <2> QED BY <1>2, <2>5
<1>3. CASE ending' = ending \cup {p} /\ UNCHANGED <<bound, named>>
  BY <1>3
<1> QED BY <1>1, <1>2, <1>3, Zenon DEF Browse!Bound, Browse!Bind

\* The oldest news of a page is delivered.
LEMMA BrowseHears ==
    ASSUME BrowseTyped, NEW p \in Pages, news[p] # <<>>,
           news' = [news EXCEPT ![p] = Tail(@)]
    PROVE  /\ news' \in [Pages -> Seq(BrowseNews)] /\ Head(news[p]) \in BrowseNews
           /\ \A q \in Pages \ {p} : news'[q] = news[q]
           /\ \A i \in 1 .. Len(news'[p]) :
                 i + 1 \in 1 .. Len(news[p]) /\ news'[p][i] = news[p][i + 1]
           /\ \A i \in 1 .. Len(news[p]) :
                 i # 1 => i - 1 \in 1 .. Len(news'[p]) /\ news'[p][i - 1] = news[p][i]
           /\ 1 \in 1 .. Len(news[p]) /\ news[p][1] = Head(news[p])
<1>1. news[p] \in Seq(BrowseNews) /\ news' = [news EXCEPT ![p] = Tail(news[p])]
  BY DEF BrowseTyped
<1>2. /\ Tail(news[p]) \in Seq(BrowseNews) /\ Len(news[p]) \in Nat /\ Len(news[p]) > 0
      /\ Len(Tail(news[p])) = Len(news[p]) - 1
      /\ \A i \in 1 .. Len(Tail(news[p])) : Tail(news[p])[i] = news[p][i + 1]
      /\ Head(news[p]) = news[p][1] /\ news[p][1] \in BrowseNews
  BY <1>1
<1>3. news'[p] = Tail(news[p])
  BY <1>1 DEF BrowseTyped
<1>4. news' \in [Pages -> Seq(BrowseNews)] /\ \A q \in Pages \ {p} : news'[q] = news[q]
  BY <1>1, <1>2 DEF BrowseTyped
<1> QED BY <1>2, <1>3, <1>4

LEMMA BrowseInvalidates ==
    ASSUME BrowseBounded, BrowseTyped, NEW p \in Pages, Browse!Invalidated(p)
    PROVE  /\ revision' \in [Pages -> Nat] /\ revision'[p] = revision[p] + 1
           /\ snapshots' \in [Pages -> [version : 0 .. MaxVersions, docs : SUBSET (0 .. MaxDocs)]]
           /\ snapshots'[p].version = 0
           /\ \A q \in Pages \ {p} : revision'[q] = revision[q] /\ snapshots'[q] = snapshots[q]
<1>1. /\ Browse!NoSnapshot \in [version : 0 .. MaxVersions, docs : SUBSET (0 .. MaxDocs)]
      /\ Browse!NoSnapshot.version = 0
  BY DEF BrowseBounded, Browse!NoSnapshot
<1> QED BY <1>1 DEF BrowseTyped, Browse!Invalidated

LEMMA BrowseCallback ==
    ASSUME BrowseBounded, BrowseApart, BrowseInv, NEW p \in Pages, Browse!Callback(p)
    PROVE  BrowseInv'
<1> USE DEF BrowseInv
<1>1. PICK what : what = Head(news[p])
  OBVIOUS
<1>2. /\ news[p] # <<>> /\ news' = [news EXCEPT ![p] = Tail(@)]
      /\ UNCHANGED <<open, doc, versions, closed, request>>
  BY DEF Browse!Callback
<1>3. /\ news' \in [Pages -> Seq(BrowseNews)] /\ what \in BrowseNews
      /\ \A q \in Pages \ {p} : news'[q] = news[q]
      /\ \A i \in 1 .. Len(news'[p]) :
            i + 1 \in 1 .. Len(news[p]) /\ news'[p][i] = news[p][i + 1]
      /\ \A i \in 1 .. Len(news[p]) :
            i # 1 => i - 1 \in 1 .. Len(news'[p]) /\ news'[p][i - 1] = news[p][i]
      /\ 1 \in 1 .. Len(news[p]) /\ news[p][1] = what
  BY <1>1, <1>2, BrowseHears
<1>4. /\ \A q \in Pages : BrowseGone(q)' => BrowseGone(q)
      /\ BrowseMoved(p) /\ what = "appeared" => BrowseMoved(p)'
      /\ BrowseComing(p) /\ what # "appeared" => BrowseComing(p)'
      /\ \A q \in Pages \ {p} : /\ BrowseMoved(q) => BrowseMoved(q)'
                                /\ BrowseComing(q) => BrowseComing(q)'
      /\ what = "closed" => BrowseGone(p)
  <2>1. \A q \in Pages : BrowseGone(q)' => BrowseGone(q)
    BY <1>3 DEF BrowseGone
  <2>2. BrowseMoved(p) /\ what = "appeared" => BrowseMoved(p)'
    <3> SUFFICES ASSUME BrowseMoved(p), what = "appeared" PROVE BrowseMoved(p)'
      OBVIOUS
    <3>1. PICK i \in 1 .. Len(news[p]) : news[p][i] # "appeared"
      BY DEF BrowseMoved
    <3> QED BY <1>3, <3>1 DEF BrowseMoved
  <2>3. BrowseComing(p) /\ what # "appeared" => BrowseComing(p)'
    <3> SUFFICES ASSUME BrowseComing(p), what # "appeared" PROVE BrowseComing(p)'
      OBVIOUS
    <3>1. PICK i \in 1 .. Len(news[p]) : news[p][i] = "appeared"
      BY DEF BrowseComing
    <3>2. i - 1 \in 1 .. Len(news'[p]) /\ news'[p][i - 1] = "appeared"
      BY <1>3, <3>1
    <3> QED BY <3>2 DEF BrowseComing
  <2>4. \A q \in Pages \ {p} : /\ BrowseMoved(q) => BrowseMoved(q)'
                               /\ BrowseComing(q) => BrowseComing(q)'
    BY <1>3 DEF BrowseMoved, BrowseComing
  <2>5. what = "closed" => BrowseGone(p)
    BY <1>3 DEF BrowseGone
  <2> QED BY <2>1, <2>2, <2>3, <2>4, <2>5
<1>5. doc[p] # 0
  BY <1>2 DEF BrowseOwned
<1>6. /\ bound' \subseteq named' /\ named' \subseteq Pages /\ ending' \subseteq Pages
      /\ Cardinality(bound') <= MaxPages
      /\ \A q \in Pages \ {p} : /\ q \in bound => q \in bound'
                                /\ q \in named <=> q \in named'
                                /\ q \in ending => q \in ending'
      /\ p \in open => /\ p \in named => p \in named'
                       /\ p \in bound \cup ending => p \in bound' \cup ending'
                       /\ what = "appeared" => p \in bound' \cup ending'
                       /\ p \in named' => p \in bound'
      /\ what = "appeared" /\ p \in named => p \in named'
      /\ p \in named' /\ p \notin named => p \in open \/ what = "appeared"
      /\ what = "navigated" => named' = named
  <2>1. CASE what = "appeared"
    <3>1. Browse!Bound(p)
      BY <1>1, <2>1 DEF Browse!Callback
    <3>2. p \in open /\ p \in named => p \in bound
      BY DEF BrowseOwned
    <3> QED BY <2>1, <3>1, <3>2, BrowseBinds
  <2>2. CASE what = "closed"
    <3>1. bound' = bound \ {p} /\ named' = named \ {p} /\ ending' = ending \ {p}
      BY <1>1, <2>2 DEF Browse!Callback
    <3>2. p \notin open
      BY <1>4, <2>2 DEF BrowseOwned
    <3>3. Cardinality(bound') <= MaxPages
      <4>1. IsFiniteSet(bound) /\ bound' \subseteq bound
        BY <3>1, FS_Subset DEF BrowseTyped, BrowseBounded
      <4>2. /\ Cardinality(bound') <= Cardinality(bound) /\ Cardinality(bound') \in Nat
            /\ Cardinality(bound) \in Nat
        BY <4>1, FS_Subset, FS_CardinalityType
      <4> QED BY <4>2 DEF BrowseTyped, BrowseBounded
    <3> QED BY <2>2, <3>1, <3>2, <3>3 DEF BrowseTyped
  <2>3. CASE what = "navigated"
    <3>1. UNCHANGED <<bound, named, ending>>
      BY <1>1, <2>3 DEF Browse!Callback
    <3>2. p \in open /\ p \in named => p \in bound
      BY DEF BrowseOwned
    <3> QED BY <2>3, <3>1, <3>2 DEF BrowseTyped
  <2> QED BY <1>3, <2>1, <2>2, <2>3 DEF BrowseNews
<1>7. /\ revision' \in [Pages -> Nat]
      /\ snapshots' \in [Pages -> [version : 0 .. MaxVersions, docs : SUBSET (0 .. MaxDocs)]]
      /\ \A q \in Pages \ {p} : revision'[q] = revision[q] /\ snapshots'[q] = snapshots[q]
      /\ what # "appeared" /\ p \in named =>
            revision'[p] = revision[p] + 1 /\ snapshots'[p].version = 0
      /\ what = "appeared" \/ p \notin named => UNCHANGED <<revision, snapshots>>
  <2>1. CASE what # "appeared" /\ p \in named
    <3>1. Browse!Invalidated(p)
      BY <1>1, <2>1 DEF Browse!Callback
    <3> QED BY <2>1, <3>1, BrowseInvalidates
  <2>2. CASE ~(what # "appeared" /\ p \in named)
    <3>1. UNCHANGED <<revision, snapshots>>
      BY <1>1, <2>2 DEF Browse!Callback
    <3> QED BY <2>2, <3>1 DEF BrowseTyped
  <2> QED BY <2>1, <2>2
<1>8. BrowseTyped'
  BY <1>2, <1>3, <1>6, <1>7 DEF BrowseTyped
<1>9. closed' \in BOOLEAN /\ BrowseAsked'
  BY <1>2 DEF BrowseAsked
<1>10. \A q \in Pages, docs \in SUBSET (0 .. MaxDocs) :
          BrowseSeen(q, docs) /\ (q = p => what = "appeared") => BrowseSeen(q, docs)'
  BY <1>2, <1>4 DEF BrowseSeen
<1>11. BrowseCollecting'
  <2> SUFFICES ASSUME request.step = "collecting" PROVE BrowseCollecting'
    BY <1>2 DEF BrowseCollecting
  <2>0. PICK on, docs : on = request.on /\ docs = request.docs
    OBVIOUS
  <2>1. /\ on \in Pages /\ request.revision <= revision[on]
        /\ request.part # 0 => docs # {}
        /\ request.revision = revision[on] => on \in named /\ BrowseSeen(on, docs)
        /\ docs \in SUBSET (0 .. MaxDocs) /\ request.revision \in Nat
        /\ revision[on] \in Nat
    BY <2>0 DEF BrowseCollecting, BrowseAsked, BrowseRequests, BrowseTyped
  <2>2. /\ request.revision <= revision'[on]
        /\ request.revision = revision'[on] => on \in named' /\ BrowseSeen(on, docs)'
    <3>1. CASE on # p
      BY <1>6, <1>7, <1>10, <2>1, <3>1
    <3>2. CASE on = p /\ what # "appeared" /\ p \in named
      BY <1>7, <2>1, <3>2
    <3>3. CASE on = p /\ what = "appeared"
      BY <1>6, <1>7, <1>10, <2>1, <3>3
    <3>4. CASE on = p /\ p \notin named
      BY <1>7, <2>1, <3>4
    <3> QED BY <3>1, <3>2, <3>3, <3>4
  <2> QED BY <1>2, <2>0, <2>1, <2>2 DEF BrowseCollecting
<1>12. ASSUME NEW q \in Pages PROVE BrowseOwned(q)'
  <2>1. BrowseCreated(q)' <=> BrowseCreated(q)
    BY <1>2 DEF BrowseCreated
  <2>2. CASE q = p
    BY <1>2, <1>4, <1>5, <1>6, <2>1, <2>2 DEF BrowseOwned
  <2>3. CASE q # p
    <3>1. news'[q] = news[q]
      BY <1>3, <2>3
    <3> QED BY <1>2, <1>4, <1>6, <2>1, <2>3, <3>1 DEF BrowseOwned
  <2> QED BY <2>2, <2>3
<1>13. ASSUME NEW q \in Pages PROVE BrowseKept(q)'
  <2>1. snapshots[q].docs \in SUBSET (0 .. MaxDocs)
    BY DEF BrowseTyped
  <2>2. CASE q # p
    BY <1>6, <1>7, <1>10, <2>1, <2>2 DEF BrowseKept
  <2>3. CASE q = p
    BY <1>6, <1>7, <1>10, <2>1, <2>3 DEF BrowseKept
  <2> QED BY <2>2, <2>3
<1> QED BY <1>8, <1>9, <1>11, <1>12, <1>13

\* The request is answered, or goes a step on, and the engine's books stay.
LEMMA BrowseQuiet ==
    ASSUME BrowseInv, Browse!BrowserAlone, Browse!EngineAlone, BrowseAsked', BrowseCollecting',
           \A q \in open : BrowseCreated(q) => BrowseCreated(q)'
    PROVE  BrowseInv'
<1> USE DEF BrowseInv, Browse!BrowserAlone, Browse!EngineAlone
<1>1. BrowseTyped' /\ closed' \in BOOLEAN
  BY DEF BrowseTyped
<1>2. \A q \in Pages : BrowseOwned(q)'
  BY DEF BrowseOwned, BrowseGone, BrowseComing
<1>3. \A q \in Pages : BrowseKept(q)'
  BY DEF BrowseKept, BrowseSeen, BrowseMoved
<1> QED BY <1>1, <1>2, <1>3

LEMMA BrowseNewPage ==
    ASSUME BrowseBounded, BrowseApart, BrowseInv, Browse!NewPage
    PROVE  BrowseInv'
<1>1. /\ request.step = "idle" /\ Browse!BrowserAlone /\ Browse!EngineAlone
      /\ \/ request' = [Browse!Idle EXCEPT !.answer = "refused"]
         \/ request' = [Browse!Idle EXCEPT !.step = "creating"]
  BY DEF Browse!NewPage, Browse!At, Browse!Answer
<1>2. Browse!Idle \in BrowseRequests /\ Browse!Idle.answer = "" /\ ~Browse!Idle.acted
  BY BrowseIdle DEF Browse!Idle
<1>3. CASE request' = [Browse!Idle EXCEPT !.answer = "refused"]
  <2>1. "refused" \in Browse!Answers
    BY DEF Browse!Answers
  <2>2. BrowseAsked' /\ BrowseCollecting'
    BY <1>3, <2>1, BrowseAnswers DEF BrowseAsked, BrowseCollecting
  <2> QED BY <1>1, <2>2, BrowseQuiet DEF BrowseCreated
<1>4. CASE request' = [Browse!Idle EXCEPT !.step = "creating"]
  <2>1. /\ request' \in BrowseRequests /\ request'.step = "creating"
        /\ request'.answer = "" /\ ~request'.acted
    BY <1>2, <1>4 DEF BrowseRequests
  <2>2. BrowseAsked' /\ BrowseCollecting'
    BY <2>1 DEF BrowseAsked, BrowseCollecting
  <2> QED BY <1>1, <2>2, BrowseQuiet DEF BrowseCreated
<1> QED BY <1>1, <1>3, <1>4

LEMMA BrowseCreatedStep ==
    ASSUME BrowseBounded, BrowseApart, BrowseInv, Browse!Created
    PROVE  BrowseInv'
<1> USE DEF BrowseInv
<1>0. PICK p : p = request.on
  OBVIOUS
<1>1. /\ request.step = "created" /\ p \in Pages /\ news[p] = <<>>
      /\ Browse!BrowserAlone /\ UNCHANGED <<revision, snapshots, versions, closed>>
      /\ \/ p \in open /\ Browse!Bound(p) /\ Browse!Answer("done")
         \/ p \notin open /\ Browse!Answer("error") /\ UNCHANGED <<bound, named, ending>>
  BY <1>0 DEF Browse!Created, Browse!At, BrowseAsked
<1>2. /\ request' \in BrowseRequests /\ request'.step = "idle"
      /\ request'.answer \in {"done", "error"} /\ ~request'.acted
  BY <1>1, BrowseAnswers DEF Browse!Answer, Browse!Answers
<1>3. BrowseAsked' /\ BrowseCollecting'
  BY <1>2 DEF BrowseAsked, BrowseCollecting
<1>4. \A q : BrowseCreated(q) => q = p
  BY <1>0 DEF BrowseCreated
<1>5. /\ bound \subseteq bound' /\ bound' \subseteq named' /\ named' \subseteq Pages
      /\ named \subseteq named' /\ named' \subseteq named \cup bound'
      /\ named' \subseteq named \cup (open \cap {p})
      /\ ending \subseteq ending' /\ ending' \subseteq Pages
      /\ p \in named \/ p \notin open \/ p \in bound' \cup ending'
      /\ Cardinality(bound') <= MaxPages
  <2>1. CASE p \in open /\ Browse!Bound(p)
    BY <1>1, <2>1, BrowseBinds
  <2>2. CASE p \notin open /\ UNCHANGED <<bound, named, ending>>
    BY <2>2 DEF BrowseTyped
  <2> QED BY <1>1, <2>1, <2>2
<1>6. BrowseTyped' /\ closed' \in BOOLEAN
  BY <1>1, <1>5 DEF BrowseTyped, Browse!BrowserAlone
<1>7. ASSUME NEW q \in Pages PROVE BrowseOwned(q)'
  <2>1. BrowseComing(q)' <=> BrowseComing(q)
    BY <1>1 DEF BrowseComing, Browse!BrowserAlone
  <2>2. BrowseGone(q)' <=> BrowseGone(q)
    BY <1>1 DEF BrowseGone, Browse!BrowserAlone
  <2>3. p \in open /\ p \in named => p \in bound
    BY <1>1 DEF BrowseOwned
  <2> QED BY <1>1, <1>4, <1>5, <2>1, <2>2, <2>3 DEF BrowseOwned, Browse!BrowserAlone
<1>8. \A q \in Pages : BrowseKept(q)'
  BY <1>1, <1>5 DEF BrowseKept, BrowseSeen, BrowseMoved, Browse!BrowserAlone
<1> QED BY <1>3, <1>6, <1>7, <1>8

\* What a snapshot under way has seen, of a page and documents that are given.
LEMMA BrowseCollects ==
    ASSUME NEW p \in Pages, NEW docs, request'.on = p, request'.docs = docs,
           request'.revision <= revision'[p],
           request'.part # 0 => docs # {},
           request'.revision = revision'[p] => p \in named' /\ BrowseSeen(p, docs)'
    PROVE  BrowseCollecting'
<1>1. BrowseSeen(request.on, request.docs)' <=> BrowseSeen(p, docs)'
  BY DEF BrowseSeen, BrowseMoved
<1> QED BY <1>1 DEF BrowseCollecting

LEMMA BrowseLook ==
    ASSUME BrowseBounded, BrowseApart, BrowseInv, NEW p \in Pages, Browse!Look(p)
    PROVE  BrowseInv'
<1> USE DEF BrowseInv
<1>1. /\ request.step = "idle" /\ p \in bound /\ p \in open /\ versions < MaxVersions
      /\ Browse!Invalidated(p) /\ versions' = versions + 1
      /\ UNCHANGED <<open, doc, news, bound, named, ending, closed>>
      /\ request' = [Browse!Idle EXCEPT !.step = "collecting", !.on = p,
                          !.revision = revision[p] + 1, !.version = versions + 1]
  BY DEF Browse!Look, Browse!At, Browse!Owned, Browse!BrowserAlone
<1>2. Browse!Idle \in BrowseRequests /\ Browse!Idle.answer = "" /\ ~Browse!Idle.acted
      /\ Browse!Idle.part = 0 /\ Browse!Idle.docs = {}
  BY BrowseIdle DEF Browse!Idle
<1>3. /\ revision' \in [Pages -> Nat] /\ revision'[p] = revision[p] + 1
      /\ snapshots' \in [Pages -> [version : 0 .. MaxVersions, docs : SUBSET (0 .. MaxDocs)]]
      /\ snapshots'[p].version = 0
      /\ \A q \in Pages \ {p} : revision'[q] = revision[q] /\ snapshots'[q] = snapshots[q]
  BY <1>1, BrowseInvalidates
<1>4. revision[p] + 1 \in Nat /\ versions + 1 \in 0 .. MaxVersions
  BY <1>1 DEF BrowseTyped, BrowseBounded
<1>5. /\ request' \in BrowseRequests /\ request'.step = "collecting" /\ request'.on = p
      /\ request'.revision = revision[p] + 1 /\ request'.part = 0 /\ request'.docs = {}
      /\ request'.answer = "" /\ request'.acted = Browse!Idle.acted
  BY <1>1, <1>2, <1>4 DEF BrowseRequests
<1>6. BrowseTyped' /\ closed' \in BOOLEAN
  BY <1>1, <1>3, <1>4 DEF BrowseTyped
<1>7. BrowseAsked'
  BY <1>2, <1>5 DEF BrowseAsked
<1>8. BrowseCollecting'
  <2>1. p \in named' /\ BrowseSeen(p, {})'
    BY <1>1 DEF BrowseSeen, BrowseTyped
  <2>2. request'.revision <= revision'[p]
    <3>1. PICK n : n = revision[p] + 1
      OBVIOUS
    <3>2. n \in Nat /\ request'.revision = n /\ revision'[p] = n
      BY <1>3, <1>4, <1>5, <3>1, Zenon
    <3>3. n <= n
      BY <3>2
    <3> QED BY <3>2, <3>3, Zenon
  <2> QED BY <1>5, <2>1, <2>2, BrowseCollects
<1>9. \A q \in Pages : BrowseOwned(q)'
  BY <1>1 DEF BrowseOwned, BrowseGone, BrowseComing, BrowseCreated
<1>10. \A q \in Pages : BrowseKept(q)'
  BY <1>1, <1>3 DEF BrowseKept, BrowseSeen, BrowseMoved
<1> QED BY <1>6, <1>7, <1>8, <1>9, <1>10

LEMMA BrowseCollect ==
    ASSUME BrowseBounded, BrowseApart, BrowseInv, Browse!Collect
    PROVE  BrowseInv'
<1> USE DEF BrowseInv
<1>1. /\ request.step = "collecting" /\ request.part < 2
      /\ Browse!BrowserAlone /\ Browse!EngineAlone
      /\ \/ /\ request.on \in open
            /\ request' = [request EXCEPT !.part = request.part + 1,
                                !.docs = request.docs \cup {doc[request.on]}]
         \/ request' = [Browse!Idle EXCEPT !.answer = "error"]
  BY DEF Browse!Collect, Browse!At, Browse!Parts, Browse!Answer
<1>2. \A q : ~BrowseCreated(q)
  BY <1>1 DEF BrowseCreated
<1>3. CASE request' = [Browse!Idle EXCEPT !.answer = "error"]
  <2>1. "error" \in Browse!Answers
    BY DEF Browse!Answers
  <2>2. BrowseAsked' /\ BrowseCollecting'
    BY <1>3, <2>1, BrowseAnswers DEF BrowseAsked, BrowseCollecting
  <2> QED BY <1>1, <1>2, <2>2, BrowseQuiet
<1>4. CASE /\ request.on \in open
           /\ request' = [request EXCEPT !.part = request.part + 1,
                               !.docs = request.docs \cup {doc[request.on]}]
  <2>0. PICK p, n, docs : p = request.on /\ n = request.part /\ docs = request.docs
    OBVIOUS
  <2>1. PICK d : d = doc[p]
    OBVIOUS
  <2>2. /\ request \in BrowseRequests /\ request.answer = "" /\ ~request.acted
        /\ p \in Pages /\ d \in 0 .. MaxDocs /\ request.revision <= revision[p]
        /\ n \in 0 .. 2 /\ n < 2 /\ docs \in SUBSET (0 .. MaxDocs)
        /\ request.revision = revision[p] => p \in named /\ BrowseSeen(p, docs)
        /\ request' = [request EXCEPT !.part = n + 1, !.docs = docs \cup {d}]
    BY <1>1, <1>4, <2>0, <2>1
       DEF BrowseAsked, BrowseCollecting, BrowseTyped, BrowseRequests
  <2>3. n + 1 \in 0 .. 2 /\ docs \cup {d} \in SUBSET (0 .. MaxDocs)
    <3>1. n \in 0 .. 2 /\ n < 2 /\ docs \in SUBSET (0 .. MaxDocs) /\ d \in 0 .. MaxDocs
      BY <2>2, Zenon
    <3> QED BY <3>1
  <2>4. /\ request' \in BrowseRequests /\ request'.step = "collecting"
        /\ request'.on = p /\ request'.revision = request.revision
        /\ request'.docs = docs \cup {d}
        /\ request'.answer = "" /\ request'.acted = request.acted
    BY <1>1, <2>0, <2>2, <2>3 DEF BrowseRequests
  <2>5. BrowseAsked'
    BY <2>2, <2>4 DEF BrowseAsked
  <2>6. /\ UNCHANGED <<open, doc, news, named, revision>> /\ p \in open /\ d = doc[p]
    BY <1>1, <1>4, <2>0, <2>1 DEF Browse!BrowserAlone, Browse!EngineAlone
  <2>7. BrowseSeen(p, docs) => BrowseSeen(p, docs \cup {d})'
    BY <2>6 DEF BrowseSeen, BrowseMoved
  <2>8. BrowseCollecting'
    BY <2>2, <2>4, <2>6, <2>7, BrowseCollects
  <2> QED BY <1>1, <1>2, <2>5, <2>8, BrowseQuiet
<1> QED BY <1>1, <1>3, <1>4

LEMMA BrowseCollected ==
    ASSUME BrowseBounded, BrowseApart, BrowseInv, Browse!Collected
    PROVE  BrowseInv'
<1> USE DEF BrowseInv
<1>0. PICK p : p = request.on
  OBVIOUS
<1>1. /\ request.step = "collecting" /\ request.part = 2
      /\ UNCHANGED <<open, doc, news, bound, named, ending, revision, versions, closed>>
      /\ \/ Browse!Answer("error") /\ UNCHANGED snapshots
         \/ /\ revision[p] = request.revision /\ Browse!Answer("done")
            /\ snapshots' = [snapshots EXCEPT
                   ![p] = [version |-> request.version, docs |-> request.docs]]
  BY <1>0 DEF Browse!Collected, Browse!At, Browse!Parts, Browse!BrowserAlone
<1>2. /\ request' \in BrowseRequests /\ request'.step = "idle"
      /\ request'.answer \in {"done", "error"} /\ ~request'.acted
  BY <1>1, BrowseAnswers DEF Browse!Answer, Browse!Answers
<1>3. BrowseAsked' /\ BrowseCollecting'
  BY <1>2 DEF BrowseAsked, BrowseCollecting
<1>a. PICK docs, version : docs = request.docs /\ version = request.version
  OBVIOUS
<1>4. /\ p \in Pages /\ docs # {}
      /\ revision[p] = request.revision => p \in named /\ BrowseSeen(p, docs)
      /\ version \in 0 .. MaxVersions /\ docs \in SUBSET (0 .. MaxDocs)
  <2>1. request \in BrowseRequests
    BY DEF BrowseAsked
  <2> QED BY <1>0, <1>1, <1>a, <2>1, 2 # 0 DEF BrowseCollecting, BrowseRequests
<1>5. BrowseTyped' /\ closed' \in BOOLEAN
  <2>1. [version |-> version, docs |-> docs]
            \in [version : 0 .. MaxVersions, docs : SUBSET (0 .. MaxDocs)]
    BY <1>4
  <2>2. snapshots' \in [Pages -> [version : 0 .. MaxVersions, docs : SUBSET (0 .. MaxDocs)]]
    BY <1>1, <1>a, <2>1 DEF BrowseTyped
  <2> QED BY <1>1, <2>2 DEF BrowseTyped
<1>6. \A q \in Pages : BrowseOwned(q)'
  BY <1>1 DEF BrowseOwned, BrowseGone, BrowseComing, BrowseCreated
<1>7. ASSUME NEW q \in Pages PROVE BrowseKept(q)'
  <2>1. CASE snapshots'[q] = snapshots[q]
    BY <1>1, <2>1 DEF BrowseKept, BrowseSeen, BrowseMoved
  <2>2. CASE /\ q = p /\ revision[p] = request.revision
             /\ snapshots'[q] = [version |-> version, docs |-> docs]
    BY <1>1, <1>4, <2>2 DEF BrowseKept, BrowseSeen, BrowseMoved
  <2> QED BY <1>1, <1>a, <2>1, <2>2 DEF BrowseTyped
<1> QED BY <1>3, <1>5, <1>6, <1>7

LEMMA BrowseAct ==
    ASSUME BrowseBounded, BrowseApart, BrowseInv, NEW p \in Pages, NEW v, NEW d,
           Browse!Act(p, v, d)
    PROVE  BrowseInv'
<1> USE DEF BrowseInv
<1>1. /\ request.step = "idle" /\ Browse!BrowserAlone /\ Browse!EngineAlone
      /\ \/ request' = [Browse!Idle EXCEPT !.answer = "refused"]
         \/ /\ snapshots[p].version = v /\ d \in snapshots[p].docs
            /\ request' = [Browse!Idle EXCEPT !.step = "checking", !.on = p, !.version = v,
                                !.docs = {d}]
  BY DEF Browse!Act, Browse!At, Browse!Answer
<1>2. \A q : ~BrowseCreated(q)
  BY <1>1 DEF BrowseCreated
<1>3. CASE request' = [Browse!Idle EXCEPT !.answer = "refused"]
  <2>1. "refused" \in Browse!Answers
    BY DEF Browse!Answers
  <2>2. BrowseAsked' /\ BrowseCollecting'
    BY <1>3, <2>1, BrowseAnswers DEF BrowseAsked, BrowseCollecting
  <2> QED BY <1>1, <1>2, <2>2, BrowseQuiet
<1>4. CASE /\ snapshots[p].version = v /\ d \in snapshots[p].docs
           /\ request' = [Browse!Idle EXCEPT !.step = "checking", !.on = p, !.version = v,
                               !.docs = {d}]
  <2>1. v \in 0 .. MaxVersions /\ {d} \in SUBSET (0 .. MaxDocs)
    BY <1>4 DEF BrowseTyped
  <2>2. Browse!Idle \in BrowseRequests /\ Browse!Idle.answer = "" /\ ~Browse!Idle.acted
    BY BrowseIdle DEF Browse!Idle
  <2>3. /\ request' \in BrowseRequests /\ request'.step = "checking" /\ request'.on = p
        /\ request'.answer = "" /\ request'.acted = Browse!Idle.acted
    BY <1>4, <2>1, <2>2 DEF BrowseRequests
  <2>4. BrowseAsked' /\ BrowseCollecting'
    BY <2>2, <2>3 DEF BrowseAsked, BrowseCollecting
  <2> QED BY <1>1, <1>2, <2>4, BrowseQuiet
<1> QED BY <1>1, <1>3, <1>4

LEMMA BrowseCheck ==
    ASSUME BrowseBounded, BrowseApart, BrowseInv, Browse!Check
    PROVE  BrowseInv'
<1> USE DEF BrowseInv
<1>1. /\ request.step = "checking" /\ Browse!BrowserAlone /\ Browse!EngineAlone
      /\ \/ request' = [Browse!Idle EXCEPT !.answer = "refused"]
         \/ request' = [request EXCEPT !.step = "acting"]
  BY DEF Browse!Check, Browse!At, Browse!Answer
<1>2. \A q : ~BrowseCreated(q)
  BY <1>1 DEF BrowseCreated
<1>3. CASE request' = [Browse!Idle EXCEPT !.answer = "refused"]
  <2>1. "refused" \in Browse!Answers
    BY DEF Browse!Answers
  <2>2. BrowseAsked' /\ BrowseCollecting'
    BY <1>3, <2>1, BrowseAnswers DEF BrowseAsked, BrowseCollecting
  <2> QED BY <1>1, <1>2, <2>2, BrowseQuiet
<1>4. CASE request' = [request EXCEPT !.step = "acting"]
  <2>1. /\ request \in BrowseRequests /\ request.answer = "" /\ ~request.acted
        /\ request.on \in Pages
    BY <1>1 DEF BrowseAsked
  <2>2. /\ request' \in BrowseRequests /\ request'.step = "acting"
        /\ request'.on = request.on /\ request'.answer = ""
        /\ request'.acted = request.acted
    BY <1>4, <2>1 DEF BrowseRequests
  <2>3. BrowseAsked' /\ BrowseCollecting'
    BY <2>1, <2>2 DEF BrowseAsked, BrowseCollecting
  <2> QED BY <1>1, <1>2, <2>3, BrowseQuiet
<1> QED BY <1>1, <1>3, <1>4

LEMMA BrowseDo ==
    ASSUME BrowseBounded, BrowseApart, BrowseInv, Browse!Do
    PROVE  BrowseInv'
<1> USE DEF BrowseInv
<1>1. /\ request.step = "acting" /\ Browse!BrowserAlone /\ Browse!EngineAlone
      /\ \/ \E a \in {"done", "toolarge"} :
               request' = [Browse!Idle EXCEPT !.answer = a, !.acted = TRUE]
         \/ \E b \in BOOLEAN :
               request' = [Browse!Idle EXCEPT !.answer = "unknown", !.acted = b]
  BY Zenon DEF Browse!Do, Browse!At
<1>2. \A q : ~BrowseCreated(q)
  BY <1>1 DEF BrowseCreated
<1>3. {"done", "toolarge", "unknown"} \subseteq Browse!Answers /\ TRUE \in BOOLEAN
  BY DEF Browse!Answers
<1>4. /\ request' \in BrowseRequests /\ request'.step = "idle"
      /\ request'.answer \in {"done", "toolarge", "unknown"}
  <2>1. ASSUME NEW a \in {"done", "toolarge"},
               request' = [Browse!Idle EXCEPT !.answer = a, !.acted = TRUE]
        PROVE  /\ request' \in BrowseRequests /\ request'.step = "idle"
               /\ request'.answer = a
    <3>1. a \in Browse!Answers
      BY <1>3
    <3>2. /\ [Browse!Idle EXCEPT !.answer = a, !.acted = TRUE] \in BrowseRequests
          /\ [Browse!Idle EXCEPT !.answer = a, !.acted = TRUE].step = "idle"
          /\ [Browse!Idle EXCEPT !.answer = a, !.acted = TRUE].answer = a
      BY <1>3, <3>1, BrowseDone, Zenon
    <3> QED BY <2>1, <3>2, Zenon
  <2>2. ASSUME NEW b \in BOOLEAN,
               request' = [Browse!Idle EXCEPT !.answer = "unknown", !.acted = b]
        PROVE  /\ request' \in BrowseRequests /\ request'.step = "idle"
               /\ request'.answer = "unknown"
    <3>1. "unknown" \in Browse!Answers
      BY <1>3
    <3>2. /\ [Browse!Idle EXCEPT !.answer = "unknown", !.acted = b] \in BrowseRequests
          /\ [Browse!Idle EXCEPT !.answer = "unknown", !.acted = b].step = "idle"
          /\ [Browse!Idle EXCEPT !.answer = "unknown", !.acted = b].answer = "unknown"
      BY <3>1, BrowseDone, Zenon
    <3> QED BY <2>2, <3>2, Zenon
  <2>3. CASE \E b \in BOOLEAN :
                request' = [Browse!Idle EXCEPT !.answer = "unknown", !.acted = b]
    BY <2>2, <2>3
  <2>4. CASE \E a \in {"done", "toolarge"} :
                request' = [Browse!Idle EXCEPT !.answer = a, !.acted = TRUE]
    BY <2>1, <2>4
  <2> QED BY <1>1, <2>3, <2>4
<1>5. BrowseAsked' /\ BrowseCollecting'
  BY <1>4 DEF BrowseAsked, BrowseCollecting
<1> QED BY <1>1, <1>2, <1>5, BrowseQuiet

LEMMA BrowseCloseEngine ==
    ASSUME BrowseBounded, BrowseApart, BrowseInv, Browse!CloseEngine
    PROVE  BrowseInv'
<1> USE DEF BrowseInv
<1>1. /\ request.step = "idle" /\ closed' = TRUE /\ Browse!Answer("done")
      /\ snapshots' = [p \in Pages |-> Browse!NoSnapshot]
      /\ open' = {} /\ bound' = {} /\ named' = {} /\ ending' = {}
      /\ news' = [p \in Pages |-> <<>>] /\ UNCHANGED <<doc, revision, versions>>
  BY DEF Browse!CloseEngine, Browse!At
<1>2. /\ request' \in BrowseRequests /\ request'.step = "idle"
      /\ request'.answer = "done" /\ ~request'.acted
  BY <1>1, BrowseAnswers DEF Browse!Answer, Browse!Answers
<1>3. BrowseAsked' /\ BrowseCollecting'
  BY <1>2 DEF BrowseAsked, BrowseCollecting
<1>4. BrowseTyped'
  <2>1. /\ Browse!NoSnapshot \in [version : 0 .. MaxVersions, docs : SUBSET (0 .. MaxDocs)]
        /\ <<>> \in Seq(BrowseNews)
    BY DEF BrowseBounded, Browse!NoSnapshot
  <2>2. /\ snapshots' \in [Pages -> [version : 0 .. MaxVersions, docs : SUBSET (0 .. MaxDocs)]]
        /\ news' \in [Pages -> Seq(BrowseNews)]
    BY <1>1, <2>1
  <2>3. Cardinality(bound') <= MaxPages
    BY <1>1, FS_EmptySet DEF BrowseBounded
  <2> QED BY <1>1, <2>2, <2>3 DEF BrowseTyped
<1>5. closed' \in BOOLEAN
  BY <1>1, Zenon
<1>6. \A q \in Pages : BrowseOwned(q)'
  BY <1>1 DEF BrowseOwned, BrowseGone
<1>7. \A q \in Pages : BrowseKept(q)'
  BY <1>1 DEF BrowseKept, Browse!NoSnapshot
<1> QED BY <1>3, <1>4, <1>5, <1>6, <1>7

LEMMA BrowseStutter ==
    ASSUME BrowseInv, UNCHANGED browseVars
    PROVE  BrowseInv'
<1> USE DEF BrowseInv, browseVars
<1>1. BrowseTyped' /\ closed' \in BOOLEAN /\ BrowseAsked' /\ BrowseCollecting'
  BY DEF BrowseTyped, BrowseAsked, BrowseCollecting, BrowseSeen, BrowseMoved
<1>2. \A q \in Pages : BrowseOwned(q)'
  BY DEF BrowseOwned, BrowseGone, BrowseComing, BrowseCreated
<1>3. \A q \in Pages : BrowseKept(q)'
  BY DEF BrowseKept, BrowseSeen, BrowseMoved
<1> QED BY <1>1, <1>2, <1>3

LEMMA BrowsePreserved ==
    ASSUME BrowseBounded, BrowseApart, BrowseInv, [Browse!Next]_browseVars
    PROVE  BrowseInv'
<1>1. ASSUME NEW p \in Pages,
             \/ Browse!Popup(p) \/ Browse!Navigate(p) \/ Browse!Close(p)
             \/ Browse!Closing(p) \/ Browse!Create(p) \/ Browse!Goto(p)
      PROVE  BrowseInv'
  BY <1>1, BrowsePagesStep, BrowseCreate, BrowseGoto
<1>2. ASSUME NEW p \in Pages, Browse!Callback(p) \/ Browse!Look(p)
      PROVE  BrowseInv'
  BY <1>2, BrowseCallback, BrowseLook
<1>3. ASSUME NEW p \in Pages, NEW v \in 1 .. versions, NEW d \in 0 .. MaxDocs,
             Browse!Act(p, v, d)
      PROVE  BrowseInv'
  BY <1>3, BrowseAct
<1>4. CASE \/ Browse!NewPage \/ Browse!Created \/ Browse!Collect \/ Browse!Collected
           \/ Browse!Check \/ Browse!Do \/ Browse!CloseEngine
  BY <1>4, BrowseNewPage, BrowseCreatedStep, BrowseCollect, BrowseCollected, BrowseCheck,
     BrowseDo, BrowseCloseEngine
<1>5. CASE UNCHANGED browseVars
  BY <1>5, BrowseStutter
<1> QED BY <1>1, <1>2, <1>3, <1>4, <1>5 DEF Browse!Next

LEMMA BrowseImplies ==
    ASSUME BrowseBounded, BrowseInv
    PROVE  Browse!TypeOK /\ Browse!PagesAreTrue
<1> USE DEF BrowseInv
<1>1. Browse!TypeOK
  <2>1. request.answer \in Browse!Answers /\ request.version \in 0 .. MaxVersions
    BY DEF BrowseAsked, BrowseRequests
  <2>2. \A p \in Pages : \A i \in DOMAIN news[p] : news[p][i] \in {"appeared", "navigated", "closed"}
    BY DEF BrowseTyped, BrowseNews
  <2> QED BY <2>1, <2>2 DEF Browse!TypeOK, BrowseTyped
<1>2. Browse!SnapshotsAreCurrent
  <2> SUFFICES ASSUME NEW p \in Pages, snapshots[p].version # 0
               PROVE  (snapshots[p].docs = {doc[p]} /\ p \in open) \/ news[p] # <<>>
    BY DEF Browse!SnapshotsAreCurrent
  <2>1. snapshots[p].docs # {} /\ BrowseSeen(p, snapshots[p].docs)
    BY DEF BrowseKept
  <2>2. CASE BrowseMoved(p)
    BY <2>2 DEF BrowseMoved
  <2>3. CASE snapshots[p].docs \subseteq {doc[p]} /\ p \in open
    BY <2>1, <2>3
  <2> QED BY <2>1, <2>2, <2>3 DEF BrowseSeen
<1>3. Browse!PagesAreOwned
  <2>1. \A p \in Pages : BrowseComing(p) => news[p] # <<>>
    BY DEF BrowseComing
  <2>2. \A p \in open : p \in bound \cup ending \/ news[p] # <<>> \/ BrowseCreated(p)
    BY <2>1 DEF BrowseOwned, BrowseTyped
  <2> QED BY <2>2, BrowseCardinality DEF Browse!PagesAreOwned, BrowseTyped, BrowseCreated, Browse!At
<1>4. Browse!RefusedDidNothing
  BY DEF Browse!RefusedDidNothing, BrowseAsked
<1> QED BY <1>1, <1>2, <1>3, <1>4 DEF Browse!PagesAreTrue

-----------------------------------------------------------------------------
(* The desktop console: who may send input, and until when (DesktopControl).  *)

DeskBounded == MaxInputs \in Nat /\ Sessions # {}
DeskApart == {"none", "upstream"} \cap (Workflows \cup DeskCalls) = {}

DeskRecords ==
    [owner : Workflows \cup {"none"}, listed : BOOLEAN, armed : BOOLEAN, fresh : BOOLEAN,
     closed : BOOLEAN, expired : BOOLEAN, epoch : Nat]
DeskStages ==
    {"new", "entered", "inside", "dispatched", "leasing", "checking", "sending", "finishing",
     "done"}
DeskCallRecords ==
    [kind : Desk!Kinds, on : Sessions, epoch : Nat, pressed : BOOLEAN, inputs : 0 .. MaxInputs,
     pc : DeskStages]

DeskTypedSessions ==
    /\ session \in [Sessions -> DeskRecords] /\ overtaken \subseteq DeskCalls
    /\ armedBy \in [Sessions -> DeskCalls \cup {"none"}]
DeskTypedCalls ==
    /\ deskCall \in [DeskCalls -> DeskCallRecords]
    /\ stage \in [Workflows -> {"active", "closing", "closed"}]
    /\ writer \in [Workflows -> DeskCalls \cup {"none"}]
    /\ deskLease \in DeskCalls \cup {"none", "upstream"}
    /\ claim \in Workflows \cup {"none"} /\ late \in [DeskCalls -> Nat]

\* Who armed a session has its answer, and was not overtaken.
DeskListed(u) ==
    /\ session[u].listed => session[u].owner \in Workflows
    /\ armedBy[u] \in DeskCalls =>
           deskCall[armedBy[u]].pc = "done" /\ armedBy[u] \notin overtaken

DeskHasArm(c) == session[deskCall[c].on].armed /\ session[deskCall[c].on].fresh

\* A call that was overtaken read an older epoch; a writer has its workflow's
\* lock, and who checks or sends the desktop, and for what it sends the window;
\* who sent an event too late finds that out at its next check.
DeskCalling(c) ==
    /\ deskCall[c].pc = "new" => c \notin overtaken /\ ~deskCall[c].pressed /\ late[c] = 0
    /\ Desk!Running(c) =>
           /\ Desk!Wf(c) \in Workflows
           /\ deskCall[c].epoch <= session[deskCall[c].on].epoch
           /\ c \in overtaken => deskCall[c].epoch < session[deskCall[c].on].epoch
    /\ Desk!Inside(c) /\ Desk!Writes(c) => writer[Desk!Wf(c)] = c
    /\ deskCall[c].pc = "dispatched" => Desk!Writes(c)
    /\ deskCall[c].pc \in {"leasing", "checking", "sending", "finishing"} =>
           deskCall[c].kind = "act"
    /\ deskCall[c].pc \in {"checking", "sending"} => deskLease = c
    /\ deskCall[c].pressed => deskCall[c].pc \in {"checking", "sending"}
    /\ deskCall[c].pressed \/ deskCall[c].pc = "sending" =>
           claim = Desk!Wf(c) /\ stage[Desk!Wf(c)] # "closed"
    /\ late[c] # 0 =>
           /\ late[c] = 1 /\ deskCall[c].pc \in {"checking", "finishing", "done"}
           /\ deskCall[c].pc = "checking" => c \in overtaken \/ ~DeskHasArm(c)

DeskInv ==
    /\ DeskTypedSessions /\ DeskTypedCalls
    /\ \A u \in Sessions : DeskListed(u)
    /\ \A c \in DeskCalls : DeskCalling(c)

\* What a step does to the sessions, whatever else it does: epochs grow, who is
\* overtaken was running on a session whose epoch grew, and only a call that is
\* answered has armed one.
DeskQuieter ==
    /\ DeskTypedSessions'
    /\ \A u \in Sessions :
          /\ session[u].owner # "none" => session'[u].owner = session[u].owner
          /\ session'[u].listed => session[u].listed \/ session'[u].owner \in Workflows
          /\ session[u].epoch <= session'[u].epoch
          /\ armedBy'[u] \in DeskCalls => \/ armedBy'[u] = armedBy[u]
                                          \/ /\ deskCall'[armedBy'[u]].pc = "done"
                                             /\ armedBy'[u] \notin overtaken'
    /\ overtaken \subseteq overtaken'
    /\ \A c \in overtaken' \ overtaken :
          /\ Desk!Running(c)
          /\ session[deskCall[c].on].epoch < session'[deskCall[c].on].epoch

DeskDisarms(u) ==
    session'[u].armed /\ session'[u].fresh => session[u].armed /\ session[u].fresh

\* The step is not one of call d, and takes nothing that d holds.
DeskKeeps(d) ==
    /\ deskCall'[d] = deskCall[d] /\ late'[d] = late[d]
    /\ \A w \in Workflows : writer[w] = d => writer'[w] = d
    /\ deskLease = d => deskLease' = d /\ claim' = claim
    /\ \A w \in Workflows :
          stage'[w] = "closed" => stage[w] = "closed" \/ ~(Desk!Inside(d) /\ Desk!Wf(d) = w)
    /\ deskCall[d].pc = "checking" => DeskDisarms(deskCall[d].on)

LEMMA DeskBooks ==
    ASSUME DeskInv, DeskQuieter,
           \A d \in DeskCalls : deskCall[d].pc = "done" => deskCall'[d].pc = "done"
    PROVE  \A u \in Sessions : DeskListed(u)'
<1> SUFFICES ASSUME NEW u \in Sessions PROVE DeskListed(u)'
  OBVIOUS
<1> USE DEF DeskInv
<1>1. session'[u].listed => session'[u].owner \in Workflows
  <2>1. DeskListed(u) /\ DeskTypedSessions /\ DeskTypedSessions'
    BY DEF DeskQuieter
  <2>2. /\ session[u].owner # "none" => session'[u].owner = session[u].owner
        /\ session'[u].listed => session[u].listed \/ session'[u].owner \in Workflows
    BY DEF DeskQuieter
  <2>3. session[u].listed => session[u].owner \in Workflows
    BY <2>1 DEF DeskListed
  <2>4. session'[u].owner \in Workflows \cup {"none"}
    BY <2>1 DEF DeskTypedSessions, DeskRecords
  <2> QED BY <2>2, <2>3, <2>4
<1>2. ASSUME armedBy'[u] \in DeskCalls
      PROVE  deskCall'[armedBy'[u]].pc = "done" /\ armedBy'[u] \notin overtaken'
  <2>1. PICK a : a = armedBy'[u]
    OBVIOUS
  <2>2. CASE a = armedBy[u]
    <3>1. deskCall[a].pc = "done" /\ a \notin overtaken /\ a \in DeskCalls
      BY <1>2, <2>1, <2>2 DEF DeskListed
    <3>2. ~Desk!Running(a)
      BY <3>1 DEF Desk!Running
    <3> QED BY <2>1, <3>1, <3>2 DEF DeskQuieter
  <2>3. CASE deskCall'[a].pc = "done" /\ a \notin overtaken'
    BY <2>1, <2>3
  <2> QED BY <1>2, <2>1, <2>2, <2>3 DEF DeskQuieter
<1> QED BY <1>1, <1>2 DEF DeskListed

LEMMA DeskOther ==
    ASSUME DeskApart, DeskInv, DeskQuieter, NEW d \in DeskCalls, DeskKeeps(d)
    PROVE  DeskCalling(d)'
<1> USE DEF DeskInv
<1>0. PICK r, u, e : r = deskCall[d] /\ u = r.on /\ e = r.epoch
  OBVIOUS
<1>1. /\ deskCall[d] = r /\ deskCall'[d] = r /\ late'[d] = late[d] /\ r \in DeskCallRecords
      /\ u \in Sessions /\ e \in Nat /\ r.on = u /\ r.epoch = e
      /\ session[u].epoch \in Nat /\ session'[u].epoch \in Nat
      /\ session[u].owner \in Workflows \cup {"none"}
  BY <1>0 DEF DeskKeeps, DeskTypedCalls, DeskTypedSessions, DeskCallRecords, DeskRecords,
     DeskQuieter
<1>2. /\ Desk!Running(d)' <=> Desk!Running(d)
      /\ Desk!Inside(d)' <=> Desk!Inside(d)
      /\ Desk!Writes(d)' <=> Desk!Writes(d)
  BY <1>1 DEF Desk!Running, Desk!Inside, Desk!Writes
<1>3. /\ DeskCalling(d) /\ Desk!Wf(d) = session[u].owner /\ Desk!Wf(d)' = session'[u].owner
  BY <1>1 DEF Desk!Wf
<1>4. /\ d \in overtaken => d \in overtaken'
      /\ session[u].epoch <= session'[u].epoch
      /\ d \in overtaken' /\ d \notin overtaken =>
             Desk!Running(d) /\ session[u].epoch < session'[u].epoch
      /\ session[u].owner # "none" => session'[u].owner = session[u].owner
  BY <1>1 DEF DeskQuieter
<1>5. r.pc = "new" => d \notin overtaken' /\ ~r.pressed /\ late'[d] = 0
  BY <1>1, <1>3, <1>4 DEF DeskCalling, Desk!Running
<1>6. Desk!Running(d) => /\ session[u].owner \in Workflows
                         /\ session'[u].owner = session[u].owner
                         /\ e <= session'[u].epoch
                         /\ d \in overtaken' => e < session'[u].epoch
  <2> SUFFICES ASSUME Desk!Running(d)
               PROVE  /\ session[u].owner \in Workflows
                      /\ session'[u].owner = session[u].owner
                      /\ e <= session'[u].epoch
                      /\ d \in overtaken' => e < session'[u].epoch
    OBVIOUS
  <2>1. session[u].owner \in Workflows /\ e <= session[u].epoch
        /\ (d \in overtaken => e < session[u].epoch)
    BY <1>1, <1>3 DEF DeskCalling
  <2>2. session'[u].owner = session[u].owner
    BY <1>4, <2>1 DEF DeskApart
  <2> QED BY <1>1, <1>4, <2>1, <2>2
<1>7. Desk!Inside(d) => Desk!Running(d)
  BY DEF Desk!Inside
<1>8. Desk!Inside(d) /\ Desk!Writes(d) => writer'[session'[u].owner] = d
  BY <1>3, <1>6, <1>7 DEF DeskCalling, DeskKeeps
<1>9. r.pc \in {"checking", "sending"} => deskLease' = d
  BY <1>1, <1>3 DEF DeskCalling, DeskKeeps
<1>10. r.pressed \/ r.pc = "sending" =>
          claim' = session'[u].owner /\ stage'[session'[u].owner] # "closed"
  <2> SUFFICES ASSUME r.pressed \/ r.pc = "sending"
               PROVE  claim' = session'[u].owner /\ stage'[session'[u].owner] # "closed"
    OBVIOUS
  <2>1. r.pc \in {"checking", "sending"} /\ claim = session[u].owner
        /\ stage[session[u].owner] # "closed"
    BY <1>1, <1>3 DEF DeskCalling
  <2>2. Desk!Running(d) /\ Desk!Inside(d)
    BY <1>1, <2>1 DEF Desk!Running, Desk!Inside
  <2>3. claim' = claim /\ session'[u].owner = session[u].owner
        /\ session[u].owner \in Workflows
    BY <1>1, <1>3, <1>6, <2>1, <2>2 DEF DeskCalling, DeskKeeps
  <2>4. stage'[session[u].owner] # "closed"
    BY <1>3, <2>1, <2>2, <2>3 DEF DeskKeeps
  <2> QED BY <2>1, <2>3, <2>4
<1>11. late'[d] # 0 =>
          /\ late'[d] = 1 /\ r.pc \in {"checking", "finishing", "done"}
          /\ r.pc = "checking" => d \in overtaken' \/ ~(session'[u].armed /\ session'[u].fresh)
  BY <1>1, <1>3, <1>4 DEF DeskCalling, DeskKeeps, DeskHasArm, DeskDisarms
<1>12. /\ r.pc = "dispatched" => Desk!Writes(d)
       /\ r.pc \in {"leasing", "checking", "sending", "finishing"} => r.kind = "act"
       /\ r.pressed => r.pc \in {"checking", "sending"}
  BY <1>1, <1>3 DEF DeskCalling
<1> QED BY <1>1, <1>2, <1>3, <1>5, <1>6, <1>8, <1>9, <1>10, <1>11, <1>12
        DEF DeskCalling, DeskHasArm

LEMMA DeskInitInv ==
    ASSUME DeskBounded, DeskApart, Desk!Init
    PROVE  DeskInv
<1> USE DEF Desk!Init, Desk!NoOne
<1>1. DeskTypedSessions
  <2>1. [owner |-> "none", listed |-> FALSE, armed |-> FALSE, fresh |-> FALSE,
         closed |-> FALSE, expired |-> FALSE, epoch |-> 0] \in DeskRecords
    BY Z3 DEF DeskRecords
  <2> QED BY <2>1 DEF DeskTypedSessions
<1>2. PICK u : u = CHOOSE v \in Sessions : TRUE
  OBVIOUS
<1>3. u \in Sessions
  BY <1>2 DEF DeskBounded
<1>4. deskCall = [c \in DeskCalls |-> [kind |-> "view", on |-> u, epoch |-> 0,
                                       pressed |-> FALSE, inputs |-> 0, pc |-> "new"]]
  BY <1>2
<1>5. [kind |-> "view", on |-> u, epoch |-> 0, pressed |-> FALSE, inputs |-> 0, pc |-> "new"]
          \in DeskCallRecords
  BY <1>3 DEF DeskCallRecords, Desk!Kinds, DeskStages, DeskBounded
<1>6. DeskTypedCalls
  <2>1. deskCall \in [DeskCalls -> DeskCallRecords]
    BY <1>4, <1>5
  <2> QED BY <2>1 DEF DeskTypedCalls
<1>7. \A v \in Sessions : DeskListed(v)
  BY DEF DeskListed, DeskApart
<1>8. \A c \in DeskCalls : DeskCalling(c)
  BY <1>4 DEF DeskCalling, Desk!Running, Desk!Inside
<1> QED BY <1>1, <1>6, <1>7, <1>8 DEF DeskInv

\* Sessions that are stopped, and that leave the table.
LEMMA DeskAfter ==
    ASSUME DeskTypedSessions, NEW S, NEW close \in BOOLEAN, NEW G
    PROVE  /\ Desk!After(S, close, G) \in [Sessions -> DeskRecords]
           /\ \A u \in Sessions :
                 /\ Desk!After(S, close, G)[u].owner = session[u].owner
                 /\ Desk!After(S, close, G)[u].listed => session[u].listed
                 /\ u \in S => /\ ~Desk!After(S, close, G)[u].armed
                               /\ Desk!After(S, close, G)[u].epoch = session[u].epoch + 1
                 /\ u \notin S =>
                        /\ Desk!After(S, close, G)[u].epoch = session[u].epoch
                        /\ Desk!After(S, close, G)[u].armed = session[u].armed
                        /\ Desk!After(S, close, G)[u].fresh = session[u].fresh
<1>1. ASSUME NEW s \in DeskRecords
      PROVE  /\ Desk!Stopped(s, close) \in DeskRecords
             /\ Desk!Stopped(s, close).owner = s.owner
             /\ Desk!Stopped(s, close).listed = s.listed
             /\ ~Desk!Stopped(s, close).armed /\ Desk!Stopped(s, close).epoch = s.epoch + 1
  <2> DEFINE c == s.closed \/ close
  <2>1. c \in BOOLEAN /\ s.epoch \in Nat /\ FALSE \in BOOLEAN /\ s.epoch + 1 \in Nat
    BY DEF DeskRecords
  <2>2. Desk!Stopped(s, close) = [s EXCEPT !.armed = FALSE, !.fresh = FALSE,
                                           !.epoch = s.epoch + 1, !.closed = c]
    BY DEF Desk!Stopped
  <2> HIDE DEF c
  <2> QED BY <2>1, <2>2 DEF DeskRecords
<1>2. ASSUME NEW r \in DeskRecords, NEW b \in BOOLEAN
      PROVE  /\ [r EXCEPT !.listed = b] \in DeskRecords
             /\ [r EXCEPT !.listed = b].owner = r.owner
             /\ [r EXCEPT !.listed = b].armed = r.armed
             /\ [r EXCEPT !.listed = b].fresh = r.fresh
             /\ [r EXCEPT !.listed = b].epoch = r.epoch
             /\ [r EXCEPT !.listed = b].listed = b
  BY DEF DeskRecords
<1> DEFINE base(u) == IF u \in S THEN Desk!Stopped(session[u], close) ELSE session[u]
<1>3. ASSUME NEW u \in Sessions
      PROVE  /\ base(u) \in DeskRecords /\ base(u).owner = session[u].owner
             /\ base(u).listed = session[u].listed
             /\ u \in S => ~base(u).armed /\ base(u).epoch = session[u].epoch + 1
             /\ u \notin S => base(u) = session[u]
  BY <1>1 DEF DeskTypedSessions
<1> DEFINE left(u) == base(u).listed /\ u \notin G
<1>4. Desk!After(S, close, G) = [u \in Sessions |-> [base(u) EXCEPT !.listed = left(u)]]
  BY DEF Desk!After
<1>5. \A u \in Sessions : left(u) \in BOOLEAN /\ (left(u) => session[u].listed)
  BY <1>3
<1> HIDE DEF base, left
<1>6. \A u \in Sessions : Desk!After(S, close, G)[u] = [base(u) EXCEPT !.listed = left(u)]
  BY <1>4
<1>7. Desk!After(S, close, G) \in [Sessions -> DeskRecords]
  BY <1>2, <1>3, <1>4, <1>5
<1>8. ASSUME NEW u \in Sessions
      PROVE  /\ Desk!After(S, close, G)[u].owner = session[u].owner
             /\ Desk!After(S, close, G)[u].listed => session[u].listed
             /\ u \in S => /\ ~Desk!After(S, close, G)[u].armed
                           /\ Desk!After(S, close, G)[u].epoch = session[u].epoch + 1
             /\ u \notin S =>
                    /\ Desk!After(S, close, G)[u].epoch = session[u].epoch
                    /\ Desk!After(S, close, G)[u].armed = session[u].armed
                    /\ Desk!After(S, close, G)[u].fresh = session[u].fresh
  <2>1. PICK r, b : r = base(u) /\ b = left(u)
    OBVIOUS
  <2>2. r \in DeskRecords /\ b \in BOOLEAN /\ (b => session[u].listed)
    BY <1>3, <1>5, <2>1
  <2>3. Desk!After(S, close, G)[u] = [r EXCEPT !.listed = b]
    BY <1>6, <2>1
  <2>4. PICK a : a = Desk!After(S, close, G)[u]
    OBVIOUS
  <2>5. /\ a.owner = r.owner /\ a.armed = r.armed /\ a.fresh = r.fresh
        /\ a.epoch = r.epoch /\ a.listed = b
    BY <1>2, <2>2, <2>3, <2>4
  <2>6. /\ r.owner = session[u].owner
        /\ u \in S => ~r.armed /\ r.epoch = session[u].epoch + 1
        /\ u \notin S => r = session[u]
    BY <1>3, <2>1
  <2> QED BY <2>2, <2>4, <2>5, <2>6, Zenon
<1> QED BY <1>7, <1>8

LEMMA DeskOvertakes ==
    ASSUME DeskApart, DeskTypedSessions, NEW S, Desk!Overtake(S)
    PROVE  /\ overtaken' \subseteq DeskCalls /\ overtaken \subseteq overtaken'
           /\ armedBy' \in [Sessions -> DeskCalls \cup {"none"}]
           /\ \A u \in Sessions : armedBy'[u] \in DeskCalls => armedBy'[u] = armedBy[u]
           /\ \A c \in overtaken' \ overtaken :
                 c \in DeskCalls /\ Desk!Running(c) /\ deskCall[c].on \in S
BY DEF Desk!Overtake, Desk!NoOne, DeskTypedSessions, DeskApart

LEMMA DeskStops ==
    ASSUME DeskApart, DeskInv, NEW S, NEW close \in BOOLEAN, NEW G,
           Desk!StopAll(S, close, G)
    PROVE  DeskQuieter /\ \A u \in Sessions : DeskDisarms(u)
<1>1. /\ session' = Desk!After(S, close, G) /\ Desk!Overtake(S)
      /\ DeskTypedSessions /\ DeskTypedCalls
  BY DEF Desk!StopAll, DeskInv
<1>2. /\ session' \in [Sessions -> DeskRecords]
      /\ \A u \in Sessions :
            /\ session'[u].owner = session[u].owner
            /\ session'[u].listed => session[u].listed
            /\ u \in S => ~session'[u].armed /\ session'[u].epoch = session[u].epoch + 1
            /\ u \notin S => /\ session'[u].epoch = session[u].epoch
                             /\ session'[u].armed = session[u].armed
                             /\ session'[u].fresh = session[u].fresh
  BY <1>1, DeskAfter
<1>3. /\ overtaken' \subseteq DeskCalls /\ overtaken \subseteq overtaken'
      /\ armedBy' \in [Sessions -> DeskCalls \cup {"none"}]
      /\ \A u \in Sessions : armedBy'[u] \in DeskCalls => armedBy'[u] = armedBy[u]
      /\ \A c \in overtaken' \ overtaken :
            c \in DeskCalls /\ Desk!Running(c) /\ deskCall[c].on \in S
  BY <1>1, DeskOvertakes
<1>4. \A u \in Sessions : session[u].epoch \in Nat
  BY <1>1 DEF DeskTypedSessions, DeskRecords
<1>5. \A u \in Sessions : session[u].epoch <= session'[u].epoch
  BY <1>2, <1>4
<1>6. \A c \in overtaken' \ overtaken :
         /\ Desk!Running(c)
         /\ session[deskCall[c].on].epoch < session'[deskCall[c].on].epoch
  <2> SUFFICES ASSUME NEW c \in overtaken' \ overtaken
               PROVE  /\ Desk!Running(c)
                      /\ session[deskCall[c].on].epoch < session'[deskCall[c].on].epoch
    OBVIOUS
  <2>1. PICK v : v = deskCall[c].on
    OBVIOUS
  <2>2. v \in Sessions /\ v \in S /\ Desk!Running(c)
    BY <1>1, <1>3, <2>1 DEF DeskTypedCalls, DeskCallRecords
  <2> QED BY <1>2, <1>4, <2>1, <2>2
<1>7. DeskTypedSessions'
  BY <1>2, <1>3 DEF DeskTypedSessions
<1>8. DeskQuieter
  BY <1>2, <1>3, <1>5, <1>6, <1>7 DEF DeskQuieter
<1>9. \A u \in Sessions : DeskDisarms(u)
  BY <1>2 DEF DeskDisarms
<1> QED BY <1>8, <1>9

LEMMA DeskNothing ==
    ASSUME DeskInv, Desk!NothingStopped
    PROVE  DeskQuieter /\ \A u \in Sessions : DeskDisarms(u)
<1>1. UNCHANGED <<session, overtaken, armedBy>> /\ DeskTypedSessions
  BY DEF Desk!NothingStopped, DeskInv
<1>2. \A u \in Sessions : session[u].epoch \in Nat
  BY <1>1 DEF DeskTypedSessions, DeskRecords
<1> QED BY <1>1, <1>2 DEF DeskQuieter, DeskDisarms, DeskTypedSessions

\* No call moves.
LEMMA DeskCallless ==
    ASSUME DeskApart, DeskInv, DeskQuieter, DeskTypedCalls', UNCHANGED <<deskCall, late>>,
           \A d \in DeskCalls : DeskKeeps(d)
    PROVE  DeskInv'
<1>1. DeskTypedSessions'
  BY DEF DeskQuieter
<1>2. \A u \in Sessions : DeskListed(u)'
  BY DeskBooks
<1>3. \A d \in DeskCalls : DeskCalling(d)'
  BY DeskOther
<1> QED BY <1>1, <1>2, <1>3 DEF DeskInv

LEMMA DeskRevoke ==
    ASSUME DeskApart, DeskInv, Desk!Prune \/ \E w \in Workflows : Desk!Revoke(w)
    PROVE  DeskInv'
<1>1. PICK S, G : Desk!StopAll(S, TRUE, G)
  BY DEF Desk!Revoke, Desk!Prune
<1>2. UNCHANGED <<deskCall, stage, writer, deskLease, claim, late>>
  BY DEF Desk!Revoke, Desk!Prune
<1>3. DeskQuieter /\ \A u \in Sessions : DeskDisarms(u)
  BY <1>1, DeskStops
<1>4. DeskTypedCalls'
  BY <1>2 DEF DeskInv, DeskTypedCalls
<1>5. \A d \in DeskCalls : DeskKeeps(d)
  BY <1>2, <1>3 DEF DeskKeeps, DeskInv, DeskTypedCalls, DeskCallRecords
<1> QED BY <1>2, <1>3, <1>4, <1>5, DeskCallless

LEMMA DeskLapse ==
    ASSUME DeskApart, DeskInv, NEW u \in Sessions, Desk!Lapse(u) \/ Desk!Expire(u)
    PROVE  DeskInv'
<1>1. /\ UNCHANGED <<deskCall, stage, writer, deskLease, claim, overtaken, armedBy, late>>
      /\ \/ session' = [session EXCEPT ![u].fresh = FALSE]
         \/ session' = [session EXCEPT ![u].expired = TRUE]
  BY DEF Desk!Lapse, Desk!Expire
<1>2. DeskTypedSessions /\ DeskTypedCalls
  BY DEF DeskInv
<1>3. \A v \in Sessions : session[v].epoch \in Nat
  BY <1>2 DEF DeskTypedSessions, DeskRecords
<1>4. /\ session' \in [Sessions -> DeskRecords]
      /\ \A v \in Sessions : /\ session'[v].owner = session[v].owner
                             /\ session'[v].listed = session[v].listed
                             /\ session'[v].epoch = session[v].epoch
                             /\ session'[v].fresh => session[v].fresh
                             /\ session'[v].armed = session[v].armed
  <2>1. PICK r : r = session[u]
    OBVIOUS
  <2>2. r \in DeskRecords /\ FALSE \in BOOLEAN /\ TRUE \in BOOLEAN
    BY <1>2, <2>1 DEF DeskTypedSessions
  <2>3. PICK q : q = session'[u]
    OBVIOUS
  <2>4. /\ \A v \in Sessions \ {u} : session'[v] = session[v]
        /\ q = [r EXCEPT !.fresh = FALSE] \/ q = [r EXCEPT !.expired = TRUE]
        /\ session' = [session EXCEPT ![u] = q]
    BY <1>1, <1>2, <2>1, <2>3 DEF DeskTypedSessions
  <2>5. /\ q \in DeskRecords /\ q.owner = r.owner /\ q.listed = r.listed
        /\ q.epoch = r.epoch /\ (q.fresh => r.fresh) /\ q.armed = r.armed
    <3>1. CASE q = [r EXCEPT !.fresh = FALSE]
      <4>1. q \in DeskRecords
        BY <2>2, <3>1 DEF DeskRecords
      <4>2. /\ q.owner = r.owner /\ q.listed = r.listed /\ q.epoch = r.epoch
            /\ ~q.fresh /\ q.armed = r.armed
        BY <2>2, <3>1 DEF DeskRecords
      <4> QED BY <4>1, <4>2
    <3>2. CASE q = [r EXCEPT !.expired = TRUE]
      <4>1. q \in DeskRecords
        BY <2>2, <3>2 DEF DeskRecords
      <4>2. /\ q.owner = r.owner /\ q.listed = r.listed /\ q.epoch = r.epoch
            /\ q.fresh = r.fresh /\ q.armed = r.armed
        BY <2>2, <3>2 DEF DeskRecords
      <4> QED BY <4>1, <4>2
    <3> QED BY <2>4, <3>1, <3>2
  <2>6. session' \in [Sessions -> DeskRecords]
    BY <1>2, <2>4, <2>5 DEF DeskTypedSessions
  <2> QED BY <2>1, <2>3, <2>4, <2>5, <2>6
<1>5. DeskQuieter /\ \A v \in Sessions : DeskDisarms(v)
  BY <1>1, <1>2, <1>3, <1>4 DEF DeskQuieter, DeskDisarms, DeskTypedSessions
<1>6. DeskTypedCalls'
  BY <1>1, <1>2 DEF DeskTypedCalls
<1>7. \A d \in DeskCalls : DeskKeeps(d)
  BY <1>1, <1>2, <1>5 DEF DeskKeeps, DeskTypedCalls, DeskCallRecords
<1> QED BY <1>1, <1>5, <1>6, <1>7, DeskCallless

LEMMA DeskFence ==
    ASSUME DeskApart, DeskInv, NEW w \in Workflows, Desk!Fence(w)
    PROVE  DeskInv'
<1>1. /\ stage' = [stage EXCEPT ![w] = "closing"] /\ Desk!NothingStopped
      /\ UNCHANGED <<deskCall, writer, deskLease, claim, late>>
  BY DEF Desk!Fence
<1>2. DeskQuieter /\ \A u \in Sessions : DeskDisarms(u)
  BY <1>1, DeskNothing
<1>3. DeskTypedCalls'
  BY <1>1 DEF DeskInv, DeskTypedCalls
<1>4. \A d \in DeskCalls : DeskKeeps(d)
  BY <1>1, <1>2 DEF DeskKeeps, DeskInv, DeskTypedCalls, DeskCallRecords
<1> QED BY <1>1, <1>2, <1>3, <1>4, DeskCallless

LEMMA DeskCloseOwner ==
    ASSUME DeskApart, DeskInv, NEW w \in Workflows, Desk!CloseOwner(w)
    PROVE  DeskInv'
<1>0. PICK S, G : Desk!StopAll(S, TRUE, G)
  BY DEF Desk!CloseOwner
<1>1. /\ stage' = [stage EXCEPT ![w] = "closed"]
      /\ claim' = (IF claim = w THEN "none" ELSE claim)
      /\ \A d \in DeskCalls : ~(Desk!Inside(d) /\ Desk!Wf(d) = w)
      /\ UNCHANGED <<deskCall, writer, deskLease, late>>
  BY DEF Desk!CloseOwner, Desk!NoOne
<1>2. DeskQuieter /\ \A u \in Sessions : DeskDisarms(u)
  BY <1>0, DeskStops
<1>3. DeskTypedCalls'
  BY <1>1 DEF DeskInv, DeskTypedCalls
<1>4. ASSUME NEW d \in DeskCalls PROVE DeskCalling(d)'
  <2>1. CASE deskCall[d].pressed \/ deskCall[d].pc = "sending"
    <3>1. claim = Desk!Wf(d) /\ Desk!Inside(d)
      BY <2>1 DEF DeskInv, DeskCalling, Desk!Inside, Desk!Running
    <3>2. claim' = claim
      BY <1>1, <3>1
    <3> QED BY <1>1, <1>2, <3>2, DeskOther DEF DeskKeeps, DeskInv, DeskTypedCalls, DeskCallRecords
  <2>2. CASE ~(deskCall[d].pressed \/ deskCall[d].pc = "sending")
    <3>1. DeskTypedCalls /\ DeskTypedSessions /\ DeskTypedSessions' /\ DeskCalling(d)
      BY <1>2 DEF DeskInv, DeskQuieter
    <3>2. PICK u : u = deskCall[d].on
      OBVIOUS
    <3>3. /\ u \in Sessions /\ deskCall[d].epoch \in Nat /\ session[u].epoch \in Nat
          /\ session'[u].epoch \in Nat /\ deskCall'[d] = deskCall[d] /\ late'[d] = late[d]
          /\ session[u].owner # "none" => session'[u].owner = session[u].owner
          /\ session[u].epoch <= session'[u].epoch /\ DeskDisarms(u)
          /\ d \in overtaken => d \in overtaken'
          /\ d \in overtaken' /\ d \notin overtaken =>
                 Desk!Running(d) /\ session[u].epoch < session'[u].epoch
      BY <1>1, <1>2, <3>1, <3>2 DEF DeskTypedCalls, DeskTypedSessions, DeskRecords,
         DeskCallRecords, DeskQuieter
    <3>4. "none" \notin Workflows
      BY DEF DeskApart
    <3>5. /\ Desk!Running(d)' <=> Desk!Running(d)
          /\ Desk!Inside(d)' <=> Desk!Inside(d)
          /\ Desk!Writes(d)' <=> Desk!Writes(d)
          /\ Desk!Wf(d) = session[u].owner /\ Desk!Wf(d)' = session'[u].owner
      BY <1>1, <3>2, <3>3 DEF Desk!Running, Desk!Inside, Desk!Writes, Desk!Wf
    <3>6. Desk!Running(d) =>
             /\ session[u].owner \in Workflows /\ session'[u].owner = session[u].owner
             /\ deskCall[d].epoch <= session'[u].epoch
             /\ d \in overtaken' => deskCall[d].epoch < session'[u].epoch
      BY <3>1, <3>2, <3>3, <3>4, <3>5 DEF DeskCalling
    <3>7. Desk!Inside(d) => Desk!Running(d)
      BY DEF Desk!Inside
    <3>8. deskCall[d].pc = "new" => d \notin overtaken'
      BY <3>1, <3>3 DEF DeskCalling, Desk!Running
    <3> QED BY <1>1, <2>2, <3>1, <3>2, <3>3, <3>5, <3>6, <3>7, <3>8
            DEF DeskCalling, DeskHasArm, DeskDisarms
  <2> QED BY <2>1, <2>2
<1>5. \A u \in Sessions : DeskListed(u)'
  BY <1>1, <1>2, DeskBooks
<1> QED BY <1>2, <1>3, <1>4, <1>5 DEF DeskInv, DeskQuieter

LEMMA DeskUpstream ==
    ASSUME DeskApart, DeskInv,
           Desk!UpstreamLeaves \/ \E w \in Workflows : Desk!UpstreamHolds(w)
    PROVE  DeskInv'
<1>1. /\ Desk!NothingStopped /\ UNCHANGED <<deskCall, stage, writer, late>>
      /\ deskLease \in {"none", "upstream"} /\ deskLease' \in {"none", "upstream"}
      /\ claim' \in Workflows \/ claim' = claim
  BY DEF Desk!UpstreamLeaves, Desk!UpstreamHolds, Desk!NoOne, Desk!Upstream
<1>2. DeskQuieter /\ \A u \in Sessions : DeskDisarms(u)
  BY <1>1, DeskNothing
<1>3. DeskTypedCalls'
  BY <1>1 DEF DeskInv, DeskTypedCalls
<1>4. \A d \in DeskCalls : DeskKeeps(d)
  BY <1>1, <1>2 DEF DeskKeeps, DeskInv, DeskTypedCalls, DeskCallRecords, DeskApart
<1> QED BY <1>1, <1>2, <1>3, <1>4, DeskCallless

LEMMA DeskOpen ==
    ASSUME DeskApart, DeskInv, NEW w \in Workflows, NEW u \in Sessions, Desk!Open(w, u)
    PROVE  DeskInv'
<1>1. PICK S : /\ Desk!Overtake(S)
               /\ \/ session' = Desk!After(S, TRUE, S)
                  \/ session' = [Desk!After(S, TRUE, S) EXCEPT ![u].owner = w, ![u].listed = TRUE]
  BY DEF Desk!Open
<1>2. /\ UNCHANGED <<deskCall, stage, writer, deskLease, claim, late>>
      /\ session[u].owner = "none"
  BY DEF Desk!Open, Desk!NoOne
<1>3. DeskTypedSessions /\ DeskTypedCalls
  BY DEF DeskInv
<1>4. PICK after : after = Desk!After(S, TRUE, S)
  OBVIOUS
<1>5. /\ after \in [Sessions -> DeskRecords]
      /\ \A v \in Sessions :
            /\ after[v].owner = session[v].owner
            /\ after[v].listed => session[v].listed
            /\ v \in S => ~after[v].armed /\ after[v].epoch = session[v].epoch + 1
            /\ v \notin S => /\ after[v].epoch = session[v].epoch
                             /\ after[v].armed = session[v].armed
                             /\ after[v].fresh = session[v].fresh
  <2>1. PICK close \in BOOLEAN : close = TRUE
    OBVIOUS
  <2>2. after = Desk!After(S, close, S)
    BY <1>4, <2>1
  <2>3. /\ Desk!After(S, close, S) \in [Sessions -> DeskRecords]
        /\ \A v \in Sessions :
              /\ Desk!After(S, close, S)[v].owner = session[v].owner
              /\ Desk!After(S, close, S)[v].listed => session[v].listed
              /\ v \in S => /\ ~Desk!After(S, close, S)[v].armed
                            /\ Desk!After(S, close, S)[v].epoch = session[v].epoch + 1
              /\ v \notin S =>
                     /\ Desk!After(S, close, S)[v].epoch = session[v].epoch
                     /\ Desk!After(S, close, S)[v].armed = session[v].armed
                     /\ Desk!After(S, close, S)[v].fresh = session[v].fresh
    BY <1>3, DeskAfter
  <2> QED BY <2>2, <2>3
<1>6. /\ session' \in [Sessions -> DeskRecords]
      /\ \A v \in Sessions :
            /\ session'[v].owner = after[v].owner \/ (v = u /\ session'[v].owner = w)
            /\ session'[v].listed => after[v].listed \/ session'[v].owner = w
            /\ session'[v].epoch = after[v].epoch
            /\ session'[v].armed = after[v].armed
            /\ session'[v].fresh = after[v].fresh
  <2>1. CASE session' = after
    BY <1>5, <2>1
  <2>2. CASE session' = [after EXCEPT ![u].owner = w, ![u].listed = TRUE]
    <3>1. /\ \A v \in Sessions \ {u} : session'[v] = after[v]
          /\ session'[u] = [after[u] EXCEPT !.owner = w, !.listed = TRUE]
          /\ after[u] \in DeskRecords
      BY <1>5, <2>2
    <3>2. PICK r : r = after[u]
      OBVIOUS
    <3>3. [r EXCEPT !.owner = w, !.listed = TRUE] \in DeskRecords
      BY <3>1, <3>2 DEF DeskRecords
    <3>4. session' \in [Sessions -> DeskRecords]
      BY <1>5, <2>2, <3>1, <3>2, <3>3
    <3>5. /\ session'[u].owner = w /\ session'[u].epoch = r.epoch
          /\ session'[u].armed = r.armed /\ session'[u].fresh = r.fresh
      BY <3>1, <3>2 DEF DeskRecords
    <3> QED BY <3>1, <3>2, <3>4, <3>5
  <2> QED BY <1>1, <1>4, <2>1, <2>2
<1>7. /\ overtaken' \subseteq DeskCalls /\ overtaken \subseteq overtaken'
      /\ armedBy' \in [Sessions -> DeskCalls \cup {"none"}]
      /\ \A v \in Sessions : armedBy'[v] \in DeskCalls => armedBy'[v] = armedBy[v]
      /\ \A c \in overtaken' \ overtaken :
            c \in DeskCalls /\ Desk!Running(c) /\ deskCall[c].on \in S
  BY <1>1, <1>3, DeskOvertakes
<1>8. \A v \in Sessions :
         /\ session[v].epoch \in Nat /\ session[v].epoch <= session'[v].epoch
         /\ v \in S => session[v].epoch < session'[v].epoch
         /\ session[v].owner # "none" => session'[v].owner = session[v].owner
         /\ session'[v].listed => session[v].listed \/ session'[v].owner \in Workflows
         /\ DeskDisarms(v)
  <2>1. \A v \in Sessions : session[v].epoch \in Nat
    BY <1>3 DEF DeskTypedSessions, DeskRecords
  <2>2. \A v \in Sessions : /\ session[v].epoch <= session'[v].epoch
                            /\ v \in S => session[v].epoch < session'[v].epoch
    BY <1>5, <1>6, <2>1
  <2>3. \A v \in Sessions :
           /\ session[v].owner # "none" => session'[v].owner = session[v].owner
           /\ session'[v].listed => session[v].listed \/ session'[v].owner \in Workflows
    BY <1>2, <1>5, <1>6
  <2>4. \A v \in Sessions : DeskDisarms(v)
    BY <1>5, <1>6 DEF DeskDisarms
  <2> QED BY <2>1, <2>2, <2>3, <2>4
<1>9. \A c \in overtaken' \ overtaken :
         /\ Desk!Running(c)
         /\ session[deskCall[c].on].epoch < session'[deskCall[c].on].epoch
  BY <1>3, <1>7, <1>8 DEF DeskTypedCalls, DeskCallRecords
<1>10. DeskTypedSessions'
  BY <1>6, <1>7 DEF DeskTypedSessions
<1>11. DeskQuieter
  BY <1>7, <1>8, <1>9, <1>10 DEF DeskQuieter
<1>12. DeskTypedCalls'
  BY <1>2, <1>3 DEF DeskTypedCalls
<1>13. \A d \in DeskCalls : DeskKeeps(d)
  BY <1>2, <1>3, <1>8 DEF DeskKeeps, DeskTypedCalls, DeskCallRecords
<1> QED BY <1>2, <1>11, <1>12, <1>13, DeskCallless

-----------------------------------------------------------------------------
\* The step is one of call c, which goes on; the others keep what they hold.
LEMMA DeskMoves ==
    ASSUME DeskApart, DeskInv, DeskQuieter, NEW c \in DeskCalls, deskCall[c].pc # "done",
           DeskTypedCalls', \A d \in DeskCalls \ {c} : DeskKeeps(d), DeskCalling(c)'
    PROVE  DeskInv'
<1>1. \A d \in DeskCalls : deskCall[d].pc = "done" => deskCall'[d].pc = "done"
  BY DEF DeskKeeps
<1>2. \A u \in Sessions : DeskListed(u)'
  BY <1>1, DeskBooks
<1>3. \A d \in DeskCalls : DeskCalling(d)'
  BY DeskOther
<1> QED BY <1>2, <1>3 DEF DeskInv, DeskQuieter

\* Call c is answered, and gives back what it holds.
LEMMA DeskEnding ==
    ASSUME DeskApart, DeskInv, DeskQuieter, NEW c \in DeskCalls, Desk!Running(c), Desk!Ends(c),
           \A d \in DeskCalls \ {c} :
               deskCall[d].pc = "checking" => DeskDisarms(deskCall[d].on),
           UNCHANGED <<stage, claim, late>>,
           deskLease' = deskLease \/ (deskLease = c /\ deskLease' = "none")
    PROVE  DeskInv'
<1>1. PICK q : q = deskCall'[c]
  OBVIOUS
<1>2. /\ DeskTypedCalls /\ DeskCalling(c)
      /\ deskCall' = [deskCall EXCEPT ![c] = [deskCall[c] EXCEPT !.pc = "done", !.pressed = FALSE]]
      /\ writer' = [w \in Workflows |-> IF writer[w] = c THEN "none" ELSE writer[w]]
  BY DEF DeskInv, Desk!Ends, Desk!Leaves, Desk!NoOne, DeskTypedCalls
<1>3. PICK r : r = deskCall[c]
  OBVIOUS
<1>4. r \in DeskCallRecords /\ q = [r EXCEPT !.pc = "done", !.pressed = FALSE]
  BY <1>1, <1>2, <1>3 DEF DeskTypedCalls
<1>5. /\ q \in DeskCallRecords /\ q.pc = "done" /\ ~q.pressed
  <2>1. "done" \in DeskStages /\ FALSE \in BOOLEAN
    BY DEF DeskStages
  <2>2. q \in DeskCallRecords
    BY <1>4, <2>1 DEF DeskCallRecords
  <2>3. q.pc = "done" /\ ~q.pressed
    BY <1>4 DEF DeskCallRecords
  <2> QED BY <2>2, <2>3
<1>6. /\ deskCall' = [deskCall EXCEPT ![c] = q]
      /\ \A d \in DeskCalls \ {c} : deskCall'[d] = deskCall[d]
  BY <1>2, <1>3, <1>4 DEF DeskTypedCalls
<1>7. DeskTypedCalls'
  <2>1. deskCall' \in [DeskCalls -> DeskCallRecords]
    BY <1>2, <1>5, <1>6 DEF DeskTypedCalls
  <2>2. writer' \in [Workflows -> DeskCalls \cup {"none"}]
    BY <1>2 DEF DeskTypedCalls
  <2> QED BY <1>2, <2>1, <2>2 DEF DeskTypedCalls
<1>8. \A d \in DeskCalls \ {c} : DeskKeeps(d)
  BY <1>2, <1>6 DEF DeskKeeps
<1>9. DeskCalling(c)'
  BY <1>1, <1>2, <1>5 DEF DeskCalling, Desk!Running, Desk!Inside
<1>10. deskCall[c].pc # "done"
  BY DEF Desk!Running
<1> QED BY <1>7, <1>8, <1>9, <1>10, DeskMoves

\* Call c goes on to another place inside its workflow, and no session changes.
LEMMA DeskStep ==
    ASSUME DeskApart, DeskInv, Desk!NothingStopped, NEW c \in DeskCalls, Desk!Running(c),
           NEW q \in DeskCallRecords, deskCall' = [deskCall EXCEPT ![c] = q],
           q.on = deskCall[c].on, q.kind = deskCall[c].kind, q.epoch = deskCall[c].epoch,
           q.pc \in {"inside", "dispatched", "leasing", "checking", "sending", "finishing"},
           DeskTypedCalls', UNCHANGED stage,
           \A w \in Workflows : writer[w] # c /\ writer[w] # "none" => writer'[w] = writer[w],
           Desk!Writes(c) => writer'[Desk!Wf(c)] = c,
           \A d \in DeskCalls \ {c} :
               late'[d] = late[d] /\ (deskLease = d => deskLease' = d /\ claim' = claim),
           q.pc # "inside" => Desk!Writes(c),
           q.pc \in {"leasing", "checking", "sending", "finishing"} => q.kind = "act",
           q.pc \in {"checking", "sending"} => deskLease' = c,
           q.pressed => q.pc \in {"checking", "sending"},
           q.pressed \/ q.pc = "sending" =>
               claim' = Desk!Wf(c) /\ stage[Desk!Wf(c)] # "closed",
           late'[c] # 0 => /\ late'[c] = 1 /\ q.pc \in {"checking", "finishing"}
                           /\ q.pc = "checking" => c \in overtaken \/ ~DeskHasArm(c)
    PROVE  DeskInv'
<1>1. DeskQuieter /\ \A u \in Sessions : DeskDisarms(u)
  BY DeskNothing
<1>2. DeskTypedCalls /\ DeskCalling(c) /\ UNCHANGED <<session, overtaken, armedBy>>
  BY DEF DeskInv, Desk!NothingStopped
<1>3. deskCall'[c] = q /\ \A d \in DeskCalls \ {c} : deskCall'[d] = deskCall[d]
  BY <1>2 DEF DeskTypedCalls
<1>4. \A d \in DeskCalls \ {c} : DeskKeeps(d)
  BY <1>1, <1>2, <1>3 DEF DeskKeeps, DeskTypedCalls, DeskCallRecords, DeskApart
<1>5. /\ Desk!Running(c)' /\ Desk!Inside(c)' /\ Desk!Wf(c)' = Desk!Wf(c)
      /\ Desk!Writes(c)' <=> Desk!Writes(c)
      /\ DeskHasArm(c)' <=> DeskHasArm(c)
  BY <1>2, <1>3 DEF Desk!Running, Desk!Inside, Desk!Wf, Desk!Writes, DeskHasArm
<1>6. DeskCalling(c)'
  BY <1>2, <1>3, <1>5 DEF DeskCalling
<1>7. deskCall[c].pc # "done"
  BY DEF Desk!Running
<1> QED BY <1>1, <1>4, <1>6, <1>7, DeskMoves

\* ... with its stage alone.
LEMMA DeskStepTo ==
    ASSUME DeskTypedCalls, NEW c \in DeskCalls, NEW to \in DeskStages, Desk!Step(c, to)
    PROVE  \E q \in DeskCallRecords :
              /\ deskCall' = [deskCall EXCEPT ![c] = q] /\ writer' = writer
              /\ deskCall' \in [DeskCalls -> DeskCallRecords]
              /\ q.on = deskCall[c].on /\ q.kind = deskCall[c].kind
              /\ q.epoch = deskCall[c].epoch /\ q.pc = to
              /\ q.pressed = deskCall[c].pressed /\ q.inputs = deskCall[c].inputs
<1>1. PICK q, r : r = deskCall[c] /\ q = [r EXCEPT !.pc = to]
  OBVIOUS
<1>2. r \in DeskCallRecords
  BY <1>1 DEF DeskTypedCalls
<1>3. /\ q \in DeskCallRecords /\ q.on = r.on /\ q.kind = r.kind /\ q.epoch = r.epoch
      /\ q.pc = to /\ q.pressed = r.pressed /\ q.inputs = r.inputs
  BY <1>1, <1>2 DEF DeskCallRecords
<1>4. deskCall' = [deskCall EXCEPT ![c] = q] /\ writer' = writer
  BY <1>1 DEF Desk!Step, DeskTypedCalls
<1> QED BY <1>1, <1>3, <1>4 DEF DeskTypedCalls

LEMMA DeskEnter ==
    ASSUME DeskApart, DeskInv, NEW c \in DeskCalls, NEW k \in Desk!Kinds, NEW u \in Sessions,
           Desk!Enter(c, k, u)
    PROVE  DeskInv'
<1>1. PICK S : /\ session' = [v \in Sessions |-> Desk!After(S, FALSE, {})[v]]
               /\ Desk!Overtake(S)
               /\ deskCall' = [deskCall EXCEPT ![c] =
                      [@ EXCEPT !.kind = k, !.on = u, !.pc = "entered",
                                !.epoch = session'[u].epoch]]
  BY DEF Desk!Enter
<1>2. /\ deskCall[c].pc = "new" /\ session[u].listed
      /\ UNCHANGED <<stage, writer, deskLease, claim, late>>
      /\ DeskTypedSessions /\ DeskTypedCalls /\ DeskListed(u) /\ DeskCalling(c)
  BY DEF Desk!Enter, DeskInv
<1>3. session' = Desk!After(S, FALSE, {})
  BY <1>1 DEF Desk!After
<1>4. Desk!StopAll(S, FALSE, {})
  BY <1>1, <1>3 DEF Desk!StopAll
<1>5. DeskQuieter /\ \A v \in Sessions : DeskDisarms(v)
  BY <1>4, DeskStops
<1>6. PICK q, r : r = deskCall[c] /\ q = deskCall'[c]
  OBVIOUS
<1>7. PICK e : e = session'[u].epoch
  OBVIOUS
<1>8. r \in DeskCallRecords /\ e \in Nat /\ session'[u].owner \in Workflows
  <2>1. session[u].owner \in Workflows /\ session[u].owner # "none"
    BY <1>2 DEF DeskListed, DeskApart
  <2> QED BY <1>2, <1>5, <1>6, <1>7, <2>1
          DEF DeskQuieter, DeskTypedSessions, DeskTypedCalls, DeskRecords
<1>9. /\ q = [r EXCEPT !.kind = k, !.on = u, !.pc = "entered", !.epoch = e]
      /\ deskCall' = [deskCall EXCEPT ![c] = q]
      /\ \A d \in DeskCalls \ {c} : deskCall'[d] = deskCall[d]
  BY <1>1, <1>2, <1>6, <1>7 DEF DeskTypedCalls
<1>10. /\ q \in DeskCallRecords /\ q.pc = "entered" /\ q.on = u /\ q.epoch = e
       /\ q.pressed = r.pressed
  <2>1. "entered" \in DeskStages
    BY DEF DeskStages
  <2>2. q \in DeskCallRecords
    BY <1>8, <1>9, <2>1 DEF DeskCallRecords
  <2> QED BY <1>8, <1>9, <2>2 DEF DeskCallRecords
<1>11. DeskTypedCalls'
  BY <1>2, <1>9, <1>10 DEF DeskTypedCalls
<1>12. \A d \in DeskCalls \ {c} : DeskKeeps(d)
  BY <1>2, <1>5, <1>9 DEF DeskKeeps, DeskTypedCalls, DeskCallRecords
<1>13. DeskCalling(c)'
  <2>1. c \notin overtaken' /\ ~q.pressed /\ late'[c] = 0
    <3>1. ~Desk!Running(c)
      BY <1>2 DEF Desk!Running
    <3> QED BY <1>2, <1>5, <1>6, <1>10, <3>1 DEF DeskCalling, DeskQuieter
  <2>2. e <= e
    BY <1>8
  <2>3. Desk!Wf(c)' \in Workflows /\ ~Desk!Inside(c)'
    BY <1>6, <1>8, <1>10 DEF Desk!Wf, Desk!Inside
  <2> QED BY <1>6, <1>7, <1>10, <2>1, <2>2, <2>3 DEF DeskCalling
<1> QED BY <1>2, <1>5, <1>11, <1>12, <1>13, DeskMoves

LEMMA DeskAnswered ==
    ASSUME DeskApart, DeskInv, NEW c \in DeskCalls, Desk!Running(c), Desk!Ends(c),
           Desk!NothingStopped \/ \E S, G : \E close \in BOOLEAN : Desk!StopAll(S, close, G),
           UNCHANGED <<stage, claim, late>>,
           deskLease' = deskLease \/ (deskLease = c /\ deskLease' = "none")
    PROVE  DeskInv'
<1>1. DeskQuieter /\ \A u \in Sessions : DeskDisarms(u)
  BY DeskNothing, DeskStops
<1>2. \A d \in DeskCalls : deskCall[d].on \in Sessions
  BY DEF DeskInv, DeskTypedCalls, DeskCallRecords
<1> QED BY <1>1, <1>2, DeskEnding

LEMMA DeskTurned ==
    ASSUME DeskApart, DeskInv, NEW c \in DeskCalls,
           Desk!Turned(c) \/ Desk!Refused(c) \/ Desk!Look(c) \/ Desk!Fail(c)
    PROVE  DeskInv'
<1>1. Desk!Running(c) /\ Desk!Ends(c)
  BY DEF Desk!Turned, Desk!Refused, Desk!Look, Desk!Fail, Desk!Running
<1>2. Desk!NothingStopped \/ \E S, G : \E close \in BOOLEAN : Desk!StopAll(S, close, G)
  <2>1. TRUE \in BOOLEAN /\ FALSE \in BOOLEAN
    OBVIOUS
  <2>2. \/ Desk!NothingStopped
        \/ \E S, G : Desk!StopAll(S, TRUE, G) \/ Desk!StopAll(S, FALSE, G)
    BY Zenon DEF Desk!Turned, Desk!Refused, Desk!Look, Desk!Fail
  <2> QED BY <2>1, <2>2, Zenon
<1>3. /\ UNCHANGED <<stage, claim, late>>
      /\ deskLease' = deskLease \/ (deskLease = c /\ deskLease' = "none")
  BY DEF Desk!Turned, Desk!Refused, Desk!Look, Desk!Fail, Desk!NoOne
<1> QED BY <1>1, <1>2, <1>3, DeskAnswered

LEMMA DeskUse ==
    ASSUME DeskApart, DeskInv, NEW c \in DeskCalls, Desk!Use(c)
    PROVE  DeskInv'
<1>1. /\ deskCall[c].pc = "entered" /\ UNCHANGED <<stage, deskLease, claim, late>>
      /\ DeskTypedCalls /\ DeskTypedSessions /\ DeskCalling(c)
      /\ Desk!Writes(c) => writer[Desk!Wf(c)] = "none"
  BY DEF Desk!Use, Desk!NoOne, DeskInv
<1>2. Desk!Running(c)
  BY <1>1 DEF Desk!Running
<1>3. CASE Desk!Ends(c) /\ Desk!NothingStopped
  BY <1>1, <1>2, <1>3, DeskAnswered
<1>4. CASE Desk!Ends(c) /\ \E S : Desk!StopAll(S, FALSE, {})
  <2>1. \E S, G : \E close \in BOOLEAN : Desk!StopAll(S, close, G)
    BY <1>4, Zenon
  <2> QED BY <1>1, <1>2, <1>4, <2>1, DeskAnswered
<1>5. CASE /\ deskCall' = [deskCall EXCEPT ![c].pc = "inside"]
           /\ writer' = (IF Desk!Writes(c) THEN [writer EXCEPT ![Desk!Wf(c)] = c] ELSE writer)
           /\ Desk!NothingStopped
  <2>1. PICK r, q : r = deskCall[c] /\ q = [r EXCEPT !.pc = "inside"]
    OBVIOUS
  <2>2. r \in DeskCallRecords /\ deskCall' = [deskCall EXCEPT ![c] = q]
    BY <1>1, <1>5, <2>1 DEF DeskTypedCalls
  <2>3. /\ q \in DeskCallRecords /\ q.on = r.on /\ q.kind = r.kind /\ q.epoch = r.epoch
        /\ q.pc = "inside" /\ q.pressed = r.pressed
    <3>1. "inside" \in DeskStages
      BY DEF DeskStages
    <3> QED BY <2>1, <2>2, <3>1 DEF DeskCallRecords
  <2>4. ~r.pressed /\ late[c] = 0
    BY <1>1, <2>1 DEF DeskCalling, DeskTypedCalls
  <2>5. Desk!Wf(c) \in Workflows
    BY <1>1, <1>2 DEF DeskCalling
  <2>6. /\ \A w \in Workflows : writer[w] # c /\ writer[w] # "none" => writer'[w] = writer[w]
        /\ Desk!Writes(c) => writer'[Desk!Wf(c)] = c
        /\ writer' \in [Workflows -> DeskCalls \cup {"none"}]
    BY <1>1, <1>5, <2>5 DEF DeskTypedCalls
  <2>7. DeskTypedCalls'
    BY <1>1, <2>2, <2>3, <2>6 DEF DeskTypedCalls
  <2>8. /\ q.on = deskCall[c].on /\ q.kind = deskCall[c].kind
        /\ q.epoch = deskCall[c].epoch /\ q.pc = "inside" /\ ~q.pressed
    BY <2>1, <2>3, <2>4, Zenon
  <2>9. \A d \in DeskCalls \ {c} :
           late'[d] = late[d] /\ (deskLease = d => deskLease' = d /\ claim' = claim)
    BY <1>1
  <2>10. late'[c] = 0
    BY <1>1, <2>4
  <2>11. q \in DeskCallRecords
    BY <2>3
  <2> QED BY <1>1, <1>2, <1>5, <2>2, <2>6, <2>7, <2>8, <2>9, <2>10, <2>11, DeskStep
<1> QED
  <2>1. \/ Desk!Ends(c) /\ Desk!NothingStopped
        \/ Desk!Ends(c) /\ Desk!StopAll({deskCall[c].on}, FALSE, {})
        \/ /\ deskCall' = [deskCall EXCEPT ![c].pc = "inside"]
           /\ writer' = (IF Desk!Writes(c) THEN [writer EXCEPT ![Desk!Wf(c)] = c] ELSE writer)
           /\ Desk!NothingStopped
    BY Zenon DEF Desk!Use
  <2> QED BY <1>3, <1>4, <1>5, <2>1

LEMMA DeskAdmit ==
    ASSUME DeskApart, DeskInv, NEW c \in DeskCalls, Desk!Admit(c) \/ Desk!Act(c)
    PROVE  DeskInv'
<1>1. PICK to \in {"dispatched", "leasing"} :
          /\ deskCall[c].pc \in {"inside", "dispatched"}
          /\ UNCHANGED <<stage, deskLease, claim, late>>
          /\ Desk!Writes(c) /\ (to = "leasing" => deskCall[c].kind = "act")
          /\ \/ Desk!Step(c, to) /\ Desk!NothingStopped
             \/ Desk!Ends(c) /\ \E S : Desk!StopAll(S, FALSE, {})
  BY Zenon DEF Desk!Admit, Desk!Act, Desk!Writes
<1>2. DeskTypedCalls /\ DeskTypedSessions /\ DeskCalling(c)
  BY DEF DeskInv
<1>3. Desk!Running(c) /\ Desk!Inside(c)
  BY <1>1 DEF Desk!Running, Desk!Inside
<1>4. CASE Desk!Ends(c) /\ \E S : Desk!StopAll(S, FALSE, {})
  <2>1. \E S, G : \E close \in BOOLEAN : Desk!StopAll(S, close, G)
    BY <1>4, Zenon
  <2> QED BY <1>1, <1>3, <1>4, <2>1, DeskAnswered
<1>5. CASE Desk!Step(c, to) /\ Desk!NothingStopped
  <2>1. to \in DeskStages
    BY DEF DeskStages
  <2>2. PICK q \in DeskCallRecords :
              /\ deskCall' = [deskCall EXCEPT ![c] = q] /\ writer' = writer
              /\ deskCall' \in [DeskCalls -> DeskCallRecords]
              /\ q.on = deskCall[c].on /\ q.kind = deskCall[c].kind
              /\ q.epoch = deskCall[c].epoch /\ q.pc = to
              /\ q.pressed = deskCall[c].pressed
    BY <1>2, <1>5, <2>1, DeskStepTo
  <2>3. ~deskCall[c].pressed /\ late[c] = 0 /\ writer[Desk!Wf(c)] = c
    BY <1>1, <1>2, <1>3 DEF DeskCalling, DeskTypedCalls
  <2>4. DeskTypedCalls'
    BY <1>1, <1>2, <2>2 DEF DeskTypedCalls
  <2> QED BY <1>1, <1>3, <1>5, <2>2, <2>3, <2>4, DeskStep
<1> QED BY <1>1, <1>4, <1>5

LEMMA DeskHold ==
    ASSUME DeskApart, DeskInv, NEW c \in DeskCalls, Desk!Hold(c) \/ Desk!Finish(c)
    PROVE  DeskInv'
<1>1. PICK to \in {"checking", "finishing"} :
          /\ deskCall[c].pc \in {"leasing", "checking"} /\ ~deskCall[c].pressed
          /\ late[c] # 0 => to = "finishing"
          /\ deskLease \in {"none", c} /\ deskLease' \in {"none", c}
          /\ to = "checking" => deskLease' = c
          /\ UNCHANGED <<stage, claim, late>>
          /\ Desk!Step(c, to) /\ Desk!NothingStopped
  <2>1. CASE Desk!Hold(c)
    <3>1. deskCall[c].pc = "leasing" /\ ~deskCall[c].pressed /\ late[c] = 0
      BY <2>1 DEF Desk!Hold, DeskInv, DeskCalling, DeskTypedCalls
    <3> QED BY <2>1, <3>1 DEF Desk!Hold, Desk!NoOne
  <2>2. CASE Desk!Finish(c)
    <3>1. deskLease = c
      BY <2>2 DEF Desk!Finish, DeskInv, DeskCalling
    <3> QED BY <2>2, <3>1 DEF Desk!Finish, Desk!NoOne
  <2> QED BY <2>1, <2>2
<1>2. DeskTypedCalls /\ DeskTypedSessions /\ DeskCalling(c)
  BY DEF DeskInv
<1>3. Desk!Running(c) /\ Desk!Inside(c)
  BY <1>1 DEF Desk!Running, Desk!Inside
<1>4. to \in DeskStages
  BY DEF DeskStages
<1>5. PICK q \in DeskCallRecords :
            /\ deskCall' = [deskCall EXCEPT ![c] = q] /\ writer' = writer
            /\ deskCall' \in [DeskCalls -> DeskCallRecords]
            /\ q.on = deskCall[c].on /\ q.kind = deskCall[c].kind
            /\ q.epoch = deskCall[c].epoch /\ q.pc = to
            /\ q.pressed = deskCall[c].pressed
  BY <1>1, <1>2, <1>4, DeskStepTo
<1>6. deskCall[c].kind = "act" /\ Desk!Writes(c) /\ writer[Desk!Wf(c)] = c
      /\ (late[c] # 0 => late[c] = 1)
  BY <1>1, <1>2, <1>3 DEF DeskCalling, Desk!Writes
<1>7. DeskTypedCalls'
  BY <1>1, <1>2, <1>5 DEF DeskTypedCalls
<1>8. ~q.pressed /\ q.pc # "sending" /\ q.pc # "inside"
  BY <1>1, <1>5
<1>9. \A d \in DeskCalls \ {c} :
         late'[d] = late[d] /\ (deskLease = d => deskLease' = d /\ claim' = claim)
  BY <1>1 DEF DeskApart
<1>10. late'[c] # 0 => late'[c] = 1 /\ q.pc = "finishing"
  BY <1>1, <1>5, <1>6
<1> QED BY <1>1, <1>3, <1>5, <1>6, <1>7, <1>8, <1>9, <1>10, DeskStep

LEMMA DeskCheck ==
    ASSUME DeskApart, DeskInv, NEW c \in DeskCalls, Desk!Check(c)
    PROVE  DeskInv'
<1>1. /\ deskCall[c].pc = "checking" /\ stage[Desk!Wf(c)] # "closed"
      /\ claim' = Desk!Wf(c) /\ Desk!Step(c, "sending") /\ Desk!NothingStopped
      /\ UNCHANGED <<stage, deskLease, late>> /\ Desk!Authorized(c)
  BY DEF Desk!Check
<1>2. DeskTypedCalls /\ DeskTypedSessions /\ DeskCalling(c)
  BY DEF DeskInv
<1>3. Desk!Running(c) /\ Desk!Inside(c)
  BY <1>1 DEF Desk!Running, Desk!Inside
<1>4. "sending" \in DeskStages
  BY DEF DeskStages
<1>5. PICK q \in DeskCallRecords :
            /\ deskCall' = [deskCall EXCEPT ![c] = q] /\ writer' = writer
            /\ deskCall' \in [DeskCalls -> DeskCallRecords]
            /\ q.on = deskCall[c].on /\ q.kind = deskCall[c].kind
            /\ q.epoch = deskCall[c].epoch /\ q.pc = "sending"
            /\ q.pressed = deskCall[c].pressed
  BY <1>1, <1>2, <1>4, DeskStepTo
<1>6. /\ deskCall[c].kind = "act" /\ Desk!Writes(c) /\ writer[Desk!Wf(c)] = c
      /\ deskLease = c /\ Desk!Wf(c) \in Workflows
  BY <1>1, <1>2, <1>3 DEF DeskCalling, Desk!Writes
<1>7. DeskTypedCalls'
  BY <1>1, <1>2, <1>5, <1>6 DEF DeskTypedCalls
<1>8. late[c] = 0
  <2>1. DeskHasArm(c)
    BY <1>1, <1>6 DEF Desk!Authorized, Desk!Armed, DeskHasArm
  <2>2. c \notin overtaken
    <3>1. /\ session[deskCall[c].on].epoch = deskCall[c].epoch /\ deskCall[c].epoch \in Nat
      BY <1>1, <1>2 DEF Desk!Authorized, Desk!Current, DeskTypedCalls, DeskCallRecords
    <3>2. c \in overtaken => deskCall[c].epoch < session[deskCall[c].on].epoch
      BY <1>2, <1>3 DEF DeskCalling
    <3> QED BY <3>1, <3>2
  <2> QED BY <1>1, <1>2, <2>1, <2>2 DEF DeskCalling
<1>9. \A d \in DeskCalls \ {c} :
         late'[d] = late[d] /\ (deskLease = d => deskLease' = d /\ claim' = claim)
  BY <1>1, <1>6
<1>10. late'[c] = 0
  BY <1>1, <1>8
<1> QED BY <1>1, <1>3, <1>5, <1>6, <1>7, <1>9, <1>10, DeskStep

LEMMA DeskSend ==
    ASSUME DeskBounded, DeskApart, DeskInv, NEW c \in DeskCalls,
           Desk!Release(c) \/ \E down \in BOOLEAN : Desk!Send(c, down)
    PROVE  DeskInv'
<1>1. /\ deskCall[c].pc = "sending" /\ Desk!NothingStopped
      /\ UNCHANGED <<stage, writer, deskLease, claim>>
      /\ \/ UNCHANGED late
         \/ ~Desk!HasAuthority(c) /\ late' = [late EXCEPT ![c] = @ + 1]
  BY DEF Desk!Release, Desk!Send
<1>2. DeskTypedCalls /\ DeskTypedSessions /\ DeskCalling(c)
  BY DEF DeskInv
<1>3. Desk!Running(c) /\ Desk!Inside(c)
  BY <1>1 DEF Desk!Running, Desk!Inside
<1>4. PICK r : r = deskCall[c]
  OBVIOUS
<1>5. r \in DeskCallRecords
  BY <1>2, <1>4 DEF DeskTypedCalls
<1>6. PICK q \in DeskCallRecords :
         /\ deskCall' = [deskCall EXCEPT ![c] = q] /\ q.on = r.on /\ q.kind = r.kind
         /\ q.epoch = r.epoch /\ q.pc = "checking"
  <2>0. "checking" \in DeskStages /\ FALSE \in BOOLEAN
    BY DEF DeskStages
  <2>1. CASE Desk!Release(c)
    <3>1. PICK p : p = [r EXCEPT !.pc = "checking", !.pressed = FALSE]
      OBVIOUS
    <3>2. deskCall' = [deskCall EXCEPT ![c] = p]
      BY <1>2, <1>4, <2>1, <3>1 DEF Desk!Release, DeskTypedCalls
    <3>3. p \in DeskCallRecords
      BY <1>5, <2>0, <3>1 DEF DeskCallRecords
    <3>4. p.on = r.on /\ p.kind = r.kind /\ p.epoch = r.epoch /\ p.pc = "checking"
      BY <1>5, <3>1 DEF DeskCallRecords
    <3> QED BY <3>2, <3>3, <3>4
  <2>2. ASSUME NEW down \in BOOLEAN, Desk!Send(c, down)
        PROVE  \E q \in DeskCallRecords :
                  /\ deskCall' = [deskCall EXCEPT ![c] = q] /\ q.on = r.on
                  /\ q.kind = r.kind /\ q.epoch = r.epoch /\ q.pc = "checking"
    <3>1. PICK n, b : n = r.inputs + 1 /\ b = (r.pressed \/ down)
      OBVIOUS
    <3>2. PICK p : p = [r EXCEPT !.pc = "checking", !.inputs = n, !.pressed = b]
      OBVIOUS
    <3>3. deskCall' = [deskCall EXCEPT ![c] = p]
      BY <1>2, <1>4, <2>2, <3>1, <3>2 DEF Desk!Send, DeskTypedCalls
    <3>4. n \in 0 .. MaxInputs
      <4>1. r.inputs \in 0 .. MaxInputs /\ r.inputs < MaxInputs
        BY <1>4, <1>5, <2>2 DEF Desk!Send, DeskCallRecords
      <4> QED BY <3>1, <4>1 DEF DeskBounded
    <3>5. b \in BOOLEAN
      BY <3>1, Zenon
    <3>6. p \in DeskCallRecords
      BY <1>5, <2>0, <3>2, <3>4, <3>5 DEF DeskCallRecords
    <3>7. p.on = r.on /\ p.kind = r.kind /\ p.epoch = r.epoch /\ p.pc = "checking"
      BY <1>5, <3>2 DEF DeskCallRecords
    <3> QED BY <3>3, <3>6, <3>7
  <2> QED BY <2>1, <2>2
<1>7. /\ deskCall[c].kind = "act" /\ Desk!Writes(c) /\ writer[Desk!Wf(c)] = c
      /\ deskLease = c /\ late[c] = 0
      /\ claim = Desk!Wf(c) /\ stage[Desk!Wf(c)] # "closed"
  BY <1>1, <1>2, <1>3 DEF DeskCalling, Desk!Writes
<1>8. /\ late' \in [DeskCalls -> Nat] /\ \A d \in DeskCalls \ {c} : late'[d] = late[d]
      /\ late'[c] # 0 => late'[c] = 1 /\ ~Desk!HasAuthority(c)
  BY <1>1, <1>2, <1>7 DEF DeskTypedCalls
<1>9. DeskTypedCalls'
  <2>1. deskCall' \in [DeskCalls -> DeskCallRecords]
    BY <1>2, <1>6 DEF DeskTypedCalls
  <2> QED BY <1>1, <1>2, <1>8, <2>1 DEF DeskTypedCalls
<1>10. ~Desk!HasAuthority(c) => c \in overtaken \/ ~DeskHasArm(c)
  BY DEF Desk!HasAuthority, Desk!Armed, DeskHasArm
<1>11. /\ q.on = deskCall[c].on /\ q.kind = deskCall[c].kind
       /\ q.epoch = deskCall[c].epoch
  BY <1>4, <1>6
<1> QED BY <1>1, <1>3, <1>6, <1>7, <1>8, <1>9, <1>10, <1>11, DeskStep

\* Two writers that are inside are not on the same session.
LEMMA DeskOneWriter ==
    ASSUME DeskInv, NEW c \in DeskCalls, NEW d \in DeskCalls \ {c},
           Desk!Inside(c), Desk!Writes(c), deskCall[d].pc = "checking"
    PROVE  deskCall[d].on # deskCall[c].on
<1>1. DeskCalling(c) /\ DeskCalling(d)
  BY DEF DeskInv
<1>2. Desk!Inside(d) /\ Desk!Writes(d)
  BY <1>1 DEF DeskCalling, Desk!Inside, Desk!Running, Desk!Writes
<1>3. writer[Desk!Wf(c)] = c /\ writer[Desk!Wf(d)] = d
  BY <1>1, <1>2 DEF DeskCalling
<1> QED BY <1>3 DEF Desk!Wf

\* The session of call c is armed, or stays so for longer.
LEMMA DeskRearms ==
    ASSUME DeskApart, DeskInv, NEW c \in DeskCalls, Desk!Inside(c), Desk!Writes(c),
           Desk!Ends(c), UNCHANGED <<stage, deskLease, claim, late, overtaken>>,
           NEW u \in Sessions, u = deskCall[c].on,
           session' \in [Sessions -> DeskRecords],
           \A v \in Sessions \ {u} : session'[v] = session[v],
           session'[u].owner = session[u].owner, session'[u].listed = session[u].listed,
           session'[u].epoch = session[u].epoch,
           \/ armedBy' = armedBy
           \/ armedBy' = [armedBy EXCEPT ![u] = c] /\ c \notin overtaken
    PROVE  DeskInv'
<1>1. DeskTypedSessions /\ DeskTypedCalls
  BY DEF DeskInv
<1>2. Desk!Running(c)
  BY DEF Desk!Inside
<1>3. deskCall'[c].pc = "done"
  BY <1>1 DEF Desk!Ends, DeskTypedCalls, DeskCallRecords
<1>4. /\ armedBy' \in [Sessions -> DeskCalls \cup {"none"}]
      /\ \A v \in Sessions :
            armedBy'[v] = armedBy[v] \/ (armedBy'[v] = c /\ c \notin overtaken)
  BY <1>1 DEF DeskTypedSessions
<1>5. \A v \in Sessions : session[v].epoch \in Nat
  BY <1>1 DEF DeskTypedSessions, DeskRecords
<1>6. \A v \in Sessions : /\ session'[v].owner = session[v].owner
                          /\ session'[v].listed = session[v].listed
                          /\ session'[v].epoch = session[v].epoch
  OBVIOUS
<1>7. \A v \in Sessions : session[v].epoch <= session'[v].epoch
  BY <1>5, <1>6
<1>8. DeskQuieter
  BY <1>1, <1>3, <1>4, <1>6, <1>7 DEF DeskQuieter, DeskTypedSessions
<1>9. \A d \in DeskCalls \ {c} : deskCall[d].pc = "checking" => DeskDisarms(deskCall[d].on)
  <2> SUFFICES ASSUME NEW d \in DeskCalls \ {c}, deskCall[d].pc = "checking"
               PROVE  DeskDisarms(deskCall[d].on)
    OBVIOUS
  <2>1. PICK v : v = deskCall[d].on
    OBVIOUS
  <2>2. v \in Sessions /\ v # u
    BY <1>1, <2>1, DeskOneWriter DEF DeskTypedCalls, DeskCallRecords
  <2> QED BY <2>1, <2>2 DEF DeskDisarms
<1> QED BY <1>2, <1>8, <1>9, DeskEnding

LEMMA DeskArm ==
    ASSUME DeskApart, DeskInv, NEW c \in DeskCalls, Desk!Arm(c)
    PROVE  DeskInv'
<1>1. /\ deskCall[c].pc = "dispatched" /\ deskCall[c].kind = "arm" /\ Desk!Ends(c)
      /\ UNCHANGED <<stage, deskLease, claim, late>>
  BY DEF Desk!Arm
<1>2. DeskTypedSessions /\ DeskTypedCalls /\ DeskCalling(c)
  BY DEF DeskInv
<1>3. Desk!Running(c) /\ Desk!Inside(c) /\ Desk!Writes(c)
  BY <1>1 DEF Desk!Running, Desk!Inside, Desk!Writes
<1>4. CASE Desk!NothingStopped
  BY <1>1, <1>3, <1>4, DeskAnswered
<1>5. CASE /\ Desk!Authorized(c) /\ UNCHANGED overtaken
           /\ session' = [session EXCEPT ![deskCall[c].on].armed = TRUE,
                                         ![deskCall[c].on].fresh = TRUE]
           /\ armedBy' = [armedBy EXCEPT ![deskCall[c].on] = c]
  <2>1. PICK u, r, q : /\ u = deskCall[c].on /\ r = session[u]
                       /\ q = [r EXCEPT !.armed = TRUE, !.fresh = TRUE]
    OBVIOUS
  <2>2. u \in Sessions /\ r \in DeskRecords
    BY <1>2, <2>1 DEF DeskTypedSessions, DeskTypedCalls, DeskCallRecords
  <2>3. session' = [session EXCEPT ![u] = q]
    BY <1>2, <1>5, <2>1, <2>2 DEF DeskTypedSessions
  <2>4. q \in DeskRecords
    <3>1. TRUE \in BOOLEAN
      OBVIOUS
    <3> QED BY <2>1, <2>2, <3>1 DEF DeskRecords
  <2>5. q.owner = r.owner /\ q.listed = r.listed /\ q.epoch = r.epoch
    BY <2>1, <2>2 DEF DeskRecords
  <2>6. /\ session' \in [Sessions -> DeskRecords] /\ session'[u] = q
        /\ \A v \in Sessions \ {u} : session'[v] = session[v]
    BY <1>2, <2>2, <2>3, <2>4 DEF DeskTypedSessions
  <2>7. c \notin overtaken
    <3>1. /\ session[deskCall[c].on].epoch = deskCall[c].epoch /\ deskCall[c].epoch \in Nat
      BY <1>2, <1>5 DEF Desk!Authorized, Desk!Current, DeskTypedCalls, DeskCallRecords
    <3>2. c \in overtaken => deskCall[c].epoch < session[deskCall[c].on].epoch
      BY <1>2, <1>3 DEF DeskCalling
    <3> QED BY <3>1, <3>2
  <2>8. /\ session'[u].owner = session[u].owner /\ session'[u].listed = session[u].listed
        /\ session'[u].epoch = session[u].epoch
    BY <2>1, <2>5, <2>6
  <2>9. armedBy' = [armedBy EXCEPT ![u] = c]
    BY <1>5, <2>1
  <2> QED BY <1>1, <1>3, <1>5, <2>1, <2>2, <2>6, <2>7, <2>8, <2>9, DeskRearms
<1> QED BY <1>4, <1>5, Zenon DEF Desk!Arm

LEMMA DeskExtend ==
    ASSUME DeskApart, DeskInv, NEW c \in DeskCalls, Desk!Extend(c)
    PROVE  DeskInv'
<1>1. /\ deskCall[c].pc = "finishing" /\ Desk!Ends(c)
      /\ UNCHANGED <<overtaken, armedBy, stage, deskLease, claim, late>>
      /\ \/ session' = [session EXCEPT ![deskCall[c].on].fresh = TRUE]
         \/ session' = session
  BY Zenon DEF Desk!Extend
<1>2. DeskTypedSessions /\ DeskTypedCalls /\ DeskCalling(c)
  BY DEF DeskInv
<1>3. Desk!Running(c) /\ Desk!Inside(c) /\ Desk!Writes(c)
  BY <1>1, <1>2 DEF Desk!Running, Desk!Inside, Desk!Writes, DeskCalling
<1>4. CASE session' = session
  <2>1. Desk!NothingStopped
    BY <1>1, <1>4 DEF Desk!NothingStopped
  <2> QED BY <1>1, <1>3, <2>1, DeskAnswered
<1>5. CASE session' = [session EXCEPT ![deskCall[c].on].fresh = TRUE]
  <2>1. PICK u, r, q : /\ u = deskCall[c].on /\ r = session[u]
                       /\ q = [r EXCEPT !.fresh = TRUE]
    OBVIOUS
  <2>2. u \in Sessions /\ r \in DeskRecords
    BY <1>2, <2>1 DEF DeskTypedSessions, DeskTypedCalls, DeskCallRecords
  <2>3. session' = [session EXCEPT ![u] = q]
    BY <1>2, <1>5, <2>1, <2>2 DEF DeskTypedSessions
  <2>4. q \in DeskRecords
    <3>1. TRUE \in BOOLEAN
      OBVIOUS
    <3> QED BY <2>1, <2>2, <3>1 DEF DeskRecords
  <2>5. q.owner = r.owner /\ q.listed = r.listed /\ q.epoch = r.epoch
    BY <2>1, <2>2 DEF DeskRecords
  <2>6. /\ session' \in [Sessions -> DeskRecords] /\ session'[u] = q
        /\ \A v \in Sessions \ {u} : session'[v] = session[v]
    BY <1>2, <2>2, <2>3, <2>4 DEF DeskTypedSessions
  <2>7. /\ session'[u].owner = session[u].owner /\ session'[u].listed = session[u].listed
        /\ session'[u].epoch = session[u].epoch
    BY <2>1, <2>5, <2>6
  <2> QED BY <1>1, <1>3, <2>1, <2>2, <2>6, <2>7, DeskRearms
<1> QED BY <1>1, <1>4, <1>5

LEMMA DeskStutter ==
    ASSUME DeskApart, DeskInv, UNCHANGED deskVars
    PROVE  DeskInv'
<1>1. Desk!NothingStopped /\ UNCHANGED <<deskCall, stage, writer, deskLease, claim, late>>
  BY DEF deskVars, Desk!NothingStopped
<1>2. DeskQuieter /\ \A u \in Sessions : DeskDisarms(u)
  BY <1>1, DeskNothing
<1>3. DeskTypedCalls'
  BY <1>1 DEF DeskInv, DeskTypedCalls
<1>4. \A d \in DeskCalls : DeskKeeps(d)
  BY <1>1, <1>2 DEF DeskKeeps, DeskInv, DeskTypedCalls, DeskCallRecords
<1> QED BY <1>1, <1>2, <1>3, <1>4, DeskCallless

LEMMA DeskPreserved ==
    ASSUME DeskBounded, DeskApart, DeskInv, [Desk!Next]_deskVars
    PROVE  DeskInv'
<1>1. ASSUME NEW w \in Workflows,
             Desk!Revoke(w) \/ Desk!Fence(w) \/ Desk!CloseOwner(w) \/ Desk!UpstreamHolds(w)
      PROVE  DeskInv'
  BY <1>1, DeskRevoke, DeskFence, DeskCloseOwner, DeskUpstream
<1>2. ASSUME NEW w \in Workflows, NEW u \in Sessions, Desk!Open(w, u)
      PROVE  DeskInv'
  BY <1>2, DeskOpen
<1>3. ASSUME NEW u \in Sessions, Desk!Lapse(u) \/ Desk!Expire(u)
      PROVE  DeskInv'
  BY <1>3, DeskLapse
<1>4. ASSUME NEW c \in DeskCalls, NEW k \in Desk!Kinds, NEW u \in Sessions, Desk!Enter(c, k, u)
      PROVE  DeskInv'
  BY <1>4, DeskEnter
<1>5. ASSUME NEW c \in DeskCalls,
             \/ Desk!Turned(c) \/ Desk!Use(c) \/ Desk!Admit(c) \/ Desk!Refused(c)
             \/ Desk!Look(c) \/ Desk!Arm(c) \/ Desk!Act(c) \/ Desk!Hold(c) \/ Desk!Fail(c)
             \/ Desk!Check(c) \/ Desk!Release(c) \/ Desk!Finish(c) \/ Desk!Extend(c)
             \/ \E down \in BOOLEAN : Desk!Send(c, down)
      PROVE  DeskInv'
  BY <1>5, DeskTurned, DeskUse, DeskAdmit, DeskArm, DeskHold, DeskCheck, DeskSend, DeskExtend
<1>6. ASSUME Desk!Prune PROVE DeskInv'
  BY <1>6, DeskRevoke
<1>7. ASSUME Desk!UpstreamLeaves PROVE DeskInv'
  BY <1>7, DeskUpstream
<1>8. CASE UNCHANGED deskVars
  BY <1>8, DeskStutter
<1> QED BY <1>1, <1>2, <1>3, <1>4, <1>5, <1>6, <1>7, <1>8 DEF Desk!Next

LEMMA DeskImplies ==
    ASSUME DeskApart, DeskInv
    PROVE  Desk!TypeOK /\ Desk!ControlEndsWhenRevoked
<1>1. DeskTypedSessions /\ DeskTypedCalls
  BY DEF DeskInv
<1>2. Desk!TypeOK
  BY <1>1 DEF Desk!TypeOK, DeskTypedSessions, DeskTypedCalls, DeskRecords, DeskCallRecords,
     DeskStages, Desk!NoOne, Desk!Upstream
<1>3. \A c \in DeskCalls : late[c] <= 1
  <2>1. \A c \in DeskCalls : late[c] \in Nat /\ (late[c] # 0 => late[c] = 1)
    BY <1>1 DEF DeskInv, DeskCalling, DeskTypedCalls
  <2> QED BY <2>1
<1>4. \A u \in Sessions : armedBy[u] \notin overtaken
  BY <1>1 DEF DeskInv, DeskListed, DeskTypedSessions
<1>5. \A c \in DeskCalls : deskCall[c].pressed =>
         deskLease = c /\ claim = Desk!Wf(c) /\ stage[Desk!Wf(c)] # "closed"
  BY DEF DeskInv, DeskCalling
<1> QED BY <1>2, <1>3, <1>4, <1>5 DEF Desk!ControlEndsWhenRevoked

-----------------------------------------------------------------------------
(* The window tools: pictures of windows and actions on them (WindowControl). *)

WindowBounded == {MaxEvents, MaxMeddling} \subseteq Nat
WindowApart == "nobody" \notin Windows \cup WindowCalls

WindowStages ==
    {"new", "asked", "background", "looking", "leasing", "capturing", "framing", "fronting",
     "focusing", "checking", "sending", "putting back", "refocusing", "done"}
WindowRecords ==
    [op : Window!Ops, on : Windows \cup {"nobody"}, by : Window!Targets,
     ahead : Windows \cup {"nobody"}, found : {"normal", "minimized", "staged"},
     left : 0 .. MaxEvents, strayed : Nat, acted : BOOLEAN,
     answer : {"", "accepted", "refused", "unknown", "error"}, pc : WindowStages]

WindowTyped ==
    /\ shape \in [Windows -> {"normal", "minimized", "staged", "gone"}]
    /\ given \in [Windows -> {"normal", "minimized", "gone"}]
    /\ windowFront \in Windows \cup {"nobody"}
    /\ windowCall \in [WindowCalls -> WindowRecords]
    /\ lock \in [Windows -> WindowCalls \cup {"nobody"}]
    /\ windowLease \in WindowCalls \cup {"nobody"}
    /\ excused \subseteq Windows /\ meddling \in 0 .. MaxMeddling

WindowBusy == WindowStages \ {"new", "asked", "done"}
WindowEarly ==
    {"new", "asked", "background", "looking", "leasing", "capturing", "fronting"}
WindowLate == {"framing", "focusing", "checking", "sending", "putting back"}

\* A call has done nothing until it acts, and what it answers is true of that.
WindowRecord(r) ==
    /\ r.pc \notin {"new", "done"} => r.on \in Windows
    /\ r.pc \in WindowEarly \cup {"framing", "focusing"} => r.strayed = 0 /\ ~r.acted
    /\ r.answer # "" => r.pc \in {"putting back", "refocusing", "done"}
    /\ r.answer = "refused" => ~r.acted
    /\ r.strayed \in {0, 1}
    /\ r.pc = "sending" => r.left # 0 /\ r.strayed = 0

\* It holds the lock of its window from its entry to its end; how it found the
\* window is what the person gave it, or the window is excused.
WindowHas(c) ==
    /\ windowCall[c].pc \in WindowBusy => lock[windowCall[c].on] = c
    /\ windowCall[c].pc \in WindowLate =>
           windowCall[c].on \in excused \/ windowCall[c].found = given[windowCall[c].on]

\* Nothing is done to a window but by the call that has its lock.
WindowLeft(w) ==
    /\ shape[w] = "gone" => given[w] = "gone"
    /\ w \notin excused /\ shape[w] # given[w] =>
           lock[w] \in WindowCalls /\ windowCall[lock[w]].on = w
             /\ windowCall[lock[w]].pc \in WindowLate

WindowInv ==
    /\ WindowTyped
    /\ \A c \in WindowCalls : WindowRecord(windowCall[c]) /\ WindowHas(c)
    /\ \A w \in Windows : WindowLeft(w)

LEMMA WindowUnmade ==
    ASSUME WindowBounded
    PROVE  /\ Window!Unmade \in WindowRecords /\ Window!Unmade.answer = ""
           /\ Window!Unmade.strayed = 0 /\ ~Window!Unmade.acted /\ Window!Unmade.pc = "new"
<1>1. /\ "look" \in Window!Ops /\ "point" \in Window!Targets /\ 0 \in 0 .. MaxEvents
      /\ FALSE \in BOOLEAN /\ "new" \in WindowStages
  BY DEF WindowBounded, Window!Ops, Window!Targets, WindowStages
<1>2. Window!Unmade \in WindowRecords
  BY <1>1 DEF Window!Unmade, Window!Nobody, WindowRecords
<1> QED BY <1>2 DEF Window!Unmade

\* A call that is answered.
LEMMA WindowEnded ==
    ASSUME WindowBounded, NEW r \in WindowRecords, WindowRecord(r),
           NEW answer \in {"", "accepted", "refused", "unknown", "error"}, NEW b \in BOOLEAN,
           answer = "refused" => ~b, NEW q,
           q = [Window!Unmade EXCEPT !.pc = "done", !.answer = answer, !.strayed = r.strayed,
                                     !.acted = b]
    PROVE  q \in WindowRecords /\ WindowRecord(q) /\ q.pc = "done"
<1>1. /\ Window!Unmade \in WindowRecords /\ "done" \in WindowStages /\ r.strayed \in Nat
      /\ answer \in {"", "accepted", "refused", "unknown", "error"}
  BY WindowUnmade DEF WindowStages, WindowRecords
<1>2. q \in WindowRecords
  BY <1>1 DEF WindowRecords
<1>3. q.pc = "done" /\ q.answer = answer /\ q.strayed = r.strayed /\ q.acted = b
  BY <1>1 DEF WindowRecords
<1> QED BY <1>2, <1>3 DEF WindowRecord, WindowEarly

\* A call that goes on to another place.
LEMMA WindowGoes ==
    ASSUME NEW r \in WindowRecords, NEW to \in WindowStages, NEW q, q = [r EXCEPT !.pc = to]
    PROVE  /\ q \in WindowRecords /\ q.pc = to /\ q.on = r.on /\ q.found = r.found
           /\ q.strayed = r.strayed /\ q.acted = r.acted /\ q.answer = r.answer
           /\ q.left = r.left
BY DEF WindowRecords

LEMMA WindowInitInv ==
    ASSUME WindowBounded, WindowApart, Window!Init
    PROVE  WindowInv
<1> USE DEF Window!Init, Window!Nobody
<1>1. PICK u : u = Window!Unmade
  OBVIOUS
<1>2. u \in WindowRecords /\ u.answer = "" /\ u.strayed = 0 /\ ~u.acted /\ u.pc = "new"
  BY <1>1, WindowUnmade
<1>3. windowCall = [c \in WindowCalls |-> u]
  BY <1>1
<1>4. WindowTyped
  <2>1. shape \in [Windows -> {"normal", "minimized"}] /\ given = shape
    OBVIOUS
  <2>2. shape \in [Windows -> {"normal", "minimized", "staged", "gone"}]
        /\ given \in [Windows -> {"normal", "minimized", "gone"}]
    BY <2>1
  <2>3. windowFront \in Windows \cup {"nobody"} /\ windowLease = "nobody"
        /\ excused = {} /\ meddling = 0 /\ lock = [w \in Windows |-> "nobody"]
    OBVIOUS
  <2> HIDE DEF Window!Init
  <2>4. windowCall \in [WindowCalls -> WindowRecords]
    BY <1>2, <1>3
  <2>5. /\ meddling \in 0 .. MaxMeddling /\ excused \subseteq Windows
        /\ lock \in [Windows -> WindowCalls \cup {"nobody"}]
        /\ windowLease \in WindowCalls \cup {"nobody"}
    BY <2>3 DEF WindowBounded
  <2> QED BY <2>2, <2>3, <2>4, <2>5 DEF WindowTyped
<1>5. \A c \in WindowCalls : WindowRecord(windowCall[c]) /\ WindowHas(c)
  BY <1>2, <1>3 DEF WindowRecord, WindowHas, WindowBusy, WindowLate
<1>6. \A w \in Windows : WindowLeft(w)
  BY DEF WindowLeft
<1> QED BY <1>4, <1>5, <1>6 DEF WindowInv

-----------------------------------------------------------------------------
\* Call c goes on with its record q, and no window changes its shape.
LEMMA WindowStep ==
    ASSUME WindowApart, WindowInv, NEW c \in WindowCalls, NEW q \in WindowRecords,
           WindowRecord(q), windowCall' = [windowCall EXCEPT ![c] = q],
           UNCHANGED <<shape, given, excused, meddling>>,
           windowFront' \in Windows \cup {"nobody"},
           lock' \in [Windows -> WindowCalls \cup {"nobody"}],
           windowLease' \in WindowCalls \cup {"nobody"},
           \A w \in Windows : lock[w] \notin {c, "nobody"} => lock'[w] = lock[w],
           q.pc \in WindowBusy => lock'[q.on] = c,
           q.pc \in WindowLate => q.on \in excused \/ q.found = given[q.on],
           windowCall[c].pc \in WindowLate =>
               q.pc \in WindowLate /\ q.on = windowCall[c].on /\ lock' = lock
    PROVE  WindowInv'
<1> USE DEF WindowInv
<1>1. WindowTyped'
  BY DEF WindowTyped
<1>2. windowCall'[c] = q /\ \A d \in WindowCalls \ {c} : windowCall'[d] = windowCall[d]
  BY DEF WindowTyped
<1>3. ASSUME NEW d \in WindowCalls PROVE WindowRecord(windowCall[d])' /\ WindowHas(d)'
  <2>1. CASE d = c
    <3>1. WindowRecord(windowCall[c])'
      BY <1>2 DEF WindowRecord
    <3>2. WindowHas(c)'
      BY <1>2 DEF WindowHas
    <3> QED BY <2>1, <3>1, <3>2
  <2>2. CASE d # c
    <3>1. windowCall'[d] = windowCall[d] /\ WindowRecord(windowCall[d]) /\ WindowHas(d)
      BY <1>2, <2>2
    <3>2. windowCall[d].pc \in WindowBusy => windowCall[d].on \in Windows
      BY <3>1 DEF WindowRecord, WindowBusy
    <3>3. windowCall[d].pc \in WindowBusy => lock'[windowCall[d].on] = d
      BY <2>2, <3>1, <3>2 DEF WindowHas, WindowApart
    <3>4. WindowRecord(windowCall[d])'
      BY <3>1 DEF WindowRecord
    <3>5. WindowHas(d)'
      BY <3>1, <3>3 DEF WindowHas
    <3> QED BY <3>4, <3>5
  <2> QED BY <2>1, <2>2
<1>4. ASSUME NEW w \in Windows PROVE WindowLeft(w)'
  <2>1. WindowLeft(w)
    OBVIOUS
  <2> SUFFICES ASSUME w \notin excused, shape[w] # given[w]
               PROVE  /\ lock'[w] \in WindowCalls /\ windowCall'[lock'[w]].on = w
                      /\ windowCall'[lock'[w]].pc \in WindowLate
    BY <2>1 DEF WindowLeft
  <2>2. PICK d : d = lock[w]
    OBVIOUS
  <2>3. d \in WindowCalls /\ windowCall[d].on = w /\ windowCall[d].pc \in WindowLate
    BY <2>1, <2>2 DEF WindowLeft
  <2>4. CASE d = c
    BY <1>2, <2>2, <2>3, <2>4
  <2>5. CASE d # c
    BY <1>2, <2>2, <2>3, <2>5 DEF WindowApart
  <2> QED BY <2>4, <2>5
<1> QED BY <1>1, <1>3, <1>4

\* Call c ends: what it holds is let go.
LEMMA WindowEnds ==
    ASSUME WindowBounded, WindowApart, WindowInv, NEW c \in WindowCalls,
           windowCall[c].pc \notin WindowLate,
           NEW answer \in {"", "accepted", "refused", "unknown", "error"}, NEW acted \in BOOLEAN,
           answer = "refused" => ~acted /\ ~windowCall[c].acted,
           Window!Ends(c, answer, acted), UNCHANGED <<shape, given, excused, meddling>>,
           windowFront' \in Windows \cup {"nobody"}
    PROVE  WindowInv'
<1>1. PICK r, b : r = windowCall[c] /\ b = (r.acted \/ acted)
  OBVIOUS
<1>2. PICK q : q = [Window!Unmade EXCEPT !.pc = "done", !.answer = answer,
                                         !.strayed = r.strayed, !.acted = b]
  OBVIOUS
<1>3. /\ windowCall' = [windowCall EXCEPT ![c] = q]
      /\ lock' = [w \in Windows |-> IF lock[w] = c THEN "nobody" ELSE lock[w]]
      /\ windowLease' = (IF windowLease = c THEN "nobody" ELSE windowLease)
  BY <1>1, <1>2 DEF Window!Ends, Window!Nobody
<1>4. WindowTyped /\ WindowRecord(r) /\ r \in WindowRecords
  BY <1>1 DEF WindowInv, WindowTyped
<1>5. b \in BOOLEAN /\ (answer = "refused" => ~b)
  BY <1>1, Zenon
<1>6. q \in WindowRecords /\ WindowRecord(q) /\ q.pc = "done"
  BY <1>2, <1>4, <1>5, WindowEnded
<1>7. /\ lock' \in [Windows -> WindowCalls \cup {"nobody"}]
      /\ windowLease' \in WindowCalls \cup {"nobody"}
      /\ \A w \in Windows : lock[w] \notin {c, "nobody"} => lock'[w] = lock[w]
  BY <1>3, <1>4 DEF WindowTyped
<1>8. q.pc \notin WindowBusy /\ q.pc \notin WindowLate
  BY <1>6 DEF WindowBusy, WindowLate
<1> QED BY <1>3, <1>6, <1>7, <1>8, WindowStep

LEMMA WindowEndsUndone ==
    ASSUME WindowBounded, WindowApart, WindowInv, NEW c \in WindowCalls,
           windowCall[c].pc \notin WindowLate,
           NEW answer \in {"", "accepted", "refused", "unknown", "error"},
           answer = "refused" => ~windowCall[c].acted,
           Window!Ends(c, answer, FALSE), UNCHANGED <<shape, given, excused, meddling>>,
           windowFront' \in Windows \cup {"nobody"}
    PROVE  WindowInv'
<1>1. PICK acted \in BOOLEAN : acted = FALSE
  OBVIOUS
<1>2. Window!Ends(c, answer, acted)
  BY <1>1
<1> QED BY <1>1, <1>2, WindowEnds

\* The answer of call c is known, and the desktop is still to be put back.
LEMMA WindowSettles ==
    ASSUME WindowBounded, WindowApart, WindowInv, NEW c \in WindowCalls,
           windowCall[c].pc \in {"framing", "focusing", "checking", "sending"},
           NEW answer \in {"", "accepted", "refused", "unknown", "error"}, NEW acted \in BOOLEAN,
           answer = "refused" => ~acted /\ ~windowCall[c].acted,
           Window!Settles(c, answer, acted), Window!DesktopAlone, Window!HoldsOn
    PROVE  WindowInv'
<1>1. PICK r, b : r = windowCall[c] /\ b = (r.acted \/ acted)
  OBVIOUS
<1>2. PICK q : q = [Window!Unmade EXCEPT !.on = r.on, !.ahead = r.ahead, !.found = r.found,
                                         !.pc = "putting back", !.answer = answer,
                                         !.strayed = r.strayed, !.acted = b]
  OBVIOUS
<1>3. windowCall' = [windowCall EXCEPT ![c] = q]
  BY <1>1, <1>2 DEF Window!Settles
<1>4. /\ WindowTyped /\ WindowRecord(r) /\ r \in WindowRecords /\ WindowHas(c)
      /\ UNCHANGED <<shape, windowFront, given, excused, meddling, lock, windowLease>>
  BY <1>1 DEF WindowInv, WindowTyped, Window!DesktopAlone, Window!HoldsOn
<1>5. b \in BOOLEAN /\ (answer = "refused" => ~b)
  BY <1>1, Zenon
<1>6. /\ r.on \in Windows /\ r.pc \in WindowBusy /\ r.pc \in WindowLate
  BY <1>1, <1>4 DEF WindowRecord, WindowBusy, WindowLate, WindowStages
<1>7. /\ q \in WindowRecords /\ WindowRecord(q) /\ q.pc = "putting back"
      /\ q.on = r.on /\ q.found = r.found
  <2>1. /\ Window!Unmade \in WindowRecords /\ "putting back" \in WindowStages
        /\ r.strayed \in Nat /\ answer \in {"", "accepted", "refused", "unknown", "error"}
    BY <1>4, WindowUnmade DEF WindowStages, WindowRecords
  <2>2. q \in WindowRecords
    BY <1>2, <1>4, <1>5, <2>1 DEF WindowRecords
  <2>3. /\ q.pc = "putting back" /\ q.answer = answer /\ q.strayed = r.strayed /\ q.acted = b
        /\ q.on = r.on /\ q.found = r.found
    BY <1>2, <2>1 DEF WindowRecords
  <2> QED BY <1>4, <1>5, <1>6, <2>2, <2>3 DEF WindowRecord, WindowEarly
<1>8. /\ lock[q.on] = c /\ (q.on \in excused \/ q.found = given[q.on])
      /\ q.pc \in WindowLate
  BY <1>1, <1>4, <1>6, <1>7 DEF WindowHas, WindowLate
<1> QED BY <1>1, <1>3, <1>4, <1>7, <1>8, WindowStep DEF WindowTyped

LEMMA WindowSettlesUndone ==
    ASSUME WindowBounded, WindowApart, WindowInv, NEW c \in WindowCalls,
           windowCall[c].pc \in {"framing", "focusing", "checking", "sending"},
           NEW answer \in {"", "accepted", "refused", "unknown", "error"},
           answer = "refused" => ~windowCall[c].acted,
           Window!Settles(c, answer, FALSE), Window!DesktopAlone, Window!HoldsOn
    PROVE  WindowInv'
<1>1. PICK acted \in BOOLEAN : acted = FALSE
  OBVIOUS
<1>2. Window!Settles(c, answer, acted)
  BY <1>1
<1> QED BY <1>1, <1>2, WindowSettles

LEMMA WindowSettlesDone ==
    ASSUME WindowBounded, WindowApart, WindowInv, NEW c \in WindowCalls,
           windowCall[c].pc \in {"framing", "focusing", "checking", "sending"},
           Window!Settles(c, "accepted", TRUE), Window!DesktopAlone, Window!HoldsOn
    PROVE  WindowInv'
<1>1. PICK acted \in BOOLEAN : acted = TRUE
  OBVIOUS
<1>2. Window!Settles(c, "accepted", acted)
  BY <1>1
<1> QED BY <1>2, WindowSettles

\* Before anything is done: from one place to the next.
LEMMA WindowGoing ==
    ASSUME WindowBounded, WindowApart, WindowInv, NEW c \in WindowCalls,
           NEW to \in {"background", "looking", "leasing", "capturing", "fronting"},
           windowCall[c].pc \in {"asked", "background", "looking", "leasing"},
           Window!Goes(c, to), Window!DesktopAlone,
           \/ lock' = lock /\ windowCall[c].pc # "asked"
           \/ lock[windowCall[c].on] = "nobody" /\ lock' = [lock EXCEPT ![windowCall[c].on] = c],
           windowLease' \in WindowCalls \cup {"nobody"}
    PROVE  WindowInv'
<1>1. PICK r, q : r = windowCall[c] /\ q = [r EXCEPT !.pc = to]
  OBVIOUS
<1>2. /\ WindowTyped /\ WindowRecord(r) /\ r \in WindowRecords /\ WindowHas(c)
      /\ UNCHANGED <<shape, windowFront, given, excused, meddling>>
  BY <1>1 DEF WindowInv, WindowTyped, Window!DesktopAlone
<1>3. windowCall' = [windowCall EXCEPT ![c] = q]
  BY <1>1, <1>2 DEF Window!Goes, WindowTyped
<1>4. /\ q \in WindowRecords /\ q.pc = to /\ q.on = r.on /\ q.strayed = r.strayed
      /\ q.acted = r.acted /\ q.answer = r.answer
  <2>1. to \in WindowStages
    BY DEF WindowStages
  <2> QED BY <1>1, <1>2, <2>1, WindowGoes
<1>5. r.pc \in WindowEarly /\ r.pc \notin WindowLate /\ r.on \in Windows
      /\ to \in WindowEarly /\ to \notin WindowLate /\ to # "sending"
  BY <1>1, <1>2 DEF WindowEarly, WindowLate, WindowRecord
<1>6. r.strayed = 0 /\ ~r.acted /\ r.answer = ""
  BY <1>2, <1>5 DEF WindowRecord, WindowEarly, WindowRecords
<1>7. WindowRecord(q)
  BY <1>4, <1>5, <1>6 DEF WindowRecord
<1>8. /\ lock' \in [Windows -> WindowCalls \cup {"nobody"}]
      /\ \A w \in Windows : lock[w] \notin {c, "nobody"} => lock'[w] = lock[w]
      /\ lock'[q.on] = c
  <2>1. lock \in [Windows -> WindowCalls \cup {"nobody"}]
    BY <1>2 DEF WindowTyped
  <2>2. CASE lock' = lock /\ r.pc # "asked"
    <3>1. r.pc \in WindowBusy
      BY <1>1, <2>2 DEF WindowBusy, WindowStages
    <3> QED BY <1>1, <1>2, <1>4, <2>1, <2>2, <3>1 DEF WindowHas
  <2>3. CASE lock[r.on] = "nobody" /\ lock' = [lock EXCEPT ![r.on] = c]
    BY <1>4, <1>5, <2>1, <2>3
  <2> QED BY <1>1, <2>2, <2>3
<1> QED BY <1>1, <1>2, <1>3, <1>4, <1>5, <1>7, <1>8, WindowStep DEF WindowTyped

LEMMA WindowAsk ==
    ASSUME WindowBounded, WindowApart, WindowInv, NEW c \in WindowCalls,
           NEW op \in Window!Ops, NEW w \in Windows, NEW by \in Window!Targets,
           Window!Ask(c, op, w, by)
    PROVE  WindowInv'
<1>1. PICK r, q : /\ r = windowCall[c]
                  /\ q = [r EXCEPT !.op = op, !.on = w, !.by = by, !.pc = "asked"]
  OBVIOUS
<1>2. /\ WindowTyped /\ WindowRecord(r) /\ r \in WindowRecords /\ r.pc = "new"
      /\ UNCHANGED <<shape, windowFront, given, excused, meddling, lock, windowLease>>
  BY <1>1 DEF WindowInv, WindowTyped, Window!DesktopAlone, Window!HoldsOn, Window!Ask, Window!At
<1>3. windowCall' = [windowCall EXCEPT ![c] = q]
  BY <1>1, <1>2 DEF Window!Ask, WindowTyped
<1>4. /\ q \in WindowRecords /\ q.pc = "asked" /\ q.on = w /\ q.strayed = r.strayed
      /\ q.acted = r.acted /\ q.answer = r.answer
  <2>1. "asked" \in WindowStages
    BY DEF WindowStages
  <2> QED BY <1>1, <1>2, <2>1 DEF WindowRecords
<1>5. r.strayed = 0 /\ ~r.acted /\ r.answer = ""
  BY <1>2 DEF WindowRecord, WindowEarly, WindowRecords
<1>6. WindowRecord(q)
  BY <1>4, <1>5 DEF WindowRecord
<1>7. q.pc \notin WindowBusy /\ q.pc \notin WindowLate /\ r.pc \notin WindowLate
  BY <1>2, <1>4 DEF WindowBusy, WindowLate
<1> QED BY <1>1, <1>2, <1>3, <1>4, <1>6, <1>7, WindowStep DEF WindowTyped

LEMMA WindowEnter ==
    ASSUME WindowBounded, WindowApart, WindowInv, NEW c \in WindowCalls,
           \/ Window!Enter(c) \/ Window!Lease(c) \/ Window!LeaseTimeout(c) \/ Window!Look(c)
    PROVE  WindowInv'
<1>1. /\ WindowTyped /\ Window!DesktopAlone
      /\ windowCall[c].pc \in {"asked", "leasing", "looking"}
  BY DEF WindowInv, Window!Enter, Window!Lease, Window!LeaseTimeout, Window!Look, Window!At
<1>2. /\ windowCall[c].pc \notin WindowLate /\ windowFront' \in Windows \cup {"nobody"}
      /\ UNCHANGED <<shape, given, excused, meddling>>
  BY <1>1 DEF WindowLate, WindowTyped, Window!DesktopAlone
<1>3. CASE Window!Ends(c, "error", FALSE)
  BY <1>2, <1>3, WindowEndsUndone
<1>4. CASE ~Window!Ends(c, "error", FALSE)
  <2>1. PICK to \in {"background", "looking", "leasing", "capturing", "fronting"} :
           /\ Window!Goes(c, to) /\ windowLease' \in {windowLease, c}
           /\ \/ lock' = lock /\ windowCall[c].pc # "asked"
              \/ /\ lock[windowCall[c].on] = "nobody"
                 /\ lock' = [lock EXCEPT ![windowCall[c].on] = c]
    <3>1. CASE Window!Enter(c)
      BY <1>4, <3>1 DEF Window!Enter, Window!Nobody
    <3>2. CASE Window!Lease(c)
      BY <1>4, <3>2 DEF Window!Lease, Window!At
    <3>3. CASE Window!LeaseTimeout(c)
      BY <1>4, <3>3 DEF Window!LeaseTimeout
    <3>4. CASE Window!Look(c)
      BY <1>4, <3>4 DEF Window!Look, Window!At, Window!HoldsOn
    <3> QED BY <3>1, <3>2, <3>3, <3>4
  <2> QED BY <1>1, <2>1, WindowGoing DEF WindowTyped
<1> QED BY <1>3, <1>4

LEMMA WindowBackground ==
    ASSUME WindowBounded, WindowApart, WindowInv, NEW c \in WindowCalls, Window!Background(c)
    PROVE  WindowInv'
<1>1. /\ WindowTyped /\ Window!DesktopAlone /\ windowCall[c].pc = "background"
      /\ WindowRecord(windowCall[c])
  BY DEF WindowInv, Window!Background, Window!At
<1>2. /\ windowCall[c].pc \notin WindowLate /\ windowFront' \in Windows \cup {"nobody"}
      /\ UNCHANGED <<shape, given, excused, meddling>> /\ ~windowCall[c].acted
  BY <1>1 DEF WindowLate, WindowTyped, WindowRecord, WindowEarly, Window!DesktopAlone
<1>3. \A a \in Window!Backgrounds(c) : a \in {"", "accepted", "refused", "unknown", "error"}
  BY DEF Window!Backgrounds
<1>4. \/ Window!Goes(c, "leasing") /\ Window!HoldsOn
      \/ \E answer \in Window!Backgrounds(c), acted \in BOOLEAN :
            (answer = "refused" => ~acted) /\ Window!Ends(c, answer, acted)
  BY Zenon DEF Window!Background
<1>5. CASE Window!Goes(c, "leasing") /\ Window!HoldsOn
  BY <1>1, <1>5, WindowGoing DEF Window!HoldsOn, WindowTyped
<1>6. ASSUME NEW answer \in Window!Backgrounds(c), NEW acted \in BOOLEAN,
             answer = "refused" => ~acted, Window!Ends(c, answer, acted)
      PROVE  WindowInv'
  BY <1>2, <1>3, <1>6, WindowEnds
<1> QED BY <1>4, <1>5, <1>6

LEMMA WindowFrame ==
    ASSUME WindowBounded, WindowApart, WindowInv, NEW c \in WindowCalls, Window!Frame(c)
    PROVE  WindowInv'
<1>1. PICK answer \in {"accepted", "error"} : Window!Settles(c, answer, FALSE)
  BY DEF Window!Frame
<1>2. /\ windowCall[c].pc = "framing" /\ Window!DesktopAlone /\ Window!HoldsOn
  BY DEF Window!Frame, Window!At
<1> QED BY <1>1, <1>2, WindowSettlesUndone

LEMMA WindowFocus ==
    ASSUME WindowBounded, WindowApart, WindowInv, NEW c \in WindowCalls, Window!Focus(c)
    PROVE  WindowInv'
<1>1. /\ windowCall[c].pc = "focusing" /\ Window!DesktopAlone /\ Window!HoldsOn
      /\ WindowTyped /\ WindowRecord(windowCall[c]) /\ WindowHas(c)
  BY DEF WindowInv, Window!Focus, Window!At
<1>2. ~windowCall[c].acted /\ windowCall[c].strayed = 0
  BY <1>1 DEF WindowRecord
<1>3. CASE \E answer \in {"error", "refused"} : Window!Settles(c, answer, FALSE)
  BY <1>1, <1>2, <1>3, WindowSettlesUndone
<1>4. CASE Window!Settles(c, "accepted", TRUE)
  BY <1>1, <1>4, WindowSettlesDone
<1>5. CASE \E acted \in BOOLEAN : Window!Settles(c, "unknown", acted)
  BY <1>1, <1>5, WindowSettles
<1>6. ASSUME NEW n \in 0 .. MaxEvents,
             windowCall' = [windowCall EXCEPT ![c].pc = "checking", ![c].left = n]
      PROVE  WindowInv'
  <2>1. PICK r, q : r = windowCall[c] /\ q = [r EXCEPT !.pc = "checking", !.left = n]
    OBVIOUS
  <2>2. r \in WindowRecords /\ windowCall' = [windowCall EXCEPT ![c] = q]
    BY <1>1, <1>6, <2>1 DEF WindowTyped
  <2>3. /\ q \in WindowRecords /\ q.pc = "checking" /\ q.on = r.on /\ q.found = r.found
        /\ q.strayed = r.strayed /\ q.acted = r.acted /\ q.answer = r.answer
    <3>1. "checking" \in WindowStages
      BY DEF WindowStages
    <3> QED BY <2>1, <2>2, <3>1 DEF WindowRecords
  <2>4. /\ r.pc \in WindowLate /\ r.pc \in WindowBusy /\ q.pc \in WindowLate
        /\ q.pc \in WindowBusy /\ r.on \in Windows /\ r.answer = ""
    BY <1>1, <2>1, <2>2, <2>3
       DEF WindowLate, WindowBusy, WindowStages, WindowRecord, WindowRecords
  <2>5. WindowRecord(q)
    BY <1>1, <1>2, <2>1, <2>3, <2>4 DEF WindowRecord, WindowEarly
  <2>6. lock[q.on] = c /\ (q.on \in excused \/ q.found = given[q.on])
    BY <1>1, <2>1, <2>3, <2>4 DEF WindowHas
  <2> QED BY <1>1, <2>1, <2>2, <2>3, <2>4, <2>5, <2>6, WindowStep
          DEF Window!HoldsOn, Window!DesktopAlone, WindowTyped
<1> QED
  <2>1. \/ \E answer \in {"error", "refused"} : Window!Settles(c, answer, FALSE)
        \/ Window!Settles(c, "accepted", TRUE)
        \/ \E acted \in BOOLEAN : Window!Settles(c, "unknown", acted)
        \/ \E n \in 0 .. MaxEvents :
              windowCall' = [windowCall EXCEPT ![c].pc = "checking", ![c].left = n]
    BY Zenon DEF Window!Focus
  <2> QED BY <1>3, <1>4, <1>5, <1>6, <2>1

LEMMA WindowCheck ==
    ASSUME WindowBounded, WindowApart, WindowInv, NEW c \in WindowCalls, Window!Check(c)
    PROVE  WindowInv'
<1>1. /\ windowCall[c].pc = "checking" /\ Window!DesktopAlone /\ Window!HoldsOn
      /\ WindowTyped /\ WindowRecord(windowCall[c]) /\ WindowHas(c)
  BY DEF WindowInv, Window!Check, Window!At
<1>2. CASE Window!Settles(c, "unknown", FALSE)
  BY <1>1, <1>2, WindowSettlesUndone
<1>3. CASE Window!Settles(c, "accepted", TRUE)
  BY <1>1, <1>3, WindowSettlesDone
<1>4. CASE Window!Focused(c) /\ windowCall[c].left # 0
  <2>1. PICK r, q : r = windowCall[c] /\ q = [r EXCEPT !.pc = "sending", !.strayed = 0]
    OBVIOUS
  <2>2. r \in WindowRecords /\ windowCall' = [windowCall EXCEPT ![c] = q]
    BY <1>1, <1>4, <2>1 DEF WindowTyped, Window!Focused
  <2>3. /\ q \in WindowRecords /\ q.pc = "sending" /\ q.on = r.on /\ q.found = r.found
        /\ q.strayed = 0 /\ q.acted = r.acted /\ q.answer = r.answer /\ q.left = r.left
    <3>1. "sending" \in WindowStages
      BY DEF WindowStages
    <3> QED BY <2>1, <2>2, <3>1 DEF WindowRecords
  <2>4. /\ r.pc \in WindowLate /\ r.pc \in WindowBusy /\ q.pc \in WindowLate
        /\ q.pc \in WindowBusy /\ r.on \in Windows /\ r.answer = ""
    BY <1>1, <2>1, <2>2, <2>3
       DEF WindowLate, WindowBusy, WindowStages, WindowRecord, WindowRecords
  <2>5. WindowRecord(q)
    BY <1>4, <2>1, <2>3, <2>4 DEF WindowRecord, WindowEarly
  <2>6. lock[q.on] = c /\ (q.on \in excused \/ q.found = given[q.on])
    BY <1>1, <2>1, <2>3, <2>4 DEF WindowHas
  <2> QED BY <1>1, <2>1, <2>2, <2>3, <2>4, <2>5, <2>6, WindowStep
          DEF Window!HoldsOn, Window!DesktopAlone, WindowTyped
<1> QED BY <1>2, <1>3, <1>4, Zenon DEF Window!Check

LEMMA WindowSend ==
    ASSUME WindowBounded, WindowApart, WindowInv, NEW c \in WindowCalls, Window!Send(c)
    PROVE  WindowInv'
<1>1. /\ windowCall[c].pc = "sending" /\ Window!DesktopAlone /\ Window!HoldsOn
      /\ WindowTyped /\ WindowRecord(windowCall[c]) /\ WindowHas(c)
  BY DEF WindowInv, Window!Send, Window!At
<1>2. PICK r, n, k : /\ r = windowCall[c] /\ n = r.left - 1
                     /\ k = IF windowFront = r.on THEN r.strayed ELSE r.strayed + 1
  OBVIOUS
<1>3. r \in WindowRecords /\ r.strayed = 0 /\ r.left # 0 /\ r.on \in Windows /\ r.answer = ""
  BY <1>1, <1>2 DEF WindowTyped, WindowRecord, WindowRecords
<1>4. n \in 0 .. MaxEvents /\ k \in {0, 1} /\ TRUE \in BOOLEAN
  <2>1. PICK l, s : l = r.left /\ s = r.strayed
    OBVIOUS
  <2>2. l \in 0 .. MaxEvents /\ l # 0 /\ n = l - 1 /\ MaxEvents \in Nat
    BY <1>2, <1>3, <2>1 DEF WindowRecords, WindowBounded
  <2>3. n \in 0 .. MaxEvents
    BY <2>2
  <2>4. s = 0 /\ (k = s \/ k = s + 1)
    BY <1>2, <1>3, <2>1
  <2> QED BY <2>3, <2>4
<1>5. PICK made : made = [r EXCEPT !.acted = TRUE, !.left = n, !.strayed = k]
  OBVIOUS
<1>6. /\ made \in WindowRecords /\ made.on = r.on /\ made.found = r.found
      /\ made.strayed = k /\ made.answer = "" /\ made.left = n
  <2>1. PICK b \in BOOLEAN : b = TRUE
    OBVIOUS
  <2>2. k \in Nat
    BY <1>4
  <2>3. made = [r EXCEPT !.acted = b, !.left = n, !.strayed = k]
    BY <1>5, <2>1
  <2>4. made \in WindowRecords
    BY <1>3, <1>4, <2>2, <2>3 DEF WindowRecords
  <2>5. /\ made.on = r.on /\ made.found = r.found /\ made.strayed = k
        /\ made.answer = r.answer /\ made.left = n
    BY <1>3, <2>3 DEF WindowRecords
  <2> QED BY <1>3, <2>4, <2>5
<1>7. PICK q : /\ windowCall' = [windowCall EXCEPT ![c] = q]
               /\ \/ q = [made EXCEPT !.pc = "checking"]
                  \/ q = [made EXCEPT !.pc = "putting back", !.answer = "unknown"]
  <2>1. \/ windowCall' = [windowCall EXCEPT ![c] = [made EXCEPT !.pc = "checking"]]
        \/ windowCall' = [windowCall EXCEPT ![c] =
               [made EXCEPT !.pc = "putting back", !.answer = "unknown"]]
    BY <1>2, <1>5 DEF Window!Send
  <2> QED BY <2>1
<1>8. /\ q \in WindowRecords /\ q.on = r.on /\ q.found = r.found /\ q.strayed = k
      /\ \/ q.pc = "checking" /\ q.answer = ""
         \/ q.pc = "putting back" /\ q.answer = "unknown"
  <2>1. CASE q = [made EXCEPT !.pc = "checking"]
    <3>1. "checking" \in WindowStages
      BY DEF WindowStages
    <3>2. q \in WindowRecords
      BY <1>6, <2>1, <3>1 DEF WindowRecords
    <3>3. /\ q.on = made.on /\ q.found = made.found /\ q.strayed = made.strayed
          /\ q.pc = "checking" /\ q.answer = made.answer
      BY <1>6, <2>1 DEF WindowRecords
    <3> QED BY <1>6, <3>2, <3>3
  <2>2. CASE q = [made EXCEPT !.pc = "putting back", !.answer = "unknown"]
    <3>1. "putting back" \in WindowStages
      BY DEF WindowStages
    <3>2. q \in WindowRecords
      BY <1>6, <2>2, <3>1 DEF WindowRecords
    <3>3. /\ q.on = made.on /\ q.found = made.found /\ q.strayed = made.strayed
          /\ q.pc = "putting back" /\ q.answer = "unknown"
      BY <1>6, <2>2 DEF WindowRecords
    <3> QED BY <1>6, <3>2, <3>3
  <2> QED BY <1>7, <2>1, <2>2
<1>9. /\ r.pc \in WindowLate /\ r.pc \in WindowBusy /\ q.pc \in WindowLate
      /\ q.pc \in WindowBusy
  BY <1>1, <1>2, <1>8 DEF WindowLate, WindowBusy, WindowStages
<1>10. WindowRecord(q)
  BY <1>3, <1>4, <1>8 DEF WindowRecord, WindowEarly
<1>11. lock[q.on] = c /\ (q.on \in excused \/ q.found = given[q.on])
  BY <1>1, <1>2, <1>8, <1>9 DEF WindowHas
<1> QED BY <1>1, <1>2, <1>7, <1>8, <1>9, <1>10, <1>11, WindowStep
        DEF Window!HoldsOn, Window!DesktopAlone, WindowTyped

LEMMA WindowRefocus ==
    ASSUME WindowBounded, WindowApart, WindowInv, NEW c \in WindowCalls, Window!Refocus(c)
    PROVE  WindowInv'
<1>1. /\ windowCall[c].pc = "refocusing" /\ WindowTyped /\ WindowRecord(windowCall[c])
      /\ UNCHANGED <<shape, given, excused, meddling>>
  BY DEF WindowInv, Window!Refocus, Window!At
<1>2. PICK answer : answer = windowCall[c].answer
  OBVIOUS
<1>3. /\ answer \in {"", "accepted", "refused", "unknown", "error"}
      /\ answer = "refused" => ~windowCall[c].acted
      /\ Window!Ends(c, answer, FALSE) /\ windowCall[c].pc \notin WindowLate
  BY <1>1, <1>2 DEF WindowTyped, WindowRecord, WindowRecords, WindowLate, Window!Refocus
<1>4. windowFront' \in Windows \cup {"nobody"}
  <2>1. windowCall[c].ahead \in Windows \cup {"nobody"}
    BY <1>1 DEF WindowTyped, WindowRecords
  <2> QED BY <1>1, <2>1 DEF Window!Refocus, WindowTyped
<1> QED BY <1>1, <1>3, <1>4, WindowEndsUndone

\* Call c does something to its window, which it has locked.
LEMMA WindowShaping ==
    ASSUME WindowApart, WindowInv, NEW c \in WindowCalls, NEW q \in WindowRecords,
           WindowRecord(q), windowCall' = [windowCall EXCEPT ![c] = q],
           NEW w \in Windows, windowCall[c].on = w, q.on = w, lock[w] = c,
           UNCHANGED <<given, meddling, lock, windowLease>>,
           shape' \in [Windows -> {"normal", "minimized", "staged", "gone"}],
           \A v \in Windows \ {w} : shape'[v] = shape[v],
           windowFront' \in Windows \cup {"nobody"},
           \A v \in Windows \ {w} : v \in excused' <=> v \in excused,
           excused \subseteq excused', excused' \subseteq Windows,
           q.pc \in WindowLate => w \in excused' \/ q.found = given[w],
           shape'[w] = "gone" => given[w] = "gone",
           w \notin excused' /\ shape'[w] # given[w] => q.pc \in WindowLate
    PROVE  WindowInv'
<1> USE DEF WindowInv
<1>1. WindowTyped'
  BY DEF WindowTyped
<1>2. windowCall'[c] = q /\ \A d \in WindowCalls \ {c} : windowCall'[d] = windowCall[d]
  BY DEF WindowTyped
<1>3. ASSUME NEW d \in WindowCalls PROVE WindowRecord(windowCall[d])' /\ WindowHas(d)'
  <2>1. CASE d = c
    <3>1. WindowRecord(windowCall[c])'
      BY <1>2 DEF WindowRecord
    <3>2. WindowHas(c)'
      BY <1>2 DEF WindowHas
    <3> QED BY <2>1, <3>1, <3>2
  <2>2. CASE d # c
    <3>1. windowCall'[d] = windowCall[d] /\ WindowRecord(windowCall[d]) /\ WindowHas(d)
      BY <1>2, <2>2
    <3>2. WindowRecord(windowCall[d])'
      BY <3>1 DEF WindowRecord
    <3>3. WindowHas(d)'
      BY <3>1 DEF WindowHas
    <3> QED BY <3>2, <3>3
  <2> QED BY <2>1, <2>2
<1>4. ASSUME NEW v \in Windows PROVE WindowLeft(v)'
  <2>1. WindowLeft(v)
    OBVIOUS
  <2>2. CASE v = w
    BY <1>2, <2>2 DEF WindowLeft
  <2>3. CASE v # w
    <3>1. /\ shape'[v] = shape[v] /\ given'[v] = given[v] /\ lock'[v] = lock[v]
          /\ v \in excused' <=> v \in excused
      BY <2>3
    <3>2. PICK d : d = lock[v]
      OBVIOUS
    <3>3. d \in WindowCalls /\ windowCall[d].on = v => windowCall'[d] = windowCall[d]
      BY <1>2, <2>3
    <3> QED BY <2>1, <3>1, <3>2, <3>3 DEF WindowLeft
  <2> QED BY <2>2, <2>3
<1> QED BY <1>1, <1>3, <1>4

LEMMA WindowCapture ==
    ASSUME WindowBounded, WindowApart, WindowInv, NEW c \in WindowCalls, Window!Capture(c)
    PROVE  WindowInv'
<1>1. /\ windowCall[c].pc = "capturing" /\ WindowTyped /\ WindowRecord(windowCall[c])
      /\ WindowHas(c) /\ UNCHANGED <<windowFront, given, excused, meddling>>
  BY DEF WindowInv, Window!Capture, Window!At
<1>2. windowCall[c].pc \notin WindowLate /\ windowCall[c].pc \in WindowBusy
      /\ windowFront' \in Windows \cup {"nobody"}
  BY <1>1 DEF WindowLate, WindowBusy, WindowStages, WindowTyped
<1>3. ASSUME NEW answer \in {"accepted", "error"}, Window!Ends(c, answer, FALSE),
             UNCHANGED shape
      PROVE  WindowInv'
  BY <1>1, <1>2, <1>3, WindowEndsUndone
<1>4. PICK r, w, q : /\ r = windowCall[c] /\ w = r.on
                     /\ q = [r EXCEPT !.pc = "framing", !.found = "minimized",
                                      !.ahead = windowFront]
  OBVIOUS
<1>5. CASE /\ windowCall' = [windowCall EXCEPT ![c] = q] /\ shape[w] = "minimized"
           /\ shape' = [shape EXCEPT ![w] = "staged"] /\ Window!HoldsOn
  <2>1. /\ r \in WindowRecords /\ w \in Windows /\ r.strayed = 0 /\ ~r.acted /\ r.answer = ""
        /\ lock[w] = c
    BY <1>1, <1>2, <1>4
       DEF WindowTyped, WindowRecord, WindowRecords, WindowEarly, WindowHas
  <2>2. /\ q \in WindowRecords /\ q.pc = "framing" /\ q.found = "minimized" /\ q.on = w
        /\ q.strayed = r.strayed /\ q.acted = r.acted /\ q.answer = r.answer
    <3>1. "framing" \in WindowStages /\ windowFront \in Windows \cup {"nobody"}
      BY <1>1 DEF WindowStages, WindowTyped
    <3> QED BY <1>4, <2>1, <3>1 DEF WindowRecords
  <2>3. WindowRecord(q) /\ q.pc \in WindowLate
    BY <2>1, <2>2 DEF WindowRecord, WindowLate
  <2>4. w \in excused \/ q.found = given[w]
    <3>1. WindowLeft(w)
      BY <2>1 DEF WindowInv
    <3> QED BY <1>2, <1>4, <1>5, <2>1, <2>2, <3>1 DEF WindowLeft
  <2>5. /\ shape' \in [Windows -> {"normal", "minimized", "staged", "gone"}]
        /\ \A v \in Windows \ {w} : shape'[v] = shape[v]
        /\ shape'[w] = "staged" /\ excused' = excused /\ excused \subseteq Windows
    BY <1>1, <1>5, <2>1 DEF WindowTyped
  <2>6. /\ windowCall' = [windowCall EXCEPT ![c] = q] /\ windowCall[c].on = w
        /\ UNCHANGED <<given, meddling, lock, windowLease>>
    BY <1>1, <1>4, <1>5 DEF Window!HoldsOn
  <2>7. /\ windowFront' \in Windows \cup {"nobody"}
        /\ \A v \in Windows \ {w} : v \in excused' <=> v \in excused
        /\ excused \subseteq excused' /\ excused' \subseteq Windows
        /\ shape'[w] = "gone" => given[w] = "gone"
    BY <1>1, <1>2, <2>5
  <2>8. /\ q.pc \in WindowLate => w \in excused' \/ q.found = given[w]
        /\ w \notin excused' /\ shape'[w] # given[w] => q.pc \in WindowLate
    BY <2>3, <2>4, <2>5
  <2> QED BY <2>1, <2>2, <2>3, <2>5, <2>6, <2>7, <2>8, WindowShaping
<1> QED
  <2>1. \/ \E answer \in {"accepted", "error"} :
              Window!Ends(c, answer, FALSE) /\ UNCHANGED shape
        \/ /\ windowCall' = [windowCall EXCEPT ![c] = q] /\ shape[w] = "minimized"
           /\ shape' = [shape EXCEPT ![w] = "staged"] /\ Window!HoldsOn
    <3>1. CASE shape[w] = "minimized"
      BY <1>4, <3>1 DEF Window!Capture
    <3>2. CASE shape[w] # "minimized"
      BY <1>4, <3>2, Zenon DEF Window!Capture
    <3> QED BY <3>1, <3>2
  <2> QED BY <1>3, <1>5, <2>1

LEMMA WindowFronts ==
    ASSUME WindowBounded, WindowApart, WindowInv, NEW c \in WindowCalls, Window!Front(c)
    PROVE  WindowInv'
<1>1. /\ windowCall[c].pc = "fronting" /\ WindowTyped /\ WindowRecord(windowCall[c])
      /\ WindowHas(c) /\ UNCHANGED <<given, excused, meddling>>
  BY DEF WindowInv, Window!Front, Window!At
<1>2. windowCall[c].pc \notin WindowLate /\ windowCall[c].pc \in WindowBusy
  BY <1>1 DEF WindowLate, WindowBusy, WindowStages
<1>3. CASE Window!Ends(c, "error", FALSE) /\ UNCHANGED <<shape, windowFront>>
  BY <1>1, <1>2, <1>3, WindowEndsUndone DEF WindowTyped
<1>4. PICK r, w, s : r = windowCall[c] /\ w = r.on /\ s = shape[w]
  OBVIOUS
<1>5. PICK noted : noted = [r EXCEPT !.found = s, !.ahead = windowFront]
  OBVIOUS
<1>6. ASSUME s # "gone", Window!HoldsOn, shape' = [shape EXCEPT ![w] = "normal"], NEW q,
             windowCall' = [windowCall EXCEPT ![c] = q],
             \/ q = [noted EXCEPT !.pc = "focusing"]
             \/ q = [noted EXCEPT !.pc = "putting back", !.answer = "refused"],
             windowFront' \in Windows \cup {"nobody"}
      PROVE  WindowInv'
  <2>1. /\ r \in WindowRecords /\ w \in Windows /\ r.strayed = 0 /\ ~r.acted /\ r.answer = ""
        /\ lock[w] = c
    BY <1>1, <1>2, <1>4
       DEF WindowTyped, WindowRecord, WindowRecords, WindowEarly, WindowHas
  <2>2. s \in {"normal", "minimized", "staged"} /\ windowFront \in Windows \cup {"nobody"}
    BY <1>1, <1>4, <1>6, <2>1 DEF WindowTyped
  <2>3. /\ noted \in WindowRecords /\ noted.found = s /\ noted.on = w
        /\ noted.strayed = r.strayed /\ noted.acted = r.acted /\ noted.answer = r.answer
    BY <1>4, <1>5, <2>1, <2>2 DEF WindowRecords
  <2>4. /\ q \in WindowRecords /\ q.found = s /\ q.on = w /\ q.strayed = 0 /\ ~q.acted
        /\ \/ q.pc = "focusing" /\ q.answer = ""
           \/ q.pc = "putting back" /\ q.answer = "refused"
    <3>1. CASE q = [noted EXCEPT !.pc = "focusing"]
      <4>1. "focusing" \in WindowStages
        BY DEF WindowStages
      <4>2. q \in WindowRecords
        BY <2>3, <3>1, <4>1 DEF WindowRecords
      <4>3. /\ q.on = noted.on /\ q.found = noted.found /\ q.strayed = noted.strayed
            /\ q.pc = "focusing" /\ q.answer = noted.answer /\ q.acted = noted.acted
        BY <2>3, <3>1 DEF WindowRecords
      <4> QED BY <2>1, <2>3, <4>2, <4>3
    <3>2. CASE q = [noted EXCEPT !.pc = "putting back", !.answer = "refused"]
      <4>1. "putting back" \in WindowStages
        BY DEF WindowStages
      <4>2. q \in WindowRecords
        BY <2>3, <3>2, <4>1 DEF WindowRecords
      <4>3. /\ q.on = noted.on /\ q.found = noted.found /\ q.strayed = noted.strayed
            /\ q.pc = "putting back" /\ q.answer = "refused" /\ q.acted = noted.acted
        BY <2>3, <3>2 DEF WindowRecords
      <4> QED BY <2>1, <2>3, <4>2, <4>3
    <3> QED BY <1>6, <3>1, <3>2
  <2>5. WindowRecord(q) /\ q.pc \in WindowLate
    BY <2>1, <2>4 DEF WindowRecord, WindowLate, WindowEarly
  <2>6. w \in excused \/ q.found = given[w]
    <3>1. WindowLeft(w)
      BY <2>1 DEF WindowInv
    <3> QED BY <1>2, <1>4, <2>1, <2>4, <3>1 DEF WindowLeft
  <2>7. /\ shape' \in [Windows -> {"normal", "minimized", "staged", "gone"}]
        /\ \A v \in Windows \ {w} : shape'[v] = shape[v]
        /\ shape'[w] = "normal" /\ excused' = excused /\ excused \subseteq Windows
    BY <1>1, <1>6, <2>1 DEF WindowTyped
  <2>8. /\ windowCall' = [windowCall EXCEPT ![c] = q] /\ windowCall[c].on = w
        /\ UNCHANGED <<given, meddling, lock, windowLease>>
    BY <1>1, <1>4, <1>6 DEF Window!HoldsOn
  <2>9. /\ windowFront' \in Windows \cup {"nobody"}
        /\ \A v \in Windows \ {w} : v \in excused' <=> v \in excused
        /\ excused \subseteq excused' /\ excused' \subseteq Windows
        /\ shape'[w] = "gone" => given[w] = "gone"
    BY <1>6, <2>7
  <2>10. /\ q.pc \in WindowLate => w \in excused' \/ q.found = given[w]
         /\ w \notin excused' /\ shape'[w] # given[w] => q.pc \in WindowLate
    BY <2>5, <2>6, <2>7
  <2> QED BY <2>1, <2>4, <2>5, <2>7, <2>8, <2>9, <2>10, WindowShaping
<1>7. CASE ~Window!Gone(c) /\ ~(Window!Ends(c, "error", FALSE) /\ UNCHANGED <<shape, windowFront>>)
  <2>1. /\ s # "gone" /\ Window!HoldsOn /\ shape' = [shape EXCEPT ![w] = "normal"]
        /\ \/ /\ windowCall' = [windowCall EXCEPT ![c] = [noted EXCEPT !.pc = "focusing"]]
              /\ windowFront' = w
           \/ /\ windowCall' = [windowCall EXCEPT ![c] =
                    [noted EXCEPT !.pc = "putting back", !.answer = "refused"]]
              /\ UNCHANGED windowFront
    BY <1>4, <1>5, <1>7 DEF Window!Front, Window!Gone
  <2>2. w \in Windows /\ windowFront \in Windows \cup {"nobody"}
    BY <1>1, <1>4 DEF WindowRecord, WindowTyped
  <2>3. PICK q : /\ windowCall' = [windowCall EXCEPT ![c] = q]
                 /\ \/ q = [noted EXCEPT !.pc = "focusing"]
                    \/ q = [noted EXCEPT !.pc = "putting back", !.answer = "refused"]
    BY <2>1
  <2> QED BY <1>6, <2>1, <2>2, <2>3
<1> QED BY <1>3, <1>7 DEF Window!Front

LEMMA WindowPutBack ==
    ASSUME WindowBounded, WindowApart, WindowInv, NEW c \in WindowCalls, Window!PutBack(c)
    PROVE  WindowInv'
<1>1. /\ windowCall[c].pc = "putting back" /\ WindowTyped /\ WindowRecord(windowCall[c])
      /\ WindowHas(c) /\ UNCHANGED <<windowFront, given, meddling, lock, windowLease>>
  BY DEF WindowInv, Window!PutBack, Window!At, Window!HoldsOn
<1>2. PICK r, w, q : /\ r = windowCall[c] /\ w = r.on /\ q = [r EXCEPT !.pc = "refocusing"]
  OBVIOUS
<1>3. /\ r \in WindowRecords /\ w \in Windows /\ lock[w] = c
      /\ w \in excused \/ r.found = given[w]
      /\ r.found \in {"normal", "minimized", "staged"}
  BY <1>1, <1>2 DEF WindowTyped, WindowRecord, WindowRecords, WindowHas, WindowBusy,
     WindowStages, WindowLate
<1>4. /\ q \in WindowRecords /\ q.pc = "refocusing" /\ q.on = w
      /\ q.strayed = r.strayed /\ q.acted = r.acted /\ q.answer = r.answer
  <2>1. "refocusing" \in WindowStages
    BY DEF WindowStages
  <2> QED BY <1>2, <1>3, <2>1, WindowGoes
<1>5. WindowRecord(q) /\ q.pc \notin WindowLate
  <2>1. WindowRecord(r)
    BY <1>1, <1>2
  <2> QED BY <1>3, <1>4, <2>1 DEF WindowRecord, WindowLate, WindowEarly
<1>6. windowCall' = [windowCall EXCEPT ![c] = q]
  BY <1>1, <1>2 DEF Window!PutBack, Window!Goes, WindowTyped
<1>7. WindowLeft(w)
  BY <1>3 DEF WindowInv
<1>8. /\ shape' \in [Windows -> {"normal", "minimized", "staged", "gone"}]
      /\ \A v \in Windows \ {w} : shape'[v] = shape[v]
      /\ shape'[w] = "gone" => given[w] = "gone"
      /\ excused \subseteq excused' /\ excused' \subseteq excused \cup {w}
      /\ w \in excused' \/ shape'[w] = given[w]
  <2>1. CASE UNCHANGED <<shape, excused>> /\ shape[w] = "gone"
    BY <1>1, <1>3, <1>7, <2>1 DEF WindowTyped, WindowLeft
  <2>2. CASE shape' = [shape EXCEPT ![w] = r.found] /\ UNCHANGED excused
    BY <1>1, <1>3, <2>2 DEF WindowTyped
  <2>3. CASE excused' = excused \cup {w} /\ UNCHANGED shape
    BY <1>1, <1>3, <1>7, <2>3 DEF WindowTyped, WindowLeft
  <2> QED BY <1>2, <2>1, <2>2, <2>3 DEF Window!PutBack, Window!Gone
<1>9. /\ excused' \subseteq Windows /\ \A v \in Windows \ {w} : v \in excused' <=> v \in excused
      /\ windowFront' \in Windows \cup {"nobody"}
  BY <1>1, <1>3, <1>8 DEF WindowTyped
<1> QED BY <1>1, <1>2, <1>3, <1>4, <1>5, <1>6, <1>8, <1>9, WindowShaping

\* The person at the desk.
LEMMA WindowMeddles ==
    ASSUME WindowBounded, WindowApart, WindowInv,
           \/ \E w \in Windows : Window!Minimize(w) \/ Window!Reopen(w) \/ Window!Close(w)
           \/ \E w \in Windows \cup {"nobody"} : Window!Turn(w)
    PROVE  WindowInv'
<1> USE DEF WindowInv
<1>1. /\ meddling' \in 0 .. MaxMeddling /\ UNCHANGED <<windowCall, lock, windowLease>>
      /\ WindowTyped
  BY DEF Window!Minimize, Window!Reopen, Window!Close, Window!Turn, Window!Meddles,
     WindowTyped, WindowBounded
<1>2. CASE \E w \in Windows \cup {"nobody"} : Window!Turn(w)
  <2>1. UNCHANGED <<shape, given, excused>> /\ windowFront' \in Windows \cup {"nobody"}
    BY <1>2 DEF Window!Turn
  <2>2. WindowTyped'
    BY <1>1, <2>1 DEF WindowTyped
  <2>3. \A c \in WindowCalls : WindowRecord(windowCall[c])' /\ WindowHas(c)'
    BY <1>1, <2>1 DEF WindowRecord, WindowHas
  <2>4. \A w \in Windows : WindowLeft(w)'
    BY <1>1, <2>1 DEF WindowLeft
  <2> QED BY <2>2, <2>3, <2>4
<1>3. ASSUME NEW w \in Windows, NEW s \in {"normal", "minimized", "gone"}, Window!Shapes(w, s)
      PROVE  WindowInv'
  <2>1. /\ shape' = [shape EXCEPT ![w] = s] /\ given' = [given EXCEPT ![w] = s]
        /\ excused' \subseteq excused \cup {w} /\ excused \subseteq excused' \cup {w}
        /\ lock[w] # "nobody" => w \in excused'
        /\ windowFront' \in {"nobody", windowFront}
    BY <1>3 DEF Window!Shapes, Window!Nobody
  <2>2. /\ \A v \in Windows \ {w} : /\ shape'[v] = shape[v] /\ given'[v] = given[v]
                                    /\ v \in excused' <=> v \in excused
        /\ shape'[w] = s /\ given'[w] = s
    BY <1>1, <2>1 DEF WindowTyped
  <2>3. WindowTyped'
    BY <1>1, <2>1 DEF WindowTyped
  <2>4. ASSUME NEW c \in WindowCalls PROVE WindowRecord(windowCall[c])' /\ WindowHas(c)'
    <3>1. WindowRecord(windowCall[c]) /\ WindowHas(c)
      OBVIOUS
    <3>2. WindowRecord(windowCall[c])'
      BY <1>1, <3>1 DEF WindowRecord
    <3>3. windowCall[c].pc \in WindowLate =>
             windowCall[c].pc \in WindowBusy /\ windowCall[c].on \in Windows
      BY <3>1 DEF WindowLate, WindowBusy, WindowStages, WindowRecord
    <3>4. WindowHas(c)'
      BY <1>1, <2>1, <2>2, <3>1, <3>3 DEF WindowHas, WindowApart
    <3> QED BY <3>2, <3>4
  <2>5. ASSUME NEW v \in Windows PROVE WindowLeft(v)'
    <3>1. WindowLeft(v)
      OBVIOUS
    <3> QED BY <1>1, <2>2, <3>1 DEF WindowLeft
  <2> QED BY <2>3, <2>4, <2>5
<1> QED BY <1>2, <1>3 DEF Window!Minimize, Window!Reopen, Window!Close

LEMMA WindowStutter ==
    ASSUME WindowInv, UNCHANGED windowVars
    PROVE  WindowInv'
<1> USE DEF WindowInv, windowVars
<1>1. WindowTyped'
  BY DEF WindowTyped
<1>2. \A c \in WindowCalls : WindowRecord(windowCall[c])' /\ WindowHas(c)'
  BY DEF WindowRecord, WindowHas
<1>3. \A w \in Windows : WindowLeft(w)'
  BY DEF WindowLeft
<1> QED BY <1>1, <1>2, <1>3

LEMMA WindowPreserved ==
    ASSUME WindowBounded, WindowApart, WindowInv, [Window!Next]_windowVars
    PROVE  WindowInv'
<1>1. ASSUME NEW c \in WindowCalls, NEW op \in Window!Ops \ {"look"}, NEW w \in Windows,
             NEW by \in Window!Targets, Window!Ask(c, op, w, by)
      PROVE  WindowInv'
  BY <1>1, WindowAsk
<1>2. ASSUME NEW c \in WindowCalls, NEW w \in Windows, Window!Ask(c, "look", w, "point")
      PROVE  WindowInv'
  <2>1. "look" \in Window!Ops /\ "point" \in Window!Targets
    BY DEF Window!Ops, Window!Targets
  <2> QED BY <1>2, <2>1, WindowAsk
<1>3. ASSUME NEW c \in WindowCalls,
             \/ Window!Enter(c) \/ Window!Background(c) \/ Window!Lease(c)
             \/ Window!LeaseTimeout(c) \/ Window!Look(c) \/ Window!Capture(c)
             \/ Window!Frame(c) \/ Window!Front(c) \/ Window!Focus(c) \/ Window!Check(c)
             \/ Window!Send(c) \/ Window!PutBack(c) \/ Window!Refocus(c)
      PROVE  WindowInv'
  BY <1>3, WindowEnter, WindowBackground, WindowCapture, WindowFrame, WindowFronts,
     WindowFocus, WindowCheck, WindowSend, WindowPutBack, WindowRefocus
<1>4. CASE \/ \E w \in Windows : Window!Minimize(w) \/ Window!Reopen(w) \/ Window!Close(w)
           \/ \E w \in Windows \cup {"nobody"} : Window!Turn(w)
  BY <1>4, WindowMeddles
<1>5. CASE UNCHANGED windowVars
  BY <1>5, WindowStutter
<1> QED BY <1>1, <1>2, <1>3, <1>4, <1>5 DEF Window!Next, Window!Nobody

LEMMA WindowImplies ==
    ASSUME WindowBounded, WindowApart, WindowInv
    PROVE  Window!TypeOK /\ Window!WindowsAnswerTrue
<1> USE DEF WindowInv
<1>1. Window!TypeOK
  BY DEF Window!TypeOK, WindowTyped, WindowRecords, WindowStages, Window!Nobody
<1>2. Window!RefusedDidNothing /\ Window!FewEventsStray
  <2>1. \A c \in WindowCalls : WindowRecord(windowCall[c])
    OBVIOUS
  <2>2. ASSUME NEW c \in WindowCalls
        PROVE  /\ windowCall[c].answer = "refused" => ~windowCall[c].acted
               /\ windowCall[c].strayed \in {0, 1}
    BY <2>1 DEF WindowRecord
  <2>3. Window!RefusedDidNothing
    BY <2>2 DEF Window!RefusedDidNothing
  <2>4. ASSUME NEW c \in WindowCalls PROVE windowCall[c].strayed <= 1
    <3>1. PICK n : n = windowCall[c].strayed
      OBVIOUS
    <3>2. n = 0 \/ n = 1
      BY <2>2, <3>1
    <3>3. n <= 1
      BY <3>2
    <3> QED BY <3>1, <3>3
  <2> QED BY <2>3, <2>4 DEF Window!FewEventsStray
<1>3. Window!LeftAsFound
  BY DEF WindowLeft, Window!LeftAsFound, Window!Nobody, WindowApart
<1> QED BY <1>1, <1>2, <1>3 DEF Window!WindowsAnswerTrue

-----------------------------------------------------------------------------
(* The runtime and the tunnel of a profile (ClientRuntimes). *)

ClientBounded == {MaxBirths, MaxCrashes} \subseteq Nat
ClientApart == "none" \notin Pids

ClientSessions ==
    [runtime : Client!Refs, tunnel : Client!Refs, started : Client!Refs]
ClientFiles ==
    [runtime : Client!Refs, tunnel : Client!Refs, of : Settings \cup {"none"}]
ClientJobs ==
    [at : {"idle", "check", "launch", "tunnel", "recover", "status",
           "stop", "stopRuntime", "clear"},
     runtime : Client!Refs, tunnel : Client!Refs, started : Client!Refs]
ClientTyped ==
    /\ process \in [Pids -> [birth : 0 .. MaxBirths, kind : Client!Kinds \cup {"none"},
                             of : Settings \cup {"none"}, up : BOOLEAN]]
    /\ setting \in Settings
    /\ known \in ClientSessions /\ file \in ClientFiles /\ job \in ClientJobs
    /\ births \in 0 .. MaxBirths /\ clientCrashes \in 0 .. MaxCrashes
    /\ seen \subseteq 1 .. births

\* What is remembered of a process was one, and what is remembered as a tunnel
\* is a tunnel as long as it lives.
ClientRef(r) == r \in [pid : Pids, birth : 0 .. births] \cup {Client!NoRef}
ClientTunnelRef(r) ==
    r = Client!NoRef \/ /\ r \in [pid : Pids, birth : 1 .. births]
                        /\ process[r.pid].birth = r.birth => process[r.pid].kind = "tunnel"
ClientRefs ==
    /\ ClientRef(known.runtime) /\ ClientRef(known.started) /\ ClientRef(file.runtime)
    /\ ClientRef(job.runtime) /\ ClientRef(job.started)
    /\ ClientTunnelRef(known.tunnel) /\ ClientTunnelRef(file.tunnel)
    /\ ClientTunnelRef(job.tunnel)
    /\ job.at = "launch" => job.tunnel = Client!NoRef

\* A birth is one process's, and one process listens on a port.
ClientListens(p) == process[p].up /\ process[p].kind # "tunnel"
ClientProcesses ==
    /\ \A p \in Pids : \/ process[p] = Client!Free
                       \/ /\ process[p].birth \in 1 .. births
                          /\ process[p].kind \in Client!Kinds /\ process[p].of \in Settings
    /\ \A p, q \in Pids :
          process[p].birth = process[q].birth /\ process[p].birth # 0 => p = q
    /\ \A p, q \in Pids :
          ClientListens(p) /\ ClientListens(q) /\ process[p].of = process[q].of => p = q

\* A runtime that was seen listens for the present settings, and the session is
\* of it or empty; the step of a start or a stop that needs it knows it.
ClientSeen(p) == process[p].kind = "runtime" /\ process[p].birth \in seen
ClientIs(p, r) == r = [pid |-> p, birth |-> process[p].birth]
ClientFinds(p) ==
    /\ process[p].of = setting /\ process[p].up
    /\ job.at # "tunnel" => known = Client!NoSession \/ ClientIs(p, known.runtime)
    /\ job.at \in {"tunnel", "recover", "stop", "stopRuntime"} => ClientIs(p, job.runtime)
    /\ job.at \notin {"launch", "clear"}

\* A tunnel is of the present settings, and the only one.
ClientTunnel(p) == process[p].kind = "tunnel"
ClientLeads(p) ==
    /\ process[p].of = setting /\ setting \in Tunnelled
    /\ job.at = "stop" => ClientIs(p, job.tunnel)
    /\ job.at \notin {"check", "launch", "stopRuntime", "clear"}
    /\ \A q \in Pids : ClientTunnel(q) => p = q

ClientInv ==
    /\ ClientTyped /\ ClientRefs /\ ClientProcesses
    /\ \A p \in Pids : ClientSeen(p) => ClientFinds(p)
    /\ \A p \in Pids : ClientTunnel(p) => ClientLeads(p)

LEMMA ClientInitInv ==
    ASSUME ClientBounded, ClientApart, Client!Init
    PROVE  ClientInv
<1> USE DEF Client!Init, Client!Free, Client!NoSession, Client!NoFile, Client!NoJob,
            Client!NoRef
<1>1. ClientTyped
  <2>1. Client!NoRef \in Client!Refs /\ 0 \in 0 .. MaxBirths /\ 0 \in 0 .. MaxCrashes
    BY DEF Client!Refs, ClientBounded
  <2> QED BY <2>1 DEF ClientTyped, ClientSessions, ClientFiles, ClientJobs
<1>2. ClientRefs
  BY DEF ClientRefs, ClientRef, ClientTunnelRef
<1>3. ClientProcesses
  BY DEF ClientProcesses, ClientListens
<1>4. \A p \in Pids : ~ClientSeen(p) /\ ~ClientTunnel(p)
  BY DEF ClientSeen, ClientTunnel
<1> QED BY <1>1, <1>2, <1>3, <1>4 DEF ClientInv

\* Processes end: what is remembered of them may still be remembered.
ClientFrees ==
    /\ process' \in [Pids -> {process[p] : p \in Pids} \cup {Client!Free}]
    /\ \A p \in Pids : process'[p] \in {process[p], Client!Free}
    /\ UNCHANGED <<births, seen>>

LEMMA ClientEnding ==
    ASSUME ClientBounded, ClientTyped, ClientProcesses, ClientFrees
    PROVE  /\ ClientProcesses'
           /\ process' \in [Pids -> [birth : 0 .. MaxBirths, kind : Client!Kinds \cup {"none"},
                                     of : Settings \cup {"none"}, up : BOOLEAN]]
           /\ \A p \in Pids : ClientSeen(p)' => ClientSeen(p) /\ process'[p] = process[p]
           /\ \A p \in Pids : ClientTunnel(p)' => ClientTunnel(p) /\ process'[p] = process[p]
<1>1. ASSUME NEW p \in Pids
      PROVE  \/ process'[p] = process[p]
             \/ /\ process'[p] = Client!Free /\ ~ClientListens(p)' /\ ~ClientSeen(p)'
                /\ ~ClientTunnel(p)' /\ process'[p].birth = 0
  BY DEF ClientFrees, Client!Free, ClientListens, ClientSeen, ClientTunnel
<1>2. ClientProcesses'
  <2>1. \A p \in Pids : \/ process'[p] = Client!Free
                        \/ /\ process'[p].birth \in 1 .. births'
                           /\ process'[p].kind \in Client!Kinds /\ process'[p].of \in Settings
    BY <1>1 DEF ClientProcesses, ClientFrees
  <2>2. \A p, q \in Pids :
           process'[p].birth = process'[q].birth /\ process'[p].birth # 0 => p = q
    BY <1>1 DEF ClientProcesses
  <2>3. \A p, q \in Pids :
           ClientListens(p)' /\ ClientListens(q)' /\ process'[p].of = process'[q].of => p = q
    BY <1>1 DEF ClientProcesses, ClientListens
  <2> QED BY <2>1, <2>2, <2>3 DEF ClientProcesses
<1>3. process' \in [Pids -> [birth : 0 .. MaxBirths, kind : Client!Kinds \cup {"none"},
                             of : Settings \cup {"none"}, up : BOOLEAN]]
  <2>1. Client!Free \in [birth : 0 .. MaxBirths, kind : Client!Kinds \cup {"none"},
                         of : Settings \cup {"none"}, up : BOOLEAN]
    <3>1. 0 \in 0 .. MaxBirths
      BY DEF ClientBounded
    <3> QED BY <3>1 DEF Client!Free
  <2> QED BY <2>1 DEF ClientFrees, ClientTyped
<1>4. \A p \in Pids : ClientSeen(p)' => ClientSeen(p) /\ process'[p] = process[p]
  BY <1>1 DEF ClientSeen, ClientFrees
<1>5. \A p \in Pids : ClientTunnel(p)' => ClientTunnel(p) /\ process'[p] = process[p]
  BY <1>1 DEF ClientTunnel
<1> QED BY <1>2, <1>3, <1>4, <1>5

LEMMA ClientEndingRef ==
    ASSUME ClientTyped, ClientFrees, NEW r
    PROVE  (ClientRef(r) => ClientRef(r)') /\ (ClientTunnelRef(r) => ClientTunnelRef(r)')
<1>1. ClientRef(r) => ClientRef(r)'
  BY DEF ClientRef, ClientFrees
<1>2. ASSUME ClientTunnelRef(r) PROVE ClientTunnelRef(r)'
  <2>1. CASE r = Client!NoRef
    BY <2>1 DEF ClientTunnelRef
  <2>2. CASE r # Client!NoRef
    <3>1. /\ r \in [pid : Pids, birth : 1 .. births]
          /\ r.pid \in Pids /\ r.birth \in 1 .. births
          /\ process[r.pid].birth = r.birth => process[r.pid].kind = "tunnel"
      BY <1>2, <2>2 DEF ClientTunnelRef
    <3>2. process'[r.pid] = process[r.pid] \/ process'[r.pid].birth = 0
      BY <3>1 DEF ClientFrees, Client!Free
    <3>3. r.birth # 0 /\ births' = births
      BY <3>1 DEF ClientFrees
    <3> QED BY <3>1, <3>2, <3>3 DEF ClientTunnelRef
  <2> QED BY <2>1, <2>2
<1> QED BY <1>1, <1>2

LEMMA ClientEndFrees ==
    ASSUME ClientTyped, NEW refs, Client!End(refs), UNCHANGED <<births, seen>>
    PROVE  /\ ClientFrees
           /\ \A p \in Pids, r \in refs : r.pid = p /\ Client!Lives(r) =>
                 process'[p] = Client!Free
BY DEF Client!End, ClientFrees, ClientTyped

\* A process is born: it is none that is remembered.
LEMMA ClientBirth ==
    ASSUME ClientBounded, ClientTyped, ClientProcesses, NEW p \in Pids, NEW kind \in Client!Kinds,
           NEW s \in Settings, NEW up \in BOOLEAN, Client!Born(p, kind, s, up),
           up => kind # "tunnel" /\ \A q \in Pids : ClientListens(q) => process[q].of # s
    PROVE  /\ ClientProcesses' /\ births' = births + 1 /\ births' \in 1 .. MaxBirths
           /\ process' \in [Pids -> [birth : 0 .. MaxBirths, kind : Client!Kinds \cup {"none"},
                                     of : Settings \cup {"none"}, up : BOOLEAN]]
           /\ \A q \in Pids \ {p} : process'[q] = process[q]
           /\ process'[p].birth = births + 1 /\ process'[p].kind = kind
           /\ process'[p].of = s
           /\ \A r : (ClientRef(r) => ClientRef(r)')
                       /\ (ClientTunnelRef(r) => ClientTunnelRef(r)')
<1>1. PICK n : n = [birth |-> births + 1, kind |-> kind, of |-> s, up |-> up]
  OBVIOUS
<1>2. /\ births' = births + 1 /\ births + 1 \in 1 .. MaxBirths /\ births \in Nat
      /\ process' = [process EXCEPT ![p] = n]
  BY <1>1 DEF Client!Born, ClientTyped, ClientBounded
<1>3. /\ n.birth = births + 1 /\ n.kind = kind /\ n.of = s /\ n.up = up
      /\ n \in [birth : 0 .. MaxBirths, kind : Client!Kinds \cup {"none"},
                of : Settings \cup {"none"}, up : BOOLEAN]
  BY <1>1, <1>2
<1>4. process'[p] = n /\ \A q \in Pids \ {p} : process'[q] = process[q]
  BY <1>2 DEF ClientTyped
<1>5. process' \in [Pids -> [birth : 0 .. MaxBirths, kind : Client!Kinds \cup {"none"},
                             of : Settings \cup {"none"}, up : BOOLEAN]]
  BY <1>2, <1>3 DEF ClientTyped
<1>6. \A q \in Pids : process[q].birth \in 0 .. births
  BY DEF ClientProcesses, Client!Free, ClientTyped
<1>7. ClientProcesses'
  <2>1. \A q \in Pids : \/ process'[q] = Client!Free
                        \/ /\ process'[q].birth \in 1 .. births'
                           /\ process'[q].kind \in Client!Kinds /\ process'[q].of \in Settings
    <3>1. ASSUME NEW q \in Pids \ {p}, process'[q] # Client!Free
          PROVE  /\ process'[q].birth \in 1 .. births'
                 /\ process'[q].kind \in Client!Kinds /\ process'[q].of \in Settings
      BY <1>2, <1>4, <3>1 DEF ClientProcesses
    <3>2. /\ process'[p].birth \in 1 .. births'
          /\ process'[p].kind \in Client!Kinds /\ process'[p].of \in Settings
      BY <1>2, <1>3, <1>4
    <3> QED BY <3>1, <3>2
  <2>2. \A q, r \in Pids :
           process'[q].birth = process'[r].birth /\ process'[q].birth # 0 => q = r
    <3>1. \A q \in Pids \ {p} : process'[q].birth # process'[p].birth
      BY <1>2, <1>3, <1>4, <1>6
    <3> QED BY <1>4, <3>1 DEF ClientProcesses
  <2>3. ASSUME NEW q \in Pids, NEW r \in Pids, ClientListens(q)', ClientListens(r)',
               process'[q].of = process'[r].of, q # r
        PROVE  FALSE
    <3>1. \A v \in Pids \ {p} : ClientListens(v)' => ClientListens(v)
      BY <1>4 DEF ClientListens
    <3>2. ClientListens(p)' => up
      BY <1>3, <1>4 DEF ClientListens
    <3>3. CASE q # p /\ r # p
      BY <1>4, <2>3, <3>1, <3>3 DEF ClientProcesses
    <3>4. CASE q = p
      BY <1>3, <1>4, <2>3, <3>1, <3>2, <3>4
    <3>5. CASE r = p
      BY <1>3, <1>4, <2>3, <3>1, <3>2, <3>5
    <3> QED BY <2>3, <3>3, <3>4, <3>5
  <2> QED BY <2>1, <2>2, <2>3 DEF ClientProcesses
<1>8. ASSUME NEW r
      PROVE  (ClientRef(r) => ClientRef(r)') /\ (ClientTunnelRef(r) => ClientTunnelRef(r)')
  <2>1. ClientRef(r) => ClientRef(r)'
    <3>1. \A m \in 0 .. births : m \in 0 .. births'
      BY <1>2
    <3> QED BY <3>1 DEF ClientRef
  <2>2. CASE r = Client!NoRef
    BY <2>1, <2>2 DEF ClientTunnelRef
  <2>3. ASSUME r # Client!NoRef, ClientTunnelRef(r) PROVE ClientTunnelRef(r)'
    <3>1. /\ r \in [pid : Pids, birth : 1 .. births]
          /\ r.pid \in Pids /\ r.birth \in 1 .. births
          /\ process[r.pid].birth = r.birth => process[r.pid].kind = "tunnel"
      BY <2>3 DEF ClientTunnelRef
    <3>2. process'[p].birth # r.birth
      BY <1>2, <1>3, <1>4, <3>1
    <3>3. process'[r.pid].birth = r.birth => process'[r.pid].kind = "tunnel"
      BY <1>4, <3>1, <3>2
    <3>4. r \in [pid : Pids, birth : 1 .. births']
      BY <1>2, <3>1
    <3> QED BY <3>1, <3>3, <3>4 DEF ClientTunnelRef
  <2> QED BY <2>1, <2>2, <2>3
<1> QED BY <1>2, <1>3, <1>4, <1>5, <1>7, <1>8

\* What the client finds.
LEMMA ClientListener ==
    ASSUME ClientTyped, ClientApart, ClientProcesses, NEW s
    PROVE  /\ Client!Listener(s) # Client!NoRef =>
                 \E p \in Pids : /\ ClientIs(p, Client!Listener(s)) /\ ClientListens(p)
                                 /\ process[p].of = s /\ process[p].birth \in 1 .. births
           /\ \A p \in Pids : ClientListens(p) /\ process[p].of = s =>
                 ClientIs(p, Client!Listener(s)) /\ Client!Listener(s) # Client!NoRef
<1>1. PICK S : S = {p \in Pids : process[p].up /\ process[p].of = s
                                   /\ process[p].kind # "tunnel"}
  OBVIOUS
<1>2. Client!Listener(s) = Client!SomeOf(S)
  BY <1>1 DEF Client!Listener
<1>3. S = {} => Client!Listener(s) = Client!NoRef
  BY <1>2 DEF Client!SomeOf
<1>4. S # {} => \E p \in S : Client!Listener(s) = [pid |-> p, birth |-> process[p].birth]
  BY <1>2 DEF Client!SomeOf, Client!Ref
<1>5. \A p \in S : p \in Pids /\ ClientListens(p) /\ process[p].of = s
  BY <1>1 DEF ClientListens
<1>6. \A p \in Pids : ClientListens(p) /\ process[p].of = s => p \in S
  BY <1>1 DEF ClientListens
<1>7. \A p \in Pids : ClientListens(p) => process[p].birth \in 1 .. births
  BY DEF ClientProcesses, ClientListens, Client!Free
<1>8. \A p, q \in S : p = q
  BY <1>5 DEF ClientProcesses
<1>9. ASSUME NEW p \in Pids, ClientListens(p), process[p].of = s
      PROVE  ClientIs(p, Client!Listener(s)) /\ Client!Listener(s) # Client!NoRef
  <2>1. p \in S
    BY <1>6, <1>9
  <2>2. Client!Listener(s) = [pid |-> p, birth |-> process[p].birth]
    BY <1>4, <1>8, <2>1
  <2> QED BY <2>2 DEF ClientIs, Client!NoRef, ClientApart
<1>10. ASSUME Client!Listener(s) # Client!NoRef
       PROVE  \E p \in Pids : /\ ClientIs(p, Client!Listener(s)) /\ ClientListens(p)
                              /\ process[p].of = s /\ process[p].birth \in 1 .. births
  BY <1>3, <1>4, <1>5, <1>7, <1>10 DEF ClientIs
<1> QED BY <1>9, <1>10

LEMMA ClientFindsRuntime ==
    ASSUME ClientApart, ClientInv
    PROVE  /\ ClientRef(Client!FindRuntime)
           /\ \A p \in Pids : ClientSeen(p) =>
                 /\ ClientIs(p, Client!Listener(setting))
                 /\ Client!Listener(setting) # Client!NoRef
                 /\ job.at # "tunnel" =>
                       ClientIs(p, Client!FindRuntime) /\ Client!FindRuntime # Client!NoRef
<1> USE DEF ClientInv
<1>1. PICK l : l = Client!Listener(setting)
  OBVIOUS
<1>2. l # Client!NoRef => l \in [pid : Pids, birth : 1 .. births]
  BY <1>1, ClientListener DEF ClientIs
<1>3. \A r, s : Client!If(Client!MatchesRuntime(r, s), r) \in {r, Client!NoRef}
  BY DEF Client!If
<1>4. Client!FindRuntime \in {known.runtime, known.started, l, file.runtime, Client!NoRef}
  BY <1>1, <1>3 DEF Client!FindRuntime, Client!First
<1>5. ClientRef(l)
  BY <1>2 DEF ClientRef
<1>6. ClientRef(Client!FindRuntime)
  <2>1. ClientRef(Client!NoRef)
    BY DEF ClientRef
  <2> QED BY <1>4, <1>5, <2>1 DEF ClientRefs
<1>7. ASSUME NEW p \in Pids, ClientSeen(p)
      PROVE  /\ ClientIs(p, l) /\ l # Client!NoRef
             /\ job.at # "tunnel" =>
                   ClientIs(p, Client!FindRuntime) /\ Client!FindRuntime # Client!NoRef
  <2>1. ClientFinds(p) /\ process[p].kind = "runtime"
    BY <1>7 DEF ClientSeen
  <2>2. ClientListens(p) /\ process[p].of = setting
    BY <2>1 DEF ClientFinds, ClientListens
  <2>3. ClientIs(p, l) /\ l # Client!NoRef
    BY <1>1, <2>2, ClientListener
  <2>4. Client!MatchesRuntime(l, setting) /\ Client!If(Client!MatchesRuntime(l, setting), l) = l
    BY <2>1, <2>2, <2>3 DEF Client!MatchesRuntime, Client!Lives, Client!Is, ClientIs, Client!If
  <2>5. CASE known = Client!NoSession
    <3>1. known.runtime = Client!NoRef /\ known.started = Client!NoRef
      BY <2>5 DEF Client!NoSession
    <3>2. Client!If(Client!MatchesRuntime(known.runtime, setting), known.runtime) = Client!NoRef
            /\ Client!If(Client!MatchesRuntime(known.started, setting), known.started)
                 = Client!NoRef
      BY <3>1 DEF Client!If
    <3>3. Client!FindRuntime = l
      BY <1>1, <2>3, <2>4, <3>2 DEF Client!FindRuntime, Client!First
    <3> QED BY <2>3, <3>3
  <2>6. CASE ClientIs(p, known.runtime)
    <3>1. known.runtime = l
      BY <2>3, <2>6 DEF ClientIs
    <3>2. Client!FindRuntime = l
      BY <1>1, <2>3, <2>4, <3>1 DEF Client!FindRuntime, Client!First
    <3> QED BY <2>3, <3>2
  <2> QED BY <2>1, <2>3, <2>5, <2>6 DEF ClientFinds
<1> QED BY <1>1, <1>6, <1>7

LEMMA ClientFindsTunnel ==
    ASSUME ClientApart, ClientInv
    PROVE  /\ ClientTunnelRef(Client!FindTunnel) /\ ClientTunnelRef(Client!FindStateTunnel)
           /\ \A p \in Pids : ClientTunnel(p) =>
                 ClientIs(p, Client!FindTunnel) /\ Client!FindTunnel # Client!NoRef
<1> USE DEF ClientInv
<1>1. PICK S, f : /\ S = {p \in Pids : Client!Is(p, "tunnel", setting)}
                  /\ f = Client!SomeOf(S)
  OBVIOUS
<1>2. \A p \in S : p \in Pids /\ ClientTunnel(p) /\ process[p].birth \in 1 .. births
  BY <1>1 DEF Client!Is, ClientTunnel, ClientProcesses, Client!Free
<1>3. /\ S = {} => f = Client!NoRef
      /\ S # {} => \E p \in S : f = [pid |-> p, birth |-> process[p].birth]
  BY <1>1 DEF Client!SomeOf, Client!Ref
<1>4. ClientTunnelRef(f)
  BY <1>2, <1>3 DEF ClientTunnelRef, ClientTunnel
<1>5. PICK k, s : /\ k = Client!If(Client!Lives(known.tunnel), known.tunnel)
                  /\ s = Client!If(Client!MatchesTunnel(file.tunnel, setting), file.tunnel)
  OBVIOUS
<1>6. /\ k \in {known.tunnel, Client!NoRef} /\ s \in {file.tunnel, Client!NoRef}
      /\ Client!FindStateTunnel \in {file.tunnel, Client!NoRef}
  BY <1>5 DEF Client!If, Client!FindStateTunnel
<1>7. ClientTunnelRef(k) /\ ClientTunnelRef(s) /\ ClientTunnelRef(Client!FindStateTunnel)
  <2>1. ClientTunnelRef(Client!NoRef)
    BY DEF ClientTunnelRef
  <2> QED BY <1>6, <2>1 DEF ClientRefs
<1>8. Client!FindTunnel \in {k, s, f, Client!NoRef}
  BY <1>1, <1>5 DEF Client!FindTunnel, Client!First, Client!If
<1>9. ClientTunnelRef(Client!FindTunnel)
  <2>1. ClientTunnelRef(Client!NoRef)
    BY DEF ClientTunnelRef
  <2> QED BY <1>4, <1>7, <1>8, <2>1
<1>10. ASSUME NEW p \in Pids, ClientTunnel(p)
       PROVE  ClientIs(p, Client!FindTunnel) /\ Client!FindTunnel # Client!NoRef
  <2>1. /\ process[p].of = setting /\ setting \in Tunnelled
        /\ \A q \in Pids : ClientTunnel(q) => p = q
    BY <1>10 DEF ClientLeads
  <2>2. p \in S
    BY <1>1, <1>10, <2>1 DEF Client!Is, ClientTunnel
  <2>3. f = [pid |-> p, birth |-> process[p].birth] /\ f # Client!NoRef
    BY <1>2, <1>3, <2>1, <2>2 DEF Client!NoRef, ClientApart
  <2>4. ASSUME NEW r, ClientTunnelRef(r), r # Client!NoRef, Client!Lives(r)
        PROVE  r.pid = p /\ r.birth = process[p].birth
    BY <2>1, <2>4 DEF ClientTunnelRef, ClientTunnel, Client!Lives
  <2>5. ASSUME k # Client!NoRef PROVE k = f
    <3>1. k = known.tunnel /\ Client!Lives(k)
      BY <1>5, <2>5 DEF Client!If
    <3>2. k \in Client!Refs
      BY <3>1 DEF ClientTyped, ClientSessions, ClientFiles
    <3> QED BY <1>7, <2>3, <2>4, <2>5, <3>1, <3>2 DEF Client!Refs
  <2>6. ASSUME s # Client!NoRef PROVE s = f
    <3>1. s = file.tunnel /\ Client!Lives(s)
      BY <1>5, <2>6 DEF Client!If, Client!MatchesTunnel
    <3>2. s \in Client!Refs
      BY <3>1 DEF ClientTyped, ClientSessions, ClientFiles
    <3> QED BY <1>7, <2>3, <2>4, <2>6, <3>1, <3>2 DEF Client!Refs
  <2>7. Client!FindTunnel = f
    BY <1>1, <1>5, <2>1, <2>3, <2>5, <2>6 DEF Client!FindTunnel, Client!First, Client!If
  <2> QED BY <2>3, <2>7 DEF ClientIs
<1> QED BY <1>7, <1>9, <1>10

\* What is remembered is of the kinds it is kept as.
LEMMA ClientKept ==
    ASSUME ClientBounded, ClientTyped, ClientProcesses
    PROVE  /\ \A r : ClientRef(r) => r \in Client!Refs /\ ClientRef(Client!Now(r))
           /\ \A r : ClientTunnelRef(r) => ClientRef(r)
           /\ \A r : ClientTunnelRef(r) /\ Client!Lives(r) => Client!Now(r) = r
           /\ ClientRef(Client!NoRef) /\ ClientTunnelRef(Client!NoRef)
<1>1. /\ births \in Nat /\ births <= MaxBirths /\ MaxBirths \in Nat
      /\ 0 .. births \subseteq 0 .. MaxBirths /\ 1 .. births \subseteq 0 .. births
      /\ 0 \in 0 .. MaxBirths
  BY DEF ClientBounded, ClientTyped
<1>2. Client!NoRef \in Client!Refs
  BY <1>1 DEF Client!NoRef, Client!Refs
<1>3. ASSUME NEW r, ClientRef(r) PROVE r \in Client!Refs
  BY <1>1, <1>2, <1>3 DEF ClientRef, Client!Refs
<1>4. ASSUME NEW r, ClientTunnelRef(r) PROVE ClientRef(r)
  BY <1>1, <1>4 DEF ClientTunnelRef, ClientRef
<1>5. ClientRef(Client!NoRef) /\ ClientTunnelRef(Client!NoRef)
  BY DEF ClientRef, ClientTunnelRef
<1>6. \A p \in Pids : process[p].birth \in 0 .. births
  BY <1>1 DEF ClientProcesses, Client!Free
<1>7. ASSUME NEW r, ClientRef(r) PROVE ClientRef(Client!Now(r))
  <2>1. CASE r = Client!NoRef
    BY <1>5, <2>1 DEF Client!Now
  <2>2. CASE r # Client!NoRef
    <3>1. r.pid \in Pids /\ Client!Now(r) = [pid |-> r.pid, birth |-> process[r.pid].birth]
      BY <1>7, <2>2 DEF ClientRef, Client!Now, Client!Ref
    <3> QED BY <1>6, <3>1 DEF ClientRef
  <2> QED BY <2>1, <2>2
<1>8. ASSUME NEW r, ClientTunnelRef(r), Client!Lives(r) PROVE Client!Now(r) = r
  <2>1. r # Client!NoRef /\ process[r.pid].birth = r.birth
    BY <1>8 DEF Client!Lives
  <2>2. r \in [pid : Pids, birth : 1 .. births]
    BY <1>8, <2>1 DEF ClientTunnelRef
  <2> QED BY <2>1, <2>2 DEF Client!Now, Client!Ref
<1> QED BY <1>3, <1>4, <1>5, <1>7, <1>8

\* Processes end or stay, and what the client remembers is set anew.
LEMMA ClientFreed ==
    ASSUME ClientBounded, ClientInv, ClientFrees,
           NEW k \in ClientSessions, NEW f \in ClientFiles, NEW j \in ClientJobs,
           known' = k, file' = f, job' = j, setting' \in Settings,
           clientCrashes' \in 0 .. MaxCrashes,
           ClientRef(k.runtime), ClientTunnelRef(k.tunnel), ClientRef(k.started),
           ClientRef(f.runtime), ClientTunnelRef(f.tunnel),
           ClientRef(j.runtime), ClientTunnelRef(j.tunnel), ClientRef(j.started),
           j.at = "launch" => j.tunnel = Client!NoRef,
           \A p \in Pids : ClientSeen(p) /\ process'[p] = process[p] =>
              /\ setting' = setting
              /\ j.at # "tunnel" => k = Client!NoSession \/ ClientIs(p, k.runtime)
              /\ j.at \in {"tunnel", "recover", "stop", "stopRuntime"} =>
                    ClientIs(p, j.runtime)
              /\ j.at \notin {"launch", "clear"},
           \A p \in Pids : ClientTunnel(p) /\ process'[p] = process[p] =>
              /\ setting' = setting
              /\ j.at = "stop" => ClientIs(p, j.tunnel)
              /\ j.at \notin {"check", "launch", "stopRuntime", "clear"}
    PROVE  ClientInv'
<1>1. ClientTyped /\ ClientRefs /\ ClientProcesses
  BY DEF ClientInv
<1>2. /\ ClientProcesses'
      /\ process' \in [Pids -> [birth : 0 .. MaxBirths, kind : Client!Kinds \cup {"none"},
                                of : Settings \cup {"none"}, up : BOOLEAN]]
      /\ \A p \in Pids : ClientSeen(p)' => ClientSeen(p) /\ process'[p] = process[p]
      /\ \A p \in Pids : ClientTunnel(p)' => ClientTunnel(p) /\ process'[p] = process[p]
  BY <1>1, ClientEnding
<1>3. ClientTyped'
  BY <1>1, <1>2 DEF ClientTyped, ClientFrees
<1>4. ClientRefs'
  <2>1. \A r : (ClientRef(r) => ClientRef(r)') /\ (ClientTunnelRef(r) => ClientTunnelRef(r)')
    BY <1>1, ClientEndingRef
  <2>2. /\ ClientRef(k.runtime)' /\ ClientTunnelRef(k.tunnel)' /\ ClientRef(k.started)'
        /\ ClientRef(f.runtime)' /\ ClientTunnelRef(f.tunnel)'
        /\ ClientRef(j.runtime)' /\ ClientTunnelRef(j.tunnel)' /\ ClientRef(j.started)'
    BY <2>1
  <2> QED BY <2>2 DEF ClientRefs, ClientRef, ClientTunnelRef
<1>5. ASSUME NEW p \in Pids, ClientSeen(p)' PROVE ClientFinds(p)'
  <2>1. ClientSeen(p) /\ process'[p] = process[p] /\ ClientFinds(p)
    BY <1>2, <1>5 DEF ClientInv
  <2> QED BY <2>1 DEF ClientFinds, ClientIs
<1>6. ASSUME NEW p \in Pids, ClientTunnel(p)' PROVE ClientLeads(p)'
  <2>1. ClientTunnel(p) /\ process'[p] = process[p] /\ ClientLeads(p)
    BY <1>2, <1>6 DEF ClientInv
  <2>2. \A q \in Pids : ClientTunnel(q)' => p = q
    BY <1>2, <2>1 DEF ClientLeads
  <2> QED BY <2>1, <2>2 DEF ClientLeads, ClientIs
<1> QED BY <1>2, <1>3, <1>4, <1>5, <1>6 DEF ClientInv

LEMMA ClientSame ==
    ASSUME ClientTyped, UNCHANGED <<process, births, seen>>
    PROVE  ClientFrees
BY DEF ClientTyped, ClientFrees

\* The step of the job changes, and what it remembers stays.
LEMMA ClientGoes ==
    ASSUME ClientTyped, NEW step \in {"idle", "check", "launch", "tunnel", "recover", "status",
                                      "stop", "stopRuntime", "clear"},
           Client!Goes(step)
    PROVE  \E j \in ClientJobs :
              /\ job' = j /\ j.at = step /\ j.runtime = job.runtime /\ j.tunnel = job.tunnel
              /\ j.started = job.started
BY DEF Client!Goes, ClientTyped, ClientJobs

\* A job goes on to its next step: what it knows is enough for it.
LEMMA ClientMoves ==
    ASSUME ClientBounded, ClientInv, ClientFrees,
           NEW step \in {"idle", "check", "tunnel", "recover", "status",
                         "stop", "stopRuntime", "clear"},
           Client!Goes(step),
           UNCHANGED <<setting, known, clientCrashes>>, file' \in {file, Client!NoFile},
           \A p \in Pids : ClientSeen(p) /\ process'[p] = process[p] =>
              /\ job.at # "tunnel"
              /\ step \in {"tunnel", "recover", "stop", "stopRuntime"} =>
                    ClientIs(p, job.runtime)
              /\ step \notin {"launch", "clear"},
           \A p \in Pids : ClientTunnel(p) /\ process'[p] = process[p] =>
              /\ step = "stop" => ClientIs(p, job.tunnel)
              /\ step \notin {"check", "launch", "stopRuntime", "clear"}
    PROVE  ClientInv'
<1>1. ClientTyped /\ ClientRefs /\ ClientProcesses
  BY DEF ClientInv
<1>2. PICK j \in ClientJobs :
         /\ job' = j /\ j.at = step /\ j.runtime = job.runtime /\ j.tunnel = job.tunnel
         /\ j.started = job.started
  BY <1>1, ClientGoes
<1>3. PICK k, f : k = known /\ f = file'
  OBVIOUS
<1>4. /\ k \in ClientSessions /\ f \in ClientFiles
      /\ ClientRef(f.runtime) /\ ClientTunnelRef(f.tunnel)
  <2>1. ClientRef(Client!NoRef) /\ ClientTunnelRef(Client!NoRef) /\ Client!NoRef \in Client!Refs
    BY <1>1, ClientKept
  <2>2. Client!NoFile \in ClientFiles
    BY <2>1 DEF Client!NoFile, ClientFiles
  <2> QED BY <1>1, <1>3, <2>1, <2>2 DEF ClientTyped, ClientRefs, Client!NoFile
<1>5. /\ ClientRef(k.runtime) /\ ClientTunnelRef(k.tunnel) /\ ClientRef(k.started)
      /\ ClientRef(j.runtime) /\ ClientTunnelRef(j.tunnel) /\ ClientRef(j.started)
  BY <1>1, <1>2, <1>3 DEF ClientRefs
<1>6. known' = k /\ file' = f /\ job' = j /\ setting' = setting /\ setting' \in Settings
        /\ clientCrashes' \in 0 .. MaxCrashes
  BY <1>1, <1>2, <1>3 DEF ClientTyped
<1>7. ASSUME NEW p \in Pids, ClientSeen(p), process'[p] = process[p]
      PROVE  k = Client!NoSession \/ ClientIs(p, k.runtime)
  BY <1>3, <1>7 DEF ClientInv, ClientFinds
<1>8. \A p \in Pids : ClientSeen(p) /\ process'[p] = process[p] =>
         /\ setting' = setting
         /\ j.at # "tunnel" => k = Client!NoSession \/ ClientIs(p, k.runtime)
         /\ j.at \in {"tunnel", "recover", "stop", "stopRuntime"} => ClientIs(p, j.runtime)
         /\ j.at \notin {"launch", "clear"}
  BY <1>2, <1>6, <1>7
<1>9. \A p \in Pids : ClientTunnel(p) /\ process'[p] = process[p] =>
         /\ setting' = setting
         /\ j.at = "stop" => ClientIs(p, j.tunnel)
         /\ j.at \notin {"check", "launch", "stopRuntime", "clear"}
  BY <1>2, <1>6
<1> QED BY <1>2, <1>4, <1>5, <1>6, <1>8, <1>9, ClientFreed

\* What a step ends, the client finds no more.
LEMMA ClientEnded ==
    ASSUME ClientTyped, ClientProcesses, NEW refs, Client!End(refs), UNCHANGED <<births, seen>>,
           NEW p \in Pids, NEW r \in refs, ClientIs(p, r), ClientSeen(p) \/ ClientTunnel(p),
           ClientApart
    PROVE  process'[p] # process[p]
<1>1. process[p] # Client!Free
  BY DEF ClientSeen, ClientTunnel, Client!Free
<1>2. r.pid = p /\ Client!Lives(r)
  BY DEF ClientIs, Client!Lives, Client!NoRef, ClientApart
<1> QED BY <1>1, <1>2, ClientEndFrees

LEMMA ClientStartCleans ==
    ASSUME ClientBounded, ClientApart, ClientInv, Client!StartCleans
    PROVE  ClientInv'
<1>1. ClientTyped /\ ClientRefs /\ ClientProcesses
  BY DEF ClientInv
<1>2. /\ job.at = "idle" /\ Client!Orphan # Client!NoRef /\ Client!End({Client!Orphan})
      /\ file' = Client!NoFile /\ Client!Goes("check")
      /\ UNCHANGED <<setting, known, births, clientCrashes, seen>>
  BY DEF Client!StartCleans, Client!At
<1>3. /\ Client!FindRuntime = Client!NoRef
      /\ Client!Orphan = Client!First(Client!FindTunnel, Client!FindStateTunnel)
  BY <1>2 DEF Client!Orphan, Client!If
<1>4. ClientFrees
  BY <1>1, <1>2, ClientEndFrees
<1>5. \A p \in Pids : ~ClientSeen(p)
  BY <1>2, <1>3, ClientFindsRuntime
<1>6. ASSUME NEW p \in Pids, ClientTunnel(p) PROVE process'[p] # process[p]
  <2>1. ClientIs(p, Client!FindTunnel) /\ Client!Orphan = Client!FindTunnel
    BY <1>3, <1>6, ClientFindsTunnel DEF Client!First
  <2> QED BY <1>1, <1>2, <1>6, <2>1, ClientEnded
<1> QED BY <1>2, <1>4, <1>5, <1>6, ClientMoves

LEMMA ClientStartRefused ==
    ASSUME ClientBounded, ClientApart, ClientInv, Client!StartRefused
    PROVE  ClientInv'
<1>1. /\ job.at \in {"idle", "check"} /\ Client!Goes("idle")
      /\ UNCHANGED <<process, setting, known, file, births, clientCrashes, seen>>
  BY DEF Client!StartRefused, Client!Checking, Client!At
<1>2. ClientFrees
  BY <1>1, ClientSame DEF ClientInv
<1> QED BY <1>1, <1>2, ClientMoves

LEMMA ClientStartTimesOut ==
    ASSUME ClientBounded, ClientApart, ClientInv,
           Client!StartTimesOut \/ Client!RecoveryFails
    PROVE  ClientInv'
<1>1. /\ job.at \in {"launch", "recover"} /\ Client!Goes("idle")
      /\ \E refs : Client!End(refs)
      /\ UNCHANGED <<setting, known, file, births, clientCrashes, seen>>
  BY DEF Client!StartTimesOut, Client!RecoveryFails, Client!At
<1>2. ClientFrees
  BY <1>1, ClientEndFrees DEF ClientInv
<1> QED BY <1>1, <1>2, ClientMoves

LEMMA ClientStartFails ==
    ASSUME ClientBounded, ClientApart, ClientInv, Client!StartFails
    PROVE  ClientInv'
<1>1. ClientTyped /\ ClientRefs /\ ClientProcesses
  BY DEF ClientInv
<1>2. /\ job.at = "tunnel" /\ file' = Client!NoFile /\ Client!Goes("idle")
      /\ Client!End({job.tunnel, Client!Now(job.runtime), Client!Now(job.started)})
      /\ UNCHANGED <<setting, known, births, clientCrashes, seen>>
  BY DEF Client!StartFails, Client!At
<1>3. ClientFrees
  BY <1>1, <1>2, ClientEndFrees
<1>4. ASSUME NEW p \in Pids, ClientSeen(p) PROVE process'[p] # process[p]
  <2>1. ClientIs(p, job.runtime)
    BY <1>2, <1>4 DEF ClientInv, ClientFinds
  <2>2. Client!Now(job.runtime) = job.runtime
    BY <2>1 DEF Client!Now, Client!Ref, ClientIs, Client!NoRef, ClientApart
  <2> QED BY <1>1, <1>2, <1>4, <2>1, <2>2, ClientEnded
<1> QED BY <1>2, <1>3, <1>4, ClientMoves

\* Tidying up, when nothing runs, leaves neither a runtime nor a tunnel.
LEMMA ClientTidies ==
    ASSUME ClientApart, ClientInv, Client!Tidied, UNCHANGED <<births, seen>>
    PROVE  /\ ClientFrees /\ file' \in {file, Client!NoFile}
           /\ Client!Running = Client!NoRef /\ job.at # "tunnel" =>
                 /\ \A p \in Pids : ~ClientSeen(p)
                 /\ \A p \in Pids : ClientTunnel(p) => process'[p] # process[p]
<1>1. ClientTyped /\ ClientRefs /\ ClientProcesses
  BY DEF ClientInv
<1>2. CASE Client!Running # Client!NoRef
  <2>1. UNCHANGED <<process, file>>
    BY <1>2 DEF Client!Tidied
  <2> QED BY <1>1, <1>2, <2>1, ClientSame
<1>3. CASE Client!Running = Client!NoRef
  <2>1. Client!End({Client!Now(Client!FindTunnel)}) /\ file' = Client!NoFile
    BY <1>3 DEF Client!Tidied
  <2>2. ClientFrees
    BY <1>1, <2>1, ClientEndFrees
  <2>3. ASSUME job.at # "tunnel", NEW p \in Pids PROVE ~ClientSeen(p)
    <3>1. Client!FindRuntime = Client!NoRef
      BY <1>3 DEF Client!Running, Client!First
    <3> QED BY <2>3, <3>1, ClientFindsRuntime
  <2>4. ASSUME NEW p \in Pids, ClientTunnel(p) PROVE process'[p] # process[p]
    <3>1. ClientIs(p, Client!FindTunnel)
      BY <2>4, ClientFindsTunnel
    <3>2. Client!Now(Client!FindTunnel) = Client!FindTunnel
      BY <3>1 DEF Client!Now, Client!Ref, ClientIs, Client!NoRef, ClientApart
    <3> QED BY <1>1, <2>1, <2>4, <3>1, <3>2, ClientEnded
  <2> QED BY <2>1, <2>2, <2>3, <2>4
<1> QED BY <1>2, <1>3

LEMMA ClientStatus ==
    ASSUME ClientBounded, ClientApart, ClientInv, Client!Status
    PROVE  ClientInv'
<1>1. /\ job.at \in {"idle", "status"} /\ Client!Goes("idle") /\ Client!Tidied
      /\ UNCHANGED <<setting, known, births, clientCrashes, seen>>
  BY DEF Client!Status, Client!At
<1>2. ClientFrees /\ file' \in {file, Client!NoFile}
  BY <1>1, ClientTidies
<1> QED BY <1>1, <1>2, ClientMoves

LEMMA ClientSave ==
    ASSUME ClientBounded, ClientApart, ClientInv, NEW s \in Settings, Client!Save(s)
    PROVE  ClientInv'
<1>1. ClientTyped /\ ClientRefs /\ ClientProcesses
  BY DEF ClientInv
<1>2. /\ job.at = "idle" /\ Client!Tidied /\ Client!Running = Client!NoRef /\ setting' = s
      /\ UNCHANGED <<known, job, births, clientCrashes, seen>>
  BY DEF Client!Save, Client!At
<1>3. /\ ClientFrees /\ file' \in {file, Client!NoFile}
      /\ \A p \in Pids : ~ClientSeen(p)
      /\ \A p \in Pids : ClientTunnel(p) => process'[p] # process[p]
  BY <1>2, ClientTidies
<1>4. PICK k, f, j : k = known /\ f = file' /\ j = job
  OBVIOUS
<1>5. /\ k \in ClientSessions /\ f \in ClientFiles /\ j \in ClientJobs
      /\ ClientRef(f.runtime) /\ ClientTunnelRef(f.tunnel)
  <2>1. ClientRef(Client!NoRef) /\ ClientTunnelRef(Client!NoRef) /\ Client!NoRef \in Client!Refs
    BY <1>1, ClientKept
  <2>2. Client!NoFile \in ClientFiles
    BY <2>1 DEF Client!NoFile, ClientFiles
  <2> QED BY <1>1, <1>3, <1>4, <2>1, <2>2 DEF ClientTyped, ClientRefs, Client!NoFile
<1>6. /\ ClientRef(k.runtime) /\ ClientTunnelRef(k.tunnel) /\ ClientRef(k.started)
      /\ ClientRef(j.runtime) /\ ClientTunnelRef(j.tunnel) /\ ClientRef(j.started)
      /\ j.at = "launch" => j.tunnel = Client!NoRef
  BY <1>1, <1>4 DEF ClientRefs
<1>7. known' = k /\ file' = f /\ job' = j /\ setting' \in Settings
        /\ clientCrashes' \in 0 .. MaxCrashes
  BY <1>1, <1>2, <1>4 DEF ClientTyped
<1> QED BY <1>3, <1>5, <1>6, <1>7, ClientFreed

LEMMA ClientStopping ==
    ASSUME ClientBounded, ClientApart, ClientInv,
           Client!StopTunnel \/ Client!StopRuntime \/ Client!StopClears
    PROVE  ClientInv'
<1>1. ClientTyped /\ ClientRefs /\ ClientProcesses
  BY DEF ClientInv
<1>2. CASE Client!StopTunnel
  <2>1. /\ job.at = "stop" /\ Client!End({job.tunnel}) /\ Client!Goes("stopRuntime")
        /\ UNCHANGED <<setting, known, file, births, clientCrashes, seen>>
    BY <1>2 DEF Client!StopTunnel, Client!At
  <2>2. ClientFrees
    BY <1>1, <2>1, ClientEndFrees
  <2>3. \A p \in Pids : ClientSeen(p) => ClientIs(p, job.runtime)
    BY <2>1 DEF ClientInv, ClientFinds
  <2>4. ASSUME NEW p \in Pids, ClientTunnel(p) PROVE process'[p] # process[p]
    <3>1. ClientIs(p, job.tunnel)
      BY <2>1, <2>4 DEF ClientInv, ClientLeads
    <3> QED BY <1>1, <2>1, <2>4, <3>1, ClientEnded
  <2> QED BY <2>1, <2>2, <2>3, <2>4, ClientMoves
<1>3. CASE Client!StopRuntime
  <2>1. /\ job.at = "stopRuntime" /\ Client!End({job.runtime, job.started})
        /\ Client!Goes("clear")
        /\ UNCHANGED <<setting, known, file, births, clientCrashes, seen>>
    BY <1>3 DEF Client!StopRuntime, Client!At
  <2>2. ClientFrees
    BY <1>1, <2>1, ClientEndFrees
  <2>3. ASSUME NEW p \in Pids, ClientSeen(p) PROVE process'[p] # process[p]
    <3>1. ClientIs(p, job.runtime)
      BY <2>1, <2>3 DEF ClientInv, ClientFinds
    <3> QED BY <1>1, <2>1, <2>3, <3>1, ClientEnded
  <2>4. \A p \in Pids : ~ClientTunnel(p)
    BY <2>1 DEF ClientInv, ClientLeads
  <2> QED BY <2>1, <2>2, <2>3, <2>4, ClientMoves
<1>4. CASE Client!StopClears
  <2>1. /\ job.at = "clear" /\ file' = Client!NoFile /\ Client!Goes("idle")
        /\ UNCHANGED <<process, setting, known, births, clientCrashes, seen>>
    BY <1>4 DEF Client!StopClears, Client!At
  <2>2. ClientFrees
    BY <1>1, <2>1, ClientSame
  <2> QED BY <2>1, <2>2, ClientMoves
<1> QED BY <1>2, <1>3, <1>4

LEMMA ClientCrashes ==
    ASSUME ClientBounded, ClientApart, ClientInv,
           \/ Client!ClientCrash \/ UNCHANGED clientVars
           \/ \E p \in Pids : Client!Die(p)
    PROVE  ClientInv'
<1>1. ClientTyped /\ ClientRefs /\ ClientProcesses
  BY DEF ClientInv
<1>2. ClientRef(Client!NoRef) /\ ClientTunnelRef(Client!NoRef) /\ Client!NoRef \in Client!Refs
  BY <1>1, ClientKept
<1>3. PICK k, f, j : k = known' /\ f = file /\ j = job'
  OBVIOUS
<1>4. f \in ClientFiles /\ ClientRef(f.runtime) /\ ClientTunnelRef(f.tunnel)
  BY <1>1, <1>3 DEF ClientTyped, ClientRefs
<1>5. CASE Client!ClientCrash
  <2>1. /\ k = Client!NoSession /\ j = Client!NoJob /\ clientCrashes' \in 0 .. MaxCrashes
        /\ UNCHANGED <<process, setting, file, births, seen>>
    BY <1>1, <1>3, <1>5 DEF Client!ClientCrash, ClientTyped, ClientBounded
  <2>2. ClientFrees
    BY <1>1, <2>1, ClientSame
  <2>3. k \in ClientSessions /\ j \in ClientJobs /\ j.at = "idle"
    BY <1>2, <2>1 DEF Client!NoSession, Client!NoJob, ClientSessions, ClientJobs
  <2>4. /\ ClientRef(k.runtime) /\ ClientTunnelRef(k.tunnel) /\ ClientRef(k.started)
        /\ ClientRef(j.runtime) /\ ClientTunnelRef(j.tunnel) /\ ClientRef(j.started)
    BY <1>2, <2>1 DEF Client!NoSession, Client!NoJob
  <2>5. known' = k /\ file' = f /\ job' = j /\ setting' = setting /\ setting' \in Settings
    BY <1>1, <1>3, <2>1 DEF ClientTyped
  <2> QED BY <1>4, <2>1, <2>2, <2>3, <2>4, <2>5, ClientFreed
<1>6. CASE \/ UNCHANGED clientVars \/ \E p \in Pids : Client!Die(p)
  <2>1. /\ UNCHANGED <<setting, known, file, job, births, clientCrashes, seen>> /\ ClientFrees
    BY <1>1, <1>6 DEF clientVars, Client!Die, ClientFrees, ClientTyped
  <2>2. /\ k \in ClientSessions /\ j \in ClientJobs /\ setting' = setting
        /\ setting' \in Settings /\ clientCrashes' \in 0 .. MaxCrashes
        /\ known' = k /\ file' = f /\ job' = j
    BY <1>1, <1>3, <2>1 DEF ClientTyped
  <2>3. /\ ClientRef(k.runtime) /\ ClientTunnelRef(k.tunnel) /\ ClientRef(k.started)
        /\ ClientRef(j.runtime) /\ ClientTunnelRef(j.tunnel) /\ ClientRef(j.started)
        /\ j.at = "launch" => j.tunnel = Client!NoRef
    BY <1>1, <1>3, <2>1 DEF ClientRefs
  <2>4. \A p \in Pids : ClientSeen(p) =>
              /\ j.at # "tunnel" => k = Client!NoSession \/ ClientIs(p, k.runtime)
              /\ j.at \in {"tunnel", "recover", "stop", "stopRuntime"} =>
                    ClientIs(p, j.runtime)
              /\ j.at \notin {"launch", "clear"}
    BY <1>3, <2>1 DEF ClientInv, ClientFinds
  <2>5. \A p \in Pids : ClientTunnel(p) =>
              /\ j.at = "stop" => ClientIs(p, j.tunnel)
              /\ j.at \notin {"check", "launch", "stopRuntime", "clear"}
    BY <1>3, <2>1 DEF ClientInv, ClientLeads
  <2> QED BY <1>4, <2>1, <2>2, <2>3, <2>4, <2>5, ClientFreed
<1> QED BY <1>5, <1>6

LEMMA ClientLooksUp ==
    ASSUME ClientBounded, ClientApart, ClientInv, job.at # "tunnel"
    PROVE  /\ Client!LookedUp \in ClientJobs /\ Client!LookedUp.at = "stop"
           /\ ClientRef(Client!LookedUp.runtime) /\ ClientRef(Client!LookedUp.started)
           /\ ClientTunnelRef(Client!LookedUp.tunnel)
           /\ \A p \in Pids : ClientSeen(p) => ClientIs(p, Client!LookedUp.runtime)
           /\ \A p \in Pids : ClientTunnel(p) => ClientIs(p, Client!LookedUp.tunnel)
<1>1. ClientTyped /\ ClientRefs /\ ClientProcesses
  BY DEF ClientInv
<1>2. PICK l, a, b, c, d, e :
         /\ l = Client!Listener(setting)
         /\ a = Client!If(Client!Lives(known.runtime), known.runtime)
         /\ b = Client!If(Client!Lives(known.started), known.started)
         /\ c = Client!If(Client!MatchesRuntime(l, setting), l)
         /\ d = Client!If(Client!MatchesRuntime(file.runtime, setting), file.runtime)
         /\ e = Client!FindStateRuntime
  OBVIOUS
<1>3. PICK t, u, v, w :
         /\ t = Client!If(Client!Lives(known.tunnel), known.tunnel)
         /\ u = Client!FindTunnel /\ v = Client!FindStateTunnel
         /\ w = Client!First(t, Client!First(u, v))
  OBVIOUS
<1>4. PICK r : r = Client!First(Client!First(a, b), Client!First(c, Client!First(d, e)))
  OBVIOUS
<1>5. Client!LookedUp = [at |-> "stop", tunnel |-> w, runtime |-> r, started |-> known.started]
  BY <1>2, <1>3, <1>4 DEF Client!LookedUp
<1>6. ClientRef(r)
  <2>1. l # Client!NoRef => l \in [pid : Pids, birth : 1 .. births]
    BY <1>1, <1>2, ClientListener DEF ClientIs
  <2>2. \A n \in 1 .. births : n \in 0 .. births
    BY <1>1 DEF ClientTyped, ClientBounded
  <2>3. ClientRef(l) /\ ClientRef(Client!NoRef)
    BY <2>1, <2>2 DEF ClientRef
  <2>4. r \in {a, b, c, d, e}
    BY <1>4 DEF Client!First
  <2>5. {a, b, c, d, e} \subseteq
           {known.runtime, known.started, l, file.runtime, Client!NoRef}
    BY <1>2 DEF Client!If, Client!FindStateRuntime
  <2> QED BY <1>1, <2>3, <2>4, <2>5 DEF ClientRefs
<1>7. t = u \/ t = Client!NoRef
  BY <1>3 DEF Client!If, Client!FindTunnel, Client!First, Client!Lives
<1>8. w = Client!First(u, v)
  BY <1>3, <1>7 DEF Client!First
<1>9. ClientTunnelRef(w)
  BY <1>3, <1>8, ClientFindsTunnel DEF Client!First
<1>10. ClientRef(known.started)
  BY <1>1 DEF ClientRefs
<1>11. Client!LookedUp \in ClientJobs
  <2>1. r \in Client!Refs /\ w \in Client!Refs /\ known.started \in Client!Refs
    BY <1>1, <1>6, <1>9, <1>10, ClientKept
  <2> QED BY <1>5, <2>1 DEF ClientJobs
<1>12. ASSUME NEW p \in Pids, ClientSeen(p) PROVE ClientIs(p, r)
  <2>1. ClientFinds(p) /\ process[p].kind = "runtime"
    BY <1>12 DEF ClientSeen, ClientInv
  <2>2. ClientIs(p, l) /\ l # Client!NoRef
    BY <1>2, <1>12, ClientFindsRuntime
  <2>3. c = l
    BY <1>2, <2>1, <2>2 DEF ClientFinds, Client!MatchesRuntime, Client!Lives, Client!Is,
       ClientIs, Client!If
  <2>4. CASE known = Client!NoSession
    <3>1. a = Client!NoRef /\ b = Client!NoRef
      BY <1>2, <2>4 DEF Client!NoSession, Client!If
    <3> QED BY <1>4, <2>2, <2>3, <3>1 DEF Client!First
  <2>5. CASE ClientIs(p, known.runtime)
    <3>1. known.runtime = l
      BY <2>2, <2>5 DEF ClientIs
    <3>2. a = l
      BY <1>2, <2>2, <3>1 DEF Client!If, Client!Lives, ClientIs
    <3> QED BY <1>4, <2>2, <3>2 DEF Client!First
  <2> QED BY <2>1, <2>4, <2>5 DEF ClientFinds
<1>13. ASSUME NEW p \in Pids, ClientTunnel(p) PROVE ClientIs(p, w)
  BY <1>3, <1>8, <1>13, ClientFindsTunnel DEF Client!First
<1> QED BY <1>5, <1>6, <1>9, <1>10, <1>11, <1>12, <1>13

LEMMA ClientStop ==
    ASSUME ClientBounded, ClientApart, ClientInv, Client!Stop
    PROVE  ClientInv'
<1>1. ClientTyped /\ ClientRefs /\ ClientProcesses
  BY DEF ClientInv
<1>2. PICK k, f, j : k = Client!NoSession /\ f = file /\ j = Client!LookedUp
  OBVIOUS
<1>3. /\ job.at = "idle" /\ job' = j /\ known' = k /\ file' = f
      /\ UNCHANGED <<process, setting, file, births, clientCrashes, seen>>
  BY <1>2 DEF Client!Stop, Client!At
<1>4. /\ j \in ClientJobs /\ j.at = "stop" /\ ClientRef(j.runtime) /\ ClientRef(j.started)
      /\ ClientTunnelRef(j.tunnel)
      /\ \A p \in Pids : ClientSeen(p) => ClientIs(p, j.runtime)
      /\ \A p \in Pids : ClientTunnel(p) => ClientIs(p, j.tunnel)
  BY <1>2, <1>3, ClientLooksUp
<1>5. /\ k \in ClientSessions
      /\ ClientRef(k.runtime) /\ ClientTunnelRef(k.tunnel) /\ ClientRef(k.started)
  <2>1. ClientRef(Client!NoRef) /\ ClientTunnelRef(Client!NoRef) /\ Client!NoRef \in Client!Refs
    BY <1>1, ClientKept
  <2> QED BY <1>2, <2>1 DEF Client!NoSession, ClientSessions
<1>6. /\ f \in ClientFiles /\ ClientRef(f.runtime) /\ ClientTunnelRef(f.tunnel)
      /\ setting' = setting /\ setting' \in Settings /\ clientCrashes' \in 0 .. MaxCrashes
  BY <1>1, <1>2, <1>3 DEF ClientTyped, ClientRefs
<1>7. ClientFrees
  BY <1>1, <1>3, ClientSame
<1> QED BY <1>2, <1>3, <1>4, <1>5, <1>6, <1>7, ClientFreed

LEMMA ClientStartAdopts ==
    ASSUME ClientBounded, ClientApart, ClientInv, Client!StartAdopts
    PROVE  ClientInv'
<1>1. ClientTyped /\ ClientRefs /\ ClientProcesses
  BY DEF ClientInv
<1>2. PICK k, f, j, r : k = known' /\ f = file /\ j = job' /\ r = Client!FindRuntime
  OBVIOUS
<1>3. /\ job.at \in {"idle", "check"} /\ Client!Goes("status")
      /\ UNCHANGED <<process, setting, file, births, clientCrashes, seen>>
      /\ k = IF known = Client!NoSession THEN [Client!NoSession EXCEPT !.runtime = r]
             ELSE known
  BY <1>2 DEF Client!StartAdopts, Client!At, Client!Checking
<1>4. /\ j \in ClientJobs /\ j.at = "status" /\ j.runtime = job.runtime
      /\ j.tunnel = job.tunnel /\ j.started = job.started
  BY <1>1, <1>2, <1>3, ClientGoes
<1>5. ClientRef(Client!NoRef) /\ ClientTunnelRef(Client!NoRef) /\ Client!NoRef \in Client!Refs
  BY <1>1, ClientKept
<1>6. ClientRef(r) /\ r \in Client!Refs /\ \A p \in Pids : ClientSeen(p) => ClientIs(p, r)
  BY <1>1, <1>2, <1>3, ClientFindsRuntime, ClientKept
<1>7. /\ k \in ClientSessions
      /\ ClientRef(k.runtime) /\ ClientTunnelRef(k.tunnel) /\ ClientRef(k.started)
      /\ \A p \in Pids : ClientSeen(p) => k = Client!NoSession \/ ClientIs(p, k.runtime)
  <2>1. CASE known = Client!NoSession
    <3>1. k = [runtime |-> r, tunnel |-> Client!NoRef, started |-> Client!NoRef]
      BY <1>3, <2>1 DEF Client!NoSession
    <3> QED BY <1>5, <1>6, <3>1 DEF ClientSessions
  <2>2. CASE known # Client!NoSession
    BY <1>1, <1>3, <2>2 DEF ClientTyped, ClientRefs, ClientInv, ClientFinds
  <2> QED BY <2>1, <2>2
<1>8. /\ f \in ClientFiles /\ ClientRef(f.runtime) /\ ClientTunnelRef(f.tunnel)
      /\ setting' = setting /\ setting' \in Settings /\ clientCrashes' \in 0 .. MaxCrashes
      /\ ClientRef(j.runtime) /\ ClientTunnelRef(j.tunnel) /\ ClientRef(j.started)
      /\ known' = k /\ file' = f /\ job' = j
  BY <1>1, <1>2, <1>3, <1>4 DEF ClientTyped, ClientRefs
<1>9. ClientFrees
  BY <1>1, <1>3, ClientSame
<1> QED BY <1>4, <1>7, <1>8, <1>9, ClientFreed

\* A started runtime and its tunnel are managed: what has their pids by now.
LEMMA ClientManages ==
    ASSUME ClientBounded, ClientInv, NEW s, Client!Manage(s), ClientRef(s.runtime),
           ClientTunnelRef(s.tunnel), ClientRef(s.started),
           s.tunnel = Client!NoRef \/ Client!Lives(s.tunnel)
    PROVE  /\ known' \in ClientSessions /\ file' \in ClientFiles
           /\ ClientRef(known'.runtime) /\ ClientTunnelRef(known'.tunnel)
           /\ ClientRef(known'.started) /\ ClientRef(file'.runtime)
           /\ ClientTunnelRef(file'.tunnel)
           /\ known'.runtime = Client!Now(s.runtime)
<1>1. ClientTyped /\ ClientRefs /\ ClientProcesses
  BY DEF ClientInv
<1>2. PICK r, t : r = Client!Now(s.runtime) /\ t = Client!Now(s.tunnel)
  OBVIOUS
<1>3. ClientRef(r) /\ r \in Client!Refs /\ s.started \in Client!Refs
  BY <1>1, <1>2, ClientKept
<1>4. t = s.tunnel
  <2>1. CASE s.tunnel = Client!NoRef
    BY <1>2, <2>1 DEF Client!Now
  <2>2. CASE Client!Lives(s.tunnel)
    BY <1>1, <1>2, <2>2, ClientKept
  <2> QED BY <2>1, <2>2
<1>5. ClientTunnelRef(t) /\ t \in Client!Refs
  BY <1>1, <1>4, ClientKept
<1>6. /\ known' = [runtime |-> r, tunnel |-> t, started |-> s.started]
      /\ file' = [runtime |-> r, tunnel |-> t, of |-> setting]
  BY <1>2 DEF Client!Manage, Client!Recorded
<1> QED BY <1>1, <1>2, <1>3, <1>5, <1>6 DEF ClientSessions, ClientFiles, ClientTyped

LEMMA ClientStartConnects ==
    ASSUME ClientBounded, ClientApart, ClientInv, Client!StartConnects
    PROVE  ClientInv'
<1>1. ClientTyped /\ ClientRefs /\ ClientProcesses
  BY DEF ClientInv
<1>2. PICK k, f, j : k = known' /\ f = file' /\ j = job'
  OBVIOUS
<1>3. /\ job.at \in {"tunnel", "recover"} /\ Client!Goes("status")
      /\ Client!Lives(job.tunnel) /\ Client!Manage(job)
      /\ UNCHANGED <<process, setting, births, clientCrashes, seen>>
  BY <1>2 DEF Client!StartConnects, Client!At
<1>4. /\ j \in ClientJobs /\ j.at = "status" /\ j.runtime = job.runtime
      /\ j.tunnel = job.tunnel /\ j.started = job.started
  BY <1>1, <1>2, <1>3, ClientGoes
<1>5. /\ k \in ClientSessions /\ f \in ClientFiles
      /\ ClientRef(k.runtime) /\ ClientTunnelRef(k.tunnel) /\ ClientRef(k.started)
      /\ ClientRef(f.runtime) /\ ClientTunnelRef(f.tunnel)
      /\ k.runtime = Client!Now(job.runtime)
  <2>1. ClientRef(job.runtime) /\ ClientTunnelRef(job.tunnel) /\ ClientRef(job.started)
    BY <1>1 DEF ClientRefs
  <2> QED BY <1>2, <1>3, <2>1, ClientManages
<1>6. ASSUME NEW p \in Pids, ClientSeen(p) PROVE ClientIs(p, k.runtime)
  <2>1. ClientIs(p, job.runtime)
    BY <1>3, <1>6 DEF ClientInv, ClientFinds
  <2> QED BY <1>5, <2>1 DEF ClientIs, Client!Now, Client!Ref, Client!NoRef, ClientApart
<1>7. /\ setting' = setting /\ setting' \in Settings /\ clientCrashes' \in 0 .. MaxCrashes
      /\ ClientRef(j.runtime) /\ ClientTunnelRef(j.tunnel) /\ ClientRef(j.started)
      /\ known' = k /\ file' = f /\ job' = j
  BY <1>1, <1>2, <1>3, <1>4 DEF ClientTyped, ClientRefs
<1>8. ClientFrees
  BY <1>1, <1>3, ClientSame
<1> QED BY <1>4, <1>5, <1>6, <1>7, <1>8, ClientFreed

\* A process is born, and a job may know it.
LEMMA ClientBorn ==
    ASSUME ClientBounded, ClientInv, NEW p \in Pids, NEW kind \in Client!Kinds,
           NEW s \in Settings, NEW up \in BOOLEAN, Client!Born(p, kind, s, up),
           up => kind # "tunnel" /\ \A q \in Pids : ClientListens(q) => process[q].of # s,
           UNCHANGED <<setting, known, file, clientCrashes>>,
           NEW j \in ClientJobs, job' = j, ClientRef(j.runtime),
           j.started = Client!BornRef(p) \/ ClientRef(j.started),
           (j.tunnel = Client!BornRef(p) /\ kind = "tunnel") \/ ClientTunnelRef(j.tunnel),
           j.at = "launch" => j.tunnel = Client!NoRef, seen' \subseteq 1 .. births'
    PROVE  /\ ClientTyped' /\ ClientRefs' /\ ClientProcesses' /\ births' = births + 1
           /\ \A q \in Pids \ {p} : process'[q] = process[q]
           /\ process'[p].birth = births + 1 /\ process'[p].kind = kind
           /\ process'[p].of = s
           /\ \A q \in Pids : ClientSeen(q) => q # p
<1>1. ClientTyped /\ ClientRefs /\ ClientProcesses
  BY DEF ClientInv
<1>2. /\ ClientProcesses' /\ births' = births + 1 /\ births' \in 1 .. MaxBirths
      /\ process' \in [Pids -> [birth : 0 .. MaxBirths, kind : Client!Kinds \cup {"none"},
                                of : Settings \cup {"none"}, up : BOOLEAN]]
      /\ \A q \in Pids \ {p} : process'[q] = process[q]
      /\ process'[p].birth = births + 1 /\ process'[p].kind = kind
      /\ process'[p].of = s
      /\ \A r : (ClientRef(r) => ClientRef(r)')
                  /\ (ClientTunnelRef(r) => ClientTunnelRef(r)')
  BY <1>1, ClientBirth
<1>3. ClientTyped'
  <2>1. births' \in 0 .. MaxBirths
    BY <1>2 DEF ClientBounded
  <2> QED BY <1>1, <1>2, <2>1 DEF ClientTyped
<1>4. PICK b : b = [pid |-> p, birth |-> births + 1]
  OBVIOUS
<1>5. ClientRef(b)' /\ (kind = "tunnel" => ClientTunnelRef(b)')
  <2>1. births + 1 \in 1 .. births' /\ births + 1 \in 0 .. births'
    BY <1>2, <1>1 DEF ClientTyped, ClientBounded
  <2>2. ClientRef(b)'
    BY <1>4, <2>1 DEF ClientRef
  <2>3. b \in [pid : Pids, birth : 1 .. births'] /\ b.pid = p
    BY <1>4, <2>1
  <2>4. kind = "tunnel" => ClientTunnelRef(b)'
    BY <1>2, <2>3 DEF ClientTunnelRef
  <2> QED BY <2>2, <2>4
<1>6. ClientRef(j.runtime)' /\ ClientRef(j.started)' /\ ClientTunnelRef(j.tunnel)'
  BY <1>2, <1>4, <1>5 DEF Client!BornRef
<1>7. PICK k, f : k = known /\ f = file
  OBVIOUS
<1>8. /\ ClientRef(k.runtime)' /\ ClientTunnelRef(k.tunnel)' /\ ClientRef(k.started)'
      /\ ClientRef(f.runtime)' /\ ClientTunnelRef(f.tunnel)'
  BY <1>1, <1>2, <1>7 DEF ClientRefs
<1>9. ClientRefs'
  <2>1. known' = k /\ file' = f /\ job' = j
    BY <1>7
  <2> QED BY <1>6, <1>8, <2>1 DEF ClientRefs, ClientRef, ClientTunnelRef
<1>10. \A q \in Pids : ClientSeen(q) => q # p
  BY DEF Client!Born, Client!Free, ClientSeen
<1> QED BY <1>2, <1>3, <1>9, <1>10

LEMMA ClientStartRecovers ==
    ASSUME ClientBounded, ClientApart, ClientInv, NEW p \in Pids, Client!StartRecovers(p)
    PROVE  ClientInv'
<1>1. ClientTyped /\ ClientRefs /\ ClientProcesses
  BY DEF ClientInv
<1>2. PICK j : j = [at |-> "recover", runtime |-> Client!FindRuntime,
                    tunnel |-> Client!BornRef(p), started |-> Client!NoRef]
  OBVIOUS
<1>3. /\ job.at \in {"idle", "check"} /\ setting \in Tunnelled
      /\ Client!FindTunnel = Client!NoRef /\ Client!Born(p, "tunnel", setting, FALSE)
      /\ job' = j /\ UNCHANGED <<setting, known, file, clientCrashes, seen>>
  <2>1. job' = [Client!NoJob EXCEPT !.at = "recover", !.runtime = Client!FindRuntime,
                                    !.tunnel = Client!BornRef(p)]
    BY DEF Client!StartRecovers
  <2>2. PICK r, t : r = Client!FindRuntime /\ t = Client!BornRef(p)
    OBVIOUS
  <2>3. PICK n, e : n = Client!NoRef /\ e = Client!NoJob
    OBVIOUS
  <2>4. e = [at |-> "idle", runtime |-> n, tunnel |-> n, started |-> n]
    BY <2>3 DEF Client!NoJob
  <2>5. PICK f : f = [e EXCEPT !.at = "recover", !.runtime = r, !.tunnel = t]
    OBVIOUS
  <2>6. f.at = "recover" /\ f.runtime = r /\ f.tunnel = t /\ f.started = n
    BY <2>4, <2>5
  <2>7. f = [x \in {"at", "runtime", "tunnel", "started"} |-> f[x]]
    BY <2>4, <2>5
  <2>8. f = [at |-> "recover", runtime |-> r, tunnel |-> t, started |-> n]
    BY <2>6, <2>7
  <2>9. job' = j
    BY <1>2, <2>1, <2>2, <2>3, <2>5, <2>8
  <2> QED BY <2>9 DEF Client!StartRecovers, Client!Checking, Client!At
<1>4. ClientRef(Client!FindRuntime) /\ ClientRef(Client!NoRef) /\ Client!NoRef \in Client!Refs
        /\ Client!FindRuntime \in Client!Refs
  BY <1>1, ClientFindsRuntime, ClientKept
<1>5. /\ births + 1 \in 0 .. MaxBirths /\ births' = births + 1 /\ births \in Nat
      /\ 1 .. births \subseteq 1 .. births'
  BY <1>1, <1>3 DEF Client!Born, ClientTyped, ClientBounded
<1>6. j \in ClientJobs
  <2>1. Client!BornRef(p) \in Client!Refs
    BY <1>5 DEF Client!BornRef, Client!Refs
  <2> QED BY <1>2, <1>4, <2>1 DEF ClientJobs
<1>7. PICK up \in BOOLEAN : up = FALSE
  OBVIOUS
<1>8. /\ ClientTyped' /\ ClientRefs' /\ ClientProcesses'
      /\ \A q \in Pids \ {p} : process'[q] = process[q]
      /\ process'[p].birth = births + 1 /\ process'[p].kind = "tunnel"
      /\ process'[p].of = setting
  <2>1. Client!Born(p, "tunnel", setting, up) /\ ~up
    BY <1>3, <1>7
  <2>2. "tunnel" \in Client!Kinds /\ setting \in Settings /\ seen' \subseteq 1 .. births'
    BY <1>1, <1>3, <1>5 DEF Client!Kinds, ClientTyped
  <2>3. /\ ClientRef(j.runtime) /\ ClientRef(j.started) /\ j.tunnel = Client!BornRef(p)
        /\ j.at # "launch"
    BY <1>2, <1>4
  <2> QED BY <1>3, <1>6, <2>1, <2>2, <2>3, ClientBorn
<1>9. \A q \in Pids : ~ClientTunnel(q)
  BY <1>3, ClientFindsTunnel
<1>10. ASSUME NEW q \in Pids, ClientSeen(q)' PROVE ClientFinds(q)'
  <2>1. q # p
    BY <1>3, <1>8, <1>10 DEF ClientSeen
  <2>2. process'[q] = process[q] /\ ClientSeen(q) /\ ClientFinds(q)
    BY <1>3, <1>8, <1>10, <2>1 DEF ClientSeen, ClientInv
  <2>3. ClientIs(q, j.runtime)
    BY <1>2, <1>3, <2>2, ClientFindsRuntime
  <2> QED BY <1>2, <1>3, <2>2, <2>3 DEF ClientFinds, ClientIs
<1>11. ASSUME NEW q \in Pids, ClientTunnel(q)' PROVE ClientLeads(q)'
  <2>1. \A r \in Pids : ClientTunnel(r)' => r = p
    BY <1>8, <1>9 DEF ClientTunnel
  <2> QED BY <1>2, <1>3, <1>8, <1>11, <2>1 DEF ClientLeads
<1> QED BY <1>8, <1>10, <1>11 DEF ClientInv

LEMMA ClientStartLaunches ==
    ASSUME ClientBounded, ClientApart, ClientInv, NEW p \in Pids, Client!StartLaunches(p)
    PROVE  ClientInv'
<1>1. ClientTyped /\ ClientRefs /\ ClientProcesses
  BY DEF ClientInv
<1>2. PICK j : j = [at |-> "launch", runtime |-> Client!NoRef, tunnel |-> Client!NoRef,
                    started |-> Client!BornRef(p)]
  OBVIOUS
<1>3. /\ job.at = "check" \/ (job.at = "idle" /\ Client!Orphan = Client!NoRef)
      /\ Client!FindRuntime = Client!NoRef /\ Client!FindStateRuntime = Client!NoRef
      /\ Client!Born(p, "runtime", setting, FALSE)
      /\ job' = j /\ UNCHANGED <<setting, known, file, clientCrashes, seen>>
  <2>1. job' = [Client!NoJob EXCEPT !.at = "launch", !.started = Client!BornRef(p)]
    BY DEF Client!StartLaunches
  <2>2. PICK t : t = Client!BornRef(p)
    OBVIOUS
  <2>3. PICK n, e : n = Client!NoRef /\ e = Client!NoJob
    OBVIOUS
  <2>4. e = [at |-> "idle", runtime |-> n, tunnel |-> n, started |-> n]
    BY <2>3 DEF Client!NoJob
  <2>5. PICK f : f = [e EXCEPT !.at = "launch", !.started = t]
    OBVIOUS
  <2>6. f.at = "launch" /\ f.runtime = n /\ f.tunnel = n /\ f.started = t
    BY <2>4, <2>5
  <2>7. f = [x \in {"at", "runtime", "tunnel", "started"} |-> f[x]]
    BY <2>4, <2>5
  <2>8. f = [at |-> "launch", runtime |-> n, tunnel |-> n, started |-> t]
    BY <2>6, <2>7
  <2>9. job' = j
    BY <1>2, <2>1, <2>2, <2>3, <2>5, <2>8
  <2> QED BY <2>9 DEF Client!StartLaunches, Client!Checking, Client!At
<1>4. /\ ClientRef(Client!NoRef) /\ ClientTunnelRef(Client!NoRef)
      /\ Client!NoRef \in Client!Refs
  BY <1>1, ClientKept
<1>5. /\ births + 1 \in 0 .. MaxBirths /\ births' = births + 1 /\ births \in Nat
      /\ 1 .. births \subseteq 1 .. births' /\ births + 1 \notin seen
  BY <1>1, <1>3 DEF Client!Born, ClientTyped, ClientBounded
<1>6. j \in ClientJobs
  <2>1. Client!BornRef(p) \in Client!Refs
    BY <1>5 DEF Client!BornRef, Client!Refs
  <2> QED BY <1>2, <1>4, <2>1 DEF ClientJobs
<1>7. PICK up \in BOOLEAN : up = FALSE
  OBVIOUS
<1>8. /\ ClientTyped' /\ ClientRefs' /\ ClientProcesses'
      /\ \A q \in Pids \ {p} : process'[q] = process[q]
      /\ process'[p].birth = births + 1 /\ process'[p].kind = "runtime"
  <2>1. Client!Born(p, "runtime", setting, up) /\ ~up
    BY <1>3, <1>7
  <2>2. "runtime" \in Client!Kinds /\ setting \in Settings /\ seen' \subseteq 1 .. births'
    BY <1>1, <1>3, <1>5 DEF Client!Kinds, ClientTyped
  <2>3. /\ ClientRef(j.runtime) /\ ClientTunnelRef(j.tunnel) /\ j.started = Client!BornRef(p)
        /\ j.tunnel = Client!NoRef
    BY <1>2, <1>4
  <2> QED BY <1>3, <1>6, <2>1, <2>2, <2>3, ClientBorn
<1>9. \A q \in Pids : ~ClientSeen(q)
  BY <1>3, ClientFindsRuntime
<1>10. \A q \in Pids : ~ClientTunnel(q)
  <2>1. CASE job.at = "check"
    BY <2>1 DEF ClientInv, ClientLeads
  <2>2. CASE job.at = "idle" /\ Client!Orphan = Client!NoRef
    <3>1. Client!FindTunnel = Client!NoRef
      BY <1>3, <2>2 DEF Client!Orphan, Client!If, Client!First
    <3> QED BY <3>1, ClientFindsTunnel
  <2> QED BY <1>3, <2>1, <2>2
<1>11. \A q \in Pids : ~ClientSeen(q)'
  BY <1>3, <1>5, <1>8, <1>9 DEF ClientSeen
<1>12. \A q \in Pids : ~ClientTunnel(q)'
  BY <1>8, <1>10 DEF ClientTunnel
<1> QED BY <1>8, <1>11, <1>12 DEF ClientInv

LEMMA ClientForeign ==
    ASSUME ClientBounded, ClientApart, ClientInv, NEW p \in Pids, NEW s \in Settings,
           NEW up \in BOOLEAN, Client!Foreign(p, s, up)
    PROVE  ClientInv'
<1>1. ClientTyped /\ ClientRefs /\ ClientProcesses
  BY DEF ClientInv
<1>2. PICK j : j = job
  OBVIOUS
<1>3. /\ up => Client!Listener(s) = Client!NoRef
      /\ Client!Born(p, "other", s, up) /\ job' = j
      /\ UNCHANGED <<setting, known, file, job, clientCrashes, seen>>
  BY <1>2 DEF Client!Foreign
<1>4. /\ births' = births + 1 /\ births \in Nat /\ 1 .. births \subseteq 1 .. births'
  BY <1>1, <1>3 DEF Client!Born, ClientTyped, ClientBounded
<1>5. up => \A q \in Pids : ClientListens(q) => process[q].of # s
  BY <1>1, <1>3, ClientListener
<1>6. /\ ClientTyped' /\ ClientRefs' /\ ClientProcesses'
      /\ \A q \in Pids \ {p} : process'[q] = process[q] /\ process'[p].kind = "other"
  <2>1. "other" \in Client!Kinds /\ seen' \subseteq 1 .. births' /\ "other" # "tunnel"
    BY <1>1, <1>3, <1>4 DEF Client!Kinds, ClientTyped
  <2>2. /\ ClientRef(j.runtime) /\ ClientTunnelRef(j.tunnel) /\ ClientRef(j.started)
        /\ j \in ClientJobs /\ (j.at = "launch" => j.tunnel = Client!NoRef)
    BY <1>1, <1>2 DEF ClientRefs, ClientTyped
  <2> QED BY <1>3, <1>5, <2>1, <2>2, ClientBorn
<1>7. process'[p].kind = "other"
  <2>1. PICK n : n = [birth |-> births + 1, kind |-> "other", of |-> s, up |-> up]
    OBVIOUS
  <2>2. process' = [process EXCEPT ![p] = n] /\ n.kind = "other"
    BY <1>3, <2>1 DEF Client!Born
  <2> QED BY <1>1, <2>2 DEF ClientTyped
<1>8. ASSUME NEW q \in Pids, ClientSeen(q)' PROVE ClientFinds(q)'
  <2>1. process'[q] = process[q] /\ ClientSeen(q)
    BY <1>3, <1>6, <1>7, <1>8 DEF ClientSeen
  <2> QED BY <1>3, <2>1 DEF ClientFinds, ClientIs, ClientInv
<1>9. ASSUME NEW q \in Pids, ClientTunnel(q)' PROVE ClientLeads(q)'
  <2>1. \A r \in Pids : ClientTunnel(r)' => process'[r] = process[r] /\ ClientTunnel(r)
    BY <1>6, <1>7 DEF ClientTunnel
  <2>2. ClientLeads(q)
    BY <1>9, <2>1 DEF ClientInv
  <2>3. \A r \in Pids : ClientTunnel(r)' => q = r
    BY <2>1, <2>2 DEF ClientLeads
  <2> QED BY <1>3, <1>9, <2>1, <2>2, <2>3 DEF ClientLeads, ClientIs
<1> QED BY <1>6, <1>8, <1>9 DEF ClientInv

\* The port is listened to: what listens there is what is managed, and known.
LEMMA ClientStartListens ==
    ASSUME ClientBounded, ClientApart, ClientInv, NEW p \in Pids, Client!StartListens(p)
    PROVE  ClientInv'
<1>1. ClientTyped /\ ClientRefs /\ ClientProcesses
  BY DEF ClientInv
<1>2. PICK l : l = Client!Listener(setting)
  OBVIOUS
<1>3. /\ job.at = "launch" /\ l # Client!NoRef /\ seen' = seen \cup {l.birth}
      /\ UNCHANGED <<setting, clientCrashes>>
  BY <1>2 DEF Client!StartListens, Client!At
<1>4. PICK h \in Pids : /\ ClientIs(h, l) /\ ClientListens(h) /\ process[h].of = setting
                        /\ process[h].birth \in 1 .. births
  BY <1>1, <1>2, <1>3, ClientListener
<1>5. ClientRef(l) /\ l \in Client!Refs /\ Client!Now(l) = l
  <2>1. ClientRef(l)
    BY <1>1, <1>4 DEF ClientIs, ClientRef, ClientTyped, ClientBounded
  <2>2. Client!Now(l) = l
    BY <1>4 DEF Client!Now, Client!Ref, ClientIs
  <2> QED BY <1>1, <2>1, <2>2, ClientKept
<1>6. \A q \in Pids : ~ClientSeen(q) /\ ~ClientTunnel(q)
  BY <1>3 DEF ClientInv, ClientFinds, ClientLeads
<1>7. seen' \subseteq 1 .. births /\ \A q \in Pids : process[q].birth = l.birth => q = h
  <2>1. l.birth = process[h].birth /\ l.birth \in 1 .. births /\ l.birth # 0
    BY <1>4 DEF ClientIs
  <2>2. seen' \subseteq 1 .. births
    BY <1>1, <1>3, <2>1 DEF ClientTyped
  <2> QED BY <1>1, <2>1, <2>2 DEF ClientProcesses
<1>8. ClientRef(Client!NoRef) /\ ClientTunnelRef(Client!NoRef) /\ Client!NoRef \in Client!Refs
  BY <1>1, ClientKept
<1>9. CASE setting \in Tunnelled
  <2>1. PICK j : j = [[job EXCEPT !.runtime = l] EXCEPT !.at = "tunnel",
                                                        !.tunnel = Client!BornRef(p)]
    OBVIOUS
  <2>2. /\ Client!Born(p, "tunnel", setting, FALSE) /\ job' = j /\ UNCHANGED <<known, file>>
    BY <1>2, <1>9, <2>1 DEF Client!StartListens
  <2>3. /\ births + 1 \in 0 .. MaxBirths /\ births' = births + 1 /\ births \in Nat
        /\ 1 .. births \subseteq 1 .. births' /\ births + 1 \notin seen'
    BY <1>1, <1>7, <2>2 DEF Client!Born, ClientTyped, ClientBounded
  <2>4. /\ j \in ClientJobs /\ j.at = "tunnel" /\ j.runtime = l
        /\ j.tunnel = Client!BornRef(p) /\ j.started = job.started
    <3>1. Client!BornRef(p) \in Client!Refs
      BY <2>3 DEF Client!BornRef, Client!Refs
    <3> QED BY <1>1, <1>5, <2>1, <3>1 DEF ClientTyped, ClientJobs
  <2>5. PICK up \in BOOLEAN : up = FALSE
    OBVIOUS
  <2>6. /\ ClientTyped' /\ ClientRefs' /\ ClientProcesses'
        /\ \A q \in Pids \ {p} : process'[q] = process[q]
        /\ process'[p].birth = births + 1 /\ process'[p].kind = "tunnel"
        /\ process'[p].of = setting
    <3>1. Client!Born(p, "tunnel", setting, up) /\ ~up
      BY <2>2, <2>5
    <3>2. "tunnel" \in Client!Kinds /\ setting \in Settings /\ seen' \subseteq 1 .. births'
      BY <1>1, <1>7, <2>3 DEF Client!Kinds, ClientTyped
    <3>3. ClientRef(j.runtime) /\ ClientRef(j.started) /\ j.tunnel = Client!BornRef(p)
      BY <1>1, <1>5, <2>4 DEF ClientRefs
    <3> QED BY <1>3, <2>2, <2>4, <3>1, <3>2, <3>3, ClientBorn
  <2>7. ASSUME NEW q \in Pids, ClientSeen(q)' PROVE ClientFinds(q)'
    <3>1. q # p /\ process'[q] = process[q] /\ process[q].birth \in seen'
            /\ process[q].kind = "runtime"
      BY <2>6, <2>7 DEF ClientSeen
    <3>2. process[q].birth = l.birth
      BY <1>3, <1>6, <3>1 DEF ClientSeen
    <3>3. q = h /\ process'[q] = process[q]
      BY <1>7, <3>1, <3>2
    <3> QED BY <1>3, <1>4, <2>2, <2>4, <3>3 DEF ClientFinds, ClientIs, ClientListens
  <2>8. ASSUME NEW q \in Pids, ClientTunnel(q)' PROVE ClientLeads(q)'
    <3>1. \A r \in Pids : ClientTunnel(r)' => r = p
      BY <1>6, <2>6 DEF ClientTunnel
    <3> QED BY <1>3, <1>9, <2>2, <2>4, <2>6, <2>8, <3>1 DEF ClientLeads
  <2> QED BY <2>6, <2>7, <2>8 DEF ClientInv
<1>10. CASE setting \notin Tunnelled
  <2>1. PICK g, j : /\ g = [job EXCEPT !.runtime = l] /\ j = [g EXCEPT !.at = "status"]
    OBVIOUS
  <2>2. Client!Manage(g) /\ job' = j /\ UNCHANGED <<process, births>>
    BY <1>2, <1>10, <2>1 DEF Client!StartListens
  <2>3. /\ g.runtime = l /\ g.tunnel = job.tunnel /\ g.started = job.started
        /\ j \in ClientJobs /\ j.at = "status" /\ j.runtime = l /\ j.tunnel = job.tunnel
        /\ j.started = job.started
    BY <1>1, <1>5, <2>1 DEF ClientTyped, ClientJobs
  <2>4. /\ known' \in ClientSessions /\ file' \in ClientFiles
        /\ ClientRef(known'.runtime) /\ ClientTunnelRef(known'.tunnel)
        /\ ClientRef(known'.started) /\ ClientRef(file'.runtime)
        /\ ClientTunnelRef(file'.tunnel)
        /\ known'.runtime = l
    <3>1. /\ ClientRef(g.runtime) /\ ClientTunnelRef(g.tunnel) /\ ClientRef(g.started)
          /\ g.tunnel = Client!NoRef
      BY <1>1, <1>3, <1>5, <2>3 DEF ClientRefs
    <3> QED BY <1>5, <2>2, <2>3, <3>1, ClientManages
  <2>5. PICK k, f : k = known' /\ f = file'
    OBVIOUS
  <2>6. \A r : (ClientRef(r) => ClientRef(r)') /\ (ClientTunnelRef(r) => ClientTunnelRef(r)')
    BY <2>2 DEF ClientRef, ClientTunnelRef
  <2>7. /\ ClientRef(k.runtime)' /\ ClientTunnelRef(k.tunnel)' /\ ClientRef(k.started)'
        /\ ClientRef(f.runtime)' /\ ClientTunnelRef(f.tunnel)'
        /\ ClientRef(j.runtime)' /\ ClientTunnelRef(j.tunnel)' /\ ClientRef(j.started)'
    <3>1. /\ ClientRef(k.runtime) /\ ClientTunnelRef(k.tunnel) /\ ClientRef(k.started)
          /\ ClientRef(f.runtime) /\ ClientTunnelRef(f.tunnel)
      BY <2>4, <2>5
    <3>2. ClientRef(j.runtime) /\ ClientTunnelRef(j.tunnel) /\ ClientRef(j.started)
      BY <1>1, <1>5, <2>3 DEF ClientRefs
    <3> QED BY <2>6, <3>1, <3>2
  <2>8. ClientRefs'
    <3>1. known' = k /\ file' = f /\ job' = j /\ j.at # "launch"
      BY <2>2, <2>3, <2>5
    <3> QED BY <2>7, <3>1 DEF ClientRefs, ClientRef, ClientTunnelRef
  <2>9. ClientTyped'
    BY <1>1, <1>3, <1>7, <2>2, <2>3, <2>4 DEF ClientTyped
  <2>10. ClientProcesses'
    BY <1>1, <2>2 DEF ClientProcesses, ClientListens
  <2>11. ASSUME NEW q \in Pids, ClientSeen(q)' PROVE ClientFinds(q)'
    <3>1. process[q].birth \in seen' /\ process[q].kind = "runtime"
      BY <2>2, <2>11 DEF ClientSeen
    <3>2. process[q].birth = l.birth
      BY <1>3, <1>6, <3>1 DEF ClientSeen
    <3>3. q = h
      BY <1>7, <3>2
    <3> QED BY <1>3, <1>4, <2>2, <2>3, <2>4, <3>3 DEF ClientFinds, ClientIs, ClientListens
  <2>12. \A q \in Pids : ~ClientTunnel(q)'
    BY <1>6, <2>2 DEF ClientTunnel
  <2> QED BY <2>8, <2>9, <2>10, <2>11, <2>12 DEF ClientInv
<1> QED BY <1>9, <1>10

LEMMA ClientUp ==
    ASSUME ClientBounded, ClientApart, ClientInv, NEW p \in Pids, Client!Up(p)
    PROVE  ClientInv'
<1>1. ClientTyped /\ ClientRefs /\ ClientProcesses
  BY DEF ClientInv
<1>2. /\ process[p].kind \in {"runtime", "tunnel"}
      /\ process[p].kind = "runtime" => Client!Listener(process[p].of) = Client!NoRef
      /\ process' = [process EXCEPT ![p].up = TRUE]
      /\ UNCHANGED <<setting, known, file, job, births, clientCrashes, seen>>
  BY DEF Client!Up
<1>3. PICK n : n = [process[p] EXCEPT !.up = TRUE]
  OBVIOUS
<1>4. /\ n \in [birth : 0 .. MaxBirths, kind : Client!Kinds \cup {"none"},
                of : Settings \cup {"none"}, up : BOOLEAN]
      /\ n.birth = process[p].birth /\ n.kind = process[p].kind /\ n.of = process[p].of
      /\ n.up
  BY <1>1, <1>3 DEF ClientTyped
<1>5. process' = [process EXCEPT ![p] = n]
  BY <1>1, <1>2, <1>3 DEF ClientTyped
<1>6. process'[p] = n /\ \A q \in Pids \ {p} : process'[q] = process[q]
  BY <1>1, <1>5 DEF ClientTyped
<1>7. \A q \in Pids : /\ process'[q].birth = process[q].birth
                      /\ process'[q].kind = process[q].kind
                      /\ process'[q].of = process[q].of
  BY <1>4, <1>6
<1>8. ClientTyped'
  <2>1. process' \in [Pids -> [birth : 0 .. MaxBirths, kind : Client!Kinds \cup {"none"},
                               of : Settings \cup {"none"}, up : BOOLEAN]]
    BY <1>1, <1>4, <1>5 DEF ClientTyped
  <2> QED BY <1>1, <1>2, <2>1 DEF ClientTyped
<1>9. ClientRefs'
  <2>1. ASSUME NEW r
        PROVE  (ClientRef(r) => ClientRef(r)') /\ (ClientTunnelRef(r) => ClientTunnelRef(r)')
    BY <1>2, <1>7 DEF ClientRef, ClientTunnelRef
  <2>2. PICK k, f, j : k = known /\ f = file /\ j = job
    OBVIOUS
  <2>3. /\ ClientRef(k.runtime)' /\ ClientTunnelRef(k.tunnel)' /\ ClientRef(k.started)'
        /\ ClientRef(f.runtime)' /\ ClientTunnelRef(f.tunnel)'
        /\ ClientRef(j.runtime)' /\ ClientTunnelRef(j.tunnel)' /\ ClientRef(j.started)'
        /\ (j.at = "launch" => j.tunnel = Client!NoRef)
    BY <1>1, <2>1, <2>2 DEF ClientRefs
  <2>4. known' = k /\ file' = f /\ job' = j
    BY <1>2, <2>2
  <2> QED BY <2>3, <2>4 DEF ClientRefs, ClientRef, ClientTunnelRef
<1>10. ClientProcesses'
  <2>1. process[p] # Client!Free
    BY <1>2 DEF Client!Free
  <2>2. \A q \in Pids : \/ process'[q] = Client!Free
                        \/ /\ process'[q].birth \in 1 .. births'
                           /\ process'[q].kind \in Client!Kinds /\ process'[q].of \in Settings
    BY <1>1, <1>2, <1>6, <1>7, <2>1 DEF ClientProcesses
  <2>3. \A q, r \in Pids :
           process'[q].birth = process'[r].birth /\ process'[q].birth # 0 => q = r
    BY <1>1, <1>7 DEF ClientProcesses
  <2>4. ASSUME NEW q \in Pids, NEW r \in Pids, ClientListens(q)', ClientListens(r)',
               process'[q].of = process'[r].of, q # r
        PROVE  FALSE
    <3>1. \A v \in Pids \ {p} : ClientListens(v)' => ClientListens(v)
      BY <1>6 DEF ClientListens
    <3>2. ClientListens(p)' => process[p].kind = "runtime"
      BY <1>2, <1>7 DEF ClientListens
    <3>3. ClientListens(p)' => \A v \in Pids : ClientListens(v) => process[v].of # process[p].of
      BY <1>1, <1>2, <3>2, ClientListener
    <3>4. CASE q # p /\ r # p
      BY <1>1, <1>7, <2>4, <3>1, <3>4 DEF ClientProcesses
    <3>5. CASE q = p
      BY <1>7, <2>4, <3>1, <3>3, <3>5
    <3>6. CASE r = p
      BY <1>7, <2>4, <3>1, <3>3, <3>6
    <3> QED BY <3>4, <3>5, <3>6
  <2> QED BY <2>2, <2>3, <2>4 DEF ClientProcesses
<1>11. ASSUME NEW q \in Pids, ClientSeen(q)' PROVE ClientFinds(q)'
  <2>1. ClientFinds(q)
    BY <1>2, <1>7, <1>11 DEF ClientSeen, ClientInv
  <2>2. process'[q].up
    BY <1>4, <1>6, <2>1 DEF ClientFinds
  <2> QED BY <1>2, <1>7, <2>1, <2>2 DEF ClientFinds, ClientIs
<1>12. ASSUME NEW q \in Pids, ClientTunnel(q)' PROVE ClientLeads(q)'
  <2>1. ClientLeads(q)
    BY <1>7, <1>12 DEF ClientTunnel, ClientInv
  <2>2. \A r \in Pids : ClientTunnel(r)' => q = r
    BY <1>7, <2>1 DEF ClientTunnel, ClientLeads
  <2> QED BY <1>2, <1>7, <2>1, <2>2 DEF ClientLeads, ClientIs
<1> QED BY <1>8, <1>9, <1>10, <1>11, <1>12 DEF ClientInv

LEMMA ClientPreserved ==
    ASSUME ClientBounded, ClientApart, ClientInv, [Client!Next]_clientVars
    PROVE  ClientInv'
<1>1. ASSUME NEW p \in Pids,
             \/ Client!StartRecovers(p) \/ Client!StartLaunches(p) \/ Client!StartListens(p)
             \/ Client!Up(p) \/ Client!Die(p)
      PROVE  ClientInv'
  BY <1>1, ClientStartRecovers, ClientStartLaunches, ClientStartListens, ClientUp,
     ClientCrashes
<1>2. ASSUME NEW p \in Pids, NEW s \in Settings, NEW up \in BOOLEAN, Client!Foreign(p, s, up)
      PROVE  ClientInv'
  BY <1>2, ClientForeign
<1>3. ASSUME NEW s \in Settings, Client!Save(s) PROVE ClientInv'
  BY <1>3, ClientSave
<1>4. CASE \/ Client!StartCleans \/ Client!StartAdopts \/ Client!StartRefused
           \/ Client!StartTimesOut \/ Client!StartConnects \/ Client!StartFails
           \/ Client!RecoveryFails \/ Client!Status \/ Client!Stop \/ Client!StopTunnel
           \/ Client!StopRuntime \/ Client!StopClears
  BY <1>4, ClientStartCleans, ClientStartAdopts, ClientStartRefused, ClientStartTimesOut,
     ClientStartConnects, ClientStartFails, ClientStatus, ClientStop, ClientStopping
<1>5. CASE Client!ClientCrash \/ UNCHANGED clientVars
  BY <1>5, ClientCrashes
<1> QED BY <1>1, <1>2, <1>3, <1>4, <1>5 DEF Client!Next

LEMMA ClientCardinality == \A S : Client!Cardinality(S) = Cardinality(S)
BY DEF Client!Cardinality, Cardinality

LEMMA ClientImplies ==
    ASSUME ClientBounded, ClientApart, ClientInv
    PROVE  Client!TypeOK /\ Client!NothingIsLost
<1>1. ClientTyped /\ ClientRefs /\ ClientProcesses
  BY DEF ClientInv
<1>2. Client!TypeOK
  <2>1. seen \subseteq 1 .. MaxBirths
    BY <1>1 DEF ClientTyped, ClientBounded
  <2> QED BY <1>1, <2>1
          DEF ClientTyped, ClientSessions, ClientFiles, ClientJobs, Client!TypeOK
<1>3. \A p \in Client!Runtimes : p \in Pids /\ ClientSeen(p) /\ ClientFinds(p)
  BY DEF Client!Runtimes, ClientSeen, ClientInv
<1>4. \A p \in Client!Tunnels : p \in Pids /\ ClientTunnel(p) /\ ClientLeads(p)
  BY DEF Client!Tunnels, ClientTunnel, ClientInv
<1>5. Client!Cardinality(Client!Runtimes) <= 1
  <2>1. \A p \in Client!Runtimes : ClientListens(p) /\ process[p].of = setting
    BY <1>3 DEF ClientFinds, ClientListens, ClientSeen
  <2>2. \A p, q \in Client!Runtimes : p = q
    BY <1>1, <1>3, <2>1 DEF ClientProcesses
  <2> QED BY <2>2, AtMostOne, ClientCardinality
<1>6. Client!Cardinality(Client!Tunnels) <= 1
  <2>1. \A p, q \in Client!Tunnels : p = q
    BY <1>4 DEF ClientLeads
  <2> QED BY <2>1, AtMostOne, ClientCardinality
<1>7. \A p \in Client!Runtimes : process[p].of = setting
  BY <1>3 DEF ClientFinds
<1>8. ASSUME NEW p \in Client!Tunnels
      PROVE  Client!First(Client!FindTunnel, Client!FindStateTunnel) = Client!Ref(p)
  <2>1. ClientIs(p, Client!FindTunnel) /\ Client!FindTunnel # Client!NoRef
    BY <1>4, ClientFindsTunnel
  <2> QED BY <2>1 DEF ClientIs, Client!First, Client!Ref
<1>9. job.at = "clear" => Client!Runtimes \cup Client!Tunnels = {}
  BY <1>3, <1>4 DEF ClientFinds, ClientLeads
<1> QED BY <1>2, <1>5, <1>6, <1>7, <1>8, <1>9 DEF Client!NothingIsLost, Client!At
===============================================================================
