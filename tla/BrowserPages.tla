----------------------------- MODULE BrowserPages -----------------------------
(* Inside the browser worker: the pages a session owns, snapshots of them and *)
(* actions on what a snapshot showed (bf_automation/browser/engine.py,        *)
(* actions.py, transfers.py).  The worker serves one request at a time;       *)
(* between its awaits pages navigate, close and open others, and the engine's *)
(* callbacks are told later.                                                  *)
(*                                                                            *)
(* A page opens once, with its first document: MaxDocs bounds the documents   *)
(* of a page, and MaxVersions the snapshots.  Two parts stand for the frames  *)
(* and elements that a snapshot collects one after the other.                 *)
EXTENDS Naturals, FiniteSets, Sequences

CONSTANTS Pages, MaxPages, MaxDocs, MaxVersions

NoPage == "none"
Parts == 2

VARIABLES
    open,       \* pages the browser has
    doc,        \* of each page: the document it shows
    news,       \* of each page: callbacks not delivered yet, in order
    bound,      \* pages of ObservationEngine.pages
    named,      \* ... and of its _ids: their callbacks are registered
    ending,     \* pages whose close has been asked for
    revision,   \* ActionEngine.revisions
    snapshots,  \* ActionEngine.snapshots: version and the documents of its nodes
    versions,   \* snapshots made so far
    request,    \* the request under way, and the last answer
    closed

vars == <<open, doc, news, bound, named, ending, revision, snapshots, versions, request, closed>>

NoSnapshot == [version |-> 0, docs |-> {}]
Idle == [step |-> "idle", on |-> NoPage, revision |-> 0, part |-> 0, version |-> 0, docs |-> {}, acted |-> FALSE, answer |-> ""]
Answers == {"", "done", "refused", "toolarge", "unknown", "error"}

TypeOK ==
    /\ open \subseteq Pages /\ bound \subseteq named /\ named \subseteq Pages /\ ending \subseteq Pages
    /\ doc \in [Pages -> 0 .. MaxDocs]
    /\ \A p \in Pages : \A i \in DOMAIN news[p] : news[p][i] \in {"appeared", "navigated", "closed"}
    /\ revision \in [Pages -> Nat]
    /\ snapshots \in [Pages -> [version: 0 .. MaxVersions, docs: SUBSET (0 .. MaxDocs)]]
    /\ versions \in 0 .. MaxVersions /\ closed \in BOOLEAN
    /\ request.answer \in Answers /\ request.version \in 0 .. MaxVersions

Init ==
    /\ open = {} /\ bound = {} /\ named = {} /\ ending = {} /\ closed = FALSE
    /\ doc = [p \in Pages |-> 0] /\ news = [p \in Pages |-> <<>>]
    /\ revision = [p \in Pages |-> 0] /\ snapshots = [p \in Pages |-> NoSnapshot]
    /\ versions = 0 /\ request = Idle

Tell(p, what) == news' = [news EXCEPT ![p] = Append(@, what)]
At(step) == request.step = step
Answer(answer) == request' = [Idle EXCEPT !.answer = answer]
BrowserAlone == UNCHANGED <<open, doc, news>>
EngineAlone == UNCHANGED <<bound, named, ending, revision, snapshots, versions, closed>>

\* _invalidate: what was seen of the page counts no longer.
Invalidated(p) ==
    /\ revision' = [revision EXCEPT ![p] = @ + 1]
    /\ snapshots' = [snapshots EXCEPT ![p] = NoSnapshot]

\* What the browser does: a new page (asked for, or opened by another one), a
\* navigation of a page or of one of its frames, the end of a page.
Opens(p) == doc[p] = 0 /\ doc' = [doc EXCEPT ![p] = 1] /\ open' = open \cup {p} /\ Tell(p, "appeared")
Navigates(p) ==
    /\ p \in open /\ doc[p] < MaxDocs
    /\ doc' = [doc EXCEPT ![p] = @ + 1] /\ Tell(p, "navigated") /\ UNCHANGED open
Ends(p) == p \in open /\ open' = open \ {p} /\ Tell(p, "closed") /\ UNCHANGED doc

Popup(p) == open # {} /\ Opens(p) /\ EngineAlone /\ UNCHANGED request
Navigate(p) == Navigates(p) /\ EngineAlone /\ UNCHANGED request
Close(p) == Ends(p) /\ EngineAlone /\ UNCHANGED request

Bind(p) == bound' = bound \cup {p} /\ named' = named \cup {p}
MayBind == ~closed /\ Cardinality(bound) < MaxPages

\* Mutant: a page over the limit is not bound, and left open.
BoundQuietly(p) ==
    IF p \notin named /\ MayBind THEN Bind(p) /\ UNCHANGED ending ELSE UNCHANGED <<bound, named, ending>>

\* _bind_page: a page over the limit is closed again.
Bound(p) ==
    IF p \in named THEN UNCHANGED <<bound, named, ending>>
    ELSE IF MayBind THEN Bind(p) /\ UNCHANGED ending
    ELSE ending' = ending \cup {p} /\ UNCHANGED <<bound, named>>

\* The callbacks of a page, in their order: page, framenavigated, close.
Callback(p) ==
    /\ news[p] # <<>> /\ news' = [news EXCEPT ![p] = Tail(@)]
    /\ IF Head(news[p]) = "appeared" THEN Bound(p)
       ELSE IF Head(news[p]) = "closed"
       THEN bound' = bound \ {p} /\ named' = named \ {p} /\ ending' = ending \ {p}
       ELSE UNCHANGED <<bound, named, ending>>
    /\ IF Head(news[p]) # "appeared" /\ p \in named THEN Invalidated(p) ELSE UNCHANGED <<revision, snapshots>>
    /\ UNCHANGED <<open, doc, versions, closed, request>>

\* page.close(), asked for by _background.
Closing(p) == p \in ending /\ Ends(p) /\ ending' = ending \ {p}
              /\ UNCHANGED <<bound, named, revision, snapshots, versions, closed, request>>

\* new_page: the limit is looked at, then the browser is asked, then the page is
\* bound, by its event or here.
NewPage ==
    /\ At("idle") /\ ~closed
    /\ IF Cardinality(bound) >= MaxPages THEN Answer("refused") ELSE request' = [Idle EXCEPT !.step = "creating"]
    /\ BrowserAlone /\ EngineAlone

Create(p) == At("creating") /\ Opens(p) /\ request' = [request EXCEPT !.step = "created", !.on = p] /\ EngineAlone

Created ==
    /\ At("created") /\ news[request.on] = <<>>
    /\ IF request.on \in open THEN Bound(request.on) /\ Answer("done")
       ELSE Answer("error") /\ UNCHANGED <<bound, named, ending>>
    /\ BrowserAlone /\ UNCHANGED <<revision, snapshots, versions, closed>>

\* _page
Owned(p) == ~closed /\ p \in bound /\ p \in open

\* navigate: goto, and a page whose navigation failed is given up.
Goto(p) ==
    /\ At("idle") /\ Owned(p)
    /\ \/ Navigates(p) /\ Answer("done") /\ EngineAlone
       \/ Ends(p) /\ Answer("error") /\ bound' = bound \ {p}
          /\ UNCHANGED <<named, ending, revision, snapshots, versions, closed>>

\* snapshot: the earlier one is given up first.
Look(p) ==
    /\ At("idle") /\ Owned(p) /\ versions < MaxVersions
    /\ Invalidated(p) /\ versions' = versions + 1
    /\ request' = [Idle EXCEPT !.step = "collecting", !.on = p, !.revision = revision[p] + 1, !.version = versions + 1]
    /\ BrowserAlone /\ UNCHANGED <<bound, named, ending, closed>>

Collect ==
    /\ At("collecting") /\ request.part < Parts
    /\ \/ request.on \in open /\ request' = [request EXCEPT !.part = @ + 1, !.docs = @ \cup {doc[request.on]}]
       \/ Answer("error")
    /\ BrowserAlone /\ EngineAlone

\* Mutant: the revision is not compared.
CollectedAnyhow ==
    /\ At("collecting") /\ request.part = Parts
    /\ snapshots' = [snapshots EXCEPT ![request.on] = [version |-> request.version, docs |-> request.docs]]
    /\ Answer("done")
    /\ BrowserAlone /\ UNCHANGED <<bound, named, ending, revision, versions, closed>>

\* SNAPSHOT_NAVIGATION_RACE, or the snapshot is kept.
Collected ==
    /\ At("collecting") /\ request.part = Parts
    /\ IF revision[request.on] # request.revision THEN Answer("error") /\ UNCHANGED snapshots
       ELSE /\ snapshots' = [snapshots EXCEPT ![request.on] = [version |-> request.version, docs |-> request.docs]]
            /\ Answer("done")
    /\ BrowserAlone /\ UNCHANGED <<bound, named, ending, revision, versions, closed>>

\* action, upload, download: of a node of the snapshot named.
Act(p, v, d) ==
    /\ At("idle") /\ Owned(p)
    /\ IF snapshots[p].version # v THEN Answer("refused")
       ELSE /\ d \in snapshots[p].docs
            /\ request' = [Idle EXCEPT !.step = "checking", !.on = p, !.version = v, !.docs = {d}]
    /\ BrowserAlone /\ EngineAlone

Attached == request.on \in open /\ doc[request.on] \in request.docs

\* Attached, enabled and of the right kind; any doubt refuses the action.
Check ==
    /\ At("checking")
    /\ Answer("refused") \/ (Attached /\ request' = [request EXCEPT !.step = "acting"])
    /\ BrowserAlone /\ EngineAlone

\* Mutant: a provider failure is answered like a stale element.
DoRefusing ==
    /\ At("acting")
    /\ \/ Attached /\ request' = [Idle EXCEPT !.answer = "done", !.acted = TRUE]
       \/ \E acted \in BOOLEAN : (acted => Attached) /\ request' = [Idle EXCEPT !.answer = "refused", !.acted = acted]
    /\ BrowserAlone /\ EngineAlone

\* The provider acts on the node, or fails before, during or after.  A download
\* that was saved and is too large is deleted again and not accepted.
Do ==
    /\ At("acting")
    /\ \/ Attached /\ \E answer \in {"done", "toolarge"} :
                         request' = [Idle EXCEPT !.answer = answer, !.acted = TRUE]
       \/ \E acted \in BOOLEAN : (acted => Attached) /\ request' = [Idle EXCEPT !.answer = "unknown", !.acted = acted]
    /\ BrowserAlone /\ EngineAlone

\* close: nothing is bound any more, and the browser's pages end with it.
CloseEngine ==
    /\ At("idle") /\ ~closed /\ closed' = TRUE
    /\ snapshots' = [p \in Pages |-> NoSnapshot] /\ bound' = {} /\ named' = {} /\ ending' = {}
    /\ open' = {} /\ news' = [p \in Pages |-> <<>>]
    /\ Answer("done") /\ UNCHANGED <<doc, revision, versions>>

Next ==
    \/ \E p \in Pages : Popup(p) \/ Navigate(p) \/ Close(p) \/ Callback(p) \/ Closing(p) \/ Create(p) \/ Goto(p) \/ Look(p)
    \/ \E p \in Pages, v \in 1 .. versions, d \in 0 .. MaxDocs : Act(p, v, d)
    \/ NewPage \/ Created \/ Collect \/ Collected \/ Check \/ Do \/ CloseEngine

Spec == Init /\ [][Next]_vars
------------------------------------------------------------------------------
\* A snapshot that is kept shows only the document its page shows, or the engine
\* is still to be told that the page has moved on.
SnapshotsAreCurrent ==
    \A p \in Pages : snapshots[p].version # 0 =>
        (snapshots[p].docs = {doc[p]} /\ p \in open) \/ news[p] # <<>>

\* No more pages than the limit are owned, and no page stays open that is neither
\* owned, nor about to be, nor about to be closed.
PagesAreOwned ==
    /\ Cardinality(bound) <= MaxPages
    /\ \A p \in open : p \in bound \cup ending \/ news[p] # <<>> \/ (At("created") /\ request.on = p)

\* An action that is not accepted was not begun, unless it was a download whose
\* answer says that it was too large to keep.
RefusedDidNothing == request.answer = "refused" => ~request.acted

PagesAreTrue == SnapshotsAreCurrent /\ PagesAreOwned /\ RefusedDidNothing
==============================================================================
