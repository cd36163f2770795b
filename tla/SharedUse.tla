------------------------------ MODULE SharedUse ------------------------------
(* What several clients, workflows and calls use at once: transfers, the      *)
(* browser, the desktop and its windows, the runtimes of the desktop client,  *)
(* authorization, the protocol front and its counters.  They share no state,  *)
(* so a behaviour is one of any of them: the components stand side by side,   *)
(* and what a property says of a component is Part!Property in its module.    *)
EXTENDS Naturals, FiniteSets

CONSTANTS
    Transfers, Peers, MaxFile, MaxStored, MaxPerPeer, MaxTrouble,
                                                        \* of FileTransfer
    BrowserRequests, Navigations, Uploads, Downloads, MaxSessions, MaxKills,
                                                        \* of BrowserCalls
    Workflows, Sessions, DeskCalls, MaxListed, MaxInputs,
                                                        \* of DesktopControl
    Windows, WindowCalls, MaxEvents, MaxMeddling,       \* of WindowControl
    Settings, Tunnelled, Pids, MaxBirths, MaxCrashes,   \* of ClientRuntimes
    Clients, Preregistered, Redirects, Bases, Verifiers, Terms, Approvals,
    TokenRequests, MaxClients, MaxCodes, CodeTTL, TokenTTL, MaxIssued, MaxTime,
                                                        \* of OAuthCodes
    Pages, MaxPages, MaxDocs, MaxVersions,              \* of BrowserPages
    Threads, Tools, ErrorLimit, QueueLimit, MaxCalls, MaxHandshakes,
                                                        \* of Telemetry
    Callers, RequestIds, MaxBreaks                      \* of HostCalls

\* The limits of the code and the bounds are numbers, what there is of each
\* kind is finite, and the names for nothing and nobody are nobody's.
ASSUME SharedUseAssumption ==
    /\ {MaxFile, MaxStored, MaxPerPeer, MaxTrouble, MaxSessions, MaxKills,
        MaxListed, MaxInputs, MaxEvents, MaxMeddling, MaxBirths, MaxCrashes,
        MaxClients, CodeTTL, TokenTTL, MaxIssued, MaxTime, MaxPages,
        MaxVersions, ErrorLimit, QueueLimit, MaxCalls, MaxHandshakes,
        MaxBreaks} \subseteq Nat
    /\ {MaxCodes, MaxDocs} \subseteq Nat \ {0}
    /\ IsFiniteSet(Transfers) /\ IsFiniteSet(Pages) /\ IsFiniteSet(Pids)
    /\ IsFiniteSet(Threads) /\ IsFiniteSet(Tools)
    /\ {"nobody", "others"} \cap (Transfers \cup Windows \cup WindowCalls) = {}
    /\ {"none", "upstream"} \cap
          (BrowserRequests \cup Workflows \cup DeskCalls \cup Settings \cup Pids
             \cup Pages \cup Callers \cup RequestIds) = {}
    /\ Sessions # {} /\ Preregistered \subseteq Clients
    /\ Terms \cup Approvals \subseteq Redirects \X Bases \X Verifiers

VARIABLES
    part,       \* the component this behaviour is of
    transferTransfer, peer, size, sent, wrong, expired, recorded, orphan,
    orphanIs, target, moved, committing, transferTrouble,
    record, answered, calling, inbox, replies, workerClosed, effects, workers,
    kills,
    session, deskCall, stage, writer, deskLease, claim, overtaken, armedBy,
    late,
    shape, windowFront, windowCall, lock, windowLease, given, excused,
    meddling,
    process, setting, known, file, job, births, clientCrashes, seen,
    clients, pending, asked, now, approved, tokens,
    open, doc, news, bound, named, ending, revision, snapshots, versions,
    request, closed,
    message, headers, frontTrouble, http, stdio,
    active, finished, served, stats, streak, errorsSent, errorsDropped,
    telling, queue, batch, told, overflowed, posted, happened, summed,
    pc, hostCall, gate, receipts, works, answers, breaks

Transfer == INSTANCE FileTransfer WITH
    transfer <- transferTransfer, trouble <- transferTrouble
Browser == INSTANCE BrowserCalls WITH
    Requests <- BrowserRequests
Desk == INSTANCE DesktopControl WITH
    Calls <- DeskCalls, call <- deskCall, lease <- deskLease
Window == INSTANCE WindowControl WITH
    Calls <- WindowCalls, front <- windowFront, call <- windowCall,
    lease <- windowLease
Client == INSTANCE ClientRuntimes
Auth == INSTANCE OAuthCodes WITH
    Requests <- TokenRequests
Browse == INSTANCE BrowserPages
Front == INSTANCE RpcFront WITH trouble <- frontTrouble
Tell == INSTANCE Telemetry
Host == INSTANCE HostCalls WITH
    call <- hostCall

\* A behaviour is of one component: the variables of the others are unused.
transferVars == <<transferTransfer, peer, size, sent, wrong, expired,
                  recorded, orphan, orphanIs, target, moved, committing,
                  transferTrouble>>
browserVars == <<record, answered, calling, inbox, replies, workerClosed,
                 effects, workers, kills>>
deskVars == <<session, deskCall, stage, writer, deskLease, claim, overtaken,
              armedBy, late>>
windowVars == <<shape, windowFront, windowCall, lock, windowLease, given,
                excused, meddling>>
clientVars == <<process, setting, known, file, job, births, clientCrashes,
                seen>>
oauthVars == <<clients, pending, asked, now, approved, tokens>>
browseVars == <<open, doc, news, bound, named, ending, revision, snapshots,
                versions, request, closed>>
frontVars == <<message, headers, frontTrouble, http, stdio>>
tellVars == <<active, finished, served, stats, streak, errorsSent,
              errorsDropped, telling, queue, batch, told, overflowed, posted,
              happened, summed>>
hostVars == <<pc, hostCall, gate, receipts, works, answers, breaks>>
vars == <<part, transferVars, browserVars, deskVars, windowVars, clientVars,
          oauthVars, browseVars, frontVars, tellVars, hostVars>>

Unused(v) == v = "unused"
NoTransfer ==
    /\ Unused(transferTransfer) /\ Unused(peer) /\ Unused(size)
    /\ Unused(sent) /\ Unused(wrong) /\ Unused(expired) /\ Unused(recorded)
    /\ Unused(orphan) /\ Unused(orphanIs) /\ Unused(target) /\ Unused(moved)
    /\ Unused(committing) /\ Unused(transferTrouble)
NoBrowser ==
    /\ Unused(record) /\ Unused(answered) /\ Unused(calling) /\ Unused(inbox)
    /\ Unused(replies) /\ Unused(workerClosed) /\ Unused(effects)
    /\ Unused(workers) /\ Unused(kills)
NoDesk ==
    /\ Unused(session) /\ Unused(deskCall) /\ Unused(stage) /\ Unused(writer)
    /\ Unused(deskLease) /\ Unused(claim) /\ Unused(overtaken)
    /\ Unused(armedBy) /\ Unused(late)
NoWindow ==
    /\ Unused(shape) /\ Unused(windowFront) /\ Unused(windowCall)
    /\ Unused(lock) /\ Unused(windowLease) /\ Unused(given) /\ Unused(excused)
    /\ Unused(meddling)
NoClient ==
    /\ Unused(process) /\ Unused(setting) /\ Unused(known) /\ Unused(file)
    /\ Unused(job) /\ Unused(births) /\ Unused(clientCrashes) /\ Unused(seen)
NoAuth ==
    /\ Unused(clients) /\ Unused(pending) /\ Unused(asked) /\ Unused(now)
    /\ Unused(approved) /\ Unused(tokens)
NoBrowse ==
    /\ Unused(open) /\ Unused(doc) /\ Unused(news) /\ Unused(bound)
    /\ Unused(named) /\ Unused(ending) /\ Unused(revision)
    /\ Unused(snapshots) /\ Unused(versions) /\ Unused(request)
    /\ Unused(closed)
NoFront ==
    /\ Unused(message) /\ Unused(headers) /\ Unused(frontTrouble)
    /\ Unused(http) /\ Unused(stdio)
NoTell ==
    /\ Unused(active) /\ Unused(finished) /\ Unused(served) /\ Unused(stats)
    /\ Unused(streak) /\ Unused(errorsSent) /\ Unused(errorsDropped)
    /\ Unused(telling) /\ Unused(queue) /\ Unused(batch) /\ Unused(told)
    /\ Unused(overflowed) /\ Unused(posted) /\ Unused(happened)
    /\ Unused(summed)
NoHost ==
    /\ Unused(pc) /\ Unused(hostCall) /\ Unused(gate) /\ Unused(receipts)
    /\ Unused(works) /\ Unused(answers) /\ Unused(breaks)

Init ==
    \/ part = "transfer" /\ Transfer!Init
       /\ NoBrowser /\ NoDesk /\ NoWindow /\ NoClient /\ NoAuth /\ NoBrowse
       /\ NoFront /\ NoTell /\ NoHost
    \/ part = "browser" /\ Browser!Init
       /\ NoTransfer /\ NoDesk /\ NoWindow /\ NoClient /\ NoAuth /\ NoBrowse
       /\ NoFront /\ NoTell /\ NoHost
    \/ part = "desk" /\ Desk!Init
       /\ NoTransfer /\ NoBrowser /\ NoWindow /\ NoClient /\ NoAuth
       /\ NoBrowse /\ NoFront /\ NoTell /\ NoHost
    \/ part = "window" /\ Window!Init
       /\ NoTransfer /\ NoBrowser /\ NoDesk /\ NoClient /\ NoAuth /\ NoBrowse
       /\ NoFront /\ NoTell /\ NoHost
    \/ part = "client" /\ Client!Init
       /\ NoTransfer /\ NoBrowser /\ NoDesk /\ NoWindow /\ NoAuth /\ NoBrowse
       /\ NoFront /\ NoTell /\ NoHost
    \/ part = "oauth" /\ Auth!Init
       /\ NoTransfer /\ NoBrowser /\ NoDesk /\ NoWindow /\ NoClient
       /\ NoBrowse /\ NoFront /\ NoTell /\ NoHost
    \/ part = "browse" /\ Browse!Init
       /\ NoTransfer /\ NoBrowser /\ NoDesk /\ NoWindow /\ NoClient /\ NoAuth
       /\ NoFront /\ NoTell /\ NoHost
    \/ part = "front" /\ Front!Init
       /\ NoTransfer /\ NoBrowser /\ NoDesk /\ NoWindow /\ NoClient /\ NoAuth
       /\ NoBrowse /\ NoTell /\ NoHost
    \/ part = "tell" /\ Tell!Init
       /\ NoTransfer /\ NoBrowser /\ NoDesk /\ NoWindow /\ NoClient /\ NoAuth
       /\ NoBrowse /\ NoFront /\ NoHost
    \/ part = "host" /\ Host!Init
       /\ NoTransfer /\ NoBrowser /\ NoDesk /\ NoWindow /\ NoClient /\ NoAuth
       /\ NoBrowse /\ NoFront /\ NoTell

Next ==
    \/ /\ part = "transfer" /\ Transfer!Next
       /\ UNCHANGED <<part, browserVars, deskVars, windowVars, clientVars, oauthVars,
                      browseVars, frontVars, tellVars, hostVars>>
    \/ /\ part = "browser" /\ Browser!Next
       /\ UNCHANGED <<part, transferVars, deskVars, windowVars, clientVars, oauthVars,
                      browseVars, frontVars, tellVars, hostVars>>
    \/ /\ part = "desk" /\ Desk!Next
       /\ UNCHANGED <<part, transferVars, browserVars, windowVars, clientVars, oauthVars,
                      browseVars, frontVars, tellVars, hostVars>>
    \/ /\ part = "window" /\ Window!Next
       /\ UNCHANGED <<part, transferVars, browserVars, deskVars, clientVars, oauthVars,
                      browseVars, frontVars, tellVars, hostVars>>
    \/ /\ part = "client" /\ Client!Next
       /\ UNCHANGED <<part, transferVars, browserVars, deskVars, windowVars, oauthVars,
                      browseVars, frontVars, tellVars, hostVars>>
    \/ /\ part = "oauth" /\ Auth!Next
       /\ UNCHANGED <<part, transferVars, browserVars, deskVars, windowVars, clientVars,
                      browseVars, frontVars, tellVars, hostVars>>
    \/ /\ part = "browse" /\ Browse!Next
       /\ UNCHANGED <<part, transferVars, browserVars, deskVars, windowVars, clientVars,
                      oauthVars, frontVars, tellVars, hostVars>>
    \/ /\ part = "front" /\ Front!Next
       /\ UNCHANGED <<part, transferVars, browserVars, deskVars, windowVars, clientVars,
                      oauthVars, browseVars, tellVars, hostVars>>
    \/ /\ part = "tell" /\ Tell!Next
       /\ UNCHANGED <<part, transferVars, browserVars, deskVars, windowVars, clientVars,
                      oauthVars, browseVars, frontVars, hostVars>>
    \/ /\ part = "host" /\ Host!Next
       /\ UNCHANGED <<part, transferVars, browserVars, deskVars, windowVars, clientVars,
                      oauthVars, browseVars, frontVars, tellVars>>

Spec == Init /\ [][Next]_vars

------------------------------------------------------------------------------
\* An upload creates its file whole and once and replaces nothing
\* (file_transfer.py).
UploadsOnlyCreate ==
    /\ [](part = "transfer" => Transfer!TypeOK)
    /\ [][part = "transfer" => Transfer!CreatesOnly]_transferVars

\* A browser request recorded as completed took effect, and one recorded as failed
\* did not, but for an upload whose record says accepted and a navigation whose
\* page was given up; a snapshot of a page shows that page as it is, a page belongs
\* to who opened it, and an action that is not accepted did nothing, but for a
\* download too large to keep (browser/manager.py, operation_store.py, engine.py,
\* actions.py, transfers.py).
BrowserIsTrue ==
    CASE part = "browser" -> Browser!TypeOK /\ Browser!BrowserRecordsTrue
      [] part = "browse" -> Browse!TypeOK /\ Browse!PagesAreTrue
      [] OTHER -> TRUE

\* Who lost control of the desktop sends no more input, and an answer about a
\* window tells what was done to it (desktop_console.py, lease.py, window_control.py).
DesktopIsMinded ==
    CASE part = "desk" -> Desk!TypeOK /\ Desk!ControlEndsWhenRevoked
      [] part = "window" -> Window!TypeOK /\ Window!WindowsAnswerTrue
      [] OTHER -> TRUE

\* A runtime that was seen listening is found again and ended, also by the next
\* client after a crash (apps/desktop-client runtime.py, app.py).
NothingIsLost == part = "client" => Client!TypeOK /\ Client!NothingIsLost

\* A token stands for a code that was approved for that client, redirect, resource
\* and verifier, presented in time and redeemed once, and is admitted for that
\* resource until it lapses; a code leaves only when redeemed, lapsed or out of
\* room (oauth.py, server.py).
TokensAreApproved ==
    /\ [](part = "oauth" => Auth!TypeOK /\ Auth!TokensAreApproved)
    /\ [][part = "oauth" => Auth!LeavesForCause]_oauthVars

\* A message has one verdict however it arrives; one journaled write of a
\* workflow is dispatched at a time, and none while the outcome of an earlier one
\* is open (protocol.py, transport_stdio.py, server.py; host.py _call_tool).
CallsAreJudged ==
    CASE part = "front" -> Front!OneVerdict
      [] part = "host" -> Host!TypeOK /\ Host!OneWriteAtATime
      [] OTHER -> TRUE

\* What the transfers keep stays within its limits; every failed call is told or
\* counted as dropped, and the summaries of a session that are told, all together
\* or none, are the calls and requests served up to its end (file_transfer.py,
\* telemetry.py).
CountsAddUp ==
    CASE part = "transfer" -> Transfer!StorageWithinLimit
      [] part = "tell" -> Tell!TelemetryAddsUp
      [] OTHER -> TRUE
==============================================================================
