---------------------------- MODULE FileTransfer ----------------------------
(***************************************************************************)
(* Uploads and downloads of one server.  A transfer keeps a staged file in *)
(* the server's private cache, whose marker records the bytes reserved for *)
(* it; a commit creates the target and never replaces one.  handle() holds *)
(* one lock throughout, so of the program only the clock runs beside it,   *)
(* but other programs may write the target's directory at any step.  A     *)
(* killed server leaves its cache behind as an orphan, which counts until  *)
(* it is old enough to be removed, or blocks new transfers for good once   *)
(* it holds anything unknown.  Uploads here share one target path.         *)
(***************************************************************************)
EXTENDS Naturals, FiniteSets, FiniteSetsExt

CONSTANTS Transfers, Peers,     \* transfer ids, owners
          MaxFile, MaxStored,   \* max_file_bytes, max_total_bytes
          MaxPerPeer,           \* MAX_OWNER_TRANSFERS
          MaxTrouble            \* bound: crashes, failed removals, foreign writes, together

VARIABLES
    transfer,     \* what each transfer is: free, upload, download, committed, over
    peer,         \* its owner
    size, sent,   \* declared size, next_offset
    wrong,        \* uploads whose staged bytes are not those of the declared hash
    expired,      \* transfers past their TTL
    recorded,     \* staged files in the marker of this server's cache
    orphan,       \* those of a cache left by a killed server,
    orphanIs,     \* which is absent, fresh, old or unknown
    target,       \* who made the target file: nobody, another program, a transfer
    moved,        \* uploads whose target directory was replaced since they began
    committing,   \* the upload whose commit holds the lock, and how far it is
    trouble
item == <<transfer, peer, size, sent, wrong, expired>>
cache == <<recorded, orphan, orphanIs>>
place == <<target, moved>>
vars == <<item, cache, place, committing, trouble>>

Nobody == "nobody"
Others == "others"
Idle == <<"idle", Nobody>>
Live == {t \in Transfers : transfer[t] \in {"upload", "download", "committed"}}
Reserved(set) == MapThenSumSet(LAMBDA t : size[t], set)

TypeOK ==
    /\ transfer \in [Transfers -> {"free", "upload", "download", "committed", "over"}]
    /\ peer \in [Transfers -> Peers] /\ {size, sent} \subseteq [Transfers -> 0..MaxFile]
    /\ {wrong, expired, recorded, orphan, moved} \subseteq SUBSET Transfers
    /\ orphanIs \in {"absent", "fresh", "old", "unknown"}
    /\ target \in Transfers \cup {Nobody, Others}
    /\ committing \in {Idle} \cup ({"checked", "linked"} \X Transfers)
    /\ trouble \in 0..MaxTrouble

Init ==
    /\ transfer = [t \in Transfers |-> "free"]
    /\ peer \in [Transfers -> Peers]
    /\ size = [t \in Transfers |-> 0] /\ sent = size
    /\ wrong = {} /\ expired = {} /\ recorded = {} /\ orphan = {} /\ orphanIs = "absent"
    /\ target = Nobody /\ moved = {} /\ committing = Idle /\ trouble = 0

Trouble == trouble < MaxTrouble /\ trouble' = trouble + 1

(* handle() starts with _prune: nothing else is done while a transfer that  *)
(* expired is still there.                                                  *)
Handling == committing = Idle /\ Live \cap expired = {}

(* _remove_staged: the file and its record go, or an error leaves both.     *)
RemoveStaged(t) ==
    \/ recorded' = recorded \ {t} /\ UNCHANGED trouble
    \/ t \in recorded /\ Trouble /\ UNCHANGED recorded

-----------------------------------------------------------------------------
(* _refresh_caches: an orphan is removed when it is old and its server dead;*)
(* what remains of it counts, and anything unknown forbids new transfers.   *)
OrphanLeft == IF orphanIs = "old" THEN {} ELSE orphan
Refreshed == orphan' = OrphanLeft /\ orphanIs' = IF orphanIs = "old" THEN "absent" ELSE orphanIs

\* Mutant: room is counted for begun transfers, not for stored bytes.
RoomByTransfers(n) ==
    /\ orphanIs # "unknown"
    /\ n + Reserved(OrphanLeft) + Reserved(Live) <= MaxStored

Room(n) ==
    /\ orphanIs # "unknown"
    /\ n + Reserved(OrphanLeft) + Reserved(Live) <= MaxStored
    /\ n + Reserved(OrphanLeft) + Reserved(recorded) <= MaxStored

(* upload_begin and download_begin: _capacity compares with the transfers,  *)
(* _allocate with the marker.  A download whose source changes while it is  *)
(* copied is dropped with its staged file.                                  *)
Begin(t, n, way) ==
    /\ Handling /\ transfer[t] = "free" /\ n <= MaxFile
    /\ Cardinality({u \in Live : peer[u] = peer[t]}) < MaxPerPeer
    /\ Room(n)
    /\ way = "upload" => target = Nobody
    /\ size' = [size EXCEPT ![t] = n]
    /\ \/ /\ recorded' = recorded \cup {t}
          /\ transfer' = [transfer EXCEPT ![t] = way]
          /\ UNCHANGED trouble
       \/ /\ way = "download"
          /\ \/ UNCHANGED <<recorded, trouble>>
             \/ Trouble /\ recorded' = recorded \cup {t}
          /\ transfer' = [transfer EXCEPT ![t] = "over"]
    /\ Refreshed
    /\ UNCHANGED <<peer, sent, wrong, expired, place, committing>>

BeginRefused ==
    /\ Handling /\ orphanIs = "old" /\ Refreshed
    /\ UNCHANGED <<item, recorded, place, committing, trouble>>

(* upload_chunk: a piece at next_offset is written, right or wrong; one     *)
(* before it must repeat what is there, any other is refused.               *)
Chunk(t, n) ==
    /\ Handling /\ transfer[t] = "upload" /\ n > 0 /\ sent[t] + n <= size[t]
    /\ sent' = [sent EXCEPT ![t] = @ + n]
    /\ wrong' \in {wrong, wrong \cup {t}}
    /\ UNCHANGED <<transfer, peer, size, expired, cache, place, committing, trouble>>

(* upload_commit: complete, of the declared hash, the target's directory    *)
(* unchanged and the name free;                                             *)
CommitCheck(t) ==
    /\ Handling /\ transfer[t] = "upload"
    /\ sent[t] = size[t] /\ t \notin wrong /\ target = Nobody /\ t \notin moved
    /\ committing' = <<"checked", t>>
    /\ UNCHANGED <<item, cache, place, trouble>>

\* Mutant: the target is replaced, whatever it holds by now.
CommitReplacing(t) ==
    /\ committing = <<"checked", t>>
    /\ target' = t /\ committing' = <<"linked", t>>
    /\ UNCHANGED <<item, cache, moved, trouble>>

(* the content is linked under the name, which fails if there is a file,    *)
CommitLink(t) ==
    /\ committing = <<"checked", t>>
    /\ IF target = Nobody THEN target' = t /\ committing' = <<"linked", t>>
                          ELSE committing' = Idle /\ UNCHANGED target
    /\ UNCHANGED <<item, cache, moved, trouble>>

(* the result is remembered and the staged file removed; when even the      *)
(* temporary name cannot be removed, it is not remembered.                  *)
CommitEnd(t) ==
    /\ committing = <<"linked", t>>
    /\ \/ transfer' = [transfer EXCEPT ![t] = "committed"] /\ RemoveStaged(t)
       \/ Trouble /\ UNCHANGED <<transfer, recorded>>
    /\ committing' = Idle
    /\ UNCHANGED <<peer, size, sent, wrong, expired, orphan, orphanIs, place>>

(* release, close_owner and _prune of an expired transfer: it is forgotten  *)
(* whether or not its staged file could be removed.                         *)
Discard(t) ==
    /\ committing = Idle /\ t \in Live
    /\ t \in expired \/ Live \cap expired = {}
    /\ transfer' = [transfer EXCEPT ![t] = "over"]
    /\ RemoveStaged(t)
    /\ UNCHANGED <<peer, size, sent, wrong, expired, orphan, orphanIs, place, committing>>

-----------------------------------------------------------------------------
Expire(t) ==
    /\ t \in Live \ expired /\ expired' = expired \cup {t}
    /\ UNCHANGED <<transfer, peer, size, sent, wrong, cache, place, committing, trouble>>

(* The server is killed and started again: its cache is an orphan now.      *)
Crash ==
    /\ Trouble /\ orphanIs = "absent"
    /\ transfer' = [t \in Transfers |-> IF t \in Live THEN "over" ELSE transfer[t]]
    /\ orphan' = recorded /\ orphanIs' = "fresh" /\ recorded' = {}
    /\ committing' = Idle
    /\ UNCHANGED <<peer, size, sent, wrong, expired, place>>

OrphanAges ==
    /\ orphanIs = "fresh" /\ orphanIs' = "old"
    /\ UNCHANGED <<item, recorded, orphan, place, committing, trouble>>

(* Another program creates or removes the target, replaces its directory    *)
(* (which a commit keeps pinned), or leaves something unknown in the orphan.*)
Meddle ==
    /\ Trouble
    /\ \/ target' \in {Nobody, Others} \ {target} /\ UNCHANGED <<moved, orphanIs>>
       \/ /\ committing = Idle /\ target' = Nobody
          /\ moved' = {t \in Transfers : transfer[t] = "upload"}
          /\ UNCHANGED orphanIs
       \/ orphanIs \in {"fresh", "old"} /\ orphanIs' = "unknown" /\ UNCHANGED place
    /\ UNCHANGED <<item, recorded, orphan, committing>>

Next ==
    \/ \E t \in Transfers :
          \/ \E n \in 0..MaxFile : Begin(t, n, "upload") \/ Begin(t, n, "download") \/ Chunk(t, n)
          \/ CommitCheck(t) \/ CommitLink(t) \/ CommitEnd(t) \/ Discard(t) \/ Expire(t)
    \/ BeginRefused \/ Crash \/ OrphanAges \/ Meddle
Spec == Init /\ [][Next]_vars

-----------------------------------------------------------------------------
(* The bytes reserved in this server's cache and in the one a killed server *)
(* left never exceed the limit together, an unfinished transfer has its     *)
(* staged file recorded, and no owner exceeds its share.                    *)
StorageWithinLimit ==
    /\ Reserved(recorded) + Reserved(orphan) <= MaxStored
    /\ \A t \in Transfers : transfer[t] \in {"upload", "download"} => t \in recorded
    /\ \A o \in Peers : Cardinality({t \in Live : peer[t] = o}) <= MaxPerPeer

(* An upload only ever creates its target: whatever happens between its     *)
(* checks and its link, no file is replaced, and what appears is complete   *)
(* and of the declared hash.                                                *)
CreatesOnly ==
    target' # target /\ target' \in Transfers =>
        target = Nobody /\ sent[target'] = size[target'] /\ target' \notin wrong
UploadsOnlyCreate == [][CreatesOnly]_vars
=============================================================================
