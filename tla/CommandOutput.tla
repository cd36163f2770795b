--------------------------- MODULE CommandOutput ----------------------------
(***************************************************************************)
(* The retained output of one stream of a command: a frozen head, a        *)
(* rolling tail, the cursor polling advances, and read_output on both.     *)
(* The byte at offset n of the stream is the number n.                     *)
(***************************************************************************)
EXTENDS Naturals, Sequences, SequencesExt, FiniteSets, FiniteSetsExt

CONSTANTS BufferLimit, HeadDivisor, MaxBytes   \* MaxBytes bounds the stream

VARIABLES
    head, tail,      \* stdout_head, stdout
    start,           \* stdout_start_offset
    total,           \* stdout_total_bytes
    cursor,          \* stdout_cursor
    lost,            \* bytes reported to on_evict
    delivered,       \* offsets a poll returned
    omitted          \* bytes polls reported as omitted
vars == <<head, tail, start, total, cursor, lost, delivered, omitted>>

HeadLimit == BufferLimit \div HeadDivisor
TailLimit == BufferLimit - HeadLimit

TypeOK ==
    /\ {head, tail} \subseteq Seq(0..MaxBytes) /\ Len(head) <= HeadLimit /\ Len(tail) <= TailLimit
    /\ {start, total, cursor, lost, omitted} \subseteq 0..MaxBytes
    /\ delivered \subseteq 0..MaxBytes

Init ==
    /\ head = <<>> /\ tail = <<>> /\ delivered = {}
    /\ start = 0 /\ total = 0 /\ cursor = 0 /\ lost = 0 /\ omitted = 0

(* append_stdout: fill the head, extend the tail and trim it to its limit.  *)
Trimmed(s) == SubSeq(s, Len(s) - TailLimit + 1, Len(s))

\* Mutant: the offset the tail starts at is computed from the old total.
NewStartStale(count) == IF Len(tail) + count > TailLimit THEN total - TailLimit ELSE start

NewStart(count) == IF Len(tail) + count > TailLimit THEN total + count - TailLimit ELSE start

Arrive(count) ==
    LET chunk == [k \in 1..count |-> total + k - 1]
        room == Min({HeadLimit - Len(head), count})
        before == Max({start, Len(head) + room})
    IN  /\ total + count <= MaxBytes
        /\ head' = head \o SubSeq(chunk, 1, room)
        /\ tail' = IF Len(tail) + count > TailLimit THEN Trimmed(tail \o chunk) ELSE tail \o chunk
        /\ total' = total + count
        /\ start' = NewStart(count)
        /\ lost' = lost + Max({0, start' - before})
        /\ UNCHANGED <<cursor, delivered, omitted>>

(* snapshot_since_cursor: what is left of the bytes since the last poll.    *)
Poll ==
    /\ cursor < total
    /\ omitted' = omitted + Max({0, start - cursor})
    /\ delivered' = delivered \cup ToSet(SubSeq(tail, Max({0, cursor - start}) + 1, Len(tail)))
    /\ cursor' = total
    /\ UNCHANGED <<head, tail, start, total, lost>>

(* read_output: an offset in the tail, in the head, or in the evicted gap,  *)
(* which is skipped to the tail.  A chunk never spans the gap.              *)
Offset(asked) == IF asked >= start \/ asked < Len(head) THEN asked ELSE start

\* Mutant: the retained head is never read.
ChunkByTailOnly(asked, limit) ==
    LET from == Max({asked, start})
    IN  SubSeq(tail, from - start + 1, Min({from - start + limit, Len(tail)}))

Chunk(asked, limit) ==
    IF asked >= start THEN SubSeq(tail, asked - start + 1, Min({asked - start + limit, Len(tail)}))
    ELSE IF asked < Len(head) THEN SubSeq(head, asked + 1, Min({asked + limit, Len(head)}))
    ELSE SubSeq(tail, 1, Min({limit, Len(tail)}))

Next == (\E count \in 1..BufferLimit : Arrive(count)) \/ Poll
Spec == Init /\ [][Next]_vars

-----------------------------------------------------------------------------
(* A read returns the stream's own bytes from the offset it reports, skips  *)
(* none that is retained, and leads on to the end; every byte before the    *)
(* cursor was delivered or reported omitted, once; and what eviction        *)
(* reported is what head and tail lack (processes.py CommandRun,            *)
(* server.py read_output).                                                  *)
OutputAccounted ==
    /\ \A asked \in 0..total, limit \in 1..BufferLimit :
          LET chunk == Chunk(asked, limit) IN
          /\ \A k \in DOMAIN chunk : chunk[k] = Offset(asked) + k - 1
          /\ \A skipped \in asked..Offset(asked) - 1 :
                 skipped \notin ToSet(head) \cup ToSet(tail)
          /\ asked < total => chunk # <<>>
    /\ Cardinality(delivered) + omitted = cursor
    /\ lost = Cardinality((0..total - 1) \ (ToSet(head) \cup ToSet(tail)))
=============================================================================
