----------------------------- MODULE PatchHunks -----------------------------
(***************************************************************************)
(* How the hunks of a patch are applied to one file: each hunk is split    *)
(* into the lines it expects and the lines it leaves, matched against the  *)
(* file, the matches are sorted and checked for overlap, and the file is   *)
(* rewritten from the last match to the first.  A line is a member of a    *)
(* small set and a hunk a sequence of <<marker, line>>.                     *)
(***************************************************************************)
EXTENDS Naturals, Sequences, SequencesExt, FiniteSets

CONSTANTS Lines,                \* the texts a line may have
          MaxFile, MaxHunk,     \* bounds: lines of the file, of a hunk
          MaxHunks              \* bound: hunks of the patch

VARIABLES content, hunks, outcome
vars == <<content, hunks, outcome>>

Markers == {" ", "-", "+"}
Pending == [status |-> "pending", lines |-> <<>>]
Refusal(code) == [status |-> code, lines |-> <<>>]

Init ==
    /\ content \in BoundedSeq(Lines, MaxFile) \ {<<>>}
    /\ hunks \in BoundedSeq(BoundedSeq(Markers \X Lines, MaxHunk) \ {<<>>}, MaxHunks) \ {<<>>}
    /\ outcome = Pending

-----------------------------------------------------------------------------
(* The members of a set by their ranks in an order, a set of pairs.         *)
Sorted(S, order) ==
    [k \in 1..Cardinality(S) |->
        CHOOSE h \in S : Cardinality({g \in S : <<g, h>> \in order}) = k]
Numeric(S) == {p \in S \X S : p[1] <= p[2]}

(* parse_update_hunk: context and removed lines are expected, context and   *)
(* added lines are left.                                                    *)
Side(hunk, markers) ==
    LET kept == {k \in DOMAIN hunk : hunk[k][1] \in markers}
        picked == Sorted(kept, Numeric(kept))
    IN  [k \in DOMAIN picked |-> hunk[picked[k]][2]]
Old(hunk) == Side(hunk, {" ", "-"})
New(hunk) == Side(hunk, {" ", "+"})

(* find_subsequence_all, with positions counted from 0; a hunk that expects *)
(* nothing goes to the top of the file.                                     *)
Places(lines, hunk) ==
    IF Old(hunk) = <<>> THEN {0}
    ELSE {s \in 0..Len(lines) : /\ s + Len(Old(hunk)) <= Len(lines)
                                /\ SubSeq(lines, s + 1, s + Len(Old(hunk))) = Old(hunk)}

Start(h) == CHOOSE s \in Places(content, hunks[h]) : TRUE
End(h) == Start(h) + Len(Old(hunks[h]))

(* Both sorts are stable: hunks at the same place keep the patch's order.   *)
Pairs == (DOMAIN hunks) \X (DOMAIN hunks)
Stable == {p \in Pairs : Start(p[1]) = Start(p[2]) /\ p[1] <= p[2]}
Upwards == Stable \union {p \in Pairs : Start(p[1]) < Start(p[2])}
Downwards == Stable \union {p \in Pairs : Start(p[1]) > Start(p[2])}

Overlapping ==
    LET order == Sorted(DOMAIN hunks, Upwards)
    IN  \E k \in 1..Len(order) - 1 : End(order[k]) > Start(order[k + 1])

(* Replace the lines of one match in the text as it is by then. *)
Splice(lines, h) ==
    SubSeq(lines, 1, Start(h)) \o New(hunks[h]) \o SubSeq(lines, End(h) + 1, Len(lines))

\* Mutant: the hunks are applied from the first to the last.
RewrittenUpwards == FoldLeft(Splice, content, Sorted(DOMAIN hunks, Upwards))

Rewritten == FoldLeft(Splice, content, Sorted(DOMAIN hunks, Downwards))

(* Hunks without the one place they need; the first of them is reported.    *)
Misplaced == {h \in DOMAIN hunks : Cardinality(Places(content, hunks[h])) # 1}

Apply ==
    /\ outcome = Pending
    /\ outcome' =
         IF Misplaced # {}
           THEN Refusal(IF Places(content, hunks[Min(Misplaced)]) = {}
                          THEN "not found" ELSE "ambiguous")
         ELSE IF Overlapping THEN Refusal("overlap")
         ELSE [status |-> "applied", lines |-> Rewritten]
    /\ UNCHANGED <<content, hunks>>

Next == Apply
Spec == Init /\ [][Next]_vars

-----------------------------------------------------------------------------
(* The text in which every hunk replaced exactly the lines it matched: line *)
(* by line, what is inserted before it and whether it stays.                *)
Inserted(k) ==
    LET here == {h \in DOMAIN hunks : Start(h) = k}
        at == Sorted(here, Numeric(here))
    IN  FlattenSeq([i \in 1..Cardinality(here) |-> New(hunks[at[i]])])
Kept(k) ==
    IF k = Len(content) \/ \E h \in DOMAIN hunks : Start(h) <= k /\ k < End(h)
      THEN <<>> ELSE <<content[k + 1]>>
Expected == FlattenSeq([k \in 1..Len(content) + 1 |-> Inserted(k - 1) \o Kept(k - 1)])

(* "A patch may only change the lines it names."                            *)
(* (tests/compliance/test_runtime_helpers.py, of apply_update_hunks): the   *)
(* lines a hunk is put in the place of are the lines that hunk names.       *)
OnlyNamedLinesChange ==
    outcome.status = "applied" =>
        LET order == Sorted(DOMAIN hunks, Downwards)
            before(k) == FoldLeft(Splice, content, SubSeq(order, 1, k - 1))
        IN  \A k \in DOMAIN order :
               SubSeq(before(k), Start(order[k]) + 1, End(order[k])) = Old(hunks[order[k]])

(* Patches whose hunks start at different lines give the text expected:     *)
(* applying them from the last to the first keeps the positions that were   *)
(* matched valid.                                                           *)
DistinctHunksExact ==
    outcome.status = "applied" /\ (\A a, b \in DOMAIN hunks : Start(a) = Start(b) => a = b)
        => outcome.lines = Expected
=============================================================================
