----------------------------- MODULE MCSharedUse -----------------------------
(* A small instance of what several clients, workflows and calls use at once: *)
(* two calls or threads, and two of the things they are on.                   *)
EXTENDS SharedUse, TLC

CONSTANTS w1, w2, c1, c2

TwoThings == {w1, w2}
TwoCalls == {c1, c2}
OneSession == {"u1"}
OneOwner == {"o1"}
ThreeRequests == {"r1", "r2", "r3"}
OneNavigation == {"r1"}
OneUpload == {"r2"}
OneDownload == {"r3"}
TwoSettings == {"s1", "s2"}
OneTunnelled == {"s1"}
TwoPids == {"p1", "p2"}
TwoClients == {"a1", "a2"}
OnePreregistered == {"a1"}
TwoRedirects == {"u1", "u2"}
TwoBases == {"b1", "b2"}
TwoVerifiers == {"v1", "v2"}
\* What is approved and what is presented may differ in the redirect, the resource
\* or the verifier alone.
FourTerms == {<<"u1", "b1", "v1">>, <<"u2", "b1", "v1">>,
              <<"u1", "b2", "v1">>, <<"u1", "b1", "v2">>}
TwoApprovals == {<<"u1", "b1", "v1">>, <<"u2", "b1", "v1">>}
TwoTools == {"x", "y"}

\* Calls and threads are interchangeable, and so are the things they are on.
Symmetry == Permutations(TwoCalls) \cup Permutations(TwoThings)
==============================================================================
