---------------------------- MODULE MCCodingTools ----------------------------
(* A small instance of the coding tools: a patch of two paths, two commands,   *)
(* two searches of two owners, three files, and buffers of a few bytes.        *)
EXTENDS CodingTools, TLC

CONSTANTS c1, c2, s1, s2, o1, o2

PatchOrder == <<"p1", "p2">>
TwoCommands == {c1, c2}
TwoSearches == {s1, s2}
TwoClients == {o1, o2}
==============================================================================
