---------------------------- MODULE MCQboClient ----------------------------
(* QboClient on small instances: the constants TLC's runs give it. *)
EXTENDS QboClient, TLC

CONSTANTS a, b, r1, r2

MCCallers == {a, b}
MCRealms == {r1, r2}
MCFaults == AllFaults

Symmetry == Permutations(MCCallers) \cup Permutations(MCRealms)
=============================================================================
