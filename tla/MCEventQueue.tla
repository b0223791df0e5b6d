---------------------------- MODULE MCEventQueue ----------------------------
(* EventQueue on small instances: the constants TLC's runs give it. *)
EXTENDS EventQueue, TLC

CONSTANTS k1, k2, w1, w2

MCKeys == {k1, k2}
OneKey == {k1}
MCWorkers == {w1, w2}
NoSkew == {0}
SomeSkew == {0, 1}
DeadOnly == {"dead"}
LostWorkers == {"crash", "db_error", "deploy"}
LostOrSlow == {"crash", "db_error", "overrun"}

Symmetry == Permutations(MCKeys) \cup Permutations(MCWorkers)
=============================================================================
