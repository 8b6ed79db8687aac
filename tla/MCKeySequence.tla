---------------------------- MODULE MCKeySequence ----------------------------
(* Two projects, three entities and two connections.                        *)
EXTENDS KeySequence, TLC

Symmetry == Permutations(Procs) \cup Permutations(Entities) \cup Permutations(Projects)
=============================================================================
