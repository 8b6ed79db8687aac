---------------------------- MODULE MCRecurrence ----------------------------
EXTENDS Recurrence, TLC

Symmetry == Permutations(Procs)
=============================================================================
