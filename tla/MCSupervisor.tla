---------------------------- MODULE MCSupervisor ----------------------------
EXTENDS Supervisor, TLC
Symmetry == Permutations(Workers)
=============================================================================
