----------------------------- MODULE MinHeapMC -----------------------------
(* Six events and three timeouts: heaps of three levels, with ties.        *)
EXTENDS MinHeap, TLC

Symmetry == Permutations(Event)
=============================================================================
