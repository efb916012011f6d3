------------------------------- MODULE MCHeap -------------------------------
\* Module Heap for TLC.
EXTENDS Heap, TLC

CONSTANTS t1, t2

MCTask == {t1, t2}
Symmetry == Permutations(MCTask)
=============================================================================
