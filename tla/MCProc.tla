------------------------------- MODULE MCProc -------------------------------
EXTENDS Proc, TLC

Symmetric == Permutations(CPU)
=============================================================================
