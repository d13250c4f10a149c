------------------------------- MODULE MCPipe -------------------------------
EXTENDS Pipe, TLC

Symmetric == Permutations(Proc) \cup Permutations(Byte)
=============================================================================
