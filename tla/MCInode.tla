------------------------------- MODULE MCInode -------------------------------
(* Inode for TLC: a process writes its own number.                            *)
EXTENDS Inode, TLC

Symmetry == Permutations(Fd)
=============================================================================
