------------------------------- MODULE MCDisk -------------------------------
(* Disk for TLC.                                                              *)
EXTENDS Disk
=============================================================================
