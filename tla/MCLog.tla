-------------------------------- MODULE MCLog --------------------------------
(* Log for TLC: three processes, two home blocks, two contents.               *)
EXTENDS Log
=============================================================================
