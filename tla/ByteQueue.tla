------------------------------ MODULE ByteQueue ------------------------------
(* What a pipe promises: a first-in first-out queue of at most Capacity bytes *)
(* that is filled at one end and emptied at the other; once the write end is  *)
(* closed no byte enters, and the two ends are closed for good.               *)
EXTENDS Naturals, Sequences

CONSTANTS Byte, Capacity

VARIABLES queue, readers, writers

vars == <<queue, readers, writers>>

Init == queue = <<>> /\ readers = 1 /\ writers = 1

Put(b) ==
    /\ writers = 1
    /\ Len(queue) < Capacity
    /\ queue' = Append(queue, b)
    /\ UNCHANGED <<readers, writers>>

Take ==
    /\ readers = 1
    /\ queue # <<>>
    /\ queue' = Tail(queue)
    /\ UNCHANGED <<readers, writers>>

CloseRead == readers = 1 /\ readers' = 0 /\ UNCHANGED <<queue, writers>>

CloseWrite == writers = 1 /\ writers' = 0 /\ UNCHANGED <<queue, readers>>

Next == Take \/ CloseRead \/ CloseWrite \/ \E b \in Byte : Put(b)

Spec == Init /\ [][Next]_vars
=============================================================================
