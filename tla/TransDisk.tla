------------------------------ MODULE TransDisk ------------------------------
(* What the logging layer of xv6 (log.c) promises the file system: a disk    *)
(* whose blocks change only by whole transactions, one transaction at a time.*)
(* "working" is what bread() returns to system calls, "committed" what the   *)
(* disk holds after a power failure and a reboot, "owners" the processes     *)
(* between begin_trans() and the end of commit_trans().                      *)

CONSTANTS Proc, Block, Data

VARIABLES working, committed, owners

vars == <<working, committed, owners>>

Init ==
    /\ committed \in [Block -> Data]
    /\ working = committed
    /\ owners = {}

\* A transaction starts when none is active and nothing is left uncommitted.
Begin(p) ==
    /\ owners = {}
    /\ working = committed
    /\ owners' = {p}
    /\ UNCHANGED <<working, committed>>

\* The owner changes a block; nobody else can.
Write(p, b, d) ==
    /\ owners = {p}
    /\ working' = [working EXCEPT ![b] = d]
    /\ UNCHANGED <<committed, owners>>

\* Every write of the transaction becomes durable in one step.
Commit(p) ==
    /\ owners = {p}
    /\ committed' = working
    /\ UNCHANGED <<working, owners>>

\* A transaction ends only when all of it is durable.
End(p) ==
    /\ owners = {p}
    /\ working = committed
    /\ owners' = {}
    /\ UNCHANGED <<working, committed>>

\* Power failure: what was not committed is gone, what was committed stays.
Fail ==
    /\ working' = committed
    /\ owners' = {}
    /\ UNCHANGED committed

Next ==
    \/ \E p \in Proc : Begin(p) \/ Commit(p) \/ End(p)
    \/ \E p \in Proc, b \in Block, d \in Data : Write(p, b, d)
    \/ Fail

Spec == Init /\ [][Next]_vars
=============================================================================
