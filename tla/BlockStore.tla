----------------------------- MODULE BlockStore -----------------------------
(* What the buffer cache of xv6 (bio.c) promises its callers: every sector     *)
(* has one content, which only the process that got it with bread() may        *)
(* change; "durable" is what is on the platter.                                *)

CONSTANTS Proc, Sector, Data

VARIABLES content, durable, holders

vars == <<content, durable, holders>>

Init ==
    /\ content \in [Sector -> Data]
    /\ durable = content
    /\ holders = [s \in Sector |-> {}]

\* bread() returns: nobody else uses the sector.
Get(p, s) ==
    /\ holders[s] = {}
    /\ holders' = [holders EXCEPT ![s] = {p}]
    /\ UNCHANGED <<content, durable>>

Change(p, s, d) ==
    /\ holders[s] = {p}
    /\ content' = [content EXCEPT ![s] = d]
    /\ UNCHANGED <<durable, holders>>

\* The disk has written the sector that p holds.
Sync(p, s) ==
    /\ holders[s] = {p}
    /\ durable' = [durable EXCEPT ![s] = content[s]]
    /\ UNCHANGED <<content, holders>>

\* brelse()
Put(p, s) ==
    /\ holders[s] = {p}
    /\ holders' = [holders EXCEPT ![s] = {}]
    /\ UNCHANGED <<content, durable>>

Next ==
    \E p \in Proc, s \in Sector :
        Get(p, s) \/ Sync(p, s) \/ Put(p, s) \/ \E d \in Data : Change(p, s, d)

Spec == Init /\ [][Next]_vars
=============================================================================
