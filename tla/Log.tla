--------------------------------- MODULE Log ---------------------------------
(* The write-ahead log of xv6 (log.c): begin_trans, log_write, commit_trans,  *)
(* and recovery at boot, over a disk that can lose power between any two      *)
(* sector writes.  Home blocks are read and written through the buffer cache  *)
(* (bio.c), of which the model keeps what the log depends on: the cached      *)
(* contents of a home block and its B_DIRTY bit, which log_write sets so that *)
(* the buffer is not recycled before install_trans has written it.  The log's *)
(* own blocks are always written through, so their cached copy is the disk's. *)
EXTENDS Naturals, Sequences

CONSTANTS
    Proc,       \* processes that make file system calls
    Block,      \* home sectors
    Data,       \* contents of a sector
    NoData,     \* a home sector that is not in the buffer cache
    NoBlock,    \* a process that holds no buffer
    LOGSIZE,    \* param.h: size of logheader.sector[]
    NLog        \* superblock.nlog: header block plus log blocks

ASSUME LogAssumption ==
    /\ LOGSIZE \in Nat
    /\ NLog \in Nat \ {0}
    /\ NoData \notin Data
    /\ NoBlock \notin Block

VARIABLES
    disk,       \* on disk: home blocks
    dlog,       \* on disk: log blocks, log.start+1 ...
    dhead,      \* on disk: the header block, sector[0..n-1] as a sequence
    cache,      \* buffer cache: contents of home blocks, or NoData
    dirty,      \* home blocks whose buffer has B_DIRTY set
    lh,         \* log.lh, the header in memory, as a sequence
    busy,       \* log.busy
    tail,       \* install_trans: the loop variable, from 1
    pc,         \* where each process is in the logging calls
    held,       \* the buffer a process has modified and not yet logged
    sys         \* the machine: recovery steps, "up" or "panic"

vars == <<disk, dlog, dhead, cache, dirty, lh, busy, tail, pc, held, sys>>
memory == <<cache, dirty, busy, held>>

Slots == 1 .. (NLog - 1)
PCs == {"out", "sleep", "woken", "in", "held", "install", "end"}
InTrans == {"in", "held", "install", "end"}

Init ==
    /\ disk \in [Block -> Data]
    /\ dlog \in [Slots -> Data]
    /\ dhead = <<>>
    /\ cache = [b \in Block |-> NoData]
    /\ dirty = {}
    /\ lh = <<>>
    /\ busy = 0
    /\ tail = 1
    /\ pc = [p \in Proc |-> "out"]
    /\ held = [p \in Proc |-> NoBlock]
    /\ sys = "read_head"

-----------------------------------------------------------------------------
(* Recovery, run by the first process before any other exists. *)

\* read_head(): the header on disk becomes the header in memory.
ReadHead ==
    /\ sys = "read_head"
    /\ lh' = dhead
    /\ tail' = 1
    /\ sys' = "install"
    /\ UNCHANGED <<disk, dlog, dhead, memory, pc>>

\* Broken: install_trans() without the increment of its loop variable.
InstallBlockStuck ==
    /\ tail <= Len(lh)
    /\ disk' = [disk EXCEPT ![lh[tail]] = dlog[tail]]
    /\ cache' = [cache EXCEPT ![lh[tail]] = dlog[tail]]
    /\ dirty' = dirty \ {lh[tail]}
    /\ UNCHANGED <<dlog, dhead, lh, busy, tail, pc, held, sys>>

\* One round of the loop of install_trans(): copy a log block to its home.
InstallBlock ==
    /\ tail <= Len(lh)
    /\ disk' = [disk EXCEPT ![lh[tail]] = dlog[tail]]
    /\ cache' = [cache EXCEPT ![lh[tail]] = dlog[tail]]
    /\ dirty' = dirty \ {lh[tail]}
    /\ tail' = tail + 1
    /\ UNCHANGED <<dlog, dhead, lh, busy, pc, held, sys>>

\* The loop is over: log.lh.n = 0; write_head().
EraseHead ==
    /\ tail > Len(lh)
    /\ lh' = <<>>
    /\ dhead' = <<>>
    /\ UNCHANGED <<disk, dlog, memory, tail>>

RecoverInstall == sys = "install" /\ InstallBlock

RecoverErase ==
    /\ sys = "install"
    /\ EraseHead
    /\ sys' = "up"
    /\ UNCHANGED pc

-----------------------------------------------------------------------------
(* System calls. *)

\* begin_trans(): enter, or sleep while another transaction is active.  A
\* process that was woken up tests log.busy again.
BeginTrans(p) ==
    /\ sys = "up"
    /\ pc[p] \in {"out", "woken"}
    /\ IF busy # 0
       THEN pc' = [pc EXCEPT ![p] = "sleep"] /\ UNCHANGED busy
       ELSE pc' = [pc EXCEPT ![p] = "in"] /\ busy' = 1
    /\ UNCHANGED <<disk, dlog, dhead, cache, dirty, lh, tail, held, sys>>

\* The caller's part of the protocol: bread(b), modify b->data.
Modify(p, b, d) ==
    /\ sys = "up"
    /\ pc[p] = "in"
    /\ cache' = [cache EXCEPT ![b] = d]
    /\ held' = [held EXCEPT ![p] = b]
    /\ pc' = [pc EXCEPT ![p] = "held"]
    /\ UNCHANGED <<disk, dlog, dhead, dirty, lh, busy, tail, sys>>

\* The slot log_write() uses for b: the one that holds b already (absorption)
\* or the next free one.
SlotFor(b) ==
    IF \E i \in 1 .. Len(lh) : lh[i] = b
    THEN CHOOSE i \in 1 .. Len(lh) : lh[i] = b
    ELSE Len(lh) + 1

\* Broken: the test against the size of the log is off by one.
LogWritePanicsLate == Len(lh) >= LOGSIZE \/ Len(lh) > NLog - 1 \/ busy = 0

\* The tests that make log_write() panic.
LogWritePanics == Len(lh) >= LOGSIZE \/ Len(lh) >= NLog - 1 \/ busy = 0

\* Broken: log_write() does not set B_DIRTY.
LogWriteUnpinned(p) ==
    /\ sys = "up"
    /\ pc[p] = "held"
    /\ ~LogWritePanics
    /\ dlog' = [dlog EXCEPT ![SlotFor(held[p])] = cache[held[p]]]
    /\ lh' = IF SlotFor(held[p]) = Len(lh) + 1 THEN Append(lh, held[p]) ELSE lh
    /\ held' = [held EXCEPT ![p] = NoBlock]
    /\ pc' = [pc EXCEPT ![p] = "in"]
    /\ UNCHANGED <<disk, dhead, cache, dirty, busy, tail, sys>>

\* log_write(): copy the block to the log, remember its sector, pin it; and
\* the caller's brelse().
LogWrite(p) ==
    /\ sys = "up"
    /\ pc[p] = "held"
    /\ ~LogWritePanics
    /\ dlog' = [dlog EXCEPT ![SlotFor(held[p])] = cache[held[p]]]
    /\ lh' = IF SlotFor(held[p]) = Len(lh) + 1 THEN Append(lh, held[p]) ELSE lh
    /\ dirty' = dirty \cup {held[p]}
    /\ held' = [held EXCEPT ![p] = NoBlock]
    /\ pc' = [pc EXCEPT ![p] = "in"]
    /\ UNCHANGED <<disk, dhead, cache, busy, tail, sys>>

LogPanic(p) ==
    /\ sys = "up"
    /\ pc[p] = "held"
    /\ LogWritePanics
    /\ sys' = "panic"
    /\ UNCHANGED <<disk, dlog, dhead, memory, lh, tail, pc>>

\* Broken: commit_trans() installs before the header is on disk.
CommitTransUnlogged(p) ==
    /\ sys = "up"
    /\ pc[p] = "in"
    /\ tail' = 1
    /\ pc' = [pc EXCEPT ![p] = IF Len(lh) > 0 THEN "install" ELSE "end"]
    /\ UNCHANGED <<disk, dlog, dhead, memory, lh, sys>>

\* commit_trans(), up to write_head(): the header on disk is the commit point.
CommitTrans(p) ==
    /\ sys = "up"
    /\ pc[p] = "in"
    /\ IF Len(lh) > 0
       THEN /\ dhead' = lh
            /\ tail' = 1
            /\ pc' = [pc EXCEPT ![p] = "install"]
       ELSE /\ pc' = [pc EXCEPT ![p] = "end"]
            /\ UNCHANGED <<dhead, tail>>
    /\ UNCHANGED <<disk, dlog, memory, lh, sys>>

\* commit_trans(), install_trans().
CommitInstall(p) == sys = "up" /\ pc[p] = "install" /\ InstallBlock

\* commit_trans(): log.lh.n = 0; write_head().
CommitErase(p) ==
    /\ sys = "up"
    /\ pc[p] = "install"
    /\ EraseHead
    /\ pc' = [pc EXCEPT ![p] = "end"]
    /\ UNCHANGED sys

\* Broken: commit_trans() without wakeup(&log).
CommitEndSilent(p) ==
    /\ sys = "up"
    /\ pc[p] = "end"
    /\ busy' = 0
    /\ pc' = [pc EXCEPT ![p] = "out"]
    /\ UNCHANGED <<disk, dlog, dhead, cache, dirty, lh, tail, held, sys>>

\* commit_trans(), the rest: log.busy = 0; wakeup(&log).
CommitEnd(p) ==
    /\ sys = "up"
    /\ pc[p] = "end"
    /\ busy' = 0
    /\ pc' = [q \in Proc |-> IF q = p THEN "out"
                             ELSE IF pc[q] = "sleep" THEN "woken" ELSE pc[q]]
    /\ UNCHANGED <<disk, dlog, dhead, cache, dirty, lh, tail, held, sys>>

-----------------------------------------------------------------------------
(* The buffer cache under the calls, and the machine. *)

\* bread() of a block that is not cached, by any process.
Load(b) ==
    /\ sys = "up"
    /\ cache[b] = NoData
    /\ cache' = [cache EXCEPT ![b] = disk[b]]
    /\ UNCHANGED <<disk, dlog, dhead, dirty, lh, busy, tail, pc, held, sys>>

\* bget() recycles a buffer that is neither B_BUSY nor B_DIRTY.
Recycle(b) ==
    /\ sys = "up"
    /\ cache[b] # NoData
    /\ b \notin dirty
    /\ \A p \in Proc : held[p] # b
    /\ cache' = [cache EXCEPT ![b] = NoData]
    /\ UNCHANGED <<disk, dlog, dhead, dirty, lh, busy, tail, pc, held, sys>>

\* Power failure (or a reboot after a panic): memory is lost, the disk stays.
Crash ==
    /\ cache' = [b \in Block |-> NoData]
    /\ dirty' = {}
    /\ lh' = <<>>
    /\ busy' = 0
    /\ tail' = 1
    /\ pc' = [p \in Proc |-> "out"]
    /\ held' = [p \in Proc |-> NoBlock]
    /\ sys' = "read_head"
    /\ UNCHANGED <<disk, dlog, dhead>>

Recover == ReadHead \/ RecoverInstall \/ RecoverErase

Commit(p) == CommitInstall(p) \/ CommitErase(p) \/ CommitEnd(p)

Next ==
    \/ Recover
    \/ \E p \in Proc :
          \/ BeginTrans(p)
          \/ \E b \in Block, d \in Data : Modify(p, b, d)
          \/ LogWrite(p)
          \/ LogPanic(p)
          \/ CommitTrans(p)
          \/ Commit(p)
    \/ \E b \in Block : Load(b) \/ Recycle(b)
    \/ Crash

Spec == Init /\ [][Next]_vars

-----------------------------------------------------------------------------
(* Fairness: the scheduler runs every runnable process, so a process inside   *)
(* the logging code keeps going.  A system call makes finitely many           *)
(* log_writes, so one that is in a transaction again and again commits.       *)

Fairness ==
    /\ WF_vars(Recover)
    /\ \A p \in Proc :
          /\ WF_vars(pc[p] = "woken" /\ BeginTrans(p))
          /\ WF_vars(LogWrite(p) \/ LogPanic(p))
          /\ SF_vars(CommitTrans(p))
          /\ WF_vars(Commit(p))

LiveSpec == Spec /\ Fairness

-----------------------------------------------------------------------------
(* What the layer promises. *)

\* What the home blocks are once recovery has run on the disk as it is.
Recovered ==
    [b \in Block |->
        IF \E i \in 1 .. Len(dhead) : dhead[i] = b
        THEN dlog[CHOOSE i \in 1 .. Len(dhead) : dhead[i] = b]
        ELSE disk[b]]

\* What bread() returns to a system call.
Visible ==
    IF sys \in {"up", "panic"}
    THEN [b \in Block |-> IF cache[b] # NoData THEN cache[b] ELSE disk[b]]
    ELSE Recovered

\* The processes inside a transaction.
Owners == {p \in Proc : pc[p] \in InTrans}

TD == INSTANCE TransDisk
        WITH working <- Visible, committed <- Recovered, owners <- Owners

\* Transactions are atomic, isolated and durable: the log of log.c, crashes in
\* commit and in recovery included, implements a transactional disk.
AtomicTransactions == TD!Spec

\* Types of the state of log.c and of the disk under it.
TypeOK ==
    /\ disk \in [Block -> Data]
    /\ dlog \in [Slots -> Data]
    /\ dhead \in Seq(Block) /\ Len(dhead) \in 0 .. (NLog - 1)
    /\ cache \in [Block -> Data \cup {NoData}]
    /\ dirty \in SUBSET Block
    /\ lh \in Seq(Block) /\ Len(lh) \in 0 .. (NLog - 1)
    /\ busy \in {0, 1}
    /\ tail \in 1 .. NLog
    /\ pc \in [Proc -> PCs]
    /\ held \in [Proc -> Block \cup {NoBlock}]
    /\ sys \in {"read_head", "install", "up", "panic"}

\* log.busy and the position of the processes: at most one is inside, and the
\* flag says whether one is.
OneTransaction ==
    /\ busy = 0 <=> Owners = {}
    /\ \A p, q \in Owners : p = q

\* The header, in memory and on disk, never names a home block twice
\* (absorption), so the order of installation does not matter.
NoDuplicates ==
    /\ \A i, j \in 1 .. Len(lh) : lh[i] = lh[j] => i = j
    /\ \A i, j \in 1 .. Len(dhead) : dhead[i] = dhead[j] => i = j

\* A header is on disk only from the commit point to the erasure.
HeaderWhenCommitting ==
    /\ sys = "up" /\ dhead # <<>> => \E p \in Proc : pc[p] = "install"
    /\ \A p \in Proc : pc[p] = "install" => dhead = lh
    /\ sys = "install" => dhead = lh
    /\ sys = "panic" => dhead = <<>>

\* Outside a transaction the header in memory is empty.
HeaderEmptyOutside ==
    /\ sys = "up" /\ lh # <<>> => \E p \in Proc : pc[p] \in {"in", "held", "install"}
    /\ sys = "read_head" => lh = <<>>

\* During recovery no process runs.
QuietRecovery ==
    sys \in {"read_head", "install"} =>
        /\ \A p \in Proc : pc[p] = "out"
        /\ dirty = {}

Installing == sys = "install" \/ \E p \in Proc : pc[p] = "install"

\* install_trans has copied, and unpinned, the blocks before tail.
Installed ==
    Installing => /\ tail <= Len(lh) + 1
                  /\ \A i \in 1 .. Len(lh) :
                        i < tail => disk[lh[i]] = dlog[i] /\ lh[i] \notin dirty

\* A block that is logged and not yet installed is pinned in the cache, and the
\* log has its contents, unless its owner is changing it again.
LoggedIsPinned ==
    sys = "up" =>
        \A i \in 1 .. Len(lh) :
            ~(Installing /\ i < tail) =>
                /\ lh[i] \in dirty
                /\ cache[lh[i]] # NoData
                /\ (\A p \in Proc : held[p] # lh[i]) => cache[lh[i]] = dlog[i]

\* A cached block that is not part of the transaction is what the disk has.
CleanIsCurrent ==
    /\ sys # "panic" =>
         \A b \in Block :
            cache[b] # NoData /\ b \notin dirty /\ (\A p \in Proc : held[p] # b)
                => cache[b] = disk[b]
    /\ \A b \in dirty : \E i \in 1 .. Len(lh) : lh[i] = b

\* The buffer a process holds.
HeldIsCached ==
    \A p \in Proc :
        /\ (pc[p] = "held") = (held[p] # NoBlock)
        /\ held[p] # NoBlock => cache[held[p]] # NoData

\* The inductive invariant behind AtomicTransactions.
LogInv ==
    /\ TypeOK
    /\ OneTransaction
    /\ NoDuplicates
    /\ HeaderWhenCommitting
    /\ HeaderEmptyOutside
    /\ QuietRecovery
    /\ Installed
    /\ LoggedIsPinned
    /\ CleanIsCurrent
    /\ HeldIsCached

\* If power failures stop, recovery ends with the machine up.
RecoveryEnds ==
    <>[][~Crash]_vars => (sys \in {"read_head", "install"} ~> sys = "up")

\* No wakeup of a process that sleeps in begin_trans() is lost: it runs again
\* unless the machine panics or loses power.
SleepersWake ==
    \A p \in Proc :
        (pc[p] = "sleep" /\ sys = "up") ~> (pc[p] # "sleep" \/ sys # "up")
=============================================================================
