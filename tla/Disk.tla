-------------------------------- MODULE Disk --------------------------------
(* The buffer cache (bio.c) and the disk driver under it (ide.c): processes    *)
(* get, change, write and release buffers; requests queue for the one          *)
(* controller, which raises an interrupt when it has finished the first one.   *)
(* A critical section of bcache.lock is one action, as nothing in it waits     *)
(* but sleep(), which gives up the lock and sleeps in one step.  idelock is    *)
(* explicit, because iderw() keeps it from the start of a request to the       *)
(* sleep while the interrupt handler wants it.  Callers follow the protocol    *)
(* of fs.c and log.c: a changed buffer is written, or logged and pinned by a   *)
(* transaction, before it is released.                                         *)
EXTENDS Naturals, Sequences

CONSTANTS
    Proc,
    Sector,
    LogSector,     \* the sectors that only the owner of a transaction uses
    Indirect,      \* indirect blocks of files
    Data,
    NBUF,          \* the number of buffers
    NoSector,      \* b->dev = -1
    None           \* no process, no request

ASSUME DiskAssumption ==
    /\ LogSector \subseteq Sector
    /\ Indirect \subseteq Sector \ LogSector
    /\ NBUF \in Nat \ {0}
    /\ NoSector \notin Sector
    /\ None \notin Proc \cup [sector : Sector, write : BOOLEAN, data : Data]

VARIABLES
    buf,         \* each buffer's sector, B_BUSY, B_VALID, B_DIRTY and data
    mru,         \* the list of buffers, most recently used first
    idequeue,    \* requests for the disk, the active one first
    idelock,     \* the process that holds idelock, or None
    ide,         \* the request the controller works on, or None
    irq,         \* the controller has raised its interrupt
    disk,        \* the platter
    pc,          \* where each process is
    want,        \* bread(): the sector a process asks for
    held,        \* the buffers a process has got
    arg,         \* the buffer a process has changed or called iderw() with
    trans,       \* log.busy: the process inside a transaction, or None
    logged,      \* log.lh: sectors that are pinned until they are installed
    panicked

Buf == 1 .. NBUF
NoBuf == 0

cache == <<buf, mru>>
driver == <<idequeue, idelock, ide, irq, disk>>
procs == <<pc, want, held, arg>>
vars == <<cache, driver, procs, trans, logged, panicked>>

\* "run": in the caller; "changed": it has changed a buffer;
\* "bget": at the loop of bget(); "bsleep": asleep there; "iderw": about to
\* queue the request; "iowait": at the loop of iderw(), with idelock;
\* "iosleep": asleep there; "iowoken": to acquire idelock at the end of sleep().
PCs == {"run", "changed", "bget", "bsleep", "iderw", "iowait", "iosleep", "iowoken"}

Init ==
    /\ mru = [i \in 1 .. NBUF |-> NBUF + 1 - i]
    /\ disk \in [Sector -> Data]
    /\ \E d \in Data :
          buf = [b \in Buf |-> [sector |-> NoSector, busy |-> FALSE, valid |-> FALSE,
                                dirty |-> FALSE, data |-> d]]
    /\ idequeue = <<>> /\ idelock = None /\ ide = None /\ irq = FALSE
    /\ pc = [p \in Proc |-> "run"]
    /\ want = [p \in Proc |-> NoSector]
    /\ held = [p \in Proc |-> {}]
    /\ arg = [p \in Proc |-> NoBuf]
    /\ trans = None /\ logged = {} /\ panicked = FALSE

Goto(p, l) == pc' = [pc EXCEPT ![p] = l]

With(p, b) == arg' = [arg EXCEPT ![p] = b]

\* wakeup(b): those who sleep in bget() are at its loop again, those who sleep
\* in iderw() have to get idelock first.
Wake(b) ==
    pc' = [q \in Proc |-> IF pc[q] = "bsleep" /\ want[q] = buf[b].sector THEN "bget"
                          ELSE IF pc[q] = "iosleep" /\ arg[q] = b THEN "iowoken" ELSE pc[q]]

-----------------------------------------------------------------------------
(* bio.c *)

Cached(s) == {b \in Buf : buf[b].sector = s}

\* Broken: the least recently used buffer is taken even if it is dirty.
RecyclableDirty(b) == ~buf[b].busy

\* A buffer that bget() may give to another sector.
Recyclable(b) == ~buf[b].busy /\ ~buf[b].dirty

\* The one in place i is the first of them from the end of the list.
Victim(i) == Recyclable(mru[i]) /\ \A j \in Buf : j > i => ~Recyclable(mru[j])

\* The caller may ask for s while it holds sector h: one of the two is a sector of
\* the log, inside a transaction, or h is an indirect block, which bmap() and
\* itrunc() keep while balloc() and bfree() read others.
MayHold(p, h, s) ==
    \/ trans = p /\ (s \in LogSector) # (h \in LogSector)
    \/ h \in Indirect /\ s \notin Indirect \cup LogSector

\* The caller asks for s.
Bread(p, s) ==
    /\ pc[p] = "run"
    /\ \A b \in held[p] : MayHold(p, buf[b].sector, s)
    /\ s \in LogSector => trans = p
    /\ want' = [want EXCEPT ![p] = s]
    /\ Goto(p, "bget")
    /\ UNCHANGED <<cache, driver, held, arg, trans, logged, panicked>>

\* bget() returns b.
Got(p, b) ==
    /\ held' = [held EXCEPT ![p] = @ \cup {b}]
    /\ want' = [want EXCEPT ![p] = NoSector]

\* bget() found the sector in a buffer nobody uses; bread() returns it, after
\* iderw() if it is not valid.
BgetHit(p, b) ==
    /\ pc[p] = "bget" /\ b \in Cached(want[p]) /\ ~buf[b].busy
    /\ buf' = [buf EXCEPT ![b].busy = TRUE]
    /\ Got(p, b)
    /\ Goto(p, IF buf[b].valid THEN "run" ELSE "iderw")
    /\ With(p, IF buf[b].valid THEN NoBuf ELSE b)
    /\ UNCHANGED <<mru, driver, trans, logged, panicked>>

\* It is in a buffer that is in use: sleep(b, &bcache.lock).
BgetSleep(p) ==
    /\ pc[p] = "bget"
    /\ \E b \in Cached(want[p]) : buf[b].busy
    /\ Goto(p, "bsleep")
    /\ UNCHANGED <<cache, driver, want, held, arg, trans, logged, panicked>>

\* Broken: a buffer is recycled although the sector is cached in a busy one.
BgetRecycleBlind(p, i) ==
    /\ pc[p] = "bget" /\ (\A b \in Cached(want[p]) : buf[b].busy)
    /\ Victim(i)
    /\ buf' = [buf EXCEPT ![mru[i]] = [sector |-> want[p], busy |-> TRUE, valid |-> FALSE,
                                       dirty |-> FALSE, data |-> @.data]]
    /\ Got(p, mru[i])
    /\ Goto(p, "iderw")
    /\ With(p, mru[i])
    /\ UNCHANGED <<mru, driver, trans, logged, panicked>>

\* It is not cached: recycle a buffer.
BgetRecycle(p, i) ==
    /\ pc[p] = "bget" /\ Cached(want[p]) = {}
    /\ Victim(i)
    /\ buf' = [buf EXCEPT ![mru[i]] = [sector |-> want[p], busy |-> TRUE, valid |-> FALSE,
                                       dirty |-> FALSE, data |-> @.data]]
    /\ Got(p, mru[i])
    /\ Goto(p, "iderw")
    /\ With(p, mru[i])
    /\ UNCHANGED <<mru, driver, trans, logged, panicked>>

\* panic("bget: no buffers")
BgetPanic(p) ==
    /\ pc[p] = "bget" /\ Cached(want[p]) = {}
    /\ \A b \in Buf : ~Recyclable(b)
    /\ panicked' = TRUE
    /\ UNCHANGED <<cache, driver, procs, trans, logged>>

\* The caller changes the contents of a buffer it holds, inside a transaction.
Change(p, b, d) ==
    /\ pc[p] = "run" /\ b \in held[p] /\ trans = p
    /\ buf' = [buf EXCEPT ![b].data = d]
    /\ Goto(p, "changed")
    /\ With(p, b)
    /\ UNCHANGED <<mru, driver, want, held, trans, logged, panicked>>

\* bwrite(): also of a buffer that was not changed, as install_trans() does.
\* The log forgets a sector that it has installed.
Bwrite(p, b) ==
    /\ pc[p] = "run" \/ (pc[p] = "changed" /\ arg[p] = b)
    /\ b \in held[p] /\ trans = p
    /\ buf' = [buf EXCEPT ![b].dirty = TRUE]
    /\ logged' = logged \ {buf[b].sector}
    /\ Goto(p, "iderw")
    /\ With(p, b)
    /\ UNCHANGED <<mru, driver, want, held, trans, panicked>>

\* log_write(): b->flags |= B_DIRTY.
Pin(p, b) ==
    /\ pc[p] = "changed" /\ arg[p] = b /\ trans = p
    /\ buf[b].sector \notin LogSector
    /\ buf' = [buf EXCEPT ![b].dirty = TRUE]
    /\ logged' = logged \cup {buf[b].sector}
    /\ Goto(p, "run")
    /\ With(p, NoBuf)
    /\ UNCHANGED <<mru, driver, want, held, trans, panicked>>

\* The list after the buffer in place i was moved to its front.
ToFront(i) ==
    [j \in Buf |-> IF j = 1 THEN mru[i] ELSE IF j <= i THEN mru[j - 1] ELSE mru[j]]

\* Broken: no wakeup(b).
BrelseSilent(p, i) ==
    /\ pc[p] = "run" /\ mru[i] \in held[p]
    /\ mru' = ToFront(i)
    /\ buf' = [buf EXCEPT ![mru[i]].busy = FALSE]
    /\ held' = [held EXCEPT ![p] = @ \ {mru[i]}]
    /\ UNCHANGED <<driver, pc, want, arg, trans, logged, panicked>>

\* brelse() of the buffer in place i of the list: to the front of the list; wake
\* who waits for the buffer.
Brelse(p, i) ==
    /\ pc[p] = "run" /\ mru[i] \in held[p]
    /\ mru' = ToFront(i)
    /\ buf' = [buf EXCEPT ![mru[i]].busy = FALSE]
    /\ held' = [held EXCEPT ![p] = @ \ {mru[i]}]
    /\ Wake(mru[i])
    /\ UNCHANGED <<driver, want, arg, trans, logged, panicked>>

\* begin_trans() and commit_trans(), which log.c and the module Log detail.
BeginTrans(p) ==
    /\ pc[p] = "run" /\ held[p] = {} /\ trans = None
    /\ trans' = p
    /\ UNCHANGED <<cache, driver, procs, logged, panicked>>

CommitTrans(p) ==
    /\ pc[p] = "run" /\ held[p] = {} /\ trans = p /\ logged = {}
    /\ trans' = None
    /\ UNCHANGED <<cache, driver, procs, logged, panicked>>

-----------------------------------------------------------------------------
(* ide.c *)

\* Registers of the controller after idestart(b).
Request(b) == [sector |-> buf[b].sector, write |-> buf[b].dirty, data |-> buf[b].data]

\* iderw(): acquire idelock, append the buffer to the queue and start the disk
\* if it is the only one.
Iderw(p) ==
    LET b == arg[p] IN
    /\ pc[p] = "iderw" /\ idelock = None
    /\ idelock' = p
    /\ idequeue' = Append(idequeue, b)
    /\ ide' = IF idequeue = <<>> THEN Request(b) ELSE ide
    /\ Goto(p, "iowait")
    /\ UNCHANGED <<cache, irq, disk, want, held, arg, trans, logged, panicked>>

Finished(b) == buf[b].valid /\ ~buf[b].dirty

\* The loop of iderw(): sleep(b, &idelock), or release(&idelock) and return.
IderwLoop(p) ==
    /\ pc[p] = "iowait"
    /\ idelock' = None
    /\ IF Finished(arg[p]) THEN Goto(p, "run") /\ With(p, NoBuf)
                           ELSE Goto(p, "iosleep") /\ UNCHANGED arg
    /\ UNCHANGED <<cache, idequeue, ide, irq, disk, want, held, trans, logged, panicked>>

\* sleep() returns with idelock.
IderwWoken(p) ==
    /\ pc[p] = "iowoken" /\ idelock = None
    /\ idelock' = p
    /\ Goto(p, "iowait")
    /\ UNCHANGED <<cache, idequeue, ide, irq, disk, want, held, arg, trans, logged, panicked>>

\* The controller finishes its request and raises the interrupt.  A sector to
\* read stays in its buffer until the driver fetches it.
Finish ==
    /\ ide # None /\ ~irq
    /\ disk' = IF ide.write THEN [disk EXCEPT ![ide.sector] = ide.data] ELSE disk
    /\ irq' = TRUE
    /\ UNCHANGED <<cache, idequeue, idelock, ide, procs, trans, logged, panicked>>

\* ideintr(): the first buffer of the queue is done; start the next one.
Ideintr ==
    LET b == Head(idequeue) IN
    /\ irq /\ idelock = None
    /\ irq' = FALSE
    /\ idequeue' = Tail(idequeue)
    /\ buf' = [buf EXCEPT ![b].valid = TRUE, ![b].dirty = FALSE,
                          ![b].data = IF buf[b].dirty THEN @ ELSE disk[ide.sector]]
    /\ Wake(b)
    /\ ide' = IF Len(idequeue) > 1 THEN Request(idequeue[2]) ELSE None
    /\ UNCHANGED <<mru, idelock, disk, want, held, arg, trans, logged, panicked>>

-----------------------------------------------------------------------------

Bget(p) == (\E b \in Buf : BgetHit(p, b)) \/ BgetSleep(p) \/ BgetPanic(p)
           \/ (\E i \in Buf : BgetRecycle(p, i))

\* The calling code between two calls.
Caller(p) ==
    \/ \E s \in Sector : Bread(p, s)
    \/ \E b \in Buf : Bwrite(p, b) \/ Pin(p, b) \/ \E d \in Data : Change(p, b, d)
    \/ \E i \in Buf : Brelse(p, i)
    \/ BeginTrans(p) \/ CommitTrans(p)

\* The code of bio.c and ide.c that runs without the caller's doing.
Inside(p) == Bget(p) \/ Iderw(p) \/ IderwLoop(p) \/ IderwWoken(p)

Next ==
    \/ ~panicked /\ \E p \in Proc : Caller(p) \/ Inside(p)
    \/ ~panicked /\ (Finish \/ Ideintr)
    \/ panicked /\ UNCHANGED vars    \* for(;;)

Spec == Init /\ [][Next]_vars

-----------------------------------------------------------------------------

Range(s) == {s[i] : i \in DOMAIN s}

\* Types: mru is always a permutation of the buffers, and no buffer is queued
\* twice for the disk.
TypeOK ==
    /\ buf \in [Buf -> [sector : Sector \cup {NoSector}, busy : BOOLEAN, valid : BOOLEAN,
                        dirty : BOOLEAN, data : Data]]
    /\ mru \in [Buf -> Buf] /\ \A b \in Buf : \E i \in Buf : mru[i] = b
    /\ idequeue \in Seq(Buf)
    /\ \A i, j \in 1 .. Len(idequeue) : idequeue[i] = idequeue[j] => i = j
    /\ idelock \in Proc \cup {None}
    /\ ide \in [sector : Sector, write : BOOLEAN, data : Data] \cup {None}
    /\ irq \in BOOLEAN
    /\ disk \in [Sector -> Data]
    /\ pc \in [Proc -> PCs]
    /\ want \in [Proc -> Sector \cup {NoSector}]
    /\ held \in [Proc -> SUBSET Buf]
    /\ arg \in [Proc -> Buf \cup {NoBuf}]
    /\ trans \in Proc \cup {None}
    /\ logged \subseteq Sector
    /\ panicked \in BOOLEAN

Waiting == {"iowait", "iosleep", "iowoken"}
Loading == Waiting \cup {"iderw"}

\* What a process that gets the sector will find: the buffer's data once it is
\* valid; the platter's until then.
Content ==
    [s \in Sector |->
        IF \E b \in Cached(s) : buf[b].valid
        THEN buf[CHOOSE b \in Cached(s) : buf[b].valid].data
        ELSE disk[s]]

\* The processes that hold the sector, from when bread() is sure to return it.
Holders == [s \in Sector |-> {p \in Proc : \E b \in held[p] : buf[b].sector = s}]

BS == INSTANCE BlockStore WITH content <- Content, durable <- disk, holders <- Holders

\* Whatever is evicted, queued and interrupted, processes see one copy of each
\* sector, one process at a time, and it changes by their doing only: bio.c
\* over ide.c implements a store of blocks ("a synchronization point for disk
\* blocks used by multiple processes").
IsBlockStore == BS!Spec

\* A sector is never in two buffers, although bget() gives up bcache.lock while
\* it sleeps and searches again.
OneBuffer == \A b, c \in Buf : buf[b].sector = buf[c].sector => b = c \/ buf[b].sector = NoSector

\* No buffer is lost: it is busy only while a process, and only one, has it, and
\* dirty only while the log pins its sector or a process is writing it.  So when
\* bget() panics, all buffers are really in use.
NoBufferLost ==
    /\ \A b \in Buf :
          /\ buf[b].busy <=> \E p \in Proc : b \in held[p]
          /\ buf[b].dirty => \/ buf[b].sector \in logged
                             \/ \E p \in Proc : pc[p] \in Loading /\ arg[p] = b
    /\ \A p, q \in Proc : p # q => held[p] \cap held[q] = {}

\* The controller always works on the first buffer of the queue, or has raised
\* its interrupt for it, and the queue has exactly the buffers whose processes
\* wait in iderw(): no request is started twice, forgotten or answered for
\* another one.
QueueIsServed ==
    /\ ide = None <=> idequeue = <<>>
    /\ ide # None => ide = Request(Head(idequeue))
    /\ irq => ide # None
    /\ Range(idequeue) = {b \in Buf : ~Finished(b) /\ \E p \in Proc : pc[p] \in Waiting /\ arg[p] = b}

\* iderw() is called only with a busy buffer that is to be read or written, so
\* its panics do not happen.
RequestIsSane ==
    \A p \in Proc : pc[p] = "iderw" => buf[arg[p]].busy /\ ~Finished(arg[p])

\* No wakeup is lost: who sleeps in iderw() has a request that is still queued,
\* although the interrupt may come at any time after the disk was started, and
\* who sleeps in bget() waits for a buffer that is in use.
NoLostWakeup ==
    \A p \in Proc :
        /\ pc[p] = "iosleep" => arg[p] \in Range(idequeue)
        /\ pc[p] = "bsleep" => \E b \in Cached(want[p]) : buf[b].busy

\* What a process has got and does not wait for is valid; the buffer it waits
\* for or has changed is one it has got; what it waits for in bget() is a sector.
HeldIsValid ==
    \A p \in Proc :
        /\ pc[p] \in {"bget", "bsleep"} => want[p] # NoSector
        /\ pc[p] \in Loading \cup {"changed"} => arg[p] \in held[p]
        /\ \A b \in held[p] : buf[b].sector # NoSector /\ (buf[b].valid \/ (pc[p] \in Loading /\ arg[p] = b))

\* A dirty buffer is valid, and a clean one that is valid has what is on the
\* platter, unless its holder has just changed it: so bget() may recycle it.
CleanIsOnDisk ==
    \A b \in Buf :
        /\ buf[b].dirty => buf[b].valid
        /\ buf[b].sector = NoSector => ~buf[b].valid
        /\ buf[b].valid /\ ~buf[b].dirty =>
              \/ buf[b].data = disk[buf[b].sector]
              \/ \E p \in Proc : pc[p] = "changed" /\ arg[p] = b

\* After its interrupt the controller has written what it was asked to.
WrittenIsOnDisk == irq /\ ide.write => disk[ide.sector] = ide.data

\* The buffers and their list are sound: one buffer for a sector, none lost, and
\* only buffers with something to do go to the driver.
BufferInv ==
    TypeOK /\ OneBuffer /\ NoBufferLost /\ RequestIsSane /\ HeldIsValid /\ CleanIsOnDisk

\* The driver forgets no request and no sleeper.
DriverInv == QueueIsServed /\ NoLostWakeup /\ WrittenIsOnDisk
=============================================================================
