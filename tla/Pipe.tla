-------------------------------- MODULE Pipe --------------------------------
(* Pipes (pipe.c): pipewrite, piperead and pipeclose, called by processes that *)
(* share the two ends, on a ring of PIPESIZE bytes with counters that wrap.    *)
(* Every step between two points where p->lock is acquired or given up, and    *)
(* every byte, is an action; sleep() is the atomic "release the lock and       *)
(* sleep" that proc.c provides.  kill() takes no pipe lock and may happen      *)
(* between any two steps.                                                      *)
EXTENDS Naturals, Sequences

CONSTANTS
    Proc,             \* processes that inherited both ends of the pipe
    Byte,
    PIPESIZE,
    UINT,             \* values of an unsigned int: counters are taken modulo UINT
    MaxBytes,         \* longest transfer that is asked for in one call
    Nobody            \* p->lock is free

ASSUME PipeAssumption ==
    /\ PIPESIZE \in Nat \ {0}
    /\ UINT \in Nat \ {0} /\ UINT > PIPESIZE /\ UINT % PIPESIZE = 0
    /\ MaxBytes \in Nat \ {0}
    /\ Nobody \notin Proc /\ Proc # {}

VARIABLES
    data, nread, nwrite, readopen, writeopen,   \* struct pipe
    lock,      \* p->lock: the process that holds it, or Nobody
    freed,     \* the page of the pipe has been given back with kfree()
    open,      \* references to the two files: <<p, "r">> and <<p, "w">>
    pc,        \* where a process is
    end,       \* the end of the call it is in: "w" in pipewrite, "r" in piperead
    left,      \* bytes still to transfer in the current call: n - i
    got,       \* piperead: bytes transferred, i
    killed     \* proc->killed

pipe == <<data, nread, nwrite, readopen, writeopen>>
vars == <<pipe, lock, freed, open, pc, end, left, got, killed>>

\* "user": outside the kernel; "acquire": waiting for p->lock; "locked": at the
\* loop of pipewrite or the first loop of piperead; "copy": piperead-copy;
\* "tosleep": killed was tested, about to call sleep(); "asleep": SLEEPING;
\* "close": fileclose() dropped the last reference, pipeclose() is to run.
End == {"r", "w"}

PCs == {"user", "acquire", "locked", "copy", "tosleep", "asleep", "close"}

Init ==
    /\ data \in [0 .. (PIPESIZE - 1) -> Byte]
    /\ nread = 0 /\ nwrite = 0
    /\ readopen = 1 /\ writeopen = 1
    /\ lock = Nobody
    /\ freed = FALSE
    /\ open = Proc \X End
    /\ pc = [p \in Proc |-> "user"]
    /\ end = [p \in Proc |-> "r"]
    /\ left = [p \in Proc |-> 0]
    /\ got = [p \in Proc |-> 0]
    /\ killed = [p \in Proc |-> FALSE]

\* Broken: the comparison is made in a wider type than the counters.
FullWide == nwrite = nread + PIPESIZE

Full == nwrite = (nread + PIPESIZE) % UINT
Empty == nread = nwrite

\* wakeup(&p->nread) for e = "r", wakeup(&p->nwrite) for e = "w": readers sleep
\* on the one and writers on the other, and a woken process has to acquire
\* p->lock before sleep() returns.  p goes on at l.
Wake(e, p, l) ==
    pc' = [q \in Proc |-> IF q = p THEN l
                          ELSE IF end[q] = e /\ pc[q] = "asleep" THEN "acquire" ELSE pc[q]]

Goto(p, l) == pc' = [pc EXCEPT ![p] = l]

\* The arguments and locals of the call that p makes; they are gone at its end.
Locals(p, e, n) ==
    /\ end' = [end EXCEPT ![p] = e]
    /\ left' = [left EXCEPT ![p] = n]
    /\ got' = [got EXCEPT ![p] = 0]

Return(p) == Locals(p, "r", 0)

\* release(&p->lock); return -1
Fail(p) == lock' = Nobody /\ Goto(p, "user") /\ Return(p)

\* write() or read() of n bytes on the pipe.
Call(p, e, n) ==
    /\ pc[p] = "user" /\ <<p, e>> \in open /\ ~killed[p]
    /\ Goto(p, "acquire")
    /\ Locals(p, e, n)
    /\ UNCHANGED <<pipe, lock, freed, open, killed>>

\* Broken: the lock is taken without a test.
AcquireBlindly(p) ==
    /\ pc[p] = "acquire"
    /\ lock' = p
    /\ Goto(p, "locked")
    /\ UNCHANGED <<pipe, freed, open, end, left, got, killed>>

\* acquire(&p->lock), at the start of a call and at the end of sleep().
Acquire(p) ==
    /\ pc[p] = "acquire" /\ lock = Nobody
    /\ lock' = p
    /\ Goto(p, "locked")
    /\ UNCHANGED <<pipe, freed, open, end, left, got, killed>>

\* sleep(): give up p->lock and sleep, in one step.
Sleep(p) ==
    /\ pc[p] = "tosleep"
    /\ lock' = Nobody
    /\ Goto(p, "asleep")
    /\ UNCHANGED <<pipe, freed, open, end, left, got, killed>>

\* pipewrite-full: the call fails if nobody will read or the process is killed;
\* otherwise wake the readers and go to sleep.
WriteFull(p) ==
    /\ end[p] = "w" /\ pc[p] = "locked" /\ left[p] > 0 /\ Full
    /\ IF readopen = 0 \/ killed[p]
       THEN Fail(p)
       ELSE Wake("r", p, "tosleep") /\ UNCHANGED <<lock, end, left, got>>
    /\ UNCHANGED <<pipe, freed, open, killed>>

\* p->data[p->nwrite++ % PIPESIZE] = addr[i]
WriteByte(p, b) ==
    /\ end[p] = "w" /\ pc[p] = "locked" /\ left[p] > 0 /\ ~Full
    /\ data' = [data EXCEPT ![nwrite % PIPESIZE] = b]
    /\ nwrite' = (nwrite + 1) % UINT
    /\ left' = [left EXCEPT ![p] = @ - 1]
    /\ UNCHANGED <<nread, readopen, writeopen, lock, freed, open, pc, end, got, killed>>

\* Broken: no wakeup at the end of pipewrite().
WriteDoneSilent(p) ==
    /\ end[p] = "w" /\ pc[p] = "locked" /\ left[p] = 0
    /\ Goto(p, "user")
    /\ lock' = Nobody
    /\ Return(p)
    /\ UNCHANGED <<pipe, freed, open, killed>>

\* pipewrite-wakeup1, release and return.
WriteDone(p) ==
    /\ end[p] = "w" /\ pc[p] = "locked" /\ left[p] = 0
    /\ Wake("r", p, "user")
    /\ lock' = Nobody
    /\ Return(p)
    /\ UNCHANGED <<pipe, freed, open, killed>>

\* pipe-empty: wait while there is nothing to read and somebody may write.
ReadEmpty(p) ==
    /\ end[p] = "r" /\ pc[p] = "locked" /\ Empty /\ writeopen = 1
    /\ IF killed[p]
       THEN Fail(p)
       ELSE Goto(p, "tosleep") /\ UNCHANGED <<lock, end, left, got>>
    /\ UNCHANGED <<pipe, freed, open, killed>>

\* Broken: piperead() does not wait for writers.
ReadStartEager(p) ==
    /\ end[p] = "r" /\ pc[p] = "locked"
    /\ Goto(p, "copy")
    /\ UNCHANGED <<pipe, lock, freed, open, end, left, got, killed>>

ReadStart(p) ==
    /\ end[p] = "r" /\ pc[p] = "locked" /\ ~(Empty /\ writeopen = 1)
    /\ Goto(p, "copy")
    /\ UNCHANGED <<pipe, lock, freed, open, end, left, got, killed>>

\* Broken: the loop of piperead() goes on while i <= n.
ReadByteOver(p) ==
    /\ pc[p] = "copy" /\ left[p] >= 0 /\ ~Empty
    /\ nread' = (nread + 1) % UINT
    /\ left' = [left EXCEPT ![p] = @ - 1]
    /\ got' = [got EXCEPT ![p] = @ + 1]
    /\ UNCHANGED <<data, nwrite, readopen, writeopen, lock, freed, open, pc, end, killed>>

\* addr[i] = p->data[p->nread++ % PIPESIZE]
ReadByte(p) ==
    /\ pc[p] = "copy" /\ left[p] > 0 /\ ~Empty
    /\ nread' = (nread + 1) % UINT
    /\ left' = [left EXCEPT ![p] = @ - 1]
    /\ got' = [got EXCEPT ![p] = @ + 1]
    /\ UNCHANGED <<data, nwrite, readopen, writeopen, lock, freed, open, pc, end, killed>>

\* piperead-wakeup, release and return.
ReadDone(p) ==
    /\ pc[p] = "copy" /\ (left[p] = 0 \/ Empty)
    /\ Wake("w", p, "user")
    /\ lock' = Nobody
    /\ Return(p)
    /\ UNCHANGED <<pipe, freed, open, killed>>

\* fileclose(), by close() or exit(): the last reference to an end goes on to
\* pipeclose().
Close(p, e) ==
    /\ pc[p] = "user" /\ <<p, e>> \in open
    /\ open' = open \ {<<p, e>>}
    /\ IF \E q \in Proc : <<q, e>> \in open'
       THEN UNCHANGED <<pc, end, left, got>>
       ELSE Goto(p, "close") /\ Locals(p, e, 0)
    /\ UNCHANGED <<pipe, lock, freed, killed>>

\* Broken: the pipe is freed when the write end is closed.
PipeCloseFrees(p) ==
    /\ pc[p] = "close" /\ lock = Nobody
    /\ IF end[p] = "w"
       THEN writeopen' = 0 /\ UNCHANGED readopen /\ Wake("r", p, "user")
       ELSE readopen' = 0 /\ UNCHANGED writeopen /\ Wake("w", p, "user")
    /\ freed' = (writeopen' = 0)
    /\ Return(p)
    /\ UNCHANGED <<data, nread, nwrite, lock, open, killed>>

\* pipeclose()
PipeClose(p) ==
    /\ pc[p] = "close" /\ lock = Nobody
    /\ IF end[p] = "w"
       THEN writeopen' = 0 /\ UNCHANGED readopen /\ Wake("r", p, "user")
       ELSE readopen' = 0 /\ UNCHANGED writeopen /\ Wake("w", p, "user")
    /\ freed' = (readopen' = 0 /\ writeopen' = 0)
    /\ Return(p)
    /\ UNCHANGED <<data, nread, nwrite, lock, open, killed>>

\* kill(): also ends a sleep.
Kill(p) ==
    /\ ~killed[p]
    /\ killed' = [killed EXCEPT ![p] = TRUE]
    /\ pc' = IF pc[p] = "asleep" THEN [pc EXCEPT ![p] = "acquire"] ELSE pc
    /\ UNCHANGED <<pipe, lock, freed, open, end, left, got>>

\* A step of the kernel code that p is executing.
Step(p) ==
    \/ Acquire(p) \/ Sleep(p)
    \/ WriteFull(p) \/ (\E b \in Byte : WriteByte(p, b)) \/ WriteDone(p)
    \/ ReadEmpty(p) \/ ReadStart(p) \/ ReadByte(p) \/ ReadDone(p)
    \/ PipeClose(p)

Next ==
    \E p \in Proc :
        \/ \E e \in End, n \in 1 .. MaxBytes : Call(p, e, n)
        \/ \E e \in End : Close(p, e)
        \/ Step(p) \/ Kill(p)

Spec == Init /\ [][Next]_vars

\* The scheduler runs every runnable process; acquire() spins, and a process
\* that finds the lock free again and again gets it; trap() makes a killed
\* process exit, and exit() closes its files.
Fairness ==
    \A p \in Proc :
        /\ WF_vars(Step(p)) /\ SF_vars(Acquire(p)) /\ SF_vars(PipeClose(p))
        /\ WF_vars(killed[p] /\ \E e \in End : Close(p, e))

LiveSpec == Spec /\ Fairness

-----------------------------------------------------------------------------
(* Properties *)

\* Types of struct pipe and of what its users do; indices stay unsigned.
TypeOK ==
    /\ data \in [0 .. (PIPESIZE - 1) -> Byte]
    /\ nread \in 0 .. (UINT - 1) /\ nwrite \in 0 .. (UINT - 1)
    /\ readopen \in {0, 1} /\ writeopen \in {0, 1}
    /\ lock \in Proc \cup {Nobody}
    /\ freed \in BOOLEAN
    /\ open \subseteq Proc \X End
    /\ pc \in [Proc -> PCs]
    /\ end \in [Proc -> End]
    /\ left \in [Proc -> 0 .. MaxBytes] /\ got \in [Proc -> 0 .. MaxBytes]
    /\ killed \in [Proc -> BOOLEAN]

\* The number of bytes in the ring, nwrite - nread as an unsigned int.
Stock == (UINT + nwrite - nread) % UINT

\* The bytes in the ring, oldest first: data[nread .. nwrite-1].
Stored == [i \in 1 .. Stock |-> data[((nread + i - 1) % UINT) % PIPESIZE]]

BQ == INSTANCE ByteQueue
        WITH Capacity <- PIPESIZE, queue <- Stored, readers <- readopen, writers <- writeopen

\* Whatever the interleaving of readers, writers and closes, and however often
\* nread and nwrite wrap around, the ring is a first-in first-out queue of at
\* most PIPESIZE bytes.
IsByteQueue == BQ!Spec

\* The lock of the pipe is held exactly by the process that is inside one of
\* the critical sections of pipewrite and piperead.
MutualExclusion ==
    \A p \in Proc : pc[p] \in {"locked", "copy", "tosleep"} <=> lock = p

\* Nobody sleeps through what it waits for: whenever p->lock is free, a process
\* asleep in pipewrite has no room and may still get some, and a process asleep
\* in piperead has nothing to read and may still get something.  There is one
\* exception: a writer that is killed fails at the full ring, and leaves without
\* waking the readers of what it has written.
NoLostWakeup ==
    lock = Nobody =>
        \A p \in Proc : pc[p] = "asleep" =>
            IF end[p] = "w" THEN Full /\ readopen = 1
            ELSE writeopen = 1 /\ (Empty \/ \E q \in Proc : killed[q])

\* pipeclose frees the pipe's page only when no process is inside the pipe or
\* can come back to it: kfree() in pipeclose is after the last use.
NoUseAfterFree ==
    freed => lock = Nobody /\ open = {} /\ \A p \in Proc : pc[p] = "user"

\* piperead returns end of file (0 bytes) only if no write end is open and
\* every byte that was written has been read.
EndOfFileIsFinal ==
    [][\A p \in Proc : pc[p] = "copy" /\ pc'[p] = "user" /\ got[p] = 0
            => Stored = <<>> /\ open \cap (Proc \X {"w"}) = {}]_vars

\* A process that is killed inside the pipe leaves it: kill() wakes it from its
\* sleep, and the loops of pipewrite and piperead test proc->killed.
KilledLeaves ==
    \A p \in Proc : killed[p] ~> pc[p] = "user"

-----------------------------------------------------------------------------
(* The inductive invariant.                                                  *)

Inside == {"acquire", "locked", "copy", "tosleep", "asleep"}
Referenced(e) == \E p \in Proc : <<p, e>> \in open \/ (pc[p] = "close" /\ end[p] = e)

\* An end is open until the process that dropped its last reference has run
\* pipeclose(); who is inside the pipe has a reference; the page goes with the
\* second end.
EndsCounted ==
    /\ readopen = 1 <=> Referenced("r")
    /\ writeopen = 1 <=> Referenced("w")
    /\ \A p \in Proc : pc[p] \in Inside => <<p, end[p]>> \in open
    /\ \A p, q \in Proc : pc[p] = "close" =>
          /\ <<q, end[p]>> \notin open
          /\ pc[q] = "close" /\ end[q] = end[p] => q = p
    /\ freed => readopen = 0 /\ writeopen = 0

\* What a call has transferred and has still to transfer; a reader gets to its
\* second loop only with something to read or without writers.
CallsCounted ==
    \A p \in Proc :
        /\ left[p] + got[p] <= MaxBytes
        /\ pc[p] \in Inside /\ end[p] = "r" => left[p] + got[p] > 0
        /\ pc[p] = "copy" => end[p] = "r" /\ (got[p] > 0 \/ ~Empty \/ writeopen = 0)

\* What a process waits for, asleep or about to sleep, is still to come, or the
\* process that brings it is between its change and its wakeup().
SleepersWait ==
    \A p \in Proc :
        /\ pc[p] = "tosleep" /\ end[p] = "r" => Empty /\ writeopen = 1
        /\ pc[p] = "tosleep" /\ end[p] = "w" => Full /\ readopen = 1
        /\ pc[p] = "asleep" /\ end[p] = "r" =>
              writeopen = 1 /\ (Empty \/ \E q \in Proc : killed[q] \/ (pc[q] = "locked" /\ end[q] = "w"))
        /\ pc[p] = "asleep" /\ end[p] = "w" =>
              readopen = 1 /\ (Full \/ \E q \in Proc : pc[q] = "copy")

\* The pipe's page is used under its lock, by one process at a time, and never
\* after pipeclose() has freed it; ends, calls and sleepers are as above.
PipeInv ==
    /\ TypeOK
    /\ MutualExclusion
    /\ NoUseAfterFree
    /\ EndsCounted
    /\ CallsCounted
    /\ SleepersWait
=============================================================================
