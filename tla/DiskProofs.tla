----------------------------- MODULE DiskProofs -----------------------------
(* Proofs about the buffer cache and the disk driver: the invariants of both,  *)
(* and that they implement a store of blocks, for every number of processes,   *)
(* sectors and buffers.                                                        *)
EXTENDS Disk, TLAPS

DiskInv == BufferInv /\ DriverInv

BufRec == [sector : Sector \cup {NoSector}, busy : BOOLEAN, valid : BOOLEAN,
           dirty : BOOLEAN, data : Data]

\* What the proofs use of the constants.
LEMMA Constants ==
  /\ NoSector \notin Sector /\ None \notin Proc /\ NoBuf \notin Buf /\ NBUF \in Nat
  /\ None \notin [sector : Sector, write : BOOLEAN, data : Data]
BY DiskAssumption DEF NoBuf, Buf

\* A buffer that a process has got.
LEMMA HeldBuffer ==
  ASSUME DiskInv, NEW p \in Proc, NEW b \in held[p]
  PROVE  /\ b \in Buf /\ buf[b] \in BufRec /\ buf[b].sector \in Sector /\ buf[b].busy
         /\ \A q \in Proc : b \in held[q] => q = p
<1>1. b \in Buf /\ buf[b] \in BufRec
  BY Zenon DEF DiskInv, BufferInv, TypeOK, BufRec
<1>2. buf[b].sector # NoSector
  BY Zenon DEF DiskInv, BufferInv, HeldIsValid
<1>3. buf[b].busy /\ \A q \in Proc : b \in held[q] => q = p
  BY <1>1, Zenon DEF DiskInv, BufferInv, NoBufferLost
<1> QED BY <1>1, <1>2, <1>3, Zenon DEF BufRec

\* A buffer in the queue is the one its process waits for, with work to do.
LEMMA QueuedBuffer ==
  ASSUME DiskInv, NEW b \in Range(idequeue)
  PROVE  /\ b \in Buf /\ ~Finished(b)
         /\ \E p \in Proc : pc[p] \in Waiting /\ arg[p] = b /\ b \in held[p]
<1>1. b \in Buf /\ ~Finished(b)
  BY Zenon DEF DiskInv, DriverInv, QueueIsServed
<1>2. PICK p \in Proc : pc[p] \in Waiting /\ arg[p] = b
  BY Zenon DEF DiskInv, DriverInv, QueueIsServed
<1>3. b \in held[p]
  BY <1>2, Zenon DEF DiskInv, BufferInv, HeldIsValid, Loading
<1> QED BY <1>1, <1>2, <1>3, Zenon

\* The first request of the queue.
LEMMA FirstRequest ==
  ASSUME DiskInv, idequeue # <<>>
  PROVE  /\ Head(idequeue) \in Range(idequeue) /\ Head(idequeue) = idequeue[1]
         /\ ide = Request(Head(idequeue)) /\ ide # None
<1>1. idequeue \in Seq(Buf)
  BY Zenon DEF DiskInv, BufferInv, TypeOK
<1>2. Len(idequeue) > 0 /\ Head(idequeue) = idequeue[1] /\ 1 \in DOMAIN idequeue
  BY <1>1
<1> QED BY <1>2, Zenon DEF DiskInv, DriverInv, QueueIsServed, Range

\* A process waits for the disk to read or write b.
Unserved(b) == ~Finished(b) /\ \E p \in Proc : pc[p] \in Waiting /\ arg[p] = b

\* A step that keeps the queue and what is asked of the disk.
LEMMA QueueKept ==
  ASSUME DiskInv, UNCHANGED <<idequeue, ide, irq>>, \A b \in Buf : Unserved(b)' <=> Unserved(b),
         \A b \in Buf : Unserved(b) => /\ buf'[b].sector = buf[b].sector /\ buf'[b].dirty = buf[b].dirty
                                       /\ buf'[b].data = buf[b].data
  PROVE  QueueIsServed'
<1>1. Range(idequeue) = {b \in Buf : Unserved(b)}
  BY Zenon DEF DiskInv, DriverInv, QueueIsServed, Unserved
<1>2. Range(idequeue)' = {b \in Buf : Unserved(b)'}
  BY <1>1 DEF Range
<1>3. ide # None => ide = Request(Head(idequeue)) /\ Head(idequeue) \in {b \in Buf : Unserved(b)}
  BY <1>1, FirstRequest, Zenon DEF DiskInv, DriverInv, QueueIsServed
<1>4. ide # None => Request(Head(idequeue))' = Request(Head(idequeue))
  BY <1>3, Zenon DEF Request
<1> QED BY <1>2, <1>3, <1>4, Zenon DEF DiskInv, DriverInv, QueueIsServed, Unserved

-----------------------------------------------------------------------------
(* Steps that only move a process. *)

\* A step that leaves the buffers and the driver's queue alone, and moves no
\* process in or out of iderw() or of a change, keeps the invariants.
LEMMA MovedInv ==
  ASSUME DiskInv, UNCHANGED <<cache, idequeue, ide, irq, disk, held, arg, logged>>,
         idelock' \in Proc \cup {None}, trans' \in Proc \cup {None}, panicked' \in BOOLEAN,
         pc' \in [Proc -> PCs], want' \in [Proc -> Sector \cup {NoSector}],
         \A q \in Proc : \/ pc'[q] = pc[q] /\ want'[q] = want[q]
                         \/ pc[q] = "iowoken" /\ pc'[q] = "iowait"
                         \/ pc[q] = "run" /\ pc'[q] = "bget" /\ want'[q] # NoSector
                         \/ /\ pc[q] = "bget" /\ pc'[q] = "bsleep" /\ want'[q] = want[q]
                            /\ \E b \in Cached(want[q]) : buf[b].busy
  PROVE  DiskInv'
<1>1. TypeOK'
  BY DEF DiskInv, BufferInv, TypeOK, cache
<1>2. \A q \in Proc : (pc'[q] \in Loading <=> pc[q] \in Loading) /\ (pc'[q] \in Waiting <=> pc[q] \in Waiting)
                      /\ (pc'[q] = "changed" <=> pc[q] = "changed")
  BY Zenon DEF Loading, Waiting
<1>3. OneBuffer' /\ WrittenIsOnDisk'
  BY Zenon DEF DiskInv, BufferInv, DriverInv, OneBuffer, WrittenIsOnDisk, cache
<1>4. NoBufferLost'
  BY <1>2 DEF DiskInv, BufferInv, NoBufferLost, cache
<1>5. RequestIsSane'
  BY Zenon DEF DiskInv, BufferInv, RequestIsSane, cache, Finished
<1>6. HeldIsValid'
  BY <1>2, Zenon DEF DiskInv, BufferInv, HeldIsValid, cache
<1>7. CleanIsOnDisk'
  BY <1>2, Zenon DEF DiskInv, BufferInv, CleanIsOnDisk, cache
<1>8. QueueIsServed'
  BY <1>2 DEF DiskInv, DriverInv, QueueIsServed, cache, Finished, Request, Range
<1>9. NoLostWakeup'
  BY DEF DiskInv, DriverInv, NoLostWakeup, cache, Range, Cached
<1> QED BY <1>1, <1>3, <1>4, <1>5, <1>6, <1>7, <1>8, <1>9, Zenon DEF DiskInv, BufferInv, DriverInv

\* Asking for a sector, sleeping, waking and the ends of a transaction.
LEMMA WaitInv ==
  ASSUME DiskInv, NEW p \in Proc,
         \/ \E s \in Sector : Bread(p, s)
         \/ BgetSleep(p) \/ BgetPanic(p) \/ BeginTrans(p) \/ CommitTrans(p) \/ IderwWoken(p)
  PROVE  DiskInv'
<1>1. /\ pc \in [Proc -> PCs] /\ want \in [Proc -> Sector \cup {NoSector}] /\ panicked \in BOOLEAN
      /\ trans \in Proc \cup {None} /\ idelock \in Proc \cup {None}
  BY Zenon DEF DiskInv, BufferInv, TypeOK
<1>2. ASSUME NEW s \in Sector, Bread(p, s)
      PROVE  DiskInv'
  <2>1. \A q \in Proc : pc'[q] = (IF q = p THEN "bget" ELSE pc[q]) /\ want'[q] = (IF q = p THEN s ELSE want[q])
    BY <1>1, <1>2, Zenon DEF Bread, Goto
  <2>2. pc' \in [Proc -> PCs] /\ want' \in [Proc -> Sector \cup {NoSector}]
    BY <1>1, <1>2, Zenon DEF Bread, Goto, PCs
  <2>3. UNCHANGED <<cache, driver, held, arg, trans, logged, panicked>> /\ pc[p] = "run"
    BY <1>2, Zenon DEF Bread
  <2> QED BY <1>1, <2>1, <2>2, <2>3, Constants, MovedInv, Zenon DEF driver
<1>3. CASE BgetSleep(p)
  <2>1. \A q \in Proc : pc'[q] = (IF q = p THEN "bsleep" ELSE pc[q])
    BY <1>1, <1>3, Zenon DEF BgetSleep, Goto
  <2>2. pc' \in [Proc -> PCs]
    BY <1>1, <1>3, Zenon DEF BgetSleep, Goto, PCs
  <2>3. /\ UNCHANGED <<cache, driver, want, held, arg, trans, logged, panicked>> /\ pc[p] = "bget"
        /\ \E b \in Cached(want[p]) : buf[b].busy
    BY <1>3, Zenon DEF BgetSleep
  <2> QED BY <1>1, <2>1, <2>2, <2>3, MovedInv, Zenon DEF driver
<1>4. CASE IderwWoken(p)
  <2>1. \A q \in Proc : pc'[q] = (IF q = p THEN "iowait" ELSE pc[q])
    BY <1>1, <1>4, Zenon DEF IderwWoken, Goto
  <2>2. pc' \in [Proc -> PCs]
    BY <1>1, <1>4, Zenon DEF IderwWoken, Goto, PCs
  <2>3. /\ UNCHANGED <<cache, idequeue, ide, irq, disk, want, held, arg, trans, logged, panicked>>
        /\ pc[p] = "iowoken" /\ idelock' = p
    BY <1>4, Zenon DEF IderwWoken
  <2> QED BY <1>1, <2>1, <2>2, <2>3, MovedInv, Zenon
<1>5. CASE BgetPanic(p)
  BY <1>1, <1>5, MovedInv, Zenon DEF BgetPanic, driver, procs
<1>6. CASE BeginTrans(p)
  BY <1>1, <1>6, MovedInv, Zenon DEF BeginTrans, driver, procs
<1>7. CASE CommitTrans(p)
  BY <1>1, <1>7, MovedInv, Zenon DEF CommitTrans, driver, procs
<1> QED BY <1>2, <1>3, <1>4, <1>5, <1>6, <1>7, Zenon

-----------------------------------------------------------------------------
(* bio.c *)

\* bget() finds the sector cached.
LEMMA BgetHitInv ==
  ASSUME DiskInv, NEW p \in Proc, NEW b \in Buf, BgetHit(p, b)
  PROVE  DiskInv'
<1>1. /\ buf \in [Buf -> BufRec] /\ pc \in [Proc -> PCs] /\ want \in [Proc -> Sector \cup {NoSector}]
      /\ held \in [Proc -> SUBSET Buf] /\ arg \in [Proc -> Buf \cup {NoBuf}] /\ TypeOK
  BY Zenon DEF DiskInv, BufferInv, TypeOK, BufRec
<1>2. /\ pc[p] = "bget" /\ buf[b].sector = want[p] /\ want[p] # NoSector /\ ~buf[b].busy
      /\ UNCHANGED <<mru, driver, trans, logged, panicked>>
  BY Zenon DEF BgetHit, Cached, DiskInv, BufferInv, HeldIsValid
<1>3. /\ buf' \in [Buf -> BufRec]
      /\ \A c \in Buf : /\ buf'[c].sector = buf[c].sector /\ buf'[c].data = buf[c].data
                        /\ (buf'[c].valid <=> buf[c].valid) /\ (buf'[c].dirty <=> buf[c].dirty)
                        /\ (buf'[c].busy <=> (c = b \/ buf[c].busy))
  <2>1. buf' = [buf EXCEPT ![b].busy = TRUE]
    BY Zenon DEF BgetHit
  <2>2. buf[b] \in BufRec /\ DOMAIN buf' = Buf /\ \A c \in Buf : c # b => buf'[c] = buf[c]
    BY <1>1, <2>1, Zenon
  <2>3. buf'[b] = [buf[b] EXCEPT !.busy = TRUE]
    BY <1>1, <2>1, Zenon DEF BufRec
  <2>4. buf'[b] \in BufRec
    BY <2>2, <2>3, Zenon DEF BufRec
  <2>5. /\ buf'[b].sector = buf[b].sector /\ buf'[b].data = buf[b].data
        /\ (buf'[b].valid <=> buf[b].valid) /\ (buf'[b].dirty <=> buf[b].dirty) /\ buf'[b].busy = TRUE
    BY <2>2, <2>3 DEF BufRec
  <2>6. buf' \in [Buf -> BufRec]
    BY <1>1, <2>1, <2>2, <2>4, Zenon
  <2> QED BY <2>2, <2>5, <2>6, Zenon
<1>4. /\ held' \in [Proc -> SUBSET Buf] /\ want' \in [Proc -> Sector \cup {NoSector}]
      /\ \A q \in Proc : /\ held'[q] = (IF q = p THEN held[q] \cup {b} ELSE held[q])
                         /\ want'[q] = (IF q = p THEN NoSector ELSE want[q])
  BY <1>1, Zenon DEF BgetHit, Got
<1>5. /\ pc' \in [Proc -> PCs] /\ arg' \in [Proc -> Buf \cup {NoBuf}]
      /\ \A q \in Proc : /\ pc'[q] = (IF q # p THEN pc[q] ELSE IF buf[b].valid THEN "run" ELSE "iderw")
                         /\ arg'[q] = (IF q # p THEN arg[q] ELSE IF buf[b].valid THEN NoBuf ELSE b)
  BY <1>1, Zenon DEF BgetHit, Goto, With, PCs
<1>6. TypeOK'
  BY <1>1, <1>2, <1>3, <1>4, <1>5 DEF TypeOK, driver, BufRec
<1>7. OneBuffer'
  BY <1>3 DEF DiskInv, BufferInv, OneBuffer
<1>8. \A q \in Proc : b \notin held[q]
  BY <1>2, Zenon DEF DiskInv, BufferInv, NoBufferLost
<1>9. NoBufferLost'
  <2>1. \A c \in Buf : buf'[c].busy <=> \E q \in Proc : c \in held'[q]
    BY <1>3, <1>4, <1>8 DEF DiskInv, BufferInv, NoBufferLost
  <2>2. \A c \in Buf : buf'[c].dirty => buf'[c].sector \in logged' \/ \E q \in Proc : pc'[q] \in Loading /\ arg'[q] = c
    BY <1>2, <1>3, <1>5 DEF DiskInv, BufferInv, NoBufferLost, Loading, Waiting
  <2>3. \A q, r \in Proc : q # r => held'[q] \cap held'[r] = {}
    BY <1>4, <1>8 DEF DiskInv, BufferInv, NoBufferLost
  <2> QED BY <2>1, <2>2, <2>3, Zenon DEF NoBufferLost
<1>10. RequestIsSane'
  <2>1. \A q \in Proc : pc[q] = "iderw" => arg[q] \in Buf
    BY <1>1, Zenon DEF DiskInv, BufferInv, HeldIsValid, Loading
  <2> QED BY <1>3, <1>5, <2>1 DEF DiskInv, BufferInv, RequestIsSane, Finished
<1>11. HeldIsValid'
  <2>1. \A q \in Proc : /\ pc'[q] \in {"bget", "bsleep"} => want'[q] # NoSector
                        /\ pc'[q] \in Loading \cup {"changed"} => arg'[q] \in held'[q]
    BY <1>2, <1>4, <1>5 DEF DiskInv, BufferInv, HeldIsValid, Loading, Waiting
  <2>2. \A q \in Proc : \A c \in held[q] :
           buf'[c].sector # NoSector /\ (buf'[c].valid \/ (pc'[q] \in Loading /\ arg'[q] = c))
    BY <1>1, <1>2, <1>3, <1>5 DEF DiskInv, BufferInv, HeldIsValid, Loading, Waiting
  <2>3. buf'[b].sector # NoSector /\ (buf'[b].valid \/ (pc'[p] \in Loading /\ arg'[p] = b))
    BY <1>2, <1>3, <1>5, Zenon DEF Loading
  <2> QED BY <1>4, <2>1, <2>2, <2>3 DEF HeldIsValid
<1>12. CleanIsOnDisk'
  BY <1>2, <1>3, <1>5 DEF DiskInv, BufferInv, CleanIsOnDisk, driver
<1>13. QueueIsServed'
  <2>1. \A c \in Buf : buf'[c].dirty = buf[c].dirty
    BY <1>1, Zenon DEF BgetHit, BufRec
  <2>2. \A c \in Buf : Finished(c)' <=> Finished(c)
    BY <1>3, Zenon DEF Finished
  <2>3. \A q \in Proc : /\ pc'[q] \in Waiting <=> pc[q] \in Waiting
                        /\ pc[q] \in Waiting => arg'[q] = arg[q]
    BY <1>2, <1>5, Zenon DEF Waiting
  <2>4. \A c \in Buf : Unserved(c)' <=> Unserved(c)
    BY <2>2, <2>3, Zenon DEF Unserved
  <2> QED BY <1>2, <1>3, <2>1, <2>4, QueueKept, Zenon DEF driver
<1>14. NoLostWakeup' /\ WrittenIsOnDisk'
  <2>1. \A q \in Proc : pc'[q] = "bsleep" => \E c \in Cached(want[q]) : buf'[c].busy
    BY <1>3, <1>5 DEF DiskInv, DriverInv, NoLostWakeup, Cached
  <2>2. \A q \in Proc : pc'[q] = "bsleep" => \E c \in Buf : buf'[c].sector = want'[q] /\ buf'[c].busy
    BY <1>3, <1>4, <1>5, <2>1 DEF Cached
  <2>3. \A q \in Proc : pc'[q] = "iosleep" => arg'[q] \in Range(idequeue)
    BY <1>5 DEF DiskInv, DriverInv, NoLostWakeup
  <2> QED BY <1>2, <2>2, <2>3 DEF DiskInv, DriverInv, NoLostWakeup, WrittenIsOnDisk, driver, Cached, Range
<1> QED BY <1>6, <1>7, <1>9, <1>10, <1>11, <1>12, <1>13, <1>14, Zenon DEF DiskInv, BufferInv, DriverInv

\* bget() recycles a buffer.
LEMMA BgetRecycleInv ==
  ASSUME DiskInv, NEW p \in Proc, NEW i \in Buf, BgetRecycle(p, i)
  PROVE  DiskInv'
<1> DEFINE b == mru[i]
<1>1. /\ buf \in [Buf -> BufRec] /\ pc \in [Proc -> PCs] /\ want \in [Proc -> Sector \cup {NoSector}]
      /\ held \in [Proc -> SUBSET Buf] /\ arg \in [Proc -> Buf \cup {NoBuf}] /\ TypeOK
  BY Zenon DEF DiskInv, BufferInv, TypeOK, BufRec
<1>2. /\ pc[p] = "bget" /\ Cached(want[p]) = {} /\ want[p] # NoSector /\ want[p] \in Sector
      /\ b \in Buf /\ ~buf[b].busy /\ ~buf[b].dirty
      /\ UNCHANGED <<mru, driver, trans, logged, panicked>>
  BY <1>1 DEF BgetRecycle, Victim, Recyclable, DiskInv, BufferInv, HeldIsValid, TypeOK
<1>3. /\ buf' \in [Buf -> BufRec]
      /\ \A c \in Buf : c # b => buf'[c] = buf[c]
      /\ buf'[b].sector = want[p] /\ buf'[b].busy /\ ~buf'[b].valid /\ ~buf'[b].dirty
  BY <1>1, <1>2, Zenon DEF BgetRecycle, BufRec
<1>4. /\ held' \in [Proc -> SUBSET Buf] /\ want' \in [Proc -> Sector \cup {NoSector}]
      /\ \A q \in Proc : /\ held'[q] = (IF q = p THEN held[q] \cup {b} ELSE held[q])
                         /\ want'[q] = (IF q = p THEN NoSector ELSE want[q])
  BY <1>1, <1>2, Zenon DEF BgetRecycle, Got
<1>5. /\ pc' \in [Proc -> PCs] /\ arg' \in [Proc -> Buf \cup {NoBuf}]
      /\ \A q \in Proc : /\ pc'[q] = (IF q = p THEN "iderw" ELSE pc[q])
                         /\ arg'[q] = (IF q = p THEN b ELSE arg[q])
  BY <1>1, <1>2, Zenon DEF BgetRecycle, Goto, With, PCs
<1> HIDE DEF b
<1>6. TypeOK'
  BY <1>1, <1>2, <1>3, <1>4, <1>5, Zenon DEF TypeOK, driver, BufRec
<1>7. OneBuffer'
  BY <1>2, <1>3 DEF DiskInv, BufferInv, OneBuffer, Cached
<1>8. \A q \in Proc : b \notin held[q]
  BY <1>2, Zenon DEF DiskInv, BufferInv, NoBufferLost
<1>9. NoBufferLost'
  <2>1. \A c \in Buf : buf'[c].busy <=> \E q \in Proc : c \in held'[q]
    BY <1>3, <1>4, <1>8 DEF DiskInv, BufferInv, NoBufferLost
  <2>2. \A c \in Buf : buf'[c].dirty => buf'[c].sector \in logged' \/ \E q \in Proc : pc'[q] \in Loading /\ arg'[q] = c
    BY <1>2, <1>3, <1>5 DEF DiskInv, BufferInv, NoBufferLost, Loading, Waiting
  <2>3. \A q, r \in Proc : q # r => held'[q] \cap held'[r] = {}
    BY <1>4, <1>8 DEF DiskInv, BufferInv, NoBufferLost
  <2> QED BY <2>1, <2>2, <2>3, Zenon DEF NoBufferLost
<1>10. \A q \in Proc : pc[q] \in Loading \cup {"changed"} => arg[q] \in Buf /\ arg[q] # b
  BY <1>1, <1>8, Zenon DEF DiskInv, BufferInv, HeldIsValid
<1>11. RequestIsSane'
  BY <1>2, <1>3, <1>5, <1>10 DEF DiskInv, BufferInv, RequestIsSane, Finished, Loading
<1>12. HeldIsValid'
  <2>1. \A q \in Proc : /\ pc'[q] \in {"bget", "bsleep"} => want'[q] # NoSector
                        /\ pc'[q] \in Loading \cup {"changed"} => arg'[q] \in held'[q]
    BY <1>2, <1>4, <1>5 DEF DiskInv, BufferInv, HeldIsValid, Loading, Waiting
  <2>2. \A q \in Proc : \A c \in held[q] :
           buf'[c].sector # NoSector /\ (buf'[c].valid \/ (pc'[q] \in Loading /\ arg'[q] = c))
    BY <1>1, <1>2, <1>3, <1>5, <1>8 DEF DiskInv, BufferInv, HeldIsValid, Loading, Waiting
  <2>3. buf'[b].sector # NoSector /\ (buf'[b].valid \/ (pc'[p] \in Loading /\ arg'[p] = b))
    BY <1>2, <1>3, <1>5, Zenon DEF Loading
  <2> QED BY <1>4, <2>1, <2>2, <2>3 DEF HeldIsValid
<1>13. CleanIsOnDisk'
  BY <1>2, <1>3, <1>5 DEF DiskInv, BufferInv, CleanIsOnDisk, driver
<1>14. QueueIsServed'
  <2>1. \A c \in Buf : Unserved(c) => c # b
    BY <1>10, Zenon DEF Unserved, Loading
  <2>2. \A c \in Buf : Unserved(c)' <=> Unserved(c)
    BY <1>2, <1>3, <1>5, <1>10 DEF Unserved, Finished, Loading, Waiting
  <2> QED BY <1>2, <1>3, <2>1, <2>2, QueueKept, Zenon DEF driver
<1>15. NoLostWakeup' /\ WrittenIsOnDisk'
  <2>1. \A q \in Proc : pc'[q] = "bsleep" => \E c \in Buf : buf'[c].sector = want'[q] /\ buf'[c].busy
    BY <1>2, <1>3, <1>4, <1>5 DEF DiskInv, DriverInv, NoLostWakeup, Cached
  <2>2. \A q \in Proc : pc'[q] = "iosleep" => arg'[q] \in Range(idequeue)
    BY <1>5, Zenon DEF DiskInv, DriverInv, NoLostWakeup
  <2> QED BY <1>2, <2>1, <2>2 DEF DiskInv, DriverInv, NoLostWakeup, WrittenIsOnDisk, driver, Cached, Range
<1> QED BY <1>6, <1>7, <1>9, <1>11, <1>12, <1>13, <1>14, <1>15, Zenon DEF DiskInv, BufferInv, DriverInv

\* The caller changes a buffer, or marks it dirty for the log or for bwrite().
LEMMA UpdateInv ==
  ASSUME DiskInv, NEW p \in Proc, NEW b \in Buf,
         (\E d \in Data : Change(p, b, d)) \/ Bwrite(p, b) \/ Pin(p, b)
  PROVE  DiskInv'
<1>1. /\ buf \in [Buf -> BufRec] /\ pc \in [Proc -> PCs] /\ arg \in [Proc -> Buf \cup {NoBuf}] /\ TypeOK
      /\ held \in [Proc -> SUBSET Buf]
  BY Zenon DEF DiskInv, BufferInv, TypeOK, BufRec
<1>2. /\ pc[p] = "run" \/ (pc[p] = "changed" /\ arg[p] = b)
      /\ UNCHANGED <<mru, driver, want, held, trans, panicked>>
  BY Zenon DEF Change, Bwrite, Pin
<1>3. b \in held[p]
  BY Zenon DEF Change, Bwrite, Pin, DiskInv, BufferInv, HeldIsValid
<1>4. buf[b].sector \in Sector /\ buf[b].busy /\ \A q \in Proc : b \in held[q] => q = p
  BY <1>3, HeldBuffer, Zenon
<1>5. buf[b].valid
  BY <1>2, <1>3, Zenon DEF DiskInv, BufferInv, HeldIsValid, Loading, Waiting
<1>6. /\ buf' \in [Buf -> BufRec]
      /\ \A c \in Buf : c # b => buf'[c] = buf[c]
      /\ buf'[b].sector = buf[b].sector /\ buf'[b].busy /\ buf'[b].valid
  <2>1. CASE buf' = [buf EXCEPT ![b].dirty = TRUE]
    BY <1>1, <1>4, <1>5, <2>1, Zenon DEF BufRec
  <2>2. ASSUME NEW d \in Data, buf' = [buf EXCEPT ![b].data = d]
        PROVE  /\ buf' \in [Buf -> BufRec]
               /\ \A c \in Buf : c # b => buf'[c] = buf[c]
               /\ buf'[b].sector = buf[b].sector /\ buf'[b].busy /\ buf'[b].valid
    BY <1>1, <1>4, <1>5, <2>2 DEF BufRec
  <2> QED BY <2>1, <2>2, Zenon DEF Change, Bwrite, Pin
<1>7. PICK l \in {"changed", "iderw", "run"} :
        /\ pc' = [pc EXCEPT ![p] = l] /\ arg' = [arg EXCEPT ![p] = IF l = "run" THEN NoBuf ELSE b]
        /\ l = "changed" => logged' = logged /\ (buf'[b].dirty <=> buf[b].dirty)
        /\ l = "iderw" => logged' = logged \ {buf[b].sector} /\ buf'[b].dirty
        /\ l = "run" => logged' = logged \cup {buf[b].sector} /\ buf'[b].dirty
  BY <1>1 DEF Change, Bwrite, Pin, Goto, With, BufRec
<1>8. /\ pc' \in [Proc -> PCs] /\ arg' \in [Proc -> Buf \cup {NoBuf}]
      /\ pc'[p] = l /\ \A q \in Proc : q # p => pc'[q] = pc[q] /\ arg'[q] = arg[q]
      /\ l # "run" => arg'[p] = b
  BY <1>1, <1>7, Zenon DEF PCs
<1>9. TypeOK'
  <2>1. logged' \subseteq Sector
    BY <1>1, <1>4, <1>7 DEF TypeOK
  <2> QED BY <1>1, <1>2, <1>6, <1>8, <2>1, Zenon DEF TypeOK, driver, BufRec
<1>10. OneBuffer'
  BY <1>6 DEF DiskInv, BufferInv, OneBuffer
<1>11. \A q \in Proc : q # p /\ pc[q] \in Loading \cup {"changed"} => arg[q] \in Buf /\ arg[q] # b
  BY <1>1, <1>4, Zenon DEF DiskInv, BufferInv, HeldIsValid
<1>12. NoBufferLost'
  <2>1. \A c \in Buf : buf'[c].busy <=> \E q \in Proc : c \in held[q]
    BY <1>3, <1>6, Zenon DEF DiskInv, BufferInv, NoBufferLost
  <2>2. ASSUME NEW c \in Buf, c # b, buf'[c].dirty
        PROVE  buf'[c].sector \in logged' \/ \E q \in Proc : pc'[q] \in Loading /\ arg'[q] = c
    <3>1. buf[c].sector \in logged \/ \E q \in Proc : q # p /\ pc[q] \in Loading /\ arg[q] = c
      BY <1>2, <1>6, <2>2, Zenon DEF DiskInv, BufferInv, NoBufferLost, Loading, Waiting
    <3>2. buf[c].sector # buf[b].sector
      BY <1>4, <2>2, Constants, Zenon DEF DiskInv, BufferInv, OneBuffer
    <3> QED BY <1>6, <1>7, <1>8, <2>2, <3>1, <3>2
  <2>3. buf'[b].dirty => buf'[b].sector \in logged' \/ \E q \in Proc : pc'[q] \in Loading /\ arg'[q] = b
    <3>1. CASE l = "changed"
      <4>1. buf[b].dirty => buf[b].sector \in logged
        BY <1>2, <1>11, Zenon DEF DiskInv, BufferInv, NoBufferLost, Loading, Waiting
      <4> QED BY <1>6, <1>7, <3>1, <4>1, Zenon
    <3>2. CASE l = "iderw"
      BY <1>8, <3>2, Zenon DEF Loading
    <3>3. CASE l = "run"
      BY <1>6, <1>7, <3>3, Zenon
    <3> QED BY <1>7, <3>1, <3>2, <3>3, Zenon
  <2> QED BY <1>2, <2>1, <2>2, <2>3, Zenon DEF DiskInv, BufferInv, NoBufferLost
<1>13. RequestIsSane'
  <2>1. pc'[p] = "iderw" => buf'[b].busy /\ ~(buf'[b].valid /\ ~buf'[b].dirty) /\ arg'[p] = b
    BY <1>6, <1>7, <1>8, Zenon
  <2>2. \A q \in Proc : q # p /\ pc[q] = "iderw" => arg[q] \in Buf /\ arg[q] # b
    BY <1>11, Zenon DEF Loading
  <2> QED BY <1>6, <1>8, <2>1, <2>2 DEF DiskInv, BufferInv, RequestIsSane, Finished
<1>14. HeldIsValid'
  <2>1. pc'[p] \in Loading \cup {"changed"} => arg'[p] \in held[p]
    BY <1>3, <1>8, Zenon DEF Loading, Waiting
  <2>2. \A c \in held[p] : buf'[c].sector # NoSector /\ buf'[c].valid
    <3>1. pc[p] \notin Loading
      BY <1>2, Zenon DEF Loading, Waiting
    <3>2. \A c \in held[p] : c \in Buf /\ buf[c].sector # NoSector /\ buf[c].valid
      BY <1>1, <3>1, Zenon DEF DiskInv, BufferInv, HeldIsValid
    <3> QED BY <1>3, <1>6, <3>2, Zenon
  <2>3. \A q \in Proc : q # p => \A c \in held[q] : c \in Buf /\ buf'[c] = buf[c]
    BY <1>1, <1>4, <1>6, Zenon DEF TypeOK
  <2>4. pc'[p] \notin {"bget", "bsleep"}
    BY <1>8, Zenon
  <2> QED BY <1>2, <1>8, <2>1, <2>2, <2>3, <2>4 DEF DiskInv, BufferInv, HeldIsValid
<1>15. CleanIsOnDisk'
  <2>1. \A c \in Buf : c # b /\ (\E q \in Proc : pc[q] = "changed" /\ arg[q] = c)
                                  => \E q \in Proc : pc'[q] = "changed" /\ arg'[q] = c
    BY <1>2, <1>8, Zenon
  <2>2. buf'[b].dirty \/ (pc'[p] = "changed" /\ arg'[p] = b)
    BY <1>7, <1>8, Zenon
  <2> QED BY <1>2, <1>4, <1>6, <2>1, <2>2, Constants DEF DiskInv, BufferInv, CleanIsOnDisk, driver
<1>16. QueueIsServed'
  <2>1. \A c \in Buf : Unserved(c) => c # b
    BY <1>2, <1>11, Zenon DEF Unserved, Loading, Waiting
  <2>2. \A c \in Buf : Unserved(c)' <=> Unserved(c)
    BY <1>2, <1>6, <1>8, <1>11 DEF Unserved, Finished, Loading, Waiting
  <2> QED BY <1>2, <1>6, <2>1, <2>2, QueueKept, Zenon DEF driver
<1>17. NoLostWakeup' /\ WrittenIsOnDisk'
  <2>1. \A q \in Proc : pc'[q] = "bsleep" => pc[q] = "bsleep"
    BY <1>8, Zenon
  <2>2. \A q \in Proc : pc'[q] = "bsleep" => \E c \in Buf : buf'[c].sector = want[q] /\ buf'[c].busy
    BY <1>6, <2>1 DEF DiskInv, DriverInv, NoLostWakeup, Cached
  <2>3. \A q \in Proc : pc'[q] = "iosleep" => arg'[q] \in Range(idequeue)
    BY <1>8, Zenon DEF DiskInv, DriverInv, NoLostWakeup
  <2> QED BY <1>2, <2>2, <2>3 DEF DiskInv, DriverInv, NoLostWakeup, WrittenIsOnDisk, driver, Cached, Range
<1> QED BY <1>9, <1>10, <1>12, <1>13, <1>14, <1>15, <1>16, <1>17, Zenon DEF DiskInv, BufferInv, DriverInv

\* brelse()
LEMMA BrelseInv ==
  ASSUME DiskInv, NEW p \in Proc, NEW i \in Buf, Brelse(p, i)
  PROVE  DiskInv'
<1> DEFINE b == mru[i]
<1>1. /\ buf \in [Buf -> BufRec] /\ pc \in [Proc -> PCs] /\ held \in [Proc -> SUBSET Buf] /\ TypeOK
      /\ mru \in [Buf -> Buf]
  BY Zenon DEF DiskInv, BufferInv, TypeOK, BufRec
<1>2. /\ pc[p] = "run" /\ b \in held[p] /\ b \in Buf
      /\ UNCHANGED <<driver, want, arg, trans, logged, panicked>>
  BY <1>1, Zenon DEF Brelse
<1>3. buf[b].sector \in Sector /\ \A q \in Proc : b \in held[q] => q = p
  BY <1>2, HeldBuffer, Zenon
<1>4. /\ buf' \in [Buf -> BufRec]
      /\ \A c \in Buf : /\ buf'[c].sector = buf[c].sector /\ buf'[c].data = buf[c].data
                        /\ (buf'[c].valid <=> buf[c].valid) /\ (buf'[c].dirty <=> buf[c].dirty)
                        /\ (buf'[c].busy <=> (c # b /\ buf[c].busy))
  <2>1. buf' = [buf EXCEPT ![b].busy = FALSE]
    BY Zenon DEF Brelse
  <2> HIDE DEF b
  <2>2. buf[b] \in BufRec /\ DOMAIN buf' = Buf /\ \A c \in Buf : c # b => buf'[c] = buf[c]
    BY <1>1, <1>2, <2>1, Zenon
  <2>3. buf'[b] = [buf[b] EXCEPT !.busy = FALSE]
    BY <1>1, <1>2, <2>1, Zenon DEF BufRec
  <2>4. buf'[b] \in BufRec
    BY <2>2, <2>3, Zenon DEF BufRec
  <2>5. /\ buf'[b].sector = buf[b].sector /\ buf'[b].data = buf[b].data
        /\ (buf'[b].valid <=> buf[b].valid) /\ (buf'[b].dirty <=> buf[b].dirty) /\ buf'[b].busy = FALSE
    BY <2>2, <2>3 DEF BufRec
  <2>6. buf' \in [Buf -> BufRec]
    BY <1>1, <1>2, <2>1, <2>2, <2>4, Zenon
  <2> QED BY <2>2, <2>5, <2>6, Zenon
<1>5. /\ held' \in [Proc -> SUBSET Buf]
      /\ \A q \in Proc : held'[q] = (IF q = p THEN held[q] \ {b} ELSE held[q])
  BY <1>1, <1>2, Zenon DEF Brelse
<1>6. \A q \in Proc : pc[q] \in Loading \cup {"changed"} => arg[q] \in Buf /\ arg[q] # b
  BY <1>1, <1>2, <1>3, Zenon DEF DiskInv, BufferInv, HeldIsValid, Loading, Waiting
<1>7. /\ pc' \in [Proc -> PCs]
      /\ \A q \in Proc : pc'[q] = IF pc[q] = "bsleep" /\ want[q] = buf[b].sector THEN "bget" ELSE pc[q]
  <2>1. \A q \in Proc : ~(pc[q] = "iosleep" /\ arg[q] = b)
    BY <1>6, Zenon DEF Loading, Waiting
  <2>2. pc' = [q \in Proc |-> IF pc[q] = "bsleep" /\ want[q] = buf[b].sector THEN "bget" ELSE pc[q]]
    BY <2>1, Zenon DEF Brelse, Wake
  <2> QED BY <1>1, <2>2, Zenon DEF PCs
<1>8. \A q \in Proc : /\ pc'[q] \in Loading <=> pc[q] \in Loading
                      /\ pc'[q] \in Waiting <=> pc[q] \in Waiting
                      /\ pc'[q] = "changed" <=> pc[q] = "changed"
                      /\ pc'[q] = "iderw" <=> pc[q] = "iderw"
                      /\ pc'[q] = "iosleep" <=> pc[q] = "iosleep"
  BY <1>7, Zenon DEF Loading, Waiting
<1>9. mru' \in [Buf -> Buf] /\ \A c \in Buf : \E j \in Buf : mru'[j] = c
  <2>1. \A j \in Buf : /\ j <= i /\ j # 1 => j - 1 \in Buf
                       /\ j < i => j + 1 \in Buf /\ j + 1 # 1 /\ j + 1 <= i /\ (j + 1) - 1 = j
                       /\ j > i => j # 1 /\ ~(j <= i)
                       /\ j = i \/ j < i \/ j > i
    BY DiskAssumption DEF Buf
  <2>2. mru' = [j \in Buf |-> IF j = 1 THEN mru[i] ELSE IF j <= i THEN mru[j - 1] ELSE mru[j]] /\ 1 \in Buf
    BY DiskAssumption DEF Brelse, ToFront, Buf
  <2>3. mru' \in [Buf -> Buf]
    BY <1>1, <2>1, <2>2, Zenon
  <2>4. ASSUME NEW c \in Buf
        PROVE  \E j \in Buf : mru'[j] = c
    <3>1. PICK k \in Buf : mru[k] = c
      BY <1>1, Zenon DEF TypeOK
    <3>2. CASE k = i
      BY <2>2, <3>1, <3>2, Zenon
    <3>3. CASE k < i
      <4>1. k + 1 \in Buf /\ mru'[k + 1] = c
        BY <2>1, <2>2, <3>1, <3>3, Zenon
      <4> QED BY <4>1, Zenon
    <3>4. CASE k > i
      BY <2>1, <2>2, <3>1, <3>4, Zenon
    <3> QED BY <2>1, <3>2, <3>3, <3>4, Zenon
  <2> QED BY <2>3, <2>4, Zenon
<1> HIDE DEF b
<1>10. TypeOK'
  BY <1>1, <1>2, <1>4, <1>5, <1>7, <1>9, Zenon DEF TypeOK, driver, BufRec
<1>11. OneBuffer'
  BY <1>4 DEF DiskInv, BufferInv, OneBuffer
<1>12. NoBufferLost'
  <2>1. \A c \in Buf : buf'[c].busy <=> \E q \in Proc : c \in held'[q]
    BY <1>2, <1>3, <1>4, <1>5 DEF DiskInv, BufferInv, NoBufferLost
  <2>2. \A c \in Buf : buf'[c].dirty => buf'[c].sector \in logged' \/ \E q \in Proc : pc'[q] \in Loading /\ arg'[q] = c
    BY <1>2, <1>4, <1>8 DEF DiskInv, BufferInv, NoBufferLost
  <2>3. \A q, r \in Proc : q # r => held'[q] \cap held'[r] = {}
    BY <1>5, Zenon DEF DiskInv, BufferInv, NoBufferLost
  <2> QED BY <2>1, <2>2, <2>3, Zenon DEF NoBufferLost
<1>13. RequestIsSane'
  BY <1>2, <1>4, <1>6, <1>8 DEF DiskInv, BufferInv, RequestIsSane, Finished, Loading
<1>14. HeldIsValid'
  <2>1. \A q \in Proc : /\ pc'[q] \in {"bget", "bsleep"} => want'[q] # NoSector
                        /\ pc'[q] \in Loading \cup {"changed"} => arg'[q] \in held'[q]
    BY <1>2, <1>5, <1>6, <1>7, <1>8 DEF DiskInv, BufferInv, HeldIsValid
  <2>2. \A q \in Proc : \A c \in held'[q] : c \in Buf /\ c \in held[q]
    BY <1>1, <1>5, Zenon
  <2>3. \A q \in Proc : \A c \in held'[q] :
           buf'[c].sector # NoSector /\ (buf'[c].valid \/ (pc'[q] \in Loading /\ arg'[q] = c))
    BY <1>2, <1>4, <1>8, <2>2 DEF DiskInv, BufferInv, HeldIsValid
  <2> QED BY <2>1, <2>3, Zenon DEF HeldIsValid
<1>15. CleanIsOnDisk'
  BY <1>2, <1>4, <1>8 DEF DiskInv, BufferInv, CleanIsOnDisk, driver
<1>16. QueueIsServed'
  <2>1. \A c \in Buf : buf'[c].dirty = buf[c].dirty
    BY <1>1, <1>2, Zenon DEF Brelse, BufRec
  <2>2. \A c \in Buf : Unserved(c)' <=> Unserved(c)
    BY <1>2, <1>4, <1>8, Zenon DEF Unserved, Finished
  <2> QED BY <1>2, <1>4, <2>1, <2>2, QueueKept, Zenon DEF driver
<1>17. NoLostWakeup' /\ WrittenIsOnDisk'
  <2>1. \A q \in Proc : pc'[q] = "bsleep" => \E c \in Buf : buf'[c].sector = want'[q] /\ buf'[c].busy
    BY <1>2, <1>4, <1>7 DEF DiskInv, DriverInv, NoLostWakeup, Cached
  <2>2. \A q \in Proc : pc'[q] = "iosleep" => arg[q] \in Range(idequeue)
    BY <1>8, Zenon DEF DiskInv, DriverInv, NoLostWakeup
  <2> QED BY <1>2, <2>1, <2>2 DEF DiskInv, DriverInv, NoLostWakeup, WrittenIsOnDisk, driver, Cached, Range
<1> QED BY <1>10, <1>11, <1>12, <1>13, <1>14, <1>15, <1>16, <1>17, Zenon DEF DiskInv, BufferInv, DriverInv

-----------------------------------------------------------------------------
(* ide.c *)

\* What is asked of the disk is a request.
LEMMA RequestType ==
  ASSUME DiskInv, NEW p \in Proc, NEW b \in held[p]
  PROVE  /\ Request(b) \in [sector : Sector, write : BOOLEAN, data : Data] /\ Request(b) # None
         /\ Request(b).sector = buf[b].sector /\ Request(b).data = buf[b].data
         /\ (Request(b).write <=> buf[b].dirty)
<1>1. buf[b] \in BufRec /\ buf[b].sector \in Sector
  BY HeldBuffer, Zenon
<1>2. Request(b) \in [sector : Sector, write : BOOLEAN, data : Data]
  BY <1>1, Zenon DEF Request, BufRec
<1> QED BY <1>2, Constants, Zenon DEF Request

\* iderw() queues a request.
LEMMA IderwInv ==
  ASSUME DiskInv, NEW p \in Proc, Iderw(p)
  PROVE  DiskInv'
<1> DEFINE b == arg[p]
<1>1. pc \in [Proc -> PCs] /\ idequeue \in Seq(Buf) /\ TypeOK
  BY Zenon DEF DiskInv, BufferInv, TypeOK
<1>2. /\ pc[p] = "iderw" /\ idequeue' = Append(idequeue, b) /\ idelock' = p
      /\ ide' = (IF idequeue = <<>> THEN Request(b) ELSE ide)
      /\ UNCHANGED <<cache, irq, disk, want, held, arg, trans, logged, panicked>>
  BY Zenon DEF Iderw
<1>3. b \in held[p] /\ b \in Buf /\ ~Finished(b) /\ \A q \in Proc : b \in held[q] => q = p
  BY <1>2, HeldBuffer, Zenon DEF DiskInv, BufferInv, HeldIsValid, RequestIsSane, Loading
<1>4. Request(b) \in [sector : Sector, write : BOOLEAN, data : Data] /\ Request(b) # None
  BY <1>3, RequestType, Zenon
<1>5. pc' \in [Proc -> PCs] /\ pc'[p] = "iowait" /\ \A q \in Proc : q # p => pc'[q] = pc[q]
  BY <1>1, Zenon DEF Iderw, Goto, PCs
<1> HIDE DEF b
<1>6. b \notin Range(idequeue)
  BY <1>2, <1>3, QueuedBuffer, Zenon DEF Waiting
<1>7. /\ idequeue' \in Seq(Buf) /\ Range(idequeue') = Range(idequeue) \cup {b} /\ idequeue' # <<>>
      /\ Head(idequeue') = (IF idequeue = <<>> THEN b ELSE Head(idequeue))
      /\ \A i, j \in 1 .. Len(idequeue') : idequeue'[i] = idequeue'[j] => i = j
  <2>1. Len(idequeue) \in Nat /\ DOMAIN idequeue = 1 .. Len(idequeue)
    BY <1>1
  <2>2. /\ idequeue' \in Seq(Buf) /\ Len(idequeue') = Len(idequeue) + 1 /\ idequeue' # <<>>
        /\ DOMAIN idequeue' = 1 .. (Len(idequeue) + 1)
        /\ idequeue'[Len(idequeue) + 1] = b /\ \A i \in 1 .. Len(idequeue) : idequeue'[i] = idequeue[i]
    BY <1>1, <1>2, <1>3
  <2>3. \A i \in 1 .. Len(idequeue) : idequeue'[i] # b
    BY <1>6, <2>1, <2>2, Zenon DEF Range
  <2>4. \A i, j \in 1 .. Len(idequeue') : idequeue'[i] = idequeue'[j] => i = j
    <3> SUFFICES ASSUME NEW i \in 1 .. Len(idequeue'), NEW j \in 1 .. Len(idequeue'), idequeue'[i] = idequeue'[j]
                 PROVE  i = j
      BY Zenon
    <3>1. \A k \in 1 .. Len(idequeue') : k \in 1 .. Len(idequeue) \/ k = Len(idequeue) + 1
      BY <2>1, <2>2
    <3>2. CASE i \in 1 .. Len(idequeue) /\ j \in 1 .. Len(idequeue)
      BY <1>1, <2>2, <3>2, Zenon DEF TypeOK
    <3> QED BY <2>2, <2>3, <3>1, <3>2, Zenon
  <2>5. Range(idequeue') = Range(idequeue) \cup {b}
    BY <2>1, <2>2 DEF Range
  <2>6. CASE idequeue = <<>>
    BY <1>2, <2>2, <2>4, <2>5, <2>6
  <2>7. CASE idequeue # <<>>
    <3>1. 1 \in 1 .. Len(idequeue) /\ Head(idequeue) = idequeue[1]
      BY <1>1, <2>7
    <3> QED BY <2>2, <2>4, <2>5, <2>7, <3>1
  <2> QED BY <2>6, <2>7, Zenon
<1>8. TypeOK'
  BY <1>1, <1>2, <1>4, <1>5, <1>7 DEF TypeOK, cache
<1>9. \A q \in Proc : /\ pc'[q] \in Loading <=> pc[q] \in Loading
                      /\ pc'[q] = "changed" <=> pc[q] = "changed"
                      /\ pc'[q] = "iderw" => pc[q] = "iderw"
                      /\ pc'[q] \in {"bget", "bsleep"} <=> pc[q] \in {"bget", "bsleep"}
  BY <1>2, <1>5, Zenon DEF Loading, Waiting
<1>10. OneBuffer' /\ NoBufferLost' /\ RequestIsSane'
  <2>1. OneBuffer'
    BY <1>2, Zenon DEF DiskInv, BufferInv, OneBuffer, cache
  <2>2. NoBufferLost'
    <3>1. \A c \in Buf : buf[c].dirty => buf[c].sector \in logged \/ \E q \in Proc : pc'[q] \in Loading /\ arg'[q] = c
      BY <1>2, <1>9, Zenon DEF DiskInv, BufferInv, NoBufferLost
    <3> QED BY <1>2, <3>1, Zenon DEF DiskInv, BufferInv, NoBufferLost, cache
  <2>3. RequestIsSane'
    BY <1>2, <1>9, Zenon DEF DiskInv, BufferInv, RequestIsSane, cache, Finished
  <2> QED BY <2>1, <2>2, <2>3, Zenon
<1>11. HeldIsValid' /\ CleanIsOnDisk'
  <2>1. HeldIsValid'
    BY <1>2, <1>9, Zenon DEF DiskInv, BufferInv, HeldIsValid, cache
  <2>2. CleanIsOnDisk'
    <3>1. \A c \in Buf : (\E q \in Proc : pc[q] = "changed" /\ arg[q] = c) => \E q \in Proc : pc'[q] = "changed" /\ arg'[q] = c
      BY <1>2, <1>9, Zenon
    <3> QED BY <1>2, <3>1, Zenon DEF DiskInv, BufferInv, CleanIsOnDisk, cache
  <2> QED BY <2>1, <2>2, Zenon
<1>12. QueueIsServed'
  <2>1. \A c \in Buf : (Finished(c)' <=> Finished(c)) /\ Request(c)' = Request(c)
    BY <1>2, Zenon DEF Finished, Request, cache
  <2>2. \A c \in Buf : Unserved(c)' <=> Unserved(c) \/ c = b
    BY <1>2, <1>3, <1>5, <2>1, Zenon DEF Unserved, Waiting, b
  <2>3. Range(idequeue') = {c \in Buf : Unserved(c)'}
    BY <1>3, <1>7, <2>2 DEF DiskInv, DriverInv, QueueIsServed, Unserved
  <2>4. /\ ide' # None /\ (idequeue = <<>> => ide' = Request(b))
        /\ (idequeue # <<>> => ide' = Request(Head(idequeue)) /\ Head(idequeue) \in Buf)
    BY <1>2, <1>4, FirstRequest, QueuedBuffer, Zenon
  <2>5. ide' = Request(Head(idequeue))'
    <3>1. Request(Head(idequeue))' = Request(Head(idequeue'))
      BY <1>2, Zenon DEF Request, cache
    <3> QED BY <1>7, <2>4, <3>1, Zenon
  <2>6. Range(idequeue)' = Range(idequeue')
    BY Zenon DEF Range
  <2> QED BY <1>2, <1>7, <2>3, <2>4, <2>5, <2>6, Zenon DEF QueueIsServed, Unserved
<1>13. NoLostWakeup'
  <2>1. \A q \in Proc : pc'[q] = "iosleep" => arg[q] \in Range(idequeue')
    BY <1>5, <1>7, Zenon DEF DiskInv, DriverInv, NoLostWakeup
  <2>2. \A q \in Proc : pc'[q] = "bsleep" => \E c \in Cached(want[q]) : buf[c].busy
    BY <1>5, Zenon DEF DiskInv, DriverInv, NoLostWakeup
  <2> QED BY <1>2, <2>1, <2>2, Zenon DEF NoLostWakeup, Cached, cache, Range
<1>14. WrittenIsOnDisk'
  BY <1>2, Zenon DEF DiskInv, DriverInv, QueueIsServed, WrittenIsOnDisk
<1> QED BY <1>8, <1>10, <1>11, <1>12, <1>13, <1>14, Zenon DEF DiskInv, BufferInv, DriverInv

\* The loop of iderw().
LEMMA IderwLoopInv ==
  ASSUME DiskInv, NEW p \in Proc, IderwLoop(p)
  PROVE  DiskInv'
<1> DEFINE b == arg[p]
<1>1. pc \in [Proc -> PCs] /\ arg \in [Proc -> Buf \cup {NoBuf}] /\ held \in [Proc -> SUBSET Buf] /\ TypeOK
  BY Zenon DEF DiskInv, BufferInv, TypeOK
<1>2. /\ pc[p] = "iowait" /\ idelock' = None
      /\ UNCHANGED <<cache, idequeue, ide, irq, disk, want, held, trans, logged, panicked>>
  BY Zenon DEF IderwLoop
<1>3. b \in held[p] /\ b \in Buf /\ \A q \in Proc : b \in held[q] => q = p
  BY <1>2, HeldBuffer, Zenon DEF DiskInv, BufferInv, HeldIsValid, Loading, Waiting
<1>4. /\ pc' \in [Proc -> PCs] /\ arg' \in [Proc -> Buf \cup {NoBuf}]
      /\ \A q \in Proc : q # p => pc'[q] = pc[q] /\ arg'[q] = arg[q]
      /\ pc'[p] = (IF Finished(b) THEN "run" ELSE "iosleep")
      /\ ~Finished(b) => arg'[p] = b
  BY <1>1, Zenon DEF IderwLoop, Goto, With, PCs
<1> HIDE DEF b
<1>5. TypeOK'
  BY <1>1, <1>2, <1>4 DEF TypeOK, cache
<1>6. \A q \in Proc : /\ pc'[q] \in Loading => pc[q] \in Loading /\ arg'[q] = arg[q]
                      /\ pc[q] \in Loading => (pc'[q] \in Loading /\ arg'[q] = arg[q]) \/ (arg[q] = b /\ Finished(b))
                      /\ pc'[q] \in Waiting => pc[q] \in Waiting /\ arg'[q] = arg[q]
                      /\ pc[q] \in Waiting => (pc'[q] \in Waiting /\ arg'[q] = arg[q]) \/ (arg[q] = b /\ Finished(b))
  BY <1>2, <1>4, Zenon DEF Loading, Waiting, b
<1>7. \A q \in Proc : /\ pc'[q] = "changed" => pc[q] = "changed" /\ arg'[q] = arg[q]
                      /\ pc[q] = "changed" => pc'[q] = "changed" /\ arg'[q] = arg[q]
                      /\ pc'[q] = "iderw" => pc[q] = "iderw" /\ arg'[q] = arg[q]
                      /\ pc'[q] \in {"bget", "bsleep"} => pc[q] = pc'[q]
  BY <1>2, <1>4, Zenon
<1>8. OneBuffer' /\ WrittenIsOnDisk'
  BY <1>2, Zenon DEF DiskInv, BufferInv, DriverInv, OneBuffer, WrittenIsOnDisk, cache
<1>9. NoBufferLost'
  <2>1. \A c \in Buf : buf[c].dirty => buf[c].sector \in logged \/ \E q \in Proc : pc'[q] \in Loading /\ arg'[q] = c
    <3>1. \A c \in Buf : buf[c].dirty => buf[c].sector \in logged \/ \E q \in Proc : pc[q] \in Loading /\ arg[q] = c
      BY Zenon DEF DiskInv, BufferInv, NoBufferLost
    <3> QED BY <1>6, <3>1, Zenon DEF Finished
  <2> QED BY <1>2, <2>1, Zenon DEF DiskInv, BufferInv, NoBufferLost, cache
<1>10. RequestIsSane'
  BY <1>2, <1>7, Zenon DEF DiskInv, BufferInv, RequestIsSane, cache, Finished
<1>11. HeldIsValid'
  <2>1. \A q \in Proc : \A c \in held[q] : buf[c].valid \/ (pc'[q] \in Loading /\ arg'[q] = c)
    BY <1>6, Zenon DEF DiskInv, BufferInv, HeldIsValid, Finished
  <2>2. \A q \in Proc : pc'[q] \in Loading \cup {"changed"} => arg'[q] \in held[q]
    BY <1>6, <1>7, Zenon DEF DiskInv, BufferInv, HeldIsValid
  <2>3. \A q \in Proc : pc'[q] \in {"bget", "bsleep"} => want[q] # NoSector
    BY <1>7, Zenon DEF DiskInv, BufferInv, HeldIsValid
  <2>4. \A q \in Proc : \A c \in held[q] : buf[c].sector # NoSector
    BY Zenon DEF DiskInv, BufferInv, HeldIsValid
  <2> QED BY <1>2, <2>1, <2>2, <2>3, <2>4, Zenon DEF HeldIsValid, cache
<1>12. CleanIsOnDisk'
  <2>1. \A c \in Buf : (\E q \in Proc : pc[q] = "changed" /\ arg[q] = c) => \E q \in Proc : pc'[q] = "changed" /\ arg'[q] = c
    BY <1>7, Zenon
  <2> QED BY <1>2, <2>1, Zenon DEF DiskInv, BufferInv, CleanIsOnDisk, cache
<1>13. QueueIsServed'
  <2>1. \A c \in Buf : Finished(c)' <=> Finished(c)
    BY <1>2, Zenon DEF Finished, cache
  <2>2. \A c \in Buf : Unserved(c)' <=> Unserved(c)
    BY <1>6, <2>1, Zenon DEF Unserved
  <2> QED BY <1>2, <2>2, QueueKept, Zenon DEF cache
<1>14. NoLostWakeup'
  <2>1. \A q \in Proc : pc'[q] = "bsleep" => \E c \in Cached(want[q]) : buf[c].busy
    BY <1>7, Zenon DEF DiskInv, DriverInv, NoLostWakeup
  <2>2. \A q \in Proc : q # p /\ pc'[q] = "iosleep" => arg'[q] \in Range(idequeue)
    BY <1>4, Zenon DEF DiskInv, DriverInv, NoLostWakeup
  <2>3. ~Finished(b) => b \in Range(idequeue)
    BY <1>2, <1>3, Zenon DEF DiskInv, DriverInv, QueueIsServed, Waiting, b
  <2>4. \A q \in Proc : pc'[q] = "iosleep" => arg'[q] \in Range(idequeue)
    BY <1>4, <2>2, <2>3, Zenon
  <2>5. UNCHANGED <<buf, want, idequeue>>
    BY <1>2, Zenon DEF cache
  <2> QED BY <2>1, <2>4, <2>5, Zenon DEF NoLostWakeup, Cached, Range
<1> QED BY <1>5, <1>8, <1>9, <1>10, <1>11, <1>12, <1>13, <1>14, Zenon DEF DiskInv, BufferInv, DriverInv

\* The request that the controller works on.
LEMMA ActiveRequest ==
  ASSUME DiskInv, ide # None
  PROVE  LET b == Head(idequeue)
         IN  /\ idequeue # <<>> /\ b \in Range(idequeue) /\ b \in Buf /\ ~Finished(b) /\ b = idequeue[1]
             /\ ide \in [sector : Sector, write : BOOLEAN, data : Data]
             /\ ide.sector = buf[b].sector /\ ide.data = buf[b].data /\ (ide.write <=> buf[b].dirty)
             /\ \E p \in Proc : pc[p] \in Waiting /\ arg[p] = b /\ b \in held[p]
<1> DEFINE b == Head(idequeue)
<1>1. idequeue # <<>>
  BY Zenon DEF DiskInv, DriverInv, QueueIsServed
<1>2. b \in Range(idequeue) /\ b = idequeue[1] /\ ide = Request(b)
  BY <1>1, FirstRequest, Zenon
<1>3. b \in Buf /\ ~Finished(b)
  BY <1>2, QueuedBuffer, Zenon
<1>4. PICK p \in Proc : pc[p] \in Waiting /\ arg[p] = b /\ b \in held[p]
  BY <1>2, QueuedBuffer, Zenon
<1> HIDE DEF b
<1>5. ide.sector = buf[b].sector /\ ide.data = buf[b].data /\ (ide.write <=> buf[b].dirty)
  BY <1>2, <1>4, RequestType, Zenon
<1>6. ide \in [sector : Sector, write : BOOLEAN, data : Data]
  BY <1>2, <1>4, RequestType, Zenon
<1> QED BY <1>1, <1>2, <1>3, <1>4, <1>5, <1>6, Zenon DEF b

\* The controller finishes.
LEMMA FinishInv ==
  ASSUME DiskInv, Finish
  PROVE  DiskInv'
<1> DEFINE b == Head(idequeue)
<1>1. /\ ide # None /\ irq' = TRUE /\ disk' = (IF ide.write THEN [disk EXCEPT ![ide.sector] = ide.data] ELSE disk)
      /\ UNCHANGED <<cache, idequeue, idelock, ide, procs, trans, logged, panicked>>
  BY Zenon DEF Finish
<1>2. /\ b \in Buf /\ ide \in [sector : Sector, write : BOOLEAN, data : Data]
      /\ ide.sector = buf[b].sector /\ ide.data = buf[b].data /\ (ide.write <=> buf[b].dirty)
  BY <1>1, ActiveRequest, Zenon
<1> HIDE DEF b
<1>3. disk \in [Sector -> Data] /\ TypeOK
  BY Zenon DEF DiskInv, BufferInv, TypeOK
<1>4. /\ disk' \in [Sector -> Data] /\ (ide.write => disk'[ide.sector] = ide.data)
      /\ \A s \in Sector : s # ide.sector \/ ~ide.write => disk'[s] = disk[s]
  BY <1>1, <1>2, <1>3, Zenon
<1>5. TypeOK'
  BY <1>1, <1>3, <1>4, Zenon DEF TypeOK, cache, procs
<1>6. OneBuffer' /\ NoBufferLost' /\ RequestIsSane' /\ HeldIsValid'
  <2>1. OneBuffer' /\ RequestIsSane'
    BY <1>1, Zenon DEF DiskInv, BufferInv, OneBuffer, RequestIsSane, Finished, cache, procs
  <2>2. NoBufferLost' /\ HeldIsValid'
    BY <1>1, Zenon DEF DiskInv, BufferInv, NoBufferLost, HeldIsValid, cache, procs
  <2> QED BY <2>1, <2>2, Zenon
<1>7. CleanIsOnDisk'
  <2>1. ASSUME NEW c \in Buf, buf[c].valid, ~buf[c].dirty
        PROVE  disk'[buf[c].sector] = disk[buf[c].sector]
    <3>1. buf[c].sector \in Sector
      BY <1>3, <2>1, Zenon DEF DiskInv, BufferInv, CleanIsOnDisk, TypeOK
    <3>2. ide.write => buf[c].sector # ide.sector
      BY <1>2, <2>1, <3>1, Constants, Zenon DEF DiskInv, BufferInv, OneBuffer
    <3> QED BY <1>4, <3>1, <3>2, Zenon
  <2> QED BY <1>1, <2>1 DEF DiskInv, BufferInv, CleanIsOnDisk, cache, procs
<1>8. NoLostWakeup' /\ WrittenIsOnDisk'
  BY <1>1, <1>4 DEF DiskInv, DriverInv, NoLostWakeup, WrittenIsOnDisk, Cached, Range, cache, procs
<1>9. QueueIsServed'
  BY <1>1 DEF DiskInv, DriverInv, QueueIsServed, Request, Finished, Range, cache, procs
<1> QED BY <1>5, <1>6, <1>7, <1>8, <1>9, Zenon DEF DiskInv, BufferInv, DriverInv

\* ideintr()
LEMMA IdeintrInv ==
  ASSUME DiskInv, Ideintr
  PROVE  DiskInv'
<1> DEFINE b == Head(idequeue)
<1>1. /\ irq /\ irq' = FALSE /\ idequeue' = Tail(idequeue)
      /\ ide' = (IF Len(idequeue) > 1 THEN Request(idequeue[2]) ELSE None)
      /\ UNCHANGED <<mru, idelock, disk, want, held, arg, trans, logged, panicked>>
  BY Zenon DEF Ideintr
<1>2. ide # None
  BY <1>1, Zenon DEF DiskInv, DriverInv, QueueIsServed
<1>3. /\ b \in Buf /\ ~Finished(b) /\ b = idequeue[1] /\ idequeue # <<>>
      /\ ide.sector = buf[b].sector /\ ide.sector \in Sector /\ ide.data = buf[b].data /\ (ide.write <=> buf[b].dirty)
  BY <1>2, ActiveRequest, Zenon
<1>4. PICK p \in Proc : pc[p] \in Waiting /\ arg[p] = b /\ b \in held[p]
  BY <1>2, ActiveRequest, Zenon
<1>5. \A q \in Proc : b \in held[q] => q = p
  BY <1>4, HeldBuffer, Zenon
<1>6. /\ buf \in [Buf -> BufRec] /\ disk \in [Sector -> Data] /\ pc \in [Proc -> PCs]
      /\ idequeue \in Seq(Buf) /\ held \in [Proc -> SUBSET Buf] /\ TypeOK
  BY Zenon DEF DiskInv, BufferInv, TypeOK, BufRec
<1>7. /\ buf' \in [Buf -> BufRec] /\ \A c \in Buf : c # b => buf'[c] = buf[c]
      /\ buf'[b].sector = buf[b].sector /\ (buf'[b].busy <=> buf[b].busy)
      /\ buf'[b].valid /\ ~buf'[b].dirty
      /\ buf'[b].data = (IF buf[b].dirty THEN buf[b].data ELSE disk[ide.sector])
  <2>1. buf' = [buf EXCEPT ![b].valid = TRUE, ![b].dirty = FALSE,
                           ![b].data = IF buf[b].dirty THEN @ ELSE disk[ide.sector]]
    BY Zenon DEF Ideintr
  <2>2. disk[ide.sector] \in Data
    BY <1>3, <1>6, Zenon
  <2> HIDE DEF b
  <2>3. buf[b] \in BufRec /\ DOMAIN buf' = Buf /\ \A c \in Buf : c # b => buf'[c] = buf[c]
    BY <1>3, <1>6, <2>1, Zenon
  <2>4. buf'[b] = [buf[b] EXCEPT !.valid = TRUE, !.dirty = FALSE,
                                 !.data = IF buf[b].dirty THEN buf[b].data ELSE disk[ide.sector]]
    BY <1>3, <1>6, <2>1, Zenon DEF BufRec
  <2>5. buf'[b] \in BufRec
    BY <2>2, <2>3, <2>4, Zenon DEF BufRec
  <2>6. /\ buf'[b].sector = buf[b].sector /\ (buf'[b].busy <=> buf[b].busy)
        /\ buf'[b].valid /\ ~buf'[b].dirty
        /\ buf'[b].data = (IF buf[b].dirty THEN buf[b].data ELSE disk[ide.sector])
    BY <2>3, <2>4 DEF BufRec
  <2>7. buf' \in [Buf -> BufRec]
    BY <1>6, <2>1, <2>3, <2>5, Zenon
  <2> QED BY <2>3, <2>6, <2>7, Zenon
<1>8. /\ pc' \in [Proc -> PCs]
      /\ \A q \in Proc : pc'[q] = IF pc[q] = "bsleep" /\ want[q] = buf[b].sector THEN "bget"
                                  ELSE IF pc[q] = "iosleep" /\ arg[q] = b THEN "iowoken" ELSE pc[q]
  BY <1>6, Zenon DEF Ideintr, Wake, PCs
<1> HIDE DEF b
<1>9. \A q \in Proc : /\ pc'[q] \in Loading <=> pc[q] \in Loading
                      /\ pc'[q] \in Waiting <=> pc[q] \in Waiting
                      /\ pc'[q] = "changed" <=> pc[q] = "changed"
                      /\ pc'[q] = "iderw" <=> pc[q] = "iderw"
                      /\ pc'[q] \in {"bget", "bsleep"} <=> pc[q] \in {"bget", "bsleep"}
  BY <1>8, Zenon DEF Loading, Waiting
<1>10. /\ idequeue' \in Seq(Buf) /\ Len(idequeue') = Len(idequeue) - 1 /\ Len(idequeue) \in Nat \ {0}
       /\ \A i \in 1 .. (Len(idequeue) - 1) : idequeue'[i] = idequeue[i + 1]
  BY <1>1, <1>3, <1>6
<1>11. Range(idequeue') = Range(idequeue) \ {b}
  <2>1. DOMAIN idequeue = 1 .. Len(idequeue) /\ DOMAIN idequeue' = 1 .. (Len(idequeue) - 1)
    BY <1>6, <1>10
  <2>2. \A i \in 1 .. Len(idequeue) : idequeue[i] = b <=> i = 1
    BY <1>3, <1>6, <1>10 DEF TypeOK
  <2>3. \A c : c \in Range(idequeue') => c \in Range(idequeue) \ {b}
    <3>1. \A i \in 1 .. (Len(idequeue) - 1) : i + 1 \in 1 .. Len(idequeue) /\ i + 1 # 1
      BY <1>10
    <3>2. \A i \in 1 .. (Len(idequeue) - 1) : idequeue'[i] \in Range(idequeue) \ {b}
      BY <1>10, <2>1, <2>2, <3>1, Zenon DEF Range
    <3> QED BY <2>1, <3>2, Zenon DEF Range
  <2>4. ASSUME NEW i \in 1 .. Len(idequeue), idequeue[i] # b
        PROVE  idequeue[i] \in Range(idequeue')
    <3>1. i - 1 \in 1 .. (Len(idequeue) - 1) /\ (i - 1) + 1 = i
      BY <1>10, <2>2, <2>4
    <3>2. idequeue'[i - 1] = idequeue[i]
      BY <1>10, <3>1, Zenon
    <3> QED BY <2>1, <3>1, <3>2, Zenon DEF Range
  <2>5. \A c : c \in Range(idequeue) \ {b} => c \in Range(idequeue')
    BY <2>1, <2>4, Zenon DEF Range
  <2> QED BY <2>3, <2>5, Zenon
<1>12. Len(idequeue) > 1 => /\ idequeue[2] \in Range(idequeue) /\ idequeue[2] # b /\ idequeue'[1] = idequeue[2]
                            /\ \E q \in Proc : idequeue[2] \in held[q]
  <2> SUFFICES ASSUME Len(idequeue) > 1
               PROVE  /\ idequeue[2] \in Range(idequeue) /\ idequeue[2] # b /\ idequeue'[1] = idequeue[2]
                      /\ \E q \in Proc : idequeue[2] \in held[q]
    BY Zenon
  <2>1. 1 \in 1 .. (Len(idequeue) - 1) /\ 1 \in 1 .. Len(idequeue) /\ 2 \in 1 .. Len(idequeue) /\ 2 \in DOMAIN idequeue
    BY <1>6, <1>10
  <2>2. idequeue[2] \in Range(idequeue)
    BY <2>1, Zenon DEF Range
  <2>3. idequeue[2] # b
    BY <1>3, <1>6, <2>1 DEF TypeOK
  <2>4. idequeue'[1] = idequeue[2]
    BY <1>10, <2>1
  <2> QED BY <2>2, <2>3, <2>4, QueuedBuffer, Zenon
<1>13. TypeOK'
  <2>1. ide' \in [sector : Sector, write : BOOLEAN, data : Data] \cup {None}
    BY <1>1, <1>12, RequestType, Zenon
  <2>2. \A i, j \in 1 .. Len(idequeue') : idequeue'[i] = idequeue'[j] => i = j
    <3> SUFFICES ASSUME NEW i \in 1 .. Len(idequeue'), NEW j \in 1 .. Len(idequeue'), idequeue'[i] = idequeue'[j]
                 PROVE  i = j
      BY Zenon
    <3>1. i + 1 \in 1 .. Len(idequeue) /\ j + 1 \in 1 .. Len(idequeue) /\ idequeue[i + 1] = idequeue[j + 1]
      BY <1>10
    <3>2. i + 1 = j + 1
      BY <1>6, <3>1, Zenon DEF TypeOK
    <3> QED BY <3>2, <1>10
  <2>3. /\ mru' \in [Buf -> Buf] /\ \A c \in Buf : \E i \in Buf : mru'[i] = c
        /\ idelock' \in Proc \cup {None} /\ want' \in [Proc -> Sector \cup {NoSector}]
        /\ arg' \in [Proc -> Buf \cup {NoBuf}] /\ trans' \in Proc \cup {None} /\ logged' \subseteq Sector
        /\ panicked' \in BOOLEAN /\ held' \in [Proc -> SUBSET Buf] /\ disk' \in [Sector -> Data]
    BY <1>1, <1>6, Zenon DEF TypeOK
  <2>4. irq' \in BOOLEAN
    BY <1>1, Zenon
  <2> QED BY <1>7, <1>8, <1>10, <2>1, <2>2, <2>3, <2>4, Zenon DEF TypeOK, BufRec
<1>14. OneBuffer'
  BY <1>3, <1>7 DEF DiskInv, BufferInv, OneBuffer
<1>15. NoBufferLost'
  <2>1. \A c \in Buf : (buf'[c].busy <=> buf[c].busy) /\ buf'[c].sector = buf[c].sector /\ (buf'[c].dirty => buf[c].dirty)
    BY <1>7, Zenon
  <2> QED BY <1>1, <1>9, <2>1, Zenon DEF DiskInv, BufferInv, NoBufferLost
<1>16. \A q \in Proc : pc[q] = "iderw" => arg[q] \in Buf /\ arg[q] # b
  BY <1>4, <1>5, <1>6, Zenon DEF DiskInv, BufferInv, HeldIsValid, Loading, Waiting
<1>17. RequestIsSane'
  BY <1>1, <1>7, <1>9, <1>16 DEF DiskInv, BufferInv, RequestIsSane, Finished
<1>18. HeldIsValid'
  <2>1. \A c \in Buf : buf'[c].sector = buf[c].sector /\ (buf[c].valid => buf'[c].valid)
    BY <1>7, Zenon
  <2>2. \A q \in Proc : \A c \in held[q] : c \in Buf
    BY <1>6, Zenon
  <2> QED BY <1>1, <1>9, <2>1, <2>2 DEF DiskInv, BufferInv, HeldIsValid
<1>19. CleanIsOnDisk'
  <2>1. buf'[b].data = disk[buf[b].sector] /\ buf[b].sector # NoSector
    BY <1>1, <1>3, <1>7, Constants DEF DiskInv, DriverInv, WrittenIsOnDisk
  <2> QED BY <1>1, <1>7, <1>9, <2>1 DEF DiskInv, BufferInv, CleanIsOnDisk
<1>20. QueueIsServed'
  <2>1. \A c \in Buf : Unserved(c)' <=> Unserved(c) /\ c # b
    BY <1>1, <1>7, <1>9, Zenon DEF Unserved, Finished
  <2>2. Range(idequeue)' = {c \in Buf : Unserved(c)'}
    <3>1. Range(idequeue) = {c \in Buf : Unserved(c)}
      BY Zenon DEF DiskInv, DriverInv, QueueIsServed, Unserved
    <3>2. Range(idequeue)' = Range(idequeue')
      BY Zenon DEF Range
    <3> QED BY <1>11, <2>1, <3>1, <3>2, Zenon
  <2>3. CASE Len(idequeue) > 1
    <3>1. ide' = Request(idequeue[2]) /\ ide' # None /\ idequeue[2] \in Buf /\ idequeue[2] # b
      BY <1>1, <1>12, <2>3, RequestType, QueuedBuffer, Zenon
    <3>2. idequeue' # <<>> /\ Head(idequeue') = idequeue[2]
      BY <1>10, <1>12, <2>3
    <3>3. Request(Head(idequeue))' = Request(idequeue[2])
      BY <1>7, <3>1, <3>2, Zenon DEF Request
    <3> QED BY <1>1, <2>2, <3>1, <3>2, <3>3, Zenon DEF QueueIsServed, Unserved
  <2>4. CASE ~(Len(idequeue) > 1)
    <3>1. ide' = None /\ idequeue' = <<>>
      BY <1>1, <1>10, <2>4
    <3> QED BY <1>1, <2>2, <3>1, Zenon DEF QueueIsServed, Unserved
  <2> QED BY <2>3, <2>4, Zenon
<1>21. NoLostWakeup'
  <2>1. \A q \in Proc : pc'[q] = "iosleep" => arg[q] \in Range(idequeue')
    BY <1>8, <1>11, Zenon DEF DiskInv, DriverInv, NoLostWakeup
  <2>2. \A q \in Proc : pc'[q] = "bsleep" => \E c \in Buf : buf'[c].sector = want[q] /\ buf'[c].busy
    BY <1>7, <1>8 DEF DiskInv, DriverInv, NoLostWakeup, Cached
  <2> QED BY <1>1, <2>1, <2>2, Zenon DEF NoLostWakeup, Cached, Range
<1>22. WrittenIsOnDisk'
  BY <1>1, Zenon DEF WrittenIsOnDisk
<1> QED BY <1>13, <1>14, <1>15, <1>17, <1>18, <1>19, <1>20, <1>21, <1>22, Zenon DEF DiskInv, BufferInv, DriverInv

-----------------------------------------------------------------------------
(* The invariants. *)

\* At boot all buffers are free and the queue is empty.
LEMMA InitInv ==
  ASSUME Init
  PROVE  DiskInv
<1>1. TypeOK
  <2>1. \A i \in Buf : NBUF + 1 - i \in Buf /\ NBUF + 1 - (NBUF + 1 - i) = i
    BY DiskAssumption DEF Buf
  <2>2. mru \in [Buf -> Buf] /\ \A b \in Buf : \E i \in Buf : mru[i] = b
    BY <2>1, Zenon DEF Init, Buf
  <2>3. buf \in [Buf -> BufRec]
    BY DEF Init, BufRec
  <2>4. idequeue \in Seq(Buf) /\ Len(idequeue) = 0 /\ want \in [Proc -> Sector \cup {NoSector}]
    BY DEF Init
  <2>5. /\ idelock \in Proc \cup {None} /\ irq \in BOOLEAN /\ disk \in [Sector -> Data] /\ panicked \in BOOLEAN
        /\ ide \in [sector : Sector, write : BOOLEAN, data : Data] \cup {None}
    BY Zenon DEF Init
  <2>6. /\ pc \in [Proc -> PCs] /\ held \in [Proc -> SUBSET Buf] /\ arg \in [Proc -> Buf \cup {NoBuf}]
        /\ trans \in Proc \cup {None} /\ logged \subseteq Sector
    BY Zenon DEF Init, PCs
  <2>7. \A i, j \in 1 .. Len(idequeue) : idequeue[i] = idequeue[j] => i = j
    BY <2>4
  <2> QED BY <2>2, <2>3, <2>4, <2>5, <2>6, <2>7, Zenon DEF TypeOK, BufRec
<1>2. OneBuffer /\ NoBufferLost /\ RequestIsSane /\ HeldIsValid /\ CleanIsOnDisk
  BY DEF Init, OneBuffer, NoBufferLost, RequestIsSane, HeldIsValid, CleanIsOnDisk, Loading, Waiting
<1>3. QueueIsServed
  <2>1. Range(idequeue) = {}
    BY DEF Init, Range
  <2> QED BY <2>1, Zenon DEF Init, QueueIsServed, Waiting
<1>4. NoLostWakeup /\ WrittenIsOnDisk
  BY Zenon DEF Init, NoLostWakeup, WrittenIsOnDisk
<1> QED BY <1>1, <1>2, <1>3, <1>4, Zenon DEF DiskInv, BufferInv, DriverInv

\* Every step keeps the invariants.
LEMMA StepInv ==
  ASSUME DiskInv, [Next]_vars
  PROVE  DiskInv'
<1>1. CASE UNCHANGED vars
  BY <1>1, MovedInv, Zenon DEF vars, cache, driver, procs, DiskInv, BufferInv, TypeOK
<1>2. ASSUME NEW p \in Proc, Caller(p)
      PROVE  DiskInv'
  BY <1>2, WaitInv, UpdateInv, BrelseInv, Zenon DEF Caller
<1>3. ASSUME NEW p \in Proc, Inside(p)
      PROVE  DiskInv'
  BY <1>3, WaitInv, BgetHitInv, BgetRecycleInv, IderwInv, IderwLoopInv, Zenon DEF Inside, Bget
<1> QED BY <1>1, <1>2, <1>3, FinishInv, IdeintrInv, Zenon DEF Next

\* For every number of processes, sectors and buffers: a sector is in one buffer,
\* no buffer is lost, what bget() may recycle is on the disk, and iderw() gets
\* only buffers with something to do.
THEOREM BuffersSound == Spec => []BufferInv
<1>1. DiskInv => BufferInv
  BY Zenon DEF DiskInv
<1> QED BY <1>1, InitInv, StepInv, PTL DEF Spec

\* The driver serves the queue in order, and its interrupt finds every sleeper.
THEOREM DriverSound == Spec => []DriverInv
<1>1. DiskInv => DriverInv
  BY Zenon DEF DiskInv
<1> QED BY <1>1, InitInv, StepInv, PTL DEF Spec

-----------------------------------------------------------------------------
(* The refinement: what processes see of the sectors. *)

\* Content of s, for buffers bf over a platter dk.
Seen(bf, dk, s) ==
  IF \E b \in {c \in Buf : bf[c].sector = s} : bf[b].valid
  THEN bf[CHOOSE b \in {c \in Buf : bf[c].sector = s} : bf[b].valid].data
  ELSE dk[s]

\* The content of the block store, over the buffers and the platter.
LEMMA ContentIsSeen ==
  /\ Content = [s \in Sector |-> Seen(buf, disk, s)]
  /\ Content' = [s \in Sector |-> Seen(buf', disk', s)]
BY Zenon DEF Content, Cached, Seen

\* x is the data of the valid buffer that has s, or what is on the platter.
Shows(bf, dk, s, x) ==
  /\ \A b \in Buf : bf[b].sector = s /\ bf[b].valid => x = bf[b].data
  /\ (\A b \in Buf : bf[b].sector = s => ~bf[b].valid) => x = dk[s]

\* With one buffer for a sector, its content is well defined.
LEMMA SeenIs ==
  ASSUME NEW bf, NEW dk, NEW s \in Sector,
         \A b, c \in Buf : bf[b].sector = bf[c].sector => b = c \/ bf[b].sector = NoSector
  PROVE  Shows(bf, dk, s, Seen(bf, dk, s))
<1>1. ASSUME NEW b \in Buf, bf[b].sector = s, bf[b].valid
      PROVE  Seen(bf, dk, s) = bf[b].data
  <2>1. \A c \in {c \in Buf : bf[c].sector = s} : c = b
    BY <1>1, Constants, Zenon
  <2>2. (CHOOSE c \in {c \in Buf : bf[c].sector = s} : bf[c].valid) = b
    BY <1>1, <2>1, Zenon
  <2> QED BY <1>1, <2>2, Zenon DEF Seen
<1> QED BY <1>1, Zenon DEF Seen, Shows

\* What the steps show before and after.
LEMMA StepShows ==
  ASSUME DiskInv, DiskInv', NEW s \in Sector
  PROVE  Shows(buf, disk, s, Seen(buf, disk, s)) /\ Shows(buf', disk', s, Seen(buf', disk', s))
<1>1. OneBuffer /\ OneBuffer'
  BY Zenon DEF DiskInv, BufferInv
<1> QED BY <1>1, SeenIs, Zenon DEF OneBuffer

\* A step that changes the data of no valid buffer, and the platter under none
\* that is not, changes no content.
LEMMA ContentKept ==
  ASSUME DiskInv, DiskInv',
         \A s \in Sector :
            \/ \E b \in Buf : /\ buf[b].sector = s /\ buf[b].valid /\ buf'[b].sector = s /\ buf'[b].valid
                              /\ buf'[b].data = buf[b].data
            \/ /\ \A b \in Buf : buf[b].sector = s => ~buf[b].valid
               /\ \A b \in Buf : buf'[b].sector = s => ~buf'[b].valid
               /\ disk'[s] = disk[s]
            \/ \E b \in Buf : /\ buf[b].sector = s /\ buf[b].valid /\ buf[b].data = disk'[s]
                              /\ \A c \in Buf : buf'[c].sector = s => ~buf'[c].valid
            \/ \E b \in Buf : /\ buf'[b].sector = s /\ buf'[b].valid /\ buf'[b].data = disk[s]
                              /\ \A c \in Buf : buf[c].sector = s => ~buf[c].valid
  PROVE  Content' = Content
<1>1. ASSUME NEW s \in Sector
      PROVE  Seen(buf', disk', s) = Seen(buf, disk, s)
  <2>1. Shows(buf, disk, s, Seen(buf, disk, s)) /\ Shows(buf', disk', s, Seen(buf', disk', s))
    BY StepShows, Zenon
  <2>2. ASSUME NEW b \in Buf, buf[b].sector = s, buf[b].valid, buf'[b].sector = s, buf'[b].valid,
               buf'[b].data = buf[b].data
        PROVE  Seen(buf', disk', s) = Seen(buf, disk, s)
    <3>1. Seen(buf, disk, s) = buf[b].data /\ Seen(buf', disk', s) = buf'[b].data
      BY <2>1, <2>2, Zenon DEF Shows
    <3> QED BY <2>2, <3>1, Zenon
  <2>3. ASSUME \A b \in Buf : buf[b].sector = s => ~buf[b].valid,
               \A b \in Buf : buf'[b].sector = s => ~buf'[b].valid, disk'[s] = disk[s]
        PROVE  Seen(buf', disk', s) = Seen(buf, disk, s)
    BY <2>1, <2>3, Zenon DEF Shows
  <2>4. ASSUME NEW b \in Buf, buf[b].sector = s, buf[b].valid, buf[b].data = disk'[s],
               \A c \in Buf : buf'[c].sector = s => ~buf'[c].valid
        PROVE  Seen(buf', disk', s) = Seen(buf, disk, s)
    BY <2>1, <2>4, Zenon DEF Shows
  <2>5. ASSUME NEW b \in Buf, buf'[b].sector = s, buf'[b].valid, buf'[b].data = disk[s],
               \A c \in Buf : buf[c].sector = s => ~buf[c].valid
        PROVE  Seen(buf', disk', s) = Seen(buf, disk, s)
    BY <2>1, <2>5, Zenon DEF Shows
  <2> QED BY <2>2, <2>3, <2>4, <2>5, Zenon
<1> QED BY <1>1, ContentIsSeen

\* A step that leaves sectors, valid flags and valid data alone.
LEMMA ContentSame ==
  ASSUME DiskInv, DiskInv', UNCHANGED disk,
         \A b \in Buf : /\ buf'[b].sector = buf[b].sector /\ (buf'[b].valid <=> buf[b].valid)
                        /\ buf[b].valid => buf'[b].data = buf[b].data
  PROVE  Content' = Content
<1>1. ASSUME NEW s \in Sector, ~\A b \in Buf : buf[b].sector = s => ~buf[b].valid
      PROVE  \E b \in Buf : /\ buf[b].sector = s /\ buf[b].valid /\ buf'[b].sector = s /\ buf'[b].valid
                            /\ buf'[b].data = buf[b].data
  BY <1>1, Zenon
<1> QED BY <1>1, ContentKept

\* Who holds a sector.
LEMMA HoldersIs ==
  ASSUME DiskInv, NEW p \in Proc, NEW b \in held[p]
  PROVE  buf[b].sector \in Sector /\ Holders[buf[b].sector] = {p}
<1>1. b \in Buf /\ buf[b].sector \in Sector /\ \A q \in Proc : b \in held[q] => q = p
  BY HeldBuffer, Zenon
<1>2. \A q \in Proc : \A c \in held[q] : c \in Buf /\ (buf[c].sector = buf[b].sector => c = b)
  BY <1>1, Constants, Zenon DEF DiskInv, BufferInv, OneBuffer, TypeOK
<1>3. \A q \in Proc : (\E c \in held[q] : buf[c].sector = buf[b].sector) <=> q = p
  BY <1>1, <1>2, Zenon
<1> QED BY <1>1, <1>3, Zenon DEF Holders

\* bget() returns a buffer: Get of the store.
LEMMA GetRefines ==
  ASSUME DiskInv, DiskInv', NEW p \in Proc, NEW b \in Buf, want[p] \in Sector, ~buf[b].busy,
         buf'[b].sector = want[p], Content' = Content, disk' = disk,
         \A c \in Buf : c # b => buf'[c].sector = buf[c].sector,
         \A c \in Buf : c # b /\ buf[c].sector = want[p] => ~buf[c].busy,
         \A q \in Proc : held'[q] = (IF q = p THEN held[q] \cup {b} ELSE held[q])
  PROVE  BS!Get(p, want[p])
<1>1. \A q \in Proc : \A c \in held[q] : c \in Buf /\ buf[c].busy /\ c # b
  BY HeldBuffer, Zenon
<1>2. \A q \in Proc : \A c \in held[q] : buf[c].sector # want[p] /\ buf'[c].sector = buf[c].sector
  BY <1>1, Zenon
<1>3. Holders[want[p]] = {}
  BY <1>2, Zenon DEF Holders
<1>4. ASSUME NEW s \in Sector
      PROVE  Holders'[s] = IF s = want[p] THEN {p} ELSE Holders[s]
  <2>1. CASE s = want[p]
    <3>1. ASSUME NEW q \in Proc, q # p
          PROVE  ~\E c \in held'[q] : buf'[c].sector = s
      BY <1>2, <2>1, <3>1, Zenon
    <3>2. \E c \in held'[p] : buf'[c].sector = s
      BY <2>1, Zenon
    <3> QED BY <2>1, <3>1, <3>2 DEF Holders
  <2>2. CASE s # want[p]
    <3>1. ASSUME NEW q \in Proc
          PROVE  (\E c \in held'[q] : buf'[c].sector = s) <=> \E c \in held[q] : buf[c].sector = s
      BY <1>2, <2>2, Zenon
    <3> QED BY <2>2, <3>1, Zenon DEF Holders
  <2> QED BY <2>1, <2>2, Zenon
<1>5. Holders' = [Holders EXCEPT ![want[p]] = {p}]
  BY <1>4, Zenon DEF Holders
<1> QED BY <1>3, <1>5, Zenon DEF BS!Get

\* The steps of bget() and of its callers.
LEMMA CacheRefines ==
  ASSUME DiskInv, DiskInv', NEW p \in Proc,
         \/ \E b \in Buf : BgetHit(p, b) \/ Bwrite(p, b) \/ Pin(p, b) \/ \E d \in Data : Change(p, b, d)
         \/ \E i \in Buf : BgetRecycle(p, i) \/ Brelse(p, i)
  PROVE  [BS!Next]_(BS!vars)
<1>1. /\ buf \in [Buf -> BufRec] /\ held \in [Proc -> SUBSET Buf] /\ mru \in [Buf -> Buf]
      /\ want \in [Proc -> Sector \cup {NoSector}] /\ disk \in [Sector -> Data]
  BY Zenon DEF DiskInv, BufferInv, TypeOK, BufRec
<1>2. ASSUME NEW b \in Buf, BgetHit(p, b)
      PROVE  BS!Next
  <2>1. /\ want[p] \in Sector /\ buf[b].sector = want[p] /\ ~buf[b].busy /\ disk' = disk
    BY <1>1, <1>2 DEF BgetHit, Cached, driver, DiskInv, BufferInv, HeldIsValid
  <2>2. \A c \in Buf : buf'[c].sector = buf[c].sector /\ (buf'[c].valid <=> buf[c].valid) /\ buf'[c].data = buf[c].data
    BY <1>1, <1>2, Zenon DEF BgetHit, BufRec
  <2>3. \A c \in Buf : c # b => buf[c].sector # want[p]
    BY <2>1, Constants, Zenon DEF DiskInv, BufferInv, OneBuffer
  <2>4. \A q \in Proc : held'[q] = (IF q = p THEN held[q] \cup {b} ELSE held[q])
    BY <1>1, <1>2, Zenon DEF BgetHit, Got
  <2>5. Content' = Content
    BY <2>1, <2>2, ContentSame, Zenon
  <2>6. BS!Get(p, want[p])
    <3>1. /\ buf'[b].sector = want[p] /\ \A c \in Buf : c # b => buf'[c].sector = buf[c].sector
          /\ \A c \in Buf : c # b /\ buf[c].sector = want[p] => ~buf[c].busy
      BY <2>1, <2>2, <2>3, Zenon
    <3> QED BY <2>1, <2>4, <2>5, <3>1, GetRefines, Zenon
  <2> QED BY <2>1, <2>6, Zenon DEF BS!Next
<1>3. ASSUME NEW i \in Buf, BgetRecycle(p, i)
      PROVE  BS!Next
  <2> DEFINE b == mru[i]
  <2>1. /\ want[p] \in Sector /\ b \in Buf /\ ~buf[b].busy /\ ~buf[b].dirty /\ disk' = disk
        /\ \A c \in Buf : buf[c].sector # want[p]
    <3>1. pc[p] = "bget" /\ Cached(want[p]) = {} /\ Recyclable(b) /\ disk' = disk
      BY <1>3, Zenon DEF BgetRecycle, Victim, driver
    <3>2. want[p] \in Sector
      BY <1>1, <3>1, Zenon DEF DiskInv, BufferInv, HeldIsValid
    <3>3. b \in Buf
      BY <1>1, <1>3
    <3> QED BY <3>1, <3>2, <3>3, Zenon DEF Recyclable, Cached
  <2>2. buf'[b].sector = want[p] /\ ~buf'[b].valid /\ \A c \in Buf : c # b => buf'[c] = buf[c]
    BY <1>1, <1>3, <2>1, Zenon DEF BgetRecycle
  <2>3. \A q \in Proc : held'[q] = (IF q = p THEN held[q] \cup {b} ELSE held[q])
    BY <1>1, <1>3, Zenon DEF BgetRecycle, Got
  <2> HIDE DEF b
  <2>4. buf[b].valid => buf[b].sector \in Sector /\ buf[b].data = disk[buf[b].sector]
    <3>1. \A q \in Proc : b \notin held[q]
      BY <2>1, Zenon DEF DiskInv, BufferInv, NoBufferLost
    <3>2. ~\E q \in Proc : pc[q] = "changed" /\ arg[q] = b
      BY <3>1, Zenon DEF DiskInv, BufferInv, HeldIsValid
    <3>3. buf[b].valid => buf[b].sector # NoSector /\ buf[b].data = disk[buf[b].sector]
      BY <2>1, <3>2, Zenon DEF DiskInv, BufferInv, CleanIsOnDisk
    <3> QED BY <1>1, <2>1, <3>3, Zenon DEF BufRec
  <2>5. Content' = Content
    <3> SUFFICES ASSUME NEW s \in Sector
                 PROVE  \/ \E c \in Buf : /\ buf[c].sector = s /\ buf[c].valid /\ buf'[c].sector = s /\ buf'[c].valid
                                          /\ buf'[c].data = buf[c].data
                        \/ /\ \A c \in Buf : buf[c].sector = s => ~buf[c].valid
                           /\ \A c \in Buf : buf'[c].sector = s => ~buf'[c].valid
                           /\ disk'[s] = disk[s]
                        \/ \E c \in Buf : /\ buf[c].sector = s /\ buf[c].valid /\ buf[c].data = disk'[s]
                                          /\ \A e \in Buf : buf'[e].sector = s => ~buf'[e].valid
      BY ContentKept, Zenon
    <3>1. CASE \E c \in Buf : c # b /\ buf[c].sector = s /\ buf[c].valid
      <4>1. PICK c \in Buf : c # b /\ buf[c].sector = s /\ buf[c].valid
        BY <3>1, Zenon
      <4>2. buf'[c].sector = s /\ buf'[c].valid /\ buf'[c].data = buf[c].data
        BY <2>2, <4>1, Zenon
      <4> QED BY <4>1, <4>2, Zenon
    <3>2. CASE \A c \in Buf : c # b /\ buf[c].sector = s => ~buf[c].valid
      <4>1. \A c \in Buf : buf'[c].sector = s => ~buf'[c].valid
        BY <2>2, <3>2, Zenon
      <4>2. CASE buf[b].sector = s /\ buf[b].valid
        BY <2>1, <2>4, <4>1, <4>2, Zenon
      <4>3. CASE ~(buf[b].sector = s /\ buf[b].valid)
        BY <2>1, <3>2, <4>1, <4>3, Zenon
      <4> QED BY <4>2, <4>3, Zenon
    <3> QED BY <3>1, <3>2, Zenon
  <2>6. BS!Get(p, want[p])
    BY <2>1, <2>2, <2>3, <2>5, GetRefines, Zenon
  <2> QED BY <2>1, <2>6, Zenon DEF BS!Next
<1>4. ASSUME NEW b \in Buf, Bwrite(p, b) \/ Pin(p, b)
      PROVE  UNCHANGED BS!vars
  <2>1. buf' = [buf EXCEPT ![b].dirty = TRUE] /\ held' = held /\ disk' = disk
    BY <1>4, Zenon DEF Bwrite, Pin, driver
  <2>2. \A c \in Buf : buf'[c].sector = buf[c].sector /\ (buf'[c].valid <=> buf[c].valid) /\ buf'[c].data = buf[c].data
    BY <1>1, <2>1 DEF BufRec
  <2>3. Content' = Content
    BY <2>1, <2>2, ContentSame, Zenon
  <2>4. Holders' = Holders
    BY <1>1, <2>1, <2>2 DEF Holders
  <2> QED BY <2>1, <2>3, <2>4, Zenon DEF BS!vars
<1>5. ASSUME NEW b \in Buf, NEW d \in Data, Change(p, b, d)
      PROVE  BS!Next
  <2> DEFINE s == buf[b].sector
  <2>1. pc[p] = "run" /\ b \in held[p] /\ held' = held /\ disk' = disk
    BY <1>5, Zenon DEF Change, driver
  <2>2. s \in Sector /\ Holders[s] = {p}
    BY <2>1, HoldersIs, Zenon
  <2>3. buf[b].valid
    BY <2>1, Zenon DEF DiskInv, BufferInv, HeldIsValid, Loading, Waiting
  <2>4. /\ \A c \in Buf : c # b => buf'[c] = buf[c]
        /\ buf'[b].sector = s /\ buf'[b].valid /\ buf'[b].data = d
    BY <1>1, <1>5, <2>3, Zenon DEF Change, BufRec
  <2>5. \A c \in Buf : buf'[c].sector = buf[c].sector
    BY <2>4, Zenon
  <2>6. Holders' = Holders
    BY <1>1, <2>1, <2>5 DEF Holders
  <2> HIDE DEF s
  <2>7. Content' = [Content EXCEPT ![s] = d]
    <3>1. OneBuffer /\ OneBuffer' /\ \A c \in Buf : c # b => buf[c].sector # s
      BY <2>2, Constants, Zenon DEF DiskInv, BufferInv, OneBuffer, s
    <3>2. Seen(buf', disk', s) = d
      BY <2>2, <2>4, StepShows, Zenon DEF Shows
    <3>3. ASSUME NEW r \in Sector, r # s
          PROVE  Seen(buf', disk', r) = Seen(buf, disk, r)
      <4>1. Shows(buf, disk, r, Seen(buf, disk, r)) /\ Shows(buf', disk', r, Seen(buf', disk', r))
        BY StepShows, Zenon
      <4>2. \A c \in Buf : buf[c].sector = r => buf'[c] = buf[c]
        BY <2>4, <3>3, Zenon DEF s
      <4>3. \A c \in Buf : buf'[c].sector = r => buf'[c] = buf[c]
        BY <2>4, <3>3, Zenon
      <4>4. CASE \A c \in Buf : buf[c].sector = r => ~buf[c].valid
        BY <2>1, <4>1, <4>3, <4>4, Zenon DEF Shows
      <4>5. ASSUME NEW c \in Buf, buf[c].sector = r, buf[c].valid
            PROVE  Seen(buf', disk', r) = Seen(buf, disk, r)
        <5>1. buf'[c] = buf[c]
          BY <4>2, <4>5, Zenon
        <5>2. Seen(buf, disk, r) = buf[c].data /\ Seen(buf', disk', r) = buf'[c].data
          BY <4>1, <4>5, <5>1, Zenon DEF Shows
        <5> QED BY <5>1, <5>2, Zenon
      <4> QED BY <4>4, <4>5, Zenon
    <3> QED BY <2>2, <3>2, <3>3, ContentIsSeen, Zenon
  <2>8. BS!Change(p, s, d)
    BY <2>1, <2>2, <2>6, <2>7, Zenon DEF BS!Change
  <2> QED BY <2>2, <2>8, Zenon DEF BS!Next
<1>6. ASSUME NEW i \in Buf, Brelse(p, i)
      PROVE  BS!Next
  <2> DEFINE b == mru[i]
             s == buf[b].sector
  <2>1. b \in held[p] /\ b \in Buf /\ disk' = disk /\ buf' = [buf EXCEPT ![b].busy = FALSE]
    BY <1>1, <1>6, Zenon DEF Brelse, driver
  <2>2. s \in Sector /\ Holders[s] = {p}
    BY <2>1, HoldersIs, Zenon
  <2>3. \A q \in Proc : held'[q] = (IF q = p THEN held[q] \ {b} ELSE held[q])
    BY <1>1, <1>6, Zenon DEF Brelse
  <2> HIDE DEF b
  <2>4. \A c \in Buf : buf'[c].sector = buf[c].sector /\ (buf'[c].valid <=> buf[c].valid) /\ buf'[c].data = buf[c].data
    BY <1>1, <2>1 DEF BufRec
  <2>5. Content' = Content
    BY <2>1, <2>4, ContentSame, Zenon
  <2>6. ASSUME NEW r \in Sector
        PROVE  Holders'[r] = IF r = s THEN {} ELSE Holders[r]
    <3>1. \A q \in Proc : \A c \in held'[q] : c \in Buf /\ c \in held[q] /\ c # b
      <4>1. \A q \in Proc : b \in held[q] => q = p
        BY <2>1, HeldBuffer, Zenon
      <4> QED BY <1>1, <2>3, <4>1, Zenon
    <3>2. \A c \in Buf : c # b => buf[c].sector # s
      BY <2>1, <2>2, Constants, Zenon DEF DiskInv, BufferInv, OneBuffer
    <3>3. \A q \in Proc : \A c \in held[q] : c # b => c \in held'[q] /\ c \in Buf
      BY <1>1, <2>3, Zenon
    <3>4. \A q \in Proc : (\E c \in held'[q] : buf'[c].sector = r) <=> r # s /\ \E c \in held[q] : buf[c].sector = r
      BY <2>4, <3>1, <3>2, <3>3
    <3> QED BY <3>4, Zenon DEF Holders
  <2>7. Holders' = [Holders EXCEPT ![s] = {}]
    <3>1. Holders = [r \in Sector |-> Holders[r]] /\ Holders' = [r \in Sector |-> Holders'[r]]
      BY Zenon DEF Holders
    <3> QED BY <2>2, <2>6, <3>1, Zenon
  <2>8. BS!Put(p, s)
    BY <2>1, <2>2, <2>5, <2>7, Zenon DEF BS!Put
  <2> QED BY <2>2, <2>8, Zenon DEF BS!Next
<1> QED BY <1>2, <1>3, <1>4, <1>5, <1>6, Zenon

\* The controller writes a sector: Sync of the store; or reads one: nothing.
LEMMA FinishRefines ==
  ASSUME DiskInv, DiskInv', Finish
  PROVE  [BS!Next]_(BS!vars)
<1> DEFINE b == Head(idequeue)
           s == ide.sector
<1>1. /\ ide # None /\ disk' = (IF ide.write THEN [disk EXCEPT ![s] = ide.data] ELSE disk)
      /\ buf' = buf /\ held' = held
  BY Zenon DEF Finish, cache, procs
<1>2. /\ b \in Buf /\ s \in Sector /\ s = buf[b].sector /\ ide.data = buf[b].data /\ (ide.write <=> buf[b].dirty)
  BY <1>1, ActiveRequest, Zenon
<1>3. PICK p \in Proc : b \in held[p]
  BY <1>1, ActiveRequest, Zenon
<1>4. Holders[s] = {p}
  BY <1>2, <1>3, HoldersIs
<1> HIDE DEF b, s
<1>5. Holders' = Holders
  BY <1>1, Zenon DEF Holders
<1>6. OneBuffer
  BY Zenon DEF DiskInv, BufferInv
<1>7. CASE ide.write
  <2>1. buf[b].valid
    BY <1>2, <1>7, Zenon DEF DiskInv, BufferInv, CleanIsOnDisk
  <2>2. Content[s] = ide.data
    <3>1. Seen(buf, disk, s) = ide.data
      <4>1. Shows(buf, disk, s, Seen(buf, disk, s))
        BY <1>2, <1>6, SeenIs, Zenon DEF OneBuffer
      <4> QED BY <1>2, <2>1, <4>1, Zenon DEF Shows
    <3> QED BY <1>2, <3>1, ContentIsSeen, Zenon
  <2>3. \A r \in Sector : r # s => disk'[r] = disk[r]
    BY <1>1, <1>2, <1>7, Zenon DEF DiskInv, BufferInv, TypeOK
  <2>4. Content' = Content
    <3> SUFFICES ASSUME NEW r \in Sector
                 PROVE  \/ \E c \in Buf : buf[c].sector = r /\ buf[c].valid
                        \/ (\A c \in Buf : buf[c].sector = r => ~buf[c].valid) /\ disk'[r] = disk[r]
      BY <1>1, ContentKept, Zenon
    <3> QED BY <1>2, <2>1, <2>3, Zenon
  <2>5. BS!Sync(p, s)
    BY <1>1, <1>4, <1>5, <1>7, <2>2, <2>4, Zenon DEF BS!Sync
  <2> QED BY <1>2, <2>5, Zenon DEF BS!Next
<1>8. CASE ~ide.write
  <2>1. disk' = disk /\ Content' = Content
    BY <1>1, <1>8, Zenon DEF Content, Cached
  <2> QED BY <1>5, <2>1, Zenon DEF BS!vars
<1> QED BY <1>7, <1>8, Zenon

\* The interrupt handler changes nothing that processes see.
LEMMA IdeintrRefines ==
  ASSUME DiskInv, DiskInv', Ideintr
  PROVE  UNCHANGED BS!vars
<1> DEFINE b == Head(idequeue)
<1>1. irq /\ disk' = disk /\ held' = held
  BY Zenon DEF Ideintr
<1>2. ide # None
  BY <1>1, Zenon DEF DiskInv, DriverInv, QueueIsServed
<1>3. b \in Buf /\ ide.sector = buf[b].sector /\ ~Finished(b) /\ buf[b].sector \in Sector
  BY <1>2, ActiveRequest, Zenon
<1>4. /\ buf \in [Buf -> BufRec] /\ held \in [Proc -> SUBSET Buf]
  BY Zenon DEF DiskInv, BufferInv, TypeOK, BufRec
<1>5. /\ buf' = [buf EXCEPT ![b].valid = TRUE, ![b].dirty = FALSE,
                            ![b].data = IF buf[b].dirty THEN @ ELSE disk[ide.sector]]
  BY Zenon DEF Ideintr
<1> HIDE DEF b
<1>6. \A c \in Buf : c # b => buf'[c] = buf[c]
  BY <1>3, <1>4, <1>5, Zenon
<1>7. buf'[b] = [buf[b] EXCEPT !.valid = TRUE, !.dirty = FALSE,
                               !.data = IF buf[b].dirty THEN buf[b].data ELSE disk[ide.sector]]
  BY <1>3, <1>4, <1>5, Zenon DEF BufRec
<1>8. /\ buf'[b].sector = buf[b].sector /\ buf'[b].valid
      /\ buf'[b].data = (IF buf[b].dirty THEN buf[b].data ELSE disk[ide.sector])
  BY <1>3, <1>4, <1>7 DEF BufRec
<1>9. \A c \in Buf : buf'[c].sector = buf[c].sector
  BY <1>6, <1>8, Zenon
<1>10. Holders' = Holders
  BY <1>1, <1>4, <1>9, Zenon DEF Holders
<1>11. Content' = Content
  <2>1. CASE buf[b].dirty
    <3>1. buf[b].valid
      BY <1>3, <2>1, Zenon DEF DiskInv, BufferInv, CleanIsOnDisk
    <3>2. \A c \in Buf : /\ buf'[c].sector = buf[c].sector /\ (buf'[c].valid <=> buf[c].valid)
                         /\ buf[c].valid => buf'[c].data = buf[c].data
      BY <1>6, <1>8, <2>1, <3>1, Zenon
    <3> QED BY <1>1, <3>2, ContentSame, Zenon
  <2>2. CASE ~buf[b].dirty
    <3>1. ~buf[b].valid /\ buf'[b].data = disk[buf[b].sector]
      BY <1>3, <1>8, <2>2, Zenon DEF Finished
    <3>2. \A c \in Buf : c # b => buf[c].sector # buf[b].sector
      BY <1>3, Constants, Zenon DEF DiskInv, BufferInv, OneBuffer
    <3> SUFFICES ASSUME NEW s \in Sector
                 PROVE  \/ \E c \in Buf : /\ buf[c].sector = s /\ buf[c].valid /\ buf'[c].sector = s /\ buf'[c].valid
                                          /\ buf'[c].data = buf[c].data
                        \/ /\ \A c \in Buf : buf[c].sector = s => ~buf[c].valid
                           /\ \A c \in Buf : buf'[c].sector = s => ~buf'[c].valid
                           /\ disk'[s] = disk[s]
                        \/ \E c \in Buf : /\ buf'[c].sector = s /\ buf'[c].valid /\ buf'[c].data = disk[s]
                                          /\ \A e \in Buf : buf[e].sector = s => ~buf[e].valid
      BY ContentKept, Zenon
    <3>3. CASE s = buf[b].sector
      <4>1. \A c \in Buf : buf[c].sector = s => ~buf[c].valid
        BY <3>1, <3>2, <3>3, Zenon
      <4> QED BY <1>3, <1>8, <3>1, <3>3, <4>1, Zenon
    <3>4. CASE s # buf[b].sector
      <4>1. \A c \in Buf : buf[c].sector = s => buf'[c] = buf[c]
        BY <1>6, <3>4, Zenon
      <4>2. \A c \in Buf : buf'[c].sector = s => buf[c].sector = s
        BY <1>9, Zenon
      <4> QED BY <1>1, <4>1, <4>2, Zenon
    <3> QED BY <3>3, <3>4, Zenon
  <2> QED BY <2>1, <2>2, Zenon
<1> QED BY <1>1, <1>10, <1>11, Zenon DEF BS!vars

\* Every step of the cache and the driver is one of the store, or none.
LEMMA StepRefines ==
  ASSUME DiskInv, DiskInv', [Next]_vars
  PROVE  [BS!Next]_(BS!vars)
<1>1. ASSUME UNCHANGED <<buf, disk, held>>
      PROVE  UNCHANGED BS!vars
  BY <1>1, Zenon DEF BS!vars, Content, Cached, Holders
<1>2. CASE UNCHANGED vars
  BY <1>1, <1>2, Zenon DEF vars, cache, driver, procs
<1>3. ASSUME NEW p \in Proc, Caller(p)
      PROVE  [BS!Next]_(BS!vars)
  <2>1. ASSUME NEW s \in Sector, Bread(p, s)
        PROVE  UNCHANGED BS!vars
    BY <1>1, <2>1, Zenon DEF Bread, cache, driver
  <2>2. CASE BeginTrans(p) \/ CommitTrans(p)
    BY <1>1, <2>2, Zenon DEF BeginTrans, CommitTrans, cache, driver, procs
  <2> QED BY <1>3, <2>1, <2>2, CacheRefines, Zenon DEF Caller
<1>4. ASSUME NEW p \in Proc, Inside(p)
      PROVE  [BS!Next]_(BS!vars)
  <2>1. CASE BgetSleep(p) \/ BgetPanic(p)
    BY <1>1, <2>1, Zenon DEF BgetSleep, BgetPanic, cache, driver, procs
  <2>2. CASE Iderw(p) \/ IderwLoop(p) \/ IderwWoken(p)
    BY <1>1, <2>2, Zenon DEF Iderw, IderwLoop, IderwWoken, cache
  <2> QED BY <1>4, <2>1, <2>2, CacheRefines, Zenon DEF Inside, Bget
<1> QED BY <1>2, <1>3, <1>4, FinishRefines, IdeintrRefines, Zenon DEF Next

\* The buffer cache over the disk driver implements a store of blocks: whatever
\* is recycled, queued and interrupted, a sector has one content, which only the
\* process that got it with bread() changes, and the platter gets that content
\* while the process has it.
THEOREM CacheImplementsBlockStore == Spec => IsBlockStore
<1>1. Init => BS!Init
  <2> SUFFICES ASSUME Init
               PROVE  BS!Init
    BY Zenon
  <2>1. \A b \in Buf : ~buf[b].valid
    BY DEF Init
  <2>2. disk \in [Sector -> Data]
    BY Zenon DEF Init
  <2>3. Content = disk
    BY <2>1, <2>2, Zenon DEF Content, Cached
  <2>4. Holders = [s \in Sector |-> {}]
    BY Zenon DEF Init, Holders
  <2> QED BY <2>2, <2>3, <2>4, Zenon DEF BS!Init
<1>2. DiskInv /\ DiskInv' /\ [Next]_vars => [BS!Next]_(BS!vars)
  BY StepRefines, Zenon
<1>3. DiskInv /\ [Next]_vars => DiskInv'
  BY StepInv, Zenon
<1> QED BY <1>1, <1>2, <1>3, InitInv, PTL DEF Spec, IsBlockStore, BS!Spec
=============================================================================
